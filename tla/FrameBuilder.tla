---------------------------- MODULE FrameBuilder ----------------------------
(***************************************************************************)
(* frame_builder: takes PSDUs from its message queue, builds the HT or VHT *)
(* frame of each with the parameters of the moment, and writes it to one   *)
(* or two outputs.  It reads the parameters one after the other before it  *)
(* takes the lock that the setters take, so a setter may come between any  *)
(* two reads.                                                              *)
(*                                                                         *)
(* What is in a frame is abstracted to the PSDU it carries and the length; *)
(* build_frame to what it refuses and how many antennas it makes.          *)
(***************************************************************************)
EXTENDS Integers, Sequences

CONSTANTS
    N_TX,               \* d_ntx: outputs
    Values,             \* what each setter is called with, by parameter
    Sizes,              \* the lengths of frames
    MAX_PDUS,           \* bound: messages
    MAX_SET             \* bound: calls of setters

Params == {"format", "fec", "mcs", "bw"}
ReadOrder == <<"format", "fec", "mcs", "bw">>

ASSUME BuilderAssumption ==
    /\ N_TX \in {1, 2}
    /\ Sizes \subseteq Nat \ {0}
    /\ Values.format \subseteq {"HT", "VHT"} /\ Values.fec \subseteq {"BCC", "LDPC"}
    /\ Values.mcs \subseteq Nat /\ Values.bw \subseteq Nat
    /\ MAX_PDUS \in Nat /\ MAX_SET \in Nat

Outputs == 1 .. N_TX

VARIABLES
    pdus, taken,        \* the message queue "in": whether each is a pair
    config, nset,       \* d_format, d_fec, d_mcs, d_bw
    nread, params,      \* p, and how many of its members are read; -1: none
                        \* is being read
    inForce,            \* the configurations while they were read
    ant, offset,        \* d_ant, d_offset
    out, tags,          \* the items and the tags of each output
    built, dropped      \* PDUs by their fate, each with params and inForce

vars == <<pdus, taken, config, nset, nread, params, inForce, ant, offset, out, tags,
          built, dropped>>

NoSamples == [pdu |-> 0, kind |-> "none", size |-> 0]
Idle == ant[1].size = 0

Init ==
    /\ pdus = <<>> /\ taken = 0
    /\ config \in [format : Values.format, fec : Values.fec, mcs : Values.mcs,
                  bw : Values.bw]
    /\ nset = 0
    /\ nread = -1 /\ params = config /\ inForce = {}
    /\ ant = [ch \in Outputs |-> NoSamples] /\ offset = 0
    /\ out = [ch \in Outputs |-> <<>>] /\ tags = [ch \in Outputs |-> <<>>]
    /\ built = <<>> /\ dropped = <<>>

-----------------------------------------------------------------------------
(* build_frame: the combinations it supports, and those that make streams   *)
(* for two antennas.  The block never asks for STBC or two VHT streams.     *)
Mimo(p) == p.format = "HT" /\ p.fec = "BCC" /\ p.bw = 20 /\ p.mcs \in 8 .. 15

Supported(p) ==
    \/ Mimo(p)
    \/ p.format = "HT" /\ p.bw \in {20, 40} /\ p.mcs <= 7
    \/ /\ p.format = "VHT" /\ p.fec = "BCC"
       /\ \/ p.bw = 20 /\ p.mcs <= 8
          \/ p.bw = 40 /\ p.mcs <= 9

-----------------------------------------------------------------------------
Post ==
    /\ Len(pdus) < MAX_PDUS
    /\ \E pair \in BOOLEAN : pdus' = Append(pdus, pair)
    /\ UNCHANGED <<taken, config, nset, nread, params, inForce, ant, offset, out, tags,
                   built, dropped>>

(* A setter. *)
Set ==
    /\ nset < MAX_SET /\ nset' = nset + 1
    /\ \E f \in Params : \E v \in Values[f] : config' = [config EXCEPT ![f] = v]
    /\ inForce' = IF nread >= 0 THEN inForce \cup {config'} ELSE inForce
    /\ UNCHANGED <<pdus, taken, nread, params, ant, offset, out, tags, built, dropped>>

-----------------------------------------------------------------------------
(* general_work, while there is no frame: the next message. *)
Take ==
    /\ Idle /\ nread = -1 /\ taken < Len(pdus)
    /\ taken' = taken + 1
    /\ IF pdus[taken + 1] THEN nread' = 0 /\ inForce' = {config}
                          ELSE UNCHANGED <<nread, inForce>>
    /\ UNCHANGED <<pdus, config, nset, params, ant, offset, out, tags, built, dropped>>

(* Mutant: a parameter is read for the first PDU only. *)
ReadOnce(f) == IF f = "bw" /\ taken > 1 THEN params[f] ELSE config[f]

Value(f) == config[f]

(* One parameter is read, without the lock. *)
Read ==
    /\ nread \in 0 .. Len(ReadOrder) - 1
    /\ nread' = nread + 1
    /\ LET f == ReadOrder[nread + 1] IN params' = [params EXCEPT ![f] = Value(f)]
    /\ UNCHANGED <<pdus, taken, config, nset, inForce, ant, offset, out, tags, built, dropped>>

(* Mutant: the second antenna keeps what it has. *)
SecondKept(size) == IF Mimo(params) THEN [pdu |-> taken, kind |-> "stream", size |-> size]
                                    ELSE ant[2]

(* The second antenna is silent for a frame of one stream. *)
Second(size) == [pdu |-> taken, kind |-> IF Mimo(params) THEN "stream" ELSE "zeros",
                 size |-> size]

Fate == [pdu |-> taken, params |-> params, inForce |-> inForce]

(* build_frame, under the lock; an exception drops the PDU. *)
Build ==
    /\ nread = Len(ReadOrder) /\ nread' = -1
    /\ IF Supported(params)
       THEN \E size \in Sizes :
            /\ ant' = [ch \in Outputs |->
                          IF ch = 1 THEN [pdu |-> taken, kind |-> "stream", size |-> size]
                                    ELSE Second(size)]
            /\ offset' = 0
            /\ tags' = [ch \in Outputs |-> Append(tags[ch],
                           [at |-> Len(out[ch]), len |-> size, pdu |-> taken])]
            /\ built' = Append(built, Fate)
            /\ UNCHANGED dropped
       ELSE dropped' = Append(dropped, Fate) /\ UNCHANGED <<ant, offset, tags, built>>
    /\ UNCHANGED <<pdus, taken, config, nset, params, inForce, out>>

(* Mutant: the end of a frame is not noticed. *)
FinishedLate(n) == offset + n > ant[1].size

Finished(n) == offset + n = ant[1].size

(* The rest of a frame, as far as there is room. *)
Copy(noutput) ==
    /\ ~Idle
    /\ LET left == ant[1].size - offset
           n    == IF noutput < left THEN noutput ELSE left
           item(ch, i) == [pdu |-> ant[ch].pdu, kind |-> ant[ch].kind, index |-> offset + i]
       IN  /\ out' = [ch \in Outputs |-> out[ch] \o [i \in 1 .. n |-> item(ch, i)]]
           /\ IF Finished(n) THEN ant' = [ch \in Outputs |-> NoSamples] /\ offset' = 0
                             ELSE offset' = offset + n /\ UNCHANGED ant
    /\ UNCHANGED <<pdus, taken, config, nset, nread, params, inForce, tags, built, dropped>>

Work == Take \/ Read \/ Build \/ \E size \in Sizes : \E noutput \in 1 .. size : Copy(noutput)

Next == Post \/ Set \/ Work

(* GNU Radio calls the block again while it has a message or a frame, and   *)
(* what reads its outputs makes room.                                       *)
Spec == Init /\ [][Next]_vars
FairSpec == Spec /\ WF_vars(Work)

-----------------------------------------------------------------------------
(* Every output carries the frames of the same PDUs, in the order in which  *)
(* they were posted and each behind its tags, at the same items: with two,  *)
(* the other antenna of a two-stream frame, or silence beside a frame of    *)
(* one stream, but never a rest of something else.                          *)
AntennasTogether ==
    \A ch \in Outputs :
        /\ tags[ch] = tags[1] /\ Len(out[ch]) = Len(out[1])
        /\ Len(tags[ch]) = Len(built)
        /\ \A k \in DOMAIN tags[ch] :
              LET tag == tags[ch][k]
                  items == tag.at + 1 .. Len(out[ch])
                  rate == built[k].params
              IN  /\ tag.pdu = built[k].pdu
                  /\ k < Len(tags[ch]) => /\ tags[ch][k + 1].at = tag.at + tag.len
                                          /\ tags[ch][k + 1].pdu > tag.pdu
                  /\ \A i \in items : i <= tag.at + tag.len =>
                        out[ch][i] = [pdu |-> tag.pdu, index |-> i - tag.at,
                                      kind |-> IF ch = 1 \/ Mimo(rate) THEN "stream" ELSE "zeros"]

(* A frame is built with values that were in force after its PDU left the   *)
(* queue, none left over from an earlier one: with exactly the              *)
(* configuration if no setter was called meanwhile.                         *)
BuiltAsConfigured ==
    \A k \in DOMAIN built : \A f \in Params :
        \E c \in built[k].inForce : built[k].params[f] = c[f]

(* Every PDU is sent whole or dropped in the end, and the block goes on.    *)
EveryPduHandled ==
    \A k \in 1 .. MAX_PDUS :
        (k \in DOMAIN pdus /\ pdus[k])
        ~> \/ \E i \in DOMAIN dropped : dropped[i].pdu = k
           \/ \E i \in DOMAIN tags[1] : /\ tags[1][i].pdu = k
                                        /\ Len(out[1]) >= tags[1][i].at + tags[1][i].len

-----------------------------------------------------------------------------
(* "unsupported params -> drop this PDU, keep running"                      *)
(* (frame_builder_impl.cc:71): a PDU is dropped only if a configuration in  *)
(* force while its parameters were read is unsupported.                     *)
OnlyUnsupportedDropped ==
    \A k \in DOMAIN dropped : \E c \in dropped[k].inForce : ~Supported(c)
=============================================================================

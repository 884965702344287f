----------------------------- MODULE AirStream ------------------------------
(***************************************************************************)
(* The air between the stations, and the receive chain up to decode_mac:   *)
(* what one station sends another decodes in order, or not at all, or      *)
(* again when it is retransmitted; frames of other networks come between.  *)
(* decode_mac's PDUs go to every block behind it, each with a message      *)
(* queue of its own; a queue is kept as a position in `heard'.             *)
(***************************************************************************)
EXTENDS Integers, Sequences

CONSTANTS
    Stations,           \* the stations that run this transceiver
    OTHERS,             \* the sender of every other frame
    Hears,              \* who hears whom: <<receiver, sender>>
    Foreign,            \* frames of OTHERS that may be heard
    MAX_HEARD,          \* bound: frames decoded by a station
    MAX_FOREIGN         \* bound: those of them that are foreign

VARIABLES
    aired,              \* the PSDUs that each station sent
    heard               \* the PDUs that decode_mac of each station published

airVars == <<aired, heard>>

(* A frame: the n-th of its sender (0 if that is OTHERS), its type, its     *)
(* length (that of the PSDU; in a PDU, without the FCS), and the sequence   *)
(* control field.                                                           *)
Kinds == {"Management", "Control", "Data", "QoS", "OtherData", "Extension"}
Field == {x \in Nat : x <= 65535}
Frame == [from : Stations \cup {OTHERS}, n : Nat, kind : Kinds, len : Nat,
          field : Field]

ASSUME AirAssumption ==
    /\ OTHERS \notin Stations
    /\ Hears \subseteq Stations \X (Stations \cup {OTHERS})
    /\ \A f \in Foreign : /\ f \in Frame
                          /\ f.from = OTHERS /\ f.n = 0 /\ f.len >= 4
    /\ MAX_HEARD \in Nat /\ MAX_FOREIGN \in Nat

AirTypeOK == aired \in [Stations -> Seq(Frame)] /\ heard \in [Stations -> Seq(Frame)]

AirInit == /\ aired = [s \in Stations |-> <<>>]
           /\ heard = [s \in Stations |-> <<>>]

(* decode_mac publishes the PSDU without its FCS. *)
Publish(s, f) ==
    /\ Len(heard[s]) < MAX_HEARD
    /\ heard' = [heard EXCEPT ![s] = Append(@, [f EXCEPT !.len = f.len - 4])]
    /\ UNCHANGED aired

(* Station s decodes a frame of p: none older than the last one, which may  *)
(* come again; those skipped over are lost.                                 *)
HearStation(s, p) ==
    /\ <<s, p>> \in Hears
    /\ \E n \in DOMAIN aired[p] :
          /\ \A k \in DOMAIN heard[s] : heard[s][k].from = p => heard[s][k].n <= n
          /\ Publish(s, aired[p][n])

HearForeign(s, f) ==
    /\ <<s, OTHERS>> \in Hears
    /\ LET foreign(g) == g.from = OTHERS
       IN  Len(SelectSeq(heard[s], foreign)) < MAX_FOREIGN
    /\ Publish(s, f)
=============================================================================

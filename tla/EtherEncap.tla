----------------------------- MODULE EtherEncap -----------------------------
(***************************************************************************)
(* ether_encap: wraps the IP packets of the tap interface for mac, and     *)
(* unwraps the data frames that decode_mac publishes, except one with the  *)
(* sequence number of the frame before.                                    *)
(***************************************************************************)
EXTENDS AirStream

VARIABLES
    tapIn,              \* lengths of the Ethernet frames passed on to mac
    encapRead,          \* PDUs that from_wifi has handled
    lastSeq,            \* d_last_seq
    tapOut              \* the Ethernet frames handed to the tap

encapVars == <<tapIn, encapRead, lastSeq, tapOut>>

ETHERNET == 14          \* sizeof(ethernet_header)
HEADER   == 24          \* sizeof(mac_header)
LLC      == 8           \* the LLC and SNAP headers that from_tap adds

EncapTypeOK ==
    /\ tapIn \in [Stations -> Seq(Nat)]
    /\ encapRead \in [Stations -> Nat]
    /\ lastSeq \in [Stations -> Field]
    /\ tapOut \in [Stations -> Seq([at : Nat, from : Stations \cup {OTHERS},
                                    n : Nat, len : Nat])]

EncapInit ==
    /\ tapIn     = [s \in Stations |-> <<>>]
    /\ encapRead = [s \in Stations |-> 0]
    /\ lastSeq   = [s \in Stations |-> 123]
    /\ tapOut    = [s \in Stations |-> <<>>]

-----------------------------------------------------------------------------
(* An IP packet in an Ethernet frame of `len' bytes is passed on to mac.    *)
(* ARP, other types and frames without a whole header change nothing.       *)
FromTap(s, len) ==
    /\ len >= ETHERNET
    /\ tapIn' = [tapIn EXCEPT ![s] = Append(@, len)]
    /\ UNCHANGED <<encapRead, lastSeq, tapOut>>

MsduLen(len) == LLC + (len - ETHERNET)

-----------------------------------------------------------------------------
(* from_wifi, on the next PDU f of station s. *)

(* Mutant: the 8 bytes that from_tap added are left in. *)
PayloadOffsetKeepsLlc(f) == IF f.kind = "QoS" THEN HEADER + 2 ELSE HEADER

PayloadOffset(f) == IF f.kind = "QoS" THEN HEADER + 2 + LLC ELSE HEADER + LLC

ToUnwrap(s)  == encapRead[s] < Len(heard[s])
NextPdu(s)   == heard[s][encapRead[s] + 1]
PduHandled(s) == /\ encapRead' = [encapRead EXCEPT ![s] = @ + 1]
                 /\ UNCHANGED tapIn

(* Mutant: the sequence number is taken from a frame too short to have one. *)
SkipShortNoted(s) ==
    /\ ToUnwrap(s) /\ NextPdu(s).len < HEADER
    /\ PduHandled(s)
    /\ lastSeq' = [lastSeq EXCEPT ![s] = NextPdu(s).field]
    /\ UNCHANGED tapOut

SkipShort(s) ==
    /\ ToUnwrap(s) /\ NextPdu(s).len < HEADER
    /\ PduHandled(s)
    /\ UNCHANGED <<lastSeq, tapOut>>

(* "frame already seen": the sequence control field of the frame before. *)
SkipSeen(s) ==
    /\ ToUnwrap(s) /\ NextPdu(s).len >= HEADER
    /\ NextPdu(s).field = lastSeq[s]
    /\ PduHandled(s)
    /\ UNCHANGED <<lastSeq, tapOut>>

IsNew(s) ==
    /\ ToUnwrap(s) /\ NextPdu(s).len >= HEADER
    /\ NextPdu(s).field # lastSeq[s]
    /\ PduHandled(s)
    /\ lastSeq' = [lastSeq EXCEPT ![s] = NextPdu(s).field]

Carries(f) == f.kind \in {"Data", "QoS"} /\ f.len >= PayloadOffset(f)

(* Management and control frames, other kinds of data, too little data. *)
SkipOther(s) == IsNew(s) /\ ~Carries(NextPdu(s)) /\ UNCHANGED tapOut

Unwrapped(s) ==
    [at |-> encapRead[s] + 1, from |-> NextPdu(s).from, n |-> NextPdu(s).n,
     len |-> ETHERNET + (NextPdu(s).len - PayloadOffset(NextPdu(s)))]

Unwrap(s) ==
    /\ IsNew(s) /\ Carries(NextPdu(s))
    /\ tapOut' = [tapOut EXCEPT ![s] = Append(@, Unwrapped(s))]

FromWifi(s) == SkipShort(s) \/ SkipSeen(s) \/ SkipOther(s) \/ Unwrap(s)
=============================================================================

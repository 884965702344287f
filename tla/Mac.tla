--------------------------------- MODULE Mac --------------------------------
(***************************************************************************)
(* mac: numbers the MSDUs of the application port and sends them as data   *)
(* frames; takes the header off the frames it hears.  Both handlers run on *)
(* the one thread of the block, which an exception ends.                   *)
(***************************************************************************)
EXTENDS EtherEncap

CONSTANTS
    SEQ_MOD,            \* 1 << 12: sequence numbers
    COUNTER_MOD,        \* 1 << 16: values of d_seq_nr
    MAX_PAYLOAD_SIZE    \* 1500

ASSUME MacAssumption ==
    /\ SEQ_MOD \in Nat /\ 2 <= SEQ_MOD /\ SEQ_MOD <= 4096
    /\ COUNTER_MOD \in Nat /\ COUNTER_MOD > 0 /\ COUNTER_MOD % SEQ_MOD = 0
    /\ MAX_PAYLOAD_SIZE \in Nat

VARIABLES
    seqNr,              \* d_seq_nr
    running,            \* no exception has ended the thread of the block
    phyRead             \* PDUs that phy_in has handled

macVars == <<seqNr, running, phyRead>>

MacTypeOK ==
    /\ seqNr \in [Stations -> 0 .. COUNTER_MOD - 1]
    /\ running \in [Stations -> BOOLEAN]
    /\ phyRead \in [Stations -> Nat]
    /\ \A s \in Stations : \A k \in DOMAIN aired[s] :
          aired[s][k].len <= MAX_PAYLOAD_SIZE + HEADER + 4

MacInit ==
    /\ seqNr   = [s \in Stations |-> 0]
    /\ running = [s \in Stations |-> TRUE]
    /\ phyRead = [s \in Stations |-> 0]

-----------------------------------------------------------------------------
(* app_in, on the next MSDU that ether_encap passed on: the messages come   *)
(* in order, so it is the one after those that were sent.                   *)
ToSend(s)   == running[s] /\ Len(aired[s]) < Len(tapIn[s])
NextMsdu(s) == MsduLen(tapIn[s][Len(aired[s]) + 1])

(* generate_mac_data_frame: the 12 low bits of d_seq_nr are the sequence    *)
(* number, above 4 bits for a fragment number.                              *)
DataFrame(s) ==
    [from |-> s, n |-> Len(aired[s]) + 1, kind |-> "Data",
     len |-> HEADER + NextMsdu(s) + 4, field |-> 16 * (seqNr[s] % SEQ_MOD)]

(* Mutant: the length is not checked. *)
AppInAnyLength(s) ==
    /\ ToSend(s)
    /\ aired' = [aired EXCEPT ![s] = Append(@, DataFrame(s))]
    /\ seqNr' = [seqNr EXCEPT ![s] = (@ + 1) % COUNTER_MOD]
    /\ UNCHANGED <<heard, running, phyRead>>

(* Mutant: the counter stays. *)
AppInSameNumber(s) ==
    /\ ToSend(s) /\ NextMsdu(s) <= MAX_PAYLOAD_SIZE
    /\ aired' = [aired EXCEPT ![s] = Append(@, DataFrame(s))]
    /\ UNCHANGED <<heard, seqNr, running, phyRead>>

AppIn(s) ==
    /\ ToSend(s) /\ NextMsdu(s) <= MAX_PAYLOAD_SIZE
    /\ aired' = [aired EXCEPT ![s] = Append(@, DataFrame(s))]
    /\ seqNr' = [seqNr EXCEPT ![s] = (@ + 1) % COUNTER_MOD]
    /\ UNCHANGED <<heard, running, phyRead>>

(* "Frame too large (> 1500)". *)
AppInThrow(s) ==
    /\ ToSend(s) /\ NextMsdu(s) > MAX_PAYLOAD_SIZE
    /\ running' = [running EXCEPT ![s] = FALSE]
    /\ UNCHANGED <<airVars, seqNr, phyRead>>

-----------------------------------------------------------------------------
(* phy_in: the MSDU goes to the application port, which nothing listens to  *)
(* in the transceiver; a PDU shorter than a header makes a blob of negative *)
(* length, and its allocation throws.                                       *)
PhyIn(s) ==
    /\ running[s] /\ phyRead[s] < Len(heard[s])
    /\ phyRead' = [phyRead EXCEPT ![s] = @ + 1]
    /\ running' = [running EXCEPT ![s] = heard[s][phyRead'[s]].len >= HEADER]
    /\ UNCHANGED <<airVars, seqNr>>
=============================================================================

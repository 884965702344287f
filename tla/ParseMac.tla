------------------------------ MODULE ParseMac ------------------------------
(***************************************************************************)
(* parse_mac: reads the headers of the frames heard and counts, from their *)
(* sequence numbers, the data frames that were lost in between.            *)
(***************************************************************************)
EXTENDS Mac

VARIABLES
    parseRead,          \* PDUs that parse has handled
    lastSeqNo,          \* d_last_seq_no
    reports             \* "lost frames" of the data frames, with their PDU

parseVars == <<parseRead, lastSeqNo, reports>>

(* -1 before the first data frame. *)
LastNumber == {x \in Int : -1 <= x /\ x <= 4095}

ParseTypeOK ==
    /\ parseRead \in [Stations -> Nat]
    /\ lastSeqNo \in [Stations -> LastNumber]
    /\ reports \in [Stations -> Seq([at : Nat, lost : Int])]

ParseInit ==
    /\ parseRead = [s \in Stations |-> 0]
    /\ lastSeqNo = [s \in Stations |-> -1]
    /\ reports   = [s \in Stations |-> <<>>]

IsData(f) == f.kind \in {"Data", "QoS", "OtherData"} /\ f.len >= HEADER

SeqNo(f) == f.field \div 16

(* How many numbers lie between the last one and this one. *)
LostFrames(last, f) ==
    LET lost == SeqNo(f) - last - 1
    IN  IF lost < 0 THEN lost + SEQ_MOD ELSE lost

ToParse(s)    == parseRead[s] < Len(heard[s])
NextParsed(s) == heard[s][parseRead[s] + 1]

ParseData(s) ==
    /\ ToParse(s) /\ IsData(NextParsed(s))
    /\ parseRead' = [parseRead EXCEPT ![s] = @ + 1]
    /\ reports' = [reports EXCEPT ![s] = Append(@,
           [at |-> parseRead'[s], lost |-> LostFrames(lastSeqNo[s], NextParsed(s))])]
    /\ lastSeqNo' = [lastSeqNo EXCEPT ![s] = SeqNo(NextParsed(s))]

(* Mutant: the sequence number of a management frame is kept. *)
ParseOtherNoted(s) ==
    /\ ToParse(s) /\ ~IsData(NextParsed(s))
    /\ parseRead' = [parseRead EXCEPT ![s] = @ + 1]
    /\ lastSeqNo' = [lastSeqNo EXCEPT ![s] = SeqNo(NextParsed(s))]
    /\ UNCHANGED reports

(* Management and control frames, and frames too short to parse. *)
ParseOther(s) ==
    /\ ToParse(s) /\ ~IsData(NextParsed(s))
    /\ parseRead' = [parseRead EXCEPT ![s] = @ + 1]
    /\ UNCHANGED <<lastSeqNo, reports>>

Parse(s) == ParseData(s) \/ ParseOther(s)
=============================================================================

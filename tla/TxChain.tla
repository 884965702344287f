------------------------------- MODULE TxChain -------------------------------
(***************************************************************************)
(* The legacy transmitter, from mapper to the frame: mapper's items are    *)
(* read twice, by the header generator (with signal_field as its           *)
(* formatter) and by chunks_to_symbols, and tagged_stream_mux puts header  *)
(* and payload together again.  Each is a thread.  The framing of these    *)
(* three is GNU Radio's: they wait for a whole packet, as packet_len says, *)
(* and their work is called with it.                                       *)
(***************************************************************************)
EXTENDS Mapper

CONSTANT BUFFER         \* the items that fit between mapper and its readers

(* A packet must fit, or its readers would wait for its end for ever.       *)
ASSUME BufferAssumption == BUFFER \in Nat /\ BUFFER >= MAX_SYM * CARRIERS

VARIABLES
    headerRead, headers,    \* items read by the header generator; its output
    chunkRead, payloads,    \* those of chunks_to_symbols; its output
    sent                    \* frames after the multiplexer

vars == <<mapperVars, headerRead, headers, chunkRead, payloads, sent>>

Init == /\ MapperInit
        /\ headerRead = 0 /\ headers = <<>>
        /\ chunkRead = 0 /\ payloads = <<>>
        /\ sent = <<>>

-----------------------------------------------------------------------------
Room == BUFFER - (produced - Min({headerRead, chunkRead}))

Map == MapperWork(Room) /\ UNCHANGED <<headerRead, headers, chunkRead, payloads, sent>>

(* Mutant: the packet after it must have begun. *)
PacketPast(read) == {k \in DOMAIN bursts : bursts[k].at = read /\ read + bursts[k].len < produced}

(* The packet that starts at item `read', once all of it is there. *)
Packet(read) == {k \in DOMAIN bursts : bursts[k].at = read /\ read + bursts[k].len <= produced}
TagsIn(read, len) == {k \in DOMAIN bursts : bursts[k].at \in read .. read + len - 1}

(* Mutant: the encoding of the moment. *)
FormatHeaderNow(read, len) ==
    SignalHeader(encoding, bursts[Max(TagsIn(read, len))].bytes)

(* header_formatter: the last tag of each name counts. *)
FormatHeader(read, len) ==
    LET last == bursts[Max(TagsIn(read, len))]
    IN  SignalHeader(last.encoding, last.bytes)

GenerateHeader ==
    \E k \in Packet(headerRead) :
        /\ headers' = Append(headers, FormatHeader(headerRead, bursts[k].len))
        /\ headerRead' = headerRead + bursts[k].len
        /\ UNCHANGED <<mapperVars, chunkRead, payloads, sent>>

(* chunks_to_symbols: with another number of tags than one in the packet it *)
(* throws, and its thread ends: no step.  The constellation is that of the  *)
(* tag's encoding.                                                          *)
MapChunks ==
    \E k \in Packet(chunkRead) :
        /\ Cardinality(TagsIn(chunkRead, bursts[k].len)) = 1
        /\ payloads' = Append(payloads,
               [pdu |-> bursts[k].pdu, coding |-> bursts[k].coding, items |-> bursts[k].len,
                bpsc |-> LegacyCoding[bursts[k].encoding + 1].bpsc])
        /\ chunkRead' = chunkRead + bursts[k].len
        /\ UNCHANGED <<mapperVars, headerRead, headers, sent>>

(* tagged_stream_mux takes a packet from each. *)
Multiplex ==
    /\ Len(sent) < Len(headers) /\ Len(sent) < Len(payloads)
    /\ sent' = Append(sent, [header |-> headers[Len(sent) + 1],
                             payload |-> payloads[Len(sent) + 1]])
    /\ UNCHANGED <<mapperVars, headerRead, headers, chunkRead, payloads>>

Outside == (Post \/ SetEncoding)
           /\ UNCHANGED <<headerRead, headers, chunkRead, payloads, sent>>

Next == Outside \/ Map \/ GenerateHeader \/ MapChunks \/ Multiplex

(* GNU Radio calls a block again while it has input or messages and there   *)
(* is room for its output; nobody has to send.                              *)
Spec == Init /\ [][Next]_vars
FairSpec == /\ Spec
            /\ WF_vars(Map) /\ WF_vars(GenerateHeader)
            /\ WF_vars(MapChunks) /\ WF_vars(Multiplex)

-----------------------------------------------------------------------------
Bits == [1 .. 18 -> {0, 1}]

TypeOK ==
    /\ MapperTypeOK
    /\ headerRead \in 0 .. produced /\ chunkRead \in 0 .. produced
    /\ headers \in Seq(Bits)
    /\ payloads \in Seq([pdu : 1 .. Len(pdus), coding : 0 .. 7, items : Nat, bpsc : Nat])
    /\ sent \in Seq([header : Bits, payload : {payloads[k] : k \in DOMAIN payloads}])

(* What parse_signal reads from the header of a frame is what its payload   *)
(* is: length, encoding, number of symbols and constellation, however often *)
(* set_encoding was called while the PSDU went through the threads.         *)
SignalDescribesPayload ==
    \A k \in DOMAIN sent :
        LET signal  == ParseSignal(sent[k].header)
            payload == sent[k].payload
        IN  /\ signal.ok
            /\ signal.encoding = payload.coding
            /\ signal.bytes = pdus[payload.pdu]
            /\ NSym(signal.bytes, LegacyOfdm(signal.encoding).dbps) * CARRIERS
                   = payload.items
            /\ LegacyCoding[signal.encoding + 1].bpsc = payload.bpsc

(* A PSDU is sent at most once and never after a later one. *)
Delivery == INSTANCE FrameDelivery WITH
    announced <- 1 .. Len(pdus),
    delivered <- [k \in DOMAIN sent |-> sent[k].payload.pdu]

DeliverySpec == Delivery!Spec

(* A PSDU that is not too long for any encoding that may be in force is     *)
(* sent in the end.                                                         *)
Sendable(m) == /\ m \in PsduLens
               /\ \A e \in Encodings : NSym(m, LegacyOfdm(e).dbps) <= MAX_SYM

PduSent ==
    \A k \in 1 .. MAX_PDUS :
        (k \in DOMAIN pdus /\ Sendable(pdus[k]))
        ~> \E i \in DOMAIN sent : sent[i].payload.pdu = k
=============================================================================

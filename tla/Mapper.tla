------------------------------- MODULE Mapper --------------------------------
(***************************************************************************)
(* mapper: takes PSDUs from its message queue, one at a time, and writes   *)
(* the symbols of each as a burst of items with three tags on the first.   *)
(* The flow graph changes the encoding from another thread.                *)
(*                                                                         *)
(* `pdus' is every message that was ever posted, `taken' how many of them  *)
(* have left the queue.  A burst remembers what its symbols were made of   *)
(* beside what its tags say.                                               *)
(***************************************************************************)
EXTENDS SignalField

CONSTANTS
    CARRIERS,           \* items of one OFDM symbol: 48
    SEEDS,              \* the initial states of the scrambler: 127
    Encodings,          \* the encodings that set_encoding is called with
    PsduLens,           \* the lengths of the PSDUs
    NOT_A_PAIR,         \* any other message
    MAX_PDUS,           \* bound: messages
    MAX_SET             \* bound: calls of set_encoding

ASSUME MapperAssumption ==
    /\ CARRIERS \in Nat \ {0} /\ SEEDS \in Nat \ {0}
    /\ Encodings \subseteq 0 .. 7
    /\ PsduLens \subseteq Nat /\ NOT_A_PAIR \notin Nat
    /\ MAX_PDUS \in Nat /\ MAX_SET \in Nat

VARIABLES
    pdus, taken,        \* the message queue "in"
    encoding, nset,     \* d_ofdm, and how often it was set
    scrambler,          \* d_scrambler
    symbolsLen,         \* d_symbols_len
    symbolsOffset,      \* d_symbols_offset
    produced,           \* nitems_written(0)
    bursts              \* tags and symbols, by burst

mapperVars == <<pdus, taken, encoding, nset, scrambler, symbolsLen, symbolsOffset,
                produced, bursts>>

Burst == [at : Nat, pdu : Nat \ {0}, bytes : Nat, encoding : 0 .. 7, len : Nat,
          coding : 0 .. 7, seed : Nat]

MapperTypeOK ==
    /\ pdus \in Seq(PsduLens \cup {NOT_A_PAIR}) /\ taken \in 0 .. Len(pdus)
    /\ encoding \in 0 .. 7 /\ nset \in 0 .. MAX_SET
    /\ scrambler \in 1 .. SEEDS
    /\ symbolsLen \in Nat /\ symbolsOffset \in Nat /\ produced \in Nat
    /\ bursts \in Seq(Burst)

MapperInit ==
    /\ pdus = <<>> /\ taken = 0
    /\ encoding \in Encodings /\ nset = 0
    /\ scrambler = 1
    /\ symbolsLen = 0 /\ symbolsOffset = 0 /\ produced = 0
    /\ bursts = <<>>

-----------------------------------------------------------------------------
(* The outside: a message arrives; the encoding is changed (set_encoding    *)
(* waits for the lock under which a PSDU is coded).                         *)
Post ==
    /\ Len(pdus) < MAX_PDUS
    /\ \E m \in PsduLens \cup {NOT_A_PAIR} : pdus' = Append(pdus, m)
    /\ UNCHANGED <<taken, encoding, nset, scrambler, symbolsLen, symbolsOffset,
                   produced, bursts>>

SetEncoding ==
    /\ nset < MAX_SET /\ nset' = nset + 1
    /\ encoding' \in Encodings
    /\ UNCHANGED <<pdus, taken, scrambler, symbolsLen, symbolsOffset, produced, bursts>>

-----------------------------------------------------------------------------
(* general_work.  With nothing left of the last burst it looks for the      *)
(* first pair in the queue; what is before it is lost.                      *)
(* Mutant: the message taken last is still there. *)
NextPdusAgain == {k \in 1 .. Len(pdus) : k >= taken /\ pdus[k] # NOT_A_PAIR}

NextPdus == {k \in taken + 1 .. Len(pdus) : pdus[k] # NOT_A_PAIR}

Copy(len, offset, noutput) ==
    LET n == IF noutput < len - offset THEN noutput ELSE len - offset
    IN  /\ produced' = produced + n
        /\ symbolsOffset' = IF offset + n = len THEN 0 ELSE offset + n

NoPdu ==
    /\ symbolsOffset = 0 /\ NextPdus = {}
    /\ taken < Len(pdus) /\ taken' = Len(pdus)
    /\ UNCHANGED <<pdus, encoding, nset, scrambler, symbolsLen, symbolsOffset,
                   produced, bursts>>

(* Mutants: d_scrambler wraps one state too early, or too late. *)
NextScramblerEarly == IF scrambler + 1 >= SEEDS THEN 1 ELSE scrambler + 1
NextScramblerLate  == IF scrambler > SEEDS THEN 1 ELSE scrambler + 1

NextScrambler == IF scrambler + 1 > SEEDS THEN 1 ELSE scrambler + 1

(* The longest PDU in symbols is MAX_SYM, whatever its length in bytes: a   *)
(* longer one is gone, and the call ends.                                   *)
TakePdu(noutput) ==
    /\ symbolsOffset = 0 /\ NextPdus # {}
    /\ LET k    == Min(NextPdus)
           nsym == NSym(pdus[k], LegacyOfdm(encoding).dbps)
       IN  /\ taken' = k
           /\ IF nsym > MAX_SYM
              THEN UNCHANGED <<scrambler, symbolsLen, symbolsOffset, produced, bursts>>
              ELSE /\ scrambler' = NextScrambler
                   /\ symbolsLen' = nsym * CARRIERS
                   /\ bursts' = Append(bursts,
                         [at |-> produced, pdu |-> k, bytes |-> pdus[k],
                          encoding |-> encoding, len |-> nsym * CARRIERS,
                          coding |-> encoding, seed |-> scrambler])
                   /\ Copy(nsym * CARRIERS, 0, noutput)
    /\ UNCHANGED <<pdus, encoding, nset>>

SendMore(noutput) ==
    /\ symbolsOffset > 0
    /\ Copy(symbolsLen, symbolsOffset, noutput)
    /\ UNCHANGED <<pdus, taken, encoding, nset, scrambler, symbolsLen, bursts>>

MapperWork(room) ==
    NoPdu \/ \E noutput \in 1 .. room : TakePdu(noutput) \/ SendMore(noutput)

-----------------------------------------------------------------------------
(* Bursts closer than SEEDS apart are scrambled differently, and none with  *)
(* the state zero, which would leave them as they are (mapper_impl.cc:111,  *)
(* d_scrambler).                                                            *)
SeedsFresh ==
    /\ \A k \in DOMAIN bursts : bursts[k].seed \in 1 .. SEEDS
    /\ \A j, k \in DOMAIN bursts :
           j < k /\ k - j < SEEDS => bursts[j].seed # bursts[k].seed
=============================================================================

----------------------------- MODULE DecodeMac ------------------------------
(***************************************************************************)
(* decode_mac: collects the symbols of a legacy frame, decodes the frame   *)
(* when it has them all, and publishes the PSDU.                           *)
(*                                                                         *)
(* One step is one iteration of the loop of general_work: one item.  The   *)
(* loop ends after a decode, which only makes the next item the first one  *)
(* of another call.                                                        *)
(***************************************************************************)
EXTENDS WifiParams, SymbolStream, FiniteSetsExt

CONSTANT UNINITIALISED  \* what `copied' may hold before it is ever assigned

ASSUME MacAssumption == UNINITIALISED \subseteq Int

VARIABLES
    mread,              \* nitems_read(0)
    dFrame,             \* d_ofdm and d_frame: the frame being collected
    dMeta,              \* d_meta: the frame its tags are from
    complete,           \* d_frame_complete
    copied,             \* copied
    rxSymbols,          \* what d_rx_symbols holds of this frame
    mdecodes,           \* the calls of decode(), oldest first
    pdus                \* of which frames PDUs were published, oldest first

macVars == <<mread, dFrame, dMeta, complete, copied, rxSymbols, mdecodes, pdus>>

Collected == [frame : Nat, encoding : 0 .. 7, bytes : 0 .. MAX_PSDU_SIZE, nsym : Nat]

MacTypeOK ==
    /\ mread \in 0 .. Len(items)
    /\ dFrame \in Collected
    /\ dMeta \in Nat
    /\ complete \in BOOLEAN
    /\ copied \in Int
    /\ rxSymbols \in Seq(Item)
    /\ \A k \in DOMAIN mdecodes :
          mdecodes[k] \in [frame : Nat, meta : Nat, symbols : Seq(Item), bytes : Nat]
    /\ pdus \in Seq(Nat)

(* The constructor leaves an empty PSDU in d_frame, which is one symbol     *)
(* long, and nothing in `copied'.                                           *)
MacInit ==
    /\ mread = 0
    /\ dFrame = [frame |-> 0, encoding |-> 0, bytes |-> 0,
                 nsym |-> NSym(0, LegacyOfdm(0).dbps)]
    /\ dMeta = 0
    /\ complete = TRUE
    /\ copied \in UNINITIALISED
    /\ rxSymbols = <<>>
    /\ mdecodes = <<>> /\ pdus = <<>>

(* Mutant: the length is compared with 0 only. *)
AcceptsAnyLength(h) ==
    /\ h.encoding <= 7
    /\ NSym(h.bytes, LegacyOfdm(h.encoding).dbps) \in 1 .. MAX_SYM
    /\ h.bytes > 0

(* Only frames that fit every fixed decode buffer are accepted. *)
Accepts(h) ==
    /\ h.encoding <= 7
    /\ LET ofdm == LegacyOfdm(h.encoding)
       IN  /\ NSym(h.bytes, ofdm.dbps) \in 1 .. MAX_SYM
           /\ h.bytes \in 1 .. MAX_PSDU_SIZE
           /\ NDataBits(ofdm, h.bytes) \in 1 .. MAX_ENCODED_BITS
           /\ NEncodedBits(ofdm, h.bytes) \in 1 .. MAX_ENCODED_BITS

(* Mutant: the value added first stays. *)
OldestHeader == headers[Min(HeadersAt(mread))]

(* The header that the tags of the next item make: of two values for a key, *)
(* the one added last stays.                                                *)
NewestHeader == headers[Max(HeadersAt(mread))]

(* decode() is called for f, and its PDU published or not. *)
Decoded(f, meta, symbols, publish) ==
    /\ mdecodes' = Append(mdecodes, [frame |-> f.frame, meta |-> meta,
                                     symbols |-> symbols, bytes |-> f.bytes])
    /\ pdus' = IF publish THEN Append(pdus, f.frame) ELSE pdus

(* Mutant: the FCS is not looked at. *)
DecodeUnchecked(f, meta, symbols) == Decoded(f, meta, symbols, TRUE)

(* decode(), on the symbols collected, with metadata of frame `meta': the   *)
(* PSDU is published if its FCS is right, or in any case if corrupted ones  *)
(* are wanted.  The FCS of symbols that are not one whole frame is wrong.   *)
Decode(f, meta, symbols) ==
    \E ok \in BOOLEAN :
        /\ ok => \A k \in DOMAIN symbols :
                     symbols[k] = [frame |-> f.frame, sym |-> k + 2]
        /\ Decoded(f, meta, symbols, ok \/ KEEP_CORRUPTED)

(* Mutant: the last symbol is not noticed. *)
CollectLate(f, n, symbols, meta) ==
    /\ copied' = IF n >= f.nsym THEN n ELSE n + 1
    /\ rxSymbols' = IF n >= f.nsym THEN symbols ELSE Append(symbols, items[mread + 1])
    /\ UNCHANGED <<mdecodes, pdus>>

(* The item is copied if frame f, with n of its symbols copied and `symbols' *)
(* in the buffer, still wants one; the last one starts the decode.          *)
Collect(f, n, symbols, meta) ==
    IF n >= f.nsym
    THEN /\ copied' = n
         /\ rxSymbols' = symbols
         /\ UNCHANGED <<mdecodes, pdus>>
    ELSE /\ copied' = n + 1
         /\ rxSymbols' = Append(symbols, items[mread + 1])
         /\ IF n + 1 = f.nsym THEN Decode(f, meta, rxSymbols')
            ELSE UNCHANGED <<mdecodes, pdus>>

NextItem == mread < Len(items) /\ mread' = mread + 1

(* An item in the middle of a frame. *)
PlainItem ==
    /\ NextItem
    /\ HeadersAt(mread) = {}
    /\ Collect(dFrame, copied, rxSymbols, dMeta)
    /\ complete' = (complete \/ (copied < dFrame.nsym /\ copied' = dFrame.nsym))
    /\ UNCHANGED <<dFrame, dMeta>>

(* Mutant: `copied' is not reset. *)
AcceptFrameKeepsCopied ==
    /\ NextItem
    /\ HeadersAt(mread) # {}
    /\ Accepts(NewestHeader)
    /\ dMeta' = NewestHeader.frame
    /\ dFrame' = [frame |-> NewestHeader.frame, encoding |-> NewestHeader.encoding,
                  bytes |-> NewestHeader.bytes,
                  nsym |-> NSym(NewestHeader.bytes,
                                LegacyOfdm(NewestHeader.encoding).dbps)]
    /\ Collect(dFrame', copied, rxSymbols, dMeta')
    /\ complete' = (copied' = dFrame'.nsym)

(* The first item of a frame that is accepted, complete or not the one       *)
(* before.                                                                   *)
AcceptFrame ==
    /\ NextItem
    /\ HeadersAt(mread) # {}
    /\ Accepts(NewestHeader)
    /\ dMeta' = NewestHeader.frame
    /\ dFrame' = [frame |-> NewestHeader.frame, encoding |-> NewestHeader.encoding,
                  bytes |-> NewestHeader.bytes,
                  nsym |-> NSym(NewestHeader.bytes,
                                LegacyOfdm(NewestHeader.encoding).dbps)]
    /\ Collect(dFrame', 0, <<>>, dMeta')
    /\ complete' = (copied' = dFrame'.nsym)

(* The first item of a frame that is not: d_frame and `copied' stay as they *)
(* are, and the item is treated as any other.                               *)
RejectFrame ==
    /\ NextItem
    /\ HeadersAt(mread) # {}
    /\ ~Accepts(NewestHeader)
    /\ dMeta' = NewestHeader.frame
    /\ Collect(dFrame, copied, rxSymbols, dMeta')
    /\ complete' = (copied < dFrame.nsym /\ copied' = dFrame.nsym)
    /\ UNCHANGED dFrame

MacWork == PlainItem \/ AcceptFrame \/ RejectFrame
=============================================================================

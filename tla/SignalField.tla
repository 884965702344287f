---------------------------- MODULE SignalField -----------------------------
(***************************************************************************)
(* The SIGNAL field between the two ends: the 18 bits that signal_field    *)
(* writes before the tail, and what parse_signal of frame_equalizer makes  *)
(* of them.                                                                *)
(***************************************************************************)
EXTENDS WifiParams, Sequences, FiniteSets, FiniteSetsExt

(* Encoding e of the code is element e + 1, as in LegacyCoding. *)
RateField == <<13, 15, 5, 7, 9, 11, 1, 3>>
RateRead  == <<11, 15, 10, 14, 9, 13, 8, 12>>

Bit(n, i)   == IF (n \div 2 ^ i) % 2 = 0 THEN 0 ELSE 1
Parity(s)   == Cardinality({i \in 1 .. 17 : s[i] = 1}) % 2
Number(s)   == MapThenSumSet(LAMBDA i : s[i] * 2 ^ (i - 1), DOMAIN s)

(* generate_signal_field: the rate from its high bit down, the reserved bit, *)
(* the length from its low bit up, the parity.                              *)
SignalHeader(encoding, bytes) ==
    LET body == [i \in 1 .. 17 |->
                    CASE i <= 4 -> Bit(RateField[encoding + 1], 4 - i)
                      [] i = 5  -> 0
                      [] i > 5  -> Bit(bytes, i - 6)]
    IN  Append(body, Parity(body))

(* parse_signal: parity first, then the rate; the length is not checked.    *)
ParseSignal(s) ==
    LET known == {e \in 0 .. 7 : RateRead[e + 1] = Number(SubSeq(s, 1, 4))}
    IN  IF Parity(s) # s[18] \/ known = {} THEN [ok |-> FALSE]
        ELSE [ok |-> TRUE, encoding |-> CHOOSE e \in known : TRUE,
              bytes |-> Number(SubSeq(s, 6, 17))]
=============================================================================

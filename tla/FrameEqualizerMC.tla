-------------------------- MODULE FrameEqualizerMC --------------------------
(* Signal field contents for model checking FrameEqualizer. *)
EXTENDS FrameEqualizer

CONSTANT MAX_SHORT      \* bound: vectors of a behaviour of short frames

HtSig(mcs, cbw, len, stbc, fecBit) ==
    [mcs |-> mcs, cbw |-> cbw, len |-> len, stbc |-> stbc, fec |-> fecBit]
VhtSigOf(mcs, nss) == [mcs |-> mcs, bw |-> 0, nss |-> nss, stbc |-> 0, fec |-> 0]

(* Short frames: one to three symbols in every mode, so that two or three   *)
(* frames fit in a behaviour and each can be cut off anywhere.              *)
ShortHtSigs == {HtSig(0, 0, 1, 0, 0), HtSig(1, 0, 2, 0, 0), HtSig(8, 0, 4, 0, 0),
                HtSig(0, 0, 4, 1, 0), HtSig(0, 0, 4, 0, 1), HtSig(9, 1, 4, 0, 0),
                HtSig(0, 1, 4, 0, 0)}
ShortApeps == {0, 1}

(* Lengths at and around every limit: the longest frame that ht_begin,      *)
(* stbc_begin or mimo_begin accepts and the first that it does not, for a   *)
(* rate of each kind.                                                       *)
Limits20 == {<<0, 1602>>, <<0, 1603>>, <<0, 1606>>, <<0, 1607>>, <<4, 2376>>,
             <<4, 2377>>, <<4, 2395>>, <<4, 2396>>, <<7, 2662>>, <<7, 2663>>,
             <<7, 4095>>}
Limits40 == {<<0, 1603>>, <<0, 1604>>, <<4, 2386>>, <<4, 2387>>, <<7, 2629>>,
             <<7, 2630>>}
LimitHtSigs ==
    {HtSig(r[1] + m, 0, r[2], s, 0) : r \in Limits20, m \in {0, 8}, s \in {0, 1}}
        \cup {HtSig(r[1], 1, r[2], 0, 0) : r \in Limits40}
        \cup {HtSig(0, 0, 79, 0, 1), HtSig(0, 0, 80, 0, 1)}
LimitApeps == {402, 403, 1023, 1024}

MCLSigs == {[encoding |-> 0, bytes |-> 0], [encoding |-> 0, bytes |-> 4]}
MCHtSigs == ShortHtSigs \cup LimitHtSigs
MCVhtSigs == {VhtSigOf(0, 1), VhtSigOf(7, 1), VhtSigOf(8, 1)}
MCApeps == ShortApeps \cup LimitApeps

(* The frames of a behaviour are short, or it is one long frame, to its end. *)
ShortOrAlone == (nvectors <= MAX_SHORT /\ job.len <= 4) \/ (frame = 1 /\ job.len > 4)
=============================================================================

------------------------------ MODULE RxChainMC ------------------------------
(* Signal field contents for model checking RxChain. *)
EXTENDS RxChain

(* An empty PSDU (refused by decode_mac), one of two symbols and one of     *)
(* three, and a PSDU of 1600 bytes (refused as too large).                  *)
ChainLSigs == {[encoding |-> 0, bytes |-> 0], [encoding |-> 0, bytes |-> 1],
               [encoding |-> 0, bytes |-> 4], [encoding |-> 7, bytes |-> 1600]}

(* One HT frame, whose symbols reach decode_mac too. *)
ChainHtSigs == {[mcs |-> 0, cbw |-> 0, len |-> 1, stbc |-> 0, fec |-> 0]}

NoVhtSigs == {}
NoApeps   == {}

(* `copied' below, at and above the one symbol of the constructor's frame,  *)
(* or past it.                                                              *)
AnyCopied  == {-1, 0, 1}
PastCopied == {1}
=============================================================================

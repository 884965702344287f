----------------------------- MODULE TxChainMC ------------------------------
(* The SIGNAL field for every encoding and every length of twelve bits, for *)
(* model checking TxChain.                                                  *)
EXTENDS TxChain

ASSUME SignalRoundTrip ==
    \A e \in 0 .. 7, bytes \in 0 .. 4095 :
        ParseSignal(SignalHeader(e, bytes)) = [ok |-> TRUE, encoding |-> e, bytes |-> bytes]
=============================================================================

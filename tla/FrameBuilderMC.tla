--------------------------- MODULE FrameBuilderMC ---------------------------
(* What the setters of FrameBuilder are called with, for model checking. *)
EXTENDS FrameBuilder

MCValues == [format |-> {"HT", "VHT"}, fec |-> {"BCC", "LDPC"}, mcs |-> {0, 8}, bw |-> {20, 40}]
=============================================================================

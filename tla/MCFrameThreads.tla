-------------------------- MODULE MCFrameThreads --------------------------
(* Instances of FrameThreads for TLC.                                      *)
EXTENDS FrameThreads

(* A codec of whole pictures, one that refers to the picture before, FFV1, *)
(* and one that also reorders.                                             *)
Intra   == [cap |-> FALSE, shared |-> FALSE, delay |-> 0, early |-> 0]
VP8     == [cap |-> FALSE, shared |-> TRUE, delay |-> 0, early |-> 0]
FFV1    == [cap |-> FALSE, shared |-> TRUE, delay |-> 0, early |-> 1]
HEVC    == [cap |-> TRUE, shared |-> TRUE, delay |-> 1, early |-> 0]

MCCodecs == {Intra, VP8, FFV1, HEVC}
MCDelayed == {HEVC}
=============================================================================

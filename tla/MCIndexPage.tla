---------------------------- MODULE MCIndexPage ----------------------------
(* Instances of IndexPage for TLC.                                         *)
EXTENDS IndexPage

MCChar3 == [e \in Exts |-> e]
=============================================================================

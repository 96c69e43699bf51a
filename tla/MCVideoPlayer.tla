--------------------------- MODULE MCVideoPlayer ---------------------------
(* Instances of VideoPlayer for TLC.                                       *)
EXTENDS VideoPlayer

MCExts  == {"mp4", "mov", "movie", "txt", "jpg"}
MCChar3 == [e \in MCExts |-> IF e = "movie" THEN "mov" ELSE e]
=============================================================================

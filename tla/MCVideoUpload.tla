--------------------------- MODULE MCVideoUpload ---------------------------
(* Instances of VideoUpload for TLC.                                       *)
EXTENDS VideoUploadClaims, VideoUploadRefinement, TLC

MCFiles == {"a.mp4", "b.movie", "c.jpg"}
MCExts  == {"mp4", "movie", "mov", "jpg"}
MCExtOf == ("a.mp4" :> "mp4") @@ ("b.movie" :> "movie") @@ ("c.jpg" :> "jpg")
MCChar3 == [e \in MCExts |-> IF e = "movie" THEN "mov" ELSE e]

Sound(f) == [file |-> f, fits |-> TRUE, readable |-> TRUE, picture |-> "full",
             text |-> 1, nameText |-> 1]

(* Every kind of input once: three names, a short and a picture-less file, *)
(* an oversize and an unreadable one, and a text that fills the buffer     *)
(* before, or only after, the name is echoed (the buffer is 4).            *)
AllKinds ==
    {Sound(f) : f \in MCFiles} \cup
    {[Sound("a.mp4") EXCEPT !.picture = "short"],
     [Sound("a.mp4") EXCEPT !.picture = "none"],
     [Sound("b.movie") EXCEPT !.fits = FALSE],
     [Sound("b.movie") EXCEPT !.readable = FALSE],
     [Sound("b.movie") EXCEPT !.text = 4],
     [Sound("b.movie") EXCEPT !.text = 3]}

TwoNames   == {Sound("a.mp4"), Sound("b.movie")}
OneName    == {Sound("a.mp4")}
TwoKinds   == {Sound("a.mp4"), [Sound("a.mp4") EXCEPT !.picture = "none"],
               Sound("b.movie")}
LongText   == {[Sound("a.mp4") EXCEPT !.text = 4]}

Symmetry == Permutations(Requests)
=============================================================================

---------------------------- MODULE MCStatCache ----------------------------
(* Mounts with the options of the site (none but the size, here small) are *)
(* Small and Larger, and those whose entries expire later than the clock   *)
(* goes: Crowded and Pinning, on which two files may be open.  Expiring    *)
(* forgets, and Forgetful remembers missing objects too.                   *)
EXTENDS StatCache, TLC

Small     == [size |-> 1, expire |-> -1, noobj |-> FALSE]
Larger    == [size |-> 2, expire |-> -1, noobj |-> FALSE]
Crowded   == [size |-> 1, expire |-> 2, noobj |-> FALSE]
Pinning   == [size |-> 1, expire |-> 1, noobj |-> FALSE]
Expiring  == [size |-> 1, expire |-> 0, noobj |-> FALSE]
Forgetful == [size |-> 1, expire |-> 0, noobj |-> TRUE]

(* Object 1 is put when the file system is in use, and put again.          *)
MCStored == [k \in Keys |-> IF k = 1 THEN 0 ELSE MaxVersion]

MCBegun == (Small     :> [getattr |-> 1, open |-> 1, close |-> 1]) @@
           (Larger    :> [getattr |-> 4, open |-> 0, close |-> 0]) @@
           (Crowded   :> [getattr |-> 5, open |-> 0, close |-> 0]) @@
           (Pinning   :> [getattr |-> 0, open |-> 2, close |-> 1]) @@
           (Expiring  :> [getattr |-> 1, open |-> 1, close |-> 1]) @@
           (Forgetful :> [getattr |-> 1, open |-> 1, close |-> 1])

MCOptions == DOMAIN MCBegun

(* One open file, and two lookups that make the truncation erase it.       *)
ClaimBegun == Small :> [getattr |-> 2, open |-> 1, close |-> 0]

ClaimOptions == DOMAIN ClaimBegun

Threads == Permutations(Workers)
=============================================================================

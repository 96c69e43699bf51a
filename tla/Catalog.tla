------------------------------ MODULE Catalog ------------------------------
(***************************************************************************)
(* What the upload path promises to the rest of the site, which only reads *)
(* the table VideoData and the bucket: IDs are handed out in ascending     *)
(* order and each one becomes a row at most once, in any order and maybe   *)
(* never; a row appears in one step, when its video and its picture are    *)
(* already stored; rows do not change and neither rows nor objects go.     *)
(* VideoUpload implements this specification (see VideoUploadRefinement);  *)
(* IndexPage and VideoPlayer are built on it.                              *)
(***************************************************************************)
EXTENDS Naturals, FiniteSets

CONSTANTS
    Uuids,  \* what uniqid() may return
    Exts,   \* file extensions
    Char3   \* what the CHAR(3) column Ext keeps of an extension

ASSUME CatalogAssumption == Char3 \in [Exts -> Exts]

VARIABLES
    nextId,   \* AUTO_INCREMENT of VideoData
    pending,  \* IDs of INSERTs that have not committed
    rows,     \* the committed rows of VideoData
    objects   \* the keys of vortex-bucket that hold an object

catalog == <<nextId, pending, rows, objects>>

(* A row, with the extension of the file itself as history: the column Ext *)
(* may hold less of it, and no reader sees more than Ext.                  *)
RowType == [ID : Nat, UUID : Uuids, Ext : Exts, full : Exts]

Row(id, u, e) == [ID |-> id, UUID |-> u, Ext |-> Char3[e], full |-> e]

CatalogInit ==
    /\ nextId = 1
    /\ pending = {}
    /\ rows = {}
    /\ objects = {}

(* A putObject stores one object, or stores it anew.                       *)
Store ==
    /\ \E k \in Uuids \X Exts : objects' = objects \cup {k}
    /\ UNCHANGED <<nextId, pending, rows>>

(* Slip: the counter is raised before the ID is taken.                     *)
ReserveNext ==
    /\ nextId' = nextId + 1
    /\ pending' = pending \cup {nextId + 1}
    /\ UNCHANGED <<rows, objects>>

Reserve ==
    /\ nextId' = nextId + 1
    /\ pending' = pending \cup {nextId}
    /\ UNCHANGED <<rows, objects>>

(* Slip: the ID may be used a second time.                                 *)
PublishAgain(id, u, e) ==
    /\ id \in pending
    /\ {<<u, e>>, <<u, "jpg">>} \subseteq objects
    /\ rows' = rows \cup {Row(id, u, e)}
    /\ UNCHANGED <<nextId, pending, objects>>

(* Slip: the row goes in ahead of its objects.                             *)
PublishEarly(id, u, e) ==
    /\ id \in pending
    /\ pending' = pending \ {id}
    /\ rows' = rows \cup {Row(id, u, e)}
    /\ UNCHANGED <<nextId, objects>>

(* The row of the video <u>.<e>.                                           *)
Publish(id, u, e) ==
    /\ id \in pending
    /\ {<<u, e>>, <<u, "jpg">>} \subseteq objects
    /\ pending' = pending \ {id}
    /\ rows' = rows \cup {Row(id, u, e)}
    /\ UNCHANGED <<nextId, objects>>

(* The INSERT fails, or its process dies, before the commit: the ID stays  *)
(* unused.                                                                 *)
Abandon(id) ==
    /\ id \in pending
    /\ pending' = pending \ {id}
    /\ UNCHANGED <<nextId, rows, objects>>

CatalogNext ==
    \/ Store
    \/ Reserve
    \/ \E id \in pending :
          \/ Abandon(id)
          \/ \E u \in Uuids, e \in Exts : Publish(id, u, e)

CatalogSpec == CatalogInit /\ [][CatalogNext]_catalog

----------------------------------------------------------------------------
CatalogTypeOK ==
    /\ nextId \in Nat \ {0}
    /\ pending \subseteq 1 .. nextId - 1
    /\ rows \subseteq RowType
    /\ objects \subseteq Uuids \X Exts

(* An ID is handed out once: no two rows share one, and none is still to   *)
(* commit that is in a row already.                                        *)
IdsOnce ==
    /\ \A w \in rows : w.ID < nextId /\ w.ID \notin pending
    /\ \A v, w \in rows : v.ID = w.ID => v = w
=============================================================================

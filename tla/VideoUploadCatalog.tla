------------------------- MODULE VideoUploadCatalog -------------------------
(* Proof that the upload path implements the Catalog.                      *)
EXTENDS VideoUploadProofs, VideoUploadRefinement

(* Steps that neither reach nor leave "commit" and touch neither IDs, rows *)
(* nor objects are stutters of the Catalog.                                *)
LEMMA QuietStep ==
    ASSUME Typed, RowsNamed, [Next]_vars,
           UNCHANGED <<table, bucket, nextId, rowId>>,
           \A q \in Requests : pc'[q] = "commit" <=> pc[q] = "commit"
    PROVE  UNCHANGED <<nextId, PendingIds, ListedRows, StoredKeys>>
<1>1. UNCHANGED ListedRows
  <2>1. \A w \in table : FileOf(w.of)' = FileOf(w.of)
    BY NamesKept DEF RowsNamed, FileOf, Typed, TypeOK, Rows
  <2> QED
    BY <2>1 DEF ListedRows
<1> QED
  BY <1>1 DEF PendingIds, StoredKeys

(* A put stores one object.                                                *)
LEMMA PutIsStore ==
    ASSUME Typed, NEW r \in Requests,
           PutVideo(r) \/ PutVideoFail(r) \/ PutThumb(r) \/ PutThumbFail(r)
    PROVE  C!Store \/ UNCHANGED <<nextId, PendingIds, ListedRows, StoredKeys>>
<1>1. pc[r] \in Stages /\ pc[r] # "commit"
  BY DEF PutVideo, PutVideoFail, PutThumb, PutThumbFail, Stages, Holding
<1>2. VideoKey(r) \in Keys /\ ThumbKey(r) \in Keys /\ FileOf(r) \in Files
  BY <1>1, NamesTyped
<1>3. \A q \in Requests : pc'[q] = "commit" <=> pc[q] = "commit"
  BY <1>1 DEF PutVideo, PutVideoFail, PutThumb, PutThumbFail, ErrorPage,
              EndWith, Goto, Typed, TypeOK
<1>4. UNCHANGED <<table, nextId, rowId, sub>>
  BY DEF PutVideo, PutVideoFail, PutThumb, PutThumbFail
<1>5. UNCHANGED <<nextId, PendingIds, ListedRows>>
  BY <1>3, <1>4 DEF PendingIds, ListedRows, FileOf
<1>6. \/ UNCHANGED bucket
      \/ \E k \in Keys, o \in Contents : bucket' = [bucket EXCEPT ![k] = o]
  <2>1. local[FileOf(r)] \in Requests \cup {None}
    BY <1>2 DEF Typed, TypeOK
  <2>2. local[FileOf(r)] # None => Video(local[FileOf(r)]) \in Contents
    BY <2>1 DEF Video, Contents
  <2>3. uuid[r] \in Uuids
    BY <1>1, NamesTyped
  <2>4. thumbs[uuid[r]] # None => thumbs[uuid[r]] \in Contents
    BY <2>3 DEF Typed, TypeOK
  <2>5. QED
    BY <1>2, <2>2, <2>4
       DEF PutVideo, PutVideoFail, PutThumb, PutThumbFail
<1>7. CASE UNCHANGED bucket
  BY <1>5, <1>7 DEF StoredKeys
<1>8. ASSUME NEW k \in Keys, NEW o \in Contents,
             bucket' = [bucket EXCEPT ![k] = o]
      PROVE  C!Store
  <2>1. StoredKeys' = StoredKeys \cup {k}
    BY <1>8, NothingIsNoValue DEF StoredKeys, Typed, TypeOK
  <2>2. QED
    BY <1>5, <2>1 DEF C!Store, Keys
<1> QED
  BY <1>6, <1>7, <1>8

LEMMA InsertIsReserve ==
    ASSUME Typed, NEW r \in Requests, Insert(r)
    PROVE  C!Reserve
<1>1. PendingIds' = PendingIds \cup {nextId}
  BY DEF Insert, Goto, PendingIds, Typed, TypeOK
<1> QED
  BY <1>1 DEF C!Reserve, Insert, ListedRows, StoredKeys, FileOf

(* Leaving "commit" takes the ID of one script, and of no other, out of    *)
(* the pending ones.                                                       *)
LEMMA CommitLeft ==
    ASSUME Typed, Numbered, NEW r \in Requests, pc[r] = "commit",
           NEW stage \in {"getVID", "killed"}, Goto(r, stage), UNCHANGED rowId
    PROVE  PendingIds' = PendingIds \ {rowId[r]}
<1>1. \A q \in Requests : pc'[q] = "commit" <=> (pc[q] = "commit" /\ q # r)
  BY DEF Goto, Typed, TypeOK
<1>2. \A q \in Requests : (pc[q] = "commit" /\ q # r) => rowId[q] # rowId[r]
  BY DEF Numbered, IdsDistinct, IdsLate
<1> QED
  BY <1>1, <1>2 DEF PendingIds

LEMMA CommitIsPublish ==
    ASSUME Typed, Backed, Numbered, NEW r \in Requests, Commit(r)
    PROVE  \E id \in PendingIds : \E u \in Uuids, e \in Exts :
              C!Publish(id, u, e)
<1>1. pc[r] \in Stages /\ pc[r] \in AfterVideo /\ pc[r] \in AfterThumb
  BY DEF Commit, Stages, AfterVideo, AfterThumb
<1>2. /\ uuid[r] \in Uuids /\ ExtOf[FileOf(r)] \in Exts
      /\ VideoKey(r) \in Keys /\ ThumbKey(r) \in Keys
  BY <1>1, NamesTyped
<1>3. {VideoKey(r), ThumbKey(r)} \subseteq StoredKeys
  BY <1>1, <1>2 DEF Backed, VideoPut, ThumbPut, StoredKeys
<1>4. PendingIds' = PendingIds \ {rowId[r]}
  BY CommitLeft DEF Commit
<1>5. rowId[r] \in PendingIds
  BY DEF Commit, PendingIds
<1>6. ListedRows' = ListedRows \cup
        {C!Row(rowId[r], uuid[r], ExtOf[FileOf(r)])}
  <2> DEFINE Seen(w) == [ID |-> w.ID, UUID |-> w.UUID, Ext |-> w.Ext,
                         full |-> ExtOf[FileOf(w.of)]]
  <2>1. Seen(RowOf(r)) = C!Row(rowId[r], uuid[r], ExtOf[FileOf(r)])
    BY DEF RowOf, C!Row
  <2>2. table' = table \cup {RowOf(r)} /\ sub' = sub
    BY DEF Commit
  <2>3. ListedRows = {Seen(w) : w \in table}
        /\ ListedRows' = {Seen(w) : w \in table'}
    BY <2>2 DEF ListedRows, FileOf
  <2> HIDE DEF Seen
  <2>4. {Seen(w) : w \in table'} = {Seen(w) : w \in table} \cup {Seen(RowOf(r))}
    BY <2>2
  <2>5. QED
    BY <2>1, <2>3, <2>4
<1>7. UNCHANGED <<nextId, StoredKeys>>
  BY DEF Commit, StoredKeys
<1>8. C!Publish(rowId[r], uuid[r], ExtOf[FileOf(r)])
  BY <1>3, <1>4, <1>5, <1>6, <1>7 DEF C!Publish, VideoKey, ThumbKey
<1> QED
  BY <1>2, <1>5, <1>8

(* A script that dies, or whose INSERT fails, with an ID leaves it unused.  *)
LEMMA FailureIsAbandon ==
    ASSUME Typed, Numbered, NEW r \in Requests, Kill(r) \/ InsertFail(r),
           pc[r] = "commit"
    PROVE  \E id \in PendingIds : C!Abandon(id)
<1>1. PendingIds' = PendingIds \ {rowId[r]}
  BY CommitLeft DEF Kill, InsertFail
<1>2. rowId[r] \in PendingIds
  BY DEF PendingIds
<1>3. UNCHANGED <<nextId, ListedRows, StoredKeys>>
  BY DEF Kill, InsertFail, ListedRows, StoredKeys, FileOf
<1> QED
  BY <1>1, <1>2, <1>3 DEF C!Abandon

(* Every step of the upload path is a step of the Catalog or a stutter.    *)
LEMMA StepIsCatalogStep ==
    Published /\ [Next]_vars
        => [C!CatalogNext]_<<nextId, PendingIds, ListedRows, StoredKeys>>
<1> SUFFICES ASSUME Published, [Next]_vars
             PROVE  C!CatalogNext
                    \/ UNCHANGED <<nextId, PendingIds, ListedRows, StoredKeys>>
  OBVIOUS
<1> USE DEF Published
<1>1. ASSUME NEW r \in Requests,
             PutVideo(r) \/ PutVideoFail(r) \/ PutThumb(r) \/ PutThumbFail(r)
      PROVE  C!CatalogNext
             \/ UNCHANGED <<nextId, PendingIds, ListedRows, StoredKeys>>
  BY <1>1, PutIsStore DEF C!CatalogNext
<1>2. ASSUME NEW r \in Requests, Insert(r)
      PROVE  C!CatalogNext
  BY <1>2, InsertIsReserve DEF C!CatalogNext
<1>3. ASSUME NEW r \in Requests, Commit(r)
      PROVE  C!CatalogNext
  BY <1>3, CommitIsPublish DEF C!CatalogNext
<1>4. ASSUME NEW r \in Requests, Kill(r) \/ InsertFail(r), pc[r] = "commit"
      PROVE  C!CatalogNext
  BY <1>4, FailureIsAbandon DEF C!CatalogNext
<1>5. ASSUME NEW r \in Requests,
             \/ Submit(r) \/ VideoAttributes(r) \/ VideoAttributesFail(r)
             \/ LocalUpload(r) \/ LocalUploadFail(r)
             \/ MakeThumbnail(r) \/ MakeThumbnailFail(r) \/ Unlink(r)
             \/ PreparedSQL(r) \/ PreparedSQLFail(r)
             \/ GetVID(r) \/ GetVIDFail(r)
             \/ (InsertFail(r) \/ Kill(r)) /\ pc[r] # "commit"
      PROVE  UNCHANGED <<nextId, PendingIds, ListedRows, StoredKeys>>
  <2>1. UNCHANGED <<table, bucket, nextId, rowId>>
    BY <1>5 DEF Submit, VideoAttributes, VideoAttributesFail, LocalUpload,
         LocalUploadFail, MakeThumbnail, MakeThumbnailFail, Unlink,
         PreparedSQL, PreparedSQLFail, InsertFail, GetVID, GetVIDFail, Kill
  <2>2. \A q \in Requests : pc'[q] = "commit" <=> pc[q] = "commit"
    BY <1>5 DEF Submit, VideoAttributes, VideoAttributesFail, LocalUpload,
         LocalUploadFail, MakeThumbnail, MakeThumbnailFail, Unlink,
         PreparedSQL, PreparedSQLFail, InsertFail, GetVID, GetVIDFail, Kill,
         Goto, EndWith, ErrorPage, Typed, TypeOK
  <2>3. QED
    BY <2>1, <2>2, QuietStep DEF Backed
<1>6. CASE Tick \/ UNCHANGED vars
  BY <1>6, QuietStep DEF Tick, vars, Backed
<1> QED
  BY <1>1, <1>2, <1>3, <1>4, <1>5, <1>6 DEF Next, Script

(* The upload path implements the Catalog: what the index and the player   *)
(* are built on holds of any number of uploads, whatever fails.            *)
THEOREM UploadImplementsCatalog == Spec => ImplementsCatalog
<1>1. Init => C!CatalogInit
  BY DEF Init, C!CatalogInit, PendingIds, ListedRows, StoredKeys
<1> QED
  BY <1>1, StepIsCatalogStep, PublishedInvariant, PTL
     DEF Spec, ImplementsCatalog, C!CatalogSpec, C!catalog
=============================================================================

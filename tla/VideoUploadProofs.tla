------------------------- MODULE VideoUploadProofs -------------------------
(* Proofs about VideoUpload, for any number of POSTs, files, extensions    *)
(* and clock ticks.                                                        *)
EXTENDS VideoUpload, TLAPS

(* A script past the form has its form; one past the probe has its uuid,   *)
(* and none has a uuid before.                                             *)
StageOK ==
    \A r \in Requests :
        /\ pc[r] # "new" => sub[r] # None
        /\ pc[r] \in Stages => uuid[r] # None
        /\ uuid[r] # None => pc[r] \notin {"new", "videoAttributes"}

Typed == TypeOK /\ StageOK

(* Nothing is not a form, a uuid or an object.                             *)
LEMMA NothingIsNoValue ==
    /\ None \notin Submissions
    /\ None \notin Uuids
    /\ None \notin Requests
    /\ None \notin Contents
  BY NoneAssumption, ConstantsAssumption
     DEF NoneAssumption, ConstantsAssumption, Uuids

(* The fields of a form.                                                   *)
LEMMA FormFields ==
    ASSUME NEW s \in Submissions
    PROVE  /\ s.file \in Files
           /\ s.text \in Nat
           /\ s.nameText \in Nat
  BY ConstantsAssumption DEF ConstantsAssumption, SubmissionType

(* What a script that has its form and its uuid names.                     *)
LEMMA NamesMeanKeys ==
    ASSUME TypeOK, NEW r \in Requests, sub[r] # None, uuid[r] # None
    PROVE  /\ sub[r] \in Submissions
           /\ FileOf(r) \in Files
           /\ ExtOf[FileOf(r)] \in Exts
           /\ uuid[r] \in Uuids
           /\ VideoKey(r) \in Keys
           /\ ThumbKey(r) \in Keys
<1>1. sub[r] \in Submissions /\ uuid[r] \in Uuids
  BY DEF TypeOK
<1>2. FileOf(r) \in Files
  BY <1>1, FormFields DEF FileOf
<1> QED
  BY <1>1, <1>2, ConstantsAssumption
     DEF ConstantsAssumption, VideoKey, ThumbKey, Keys

(* A script in one of its stages has both.                                 *)
LEMMA NamesTyped ==
    ASSUME Typed, NEW r \in Requests, pc[r] \in Stages
    PROVE  /\ sub[r] \in Submissions
           /\ FileOf(r) \in Files
           /\ ExtOf[FileOf(r)] \in Exts
           /\ uuid[r] \in Uuids
           /\ VideoKey(r) \in Keys
           /\ ThumbKey(r) \in Keys
<1>1. sub[r] # None /\ uuid[r] # None
  BY DEF Typed, StageOK, Stages, Holding
<1> QED
  BY <1>1, NamesMeanKeys DEF Typed

(* Ending a script keeps the types of pc and response.                     *)
LEMMA EndTyped ==
    ASSUME TypeOK, NEW r \in Requests, NEW page \in Pages, NEW id \in Nat,
           NEW bytes, EndWith(r, page, id, bytes)
    PROVE  /\ pc' \in [Requests -> Places]
           /\ response' \in [Requests -> Answer]
  BY DEF TypeOK, EndWith, Goto, Places, Pages, Answer

(* The state keeps its types.                                              *)
LEMMA TypedInductive == Typed /\ [Next]_vars => Typed'
<1> SUFFICES ASSUME Typed, [Next]_vars
             PROVE  Typed'
  OBVIOUS
<1> USE DEF Typed
<1>1. ASSUME NEW r \in Requests, Submit(r)
      PROVE  Typed'
  BY <1>1, NothingIsNoValue
     DEF Submit, TypeOK, StageOK, Goto, Places, Stages, Holding
<1>2. ASSUME NEW r \in Requests, VideoAttributes(r)
      PROVE  Typed'
  BY <1>2, FormFields, NothingIsNoValue DEF VideoAttributes, TypeOK, StageOK, Goto, Places, Stages, Holding
<1>3. ASSUME NEW r \in Requests, VideoAttributesFail(r)
      PROVE  Typed'
  BY <1>3 DEF VideoAttributesFail, ErrorPage, EndWith, TypeOK, StageOK, Goto, Places, Stages, Holding, Pages, Answer
<1>4. ASSUME NEW r \in Requests, LocalUpload(r)
      PROVE  Typed'
  <2>1. pc[r] \in Stages
    BY <1>4 DEF LocalUpload, Stages, Holding
  <2>2. QED
    BY <1>4, <2>1, NamesTyped DEF LocalUpload, TypeOK, StageOK, Goto, Places, Stages, Holding
<1>5. ASSUME NEW r \in Requests, LocalUploadFail(r)
      PROVE  Typed'
  <2>1. pc[r] \in Stages
    BY <1>5 DEF LocalUploadFail, Stages, Holding
  <2>2. QED
    BY <1>5, <2>1, NamesTyped DEF LocalUploadFail, ErrorPage, EndWith, TypeOK, StageOK, Goto, Places, Stages, Holding, Pages, Answer
<1>6. ASSUME NEW r \in Requests, MakeThumbnail(r)
      PROVE  Typed'
  <2>1. pc[r] \in Stages
    BY <1>6 DEF MakeThumbnail, Stages, Holding
  <2>2. QED
    BY <1>6, <2>1, NamesTyped DEF MakeThumbnail, TypeOK, StageOK, Goto, Places, Stages, Holding, Picture, Contents
<1>7. ASSUME NEW r \in Requests, MakeThumbnailFail(r)
      PROVE  Typed'
  <2>1. pc[r] \in Stages
    BY <1>7 DEF MakeThumbnailFail, Stages, Holding
  <2>2. QED
    BY <1>7, <2>1, NamesTyped DEF MakeThumbnailFail, ErrorPage, EndWith, TypeOK, StageOK, Goto, Places, Stages, Holding, Pages, Answer
<1>8. ASSUME NEW r \in Requests, PutVideo(r)
      PROVE  Typed'
  <2>1. pc[r] \in Stages
    BY <1>8 DEF PutVideo, Stages, Holding
  <2>2. QED
    BY <1>8, <2>1, NamesTyped DEF PutVideo, TypeOK, StageOK, Goto, Places, Stages, Holding, Video, Contents
<1>9. ASSUME NEW r \in Requests, PutVideoFail(r)
      PROVE  Typed'
  <2>1. pc[r] \in Stages
    BY <1>9 DEF PutVideoFail, Stages, Holding
  <2>2. QED
    BY <1>9, <2>1, NamesTyped DEF PutVideoFail, ErrorPage, EndWith, TypeOK, StageOK, Goto, Places, Stages, Holding, Pages, Answer, Video, Contents
<1>10. ASSUME NEW r \in Requests, PutThumb(r)
      PROVE  Typed'
  <2>1. pc[r] \in Stages
    BY <1>10 DEF PutThumb, Stages, Holding
  <2>2. QED
    BY <1>10, <2>1, NamesTyped DEF PutThumb, TypeOK, StageOK, Goto, Places, Stages, Holding
<1>11. ASSUME NEW r \in Requests, PutThumbFail(r)
      PROVE  Typed'
  <2>1. pc[r] \in Stages
    BY <1>11 DEF PutThumbFail, Stages, Holding
  <2>2. QED
    BY <1>11, <2>1, NamesTyped DEF PutThumbFail, ErrorPage, EndWith, TypeOK, StageOK, Goto, Places, Stages, Holding, Pages, Answer
<1>12. ASSUME NEW r \in Requests, Unlink(r)
      PROVE  Typed'
  <2>1. pc[r] \in Stages
    BY <1>12 DEF Unlink, Stages, Holding
  <2>2. QED
    BY <1>12, <2>1, NamesTyped DEF Unlink, TypeOK, StageOK, Goto, Places, Stages, Holding
<1>13. ASSUME NEW r \in Requests, PreparedSQL(r)
      PROVE  Typed'
  <2>1. pc[r] \in Stages
    BY <1>13 DEF PreparedSQL, Stages, Holding
  <2>2. QED
    BY <1>13, <2>1, NamesTyped, FormFields DEF PreparedSQL, TypeOK, StageOK, Goto, Places, Stages, Holding
<1>14. ASSUME NEW r \in Requests, PreparedSQLFail(r)
      PROVE  Typed'
  <2>1. pc[r] \in Stages
    BY <1>14 DEF PreparedSQLFail, Stages, Holding
  <2>2. QED
    BY <1>14, <2>1, NamesTyped, FormFields DEF PreparedSQLFail, EndWith, TypeOK, StageOK, Goto, Places, Stages, Holding, Pages, Answer
<1>15. ASSUME NEW r \in Requests, Insert(r)
      PROVE  Typed'
  <2>1. pc[r] \in Stages
    BY <1>15 DEF Insert, Stages, Holding
  <2>2. QED
    BY <1>15, <2>1, NamesTyped DEF Insert, TypeOK, StageOK, Goto, Places, Stages, Holding
<1>16. ASSUME NEW r \in Requests, InsertFail(r)
      PROVE  Typed'
  <2>1. pc[r] \in Stages
    BY <1>16 DEF InsertFail, Stages, Holding
  <2>2. QED
    BY <1>16, <2>1, NamesTyped DEF InsertFail, TypeOK, StageOK, Goto, Places, Stages, Holding
<1>17. ASSUME NEW r \in Requests, Commit(r)
      PROVE  Typed'
  <2>1. pc[r] \in Stages
    BY <1>17 DEF Commit, Stages, Holding
  <2>2. QED
    BY <1>17, <2>1, NamesTyped, ConstantsAssumption DEF Commit, RowOf, ConstantsAssumption, TypeOK, StageOK, Goto, Places, Stages, Holding, Rows
<1>18. ASSUME NEW r \in Requests, GetVID(r)
      PROVE  Typed'
  <2>1. pc[r] \in Stages
    BY <1>18 DEF GetVID, Stages, Holding
  <2>2. /\ pc' \in [Requests -> Places]
        /\ response' \in [Requests -> Answer]
    <3>1. CASE ErrorPage(r, "41")
      BY <3>1, EndTyped DEF ErrorPage, Pages
    <3>2. ASSUME NEW w \in table, EndWith(r, "player", w.ID, echoed[r])
          PROVE  /\ pc' \in [Requests -> Places]
                 /\ response' \in [Requests -> Answer]
      BY <3>2, EndTyped DEF TypeOK, Rows, Pages
    <3>3. QED
      BY <1>18, <3>1, <3>2 DEF GetVID
  <2>3. QED
    BY <1>18, <2>1, <2>2 DEF TypeOK, StageOK, Goto, Places, Stages, Holding, GetVID, ErrorPage, EndWith
<1>19. ASSUME NEW r \in Requests, GetVIDFail(r)
      PROVE  Typed'
  <2>1. pc[r] \in Stages
    BY <1>19 DEF GetVIDFail, Stages, Holding
  <2>2. /\ pc' \in [Requests -> Places]
        /\ response' \in [Requests -> Answer]
    BY <1>19, EndTyped DEF GetVIDFail, ErrorPage, Pages
  <2>3. QED
    BY <1>19, <2>1, <2>2 DEF GetVIDFail, ErrorPage, EndWith, TypeOK, StageOK, Goto, Places, Stages, Holding
<1>20. ASSUME NEW r \in Requests, Kill(r)
      PROVE  Typed'
  BY <1>20 DEF Kill, TypeOK, StageOK, Goto, Places, Stages, Holding
<1>21. CASE Tick
  BY <1>21, ConstantsAssumption DEF Tick, TypeOK, StageOK, Uuids, ConstantsAssumption
<1>22. CASE UNCHANGED vars
  BY <1>22 DEF vars, TypeOK, StageOK
<1> QED
  BY <1>1, <1>2, <1>3, <1>4, <1>5, <1>6, <1>7, <1>8, <1>9, <1>10, <1>11, <1>12, <1>13, <1>14, <1>15, <1>16, <1>17, <1>18, <1>19, <1>20, <1>21, <1>22 DEF Next, Script

LEMMA InitTyped == Init => Typed
<1> SUFFICES ASSUME Init PROVE Typed
  OBVIOUS
<1>1. TypeOK
  BY ConstantsAssumption
     DEF Init, TypeOK, Places, Uuids, Silent, Answer, Pages, ConstantsAssumption
<1>2. StageOK
  BY DEF Init, StageOK, Stages, Holding
<1> QED
  BY <1>1, <1>2 DEF Typed

(* The state is type-correct in every behaviour: the columns of a row, the *)
(* keys of the bucket and the pages of the browser are always of the kind  *)
(* the code gives them.                                                    *)
THEOREM TypeCorrect == Spec => []TypeOK
<1>1. Typed => TypeOK
  BY DEF Typed
<1> QED
  BY <1>1, InitTyped, TypedInductive, PTL DEF Spec

----------------------------------------------------------------------------
(* What stands behind a row.                                               *)

(* The stages after each of the two puts.                                  *)
AfterThumb == {"unlink", "connect", "insert", "commit", "getVID"}
AfterVideo == {"putThumb"} \cup AfterThumb

(* The video is in the bucket after the first put, the picture after the   *)
(* second, and both are there for every row.                               *)
VideoPut == \A r \in Requests :
                pc[r] \in AfterVideo => bucket[VideoKey(r)] # None
ThumbPut == \A r \in Requests :
                pc[r] \in AfterThumb => bucket[ThumbKey(r)] # None
RowsNamed == \A w \in table : uuid[w.of] # None /\ sub[w.of] # None

Backed == VideoPut /\ ThumbPut /\ RowsNamed /\ RowsBacked

(* Nothing in the code deletes an object.                                  *)
LEMMA BucketGrows ==
    ASSUME Typed, [Next]_vars, NEW k \in Keys, bucket[k] # None
    PROVE  bucket'[k] # None
<1> USE NothingIsNoValue DEF Typed, TypeOK
<1>1. ASSUME NEW r \in Requests, PutVideo(r) \/ PutVideoFail(r)
      PROVE  bucket'[k] # None
  <2>1. FileOf(r) \in Files
    BY <1>1, NamesTyped DEF PutVideo, PutVideoFail, Stages, Holding
  <2>2. QED
    BY <1>1, <2>1 DEF PutVideo, PutVideoFail, Video, Contents
<1>2. ASSUME NEW r \in Requests, PutThumb(r) \/ PutThumbFail(r)
      PROVE  bucket'[k] # None
  BY <1>2 DEF PutThumb, PutThumbFail
<1>3. CASE UNCHANGED bucket
  BY <1>3
<1> QED
  BY <1>1, <1>2, <1>3
     DEF Next, Script, vars, Submit, VideoAttributes, VideoAttributesFail,
         LocalUpload, LocalUploadFail, MakeThumbnail, MakeThumbnailFail,
         Unlink, PreparedSQL, PreparedSQLFail, Insert, InsertFail, Commit,
         GetVID, GetVIDFail, Kill, Tick

(* A script that has its uuid keeps it, and its form.                      *)
LEMMA NamesKept ==
    ASSUME Typed, [Next]_vars, NEW r \in Requests, uuid[r] # None
    PROVE  uuid'[r] = uuid[r] /\ sub'[r] = sub[r]
<1> USE DEF Typed, TypeOK, StageOK
<1>1. ASSUME NEW q \in Requests, Submit(q)
      PROVE  uuid'[r] = uuid[r] /\ sub'[r] = sub[r]
  BY <1>1 DEF Submit
<1>2. ASSUME NEW q \in Requests, VideoAttributes(q)
      PROVE  uuid'[r] = uuid[r] /\ sub'[r] = sub[r]
  BY <1>2 DEF VideoAttributes
<1>3. CASE UNCHANGED <<uuid, sub>>
  BY <1>3
<1> QED
  BY <1>1, <1>2, <1>3
     DEF Next, Script, vars, VideoAttributesFail, LocalUpload,
         LocalUploadFail, MakeThumbnail, MakeThumbnailFail, PutVideo,
         PutVideoFail, PutThumb, PutThumbFail, Unlink, PreparedSQL,
         PreparedSQLFail, Insert, InsertFail, Commit, GetVID, GetVIDFail,
         Kill, Tick

(* A stage after a put is reached through that put only.                   *)
LEMMA ReachedByPut ==
    ASSUME Typed, [Next]_vars, NEW r \in Requests
    PROVE  /\ pc'[r] \in AfterVideo => pc[r] \in AfterVideo \/ PutVideo(r)
           /\ pc'[r] \in AfterThumb => pc[r] \in AfterThumb \/ PutThumb(r)
<1> QED
  BY DEF Typed, TypeOK, AfterVideo, AfterThumb, Goto, EndWith, ErrorPage,
         Next, Script, vars, Submit, VideoAttributes, VideoAttributesFail,
         LocalUpload, LocalUploadFail, MakeThumbnail, MakeThumbnailFail,
         PutVideo, PutVideoFail, PutThumb, PutThumbFail, Unlink,
         PreparedSQL, PreparedSQLFail, Insert, InsertFail, Commit, GetVID,
         GetVIDFail, Kill, Tick

(* Only Commit writes the table.                                           *)
LEMMA RowsByCommit ==
    ASSUME [Next]_vars
    PROVE  table' = table \/ \E r \in Requests : Commit(r)
  BY DEF Next, Script, vars, Submit, VideoAttributes, VideoAttributesFail,
         LocalUpload, LocalUploadFail, MakeThumbnail, MakeThumbnailFail,
         PutVideo, PutVideoFail, PutThumb, PutThumbFail, Unlink,
         PreparedSQL, PreparedSQLFail, Insert, InsertFail, GetVID,
         GetVIDFail, Kill, Tick

(* Each part of Backed is kept by every step.                              *)
LEMMA VideoPutKept == Typed /\ VideoPut /\ [Next]_vars => VideoPut'
<1> SUFFICES ASSUME Typed, VideoPut, [Next]_vars,
                    NEW r \in Requests, pc'[r] \in AfterVideo
             PROVE  bucket'[VideoKey(r)'] # None
  BY DEF VideoPut
<1>1. CASE pc[r] \in AfterVideo
  <2>1. pc[r] \in Stages
    BY <1>1 DEF AfterVideo, AfterThumb, Stages, Holding
  <2>2. VideoKey(r)' = VideoKey(r) /\ VideoKey(r) \in Keys
    BY <2>1, NamesTyped, NamesKept
       DEF Typed, StageOK, VideoKey, FileOf
  <2>3. QED
    BY <1>1, <2>2, BucketGrows DEF VideoPut
<1>2. CASE PutVideo(r)
  <2>1. pc[r] \in Stages
    BY <1>2 DEF PutVideo, Stages, Holding
  <2>2. VideoKey(r)' = VideoKey(r) /\ VideoKey(r) \in Keys
    BY <2>1, NamesTyped, NamesKept
       DEF Typed, StageOK, VideoKey, FileOf
  <2>3. FileOf(r) \in Files
    BY <2>1, NamesTyped
  <2>4. Video(local[FileOf(r)]) # None
    BY <1>2, <2>3, NothingIsNoValue
       DEF PutVideo, Typed, TypeOK, Video, Contents
  <2>5. QED
    BY <1>2, <2>2, <2>4 DEF PutVideo, Typed, TypeOK
<1> QED
  BY <1>1, <1>2, ReachedByPut

LEMMA ThumbPutKept == Typed /\ ThumbPut /\ [Next]_vars => ThumbPut'
<1> SUFFICES ASSUME Typed, ThumbPut, [Next]_vars,
                    NEW r \in Requests, pc'[r] \in AfterThumb
             PROVE  bucket'[ThumbKey(r)'] # None
  BY DEF ThumbPut
<1>1. CASE pc[r] \in AfterThumb
  <2>1. pc[r] \in Stages
    BY <1>1 DEF AfterThumb, Stages, Holding
  <2>2. ThumbKey(r)' = ThumbKey(r) /\ ThumbKey(r) \in Keys
    BY <2>1, NamesTyped, NamesKept DEF Typed, StageOK, ThumbKey
  <2>3. QED
    BY <1>1, <2>2, BucketGrows DEF ThumbPut
<1>2. CASE PutThumb(r)
  <2>1. pc[r] \in Stages
    BY <1>2 DEF PutThumb, Stages, Holding
  <2>2. ThumbKey(r)' = ThumbKey(r) /\ ThumbKey(r) \in Keys
    BY <2>1, NamesTyped, NamesKept DEF Typed, StageOK, ThumbKey
  <2>3. QED
    BY <1>2, <2>2 DEF PutThumb, Typed, TypeOK
<1> QED
  BY <1>1, <1>2, ReachedByPut

LEMMA RowsKept ==
    Typed /\ Backed /\ [Next]_vars => RowsNamed' /\ RowsBacked'
<1> SUFFICES ASSUME Typed, Backed, [Next]_vars, NEW w \in table'
             PROVE  /\ uuid'[w.of] # None /\ sub'[w.of] # None
                    /\ w.UUID = uuid'[w.of]
                    /\ bucket'[VideoKey(w.of)'] # None
                    /\ bucket'[ThumbKey(w.of)'] # None
  BY DEF RowsNamed, RowsBacked
<1>1. CASE w \in table
  <2>1. w.of \in Requests
    BY <1>1 DEF Typed, TypeOK, Rows
  <2>2. uuid[w.of] # None /\ sub[w.of] # None /\ w.UUID = uuid[w.of]
    BY <1>1 DEF Backed, RowsNamed, RowsBacked
  <2>3. uuid'[w.of] = uuid[w.of] /\ sub'[w.of] = sub[w.of]
    BY <2>1, <2>2, NamesKept
  <2>4. /\ VideoKey(w.of) \in Keys /\ VideoKey(w.of)' = VideoKey(w.of)
        /\ ThumbKey(w.of) \in Keys /\ ThumbKey(w.of)' = ThumbKey(w.of)
    BY <2>1, <2>2, <2>3, NamesMeanKeys DEF Typed, VideoKey, ThumbKey, FileOf
  <2>5. bucket[VideoKey(w.of)] # None /\ bucket[ThumbKey(w.of)] # None
    BY <1>1 DEF Backed, RowsBacked
  <2>6. QED
    BY <2>2, <2>3, <2>4, <2>5, BucketGrows
<1>2. ASSUME NEW r \in Requests, Commit(r), w = RowOf(r)
      PROVE  /\ uuid'[w.of] # None /\ sub'[w.of] # None
             /\ w.UUID = uuid'[w.of]
             /\ bucket'[VideoKey(w.of)'] # None
             /\ bucket'[ThumbKey(w.of)'] # None
  <2>1. pc[r] \in Stages /\ pc[r] \in AfterVideo /\ pc[r] \in AfterThumb
    BY <1>2 DEF Commit, Stages, AfterVideo, AfterThumb
  <2>2. w.of = r /\ w.UUID = uuid[r]
    BY <1>2 DEF RowOf
  <2>3. uuid[r] # None /\ sub[r] # None
    BY <2>1 DEF Typed, StageOK, Stages, Holding
  <2>4. bucket[VideoKey(r)] # None /\ bucket[ThumbKey(r)] # None
    BY <2>1 DEF Backed, VideoPut, ThumbPut
  <2>5. UNCHANGED <<uuid, sub, bucket>>
    BY <1>2 DEF Commit
  <2>6. QED
    BY <2>2, <2>3, <2>4, <2>5 DEF VideoKey, ThumbKey, FileOf
<1>3. w \in table \/ \E r \in Requests : Commit(r) /\ w = RowOf(r)
  BY RowsByCommit DEF Commit
<1> QED
  BY <1>1, <1>2, <1>3

LEMMA InitBacked == Init => Backed
  BY DEF Init, Backed, VideoPut, ThumbPut, RowsNamed, RowsBacked,
         AfterVideo, AfterThumb

(* Every row has its two objects in every behaviour, however the scripts   *)
(* interleave and whichever of their calls fail.  That the code runs both  *)
(* puts before it touches the database is what carries the argument: each  *)
(* object is there from its put on (VideoPut, ThumbPut), a name once drawn *)
(* is kept and nothing is ever deleted from the bucket.                    *)
THEOREM EveryRowBacked == Spec => []RowsBacked
<1>1. Init => Typed /\ Backed
  BY InitTyped, InitBacked
<1>2. Typed /\ Backed /\ [Next]_vars => (Typed /\ Backed)'
  BY TypedInductive, VideoPutKept, ThumbPutKept, RowsKept DEF Backed
<1>3. Backed => RowsBacked
  BY DEF Backed
<1> QED
  BY <1>1, <1>2, <1>3, PTL DEF Spec

----------------------------------------------------------------------------
(* Which POST a row is of.                                                 *)

(* IDs are below the counter and no two POSTs have the same; a POST has    *)
(* one only from its INSERT on; a row is what its POST wrote.              *)
IdsBelow    == \A r \in Requests : rowId[r] < nextId
IdsDistinct == \A q, r \in Requests :
                   (rowId[q] # 0 /\ rowId[q] = rowId[r]) => q = r
IdsLate     == \A r \in Requests :
                   /\ pc[r] = "commit" => rowId[r] # 0
                   /\ rowId[r] # 0
                         => pc[r] \in {"commit", "getVID", "done", "killed"}
RowsOwn     == \A w \in table : w = RowOf(w.of) /\ rowId[w.of] # 0

Numbered == IdsBelow /\ IdsDistinct /\ IdsLate /\ RowsOwn

(* Only Insert writes rowId and nextId, and only of a POST that had none.  *)
LEMMA IdsByInsert ==
    ASSUME [Next]_vars
    PROVE  UNCHANGED <<rowId, nextId>> \/ \E r \in Requests : Insert(r)
  BY DEF Next, Script, vars, Submit, VideoAttributes, VideoAttributesFail,
         LocalUpload, LocalUploadFail, MakeThumbnail, MakeThumbnailFail,
         PutVideo, PutVideoFail, PutThumb, PutThumbFail, Unlink,
         PreparedSQL, PreparedSQLFail, InsertFail, Commit, GetVID,
         GetVIDFail, Kill, Tick

LEMMA IdsKept ==
    Typed /\ Numbered /\ [Next]_vars => IdsBelow' /\ IdsDistinct'
<1> SUFFICES ASSUME Typed, Numbered, [Next]_vars
             PROVE  IdsBelow' /\ IdsDistinct'
  OBVIOUS
<1> USE DEF Numbered, IdsBelow, IdsDistinct, Typed, TypeOK
<1>1. CASE UNCHANGED <<rowId, nextId>>
  BY <1>1
<1>2. ASSUME NEW r \in Requests, Insert(r)
      PROVE  IdsBelow' /\ IdsDistinct'
  BY <1>2 DEF Insert
<1> QED
  BY <1>1, <1>2, IdsByInsert

(* A POST never leaves the stages behind its INSERT for one before it.     *)
LEMMA IdsLateKept ==
    Typed /\ Numbered /\ [Next]_vars => IdsLate'
<1> SUFFICES ASSUME Typed, Numbered, [Next]_vars
             PROVE  IdsLate'
  OBVIOUS
<1> USE DEF Numbered, IdsLate, Typed, TypeOK, Goto, EndWith, ErrorPage
<1>1. ASSUME NEW r \in Requests, Insert(r)
      PROVE  IdsLate'
  BY <1>1 DEF Insert
<1>2. ASSUME NEW r \in Requests,
             \/ Submit(r) \/ VideoAttributes(r) \/ VideoAttributesFail(r)
             \/ LocalUpload(r) \/ LocalUploadFail(r)
             \/ MakeThumbnail(r) \/ MakeThumbnailFail(r)
      PROVE  IdsLate'
  BY <1>2 DEF Submit, VideoAttributes, VideoAttributesFail, LocalUpload,
              LocalUploadFail, MakeThumbnail, MakeThumbnailFail
<1>3. ASSUME NEW r \in Requests,
             \/ PutVideo(r) \/ PutVideoFail(r) \/ PutThumb(r)
             \/ PutThumbFail(r) \/ Unlink(r)
      PROVE  IdsLate'
  BY <1>3 DEF PutVideo, PutVideoFail, PutThumb, PutThumbFail, Unlink
<1>4. ASSUME NEW r \in Requests,
             \/ PreparedSQL(r) \/ PreparedSQLFail(r) \/ InsertFail(r)
             \/ Commit(r) \/ Kill(r)
      PROVE  IdsLate'
  BY <1>4 DEF PreparedSQL, PreparedSQLFail, InsertFail, Commit, Kill
<1>5. ASSUME NEW r \in Requests, GetVID(r) \/ GetVIDFail(r)
      PROVE  IdsLate'
  BY <1>5 DEF GetVID, GetVIDFail
<1>6. CASE UNCHANGED <<pc, rowId>>
  BY <1>6
<1> QED
  BY <1>1, <1>2, <1>3, <1>4, <1>5, <1>6 DEF Next, Script, Tick, vars

LEMMA RowsOwnKept ==
    Typed /\ RowsNamed /\ Numbered /\ [Next]_vars => RowsOwn'
<1> SUFFICES ASSUME Typed, RowsNamed, Numbered, [Next]_vars, NEW w \in table'
             PROVE  w = RowOf(w.of)' /\ rowId'[w.of] # 0
  BY DEF RowsOwn
<1>1. CASE w \in table
  <2>1. w.of \in Requests
    BY <1>1 DEF Typed, TypeOK, Rows
  <2>2. uuid[w.of] # None /\ sub[w.of] # None
    BY <1>1 DEF RowsNamed
  <2>3. w = RowOf(w.of) /\ rowId[w.of] # 0
    BY <1>1 DEF Numbered, RowsOwn
  <2>4. rowId'[w.of] = rowId[w.of]
    <3>1. ASSUME NEW r \in Requests, Insert(r)
          PROVE  rowId'[w.of] = rowId[w.of]
      BY <3>1, <2>1, <2>3 DEF Insert, Numbered, IdsLate, Typed, TypeOK
    <3>2. QED
      BY <3>1, IdsByInsert
  <2>5. uuid'[w.of] = uuid[w.of] /\ sub'[w.of] = sub[w.of]
    BY <2>1, <2>2, NamesKept
  <2>6. QED
    BY <2>3, <2>4, <2>5 DEF RowOf, FileOf
<1>2. ASSUME NEW r \in Requests, Commit(r), w = RowOf(r)
      PROVE  w = RowOf(w.of)' /\ rowId'[w.of] # 0
  BY <1>2 DEF Commit, RowOf, FileOf, Numbered, IdsLate
<1>3. w \in table \/ \E r \in Requests : Commit(r) /\ w = RowOf(r)
  BY RowsByCommit DEF Commit
<1> QED
  BY <1>1, <1>2, <1>3

(* Types, stored objects and IDs together are inductive.                   *)
Published == Typed /\ Backed /\ Numbered

LEMMA PublishedInvariant == Spec => []Published
<1>1. Init => Published
  BY InitTyped, InitBacked
     DEF Published, Init, Numbered, IdsBelow, IdsDistinct, IdsLate, RowsOwn
<1>2. Published /\ [Next]_vars => Published'
  BY TypedInductive, VideoPutKept, ThumbPutKept, RowsKept,
     IdsKept, IdsLateKept, RowsOwnKept DEF Published, Backed, Numbered
<1> QED
  BY <1>1, <1>2, PTL DEF Spec

(* One POST never gets two rows and one ID is never given twice, however   *)
(* the INSERTs of the processes interleave with each other's commits: the  *)
(* counter is ahead of every ID in use, and a script does not come back    *)
(* from its INSERT.                                                        *)
THEOREM NoSecondRow == Spec => []OneRowPerPost
<1>1. Published => OneRowPerPost
  BY DEF Published, Numbered, IdsDistinct, RowsOwn, OneRowPerPost, RowOf,
         Typed, TypeOK, Rows
<1> QED
  BY <1>1, PublishedInvariant, PTL

----------------------------------------------------------------------------
(* What the objects in the bucket hold: that they stay what they are once  *)
(* a row names them, and that they are of the right POST whenever the code *)
(* cannot have mixed two POSTs up.                                         *)

(* An object under a uuid of one POST only is written by that POST.        *)
LEMMA ObjectByOwner ==
    ASSUME Typed, [Next]_vars, NEW r \in Requests, uuid[r] # None,
           SoleUuid(r), NEW k \in Keys, k[1] = uuid[r]
    PROVE  \/ bucket'[k] = bucket[k]
           \/ PutVideo(r) \/ PutVideoFail(r) \/ PutThumb(r) \/ PutThumbFail(r)
<1>1. ASSUME NEW q \in Requests \ {r},
             \/ PutVideo(q) \/ PutVideoFail(q) \/ PutThumb(q) \/ PutThumbFail(q)
      PROVE  bucket'[k] = bucket[k]
  <2>1. VideoKey(q) # k /\ ThumbKey(q) # k
    BY DEF SoleUuid, VideoKey, ThumbKey
  <2>2. QED
    BY <1>1, <2>1
       DEF PutVideo, PutVideoFail, PutThumb, PutThumbFail, Typed, TypeOK
<1>2. CASE UNCHANGED bucket
  BY <1>2
<1> QED
  BY <1>1, <1>2
     DEF Next, Script, vars, Submit, VideoAttributes, VideoAttributesFail,
         LocalUpload, LocalUploadFail, MakeThumbnail, MakeThumbnailFail,
         Unlink, PreparedSQL, PreparedSQLFail, Insert, InsertFail, Commit,
         GetVID, GetVIDFail, Kill, Tick

(* A script that is not at a put leaves its two keys alone.                *)
LEMMA KeysOfOthers ==
    ASSUME Typed, [Next]_vars, NEW r \in Requests,
           sub[r] # None, uuid[r] # None, SoleUuid(r),
           pc[r] \notin {"putVideo", "putThumb"}
    PROVE  /\ bucket'[VideoKey(r)] = bucket[VideoKey(r)]
           /\ bucket'[ThumbKey(r)] = bucket[ThumbKey(r)]
<1>1. VideoKey(r) \in Keys /\ ThumbKey(r) \in Keys
  BY NamesMeanKeys DEF Typed
<1>2. VideoKey(r)[1] = uuid[r] /\ ThumbKey(r)[1] = uuid[r]
  BY DEF VideoKey, ThumbKey
<1> QED
  BY <1>1, <1>2, ObjectByOwner
     DEF PutVideo, PutVideoFail, PutThumb, PutThumbFail

(* The POST of a row has its names and is past its puts.                   *)
LEMMA RowPastPuts ==
    ASSUME Published, NEW w \in table
    PROVE  /\ w.of \in Requests
           /\ sub[w.of] # None /\ uuid[w.of] # None
           /\ pc[w.of] \notin {"new", "videoAttributes", "localUpload",
                               "makeThumbnail", "putVideo", "putThumb",
                               "unlink"}
<1>1. w.of \in Requests
  BY DEF Published, Typed, TypeOK, Rows
<1>2. sub[w.of] # None /\ uuid[w.of] # None
  BY DEF Published, Backed, RowsNamed
<1>3. rowId[w.of] # 0
  BY DEF Published, Numbered, RowsOwn
<1> QED
  BY <1>1, <1>2, <1>3 DEF Published, Numbered, IdsLate

(* An object changes only by the put of a POST that drew its uuid.         *)
LEMMA ObjectByPut ==
    ASSUME Typed, [Next]_vars, NEW k \in Keys, bucket'[k] # bucket[k]
    PROVE  \E q \in Requests :
              /\ pc[q] \in {"putVideo", "putThumb"} /\ pc'[q] # pc[q]
              /\ uuid[q] = k[1] /\ uuid'[q] = k[1]
<1>1. ASSUME NEW q \in Requests,
             \/ PutVideo(q) \/ PutVideoFail(q) \/ PutThumb(q) \/ PutThumbFail(q)
      PROVE  /\ pc[q] \in {"putVideo", "putThumb"} /\ pc'[q] # pc[q]
             /\ uuid[q] = k[1] /\ uuid'[q] = k[1]
  BY <1>1 DEF PutVideo, PutVideoFail, PutThumb, PutThumbFail, VideoKey,
              ThumbKey, ErrorPage, EndWith, Goto, Typed, TypeOK
<1>2. CASE UNCHANGED bucket
  BY <1>2
<1> QED
  BY <1>1, <1>2
     DEF Next, Script, vars, Submit, VideoAttributes, VideoAttributesFail,
         LocalUpload, LocalUploadFail, MakeThumbnail, MakeThumbnailFail,
         Unlink, PreparedSQL, PreparedSQLFail, Insert, InsertFail, Commit,
         GetVID, GetVIDFail, Kill, Tick

(* What a row shows is replaced by nobody but a POST with the same uuid:   *)
(* only a put changes an object, the key tells whose uuid it was put       *)
(* under, and the POST of the row is past its own puts.                    *)
THEOREM OnlyTwinsReplace == Spec => ReplacedOnlyByTwin
<1>1. ASSUME Published, [Next]_vars, NEW w \in table,
             NEW k \in {VideoKey(w.of), ThumbKey(w.of)}, bucket'[k] # bucket[k]
      PROVE  \E q \in Requests \ {w.of} :
                /\ uuid[q] = w.UUID
                /\ pc[q] \in {"putVideo", "putThumb"} /\ pc'[q] # pc[q]
  <2>1. /\ w.of \in Requests /\ sub[w.of] # None /\ uuid[w.of] # None
        /\ pc[w.of] \notin {"putVideo", "putThumb"}
    BY RowPastPuts, <1>1
  <2>2. k \in Keys
    BY <1>1, <2>1, NamesMeanKeys DEF Published, Typed
  <2>3. k[1] = uuid[w.of] /\ uuid[w.of] = w.UUID
    <3>1. k[1] = uuid[w.of]
      BY <1>1 DEF VideoKey, ThumbKey
    <3> QED
      BY <1>1, <3>1 DEF Published, Backed, RowsBacked
  <2>4. PICK q \in Requests :
              /\ pc[q] \in {"putVideo", "putThumb"} /\ pc'[q] # pc[q]
              /\ uuid[q] = k[1]
    BY <1>1, <2>2, ObjectByPut DEF Published
  <2> QED
    BY <2>1, <2>3, <2>4
<1>2. Published /\ [Next]_vars =>
        [\A w \in table : \A k \in {VideoKey(w.of), ThumbKey(w.of)} :
            bucket'[k] # bucket[k] =>
                \E q \in Requests \ {w.of} :
                    /\ uuid[q] = w.UUID
                    /\ pc[q] \in {"putVideo", "putThumb"} /\ pc'[q] # pc[q]]_vars
  BY <1>1
<1> QED
  BY <1>2, PublishedInvariant, PTL DEF Spec, ReplacedOnlyByTwin

----------------------------------------------------------------------------
(* Whose video and whose picture a row shows.                              *)

Unmixed(r) == r \notin clashed /\ SoleUuid(r)

(* A POST that never clashed is alone with its file name while it holds    *)
(* /tmp/<name>, which is its own file.                                     *)
Alone == \A r \in Requests \ clashed : pc[r] \in Holding =>
            /\ local[FileOf(r)] = r
            /\ \A q \in Requests \ {r} :
                  pc[q] \in Holding => FileOf(q) # FileOf(r)

(* Its picture in /tmp is then of its video, and so are its two objects.   *)
OwnPicture == \A r \in Requests :
    (Unmixed(r) /\ pc[r] \in {"putVideo", "putThumb", "unlink"})
        => thumbs[uuid[r]] = Picture(r)

OwnVideoObject == \A r \in Requests :
    (Unmixed(r) /\ pc[r] \in AfterVideo /\ ExtOf[FileOf(r)] # "jpg")
        => bucket[VideoKey(r)] = Video(r)

OwnThumbObject == \A r \in Requests :
    (Unmixed(r) /\ pc[r] \in AfterThumb)
        => bucket[ThumbKey(r)] = Picture(r)

(* What is not mixed up was not before, once it has its uuid: clashed only *)
(* grows and a uuid once drawn is kept.                                    *)
LEMMA UnmixedBefore ==
    ASSUME Typed, [Next]_vars, NEW r \in Requests, uuid[r] # None, Unmixed(r)'
    PROVE  Unmixed(r)
<1>1. clashed \subseteq clashed'
  BY DEF Next, Script, vars, Submit, VideoAttributes, VideoAttributesFail,
         LocalUpload, LocalUploadFail, MakeThumbnail, MakeThumbnailFail,
         PutVideo, PutVideoFail, PutThumb, PutThumbFail, Unlink,
         PreparedSQL, PreparedSQLFail, Insert, InsertFail, Commit, GetVID,
         GetVIDFail, Kill, Tick
<1>2. ASSUME NEW q \in Requests \ {r}
      PROVE  uuid[q] # uuid[r]
  <2>1. uuid'[r] = uuid[r]
    BY NamesKept
  <2>2. uuid[q] # None => uuid'[q] = uuid[q]
    BY NamesKept
  <2>3. uuid'[q] # uuid'[r]
    BY DEF Unmixed, SoleUuid
  <2>4. QED
    BY <2>1, <2>2, <2>3
<1> QED
  BY <1>1, <1>2 DEF Unmixed, SoleUuid

(* The span in which a file is held starts with LocalUpload.               *)
LEMMA HeldByUpload ==
    ASSUME Typed, [Next]_vars, NEW r \in Requests, pc'[r] \in Holding
    PROVE  pc[r] \in Holding \/ LocalUpload(r)
  BY DEF Typed, TypeOK, Holding, Goto, EndWith, ErrorPage,
         Next, Script, vars, Submit, VideoAttributes, VideoAttributesFail,
         LocalUploadFail, LocalUpload, MakeThumbnail, MakeThumbnailFail,
         PutVideo, PutVideoFail, PutThumb, PutThumbFail, Unlink,
         PreparedSQL, PreparedSQLFail, Insert, InsertFail, Commit, GetVID,
         GetVIDFail, Kill, Tick

(* Only LocalUpload and Unlink touch /tmp/<name>.                          *)
LEMMA LocalBy ==
    ASSUME [Next]_vars
    PROVE  \/ UNCHANGED local
           \/ \E q \in Requests : LocalUpload(q) \/ Unlink(q)
  BY DEF Next, Script, vars, Submit, VideoAttributes, VideoAttributesFail,
         LocalUploadFail, MakeThumbnail, MakeThumbnailFail,
         PutVideo, PutVideoFail, PutThumb, PutThumbFail,
         PreparedSQL, PreparedSQLFail, Insert, InsertFail, Commit, GetVID,
         GetVIDFail, Kill, Tick

(* Only LocalUpload records a clash.                                       *)
LEMMA ClashedBy ==
    ASSUME [Next]_vars
    PROVE  \/ UNCHANGED clashed
           \/ \E q \in Requests : LocalUpload(q)
  BY DEF Next, Script, vars, Submit, VideoAttributes, VideoAttributesFail,
         LocalUploadFail, MakeThumbnail, MakeThumbnailFail,
         PutVideo, PutVideoFail, PutThumb, PutThumbFail, Unlink,
         PreparedSQL, PreparedSQLFail, Insert, InsertFail, Commit, GetVID,
         GetVIDFail, Kill, Tick

(* Being alone: a newcomer of the same name marks both as clashed.         *)
LEMMA AloneKept == Typed /\ Alone /\ [Next]_vars => Alone'
<1> SUFFICES ASSUME Typed, Alone, [Next]_vars,
                    NEW r \in Requests, r \notin clashed', pc'[r] \in Holding
             PROVE  /\ local'[FileOf(r)'] = r
                    /\ \A q \in Requests \ {r} :
                          pc'[q] \in Holding => FileOf(q)' # FileOf(r)'
  BY DEF Alone
<1>1. FileOf(r)' = FileOf(r) /\ FileOf(r) \in Files
  <2>1. pc[r] \in Stages
    BY HeldByUpload DEF Stages, LocalUpload
  <2>2. uuid[r] # None
    BY <2>1 DEF Typed, StageOK
  <2>3. QED
    BY <2>1, <2>2, NamesKept, NamesTyped DEF FileOf
<1>2. CASE \E q \in Requests : LocalUpload(q)
  <2>1. PICK q \in Requests : LocalUpload(q)
    BY <1>2
  <2>2. CASE q = r
    <3>1. \A p \in Requests \ {r} : pc[p] \in Holding => FileOf(p) # FileOf(r)
      BY <2>1, <2>2 DEF LocalUpload
    <3>2. QED
      BY <1>1, <2>1, <2>2, <3>1
         DEF LocalUpload, Goto, Typed, TypeOK, FileOf
  <2>3. CASE q # r
    <3>1. pc[r] \in Holding
      BY <2>1, <2>3 DEF LocalUpload, Goto, Typed, TypeOK
    <3>2. FileOf(q) # FileOf(r)
      BY <2>1, <2>3, <3>1 DEF LocalUpload
    <3>3. r \notin clashed
      BY <2>1 DEF LocalUpload
    <3>4. QED
      BY <1>1, <2>1, <2>3, <3>1, <3>2, <3>3
         DEF Alone, LocalUpload, Goto, Typed, TypeOK, FileOf
  <2>4. QED
    BY <2>2, <2>3
<1>3. CASE ~ \E q \in Requests : LocalUpload(q)
  <2>1. pc[r] \in Holding /\ r \notin clashed
    BY <1>3, HeldByUpload, ClashedBy
  <2>2. ASSUME NEW q \in Requests \ {r}, pc'[q] \in Holding
        PROVE  FileOf(q)' # FileOf(r)'
    <3>1. pc[q] \in Holding
      BY <1>3, <2>2, HeldByUpload
    <3>2. uuid[q] # None
      BY <3>1 DEF Typed, StageOK, Stages
    <3>3. FileOf(q)' = FileOf(q)
      BY <3>2, NamesKept DEF FileOf
    <3>4. QED
      BY <1>1, <2>1, <3>1, <3>3 DEF Alone
  <2>3. local'[FileOf(r)] = r
    <3>1. ASSUME NEW q \in Requests, Unlink(q)
          PROVE  local'[FileOf(r)] = r
      <4>1. q # r
        BY <3>1 DEF Unlink, Goto, Typed, TypeOK, Holding
      <4>2. pc[q] \in Holding
        BY <3>1 DEF Unlink, Holding
      <4>3. FileOf(q) # FileOf(r) /\ local[FileOf(r)] = r
        BY <2>1, <4>1, <4>2 DEF Alone
      <4>4. QED
        BY <1>1, <3>1, <4>3 DEF Unlink, Typed, TypeOK
    <3>2. QED
      BY <1>3, <2>1, <3>1, LocalBy DEF Alone
  <2>4. QED
    BY <1>1, <2>2, <2>3
<1> QED
  BY <1>2, <1>3

(* What a script that stays in its stages keeps of its names and contents. *)
LEMMA NamesStand ==
    ASSUME Typed, [Next]_vars, NEW r \in Requests, pc[r] \in Stages
    PROVE  /\ uuid[r] # None /\ sub[r] # None
           /\ uuid'[r] = uuid[r] /\ sub'[r] = sub[r]
           /\ FileOf(r)' = FileOf(r)
           /\ VideoKey(r)' = VideoKey(r) /\ ThumbKey(r)' = ThumbKey(r)
           /\ Picture(r)' = Picture(r)
<1>1. uuid[r] # None /\ sub[r] # None
  BY DEF Typed, StageOK, Stages, Holding
<1> QED
  BY <1>1, NamesKept DEF FileOf, VideoKey, ThumbKey, Picture

(* The pictures in /tmp: who writes them, and how a script gets one.       *)
LEMMA ThumbsBy ==
    ASSUME [Next]_vars
    PROVE  \/ UNCHANGED thumbs
           \/ \E q \in Requests : MakeThumbnail(q) \/ Unlink(q)
  BY DEF Next, Script, vars, Submit, VideoAttributes, VideoAttributesFail,
         LocalUpload, LocalUploadFail, MakeThumbnailFail,
         PutVideo, PutVideoFail, PutThumb, PutThumbFail,
         PreparedSQL, PreparedSQLFail, Insert, InsertFail, Commit, GetVID,
         GetVIDFail, Kill, Tick

LEMMA PictureByThumbnail ==
    ASSUME Typed, [Next]_vars, NEW r \in Requests,
           pc'[r] \in {"putVideo", "putThumb", "unlink"}
    PROVE  pc[r] \in {"putVideo", "putThumb", "unlink"} \/ MakeThumbnail(r)
  BY DEF Typed, TypeOK, Goto, EndWith, ErrorPage,
         Next, Script, vars, Submit, VideoAttributes, VideoAttributesFail,
         LocalUploadFail, LocalUpload, MakeThumbnail, MakeThumbnailFail,
         PutVideo, PutVideoFail, PutThumb, PutThumbFail, Unlink,
         PreparedSQL, PreparedSQLFail, Insert, InsertFail, Commit, GetVID,
         GetVIDFail, Kill, Tick

LEMMA OwnPictureKept ==
    Typed /\ Alone /\ OwnPicture /\ [Next]_vars => OwnPicture'
<1> SUFFICES ASSUME Typed, Alone, OwnPicture, [Next]_vars,
                    NEW r \in Requests, Unmixed(r)',
                    pc'[r] \in {"putVideo", "putThumb", "unlink"}
             PROVE  thumbs'[uuid'[r]] = Picture(r)'
  BY DEF OwnPicture
<1>1. pc[r] \in Stages /\ pc[r] \in Holding
  BY PictureByThumbnail DEF MakeThumbnail, Stages, Holding
<1>2. uuid'[r] = uuid[r] /\ Picture(r)' = Picture(r) /\ uuid[r] # None
  BY <1>1, NamesStand
<1>3. Unmixed(r)
  BY <1>2, UnmixedBefore
<1>4. uuid[r] \in Uuids
  BY <1>1, NamesTyped
<1>5. CASE MakeThumbnail(r)
  <2>1. local[FileOf(r)] = r
    BY <1>1, <1>3 DEF Alone, Unmixed
  <2>2. QED
    BY <1>2, <1>4, <1>5, <2>1 DEF MakeThumbnail, Typed, TypeOK
<1>6. CASE pc[r] \in {"putVideo", "putThumb", "unlink"}
  <2>1. thumbs[uuid[r]] = Picture(r)
    BY <1>3, <1>6 DEF OwnPicture
  <2>2. ASSUME NEW q \in Requests, MakeThumbnail(q) \/ Unlink(q)
        PROVE  thumbs'[uuid[r]] = thumbs[uuid[r]]
    <3>1. q # r
      BY <1>6, <2>2 DEF MakeThumbnail, Unlink, Goto, Typed, TypeOK
    <3>2. uuid[q] # uuid[r]
      BY <1>3, <3>1 DEF Unmixed, SoleUuid
    <3>3. QED
      BY <1>4, <2>2, <3>2 DEF MakeThumbnail, Unlink, Typed, TypeOK
  <2>3. QED
    BY <1>2, <2>1, <2>2, ThumbsBy
<1> QED
  BY <1>5, <1>6, PictureByThumbnail

LEMMA OwnVideoObjectKept ==
    Typed /\ Alone /\ OwnVideoObject /\ [Next]_vars => OwnVideoObject'
<1> SUFFICES ASSUME Typed, Alone, OwnVideoObject, [Next]_vars,
                    NEW r \in Requests, Unmixed(r)', pc'[r] \in AfterVideo,
                    ExtOf[FileOf(r)'] # "jpg"
             PROVE  bucket'[VideoKey(r)'] = Video(r)
  BY DEF OwnVideoObject, Video
<1>1. pc[r] \in Stages
  BY ReachedByPut DEF PutVideo, AfterVideo, AfterThumb, Stages, Holding
<1>2. /\ uuid[r] # None /\ FileOf(r)' = FileOf(r)
      /\ VideoKey(r)' = VideoKey(r)
  BY <1>1, NamesStand
<1>3. Unmixed(r)
  BY <1>2, UnmixedBefore
<1>4. VideoKey(r) \in Keys /\ VideoKey(r)[1] = uuid[r]
  BY <1>1, NamesTyped DEF VideoKey
<1>5. CASE PutVideo(r)
  <2>1. local[FileOf(r)] = r
    BY <1>3, <1>5 DEF Alone, Unmixed, PutVideo, Holding
  <2>2. QED
    BY <1>2, <1>4, <1>5, <2>1 DEF PutVideo, Typed, TypeOK
<1>6. CASE pc[r] \in AfterVideo
  <2>1. bucket[VideoKey(r)] = Video(r)
    BY <1>2, <1>3, <1>6 DEF OwnVideoObject
  <2>2. bucket'[VideoKey(r)] = bucket[VideoKey(r)]
    <3>1. ~PutVideo(r) /\ ~PutVideoFail(r) /\ ~PutThumbFail(r)
      BY <1>6 DEF PutVideo, PutVideoFail, PutThumbFail, ErrorPage, EndWith,
                  Goto, AfterVideo, AfterThumb, Typed, TypeOK
    <3>2. ThumbKey(r) # VideoKey(r)
      BY <1>2 DEF ThumbKey, VideoKey
    <3>3. CASE PutThumb(r)
      BY <1>4, <3>2, <3>3 DEF PutThumb, Typed, TypeOK
    <3>4. QED
      BY <1>2, <1>3, <1>4, <3>1, <3>3, ObjectByOwner DEF Unmixed
  <2>3. QED
    BY <1>2, <2>1, <2>2
<1> QED
  BY <1>5, <1>6, ReachedByPut

LEMMA OwnThumbObjectKept ==
    Typed /\ OwnPicture /\ OwnThumbObject /\ [Next]_vars => OwnThumbObject'
<1> SUFFICES ASSUME Typed, OwnPicture, OwnThumbObject, [Next]_vars,
                    NEW r \in Requests, Unmixed(r)', pc'[r] \in AfterThumb
             PROVE  bucket'[ThumbKey(r)'] = Picture(r)'
  BY DEF OwnThumbObject
<1>1. pc[r] \in Stages
  BY ReachedByPut DEF PutThumb, AfterThumb, Stages, Holding
<1>2. /\ uuid[r] # None /\ sub[r] # None
      /\ ThumbKey(r)' = ThumbKey(r) /\ Picture(r)' = Picture(r)
  BY <1>1, NamesStand
<1>3. Unmixed(r)
  BY <1>2, UnmixedBefore
<1>4. ThumbKey(r) \in Keys
  BY <1>1, NamesTyped
<1>5. CASE PutThumb(r)
  <2>1. thumbs[uuid[r]] = Picture(r)
    BY <1>3, <1>5 DEF OwnPicture, PutThumb
  <2>2. QED
    BY <1>2, <1>4, <1>5, <2>1 DEF PutThumb, Typed, TypeOK
<1>6. CASE pc[r] \in AfterThumb
  <2>1. bucket[ThumbKey(r)] = Picture(r)
    BY <1>3, <1>6 DEF OwnThumbObject
  <2>2. bucket'[ThumbKey(r)] = bucket[ThumbKey(r)]
    BY <1>2, <1>3, <1>6, KeysOfOthers DEF Unmixed, AfterThumb
  <2>3. QED
    BY <1>2, <2>1, <2>2
<1> QED
  BY <1>5, <1>6, ReachedByPut

(* Rows stay faithful once they are: nobody else has their keys.           *)
LEMMA FaithfulKept ==
    Published /\ OwnVideoObject /\ OwnThumbObject /\ StoredFaithfully
       /\ [Next]_vars => StoredFaithfully'
<1> SUFFICES ASSUME Published, OwnVideoObject, OwnThumbObject,
                    StoredFaithfully, [Next]_vars,
                    NEW w \in table', Unmixed(w.of)'
             PROVE  /\ bucket'[ThumbKey(w.of)'] = Picture(w.of)'
                    /\ ExtOf[FileOf(w.of)'] # "jpg"
                          => bucket'[VideoKey(w.of)'] = Video(w.of)
  BY DEF StoredFaithfully, Unmixed, Video
<1>1. CASE w \in table
  <2>1. /\ w.of \in Requests /\ sub[w.of] # None /\ uuid[w.of] # None
        /\ pc[w.of] \notin {"putVideo", "putThumb"}
    BY <1>1, RowPastPuts
  <2>2. Unmixed(w.of)
    BY <2>1, UnmixedBefore DEF Published
  <2>3. uuid'[w.of] = uuid[w.of] /\ sub'[w.of] = sub[w.of]
    BY <2>1, NamesKept DEF Published
  <2>4. /\ bucket'[VideoKey(w.of)] = bucket[VideoKey(w.of)]
        /\ bucket'[ThumbKey(w.of)] = bucket[ThumbKey(w.of)]
    BY <2>1, <2>2, KeysOfOthers DEF Published, Unmixed
  <2>5. /\ bucket[ThumbKey(w.of)] = Picture(w.of)
        /\ ExtOf[FileOf(w.of)] # "jpg" => bucket[VideoKey(w.of)] = Video(w.of)
    BY <1>1, <2>2 DEF StoredFaithfully, Unmixed
  <2>6. /\ FileOf(w.of)' = FileOf(w.of) /\ Picture(w.of)' = Picture(w.of)
        /\ VideoKey(w.of)' = VideoKey(w.of) /\ ThumbKey(w.of)' = ThumbKey(w.of)
    BY <2>3 DEF FileOf, Picture, VideoKey, ThumbKey
  <2>7. QED
    BY <2>4, <2>5, <2>6
<1>2. ASSUME NEW r \in Requests, Commit(r), w = RowOf(r)
      PROVE  /\ bucket'[ThumbKey(w.of)'] = Picture(w.of)'
             /\ ExtOf[FileOf(w.of)'] # "jpg"
                   => bucket'[VideoKey(w.of)'] = Video(w.of)
  <2>1. w.of = r /\ pc[r] \in AfterVideo /\ pc[r] \in AfterThumb /\ pc[r] \in Stages
    BY <1>2 DEF RowOf, Commit, AfterVideo, AfterThumb, Stages
  <2>2. Unmixed(r)
    BY <2>1, NamesStand, UnmixedBefore DEF Published
  <2>3. /\ bucket[ThumbKey(r)] = Picture(r)
        /\ ExtOf[FileOf(r)] # "jpg" => bucket[VideoKey(r)] = Video(r)
    BY <2>1, <2>2 DEF OwnVideoObject, OwnThumbObject
  <2>4. /\ FileOf(r)' = FileOf(r) /\ Picture(r)' = Picture(r)
        /\ VideoKey(r)' = VideoKey(r) /\ ThumbKey(r)' = ThumbKey(r)
    BY <2>1, NamesStand DEF Published
  <2>5. bucket' = bucket
    BY <1>2 DEF Commit
  <2>6. QED
    BY <2>1, <2>3, <2>4, <2>5
<1>3. w \in table \/ \E r \in Requests : Commit(r) /\ w = RowOf(r)
  BY RowsByCommit DEF Commit, Published
<1> QED
  BY <1>1, <1>2, <1>3

(* A row shows the video and the picture of its own POST unless its file   *)
(* name was shared while it was held, its uuid was drawn twice, or the     *)
(* file is a .jpg: there is no fourth way to mix videos up, in any number  *)
(* of interleaved and failing uploads.  The argument follows the file: a   *)
(* POST that never clashed owns /tmp/<name> (Alone), so the picture taken  *)
(* of it and the two objects stored of it are its own.                     *)
THEOREM RowsShowTheirOwn == Spec => []StoredFaithfully
<1> DEFINE Inv == /\ Published /\ Alone /\ OwnPicture
                  /\ OwnVideoObject /\ OwnThumbObject /\ StoredFaithfully
<1>1. Init => Alone /\ OwnPicture /\ OwnVideoObject /\ OwnThumbObject
                  /\ StoredFaithfully
  BY DEF Init, Alone, OwnPicture, OwnVideoObject, OwnThumbObject,
         StoredFaithfully, Holding, AfterVideo, AfterThumb
<1>2. Published /\ Inv /\ [Next]_vars /\ Published' => Inv'
  BY AloneKept, OwnPictureKept, OwnVideoObjectKept, OwnThumbObjectKept,
     FaithfulKept DEF Published
<1>3. Init => Published
  BY InitTyped, InitBacked
     DEF Published, Init, Numbered, IdsBelow, IdsDistinct, IdsLate, RowsOwn
<1>4. Inv => StoredFaithfully /\ Published
  OBVIOUS
<1>5. Init => Inv
  BY <1>1, <1>3
<1> HIDE DEF Inv
<1> QED
  BY <1>2, <1>4, <1>5, PublishedInvariant, PTL DEF Spec
=============================================================================

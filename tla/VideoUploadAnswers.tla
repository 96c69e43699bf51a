------------------------- MODULE VideoUploadAnswers -------------------------
(* Proofs about what the uploader is answered, what is left of the upload  *)
(* in /tmp, and to whom an upload may be lost.                             *)
EXTENDS VideoUploadProofs

(* A uuid that is one's own was so before, once it is drawn.               *)
LEMMA SoleBefore ==
    ASSUME Typed, [Next]_vars, NEW r \in Requests, uuid[r] # None, SoleUuid(r)'
    PROVE  SoleUuid(r)
<1> SUFFICES ASSUME NEW q \in Requests \ {r}
             PROVE  uuid[q] # uuid[r]
  BY DEF SoleUuid
<1>1. uuid'[r] = uuid[r]
  BY NamesKept
<1>2. uuid[q] # None => uuid'[q] = uuid[q]
  BY NamesKept
<1>3. uuid'[q] # uuid'[r]
  BY DEF SoleUuid
<1> QED
  BY <1>1, <1>2, <1>3

(* A uuid is drawn by videoAttributes.                                     *)
LEMMA DrawnByAttributes ==
    ASSUME Typed, [Next]_vars, NEW r \in Requests, uuid[r] = None,
           uuid'[r] # None
    PROVE  VideoAttributes(r)
  BY DEF Next, Script, vars, Submit, VideoAttributes,
         VideoAttributesFail, LocalUpload, LocalUploadFail, MakeThumbnail,
         MakeThumbnailFail, PutVideo, PutVideoFail, PutThumb, PutThumbFail,
         Unlink, PreparedSQL, PreparedSQLFail, Insert, InsertFail, Commit,
         GetVID, GetVIDFail, Kill, Tick, Typed, TypeOK

(* The answer is given once, by the step that ends the script.             *)
Answered == \A r \in Requests : response[r].page # "none" => pc[r] = "done"

LEMMA AnsweredKept == Typed /\ Answered /\ [Next]_vars => Answered'
<1> SUFFICES ASSUME Typed, Answered, [Next]_vars
             PROVE  Answered'
  OBVIOUS
<1> USE DEF Answered, Typed, TypeOK, Answer, Goto, EndWith, ErrorPage
<1>1. ASSUME NEW r \in Requests,
             \/ Submit(r) \/ VideoAttributes(r) \/ VideoAttributesFail(r)
             \/ LocalUpload(r) \/ LocalUploadFail(r)
             \/ MakeThumbnail(r) \/ MakeThumbnailFail(r)
      PROVE  Answered'
  BY <1>1 DEF Submit, VideoAttributes, VideoAttributesFail, LocalUpload,
              LocalUploadFail, MakeThumbnail, MakeThumbnailFail
<1>2. ASSUME NEW r \in Requests,
             \/ PutVideo(r) \/ PutVideoFail(r) \/ PutThumb(r)
             \/ PutThumbFail(r) \/ Unlink(r)
      PROVE  Answered'
  BY <1>2 DEF PutVideo, PutVideoFail, PutThumb, PutThumbFail, Unlink
<1>3. ASSUME NEW r \in Requests,
             \/ PreparedSQL(r) \/ PreparedSQLFail(r) \/ Insert(r)
             \/ InsertFail(r) \/ Commit(r) \/ Kill(r)
      PROVE  Answered'
  BY <1>3 DEF PreparedSQL, PreparedSQLFail, Insert, InsertFail, Commit, Kill
<1>4. ASSUME NEW r \in Requests, GetVID(r) \/ GetVIDFail(r)
      PROVE  Answered'
  BY <1>4 DEF GetVID, GetVIDFail
<1>5. CASE UNCHANGED <<pc, response>>
  BY <1>5
<1> QED
  BY <1>1, <1>2, <1>3, <1>4, <1>5 DEF Next, Script, Tick, vars

----------------------------------------------------------------------------
(* The redirect.                                                           *)

LEMMA PlayerByGetVID ==
    ASSUME Typed, [Next]_vars, NEW r \in Requests, response'[r].page = "player"
    PROVE  \/ response'[r] = response[r]
           \/ \E w \in table : w.UUID = uuid[r] /\ response'[r].id = w.ID
<1> USE DEF Typed, TypeOK, EndWith, ErrorPage
<1>1. ASSUME NEW q \in Requests, GetVID(q)
      PROVE  \/ response'[r] = response[r]
             \/ \E w \in table : w.UUID = uuid[r] /\ response'[r].id = w.ID
  BY <1>1 DEF GetVID
<1>2. ASSUME NEW q \in Requests,
             \/ VideoAttributesFail(q) \/ LocalUploadFail(q)
             \/ MakeThumbnailFail(q) \/ PutVideoFail(q) \/ PutThumbFail(q)
             \/ PreparedSQLFail(q) \/ GetVIDFail(q)
      PROVE  response'[r] = response[r]
  BY <1>2 DEF VideoAttributesFail, LocalUploadFail, MakeThumbnailFail,
              PutVideoFail, PutThumbFail, PreparedSQLFail, GetVIDFail
<1>3. CASE UNCHANGED response
  BY <1>3
<1> QED
  BY <1>1, <1>2, <1>3
     DEF Next, Script, vars, Submit, VideoAttributes, LocalUpload,
         MakeThumbnail, PutVideo, PutThumb, Unlink, PreparedSQL, Insert,
         InsertFail, Commit, Kill, Tick

LEMMA RedirectKept ==
    Published /\ RedirectedToOwn /\ [Next]_vars => RedirectedToOwn'
<1> SUFFICES ASSUME Published, RedirectedToOwn, [Next]_vars,
                    NEW r \in Requests, response'[r].page = "player"
             PROVE  \E w \in table' : /\ w.ID = response'[r].id
                                      /\ w.UUID = uuid'[r]
                                      /\ SoleUuid(r)' => w.of = r
  BY DEF RedirectedToOwn
<1>1. table \subseteq table'
  BY RowsByCommit DEF Commit
<1>2. PICK w \in table : w.ID = response'[r].id /\ w.UUID = uuid[r]
  BY PlayerByGetVID DEF Published, RedirectedToOwn
<1>3. w.of \in Requests /\ uuid[w.of] = w.UUID /\ uuid[r] # None
  BY <1>2, RowPastPuts DEF Published, Backed, RowsBacked
<1>4. uuid'[r] = uuid[r]
  BY <1>3, NamesKept DEF Published
<1>5. SoleUuid(r)' => w.of = r
  BY <1>2, <1>3, SoleBefore DEF Published, SoleUuid
<1> QED
  BY <1>1, <1>2, <1>4, <1>5

(* The redirect leads to a row that carries the uuid of the POST, which is *)
(* the POST's own row unless another POST drew the same uuid.              *)
THEOREM RedirectIsRight == Spec => []RedirectedToOwn
<1>1. Init => RedirectedToOwn
  BY DEF Init, RedirectedToOwn, Silent
<1> QED
  BY <1>1, RedirectKept, PublishedInvariant, PTL DEF Spec

----------------------------------------------------------------------------
(* The local copies.                                                       *)

(* Whoever has a file in /tmp has it under the name of its form, has not   *)
(* been through uploadFile and was not told that it had.                   *)
Copies == \A r \in Requests : \A f \in Files :
    local[f] = r =>
        /\ uuid[r] # None /\ f = FileOf(r)
        /\ pc[r] \in Holding \cup {"done", "killed"}
        /\ rowId[r] = 0
        /\ response[r].page \notin {"player", "21", "31", "41"}

(* A script that holds a file moves on or ends in error 11 or 500.         *)
LEMMA HolderEnds ==
    ASSUME Typed, Answered, [Next]_vars, NEW r \in Requests,
           pc[r] \in Holding, ~Unlink(r)
    PROVE  /\ pc'[r] \in Holding \cup {"done", "killed"}
           /\ \/ response'[r] = response[r]
              \/ response'[r].page \in {"11", "500", "echo"}
<1> USE DEF Typed, TypeOK, Answer, Holding, Goto, EndWith, ErrorPage
<1> DEFINE Ends == /\ pc'[r] \in Holding \cup {"done", "killed"}
                   /\ \/ response'[r] = response[r]
                      \/ response'[r].page \in {"11", "500", "echo"}
<1>1. ASSUME NEW q \in Requests,
             \/ Submit(q) \/ VideoAttributes(q) \/ VideoAttributesFail(q)
             \/ LocalUpload(q) \/ LocalUploadFail(q)
             \/ MakeThumbnail(q) \/ MakeThumbnailFail(q)
      PROVE  Ends
  BY <1>1 DEF Submit, VideoAttributes, VideoAttributesFail, LocalUpload,
              LocalUploadFail, MakeThumbnail, MakeThumbnailFail
<1>2. ASSUME NEW q \in Requests,
             \/ PutVideo(q) \/ PutVideoFail(q) \/ PutThumb(q)
             \/ PutThumbFail(q) \/ Unlink(q)
      PROVE  Ends
  BY <1>2 DEF PutVideo, PutVideoFail, PutThumb, PutThumbFail, Unlink
<1>3. ASSUME NEW q \in Requests,
             \/ PreparedSQL(q) \/ PreparedSQLFail(q) \/ Insert(q)
             \/ InsertFail(q) \/ Commit(q) \/ Kill(q)
             \/ GetVID(q) \/ GetVIDFail(q)
      PROVE  Ends
  BY <1>3 DEF PreparedSQL, PreparedSQLFail, Insert, InsertFail, Commit, Kill,
              GetVID, GetVIDFail
<1>4. CASE UNCHANGED <<pc, response>>
  BY <1>4
<1> QED
  BY <1>1, <1>2, <1>3, <1>4 DEF Next, Script, Tick, vars

(* A script that has ended stays as it is.                                 *)
LEMMA EndIsFinal ==
    ASSUME Typed, [Next]_vars, NEW r \in Requests, pc[r] \in {"done", "killed"}
    PROVE  pc'[r] = pc[r] /\ response'[r] = response[r]
<1> USE DEF Typed, TypeOK, Goto, EndWith, ErrorPage
<1>1. ASSUME NEW q \in Requests, Submit(q) \/ Script(q) \/ Kill(q)
      PROVE  q # r
  BY <1>1 DEF Script, Submit, VideoAttributes, VideoAttributesFail,
              LocalUpload, LocalUploadFail, MakeThumbnail, MakeThumbnailFail,
              PutVideo, PutVideoFail, PutThumb, PutThumbFail, Unlink,
              PreparedSQL, PreparedSQLFail, Insert, InsertFail, Commit,
              GetVID, GetVIDFail, Kill
<1>2. ASSUME NEW q \in Requests \ {r}, Submit(q) \/ Script(q) \/ Kill(q)
      PROVE  pc'[r] = pc[r] /\ response'[r] = response[r]
  BY <1>2 DEF Script, Submit, VideoAttributes, VideoAttributesFail,
              LocalUpload, LocalUploadFail, MakeThumbnail, MakeThumbnailFail,
              PutVideo, PutVideoFail, PutThumb, PutThumbFail, Unlink,
              PreparedSQL, PreparedSQLFail, Insert, InsertFail, Commit,
              GetVID, GetVIDFail, Kill
<1>3. CASE Tick \/ UNCHANGED vars
  BY <1>3 DEF Tick, vars
<1> QED
  BY <1>1, <1>2, <1>3 DEF Next

LEMMA CopiesKept ==
    Published /\ Answered /\ Copies /\ [Next]_vars => Copies'
<1> SUFFICES ASSUME Published, Answered, Copies, [Next]_vars,
                    NEW r \in Requests, NEW f \in Files, local'[f] = r
             PROVE  /\ uuid'[r] # None /\ f = FileOf(r)'
                    /\ pc'[r] \in Holding \cup {"done", "killed"}
                    /\ rowId'[r] = 0
                    /\ response'[r].page \notin {"player", "21", "31", "41"}
  BY DEF Copies
<1> USE DEF Published
<1>1. CASE local[f] = r
  <2>1. /\ uuid[r] # None /\ f = FileOf(r) /\ rowId[r] = 0
        /\ pc[r] \in Holding \cup {"done", "killed"}
        /\ response[r].page \notin {"player", "21", "31", "41"}
    BY <1>1 DEF Copies
  <2>2. uuid'[r] = uuid[r] /\ FileOf(r)' = FileOf(r)
    BY <2>1, NamesKept DEF FileOf
  <2>3. rowId'[r] = 0
    <3>1. ~Insert(r)
      BY <2>1 DEF Insert, Holding
    <3>2. QED
      BY <2>1, <3>1, IdsByInsert DEF Insert, Typed, TypeOK
  <2>4. ~Unlink(r)
    BY <2>1, NothingIsNoValue DEF Unlink, Typed, TypeOK
  <2>5. /\ pc'[r] \in Holding \cup {"done", "killed"}
        /\ response'[r].page \notin {"player", "21", "31", "41"}
    BY <2>1, <2>4, HolderEnds, EndIsFinal
  <2>6. QED
    BY <2>1, <2>2, <2>3, <2>5
<1>2. CASE local[f] # r
  <2>1. LocalUpload(r) /\ f = FileOf(r)
    <3>1. ASSUME NEW q \in Requests, Unlink(q)
          PROVE  FALSE
      BY <1>2, <3>1, NothingIsNoValue DEF Unlink, Typed, TypeOK
    <3>2. ASSUME NEW q \in Requests, LocalUpload(q)
          PROVE  q = r /\ f = FileOf(r)
      BY <1>2, <3>2 DEF LocalUpload, Typed, TypeOK
    <3>3. QED
      BY <1>2, <3>1, <3>2, LocalBy
  <2>2. pc[r] \in Stages /\ pc[r] # "done"
    BY <2>1 DEF LocalUpload, Stages
  <2>3. uuid'[r] # None /\ f = FileOf(r)'
    BY <2>1, <2>2, NamesStand
  <2>4. rowId[r] = 0
    BY <2>1 DEF LocalUpload, Numbered, IdsLate
  <2>5. response[r].page = "none"
    BY <2>2 DEF Answered
  <2>6. QED
    BY <2>1, <2>3, <2>4, <2>5 DEF LocalUpload, Goto, Typed, TypeOK, Holding
<1> QED
  BY <1>1, <1>2

(* A picture in /tmp carries a uuid that somebody drew, and that of a sole *)
(* uuid is of a script between its thumbnail and its unlink, or of one     *)
(* that ended there.                                                       *)
ThumbsDrawn == \A u \in Uuids :
    thumbs[u] # None => \E q \in Requests : uuid[q] = u

Pictures == \A r \in Requests :
    (uuid[r] # None /\ SoleUuid(r) /\ thumbs[uuid[r]] # None) =>
        /\ pc[r] \in Holding \cup {"done", "killed"}
        /\ rowId[r] = 0
        /\ response[r].page \notin {"player", "21", "31", "41"}

LEMMA ThumbsDrawnKept == Typed /\ ThumbsDrawn /\ [Next]_vars => ThumbsDrawn'
<1> SUFFICES ASSUME Typed, ThumbsDrawn, [Next]_vars, NEW u \in Uuids,
                    thumbs'[u] # None
             PROVE  \E q \in Requests : uuid'[q] = u
  BY DEF ThumbsDrawn
<1>1. CASE thumbs[u] # None
  <2>1. PICK q \in Requests : uuid[q] = u
    BY <1>1 DEF ThumbsDrawn
  <2> QED
    BY <2>1, NothingIsNoValue, NamesKept
<1>2. CASE thumbs[u] = None
  <2>1. ASSUME NEW q \in Requests, MakeThumbnail(q) \/ Unlink(q)
        PROVE  uuid'[q] = u
    BY <1>2, <2>1 DEF MakeThumbnail, Unlink, Typed, TypeOK
  <2> QED
    BY <1>2, <2>1, ThumbsBy
<1> QED
  BY <1>1, <1>2

LEMMA PicturesKept ==
    Published /\ Answered /\ ThumbsDrawn /\ Pictures /\ [Next]_vars => Pictures'
<1> SUFFICES ASSUME Published, Answered, ThumbsDrawn, Pictures, [Next]_vars,
                    NEW r \in Requests, uuid'[r] # None, SoleUuid(r)',
                    thumbs'[uuid'[r]] # None
             PROVE  /\ pc'[r] \in Holding \cup {"done", "killed"}
                    /\ rowId'[r] = 0
                    /\ response'[r].page \notin {"player", "21", "31", "41"}
  BY DEF Pictures
<1> USE DEF Published
<1>1. CASE uuid[r] = None
  <2>1. VideoAttributes(r)
    BY <1>1, DrawnByAttributes
  <2>2. uuid'[r] = clock /\ clock \in Uuids
    BY <2>1 DEF VideoAttributes, Typed, TypeOK
  <2>3. thumbs'[clock] = thumbs[clock]
    BY <2>1 DEF VideoAttributes
  <2>4. PICK q \in Requests : uuid[q] = clock
    BY <2>2, <2>3 DEF ThumbsDrawn
  <2>5. q # r
    BY <1>1, <2>2, <2>4, NothingIsNoValue
  <2>6. uuid'[q] = clock
    BY <2>2, <2>4, NothingIsNoValue, NamesKept
  <2> QED
    BY <2>2, <2>5, <2>6 DEF SoleUuid
<1>2. CASE uuid[r] # None
  <2>1. uuid'[r] = uuid[r] /\ SoleUuid(r) /\ uuid[r] \in Uuids
    BY <1>2, NamesKept, SoleBefore DEF Typed, TypeOK
  <2>2. CASE thumbs[uuid[r]] # None
    <3>1. /\ pc[r] \in Holding \cup {"done", "killed"} /\ rowId[r] = 0
          /\ response[r].page \notin {"player", "21", "31", "41"}
      BY <1>2, <2>1, <2>2 DEF Pictures
    <3>2. rowId'[r] = 0
      <4>1. ~Insert(r)
        BY <3>1 DEF Insert, Holding
      <4> QED
        BY <3>1, <4>1, IdsByInsert DEF Insert, Typed, TypeOK
    <3>3. ~Unlink(r)
      BY <2>1 DEF Unlink, Typed, TypeOK
    <3> QED
      BY <3>1, <3>2, <3>3, HolderEnds, EndIsFinal
  <2>3. CASE thumbs[uuid[r]] = None
    <3>1. MakeThumbnail(r)
      <4>1. ASSUME NEW q \in Requests, MakeThumbnail(q) \/ Unlink(q)
            PROVE  uuid[q] = uuid[r] /\ MakeThumbnail(q)
        BY <2>1, <2>3, <4>1 DEF MakeThumbnail, Unlink, Typed, TypeOK
      <4> QED
        BY <2>1, <2>3, <4>1, ThumbsBy DEF SoleUuid
    <3>2. rowId[r] = 0 /\ response[r].page = "none"
      BY <3>1 DEF MakeThumbnail, Numbered, IdsLate, Answered
    <3> QED
      BY <3>1, <3>2 DEF MakeThumbnail, Goto, Typed, TypeOK, Holding
  <2> QED
    BY <2>2, <2>3
<1> QED
  BY <1>1, <1>2

(* A script that reached the database, or was answered as if it had, has   *)
(* neither its video nor its picture left in /tmp: unlink() took both, and *)
(* nobody else writes under a uuid that is the script's alone.             *)
THEOREM NoCopyLeft == Spec => []CopiesRemoved
<1> DEFINE Inv == Answered /\ Copies /\ ThumbsDrawn /\ Pictures
<1>1. Init => Inv
  BY NothingIsNoValue
     DEF Init, Answered, Copies, ThumbsDrawn, Pictures, Silent
<1>2. Published /\ Inv /\ [Next]_vars => Inv'
  BY AnsweredKept, CopiesKept, ThumbsDrawnKept, PicturesKept DEF Published
<1>3. Inv => CopiesRemoved
  BY DEF Copies, Pictures, CopiesRemoved, NothingHeld, Holding
<1> HIDE DEF Inv
<1> QED
  BY <1>1, <1>2, <1>3, PublishedInvariant, PTL DEF Spec

----------------------------------------------------------------------------
(* Errors 11 and 21.                                                       *)

(* Whatever is stored carries a uuid that somebody drew, and a POST that   *)
(* is not yet at its first put, or was answered 11 or 21, stored nothing   *)
(* and has no ID.                                                          *)
Drawn == \A k \in Keys : bucket[k] # None => \E q \in Requests : uuid[q] = k[1]

BeforePuts == {"localUpload", "makeThumbnail", "putVideo"}
Refused(r) == response[r].page \in {"11", "21"}

Nothing == \A r \in Requests :
    (uuid[r] # None /\ SoleUuid(r) /\ (pc[r] \in BeforePuts \/ Refused(r)))
        => \A e \in Exts : bucket[<<uuid[r], e>>] = None

NoId == \A r \in Requests : Refused(r) => rowId[r] = 0

(* A POST gets before its puts by drawing a uuid, and is refused from      *)
(* there only.                                                             *)
LEMMA RefusedFromBefore ==
    ASSUME Typed, Answered, [Next]_vars, NEW r \in Requests
    PROVE  /\ pc'[r] \in BeforePuts
                 => pc[r] \in BeforePuts \/ VideoAttributes(r)
           /\ Refused(r)'
                 => \/ Refused(r)
                    \/ pc[r] = "videoAttributes"
                    \/ pc[r] \in {"localUpload", "makeThumbnail"}
<1> USE DEF Typed, TypeOK, Answer, Answered, Goto, EndWith, ErrorPage,
            BeforePuts, Refused
<1> DEFINE Back == /\ pc'[r] \in BeforePuts
                         => pc[r] \in BeforePuts \/ VideoAttributes(r)
                   /\ Refused(r)'
                         => \/ Refused(r)
                            \/ pc[r] = "videoAttributes"
                            \/ pc[r] \in {"localUpload", "makeThumbnail"}
<1>1. ASSUME NEW q \in Requests,
             \/ Submit(q) \/ VideoAttributes(q) \/ VideoAttributesFail(q)
             \/ LocalUpload(q) \/ LocalUploadFail(q)
             \/ MakeThumbnail(q) \/ MakeThumbnailFail(q)
      PROVE  Back
  BY <1>1 DEF Submit, VideoAttributes, VideoAttributesFail, LocalUpload,
              LocalUploadFail, MakeThumbnail, MakeThumbnailFail
<1>2. ASSUME NEW q \in Requests,
             \/ PutVideo(q) \/ PutVideoFail(q) \/ PutThumb(q)
             \/ PutThumbFail(q) \/ Unlink(q)
      PROVE  Back
  BY <1>2 DEF PutVideo, PutVideoFail, PutThumb, PutThumbFail, Unlink
<1>3. ASSUME NEW q \in Requests,
             \/ PreparedSQL(q) \/ PreparedSQLFail(q) \/ Insert(q)
             \/ InsertFail(q) \/ Commit(q) \/ Kill(q)
             \/ GetVID(q) \/ GetVIDFail(q)
      PROVE  Back
  BY <1>3 DEF PreparedSQL, PreparedSQLFail, Insert, InsertFail, Commit, Kill,
              GetVID, GetVIDFail
<1>4. CASE UNCHANGED <<pc, response>>
  BY <1>4
<1> QED
  BY <1>1, <1>2, <1>3, <1>4 DEF Next, Script, Tick, vars

LEMMA DrawnKept == Typed /\ Drawn /\ [Next]_vars => Drawn'
<1> SUFFICES ASSUME Typed, Drawn, [Next]_vars, NEW k \in Keys,
                    bucket'[k] # None
             PROVE  \E q \in Requests : uuid'[q] = k[1]
  BY DEF Drawn
<1>1. CASE bucket'[k] # bucket[k]
  BY <1>1, ObjectByPut
<1>2. CASE bucket'[k] = bucket[k]
  <2>1. PICK q \in Requests : uuid[q] = k[1]
    BY <1>2 DEF Drawn
  <2>2. uuid[q] # None
    BY <2>1, NothingIsNoValue DEF Keys
  <2>3. QED
    BY <2>1, <2>2, NamesKept
<1> QED
  BY <1>1, <1>2

LEMMA NothingKept ==
    Published /\ Answered /\ Drawn /\ Nothing /\ [Next]_vars => Nothing'
<1> SUFFICES ASSUME Published, Answered, Drawn, Nothing, [Next]_vars,
                    NEW r \in Requests, uuid'[r] # None, SoleUuid(r)',
                    pc'[r] \in BeforePuts \/ Refused(r)',
                    NEW e \in Exts
             PROVE  bucket'[<<uuid'[r], e>>] = None
  BY DEF Nothing
<1> USE DEF Published
<1>1. CASE uuid[r] # None
  <2>1. uuid'[r] = uuid[r] /\ SoleUuid(r) /\ <<uuid[r], e>> \in Keys
    BY <1>1, NamesKept, SoleBefore DEF Typed, TypeOK, Keys
  <2>2. pc[r] \in BeforePuts \/ Refused(r)
    BY <1>1, RefusedFromBefore
       DEF VideoAttributes, BeforePuts, Typed, StageOK
  <2>3. bucket[<<uuid[r], e>>] = None
    BY <1>1, <2>1, <2>2 DEF Nothing
  <2>4. ASSUME bucket'[<<uuid[r], e>>] # bucket[<<uuid[r], e>>]
        PROVE  FALSE
    <3>1. PutVideo(r) \/ PutVideoFail(r) \/ PutThumb(r) \/ PutThumbFail(r)
      BY <1>1, <2>1, <2>4, ObjectByOwner
    <3>2. pc[r] \in {"putVideo", "putThumb"}
      BY <3>1 DEF PutVideo, PutVideoFail, PutThumb, PutThumbFail
    <3>3. pc'[r] \in {"putThumb", "unlink", "done"}
      BY <3>1 DEF PutVideo, PutVideoFail, PutThumb, PutThumbFail, ErrorPage,
                  EndWith, Goto, Typed, TypeOK
    <3>4. Refused(r)'
      BY <3>3 DEF BeforePuts
    <3>5. QED
      BY <3>2, <3>4, RefusedFromBefore DEF Refused, Answered
  <2>5. QED
    BY <2>1, <2>3, <2>4
<1>2. CASE uuid[r] = None
  <2>1. VideoAttributes(r)
    BY <1>2, DrawnByAttributes
  <2>2. uuid'[r] = clock /\ <<clock, e>> \in Keys
    BY <2>1 DEF VideoAttributes, Typed, TypeOK, Keys
  <2>3. \A q \in Requests : uuid[q] # clock
    <3> SUFFICES ASSUME NEW q \in Requests
                 PROVE  uuid[q] # clock
      OBVIOUS
    <3>1. CASE q = r
      BY <1>2, <3>1, NothingIsNoValue DEF Typed, TypeOK
    <3>2. CASE q # r
      BY <2>1, <2>2, <3>2 DEF VideoAttributes, SoleUuid, Typed, TypeOK
    <3>3. QED
      BY <3>1, <3>2
  <2>4. bucket[<<clock, e>>] = None
    BY <2>2, <2>3 DEF Drawn
  <2>5. QED
    BY <2>1, <2>2, <2>4 DEF VideoAttributes
<1> QED
  BY <1>1, <1>2

LEMMA NoIdKept == Published /\ Answered /\ NoId /\ [Next]_vars => NoId'
<1> SUFFICES ASSUME Published, Answered, NoId, [Next]_vars,
                    NEW r \in Requests, Refused(r)'
             PROVE  rowId'[r] = 0
  BY DEF NoId
<1> USE DEF Published
<1>1. rowId[r] = 0 /\ pc[r] # "insert"
  <2>1. CASE Refused(r)
    BY <2>1 DEF NoId, Refused, Answered
  <2>2. CASE ~Refused(r)
    BY <2>2, RefusedFromBefore DEF Numbered, IdsLate
  <2>3. QED
    BY <2>1, <2>2
<1> QED
  BY <1>1, IdsByInsert DEF Insert, Typed, TypeOK

(* Errors 11 and 21 are the truth: such a POST holds no ID, has no row and *)
(* left no object, so that trying again makes no second copy.  Both codes  *)
(* are sent before the first put, under a uuid nobody else stored under.   *)
THEOREM RefusedMeansNothing == Spec => []ErrorsStoreNothing
<1>1. Init => Answered /\ Drawn /\ Nothing /\ NoId
  BY DEF Init, Answered, Drawn, Nothing, NoId, Refused, Silent, BeforePuts
<1>2. Published /\ Answered /\ Drawn /\ Nothing /\ NoId /\ [Next]_vars
         => (Answered /\ Drawn /\ Nothing /\ NoId)'
  BY AnsweredKept, DrawnKept, NothingKept, NoIdKept DEF Published
<1>3. Published /\ Nothing /\ NoId => ErrorsStoreNothing
  BY DEF Published, Numbered, RowsOwn, Nothing, NoId, Refused,
         ErrorsStoreNothing
<1> QED
  BY <1>1, <1>2, <1>3, PublishedInvariant, PTL DEF Spec

----------------------------------------------------------------------------
(* Uploads of one file name do not all lose, while nothing outside fails.  *)

(* A POST that drew its uuid and carries a file of the name f.             *)
Named(q, f) == uuid[q] # None /\ sub[q] # None /\ FileOf(q) = f

(* One of them has its objects stored and will have its row, or has it.    *)
Rescued(f) ==
    \E q \in Requests : /\ Named(q, f)
                        /\ \/ pc[q] \in {"connect", "insert", "commit"}
                           \/ \E w \in table : w.of = q

(* All of them have a picture to take.                                     *)
AllPictured(f) ==
    \A q \in Requests : Named(q, f) => sub[q].picture # "none"

LocalNamed ==
    \A f \in Files : local[f] # None => Named(local[f], f)

(* The file that a script counts on is there, or whoever took it away is   *)
(* past its own puts.                                                      *)
HeldOrRescued ==
    \A r \in Requests :
        pc[r] \in Holding => local[FileOf(r)] # None \/ Rescued(FileOf(r))

PictureThere ==
    \A r \in Requests :
        pc[r] \in {"putVideo", "putThumb", "unlink"} /\ SoleUuid(r)
            => thumbs[uuid[r]] # None

RowThere ==
    \A r \in Requests : pc[r] = "getVID" => \E w \in table : w.of = r

LostRescued ==
    \A r \in Requests :
        (/\ pc[r] = "done" /\ uuid[r] # None /\ SoleUuid(r)
         /\ AllPictured(FileOf(r)))
            => Rescued(FileOf(r))

----------------------------------------------------------------------------
LEMMA NamedKept ==
    ASSUME Typed, [Next]_vars, NEW q \in Requests, NEW f, Named(q, f)
    PROVE  Named(q, f)' /\ sub'[q] = sub[q]
  BY NamesKept DEF Named, FileOf

LEMMA TableGrows ==
    ASSUME [Next]_vars
    PROVE  table \subseteq table'
  BY RowsByCommit DEF Commit

(* Without failures outside, only the commit leads out of the stages       *)
(* between the puts and the row, and into the last one.                    *)
LEMMA ToTheRow ==
    ASSUME Typed, [Next]_vars, Faults = {}, NEW q \in Requests
    PROVE  /\ pc[q] \in {"connect", "insert", "commit"}
                => pc'[q] \in {"connect", "insert", "commit"} \/ Commit(q)
           /\ pc'[q] = "getVID" => pc[q] = "getVID" \/ Commit(q)
  BY DEF Typed, TypeOK, Goto, EndWith, ErrorPage,
         Next, Script, vars, Submit, VideoAttributes, VideoAttributesFail,
         LocalUploadFail, LocalUpload, MakeThumbnail, MakeThumbnailFail,
         PutVideo, PutVideoFail, PutThumb, PutThumbFail, Unlink,
         PreparedSQL, PreparedSQLFail, Insert, InsertFail, Commit, GetVID,
         GetVIDFail, Kill, Tick

LEMMA CommitsOwn ==
    ASSUME NEW q, Commit(q)
    PROVE  \E w \in table' : w.of = q
<1>1. RowOf(q) \in table' /\ RowOf(q).of = q
  BY DEF Commit, RowOf
<1> QED
  BY <1>1

LEMMA RescuedKept ==
    ASSUME Typed, [Next]_vars, Faults = {}, NEW f, Rescued(f)
    PROVE  Rescued(f)'
<1>1. PICK q \in Requests : /\ Named(q, f)
                            /\ \/ pc[q] \in {"connect", "insert", "commit"}
                               \/ \E w \in table : w.of = q
  BY DEF Rescued
<1>2. Named(q, f)'
  BY <1>1, NamedKept
<1>3. CASE pc[q] \in {"connect", "insert", "commit"}
  BY <1>2, <1>3, ToTheRow, CommitsOwn DEF Rescued
<1>4. CASE \E w \in table : w.of = q
  BY <1>2, <1>4, TableGrows DEF Rescued
<1> QED
  BY <1>1, <1>3, <1>4

LEMMA LocalNamedKept == Typed /\ LocalNamed /\ [Next]_vars => LocalNamed'
<1> SUFFICES ASSUME Typed, LocalNamed, [Next]_vars,
                    NEW f \in Files, local'[f] # None
             PROVE  Named(local[f], f)'
  BY DEF LocalNamed
<1>1. local \in [Files -> Requests \cup {None}]
  BY DEF Typed, TypeOK
<1>2. CASE local'[f] = local[f]
  <2>1. local[f] \in Requests /\ Named(local[f], f)
    BY <1>1, <1>2 DEF LocalNamed
  <2>2. PICK q \in Requests : q = local[f]
    BY <2>1
  <2>3. Named(q, f)'
    BY <2>1, <2>2, NamedKept
  <2> QED
    BY <1>2, <2>2, <2>3 DEF Named, FileOf
<1>3. CASE local'[f] # local[f]
  <2>1. PICK q \in Requests : LocalUpload(q) \/ Unlink(q)
    BY <1>3, LocalBy
  <2>2. pc[q] \in Stages
    BY <2>1 DEF LocalUpload, Unlink, Stages, Holding
  <2>3. LocalUpload(q) /\ f = FileOf(q) /\ local'[f] = q
    BY <1>1, <1>3, <2>1 DEF LocalUpload, Unlink
  <2>4. Named(q, f)
    BY <2>2, <2>3, NamesStand DEF Named
  <2>5. Named(q, f)'
    BY <2>4, NamedKept
  <2> QED
    BY <2>3, <2>5 DEF Named, FileOf
<1> QED
  BY <1>2, <1>3

LEMMA HeldKept ==
    Typed /\ HeldOrRescued /\ Faults = {} /\ [Next]_vars => HeldOrRescued'
<1> SUFFICES ASSUME Typed, HeldOrRescued, Faults = {}, [Next]_vars,
                    NEW r \in Requests, pc'[r] \in Holding
             PROVE  local'[FileOf(r)'] # None \/ Rescued(FileOf(r))'
  BY DEF HeldOrRescued
<1>1. pc[r] \in Holding \/ LocalUpload(r)
  BY HeldByUpload
<1>2. pc[r] \in Stages
  BY <1>1 DEF LocalUpload, Stages
<1>3. PICK f \in Files : f = FileOf(r) /\ FileOf(r)' = f
  BY <1>2, NamesStand, NamesTyped
<1>4. Rescued(f)' => Rescued(FileOf(r))'
  BY <1>3 DEF Rescued, Named
<1>5. local \in [Files -> Requests \cup {None}]
  BY DEF Typed, TypeOK
<1>6. CASE LocalUpload(r)
  BY <1>3, <1>5, <1>6, NothingIsNoValue DEF LocalUpload
<1>7. CASE Rescued(f)
  BY <1>4, <1>7, RescuedKept
<1>8. CASE pc[r] \in Holding /\ local[f] # None
  <2>1. CASE UNCHANGED local
    BY <1>3, <1>8, <2>1
  <2>2. ASSUME NEW q \in Requests, LocalUpload(q)
        PROVE  local'[f] # None
    BY <1>5, <1>8, <2>2, NothingIsNoValue DEF LocalUpload
  <2>3. ASSUME NEW q \in Requests, Unlink(q)
        PROVE  local'[f] # None \/ Rescued(f)'
    <3>1. pc[q] \in Stages /\ pc'[q] = "connect"
      BY <2>3 DEF Unlink, Goto, Stages, Holding, Typed, TypeOK
    <3>2. Named(q, FileOf(q)) /\ Named(q, FileOf(q))'
      BY <3>1, NamesStand DEF Named
    <3>3. CASE FileOf(q) = f
      <4>1. Named(q, f)
        BY <3>2, <3>3
      <4>2. Named(q, f)'
        BY <4>1, NamedKept
      <4> QED
        BY <3>1, <4>2 DEF Rescued
    <3>4. CASE FileOf(q) # f
      BY <1>5, <1>8, <2>3, <3>4 DEF Unlink
    <3> QED
      BY <3>3, <3>4
  <2> QED
    BY <1>3, <1>4, <2>1, <2>2, <2>3, LocalBy
<1> QED
  BY <1>1, <1>3, <1>6, <1>7, <1>8 DEF HeldOrRescued

LEMMA PictureThereKept ==
    Typed /\ LocalNamed /\ PictureThere /\ [Next]_vars => PictureThere'
<1> SUFFICES ASSUME Typed, LocalNamed, PictureThere, [Next]_vars,
                    NEW r \in Requests, SoleUuid(r)',
                    pc'[r] \in {"putVideo", "putThumb", "unlink"}
             PROVE  thumbs'[uuid'[r]] # None
  BY DEF PictureThere
<1>1. pc[r] \in {"putVideo", "putThumb", "unlink"} \/ MakeThumbnail(r)
  BY PictureByThumbnail
<1>2. pc[r] \in Stages
  BY <1>1 DEF MakeThumbnail, Stages, Holding
<1>3. uuid'[r] = uuid[r] /\ uuid[r] # None /\ uuid[r] \in Uuids /\ SoleUuid(r)
  BY <1>2, NamesStand, NamesTyped, SoleBefore
<1>4. /\ thumbs \in [Uuids -> Contents \cup {None}]
      /\ local \in [Files -> Requests \cup {None}]
  BY DEF Typed, TypeOK
<1>5. \A q \in Requests : Picture(q) # None
  <2>1. \A q \in Requests : Picture(q) \in Contents
    BY DEF Picture, Contents
  <2> QED
    BY <2>1, NothingIsNoValue
<1>6. ASSUME NEW q \in Requests, MakeThumbnail(q)
      PROVE  /\ thumbs'[uuid[r]] = thumbs[uuid[r]] \/ thumbs'[uuid[r]] # None
             /\ q = r => thumbs'[uuid[r]] # None
  <2>1. pc[q] \in Stages
    BY <1>6 DEF MakeThumbnail, Stages, Holding
  <2>2. local[FileOf(q)] \in Requests
    BY <1>4, <1>6, <2>1, NamesTyped DEF MakeThumbnail
  <2>3. PICK p : p # None /\ thumbs' = [thumbs EXCEPT ![uuid[q]] = p]
    BY <1>5, <1>6, <2>2 DEF MakeThumbnail
  <2> QED
    BY <1>3, <1>4, <2>3
<1>7. ASSUME NEW q \in Requests, Unlink(q)
      PROVE  thumbs'[uuid[r]] = thumbs[uuid[r]]
  <2>1. q # r
    BY <1>7 DEF Unlink, Goto, Typed, TypeOK
  <2>2. uuid[q] # uuid[r]
    BY <1>3, <2>1 DEF SoleUuid
  <2> QED
    BY <1>3, <1>4, <1>7, <2>2 DEF Unlink
<1>8. MakeThumbnail(r) \/ thumbs[uuid[r]] # None
  BY <1>1, <1>3 DEF PictureThere
<1> QED
  BY <1>3, <1>6, <1>7, <1>8, ThumbsBy

LEMMA RowThereKept ==
    Typed /\ RowThere /\ Faults = {} /\ [Next]_vars => RowThere'
  BY ToTheRow, CommitsOwn, TableGrows DEF RowThere

(* What ends a script that has a uuid.                                     *)
LEMMA EndedBy ==
    ASSUME Typed, [Next]_vars, Faults = {}, NEW r \in Requests,
           pc'[r] = "done", uuid'[r] # None
    PROVE  /\ uuid[r] # None
           /\ \/ pc[r] = "done"
              \/ MakeThumbnailFail(r) \/ PutVideoFail(r) \/ PutThumbFail(r)
              \/ GetVID(r)
<1>1. uuid[r] # None
  BY DEF Typed, TypeOK, Goto, EndWith, ErrorPage,
         Next, Script, vars, Submit, VideoAttributes, VideoAttributesFail,
         LocalUploadFail, LocalUpload, MakeThumbnail, MakeThumbnailFail,
         PutVideo, PutVideoFail, PutThumb, PutThumbFail, Unlink,
         PreparedSQL, PreparedSQLFail, Insert, InsertFail, Commit, GetVID,
         GetVIDFail, Kill, Tick
<1>2. pc[r] # "videoAttributes"
  BY <1>1 DEF Typed, StageOK
<1> QED
  BY <1>1, <1>2
     DEF Typed, TypeOK, Goto, EndWith, ErrorPage,
         Next, Script, vars, Submit, VideoAttributes, VideoAttributesFail,
         LocalUploadFail, LocalUpload, MakeThumbnail, MakeThumbnailFail,
         PutVideo, PutVideoFail, PutThumb, PutThumbFail, Unlink,
         PreparedSQL, PreparedSQLFail, Insert, InsertFail, Commit, GetVID,
         GetVIDFail, Kill, Tick

LEMMA LostRescuedKept ==
    Typed /\ LocalNamed /\ HeldOrRescued /\ PictureThere /\ RowThere
       /\ LostRescued /\ Faults = {} /\ [Next]_vars => LostRescued'
<1> SUFFICES ASSUME Typed, LocalNamed, HeldOrRescued, PictureThere, RowThere,
                    LostRescued, Faults = {}, [Next]_vars,
                    NEW r \in Requests, pc'[r] = "done", uuid'[r] # None,
                    SoleUuid(r)', AllPictured(FileOf(r))'
             PROVE  Rescued(FileOf(r))'
  BY DEF LostRescued
<1>1. uuid[r] # None /\ sub[r] # None /\ SoleUuid(r)
  BY EndedBy, SoleBefore DEF Typed, StageOK
<1>2. PICK f \in Files : f = FileOf(r) /\ FileOf(r)' = f
  <2>1. FileOf(r) \in Files
    BY <1>1, NamesMeanKeys DEF Typed
  <2>2. FileOf(r)' = FileOf(r)
    BY <1>1, NamesKept DEF FileOf
  <2> QED
    BY <2>1, <2>2
<1>3. AllPictured(f)
  <2>1. AllPictured(f)'
    BY <1>2 DEF AllPictured, Named
  <2> QED
    BY <2>1, NamedKept DEF AllPictured
<1>4. SUFFICES Rescued(f)
  <2>1. Rescued(f)' => Rescued(FileOf(r))'
    BY <1>2 DEF Rescued, Named
  <2> QED
    BY <2>1, RescuedKept
<1>5. local \in [Files -> Requests \cup {None}]
  BY DEF Typed, TypeOK
<1>6. CASE pc[r] = "done"
  BY <1>1, <1>2, <1>3, <1>6 DEF LostRescued
<1>7. CASE MakeThumbnailFail(r)
  <2>1. pc[r] \in Holding /\ (local[f] # None => sub[local[f]].picture = "none")
    BY <1>2, <1>7 DEF MakeThumbnailFail, Holding
  <2>2. local[f] = None
    BY <1>3, <1>5, <2>1 DEF AllPictured, LocalNamed
  <2> QED
    BY <1>2, <2>1, <2>2 DEF HeldOrRescued
<1>8. CASE PutVideoFail(r)
  BY <1>2, <1>8 DEF PutVideoFail, HeldOrRescued, Holding
<1>9. CASE PutThumbFail(r)
  BY <1>1, <1>9 DEF PutThumbFail, PictureThere
<1>10. CASE GetVID(r)
  <2>1. \E w \in table : w.of = r
    BY <1>10 DEF GetVID, RowThere
  <2>2. Named(r, f)
    BY <1>1, <1>2 DEF Named
  <2> QED
    BY <2>1, <2>2 DEF Rescued
<1> QED
  BY <1>6, <1>7, <1>8, <1>9, <1>10, EndedBy

(* Even when names clash somebody gets through: while nothing outside      *)
(* fails, an upload is only lost to another of the same file name that did *)
(* reach the site, or to one that had no picture to take a thumbnail of.   *)
(* Who empties /tmp/<name> is past its own puts, and without failures its  *)
(* row follows (VideoUpload.php runs unlink after both puts).              *)
THEOREM NamesakesDoNotAllLose == Spec => []LostOnlyToNamesake
<1> DEFINE Parts == /\ LocalNamed /\ HeldOrRescued /\ PictureThere
                    /\ RowThere /\ LostRescued
           Inv == Typed /\ (Faults = {} => Parts)
<1>1. Init => Inv
  <2>1. Init => Parts
    BY DEF Init, LocalNamed, HeldOrRescued, PictureThere, RowThere,
           LostRescued, Holding
  <2> QED
    BY <2>1, InitTyped
<1>2. Inv /\ [Next]_vars => Inv'
  BY TypedInductive, LocalNamedKept, HeldKept, PictureThereKept, RowThereKept,
     LostRescuedKept
<1>3. Inv => LostOnlyToNamesake
  <2> SUFFICES ASSUME Typed, LostRescued,
                      \A q \in Requests : pc[q] \in {"new", "done"},
                      NEW r \in Requests, uuid[r] # None, SoleUuid(r),
                      \A q \in Namesakes(r) : sub[q].picture # "none"
               PROVE  \E w \in table : w.of \in Namesakes(r)
    BY DEF LostOnlyToNamesake
  <2>1. pc[r] = "done" /\ sub[r] # None
    BY DEF Typed, StageOK
  <2>2. \A q \in Requests : Named(q, FileOf(r)) => q \in Namesakes(r)
    BY <2>1 DEF Named, Namesakes
  <2>3. AllPictured(FileOf(r))
    BY <2>2 DEF AllPictured
  <2>4. Rescued(FileOf(r))
    BY <2>1, <2>3 DEF LostRescued
  <2>5. PICK q \in Requests : /\ Named(q, FileOf(r))
                              /\ \E w \in table : w.of = q
    BY <2>4 DEF Rescued
  <2> QED
    BY <2>2, <2>5
<1> HIDE DEF Inv
<1> QED
  BY <1>1, <1>2, <1>3, PTL DEF Spec
=============================================================================

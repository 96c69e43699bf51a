---------------------------- MODULE VideoUpload ----------------------------
(***************************************************************************)
(* The upload path of Video Vortex: video_upload.php constructs one        *)
(* VideoUpload object per POST and then asks it for the ID of the new row. *)
(*                                                                         *)
(* Each POST is served by a PHP process of its own.  The processes share   *)
(* the directory /tmp, the S3 bucket, the MySQL table VideoData and the    *)
(* clock that uniqid() reads; nothing in the code locks any of them.  One  *)
(* action is one call the script makes to the outside (an exec, a rename,  *)
(* a put, a pair of unlinks, a connection, a statement): that is where     *)
(* another process can get in between.                                     *)
(***************************************************************************)
EXTENDS Naturals, FiniteSets

CONSTANTS
    Requests,        \* the POSTs; the file a POST carries is named after it
    Files,           \* names of uploaded files ($_FILES[...]["name"])
    Exts,            \* file extensions
    ExtOf,           \* pathinfo(file, PATHINFO_EXTENSION), a function on Files
    Char3,           \* what the CHAR(3) column Ext keeps of an extension
    Submissions,     \* what one form may carry
    OutputBuffering, \* php.ini output_buffering, in bytes
    Faults,          \* the outside failures that may occur
    MaxClock,        \* bound: the number of clock ticks
    None             \* "nothing there"

(* The outside failures: move_uploaded_file, S3 after its retries, a       *)
(* mysqli connection, a statement MySQL rejects, the death of the process. *)
FaultKinds == {"move", "s3", "connect", "statement", "kill"}

(* What a form carries: the file name, whether the file fits               *)
(* upload_max_filesize, whether ffmpeg can tell its duration, whether it   *)
(* has a frame after the fifth second ("full"), only earlier frames        *)
(* ("short") or no picture at all ("none"), and the number of bytes of     *)
(* title and description, and of the name, that verifyInput echoes.        *)
SubmissionType ==
    [file : Files, fits : BOOLEAN, readable : BOOLEAN,
     picture : {"none", "short", "full"}, text : Nat, nameText : Nat]

ASSUME ConstantsAssumption ==
    /\ "jpg" \in Exts
    /\ ExtOf \in [Files -> Exts]
    /\ Char3 \in [Exts -> Exts]
    /\ Submissions \subseteq SubmissionType
    /\ OutputBuffering \in Nat \ {0}
    /\ MaxClock \in Nat
    /\ Faults \subseteq FaultKinds

VARIABLES
    pc,       \* where the script serving each POST is
    sub,      \* what the POST carries
    uuid,     \* $this->uuid
    echoed,   \* bytes written to PHP's output buffer so far
    local,    \* /tmp/<file>: whose file it is
    thumbs,   \* /tmp/<uuid>.jpg
    bucket,   \* vortex-bucket, by key
    table,    \* the committed rows of VideoData
    nextId,   \* AUTO_INCREMENT of VideoData
    rowId,    \* the ID MySQL allocated to the INSERT of each script
    response, \* what the browser gets
    clock,    \* microseconds, as uniqid() reads them
    clashed   \* history: POSTs whose /tmp/<file> overlapped another's

vars == <<pc, sub, uuid, echoed, local, thumbs, bucket, table, nextId,
          rowId, response, clock, clashed>>

----------------------------------------------------------------------------
Uuids == 0..MaxClock
Keys  == Uuids \X Exts

(* What a file or an object holds: the video of a POST, a frame of it, or  *)
(* the empty file that ffmpeg leaves when no frame comes after second 5.   *)
Video(q)   == [kind |-> "video", of |-> q]
Picture(q) == [kind |-> IF sub[q].picture = "full" THEN "frame" ELSE "blank",
               of   |-> q]
Contents   == [kind : {"video", "frame", "blank"}, of : Requests]

ASSUME NoneAssumption ==
    None \notin Requests \cup Nat \cup Submissions \cup Contents

FileOf(r)   == sub[r].file

(* Slip: the key is made of the name alone.                                *)
VideoKeySansUuid(r) == <<0, ExtOf[FileOf(r)]>>

VideoKey(r) == <<uuid[r], ExtOf[FileOf(r)]>>
ThumbKey(r) == <<uuid[r], "jpg">>

(* A row, its measured and typed columns reduced to the POST they are of.  *)
Rows == [ID : Nat, UUID : Uuids, Ext : Exts, of : Requests]

(* Slip: the name is bound to the column Ext.                              *)
RowWithName(r) == [ID |-> rowId[r], UUID |-> uuid[r], Ext |-> FileOf(r),
                   of |-> r]

RowOf(r) == [ID   |-> rowId[r],
             UUID |-> uuid[r],
             Ext  |-> Char3[ExtOf[FileOf(r)]],
             of   |-> r]

Pages  == {"none", "player", "11", "21", "31", "41", "500", "echo"}
Answer == [page : Pages, id : Nat]
Silent == [page |-> "none", id |-> 0]

(* The span in which the script counts on /tmp/<file> being its own.       *)
Holding == {"makeThumbnail", "putVideo", "putThumb", "unlink"}

(* The stages in which the script has a uuid, in their order.              *)
Stages == {"localUpload"} \cup Holding \cup
          {"connect", "insert", "commit", "getVID"}

Places == {"new", "videoAttributes", "done", "killed"} \cup Stages

Init ==
    /\ pc       = [r \in Requests |-> "new"]
    /\ sub      = [r \in Requests |-> None]
    /\ uuid     = [r \in Requests |-> None]
    /\ echoed   = [r \in Requests |-> 0]
    /\ local    = [f \in Files |-> None]
    /\ thumbs   = [u \in Uuids |-> None]
    /\ bucket   = [k \in Keys |-> None]
    /\ table    = {}
    /\ nextId   = 1
    /\ rowId    = [r \in Requests |-> 0]
    /\ response = [r \in Requests |-> Silent]
    /\ clock    = 0
    /\ clashed  = {}

----------------------------------------------------------------------------
Goto(r, stage) == pc' = [pc EXCEPT ![r] = stage]

(* The script ends and the browser gets a page.  A Location header is only *)
(* sent while the output buffer has not been flushed; after that the       *)
(* browser is left with the text verifyInput echoed.                       *)
EndWith(r, page, id, bytes) ==
    /\ Goto(r, "done")
    /\ response' = [response EXCEPT ![r] =
           IF bytes >= OutputBuffering THEN [page |-> "echo", id |-> 0]
                                       ELSE [page |-> page, id |-> id]]

ErrorPage(r, code) == EndWith(r, code, 0, echoed[r])

(* The form is posted: PHP stores the file under a temporary name of its   *)
(* own, unless the file is over upload_max_filesize.                       *)
Submit(r) ==
    /\ pc[r] = "new"
    /\ \E s \in Submissions : sub' = [sub EXCEPT ![r] = s]
    /\ Goto(r, "videoAttributes")
    /\ UNCHANGED <<uuid, echoed, local, thumbs, bucket, table, nextId, rowId,
                   response, clock, clashed>>

(* ffmpeg -i reports duration and bitrate; description and title are       *)
(* echoed; uniqid() is the clock.                                          *)
VideoAttributes(r) ==
    /\ pc[r] = "videoAttributes"
    /\ sub[r].fits /\ sub[r].readable
    /\ echoed' = [echoed EXCEPT ![r] = sub[r].text]
    /\ uuid' = [uuid EXCEPT ![r] = clock]
    /\ Goto(r, "localUpload")
    /\ UNCHANGED <<sub, local, thumbs, bucket, table, nextId, rowId, response,
                   clock, clashed>>

(* No file, or no duration in what ffmpeg prints: error 11.                *)
VideoAttributesFail(r) ==
    /\ pc[r] = "videoAttributes"
    /\ ~(sub[r].fits /\ sub[r].readable)
    /\ ErrorPage(r, "11")
    /\ UNCHANGED <<sub, uuid, echoed, local, thumbs, bucket, table, nextId,
                   rowId, clock, clashed>>

(* Slip: a file that is already there is left in place.                    *)
LocalUploadKeeping(r) ==
    /\ pc[r] = "localUpload"
    /\ local' = [local EXCEPT ![FileOf(r)] = IF @ = None THEN r ELSE @]
    /\ clashed' = clashed \cup
           (LET rivals == {q \in Requests \ {r} :
                              pc[q] \in Holding /\ FileOf(q) = FileOf(r)}
            IN  IF rivals = {} THEN {} ELSE rivals \cup {r})
    /\ Goto(r, "makeThumbnail")
    /\ UNCHANGED <<sub, uuid, echoed, thumbs, bucket, table, nextId, rowId,
                   response, clock>>

(* move_uploaded_file renames the temporary file over /tmp/<file>, whoever *)
(* put one there.                                                          *)
LocalUpload(r) ==
    LET rivals == {q \in Requests \ {r} :
                      pc[q] \in Holding /\ FileOf(q) = FileOf(r)}
    IN  /\ pc[r] = "localUpload"
        /\ local' = [local EXCEPT ![FileOf(r)] = r]
        /\ clashed' = IF rivals = {} THEN clashed
                                     ELSE clashed \cup rivals \cup {r}
        /\ Goto(r, "makeThumbnail")
        /\ UNCHANGED <<sub, uuid, echoed, thumbs, bucket, table, nextId, rowId,
                       response, clock>>

LocalUploadFail(r) ==
    /\ "move" \in Faults
    /\ pc[r] = "localUpload"
    /\ ErrorPage(r, "21")
    /\ UNCHANGED <<sub, uuid, echoed, local, thumbs, bucket, table, nextId,
                   rowId, clock, clashed>>

(* Slip: the local video is removed once it has its picture.               *)
MakeThumbnailConsuming(r) ==
    LET q == local[FileOf(r)]
    IN  /\ pc[r] = "makeThumbnail"
        /\ q # None
        /\ sub[q].picture # "none"
        /\ thumbs' = [thumbs EXCEPT ![uuid[r]] = Picture(q)]
        /\ local' = [local EXCEPT ![FileOf(r)] = None]
        /\ Goto(r, "putVideo")
        /\ UNCHANGED <<sub, uuid, echoed, bucket, table, nextId, rowId,
                       response, clock, clashed>>

(* ffmpeg takes a frame of whatever /tmp/<name> holds by now.              *)
MakeThumbnail(r) ==
    LET q == local[FileOf(r)]
    IN  /\ pc[r] = "makeThumbnail"
        /\ q # None
        /\ sub[q].picture # "none"
        /\ thumbs' = [thumbs EXCEPT ![uuid[r]] = Picture(q)]
        /\ Goto(r, "putVideo")
        /\ UNCHANGED <<sub, uuid, echoed, local, bucket, table, nextId, rowId,
                       response, clock, clashed>>

(* The file is gone or has no picture: ffmpeg returns an error.            *)
MakeThumbnailFail(r) ==
    LET q == local[FileOf(r)]
    IN  /\ pc[r] = "makeThumbnail"
        /\ q # None => sub[q].picture = "none"
        /\ ErrorPage(r, "11")
        /\ UNCHANGED <<sub, uuid, echoed, local, thumbs, bucket, table, nextId,
                       rowId, clock, clashed>>

(* The first putObject: /tmp/<file> under the key <uuid>.<ext>.            *)
PutVideo(r) ==
    LET q == local[FileOf(r)]
    IN  /\ pc[r] = "putVideo"
        /\ q # None
        /\ bucket' = [bucket EXCEPT ![VideoKey(r)] = Video(q)]
        /\ Goto(r, "putThumb")
        /\ UNCHANGED <<sub, uuid, echoed, local, thumbs, table, nextId, rowId,
                       response, clock, clashed>>

(* putObject throws and nothing catches it: the file is gone, or S3 gives  *)
(* no success; then the object may have been stored or not.                *)
PutVideoFail(r) ==
    LET q == local[FileOf(r)]
    IN  /\ pc[r] = "putVideo"
        /\ \/ q = None /\ UNCHANGED bucket
           \/ /\ "s3" \in Faults
              /\ q # None
              /\ \/ UNCHANGED bucket
                 \/ bucket' = [bucket EXCEPT ![VideoKey(r)] = Video(q)]
        /\ ErrorPage(r, "500")
        /\ UNCHANGED <<sub, uuid, echoed, local, thumbs, table, nextId, rowId,
                       clock, clashed>>

(* The second putObject: /tmp/<uuid>.jpg under the key <uuid>.jpg.         *)
PutThumb(r) ==
    LET p == thumbs[uuid[r]]
    IN  /\ pc[r] = "putThumb"
        /\ p # None
        /\ bucket' = [bucket EXCEPT ![ThumbKey(r)] = p]
        /\ Goto(r, "unlink")
        /\ UNCHANGED <<sub, uuid, echoed, local, thumbs, table, nextId, rowId,
                       response, clock, clashed>>

(* Slip: the exception of the second put is swallowed.                     *)
PutThumbFailSwallowed(r) ==
    /\ "s3" \in Faults
    /\ pc[r] = "putThumb"
    /\ Goto(r, "unlink")
    /\ UNCHANGED <<sub, uuid, echoed, local, thumbs, bucket, table, nextId,
                   rowId, response, clock, clashed>>

(* Slip: the exception is caught and reported as a failed upload.          *)
PutThumbFailCaught(r) ==
    /\ "s3" \in Faults
    /\ pc[r] = "putThumb"
    /\ ErrorPage(r, "21")
    /\ UNCHANGED <<sub, uuid, echoed, local, thumbs, bucket, table, nextId,
                   rowId, clock, clashed>>

PutThumbFail(r) ==
    LET p == thumbs[uuid[r]]
    IN  /\ pc[r] = "putThumb"
        /\ \/ p = None /\ UNCHANGED bucket
           \/ /\ "s3" \in Faults
              /\ p # None
              /\ \/ UNCHANGED bucket
                 \/ bucket' = [bucket EXCEPT ![ThumbKey(r)] = p]
        /\ ErrorPage(r, "500")
        /\ UNCHANGED <<sub, uuid, echoed, local, thumbs, table, nextId, rowId,
                       clock, clashed>>

(* Slip: the picture is not removed.                                       *)
UnlinkVideoOnly(r) ==
    /\ pc[r] = "unlink"
    /\ local' = [local EXCEPT ![FileOf(r)] = None]
    /\ Goto(r, "connect")
    /\ UNCHANGED <<sub, uuid, echoed, thumbs, bucket, table, nextId, rowId,
                   response, clock, clashed>>

(* Both local files go, whoever they are of; unlink of a file that is not  *)
(* there only warns.                                                       *)
Unlink(r) ==
    /\ pc[r] = "unlink"
    /\ local'  = [local EXCEPT ![FileOf(r)] = None]
    /\ thumbs' = [thumbs EXCEPT ![uuid[r]] = None]
    /\ Goto(r, "connect")
    /\ UNCHANGED <<sub, uuid, echoed, bucket, table, nextId, rowId, response,
                   clock, clashed>>

(* preparedSQL: the name is echoed, then the connection is opened.         *)
PreparedSQL(r) ==
    /\ pc[r] = "connect"
    /\ echoed' = [echoed EXCEPT ![r] = @ + sub[r].nameText]
    /\ Goto(r, "insert")
    /\ UNCHANGED <<sub, uuid, local, thumbs, bucket, table, nextId, rowId,
                   response, clock, clashed>>

PreparedSQLFail(r) ==
    /\ "connect" \in Faults
    /\ pc[r] = "connect"
    /\ echoed' = [echoed EXCEPT ![r] = @ + sub[r].nameText]
    /\ EndWith(r, "41", 0, echoed[r] + sub[r].nameText)
    /\ UNCHANGED <<sub, uuid, local, thumbs, bucket, table, nextId, rowId,
                   clock, clashed>>

(* Slip: the ID is read, not reserved.                                     *)
InsertUnreserved(r) ==
    /\ pc[r] = "insert"
    /\ rowId' = [rowId EXCEPT ![r] = nextId]
    /\ nextId' \in {nextId, nextId + 1}
    /\ Goto(r, "commit")
    /\ UNCHANGED <<sub, uuid, echoed, local, thumbs, bucket, table, response,
                   clock, clashed>>

(* The INSERT takes its ID first; the row is visible once it commits.      *)
Insert(r) ==
    /\ pc[r] = "insert"
    /\ rowId' = [rowId EXCEPT ![r] = nextId]
    /\ nextId' = nextId + 1
    /\ Goto(r, "commit")
    /\ UNCHANGED <<sub, uuid, echoed, local, thumbs, bucket, table, response,
                   clock, clashed>>

(* The result of the query is not looked at: an INSERT that is rejected,   *)
(* with or without an ID by then, goes on.  The ID stays unused.           *)
InsertFail(r) ==
    /\ "statement" \in Faults
    /\ pc[r] \in {"insert", "commit"}
    /\ Goto(r, "getVID")
    /\ UNCHANGED <<sub, uuid, echoed, local, thumbs, bucket, table, nextId,
                   rowId, response, clock, clashed>>

Commit(r) ==
    /\ pc[r] = "commit"
    /\ table' = table \cup {RowOf(r)}
    /\ Goto(r, "getVID")
    /\ UNCHANGED <<sub, uuid, echoed, local, thumbs, bucket, nextId, rowId,
                   response, clock, clashed>>

(* Slip: the newest row is taken for the one just written.                 *)
GetNewest(r) ==
    /\ pc[r] = "getVID"
    /\ \/ table = {} /\ ErrorPage(r, "41")
       \/ \E w \in table :
             /\ \A x \in table : x.ID <= w.ID
             /\ EndWith(r, "player", w.ID, echoed[r])
    /\ UNCHANGED <<sub, uuid, echoed, local, thumbs, bucket, table, nextId,
                   rowId, clock, clashed>>

(* SELECT ID ... WHERE UUID = ...: the first row in ID order; no row is a  *)
(* null ID, which video_upload.php turns into error 41.                    *)
GetVID(r) ==
    LET found == {w \in table : w.UUID = uuid[r]}
    IN  /\ pc[r] = "getVID"
        /\ \/ found = {} /\ ErrorPage(r, "41")
           \/ \E w \in found :
                 /\ \A x \in found : w.ID <= x.ID
                 /\ EndWith(r, "player", w.ID, echoed[r])
        /\ UNCHANGED <<sub, uuid, echoed, local, thumbs, bucket, table, nextId,
                       rowId, clock, clashed>>

(* No connection: error 31.  A SELECT that fails returns FALSE, whose      *)
(* fetch_array() is a fatal error; the is_null test comes after it.        *)
GetVIDFail(r) ==
    /\ pc[r] = "getVID"
    /\ \/ "connect" \in Faults /\ ErrorPage(r, "31")
       \/ "statement" \in Faults /\ ErrorPage(r, "500")
    /\ UNCHANGED <<sub, uuid, echoed, local, thumbs, bucket, table, nextId,
                   rowId, clock, clashed>>

(* The process dies: max_execution_time, memory_limit, a server restart.   *)
Kill(r) ==
    /\ "kill" \in Faults
    /\ pc[r] \notin {"new", "done", "killed"}
    /\ Goto(r, "killed")
    /\ UNCHANGED <<sub, uuid, echoed, local, thumbs, bucket, table, nextId,
                   rowId, response, clock, clashed>>

Tick ==
    /\ clock < MaxClock
    /\ clock' = clock + 1
    /\ UNCHANGED <<pc, sub, uuid, echoed, local, thumbs, bucket, table, nextId,
                   rowId, response, clashed>>

----------------------------------------------------------------------------
(* One step of the script serving r.                                       *)
Script(r) ==
    \/ VideoAttributes(r) \/ VideoAttributesFail(r)
    \/ LocalUpload(r)     \/ LocalUploadFail(r)
    \/ MakeThumbnail(r)   \/ MakeThumbnailFail(r)
    \/ PutVideo(r)        \/ PutVideoFail(r)
    \/ PutThumb(r)        \/ PutThumbFail(r)
    \/ Unlink(r)
    \/ PreparedSQL(r)     \/ PreparedSQLFail(r)
    \/ Insert(r)          \/ InsertFail(r)
    \/ Commit(r)
    \/ GetVID(r)          \/ GetVIDFail(r)

Next ==
    \/ \E r \in Requests : Submit(r) \/ Script(r) \/ Kill(r)
    \/ Tick

Spec == Init /\ [][Next]_vars

(* PHP keeps running a script it has started: every call in it returns,    *)
(* with a result or an error (mysqli and the SDK have timeouts).           *)
FairSpec == Spec /\ \A r \in Requests : WF_vars(Script(r))

----------------------------------------------------------------------------
(* Types.                                                                  *)
TypeOK ==
    /\ pc \in [Requests -> Places]
    /\ sub \in [Requests -> Submissions \cup {None}]
    /\ uuid \in [Requests -> Uuids \cup {None}]
    /\ echoed \in [Requests -> Nat]
    /\ local \in [Files -> Requests \cup {None}]
    /\ thumbs \in [Uuids -> Contents \cup {None}]
    /\ bucket \in [Keys -> Contents \cup {None}]
    /\ table \subseteq Rows
    /\ nextId \in Nat \ {0}
    /\ rowId \in [Requests -> Nat]
    /\ response \in [Requests -> Answer]
    /\ clock \in Uuids
    /\ clashed \subseteq Requests

(* No other POST drew the same uuid.                                       *)
SoleUuid(r) == \A q \in Requests \ {r} : uuid[q] # uuid[r]

(* Every row has its two objects.  The row is what index.php and           *)
(* player.php start from, so whatever fails, dies or overlaps, a visitor   *)
(* is never sent to a key that was not stored (VideoUpload.php runs        *)
(* uploadFile before preparedSQL and lets putObject's exception through).  *)
RowsBacked ==
    \A w \in table :
        /\ w.UUID = uuid[w.of]
        /\ bucket[VideoKey(w.of)] # None
        /\ bucket[ThumbKey(w.of)] # None

(* A row shows the video and the picture of its own POST, provided that    *)
(* /tmp/<file> was never shared while the script counted on it, that no    *)
(* other POST drew the same uuid and that the file is not a .jpg (whose    *)
(* two keys are one): the three ways the code has to mix videos up are the *)
(* only ones.                                                              *)
StoredFaithfully ==
    \A w \in table :
        (w.of \notin clashed /\ SoleUuid(w.of)) =>
            /\ bucket[ThumbKey(w.of)] = Picture(w.of)
            /\ ExtOf[FileOf(w.of)] # "jpg"
                  => bucket[VideoKey(w.of)] = Video(w.of)

(* What a row shows is only ever replaced by a twin, another POST that     *)
(* drew the same uuid, and only by a put of that twin: a later upload of   *)
(* the same file name does not touch it, nor does a retry or a failure.    *)
(* Without twins the objects behind a row never change again.              *)
ReplacedOnlyByTwin ==
    [][\A w \in table : \A k \in {VideoKey(w.of), ThumbKey(w.of)} :
          bucket'[k] # bucket[k] =>
              \E q \in Requests \ {w.of} :
                  /\ uuid[q] = w.UUID
                  /\ pc[q] \in {"putVideo", "putThumb"} /\ pc'[q] # pc[q]]_vars

(* "Error with Video File" and "Upload Failed" mean what they say: such a  *)
(* POST left no row, holds no ID and left no object, so trying again makes *)
(* no second copy.  (Errors 31 and 41 give no such promise.)               *)
ErrorsStoreNothing ==
    \A r \in Requests :
        response[r].page \in {"11", "21"} =>
            /\ rowId[r] = 0
            /\ \A w \in table : w.of # r
            /\ (uuid[r] # None /\ SoleUuid(r))
                  => \A e \in Exts : bucket[<<uuid[r], e>>] = None

(* The uploader is redirected to a row that carries the uuid of the POST,  *)
(* and to the row of the POST itself when the uuid is its own.             *)
RedirectedToOwn ==
    \A r \in Requests :
        response[r].page = "player" =>
            \E w \in table : /\ w.ID = response[r].id
                             /\ w.UUID = uuid[r]
                             /\ SoleUuid(r) => w.of = r

(* One POST yields at most one row, and AUTO_INCREMENT never gives two     *)
(* rows one ID, in whatever order the INSERTs commit.                      *)
OneRowPerPost ==
    \A v, w \in table : (v.of = w.of \/ v.ID = w.ID) => v = w

(* The scripts that have been through uploadFile, as far as their place,   *)
(* their ID or their answer tells, and those whose file was never moved.   *)
NothingHeld(r) == \/ pc[r] \in {"connect", "insert", "commit", "getVID"}
                  \/ rowId[r] # 0
                  \/ response[r].page \in {"player", "21", "31", "41"}

(* A script that got as far as the database, or that ends in any page but  *)
(* an error before it, has nothing left in /tmp: neither its video, under  *)
(* whatever name, nor the picture under its uuid (unless another POST drew *)
(* the same uuid and has put a picture of its own there).                  *)
CopiesRemoved ==
    \A r \in Requests :
        NothingHeld(r) =>
            /\ \A f \in Files : local[f] # r
            /\ (uuid[r] # None /\ SoleUuid(r)) => thumbs[uuid[r]] = None

(* While nothing outside fails, a sound upload that got past the probe is  *)
(* always listed in the end, unless its file or uuid was shared: the       *)
(* pipeline itself loses nothing.                                          *)
SoundUploadListed ==
    \A r \in Requests :
        (pc[r] = "localUpload" /\ sub[r].picture # "none")
            ~> \/ \E w \in table : w.of = r
               \/ r \in clashed
               \/ ~SoleUuid(r)

(* The POSTs that carry a file of the same name, r itself among them.      *)
Namesakes(r) == {q \in Requests : /\ sub[q] # None /\ sub[r] # None
                                  /\ FileOf(q) = FileOf(r)}

(* Even when names clash somebody gets through: once every script has      *)
(* ended, with no failure outside, an upload is only lost to another of    *)
(* the same file name that did reach the site, or to one that had no       *)
(* picture to take a thumbnail of.                                         *)
LostOnlyToNamesake ==
    (Faults = {} /\ \A q \in Requests : pc[q] \in {"new", "done"}) =>
        \A r \in Requests :
            (uuid[r] # None /\ SoleUuid(r) /\ sub[r].picture # "none") =>
                \/ \E w \in table : w.of \in Namesakes(r)
                \/ \E q \in Namesakes(r) : sub[q].picture = "none"
=============================================================================

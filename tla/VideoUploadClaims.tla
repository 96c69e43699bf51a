------------------------- MODULE VideoUploadClaims -------------------------
(* What the comments of Video Vortex say of an upload, where the code does *)
(* otherwise.  Each formula is one such sentence; a run of its own shows   *)
(* how the code breaks it.                                                 *)
EXTENDS VideoUpload

(* VideoUpload.php:9: the class "takes a video file and [...] uploads the  *)
(* video and thumbnail to an S3 bucket, and updates the database": the     *)
(* video behind a row is the file that was posted.                         *)
ClaimOwnVideo ==
    \A w \in table : bucket[VideoKey(w.of)] = Video(w.of)

(* video_upload.php:9: the script "returns Video ID for player.php" for     *)
(* what was uploaded, however long its description is.                     *)
ClaimIdReturned ==
    \A r \in Requests :
        (pc[r] = "done" /\ \E w \in table : w.of = r)
            => response[r].page \in {"player", "31", "500"}
=============================================================================

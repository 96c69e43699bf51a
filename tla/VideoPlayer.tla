---------------------------- MODULE VideoPlayer ----------------------------
(***************************************************************************)
(* player.php and VideoPlayer::startPlayer, together with the index pages  *)
(* that lead to them.  A visitor follows a link of the page at hand, which *)
(* may have been fetched long ago, or asks for an ID of their own; the     *)
(* player page names the source the browser is to play.                    *)
(***************************************************************************)
EXTENDS IndexPage

CONSTANTS
    NotNumeric,  \* an ID that is_numeric() refuses
    Nowhere      \* no source

ASSUME PlayerAssumption == NotNumeric \notin Nat

VARIABLE screen  \* what the player page shows each visitor

(* The extensions that buildPlayer's switch plays from the RTMP server,    *)
(* and those it plays from the bucket.                                     *)
Streamed   == {"mp4", "flv"}
FromBucket == {"mkv", "avi", "mov", "ogg"}

(* Slip: the ID stands in for the UUID.                                    *)
SourceById(w) ==
    [app |-> IF w.Ext \in Streamed THEN "playback" ELSE "s3",
     key |-> <<w.ID, w.Ext>>]

Source(w) == [app |-> IF w.Ext \in Streamed THEN "playback" ELSE "s3",
              key |-> <<w.UUID, w.Ext>>]

PlayerPages == {"none", "player", "31", "41", "61", "fatal"}
Off == [page |-> "none", source |-> Nowhere, linked |-> FALSE, cut |-> FALSE]

PlayerInit ==
    /\ IndexInit
    /\ screen = [v \in Visitors |-> Off]

(* What the page shows; that it was reached by a link, and that the row it *)
(* plays has lost letters of its extension, is history.                    *)
Display(v, p, source, linked, cut) ==
    screen' = [screen EXCEPT ![v] = [page |-> p, source |-> source,
                                     linked |-> linked, cut |-> cut]]

(* Slip: the ID is looked up as an offset.                                 *)
FoundAtOffset(id) == {w \in rows : Rank(w) + 1 = id}

(* SELECT * ... WHERE ID = id; what is not numeric is not looked up.       *)
Found(id) == {w \in rows : id # NotNumeric /\ w.ID = id}

(* startPlayer for an ID: no row, or a row whose extension is playable or  *)
(* not.                                                                    *)
StartPlayer(v, id, linked) ==
    \/ Found(id) = {} /\ Display(v, "41", Nowhere, linked, FALSE)
    \/ \E w \in Found(id) :
          /\ w.Ext \in Streamed \cup FromBucket
          /\ Display(v, "player", Source(w), linked, w.Ext # w.full)
    \/ \E w \in Found(id) :
          /\ w.Ext \notin Streamed \cup FromBucket
          /\ Display(v, "61", Nowhere, linked, FALSE)

Click(v) ==
    /\ \E w \in page[v] : StartPlayer(v, w.ID, TRUE)
    /\ UNCHANGED <<catalog, index>>

Ask(v) ==
    /\ \E id \in (0 .. MaxRow + 1) \cup {NotNumeric} :
          StartPlayer(v, id, FALSE)
    /\ UNCHANGED <<catalog, index>>

(* No connection: error 31.  A query that fails returns FALSE, whose       *)
(* fetch_array() is a fatal error.                                         *)
StartFail(v) ==
    /\ \/ "connect" \in Faults /\ Display(v, "31", Nowhere, FALSE, FALSE)
       \/ "statement" \in Faults /\ Display(v, "fatal", Nowhere, FALSE, FALSE)
    /\ UNCHANGED <<catalog, index>>

Play(v) == Click(v) \/ Ask(v) \/ StartFail(v)

PlayerNext ==
    \/ IndexNext /\ UNCHANGED screen
    \/ \E v \in Visitors : Play(v)

PlayerSpec == PlayerInit /\ [][PlayerNext]_<<catalog, index, screen>>

----------------------------------------------------------------------------
PlayerTypeOK ==
    screen \in [Visitors ->
        [page   : PlayerPages,
         source : {Nowhere} \cup [app : {"playback", "s3"},
                                  key : Uuids \X Exts],
         linked : BOOLEAN,
         cut    : BOOLEAN]]

(* A link on an index page never ends in "Unknown Video ID", however old   *)
(* the page is and whatever was uploaded since.                            *)
LinksLead ==
    \A v \in Visitors : screen[v].linked => screen[v].page # "41"

(* The player is pointed at a video that is in the bucket, unless the row  *)
(* it plays is one whose extension CHAR(3) has cut; and then the video is  *)
(* there all the same, under an extension that was cut to the one asked    *)
(* for.                                                                    *)
SourceStored ==
    \A v \in Visitors :
        screen[v].page = "player" =>
            LET k == screen[v].source.key
            IN  IF screen[v].cut
                THEN \E e \in Exts \ {k[2]} : /\ Char3[e] = k[2]
                                             /\ <<k[1], e>> \in objects
                ELSE k \in objects
=============================================================================

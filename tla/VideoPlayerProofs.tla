------------------------- MODULE VideoPlayerProofs -------------------------
(* Proofs about the player page, on top of those about the index page.     *)
EXTENDS VideoPlayer, IndexPageProofs

(* What the player is pointed at has the UUID of a stored file, and the    *)
(* extension that CHAR(3) left of that file's; the page remembers whether  *)
(* that is another one.                                                    *)
StoredAs(key, cut) ==
    /\ key \in Uuids \X Exts
    /\ \E e \in Exts : /\ Char3[e] = key[2]
                       /\ <<key[1], e>> \in objects
                       /\ cut <=> e # key[2]

SourceOf(s) == StoredAs(s.source.key, s.cut)

ScreenInv ==
    /\ PlayerTypeOK
    /\ LinksLead
    /\ \A v \in Visitors : screen[v].page = "player" => SourceOf(screen[v])

PlayerInv == IndexInv /\ ScreenInv

LEMMA PlayerInvInit == PlayerInit => PlayerInv
  BY IndexInvInit
     DEF PlayerInit, PlayerInv, ScreenInv, PlayerTypeOK, LinksLead, Off,
         PlayerPages

(* The source of a row.                                                    *)
LEMMA SourceOfRow ==
    ASSUME IndexInv, NEW w \in rows
    PROVE  /\ Source(w) \in [app : {"playback", "s3"}, key : Uuids \X Exts]
           /\ Source(w).key = <<w.UUID, w.Ext>>
           /\ w.UUID \in Uuids /\ w.Ext \in Exts /\ w.ID \in Nat
           /\ StoredAs(Source(w).key, w.Ext # w.full)
<1>1. w \in RowType /\ RowStored(w)
  BY DEF IndexInv, CatalogInv, CatalogTypeOK
<1>2. w.UUID \in Uuids /\ w.Ext \in Exts /\ w.full \in Exts /\ w.ID \in Nat
  BY <1>1 DEF RowType
<1> QED
  BY <1>1, <1>2 DEF Source, RowStored, StoredAs

(* A player page that is displayed as the script does it.                  *)
LEMMA DisplayKeepsScreenInv ==
    ASSUME PlayerInv, UNCHANGED <<catalog, index>>, NEW v \in Visitors,
           NEW p \in PlayerPages, NEW source, NEW linked \in BOOLEAN,
           NEW cut \in BOOLEAN, Display(v, p, source, linked, cut),
           linked => p # "41",
           \/ p # "player" /\ source = Nowhere
           \/ \E w \in rows : source = Source(w) /\ cut = (w.Ext # w.full)
    PROVE  ScreenInv'
<1>1. UNCHANGED objects
  BY DEF catalog
<1>2. screen \in [Visitors -> [page   : PlayerPages,
                   source : {Nowhere} \cup [app : {"playback", "s3"},
                                            key : Uuids \X Exts],
                   linked : BOOLEAN,
                   cut    : BOOLEAN]]
  BY DEF PlayerInv, ScreenInv, PlayerTypeOK
<1>3. screen' = [screen EXCEPT ![v] = [page |-> p, source |-> source,
                                       linked |-> linked, cut |-> cut]]
  BY DEF Display
<1>4. /\ source \in {Nowhere} \cup [app : {"playback", "s3"},
                                    key : Uuids \X Exts]
      /\ p = "player" => StoredAs(source.key, cut)
  <2>1. CASE p # "player" /\ source = Nowhere
    BY <2>1
  <2>2. ASSUME NEW w \in rows, source = Source(w), cut = (w.Ext # w.full)
        PROVE  <1>4!1 /\ <1>4!2
    BY <2>2, SourceOfRow DEF PlayerInv
  <2> QED
    BY <2>1, <2>2
<1>5. PlayerTypeOK'
  BY <1>2, <1>3, <1>4 DEF PlayerTypeOK
<1>6. LinksLead'
  BY <1>2, <1>3 DEF LinksLead, PlayerInv, ScreenInv
<1>7. \A u \in Visitors : screen'[u].page = "player" => SourceOf(screen[u])'
  BY <1>1, <1>2, <1>3, <1>4 DEF SourceOf, StoredAs, PlayerInv, ScreenInv
<1> QED
  BY <1>5, <1>6, <1>7 DEF ScreenInv

(* startPlayer; an ID that comes from a link is the ID of a row.           *)
LEMMA StartPlayerKeepsScreenInv ==
    ASSUME PlayerInv, UNCHANGED <<catalog, index>>, NEW v \in Visitors,
           NEW id, NEW linked \in BOOLEAN, StartPlayer(v, id, linked),
           linked => \E w \in rows : w.ID = id
    PROVE  ScreenInv'
<1>1. CASE Found(id) = {} /\ Display(v, "41", Nowhere, linked, FALSE)
  <2>1. ~linked
    <3> SUFFICES ASSUME linked
                 PROVE  FALSE
      OBVIOUS
    <3>1. PICK w \in rows : w.ID = id
      OBVIOUS
    <3>2. w \in Found(id)
      BY <3>1, SourceOfRow, PlayerAssumption
         DEF PlayerInv, Found, PlayerAssumption
    <3> QED
      BY <1>1, <3>2
  <2> QED
    BY <1>1, <2>1, DisplayKeepsScreenInv DEF PlayerPages
<1>2. ASSUME NEW w \in Found(id), Display(v, "player", Source(w), linked, w.Ext # w.full)
      PROVE  ScreenInv'
  <2>1. w \in rows
    BY DEF Found
  <2> QED
    BY <1>2, <2>1, DisplayKeepsScreenInv DEF PlayerPages
<1>3. CASE Display(v, "61", Nowhere, linked, FALSE)
  BY <1>3, DisplayKeepsScreenInv DEF PlayerPages
<1> QED
  BY <1>1, <1>2, <1>3 DEF StartPlayer

LEMMA PlayerInvInductive ==
    PlayerInv /\ [PlayerNext]_<<catalog, index, screen>> => PlayerInv'
<1> SUFFICES ASSUME PlayerInv, [PlayerNext]_<<catalog, index, screen>>
             PROVE  PlayerInv'
  OBVIOUS
<1>1. IndexInv'
  BY IndexInvInductive
     DEF PlayerInv, PlayerNext, Play, Click, Ask, StartFail
<1>2. CASE [IndexNext]_<<catalog, index>> /\ UNCHANGED screen
  <2>1. objects \subseteq objects'
    BY <1>2 DEF IndexNext, Upload, CatalogNext, Store, Reserve, Abandon,
       Publish, Visit, Open, More, Bookmark, ConnectFail, QueryFail, catalog
  <2>2. ScreenInv'
    BY <1>2, <2>1 DEF PlayerInv, ScreenInv, PlayerTypeOK, LinksLead,
       SourceOf, StoredAs
  <2> QED
    BY <1>1, <2>2 DEF PlayerInv
<1>3. ASSUME NEW v \in Visitors, Click(v)
      PROVE  PlayerInv'
  <2>1. PICK w \in page[v] : StartPlayer(v, w.ID, TRUE)
    BY <1>3 DEF Click
  <2>2. w \in rows
    BY DEF PlayerInv, IndexInv, IndexTypeOK
  <2> QED
    BY <1>1, <1>3, <2>1, <2>2, StartPlayerKeepsScreenInv DEF PlayerInv, Click
<1>4. ASSUME NEW v \in Visitors, Ask(v)
      PROVE  PlayerInv'
  BY <1>1, <1>4, StartPlayerKeepsScreenInv DEF PlayerInv, Ask
<1>5. ASSUME NEW v \in Visitors, StartFail(v)
      PROVE  PlayerInv'
  BY <1>1, <1>5, DisplayKeepsScreenInv DEF PlayerInv, StartFail, PlayerPages
<1> QED
  BY <1>2, <1>3, <1>4, <1>5 DEF PlayerNext, Play

LEMMA PlayerInvariant == PlayerSpec => []PlayerInv
  BY PlayerInvInit, PlayerInvInductive, PTL DEF PlayerSpec

(* The player page keeps its type.                                         *)
THEOREM PlayerTypeCorrect == PlayerSpec => []PlayerTypeOK
<1>1. PlayerInv => PlayerTypeOK
  BY DEF PlayerInv, ScreenInv
<1> QED
  BY <1>1, PlayerInvariant, PTL

(* A link of an index page, of any age, never ends in error 41.            *)
THEOREM LinksAlwaysLead == PlayerSpec => []LinksLead
<1>1. PlayerInv => LinksLead
  BY DEF PlayerInv, ScreenInv
<1> QED
  BY <1>1, PlayerInvariant, PTL

(* The source that buildPlayer names is in the bucket, unless the row is   *)
(* one whose extension CHAR(3) has cut; then the video is there under an   *)
(* extension that was cut to the one asked for.                            *)
THEOREM SourceThere == PlayerSpec => []SourceStored
<1>1. PlayerInv => SourceStored
  <2> SUFFICES ASSUME PlayerInv, NEW v \in Visitors,
                      screen[v].page = "player", NEW k,
                      k = screen[v].source.key
               PROVE  IF screen[v].cut
                      THEN \E e \in Exts \ {k[2]} : /\ Char3[e] = k[2]
                                                   /\ <<k[1], e>> \in objects
                      ELSE k \in objects
    BY DEF SourceStored
  <2>1. PICK e \in Exts : /\ Char3[e] = k[2] /\ <<k[1], e>> \in objects
                          /\ screen[v].cut <=> e # k[2]
    BY DEF PlayerInv, ScreenInv, SourceOf, StoredAs
  <2>2. k = <<k[1], k[2]>>
    BY DEF PlayerInv, ScreenInv, SourceOf, StoredAs
  <2> QED
    BY <2>1, <2>2
<1> QED
  BY <1>1, PlayerInvariant, PTL
=============================================================================

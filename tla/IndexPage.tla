----------------------------- MODULE IndexPage -----------------------------
(***************************************************************************)
(* index.php: the pages of thumbnails, PageSize rows at a time, with the   *)
(* More button leading to the next page and back to the first one after    *)
(* the last.  A page remembers nothing but its starting row, and uploads   *)
(* go on between one page and the next; a row may then commit below IDs    *)
(* that were already shown.                                                *)
(*                                                                         *)
(* A row's place is its rank by ID: the SELECT has no ORDER BY, and InnoDB *)
(* scans the table in the order of its primary key.                        *)
(***************************************************************************)
EXTENDS Catalog

CONSTANTS
    Visitors,  \* the browsers
    PageSize,  \* rows of a page (15)
    MaxRow,    \* bound: the number of IDs handed out
    Faults     \* the outside failures that may occur

ASSUME IndexAssumption ==
    /\ PageSize \in Nat \ {0}
    /\ MaxRow \in Nat
    /\ Faults \subseteq {"connect", "statement"}

VARIABLES
    more,  \* the value of the More button on each visitor's page
    page,  \* the rows on it
    due,   \* history: the rows there were when the walk began
    seen   \* history: the rows shown since

index == <<more, page, due, seen>>

NoButton == [button |-> FALSE, row |-> 0]
Button(s) == [button |-> TRUE, row |-> s]

Rank(w) == Cardinality({x \in rows : x.ID < w.ID})

(* SELECT ... LIMIT s,PageSize                                             *)
PageFrom(s) == {w \in rows : s <= Rank(w) /\ Rank(w) < s + PageSize}

(* Slip: a page that is exactly full is taken for the last one.            *)
NextRowHasty(s, n) == IF n <= PageSize THEN 0 ELSE s + PageSize

(* Slip: only an empty page is the last.                                   *)
NextRowTardy(s, n) == IF n = 0 THEN 0 ELSE s + PageSize

NextRow(s, n) == IF n < PageSize THEN 0 ELSE s + PageSize

IndexInit ==
    /\ CatalogInit
    /\ more = [v \in Visitors |-> NoButton]
    /\ page = [v \in Visitors |-> {}]
    /\ due  = [v \in Visitors |-> {}]
    /\ seen = [v \in Visitors |-> {}]

(* The script with starting row s.                                         *)
Show(v, s) ==
    /\ more' = [more EXCEPT ![v] = Button(NextRow(s, Cardinality(PageFrom(s))))]
    /\ page' = [page EXCEPT ![v] = PageFrom(s)]

(* A new walk: the site is opened, or More leads back to the first row.    *)
Open(v) ==
    /\ Show(v, 0)
    /\ due'  = [due EXCEPT ![v] = rows]
    /\ seen' = [seen EXCEPT ![v] = PageFrom(0)]
    /\ UNCHANGED catalog

(* The More button, within a walk.                                         *)
More(v) ==
    /\ more[v].button /\ more[v].row # 0
    /\ Show(v, more[v].row)
    /\ seen' = [seen EXCEPT ![v] = @ \cup PageFrom(more[v].row)]
    /\ UNCHANGED <<catalog, due>>

(* A page is asked for by its URL, ?More=s, from a bookmark or by hand.    *)
Bookmark(v) ==
    /\ \E s \in 0 .. MaxRow + 1 : Show(v, s)
    /\ due'  = [due EXCEPT ![v] = {}]
    /\ seen' = [seen EXCEPT ![v] = {}]
    /\ UNCHANGED catalog

(* No connection: the script dies, and there is no button to go on with.   *)
ConnectFail(v) ==
    /\ "connect" \in Faults
    /\ more' = [more EXCEPT ![v] = NoButton]
    /\ page' = [page EXCEPT ![v] = {}]
    /\ due'  = [due EXCEPT ![v] = {}]
    /\ seen' = [seen EXCEPT ![v] = {}]
    /\ UNCHANGED catalog

(* The query fails: fetching from FALSE only warns, which leaves a page    *)
(* without videos, whose button leads back to the first row.               *)
QueryFail(v) ==
    /\ "statement" \in Faults
    /\ more' = [more EXCEPT ![v] = Button(NextRow(0, 0))]
    /\ page' = [page EXCEPT ![v] = {}]
    /\ due'  = [due EXCEPT ![v] = {}]
    /\ seen' = [seen EXCEPT ![v] = {}]
    /\ UNCHANGED catalog

Visit(v) ==
    Open(v) \/ More(v) \/ Bookmark(v) \/ ConnectFail(v) \/ QueryFail(v)

(* The uploads, as the Catalog has them.                                   *)
Upload ==
    /\ CatalogNext
    /\ nextId' <= MaxRow + 1
    /\ UNCHANGED index

IndexNext == Upload \/ \E v \in Visitors : Visit(v)

IndexSpec == IndexInit /\ [][IndexNext]_<<catalog, index>>

----------------------------------------------------------------------------
IndexTypeOK ==
    /\ CatalogTypeOK
    /\ more \in [Visitors -> [button : BOOLEAN, row : Nat]]
    /\ page \in [Visitors -> SUBSET rows]
    /\ due  \in [Visitors -> SUBSET rows]
    /\ seen \in [Visitors -> SUBSET rows]

(* A visitor who keeps pressing More is shown every video that was on the  *)
(* site when the walk began before More leads back to the first page,      *)
(* whatever is uploaded meanwhile and in whatever order it commits.  (A    *)
(* query that fails breaks the walk off: see QueryFail.)                   *)
WalkComplete ==
    \A v \in Visitors :
        more[v] = Button(0) => due[v] \subseteq seen[v]

(* The More button never leads beyond the end of the table: the page it    *)
(* asks for starts at a row that there is, or right after the last one.    *)
MoreWithinTable ==
    \A v \in Visitors : more[v].row <= Cardinality(rows)

(* Every thumbnail on a page has its picture in the bucket, on a page that *)
(* was fetched long ago as well.                                           *)
ThumbnailsStored ==
    \A v \in Visitors : \A w \in page[v] : <<w.UUID, "jpg">> \in objects
=============================================================================

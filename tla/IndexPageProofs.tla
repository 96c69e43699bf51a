-------------------------- MODULE IndexPageProofs --------------------------
(* Proofs about the Catalog and the index page, for any number of          *)
(* visitors, rows and keys and any page size.                              *)
EXTENDS IndexPage, FiniteSetTheorems, TLAPS

(* The two objects of a row are in the bucket, the video under the         *)
(* extension it had before CHAR(3) cut it.                                 *)
RowStored(w) ==
    /\ {<<w.UUID, w.full>>, <<w.UUID, "jpg">>} \subseteq objects
    /\ w.Ext = Char3[w.full]

(* The invariant of the Catalog.                                           *)
CatalogInv ==
    /\ CatalogTypeOK
    /\ IdsOnce
    /\ IsFiniteSet(rows)
    /\ \A w \in rows : RowStored(w)

LEMMA CatalogInvInit == CatalogInit => CatalogInv
  BY FS_EmptySet DEF CatalogInit, CatalogInv, CatalogTypeOK, IdsOnce, RowType

LEMMA CatalogInvInductive == CatalogInv /\ CatalogNext => CatalogInv'
<1> SUFFICES ASSUME CatalogInv, CatalogNext
             PROVE  CatalogInv'
  OBVIOUS
<1> USE DEF CatalogInv
<1>1. CASE Store
  BY <1>1 DEF Store, CatalogTypeOK, IdsOnce, RowStored
<1>2. CASE Reserve
  <2>1. CatalogTypeOK' /\ IdsOnce'
    BY <1>2 DEF Reserve, CatalogTypeOK, IdsOnce, RowType
  <2>2. UNCHANGED <<rows, objects>>
    BY <1>2 DEF Reserve
  <2> QED
    BY <2>1, <2>2 DEF RowStored
<1>3. ASSUME NEW id \in pending, Abandon(id)
      PROVE  CatalogInv'
  BY <1>3 DEF Abandon, CatalogTypeOK, IdsOnce, RowStored
<1>4. ASSUME NEW id \in pending, NEW u \in Uuids, NEW e \in Exts,
             Publish(id, u, e)
      PROVE  CatalogInv'
  <2> DEFINE r == Row(id, u, e)
  <2>1. /\ r \in RowType
        /\ rows' = rows \cup {r}
        /\ pending' = pending \ {id}
        /\ id \in 1 .. nextId - 1
        /\ UNCHANGED <<nextId, objects>>
    BY <1>4, CatalogAssumption DEF Publish, CatalogTypeOK, CatalogAssumption,
       RowType, Row
  <2>2. CatalogTypeOK'
    BY <2>1 DEF CatalogTypeOK
  <2>3. IdsOnce'
    BY <2>1 DEF IdsOnce, CatalogTypeOK, Row
  <2>4. IsFiniteSet(rows')
    BY <2>1, FS_AddElement
  <2>5. \A w \in rows' : RowStored(w)'
    <3>1. \A w \in rows : RowStored(w)'
      BY <2>1 DEF RowStored
    <3>2. r.UUID = u /\ r.full = e /\ r.Ext = Char3[e]
      BY DEF Row
    <3>3. <<u, e>> \in objects /\ <<u, "jpg">> \in objects
      BY <1>4 DEF Publish
    <3>4. RowStored(r)'
      BY <2>1, <3>2, <3>3 DEF RowStored
    <3> QED
      BY <2>1, <3>1, <3>4
  <2> QED
    BY <2>2, <2>3, <2>4, <2>5
<1> QED
  BY <1>1, <1>2, <1>3, <1>4 DEF CatalogNext

----------------------------------------------------------------------------
(* Ranks.                                                                  *)

(* Below a row are fewer rows than there are.                              *)
LEMMA RankType ==
    ASSUME CatalogInv, NEW w \in rows
    PROVE  Rank(w) \in 0 .. Cardinality(rows) - 1
<1> DEFINE below == {x \in rows : x.ID < w.ID}
<1>1. IsFiniteSet(rows) /\ Cardinality(rows) \in Nat /\ w.ID \in Nat
  BY FS_CardinalityType DEF CatalogInv, CatalogTypeOK, RowType
<1>2. below \in SUBSET rows /\ below # rows
  <2>1. w \notin below
    BY <1>1
  <2> QED
    BY <2>1
<1>3. /\ IsFiniteSet(below)
      /\ Cardinality(below) <= Cardinality(rows)
      /\ Cardinality(below) # Cardinality(rows)
  BY <1>1, <1>2, FS_Subset
<1>4. Cardinality(below) \in Nat
  BY <1>3, FS_CardinalityType
<1> QED
  BY <1>1, <1>3, <1>4 DEF Rank

(* A row above another has a higher rank.                                  *)
LEMMA RankAscends ==
    ASSUME CatalogInv, NEW w \in rows, NEW x \in rows, w.ID < x.ID
    PROVE  Rank(w) < Rank(x)
<1> DEFINE below(z) == {y \in rows : y.ID < z.ID}
<1>1. IsFiniteSet(rows) /\ \A y \in rows : y.ID \in Nat
  BY DEF CatalogInv, CatalogTypeOK, RowType
<1>2. below(w) \in SUBSET below(x) /\ w \in below(x) /\ w \notin below(w)
  BY <1>1
<1>3. IsFiniteSet(below(x))
  BY <1>1, FS_Subset
<1>4. /\ IsFiniteSet(below(w))
      /\ Cardinality(below(w)) <= Cardinality(below(x))
      /\ Cardinality(below(w)) # Cardinality(below(x))
  BY <1>2, <1>3, FS_Subset
<1>5. Cardinality(below(w)) \in Nat /\ Cardinality(below(x)) \in Nat
  BY <1>3, <1>4, FS_CardinalityType
<1> QED
  BY <1>4, <1>5 DEF Rank

(* Every rank from 0 up to the number of rows belongs to one row: the      *)
(* table can be walked by rank without a gap.                              *)
LEMMA RanksFill ==
    ASSUME CatalogInv
    PROVE  /\ \A n \in 0 .. Cardinality(rows) - 1 :
                \E w \in rows : Rank(w) = n
           /\ \A w, x \in rows : Rank(w) = Rank(x) => w = x
<1> DEFINE N == Cardinality(rows)
           f == [w \in rows |-> Rank(w)]
<1>1. IsFiniteSet(rows) /\ N \in Nat
  BY FS_CardinalityType DEF CatalogInv
<1>2. \A w, x \in rows : Rank(w) = Rank(x) => w = x
  <2> SUFFICES ASSUME NEW w \in rows, NEW x \in rows, w # x
               PROVE  Rank(w) # Rank(x)
    OBVIOUS
  <2>1. w.ID \in Nat /\ x.ID \in Nat /\ w.ID # x.ID
    BY DEF CatalogInv, CatalogTypeOK, RowType, IdsOnce
  <2>2. Rank(w) \in Int /\ Rank(x) \in Int
    BY <1>1, RankType
  <2>3. CASE w.ID < x.ID
    BY <2>2, <2>3, RankAscends
  <2>4. CASE x.ID < w.ID
    BY <2>2, <2>4, RankAscends
  <2> QED
    BY <2>1, <2>3, <2>4
<1>3. f \in Injection(rows, 0 .. N - 1)
  <2>1. f \in [rows -> 0 .. N - 1]
    BY RankType
  <2>2. IsInjective(f)
    BY <1>2 DEF IsInjective
  <2> QED
    BY <2>1, <2>2 DEF Injection
<1>4. IsFiniteSet(0 .. N - 1) /\ Cardinality(0 .. N - 1) = N
  BY <1>1, FS_Interval
<1>5. f \in Surjection(rows, 0 .. N - 1)
  BY <1>3, <1>4, FS_Injection
<1>6. \A n \in 0 .. N - 1 : \E w \in rows : f[w] = n
  BY <1>5 DEF Surjection
<1> QED
  BY <1>2, <1>6

(* A page has as many rows as it can have, and then the table reaches      *)
(* beyond it; one with fewer is the last.                                  *)
LEMMA PageSizes ==
    ASSUME CatalogInv, NEW s \in Nat
    PROVE  /\ IsFiniteSet(PageFrom(s))
           /\ Cardinality(PageFrom(s)) \in Nat
           /\ Cardinality(PageFrom(s)) >= PageSize
                => s + PageSize <= Cardinality(rows)
           /\ Cardinality(PageFrom(s)) < PageSize
                => \A w \in rows : Rank(w) < s + PageSize
<1> DEFINE N == Cardinality(rows)
           P == PageFrom(s)
           top == s + PageSize - 1
           f == [w \in P |-> Rank(w)]
<1>1. IsFiniteSet(rows) /\ N \in Nat /\ PageSize \in Nat \ {0}
  BY FS_CardinalityType, IndexAssumption DEF CatalogInv, IndexAssumption
<1>2. P \in SUBSET rows /\ IsFiniteSet(P) /\ Cardinality(P) \in Nat
  <2>1. P \in SUBSET rows
    BY DEF PageFrom
  <2> QED
    BY <1>1, <2>1, FS_Subset, FS_CardinalityType
<1>3. \A w \in rows : Rank(w) \in 0 .. N - 1
  BY RankType
<1>4. IsFiniteSet(s .. top) /\ Cardinality(s .. top) = PageSize
  BY <1>1, FS_Interval
<1>5. f \in Injection(P, s .. top)
  <2>1. f \in [P -> s .. top]
    BY <1>1, <1>2, <1>3 DEF PageFrom
  <2>2. IsInjective(f)
    BY <1>2, RanksFill DEF IsInjective
  <2> QED
    BY <2>1, <2>2 DEF Injection
<1>6. /\ Cardinality(P) <= PageSize
      /\ Cardinality(P) = PageSize <=> f \in Surjection(P, s .. top)
  BY <1>4, <1>5, FS_Injection
<1>7. ASSUME Cardinality(P) >= PageSize
      PROVE  s + PageSize <= N
  <2>1. f \in Surjection(P, s .. top)
    BY <1>1, <1>2, <1>6, <1>7
  <2>2. top \in s .. top
    BY <1>1
  <2>3. PICK w \in P : f[w] = top
    BY <2>1, <2>2 DEF Surjection
  <2> QED
    BY <1>1, <1>2, <1>3, <2>3
<1>8. ASSUME Cardinality(P) < PageSize, NEW w \in rows,
             ~(Rank(w) < s + PageSize)
      PROVE  FALSE
  <2>1. \A n \in s .. top : n \in 0 .. N - 1
    BY <1>1, <1>3, <1>8
  <2>2. \A n \in s .. top : \E x \in P : f[x] = n
    <3> SUFFICES ASSUME NEW n \in s .. top
                 PROVE  \E x \in P : f[x] = n
      OBVIOUS
    <3>1. PICK x \in rows : Rank(x) = n
      BY <2>1, RanksFill
    <3>2. x \in P
      BY <1>1, <3>1 DEF PageFrom
    <3> QED
      BY <3>1, <3>2
  <2>3. f \in Surjection(P, s .. top)
    BY <1>5, <2>2 DEF Surjection, Injection
  <2> QED
    BY <1>1, <1>2, <1>6, <1>8, <2>3
<1> QED
  BY <1>2, <1>7, <1>8

(* Where the button of a page leads.                                       *)
LEMMA NextRowRight ==
    ASSUME CatalogInv, NEW s \in Nat
    PROVE  LET n == NextRow(s, Cardinality(PageFrom(s))) IN
           /\ n \in 0 .. Cardinality(rows)
           /\ n = 0 => \A w \in rows : Rank(w) < s + PageSize
           /\ n # 0 => n = s + PageSize
<1>1. Cardinality(rows) \in Nat /\ PageSize \in Nat \ {0}
  BY FS_CardinalityType, IndexAssumption DEF CatalogInv, IndexAssumption
<1> QED
  BY <1>1, PageSizes DEF NextRow

(* Rows that commit below a row only raise its rank.                       *)
LEMMA RanksGrow ==
    ASSUME CatalogInv, CatalogInv', rows \subseteq rows', NEW w \in rows
    PROVE  Rank(w) <= Rank(w)' /\ Rank(w) \in Nat /\ Rank(w)' \in Nat
<1> DEFINE below == {x \in rows : x.ID < w.ID}
           above == {x \in rows' : x.ID < w.ID}
<1>1. below \in SUBSET above /\ IsFiniteSet(rows')
  BY DEF CatalogInv
<1>2. IsFiniteSet(above)
  BY <1>1, FS_Subset
<1>3. IsFiniteSet(below) /\ Cardinality(below) <= Cardinality(above)
  BY <1>1, <1>2, FS_Subset
<1>4. Cardinality(below) \in Nat /\ Cardinality(above) \in Nat
  BY <1>2, <1>3, FS_CardinalityType
<1> QED
  BY <1>3, <1>4 DEF Rank

----------------------------------------------------------------------------
(* The walk.                                                               *)

(* Of the rows a walk has to show, those below the row that More goes on   *)
(* with are shown; all of them, when it leads back to the first row.       *)
WalkInv ==
    \A v \in Visitors : \A w \in due[v] :
        /\ more[v].button
        /\ more[v].row = 0 \/ Rank(w) < more[v].row
        => w \in seen[v]

IndexInv ==
    /\ CatalogInv
    /\ IndexTypeOK
    /\ MoreWithinTable
    /\ WalkInv

LEMMA IndexInvInit == IndexInit => IndexInv
<1> SUFFICES ASSUME IndexInit
             PROVE  IndexInv
  OBVIOUS
<1>1. CatalogInv /\ rows = {}
  BY CatalogInvInit DEF IndexInit, CatalogInit
<1>2. CatalogTypeOK /\ Cardinality(rows) = 0
  BY <1>1, FS_EmptySet DEF CatalogInv
<1>3. IndexTypeOK /\ MoreWithinTable /\ WalkInv
  BY <1>1, <1>2 DEF IndexInit, IndexTypeOK, MoreWithinTable, WalkInv, NoButton
<1> QED
  BY <1>1, <1>3 DEF IndexInv

(* An upload adds rows, and leaves the pages as they are.                  *)
LEMMA UploadKeepsIndexInv ==
    ASSUME IndexInv, CatalogNext, UNCHANGED index
    PROVE  IndexInv'
<1>1. CatalogInv /\ CatalogInv' /\ CatalogTypeOK'
  BY CatalogInvInductive DEF IndexInv, CatalogInv
<1>2. rows \subseteq rows'
  BY DEF CatalogNext, Store, Reserve, Abandon, Publish
<1>3. IndexTypeOK'
  BY <1>1, <1>2 DEF IndexInv, IndexTypeOK, index
<1>4. MoreWithinTable'
  <2>1. Cardinality(rows) <= Cardinality(rows')
    BY <1>1, <1>2, FS_Subset DEF CatalogInv
  <2>2. Cardinality(rows) \in Nat /\ Cardinality(rows') \in Nat
    BY <1>1, FS_CardinalityType DEF CatalogInv
  <2>3. \A v \in Visitors : more[v].row \in Nat
    BY DEF IndexInv, IndexTypeOK
  <2> QED
    BY <2>1, <2>2, <2>3 DEF IndexInv, MoreWithinTable, index
<1>5. WalkInv'
  <2> SUFFICES ASSUME NEW v \in Visitors, NEW w \in due[v],
                      more[v].button,
                      more[v].row = 0 \/ Rank(w)' < more[v].row
               PROVE  w \in seen[v]
    BY DEF WalkInv, index
  <2>1. w \in rows /\ w \in rows' /\ more[v].row \in Nat
    BY <1>2 DEF IndexInv, IndexTypeOK
  <2>2. Rank(w) <= Rank(w)' /\ Rank(w) \in Nat /\ Rank(w)' \in Nat
    BY <1>1, <1>2, <2>1, RanksGrow
  <2> QED
    BY <2>1, <2>2 DEF IndexInv, WalkInv
<1> QED
  BY <1>1, <1>3, <1>4, <1>5 DEF IndexInv

(* A visit changes the page of one visitor.                                *)
LEMMA VisitKeepsIndexInv ==
    ASSUME IndexInv, NEW v \in Visitors, Visit(v)
    PROVE  IndexInv'
<1>1. /\ UNCHANGED catalog
      /\ UNCHANGED <<nextId, pending, rows, objects>>
  BY DEF Visit, Open, More, Bookmark, ConnectFail, QueryFail, catalog
<1>2. /\ IndexTypeOK /\ CatalogTypeOK /\ CatalogInv
      /\ \A u \in Visitors : more[u].row <= Cardinality(rows)
      /\ Cardinality(rows) \in Nat
  BY FS_CardinalityType DEF IndexInv, CatalogInv, MoreWithinTable
<1>3. CatalogInv' /\ CatalogTypeOK' /\ \A w : Rank(w)' = Rank(w)
  BY <1>1, <1>2 DEF CatalogInv, CatalogTypeOK, IdsOnce, RowStored, Rank
<1>4. ASSUME NEW s \in Nat, Show(v, s),
             NEW d \in SUBSET rows, due' = [due EXCEPT ![v] = d],
             NEW t \in SUBSET rows, seen' = [seen EXCEPT ![v] = t],
             PageFrom(s) \subseteq t \/ d = {},
             \A w \in d : Rank(w) < s => w \in t
      PROVE  IndexInv'
  <2> DEFINE n == NextRow(s, Cardinality(PageFrom(s)))
  <2>1. /\ n \in 0 .. Cardinality(rows)
        /\ n = 0 => \A w \in rows : Rank(w) < s + PageSize
        /\ n # 0 => n = s + PageSize
    BY <1>2, NextRowRight
  <2> HIDE DEF n
  <2>2. /\ more' = [more EXCEPT ![v] = Button(n)]
        /\ page' = [page EXCEPT ![v] = PageFrom(s)]
    BY <1>4 DEF Show, n
  <2>3. IndexTypeOK'
    BY <1>1, <1>2, <1>3, <1>4, <2>1, <2>2
       DEF IndexTypeOK, Button, PageFrom
  <2>4. MoreWithinTable'
    BY <1>1, <1>2, <2>1, <2>2 DEF MoreWithinTable, IndexTypeOK, Button
  <2>5. WalkInv'
    <3> SUFFICES ASSUME NEW u \in Visitors, NEW w \in due'[u],
                        more'[u].button,
                        more'[u].row = 0 \/ Rank(w) < more'[u].row
                 PROVE  w \in seen'[u]
      BY <1>3 DEF WalkInv
    <3>1. CASE u # v
      BY <1>2, <1>4, <2>2, <3>1 DEF IndexTypeOK, IndexInv, WalkInv
    <3>2. CASE u = v
      <4>1. w \in d /\ seen'[u] = t /\ more'[u].row = n
        BY <1>2, <1>4, <2>2, <3>2 DEF IndexTypeOK, Button
      <4>2. Rank(w) < s + PageSize /\ Rank(w) \in Int
        BY <1>2, <2>1, <4>1, RankType
      <4>3. CASE Rank(w) < s
        BY <1>4, <4>1, <4>3
      <4>4. CASE s <= Rank(w)
        BY <1>4, <4>1, <4>2, <4>4 DEF PageFrom
      <4> QED
        BY <4>2, <4>3, <4>4
    <3> QED
      BY <3>1, <3>2
  <2> QED
    BY <1>3, <2>3, <2>4, <2>5 DEF IndexInv
<1>5. ASSUME NEW b, b = NoButton \/ b = Button(0),
             more' = [more EXCEPT ![v] = b],
             page' = [page EXCEPT ![v] = {}],
             due'  = [due  EXCEPT ![v] = {}],
             seen' = [seen EXCEPT ![v] = {}]
      PROVE  IndexInv'
  <2>1. b.row = 0 /\ b \in [button : BOOLEAN, row : Nat]
    <3>1. NoButton.row = 0 /\ NoButton \in [button : BOOLEAN, row : Nat]
      BY DEF NoButton
    <3>2. Button(0).row = 0 /\ Button(0) \in [button : BOOLEAN, row : Nat]
      BY DEF Button
    <3> QED
      BY <1>5, <3>1, <3>2
  <2>2. IndexTypeOK'
    BY <1>1, <1>2, <1>3, <1>5, <2>1 DEF IndexTypeOK
  <2>3. MoreWithinTable'
    BY <1>1, <1>2, <1>5, <2>1 DEF MoreWithinTable, IndexTypeOK
  <2>4. WalkInv'
    BY <1>2, <1>3, <1>5 DEF WalkInv, IndexInv, IndexTypeOK
  <2> QED
    BY <1>3, <2>2, <2>3, <2>4 DEF IndexInv
<1>6. CASE Open(v)
  <2>1. \A w \in rows : Rank(w) < 0 => w \in PageFrom(0)
    BY <1>2, RankType
  <2>2. PageFrom(0) \in SUBSET rows /\ rows \in SUBSET rows /\ 0 \in Nat
    BY DEF PageFrom
  <2>3. /\ Show(v, 0)
        /\ due'  = [due EXCEPT ![v] = rows]
        /\ seen' = [seen EXCEPT ![v] = PageFrom(0)]
    BY <1>6 DEF Open
  <2> QED
    BY <1>4, <2>1, <2>2, <2>3
<1>7. CASE More(v)
  <2> DEFINE s == more[v].row
             t == seen[v] \cup PageFrom(s)
  <2>1. s \in Nat /\ due[v] \in SUBSET rows /\ t \in SUBSET rows
    BY <1>2 DEF IndexTypeOK, PageFrom
  <2>2. due' = [due EXCEPT ![v] = due[v]] /\ seen' = [seen EXCEPT ![v] = t]
    BY <1>2, <1>7 DEF More, IndexTypeOK
  <2>3. \A w \in due[v] : Rank(w) < s => w \in t
    BY <1>7 DEF More, IndexInv, WalkInv
  <2>4. Show(v, s) /\ PageFrom(s) \subseteq t
    BY <1>7 DEF More
  <2> HIDE DEF s, t
  <2> QED
    BY <1>4, <2>1, <2>2, <2>3, <2>4
<1>8. CASE Bookmark(v)
  <2>1. PICK s \in 0 .. MaxRow + 1 : Show(v, s)
    BY <1>8 DEF Bookmark
  <2>2. s \in Nat
    BY <2>1, IndexAssumption DEF IndexAssumption
  <2>3. {} \in SUBSET rows
    OBVIOUS
  <2>4. due' = [due EXCEPT ![v] = {}] /\ seen' = [seen EXCEPT ![v] = {}]
    BY <1>8 DEF Bookmark
  <2> QED
    BY <1>4, <2>1, <2>2, <2>3, <2>4
<1>9. CASE ConnectFail(v)
  BY <1>5, <1>9 DEF ConnectFail
<1>10. CASE QueryFail(v)
  <2>1. NextRow(0, 0) = 0
    BY IndexAssumption DEF IndexAssumption, NextRow
  <2> QED
    BY <1>5, <1>10, <2>1 DEF QueryFail
<1> QED
  BY <1>6, <1>7, <1>8, <1>9, <1>10 DEF Visit

LEMMA IndexInvInductive ==
    IndexInv /\ [IndexNext]_<<catalog, index>> => IndexInv'
<1> SUFFICES ASSUME IndexInv, [IndexNext]_<<catalog, index>>
             PROVE  IndexInv'
  OBVIOUS
<1>1. CASE Upload
  BY <1>1, UploadKeepsIndexInv DEF Upload
<1>2. ASSUME NEW v \in Visitors, Visit(v)
      PROVE  IndexInv'
  BY <1>2, VisitKeepsIndexInv
<1>3. CASE UNCHANGED <<catalog, index>>
  BY <1>3 DEF catalog, index, IndexInv, CatalogInv, CatalogTypeOK, IdsOnce,
              RowStored, IndexTypeOK, MoreWithinTable, WalkInv, Rank
<1> QED
  BY <1>1, <1>2, <1>3 DEF IndexNext

LEMMA IndexInvariant == IndexSpec => []IndexInv
  BY IndexInvInit, IndexInvInductive, PTL DEF IndexSpec

(* The variables of the index page keep their types, and a page shows      *)
(* nothing but rows of the table.                                          *)
THEOREM IndexTypeCorrect == IndexSpec => []IndexTypeOK
<1>1. IndexInv => IndexTypeOK
  BY DEF IndexInv
<1> QED
  BY <1>1, IndexInvariant, PTL

(* However uploads interleave, commit out of order or come to nothing, one *)
(* ID is one row.                                                          *)
THEOREM IdsHandedOutOnce == IndexSpec => []IdsOnce
<1>1. IndexInv => IdsOnce
  BY DEF IndexInv, CatalogInv
<1> QED
  BY <1>1, IndexInvariant, PTL

(* For any page size and any number of uploads in between, a visitor who   *)
(* keeps pressing More (index.php) has seen every video there was at the   *)
(* start when More leads back to it.                                       *)
THEOREM WalkShowsAll == IndexSpec => []WalkComplete
<1>1. IndexInv => WalkComplete
  BY DEF IndexInv, WalkInv, WalkComplete, Button
<1> QED
  BY <1>1, IndexInvariant, PTL

(* More never leads past the end of the table.                             *)
THEOREM MoreStaysInside == IndexSpec => []MoreWithinTable
<1>1. IndexInv => MoreWithinTable
  BY DEF IndexInv
<1> QED
  BY <1>1, IndexInvariant, PTL

(* The thumbnails of a page are in the bucket, however old the page is.    *)
THEOREM ThumbnailsThere == IndexSpec => []ThumbnailsStored
<1>1. IndexInv => ThumbnailsStored
  BY DEF IndexInv, CatalogInv, IndexTypeOK, RowStored, ThumbnailsStored
<1> QED
  BY <1>1, IndexInvariant, PTL
=============================================================================

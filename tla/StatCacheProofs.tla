-------------------------- MODULE StatCacheProofs --------------------------
(* Proofs about the stat cache of s3fs, for any number of threads, objects *)
(* and requests and any options.                                           *)
EXTENDS StatCache, FiniteSetTheorems, WellFoundedInduction, TLAPS

(* The variables but for what TypeOK says of entries that say "no object". *)
Typed ==
    /\ opts \in Options
    /\ now \in 0 .. MaxTime
    /\ bucket \in [Keys -> Versions]
    /\ cache \in [Keys -> EntryType]
    /\ req \in [Workers -> RequestType]
    /\ begun \in [Kinds -> Nat]

(* A section of get_object_attribute has found attributes to return.       *)
Found(r) == \/ r.pc \in {"change", "reget"}
            \/ r.pc = "drop" /\ r.then = "return"

(* As Filling, of a request.                                               *)
Fills(r) == \/ r.pc \in {"look", "evict", "add"}
            \/ r.pc = "drop" /\ r.then = "add"

(* What a request carries at each place.                                   *)
RequestOK(r) ==
    /\ r.pc # "done" => r.op \in Kinds
    /\ r.pc = "done" => r.op = "none"
    /\ r.pin => r.op = "open"
    /\ r.pc = "release" => r.op = "close"
    /\ r.pc \in {"fd", "undo"} => r.pin
    /\ r.pc = "drop" => r.then # "none"
    /\ Fills(r) /\ r.ver = 0 => opts.noobj
    /\ Found(r) => r.ver > 0
    /\ r.pc = "noobj" => opts.noobj
    /\ r.pc = "drop" /\ r.then = "noobj" => opts.noobj
    /\ r.pc # "done" => bucket[r.key] >= r.start
    /\ r.pc \in {"fd", "undo"} /\ r.start > 0 /\ ~r.failed /\ ~opts.noobj
         => r.ans > 0

(* An entry without attributes says that there is no object.               *)
EntryOK(k) ==
    /\ cache[k].noobj => opts.noobj /\ cache[k].ver = 0
    /\ ~cache[k].noobj /\ cache[k].ver = 0
         => cache[k].date = 0 /\ cache[k].pins = 0

Inv ==
    /\ Typed
    /\ \A w \in Workers : RequestOK(req[w])
    /\ \A k \in Keys : EntryOK(k)

----------------------------------------------------------------------------
LEMMA Constants ==
    /\ 1 \in Keys
    /\ 0 \in Versions /\ Versions \subseteq Nat
    /\ 0 \in 0 .. MaxTime /\ 0 .. MaxTime \subseteq Nat
    /\ NoEntry \in EntryType
    /\ Idle \in RequestType
  BY CacheAssumption
     DEF CacheAssumption, Keys, Versions, NoEntry, EntryType, Idle,
         RequestType, Kinds

(* An entry of the cache tells something: attributes, or "no object".      *)
LEMMA CachedTells ==
    ASSUME Inv, NEW k \in Keys
    PROVE  /\ k \in Cached => cache[k].ver > 0 \/ cache[k].noobj
           /\ Hit(k) => cache[k].ver > 0
<1>1. cache[k] \in EntryType /\ EntryOK(k) /\ Versions \subseteq Nat
  BY Constants DEF Inv, Typed
<1>2. ASSUME cache[k].ver = 0, ~cache[k].noobj
      PROVE  cache[k] = NoEntry
  BY <1>1, <1>2 DEF EntryOK, EntryType, NoEntry
<1>3. cache[k].ver \in Nat
  BY <1>1 DEF EntryType
<1> QED
  BY <1>2, <1>3 DEF Cached, Hit

(* What get_object_attribute leads to.                                     *)
LEMMA ReturnsShape ==
    ASSUME NEW r \in RequestType, r.op \in Kinds, r.pin => r.op = "open",
           NEW a \in Versions, NEW s \in Returns(r, a)
    PROVE  /\ s \in RequestType
           /\ s.failed = r.failed
           /\ \/ /\ s.pc = "done" /\ s.op = "none" /\ ~s.pin
                 /\ s.first = r.first
                 /\ \/ r.op = "getattr" /\ s.ans = a
                    \/ r.op = "open" /\ ~r.pin /\ a = 0 /\ s.ans = 0
              \/ /\ \/ r.op = "close" /\ s.pc = "release" /\ s.pin = r.pin
                    \/ r.op = "open" /\ r.pin /\ s.pc = "fd" /\ s.pin
                    \/ r.op = "open" /\ ~r.pin /\ s.pc = "get" /\ s.pin
                 /\ s.op = r.op /\ s.key = r.key /\ s.start = r.start
                 /\ s.alone = r.alone /\ s.ans = a
                 /\ s.first = IF r.pin \/ ~s.pin THEN r.first ELSE a
<1> DEFINE t == [r EXCEPT !.ans = a, !.ver = 0, !.then = "none"]
<1>1. /\ t \in RequestType /\ t.ans = a /\ t.failed = r.failed
      /\ t.op = r.op /\ t.key = r.key /\ t.start = r.start
      /\ t.alone = r.alone /\ t.pin = r.pin /\ t.first = r.first
  BY Constants DEF RequestType
<1>2. \A b \in Versions : /\ Over(r, b) \in RequestType
                          /\ Over(r, b).failed = r.failed
                          /\ Over(r, b).ans = b /\ Over(r, b).pc = "done"
                          /\ Over(r, b).op = "none" /\ ~Over(r, b).pin
                          /\ Over(r, b).first = r.first
  BY Constants DEF Over, Idle, RequestType
<1>3. CASE r.op = "getattr"
  BY <1>2, <1>3 DEF Returns
<1>4. CASE r.op = "close"
  <2>1. s = [t EXCEPT !.pc = "release"]
    BY <1>4 DEF Returns
  <2> QED
    BY <1>1, <1>4, <2>1 DEF RequestType
<1>5. CASE r.op = "open" /\ r.pin
  <2>1. s = [t EXCEPT !.pc = "fd"]
    BY <1>5 DEF Returns
  <2> QED
    BY <1>1, <1>5, <2>1 DEF RequestType
<1>6. CASE r.op = "open" /\ ~r.pin
  <2>1. \/ s = [t EXCEPT !.pc = "get", !.pin = TRUE, !.first = a]
        \/ s = Over(r, 0) /\ a = 0
    BY <1>6 DEF Returns
  <2>2. CASE s = [t EXCEPT !.pc = "get", !.pin = TRUE, !.first = a]
    BY <1>1, <1>6, <2>2 DEF RequestType
  <2> QED
    BY <1>2, <1>6, <2>1, <2>2, Constants
<1> QED
  BY <1>3, <1>4, <1>5, <1>6 DEF Kinds

(* A request that returns from get_object_attribute is in order again, if  *)
(* what it returns is: absent only if it may be.                           *)
LEMMA ReturnsOK ==
    ASSUME Inv, NEW r \in RequestType, RequestOK(r), r.pc # "done",
           NEW a \in Versions, NEW s \in Returns(r, a),
           r.start > 0 /\ ~r.failed /\ ~opts.noobj => a > 0
    PROVE  s \in RequestType /\ RequestOK(s)
  BY ReturnsShape DEF RequestOK, Fills, Found

(* A step of one thread that leaves the options, the clock and the bucket  *)
(* alone.                                                                  *)
LEMMA StepOK ==
    ASSUME Inv, NEW w \in Workers, NEW s \in RequestType, RequestOK(s),
           req' = [req EXCEPT ![w] = s],
           UNCHANGED <<opts, now, bucket>>,
           cache' \in [Keys -> EntryType], \A k \in Keys : EntryOK(k)',
           begun' \in [Kinds -> Nat]
    PROVE  Inv'
<1>1. Typed'
  BY DEF Inv, Typed
<1>2. \A x \in Workers : RequestOK(req[x])'
  <2> SUFFICES ASSUME NEW x \in Workers
               PROVE  RequestOK(req[x])'
    OBVIOUS
  <2>1. req'[x] = IF x = w THEN s ELSE req[x]
    BY DEF Inv, Typed
  <2>2. RequestOK(req'[x])
    BY <2>1 DEF Inv
  <2> QED
    BY <2>2 DEF RequestOK, Fills, Found
<1> QED
  BY <1>1, <1>2 DEF Inv

(* The same, when the cache does not change.                               *)
LEMMA QuietStepOK ==
    ASSUME Inv, NEW w \in Workers, NEW s \in RequestType, RequestOK(s),
           req' = [req EXCEPT ![w] = s],
           UNCHANGED <<opts, now, bucket, cache>>,
           begun' \in [Kinds -> Nat]
    PROVE  Inv'
  BY StepOK DEF Inv, Typed, EntryOK

(* ... and when an entry is dropped,                                       *)
LEMMA DropOK ==
    ASSUME Inv, NEW k \in Keys, cache' = Without(k), UNCHANGED opts
    PROVE  cache' \in [Keys -> EntryType] /\ \A j \in Keys : EntryOK(j)'
<1>1. \A j \in Keys : cache'[j] = IF j = k THEN NoEntry ELSE cache[j]
  BY DEF Inv, Typed, Without
<1>2. cache' \in [Keys -> EntryType]
  BY Constants DEF Inv, Typed, Without
<1> QED
  BY <1>1, <1>2 DEF Inv, EntryOK, NoEntry

(* ... read, which renews its date,                                        *)
LEMMA RenewOK ==
    ASSUME Inv, NEW k \in Keys, cache[k].ver > 0 \/ cache[k].noobj,
           cache' = [cache EXCEPT ![k].date = now], UNCHANGED opts
    PROVE  cache' \in [Keys -> EntryType] /\ \A j \in Keys : EntryOK(j)'
<1>1. cache[k] \in EntryType /\ now \in 0 .. MaxTime
  BY DEF Inv, Typed
<1>2. [cache[k] EXCEPT !.date = now] \in EntryType
  BY <1>1 DEF EntryType
<1>3. cache' \in [Keys -> EntryType]
  BY <1>2 DEF Inv, Typed
<1>4. \A j \in Keys : EntryOK(j)'
  BY <1>1 DEF Inv, Typed, EntryOK, EntryType
<1> QED
  BY <1>3, <1>4

(* ... or pinned or unpinned, if it is there.                              *)
LEMMA PinOK ==
    ASSUME Inv, NEW k \in Keys, NEW b \in BOOLEAN,
           cache' = [cache EXCEPT ![k].pins = Pins(k, b)], UNCHANGED opts
    PROVE  /\ cache' \in [Keys -> EntryType]
           /\ \A j \in Keys : EntryOK(j)'
           /\ Pins(k, b) \in Nat
           /\ ~b => Pins(k, b) <= cache[k].pins
           /\ Pins(k, b) <= cache[k].pins + 1
           /\ ~b /\ cache[k].pins > 0 => Pins(k, b) = cache[k].pins - 1
<1>1. cache[k] \in EntryType
  BY DEF Inv, Typed
<1>2. cache[k].pins \in Nat
  BY <1>1 DEF EntryType
<1>3. /\ Pins(k, b) \in Nat
      /\ ~b => Pins(k, b) <= cache[k].pins
      /\ Pins(k, b) <= cache[k].pins + 1
      /\ ~b /\ cache[k].pins > 0 => Pins(k, b) = cache[k].pins - 1
  BY <1>2 DEF Pins, NoEntry
<1>4. [cache[k] EXCEPT !.pins = Pins(k, b)] \in EntryType
  BY <1>1, <1>3 DEF EntryType
<1>5. cache' \in [Keys -> EntryType]
  BY <1>4 DEF Inv, Typed
<1>6. EntryOK(k)'
  <2>1. cache'[k] = [cache[k] EXCEPT !.pins = Pins(k, b)]
    BY DEF Inv, Typed
  <2>2. cache[k] = NoEntry => Pins(k, b) = 0
    BY DEF Pins
  <2>3. k \in Cached => cache[k].ver > 0 \/ cache[k].noobj
    BY CachedTells
  <2>4. cache[k].ver \in Nat
    BY <1>1, Constants DEF EntryType
  <2> QED
    BY <1>1, <2>1, <2>2, <2>3, <2>4 DEF Inv, EntryOK, EntryType, Cached, NoEntry
<1>7. \A j \in Keys : EntryOK(j)'
  BY <1>6 DEF Inv, Typed, EntryOK
<1> QED
  BY <1>3, <1>5, <1>7

----------------------------------------------------------------------------
(* Every step keeps Inv.                                                   *)

(* What Inv says of one thread.                                            *)
LEMMA OfThread ==
    ASSUME Inv, NEW w \in Workers
    PROVE  /\ req[w] \in RequestType /\ RequestOK(req[w])
           /\ req[w].key \in Keys /\ req[w].ver \in Versions
           /\ req[w].ans \in Versions /\ req[w].start \in Versions
           /\ bucket[req[w].key] \in Versions
           /\ cache[req[w].key] \in EntryType
           /\ cache[req[w].key].ver \in Versions
           /\ cache[req[w].key].pins \in Nat
           /\ EntryOK(req[w].key)
<1>1. req[w] \in RequestType /\ RequestOK(req[w])
  BY DEF Inv, Typed
<1>2. req[w].key \in Keys
  BY <1>1 DEF RequestType
<1>3. cache[req[w].key] \in EntryType /\ bucket[req[w].key] \in Versions
  BY <1>2 DEF Inv, Typed
<1> QED
  BY <1>1, <1>2, <1>3 DEF RequestType, EntryType, Inv

(* Returning leaves the state in order.                                    *)
LEMMA ReturnStepOK ==
    ASSUME Inv, NEW w \in Workers, NEW a \in Versions, Return(w, a),
           req[w].pc # "done",
           req[w].start > 0 /\ ~req[w].failed /\ ~opts.noobj => a > 0,
           UNCHANGED <<opts, now, bucket, begun>>,
           cache' \in [Keys -> EntryType], \A k \in Keys : EntryOK(k)'
    PROVE  Inv'
<1>1. PICK s \in Returns(req[w], a) : req' = [req EXCEPT ![w] = s]
  BY DEF Return
<1>2. s \in RequestType /\ RequestOK(s)
  BY <1>1, OfThread, ReturnsOK
<1>3. begun' \in [Kinds -> Nat]
  BY DEF Inv, Typed
<1> QED
  BY <1>1, <1>2, <1>3, StepOK

(* Going on, from one section to another, does too.                        *)
LEMMA GoStepOK ==
    ASSUME Inv, NEW w \in Workers, NEW s,
           req' = [req EXCEPT ![w] = s],
           s \in RequestType, RequestOK(s),
           UNCHANGED <<opts, now, bucket, begun>>,
           cache' \in [Keys -> EntryType], \A k \in Keys : EntryOK(k)'
    PROVE  Inv'
  BY StepOK DEF Inv, Typed

LEMMA BeginOK ==
    ASSUME Inv, NEW w \in Workers, NEW op \in Kinds, NEW k \in Keys,
           NEW pc \in {"get", "clear"}, Begin(w, op, k, pc)
    PROVE  Inv'
<1> DEFINE s == [Idle EXCEPT !.op = op, !.pc = pc, !.key = k,
                             !.start = bucket[k],
                             !.alone = \A x \in Workers :
                                         Filling(x) => req[x].key # k]
<1>1. bucket[k] \in Versions /\ Versions \subseteq Nat
  BY Constants DEF Inv, Typed
<1>2. s \in RequestType
  BY <1>1, Constants DEF RequestType, Idle
<1>3. RequestOK(s)
  BY <1>1 DEF RequestOK, Fills, Found, Idle
<1>4. begun' \in [Kinds -> Nat]
  BY DEF Begin, Inv, Typed
<1>5. req' = [req EXCEPT ![w] = s] /\ UNCHANGED <<opts, now, bucket, cache>>
  BY DEF Begin
<1> HIDE DEF s
<1> QED
  BY <1>2, <1>3, <1>4, <1>5, QuietStepOK

LEMMA OperationOK ==
    ASSUME Inv, NEW w \in Workers, Operation(w)
    PROVE  Inv'
<1> DEFINE r == req[w]
           k == r.key
<1>1. CASE Getattr(w) \/ Open(w) \/ Close(w)
  BY <1>1, BeginOK DEF Getattr, Open, Close, Kinds
<1>2. /\ r \in RequestType /\ RequestOK(r) /\ k \in Keys
      /\ r.ans \in Versions
  BY OfThread
<1>3. Over(r, r.ans) \in RequestType /\ RequestOK(Over(r, r.ans))
  BY <1>2, Constants
     DEF Over, Idle, RequestType, RequestOK, Fills, Found
<1>4. CASE Clear(w)
  <2>1. /\ req' = [req EXCEPT ![w] = [r EXCEPT !.pc = "get"]]
        /\ UNCHANGED <<opts, now, bucket, begun>>
        /\ cache' = Without(k) /\ r.pc = "clear"
    BY <1>2, <1>4 DEF Clear, Goto, Inv, Typed
  <2>2. /\ [r EXCEPT !.pc = "get"] \in RequestType
        /\ RequestOK([r EXCEPT !.pc = "get"])
    BY <1>2, <2>1 DEF RequestType, RequestOK, Fills, Found
  <2>3. cache' \in [Keys -> EntryType] /\ \A j \in Keys : EntryOK(j)'
    BY <1>2, <2>1, DropOK
  <2> QED
    BY <2>1, <2>2, <2>3, GoStepOK
<1>5. CASE OpenFd(w)
  <2>1. /\ req' = [req EXCEPT ![w] = Over(r, r.ans)]
        /\ UNCHANGED <<opts, now, bucket, cache, begun>>
    BY <1>5 DEF OpenFd
  <2> QED
    BY <1>3, <2>1, QuietStepOK DEF Inv, Typed
<1>6. CASE OpenFdFail(w)
  <2>1. /\ req' = [req EXCEPT ![w] = [r EXCEPT !.pc = "undo"]]
        /\ UNCHANGED <<opts, now, bucket, cache, begun>>
        /\ r.pc = "fd"
    BY <1>6 DEF OpenFdFail, Goto, Inv, Typed
  <2>2. /\ [r EXCEPT !.pc = "undo"] \in RequestType
        /\ RequestOK([r EXCEPT !.pc = "undo"])
    BY <1>2, <2>1 DEF RequestType, RequestOK, Fills, Found
  <2> QED
    BY <2>1, <2>2, QuietStepOK DEF Inv, Typed
<1>7. CASE Undo(w)
  <2>1. /\ req' = [req EXCEPT ![w] = Over(r, r.ans)]
        /\ UNCHANGED <<opts, now, bucket, begun>>
        /\ cache' = Without(k)
    BY <1>7 DEF Undo
  <2>2. cache' \in [Keys -> EntryType] /\ \A j \in Keys : EntryOK(j)'
    BY <1>2, <2>1, DropOK
  <2> QED
    BY <1>3, <2>1, <2>2, GoStepOK
<1>8. CASE Release(w)
  <2>1. /\ req' = [req EXCEPT ![w] = Over(r, r.ans)]
        /\ UNCHANGED <<opts, now, bucket, begun>>
        /\ cache' = [cache EXCEPT ![k].pins = Pins(k, FALSE)]
    BY <1>8 DEF Release
  <2>2. cache' \in [Keys -> EntryType] /\ \A j \in Keys : EntryOK(j)'
    BY <1>2, <2>1, PinOK
  <2> QED
    BY <1>3, <2>1, <2>2, GoStepOK
<1> QED
  BY <1>1, <1>4, <1>5, <1>6, <1>7, <1>8 DEF Operation

(* A request that goes on to another section of get_object_attribute.      *)
Moved(r, pc, ver, then) ==
    [r EXCEPT !.pc = pc, !.ver = ver, !.then = then]

LEMMA MoveOK ==
    ASSUME Inv, NEW r \in RequestType, RequestOK(r), r.pc # "done",
           NEW pc \in {"change", "noobj", "head", "look", "evict", "add",
                       "reget", "drop"},
           NEW ver \in Versions,
           NEW then \in {"none", "noobj", "head", "add", "return"},
           pc = "drop" => then # "none",
           pc \in {"look", "evict", "add"} \/ (pc = "drop" /\ then = "add")
             => ver > 0 \/ opts.noobj,
           pc \in {"change", "reget"} \/ (pc = "drop" /\ then = "return")
             => ver > 0,
           pc = "noobj" \/ (pc = "drop" /\ then = "noobj") => opts.noobj
    PROVE  /\ Moved(r, pc, ver, then) \in RequestType
           /\ RequestOK(Moved(r, pc, ver, then))
<1> DEFINE s == Moved(r, pc, ver, then)
<1>1. /\ s.op = r.op /\ s.key = r.key /\ s.pin = r.pin /\ s.ans = r.ans
      /\ s.start = r.start /\ s.alone = r.alone /\ s.failed = r.failed
      /\ s.pc = pc /\ s.ver = ver /\ s.then = then
  BY DEF Moved, RequestType
<1>2. s \in RequestType
  BY DEF Moved, RequestType
<1> HIDE DEF s
<1>3. RequestOK(s)
  <2>1. ver \in Nat
    BY Constants
  <2>2. Fills(s) /\ s.ver = 0 => opts.noobj
    BY <1>1, <2>1 DEF Fills
  <2>3. Found(s) => s.ver > 0
    BY <1>1 DEF Found
  <2> QED
    BY <1>1, <2>2, <2>3 DEF RequestOK
<1> QED
  BY <1>2, <1>3 DEF s

(* The ways a section has to say so.                                       *)
LEMMA GotoIsMove ==
    ASSUME Inv, NEW w \in Workers
    PROVE  /\ \A pc : Goto(w, pc) =>
                req' = [req EXCEPT ![w] =
                          Moved(req[w], pc, req[w].ver, req[w].then)]
           /\ \A then : DropThen(w, then) =>
                req' = [req EXCEPT ![w] =
                          Moved(req[w], "drop", req[w].ver, then)]
<1>1. req[w] \in RequestType
  BY OfThread
<1>2. \A pc : [req[w] EXCEPT !.pc = pc]
                = Moved(req[w], pc, req[w].ver, req[w].then)
  BY <1>1 DEF Moved, RequestType
<1>3. \A then : [req[w] EXCEPT !.pc = "drop", !.then = then]
                = Moved(req[w], "drop", req[w].ver, then)
  BY <1>1 DEF Moved, RequestType
<1>4. \A pc : Goto(w, pc) =>
                req' = [req EXCEPT ![w] = [req[w] EXCEPT !.pc = pc]]
  BY DEF Goto, Inv, Typed
<1>5. \A then : DropThen(w, then) =>
                req' = [req EXCEPT ![w] =
                          [req[w] EXCEPT !.pc = "drop", !.then = then]]
  BY DEF DropThen, Inv, Typed
<1> QED
  BY <1>2, <1>3, <1>4, <1>5

(* A step that only moves one request on.                                  *)
LEMMA MoveStepOK ==
    ASSUME Inv, NEW w \in Workers, NEW pc, NEW ver, NEW then,
           req' = [req EXCEPT ![w] = Moved(req[w], pc, ver, then)],
           req[w].pc # "done",
           pc \in {"change", "noobj", "head", "look", "evict", "add",
                   "reget", "drop"},
           ver \in Versions,
           then \in {"none", "noobj", "head", "add", "return"},
           pc = "drop" => then # "none",
           pc \in {"look", "evict", "add"} \/ (pc = "drop" /\ then = "add")
             => ver > 0 \/ opts.noobj,
           pc \in {"change", "reget"} \/ (pc = "drop" /\ then = "return")
             => ver > 0,
           pc = "noobj" \/ (pc = "drop" /\ then = "noobj") => opts.noobj,
           UNCHANGED <<opts, now, bucket, begun>>,
           cache' \in [Keys -> EntryType], \A k \in Keys : EntryOK(k)'
    PROVE  Inv'
<1>1. /\ Moved(req[w], pc, ver, then) \in RequestType
      /\ RequestOK(Moved(req[w], pc, ver, then))
  BY OfThread, MoveOK
<1> QED
  BY <1>1, GoStepOK

LEMMA CacheKept ==
    ASSUME Inv, UNCHANGED <<opts, cache>>
    PROVE  cache' \in [Keys -> EntryType] /\ \A k \in Keys : EntryOK(k)'
  BY DEF Inv, Typed, EntryOK

LEMMA ThreadFields ==
    ASSUME Inv, NEW w \in Workers
    PROVE  /\ req[w].then \in {"none", "noobj", "head", "add", "return"}
           /\ req[w].ver \in Nat /\ req[w].start \in Nat
           /\ opts.noobj \in BOOLEAN
  BY OfThread, Constants, CacheAssumption
     DEF RequestType, CacheAssumption, OptionType, Inv, Typed

LEMMA GetStatOK ==
    ASSUME Inv, NEW w \in Workers, GetStat(w)
    PROVE  Inv'
<1> DEFINE r == req[w]
           k == r.key
<1>1. /\ r.pc = "get" /\ UNCHANGED <<opts, now, bucket, begun>>
      /\ k \in Keys /\ r.ver \in Versions /\ cache[k].ver \in Versions
      /\ r.then \in {"none", "noobj", "head", "add", "return"}
  BY OfThread, ThreadFields DEF GetStat
<1>2. ASSUME Hit(k), cache' = [cache EXCEPT ![k].date = now],
             req' = [req EXCEPT ![w].pc = "change", ![w].ver = cache[k].ver]
      PROVE  Inv'
  <2>1. cache[k].ver > 0
    BY <1>1, <1>2, CachedTells
  <2>2. cache' \in [Keys -> EntryType] /\ \A j \in Keys : EntryOK(j)'
    BY <1>1, <1>2, <2>1, RenewOK
  <2>3. req' = [req EXCEPT ![w] = Moved(r, "change", cache[k].ver, r.then)]
    <3>1. r \in RequestType
      BY OfThread
    <3>2. req' = [req EXCEPT ![w] = [r EXCEPT !.pc = "change",
                                              !.ver = cache[k].ver]]
      BY <1>2 DEF Inv, Typed
    <3>3. [r EXCEPT !.pc = "change", !.ver = cache[k].ver]
            = Moved(r, "change", cache[k].ver, r.then)
      BY <3>1 DEF Moved, RequestType
    <3> QED
      BY <3>2, <3>3
  <2> DEFINE v == cache[k].ver
  <2>4. v \in Versions /\ v > 0 /\ r.pc # "done"
    BY <1>1, <2>1
  <2>5. req' = [req EXCEPT ![w] = Moved(req[w], "change", v, r.then)]
    BY <2>3
  <2>6. /\ Moved(req[w], "change", v, r.then) \in RequestType
        /\ RequestOK(Moved(req[w], "change", v, r.then))
    <3> HIDE DEF v
    <3> QED
      BY <1>1, <2>4, OfThread, MoveOK
  <2> QED
    BY <1>1, <2>2, <2>5, <2>6, GoStepOK
<1>3. ASSUME DropThen(w, AfterMiss), UNCHANGED cache
      PROVE  Inv'
  <2>1. cache' \in [Keys -> EntryType] /\ \A j \in Keys : EntryOK(j)'
    BY <1>1, <1>3, CacheKept
  <2>2. req' = [req EXCEPT ![w] = Moved(r, "drop", r.ver, AfterMiss)]
    BY <1>3, GotoIsMove
  <2>3. AfterMiss \in {"noobj", "head"} /\ (AfterMiss = "noobj" => opts.noobj)
    BY DEF AfterMiss
  <2> QED
    BY <1>1, <2>1, <2>2, <2>3, MoveStepOK
<1>4. ASSUME Goto(w, AfterMiss), UNCHANGED cache
      PROVE  Inv'
  <2>1. cache' \in [Keys -> EntryType] /\ \A j \in Keys : EntryOK(j)'
    BY <1>1, <1>4, CacheKept
  <2>2. req' = [req EXCEPT ![w] = Moved(r, AfterMiss, r.ver, r.then)]
    BY <1>4, GotoIsMove
  <2>3. AfterMiss \in {"noobj", "head"} /\ (AfterMiss = "noobj" => opts.noobj)
    BY DEF AfterMiss
  <2> QED
    BY <1>1, <2>1, <2>2, <2>3, MoveStepOK
<1> QED
  BY <1>2, <1>3, <1>4 DEF GetStat

LEMMA ChangeOK ==
    ASSUME Inv, NEW w \in Workers, Change(w)
    PROVE  Inv'
<1> DEFINE r == req[w]
           k == r.key
<1>1. /\ r.pc = "change" /\ UNCHANGED <<opts, now, bucket, begun>>
      /\ cache' = [cache EXCEPT ![k].pins = Pins(k, r.pin)]
      /\ Return(w, r.ver)
  BY DEF Change
<1>2. r \in RequestType /\ RequestOK(r) /\ k \in Keys /\ r.ver \in Versions
  BY OfThread
<1>3. r.pin \in BOOLEAN
  BY <1>2 DEF RequestType
<1>4. cache' \in [Keys -> EntryType] /\ \A j \in Keys : EntryOK(j)'
  BY <1>1, <1>2, <1>3, PinOK
<1>5. r.ver > 0 /\ r.pc # "done"
  BY <1>1, <1>2 DEF RequestOK, Found
<1> QED
  BY <1>1, <1>2, <1>4, <1>5, ReturnStepOK

LEMMA IsNoObjectCacheOK ==
    ASSUME Inv, NEW w \in Workers, IsNoObjectCache(w)
    PROVE  Inv'
<1> DEFINE r == req[w]
           k == r.key
<1>1. r.pc = "noobj" /\ UNCHANGED <<opts, now, bucket, begun>>
  BY DEF IsNoObjectCache
<1>2. /\ r \in RequestType /\ RequestOK(r) /\ k \in Keys /\ r.ver \in Versions
      /\ r.then \in {"none", "noobj", "head", "add", "return"}
  BY OfThread, ThreadFields
<1>3. opts.noobj
  BY <1>1, <1>2 DEF RequestOK
<1>4. ASSUME cache[k].noobj, cache' = [cache EXCEPT ![k].date = now],
             Return(w, 0)
      PROVE  Inv'
  <2>1. cache' \in [Keys -> EntryType] /\ \A j \in Keys : EntryOK(j)'
    BY <1>1, <1>2, <1>4, RenewOK
  <2> QED
    BY <1>1, <1>3, <1>4, <2>1, Constants, ReturnStepOK
<1>5. ASSUME DropThen(w, "head"), UNCHANGED cache
      PROVE  Inv'
  <2>1. cache' \in [Keys -> EntryType] /\ \A j \in Keys : EntryOK(j)'
    BY <1>1, <1>5, CacheKept
  <2>2. req' = [req EXCEPT ![w] = Moved(r, "drop", r.ver, "head")]
    BY <1>5, GotoIsMove
  <2>3. /\ Moved(r, "drop", r.ver, "head") \in RequestType
        /\ RequestOK(Moved(r, "drop", r.ver, "head"))
    BY <1>1, <1>2, MoveOK
  <2> QED
    BY <1>1, <2>1, <2>2, <2>3, GoStepOK
<1>6. ASSUME Goto(w, "head"), UNCHANGED cache
      PROVE  Inv'
  <2>1. cache' \in [Keys -> EntryType] /\ \A j \in Keys : EntryOK(j)'
    BY <1>1, <1>6, CacheKept
  <2>2. req' = [req EXCEPT ![w] = Moved(r, "head", r.ver, r.then)]
    BY <1>6, GotoIsMove
  <2>3. /\ Moved(r, "head", r.ver, r.then) \in RequestType
        /\ RequestOK(Moved(r, "head", r.ver, r.then))
    BY <1>1, <1>2, MoveOK
  <2> QED
    BY <1>1, <2>1, <2>2, <2>3, GoStepOK
<1> QED
  BY <1>4, <1>5, <1>6 DEF IsNoObjectCache

LEMMA HeadRequestOK ==
    ASSUME Inv, NEW w \in Workers, HeadRequest(w)
    PROVE  Inv'
<1> DEFINE r == req[w]
           v == bucket[r.key]
<1>1. r.pc = "head" /\ UNCHANGED <<opts, now, bucket, cache, begun>>
  BY DEF HeadRequest
<1>2. /\ r \in RequestType /\ RequestOK(r) /\ v \in Versions
      /\ r.then \in {"none", "noobj", "head", "add", "return"}
      /\ v \in Nat /\ r.start \in Nat
  BY OfThread, ThreadFields, Constants
<1>3. cache' \in [Keys -> EntryType] /\ \A j \in Keys : EntryOK(j)'
  BY <1>1, CacheKept
<1>4. CASE v = 0 /\ ~opts.noobj
  <2>1. Return(w, 0)
    BY <1>4 DEF HeadRequest, Asked, Return
  <2>2. ~(r.start > 0)
    BY <1>1, <1>2, <1>4 DEF RequestOK
  <2> QED
    BY <1>1, <1>3, <2>1, <2>2, Constants, ReturnStepOK
<1>5. CASE ~(v = 0 /\ ~opts.noobj)
  <2>1. req' = [req EXCEPT ![w] = [r EXCEPT !.pc = "look", !.ver = v]]
    BY <1>5 DEF HeadRequest, Asked, Inv, Typed
  <2>2. [r EXCEPT !.pc = "look", !.ver = v] = Moved(r, "look", v, r.then)
    BY <1>2 DEF Moved, RequestType
  <2>3. v > 0 \/ opts.noobj
    BY <1>2, <1>5
  <2>4. Moved(r, "look", v, r.then) \in RequestType
        /\ RequestOK(Moved(r, "look", v, r.then))
    <3> HIDE DEF v
    <3> QED
      BY <1>1, <1>2, <2>3, MoveOK
  <2> QED
    BY <1>1, <1>3, <2>1, <2>2, <2>4, GoStepOK
<1> QED
  BY <1>4, <1>5

(* The requests after the HEAD of a key has failed.                        *)
Failed(k) == [x \in Workers |->
                [req[x] EXCEPT !.failed = @ \/ req[x].key = k]]

LEMMA FailedOK ==
    ASSUME Inv, NEW k \in Keys, NEW x \in Workers
    PROVE  LET s == Failed(k)[x] IN
           /\ s \in RequestType /\ RequestOK(s)
           /\ s.op = req[x].op /\ s.pc = req[x].pc /\ s.key = req[x].key
           /\ s.pin = req[x].pin /\ s.ver = req[x].ver
           /\ s.then = req[x].then /\ s.ans = req[x].ans
           /\ s.start = req[x].start /\ s.alone = req[x].alone
           /\ s.first = req[x].first
           /\ s.failed <=> req[x].failed \/ req[x].key = k
<1> DEFINE s == [req[x] EXCEPT !.failed = @ \/ req[x].key = k]
<1>1. req[x] \in RequestType /\ RequestOK(req[x])
  BY OfThread
<1>2. /\ s \in RequestType
      /\ s.op = req[x].op /\ s.pc = req[x].pc /\ s.key = req[x].key
      /\ s.pin = req[x].pin /\ s.ver = req[x].ver
      /\ s.then = req[x].then /\ s.ans = req[x].ans
      /\ s.start = req[x].start /\ s.alone = req[x].alone
      /\ s.first = req[x].first
      /\ s.failed <=> req[x].failed \/ req[x].key = k
  BY <1>1 DEF RequestType
<1> HIDE DEF s
<1>3. RequestOK(s)
  BY <1>1, <1>2 DEF RequestOK, Fills, Found
<1> QED
  BY <1>2, <1>3 DEF s, Failed

LEMMA HeadFailOK ==
    ASSUME Inv, NEW w \in Workers, HeadFail(w)
    PROVE  Inv'
<1> DEFINE k == req[w].key
           r == Failed(k)[w]
<1>1. /\ req[w].pc = "head" /\ UNCHANGED <<opts, now, bucket, cache, begun>>
      /\ Asked(w, Failed(k), 0)
  BY DEF HeadFail, Failed
<1>2. k \in Keys /\ cache' \in [Keys -> EntryType]
      /\ \A j \in Keys : EntryOK(j)'
  BY <1>1, OfThread, CacheKept
<1>3. /\ r \in RequestType /\ RequestOK(r) /\ r.pc = "head" /\ r.failed
      /\ r.then \in {"none", "noobj", "head", "add", "return"}
  BY <1>1, <1>2, FailedOK, ThreadFields
<1>4. PICK s : /\ req' = [Failed(k) EXCEPT ![w] = s]
               /\ s \in RequestType /\ RequestOK(s)
  <2>1. CASE ~opts.noobj
    <3>1. PICK s \in Returns(r, 0) : req' = [Failed(k) EXCEPT ![w] = s]
      BY <1>1, <2>1 DEF Asked
    <3>2. s \in RequestType /\ RequestOK(s)
      BY <1>3, <3>1, Constants, ReturnsOK
    <3> QED
      BY <3>1, <3>2
  <2>2. CASE opts.noobj
    <3>1. req' = [Failed(k) EXCEPT ![w] = [r EXCEPT !.pc = "look", !.ver = 0]]
      BY <1>1, <2>2 DEF Asked, Failed
    <3>2. [r EXCEPT !.pc = "look", !.ver = 0] = Moved(r, "look", 0, r.then)
      <4> HIDE DEF r
      <4> QED
        BY <1>3 DEF Moved, RequestType
    <3>3. /\ Moved(r, "look", 0, r.then) \in RequestType
          /\ RequestOK(Moved(r, "look", 0, r.then))
      <4> HIDE DEF r
      <4> QED
        BY <1>3, <2>2, Constants, MoveOK
    <3> QED
      BY <3>1, <3>2, <3>3
  <2> QED
    BY <2>1, <2>2
<1>5. \A x \in Workers : req'[x] = IF x = w THEN s ELSE Failed(k)[x]
  BY <1>4 DEF Failed
<1>6. \A x \in Workers : req'[x] \in RequestType /\ RequestOK(req'[x])
  BY <1>2, <1>4, <1>5, FailedOK
<1>7. req' \in [Workers -> RequestType]
  BY <1>4, <1>6 DEF Failed
<1>8. \A x \in Workers : RequestOK(req[x])'
  BY <1>1, <1>6 DEF RequestOK, Fills, Found
<1> QED
  BY <1>1, <1>2, <1>7, <1>8 DEF Inv, Typed

LEMMA LookOK ==
    ASSUME Inv, NEW w \in Workers, Look(w)
    PROVE  Inv'
<1> DEFINE r == req[w]
<1>1. r.pc = "look" /\ UNCHANGED <<opts, now, bucket, cache, begun>>
  BY DEF Look
<1>2. /\ r \in RequestType /\ RequestOK(r) /\ r.ver \in Versions
      /\ r.then \in {"none", "noobj", "head", "add", "return"}
      /\ r.ver \in Nat
  BY OfThread, ThreadFields
<1>3. cache' \in [Keys -> EntryType] /\ \A j \in Keys : EntryOK(j)'
  BY <1>1, CacheKept
<1>4. r.ver > 0 \/ opts.noobj
  BY <1>1, <1>2 DEF RequestOK, Fills
<1>5. CASE DropThen(w, "add")
  <2>1. req' = [req EXCEPT ![w] = Moved(r, "drop", r.ver, "add")]
    BY <1>5, GotoIsMove
  <2>2. /\ Moved(r, "drop", r.ver, "add") \in RequestType
        /\ RequestOK(Moved(r, "drop", r.ver, "add"))
    BY <1>1, <1>2, <1>4, MoveOK
  <2> QED
    BY <1>1, <1>3, <2>1, <2>2, GoStepOK
<1>6. ASSUME NEW pc \in {"evict", "add"}, Goto(w, pc)
      PROVE  Inv'
  <2>1. req' = [req EXCEPT ![w] = Moved(r, pc, r.ver, r.then)]
    BY <1>6, GotoIsMove
  <2>2. /\ Moved(r, pc, r.ver, r.then) \in RequestType
        /\ RequestOK(Moved(r, pc, r.ver, r.then))
    BY <1>1, <1>2, <1>4, MoveOK
  <2> QED
    BY <1>1, <1>3, <2>1, <2>2, GoStepOK
<1> QED
  BY <1>5, <1>6 DEF Look

LEMMA TruncateCacheOK ==
    ASSUME Inv, NEW w \in Workers, TruncateCache(w)
    PROVE  Inv'
<1> DEFINE r == req[w]
<1>1. /\ r.pc = "evict" /\ UNCHANGED <<opts, now, bucket, begun>>
      /\ Goto(w, "add")
  BY DEF TruncateCache
<1>2. /\ r \in RequestType /\ RequestOK(r) /\ r.ver \in Versions
      /\ r.then \in {"none", "noobj", "head", "add", "return"}
      /\ r.ver \in Nat
  BY OfThread, ThreadFields
<1>3. PICK out : cache' = [k \in Keys |-> IF k \in out THEN NoEntry
                                          ELSE cache[k]]
  BY DEF TruncateCache
<1>4. cache' \in [Keys -> EntryType]
  BY <1>3, Constants DEF Inv, Typed
<1>5. \A j \in Keys : EntryOK(j)'
  BY <1>1, <1>3 DEF Inv, EntryOK, NoEntry
<1>6. r.ver > 0 \/ opts.noobj
  BY <1>1, <1>2 DEF RequestOK, Fills
<1>7. req' = [req EXCEPT ![w] = Moved(r, "add", r.ver, r.then)]
  BY <1>1, GotoIsMove
<1>8. /\ Moved(r, "add", r.ver, r.then) \in RequestType
      /\ RequestOK(Moved(r, "add", r.ver, r.then))
  BY <1>1, <1>2, <1>6, MoveOK
<1> QED
  BY <1>1, <1>4, <1>5, <1>7, <1>8, GoStepOK

LEMMA AddOK ==
    ASSUME Inv, NEW w \in Workers, Add(w)
    PROVE  Inv'
<1> DEFINE r == req[w]
           k == r.key
           v == r.ver
           e == Entry(v, r.pin /\ v # 0)
<1>1. /\ r.pc = "add" /\ UNCHANGED <<opts, now, bucket, begun>>
      /\ cache' = [cache EXCEPT ![k] = e]
  BY DEF Add
<1>2. /\ r \in RequestType /\ RequestOK(r) /\ r.ver \in Versions
      /\ r.then \in {"none", "noobj", "head", "add", "return"}
      /\ r.ver \in Nat /\ k \in Keys
  BY OfThread, ThreadFields
<1>3. v > 0 \/ opts.noobj
  BY <1>1, <1>2 DEF RequestOK, Fills
<1>4. /\ e \in EntryType /\ e.ver = v /\ (e.noobj <=> v = 0)
  BY <1>2 DEF Entry, EntryType, Inv, Typed
<1>5. cache' \in [Keys -> EntryType]
  BY <1>1, <1>4 DEF Inv, Typed
<1>6. \A j \in Keys : EntryOK(j)'
  <2>1. \A j \in Keys : cache'[j] = IF j = k THEN e ELSE cache[j]
    BY <1>1 DEF Inv, Typed
  <2> HIDE DEF e
  <2>2. /\ e.noobj => opts.noobj /\ e.ver = 0
        /\ ~(~e.noobj /\ e.ver = 0)
    BY <1>3, <1>4
  <2>3. ASSUME NEW j \in Keys
        PROVE  EntryOK(j)'
    <3>1. CASE j = k
      BY <1>1, <2>1, <2>2, <3>1 DEF EntryOK
    <3>2. CASE j # k
      BY <1>1, <2>1, <3>2 DEF EntryOK, Inv
    <3> QED
      BY <3>1, <3>2
  <2> QED
    BY <2>3
<1>7. CASE v = 0
  <2>1. Return(w, 0)
    BY <1>7 DEF Add
  <2> QED
    BY <1>1, <1>3, <1>5, <1>6, <1>7, <2>1, Constants, ReturnStepOK
<1>8. CASE v # 0
  <2>1. req' = [req EXCEPT ![w] = Moved(r, "reget", r.ver, r.then)]
    BY <1>8, GotoIsMove DEF Add
  <2>2. /\ Moved(r, "reget", r.ver, r.then) \in RequestType
        /\ RequestOK(Moved(r, "reget", r.ver, r.then))
    BY <1>1, <1>2, <1>8, MoveOK
  <2> QED
    BY <1>1, <1>5, <1>6, <2>1, <2>2, GoStepOK
<1> QED
  BY <1>7, <1>8

LEMMA GetAddedOK ==
    ASSUME Inv, NEW w \in Workers, GetAdded(w)
    PROVE  Inv'
<1> DEFINE r == req[w]
           k == r.key
<1>1. r.pc = "reget" /\ UNCHANGED <<opts, now, bucket, begun>>
  BY DEF GetAdded
<1>2. /\ r \in RequestType /\ RequestOK(r) /\ r.ver \in Versions
      /\ r.then \in {"none", "noobj", "head", "add", "return"}
      /\ k \in Keys /\ cache[k].ver \in Versions
  BY OfThread, ThreadFields
<1>3. r.ver > 0
  BY <1>1, <1>2 DEF RequestOK, Found
<1>4. ASSUME Hit(k), cache' = [cache EXCEPT ![k].date = now],
             Return(w, cache[k].ver)
      PROVE  Inv'
  <2>1. cache[k].ver > 0
    BY <1>2, <1>4, CachedTells
  <2>2. cache' \in [Keys -> EntryType] /\ \A j \in Keys : EntryOK(j)'
    BY <1>1, <1>2, <1>4, <2>1, RenewOK
  <2> QED
    BY <1>1, <1>2, <1>4, <2>1, <2>2, ReturnStepOK
<1>5. ASSUME DropThen(w, "return"), UNCHANGED cache
      PROVE  Inv'
  <2>1. cache' \in [Keys -> EntryType] /\ \A j \in Keys : EntryOK(j)'
    BY <1>1, <1>5, CacheKept
  <2>2. req' = [req EXCEPT ![w] = Moved(r, "drop", r.ver, "return")]
    BY <1>5, GotoIsMove
  <2>3. /\ Moved(r, "drop", r.ver, "return") \in RequestType
        /\ RequestOK(Moved(r, "drop", r.ver, "return"))
    BY <1>1, <1>2, <1>3, MoveOK
  <2> QED
    BY <1>1, <2>1, <2>2, <2>3, GoStepOK
<1>6. ASSUME Return(w, r.ver), UNCHANGED cache
      PROVE  Inv'
  <2>1. cache' \in [Keys -> EntryType] /\ \A j \in Keys : EntryOK(j)'
    BY <1>1, <1>6, CacheKept
  <2> QED
    BY <1>1, <1>2, <1>3, <1>6, <2>1, ReturnStepOK
<1> QED
  BY <1>4, <1>5, <1>6 DEF GetAdded

LEMMA DropStepOK ==
    ASSUME Inv, NEW w \in Workers, Drop(w)
    PROVE  Inv'
<1> DEFINE r == req[w]
<1>1. /\ r.pc = "drop" /\ UNCHANGED <<opts, now, bucket, begun>>
      /\ cache' = Without(r.key)
  BY DEF Drop
<1>2. /\ r \in RequestType /\ RequestOK(r) /\ r.ver \in Versions
      /\ r.then \in {"none", "noobj", "head", "add", "return"}
      /\ r.key \in Keys /\ r.ver \in Nat
  BY OfThread, ThreadFields
<1>3. cache' \in [Keys -> EntryType] /\ \A j \in Keys : EntryOK(j)'
  BY <1>1, <1>2, DropOK
<1>4. CASE r.then = "return"
  <2>1. Return(w, r.ver)
    BY <1>4 DEF Drop
  <2>2. r.ver > 0
    BY <1>1, <1>2, <1>4 DEF RequestOK, Found
  <2> QED
    BY <1>1, <1>2, <1>3, <2>1, <2>2, ReturnStepOK
<1>5. CASE r.then # "return"
  <2>1. req' = [req EXCEPT ![w] = Moved(r, r.then, r.ver, "none")]
    <3>1. req' = [req EXCEPT ![w] = [r EXCEPT !.pc = r.then, !.then = "none"]]
      BY <1>5 DEF Drop, Inv, Typed
    <3>2. [r EXCEPT !.pc = r.then, !.then = "none"]
            = Moved(r, r.then, r.ver, "none")
      BY <1>2 DEF Moved, RequestType
    <3> QED
      BY <3>1, <3>2
  <2>2. /\ r.then \in {"noobj", "head", "add"}
        /\ r.then = "add" => r.ver > 0 \/ opts.noobj
        /\ r.then = "noobj" => opts.noobj
    BY <1>1, <1>2, <1>5 DEF RequestOK, Fills
  <2>3. /\ Moved(r, r.then, r.ver, "none") \in RequestType
        /\ RequestOK(Moved(r, r.then, r.ver, "none"))
    BY <1>1, <1>2, <2>2, MoveOK
  <2> QED
    BY <1>1, <1>3, <2>1, <2>3, GoStepOK
<1> QED
  BY <1>4, <1>5

LEMMA WorldOK ==
    ASSUME Inv, (\E k \in Keys : Put(k)) \/ Tick
    PROVE  Inv'
<1>1. ASSUME NEW k \in Keys, Put(k)
      PROVE  Inv'
  <2>1. /\ UNCHANGED <<opts, now, cache, req, begun>>
        /\ bucket[k] \in Versions /\ bucket[k] < MaxVersion
        /\ bucket' = [bucket EXCEPT ![k] = @ + 1]
    BY <1>1 DEF Put, Inv, Typed
  <2>2. bucket' \in [Keys -> Versions]
    BY <2>1, CacheAssumption DEF Inv, Typed, Versions, CacheAssumption
  <2>3. \A j \in Keys : /\ bucket'[j] >= bucket[j]
                        /\ bucket[j] \in Nat /\ bucket'[j] \in Nat
    <3>1. \A j \in Keys : bucket[j] \in Nat /\ bucket'[j] \in Nat
      BY <2>2, Constants DEF Inv, Typed
    <3>2. \A j \in Keys :
            bucket'[j] = IF j = k THEN bucket[j] + 1 ELSE bucket[j]
      BY <2>1 DEF Inv, Typed
    <3> QED
      BY <3>1, <3>2
  <2>4. \A x \in Workers : RequestOK(req[x])'
    <3> SUFFICES ASSUME NEW x \in Workers
                 PROVE  RequestOK(req[x])'
      OBVIOUS
    <3>1. RequestOK(req[x]) /\ req[x].key \in Keys /\ req[x].start \in Nat
      BY OfThread, ThreadFields
    <3>2. bucket[req[x].key] >= req[x].start
            => bucket'[req[x].key] >= req[x].start
      BY <2>3, <3>1
    <3> QED
      BY <2>1, <3>1, <3>2 DEF RequestOK, Fills, Found
  <2>5. \A j \in Keys : EntryOK(j)'
    BY <2>1 DEF Inv, EntryOK
  <2> QED
    BY <2>1, <2>2, <2>4, <2>5 DEF Inv, Typed
<1>2. CASE Tick
  <2>1. UNCHANGED <<opts, bucket, cache, req, begun>> /\ now' \in 0 .. MaxTime
    BY <1>2, CacheAssumption DEF Tick, Inv, Typed, CacheAssumption
  <2>2. /\ \A x \in Workers : RequestOK(req[x])'
        /\ \A j \in Keys : EntryOK(j)'
    BY <2>1 DEF Inv, RequestOK, Fills, Found, EntryOK
  <2> QED
    BY <2>1, <2>2 DEF Inv, Typed
<1> QED
  BY <1>1, <1>2

LEMMA InvInductive == Inv /\ [Next]_vars => Inv'
<1> SUFFICES ASSUME Inv, [Next]_vars
             PROVE  Inv'
  OBVIOUS
<1>1. ASSUME NEW w \in Workers, Operation(w)
      PROVE  Inv'
  BY <1>1, OperationOK
<1>2. ASSUME NEW w \in Workers, GetObjectAttribute(w)
      PROVE  Inv'
  BY <1>2, GetStatOK, ChangeOK, IsNoObjectCacheOK, HeadRequestOK, HeadFailOK,
     LookOK, TruncateCacheOK, AddOK, GetAddedOK, DropStepOK
     DEF GetObjectAttribute
<1>3. CASE (\E k \in Keys : Put(k)) \/ Tick
  BY <1>3, WorldOK
<1>4. CASE UNCHANGED vars
  BY <1>4 DEF vars, Inv, Typed, RequestOK, Fills, Found, EntryOK
<1> QED
  BY <1>1, <1>2, <1>3, <1>4 DEF Next

LEMMA InvInit == Init => Inv
<1> SUFFICES ASSUME Init
             PROVE  Inv
  OBVIOUS
<1>1. Typed
  BY Constants, CacheAssumption
     DEF Init, Typed, CacheAssumption, Keys, Versions
<1>2. \A w \in Workers : RequestOK(req[w])
  BY DEF Init, Idle, RequestOK, Fills, Found
<1>3. \A k \in Keys : EntryOK(k)
  BY DEF Init, NoEntry, EntryOK
<1> QED
  BY <1>1, <1>2, <1>3 DEF Inv

LEMMA Invariant == Spec => []Inv
  BY InvInit, InvInductive, PTL DEF Spec

----------------------------------------------------------------------------
(* Pins.                                                                   *)

IsClosing(r, k) == r.op = "close" /\ r.key = k /\ r.pc # "done"

(* An open that has pinned the entry of k, and has no file handle yet.     *)
IsPinned(r, k) ==
    /\ r.op = "open" /\ r.key = k /\ r.pin
    /\ \/ r.pc \in {"reget", "fd", "undo"}
       \/ r.pc = "drop" /\ r.then = "return"

Pinned(k) == {w \in Workers : IsPinned(req[w], k)}

(* A close in progress has its handle still; a pin is of a handle or of an *)
(* open in progress.                                                       *)
PinInv ==
    /\ handles \in [Keys -> Nat]
    /\ \A k \in Keys :
          /\ handles[k] >= Cardinality(Closing(k))
          /\ cache[k].pins <= handles[k] + Cardinality(Pinned(k))

(* Counting a set of threads that w may enter or leave.                    *)
LEMMA CountStep ==
    ASSUME NEW S \in SUBSET Workers, NEW T \in SUBSET Workers,
           NEW w \in Workers, \A x \in Workers \ {w} : x \in S <=> x \in T
    PROVE  /\ Cardinality(S) \in Nat /\ Cardinality(T) \in Nat
           /\ (w \in S <=> w \in T) => Cardinality(T) = Cardinality(S)
           /\ w \in T /\ w \notin S => Cardinality(T) = Cardinality(S) + 1
           /\ w \in S /\ w \notin T => Cardinality(T) = Cardinality(S) - 1
<1>1. IsFiniteSet(S) /\ IsFiniteSet(T)
  BY CacheAssumption, FS_Subset DEF CacheAssumption
<1>2. Cardinality(S) \in Nat /\ Cardinality(T) \in Nat
  BY <1>1, FS_CardinalityType
<1>3. ASSUME w \in S <=> w \in T
      PROVE  Cardinality(T) = Cardinality(S)
  <2>1. S = T
    BY <1>3
  <2> QED
    BY <2>1
<1>4. ASSUME w \in T, w \notin S
      PROVE  Cardinality(T) = Cardinality(S) + 1
  <2>1. T = S \cup {w}
    BY <1>4
  <2> QED
    BY <1>1, <1>4, <2>1, FS_AddElement
<1>5. ASSUME w \in S, w \notin T
      PROVE  Cardinality(T) = Cardinality(S) - 1
  <2>1. T = S \ {w}
    BY <1>5
  <2> QED
    BY <1>1, <1>5, <2>1, FS_RemoveElement
<1> QED
  BY <1>2, <1>3, <1>4, <1>5

(* The other threads do not enter or leave either set.                     *)
OthersStay(w) ==
    \A x \in Workers \ {w} : \A k \in Keys :
        /\ IsClosing(req'[x], k) <=> IsClosing(req[x], k)
        /\ IsPinned(req'[x], k) <=> IsPinned(req[x], k)

LEMMA CountsStep ==
    ASSUME NEW w \in Workers, OthersStay(w), NEW k \in Keys
    PROVE  /\ Cardinality(Closing(k)) \in Nat
           /\ Cardinality(Closing(k)') \in Nat
           /\ Cardinality(Pinned(k)) \in Nat
           /\ Cardinality(Pinned(k)') \in Nat
           /\ (IsClosing(req[w], k) <=> IsClosing(req'[w], k))
                => Cardinality(Closing(k)') = Cardinality(Closing(k))
           /\ ~IsClosing(req[w], k) /\ IsClosing(req'[w], k)
                => Cardinality(Closing(k)') = Cardinality(Closing(k)) + 1
           /\ IsClosing(req[w], k) /\ ~IsClosing(req'[w], k)
                => Cardinality(Closing(k)') = Cardinality(Closing(k)) - 1
           /\ (IsPinned(req[w], k) <=> IsPinned(req'[w], k))
                => Cardinality(Pinned(k)') = Cardinality(Pinned(k))
           /\ ~IsPinned(req[w], k) /\ IsPinned(req'[w], k)
                => Cardinality(Pinned(k)') = Cardinality(Pinned(k)) + 1
           /\ IsPinned(req[w], k) /\ ~IsPinned(req'[w], k)
                => Cardinality(Pinned(k)') = Cardinality(Pinned(k)) - 1
<1>1. /\ Closing(k) = {x \in Workers : IsClosing(req[x], k)}
      /\ Closing(k)' = {x \in Workers : IsClosing(req'[x], k)}
      /\ Pinned(k) = {x \in Workers : IsPinned(req[x], k)}
      /\ Pinned(k)' = {x \in Workers : IsPinned(req'[x], k)}
  BY DEF Closing, Pinned, IsClosing, IsPinned
<1>2. /\ Closing(k) \in SUBSET Workers /\ Closing(k)' \in SUBSET Workers
      /\ \A x \in Workers \ {w} : x \in Closing(k) <=> x \in Closing(k)'
      /\ w \in Closing(k) <=> IsClosing(req[w], k)
      /\ w \in Closing(k)' <=> IsClosing(req'[w], k)
  BY <1>1 DEF OthersStay
<1>3. /\ Pinned(k) \in SUBSET Workers /\ Pinned(k)' \in SUBSET Workers
      /\ \A x \in Workers \ {w} : x \in Pinned(k) <=> x \in Pinned(k)'
      /\ w \in Pinned(k) <=> IsPinned(req[w], k)
      /\ w \in Pinned(k)' <=> IsPinned(req'[w], k)
  BY <1>1 DEF OthersStay
<1> DEFINE A == Closing(k)
           B == Closing(k)'
           C == Pinned(k)
           D == Pinned(k)'
<1> HIDE DEF A, B, C, D
<1>4. /\ Cardinality(A) \in Nat /\ Cardinality(B) \in Nat
      /\ (w \in A <=> w \in B) => Cardinality(B) = Cardinality(A)
      /\ w \in B /\ w \notin A => Cardinality(B) = Cardinality(A) + 1
      /\ w \in A /\ w \notin B => Cardinality(B) = Cardinality(A) - 1
  <2>1. /\ A \in SUBSET Workers /\ B \in SUBSET Workers
        /\ \A x \in Workers \ {w} : x \in A <=> x \in B
    BY <1>2 DEF A, B
  <2> QED
    BY <2>1, CountStep
<1>5. /\ Cardinality(C) \in Nat /\ Cardinality(D) \in Nat
      /\ (w \in C <=> w \in D) => Cardinality(D) = Cardinality(C)
      /\ w \in D /\ w \notin C => Cardinality(D) = Cardinality(C) + 1
      /\ w \in C /\ w \notin D => Cardinality(D) = Cardinality(C) - 1
  <2>1. /\ C \in SUBSET Workers /\ D \in SUBSET Workers
        /\ \A x \in Workers \ {w} : x \in C <=> x \in D
    BY <1>3 DEF C, D
  <2> QED
    BY <2>1, CountStep
<1> QED
  BY <1>2, <1>3, <1>4, <1>5 DEF A, B, C, D

(* A step that opens no handle and gives none up.                          *)
LEMMA PinStep ==
    ASSUME Inv, Inv', PinInv, NEW w \in Workers, UNCHANGED handles,
           OthersStay(w),
           \A k \in Keys :
             /\ IsClosing(req[w], k) <=> IsClosing(req'[w], k)
             /\ IsPinned(req[w], k) => IsPinned(req'[w], k)
             /\ \/ cache'[k].pins <= cache[k].pins
                \/ cache'[k].pins = 0
                \/ /\ ~IsPinned(req[w], k) /\ IsPinned(req'[w], k)
                   /\ cache'[k].pins <= cache[k].pins + 1
    PROVE  PinInv'
<1> SUFFICES ASSUME NEW k \in Keys
             PROVE  /\ handles[k] >= Cardinality(Closing(k)')
                    /\ cache'[k].pins <= handles[k] + Cardinality(Pinned(k)')
  BY DEF PinInv
<1> DEFINE a == Cardinality(Pinned(k))
           b == Cardinality(Pinned(k)')
           p == cache[k].pins
           q == cache'[k].pins
           h == handles[k]
<1>1. /\ h \in Nat /\ p \in Nat /\ q \in Nat
      /\ h >= Cardinality(Closing(k)) /\ p <= h + a
  BY DEF PinInv, Inv, Typed, EntryType
<1>2. Cardinality(Closing(k)') = Cardinality(Closing(k))
  BY CountsStep
<1>3. a \in Nat /\ b \in Nat
  BY CountsStep
<1>4. b >= a /\ (~IsPinned(req[w], k) /\ IsPinned(req'[w], k) => b = a + 1)
  BY <1>3, CountsStep
<1> HIDE DEF a, b, h
<1>5. q <= p \/ q = 0 \/ (b = a + 1 /\ q <= p + 1)
  BY <1>4
<1>6. q <= h + b
  BY <1>1, <1>3, <1>4, <1>5
<1> QED
  BY <1>1, <1>2, <1>6 DEF a, b, h

LEMMA OneMoves ==
    ASSUME Inv, NEW w \in Workers, NEW s, req' = [req EXCEPT ![w] = s]
    PROVE  OthersStay(w) /\ req'[w] = s
  BY DEF OthersStay, Inv, Typed

(* Returning from get_object_attribute leaves no pin uncounted.            *)
LEMMA ReturnSets ==
    ASSUME Inv, NEW w \in Workers, NEW a \in Versions, Return(w, a),
           req[w].pc \notin {"done", "fd", "undo"}
    PROVE  /\ OthersStay(w)
           /\ \A k \in Keys : /\ IsClosing(req[w], k) <=> IsClosing(req'[w], k)
                              /\ IsPinned(req[w], k) => IsPinned(req'[w], k)
           /\ req[w].pin => IsPinned(req'[w], req[w].key)
<1> DEFINE r == req[w]
<1>1. PICK s \in Returns(r, a) : req' = [req EXCEPT ![w] = s]
  BY DEF Return
<1>2. r \in RequestType /\ RequestOK(r)
  BY OfThread
<1>3. r.op \in Kinds /\ (r.pin => r.op = "open")
  BY <1>2 DEF RequestOK
<1>4. OthersStay(w) /\ req'[w] = s
  BY <1>1, OneMoves
<1>5. \/ /\ s.pc = "done" /\ s.op = "none" /\ r.op # "close"
         /\ r.op = "getattr" \/ ~r.pin
      \/ /\ s.op = r.op /\ s.key = r.key
         /\ \/ r.op = "close" /\ s.pc = "release" /\ s.pin = r.pin
            \/ r.op = "open" /\ r.pin /\ s.pc = "fd" /\ s.pin
            \/ r.op = "open" /\ ~r.pin /\ s.pc = "get" /\ s.pin
  BY <1>2, <1>3, ReturnsShape
<1> HIDE DEF r
<1>6. /\ \A k \in Keys : /\ IsClosing(r, k) <=> IsClosing(s, k)
                         /\ IsPinned(r, k) => IsPinned(s, k)
      /\ r.pin => IsPinned(s, r.key)
  BY <1>3, <1>5 DEF IsClosing, IsPinned, r
<1> QED
  BY <1>4, <1>6 DEF r

LEMMA MoveSets ==
    ASSUME Inv, NEW w \in Workers, NEW pc, NEW ver, NEW then,
           req' = [req EXCEPT ![w] = Moved(req[w], pc, ver, then)],
           req[w].pc # "done", pc # "done"
    PROVE  /\ OthersStay(w)
           /\ \A k \in Keys : IsClosing(req[w], k) <=> IsClosing(req'[w], k)
           /\ req'[w].op = req[w].op /\ req'[w].key = req[w].key
           /\ req'[w].pin = req[w].pin
           /\ req'[w].pc = pc /\ req'[w].then = then
<1>1. OthersStay(w) /\ req'[w] = Moved(req[w], pc, ver, then)
  BY OneMoves
<1>2. req[w] \in RequestType
  BY OfThread
<1>3. \A r \in RequestType : LET s == Moved(r, pc, ver, then) IN
        /\ s.op = r.op /\ s.key = r.key /\ s.pin = r.pin
        /\ s.pc = pc /\ s.then = then
  BY DEF Moved, RequestType
<1>4. /\ req'[w].op = req[w].op /\ req'[w].key = req[w].key
      /\ req'[w].pin = req[w].pin
      /\ req'[w].pc = pc /\ req'[w].then = then
  BY <1>1, <1>2, <1>3
<1> QED
  BY <1>1, <1>4 DEF IsClosing

(* What the steps do to the pins of the cache.                             *)
LEMMA PinsOf ==
    ASSUME Inv, NEW k \in Keys
    PROVE  /\ cache' = Without(k) =>
                \A j \in Keys : \/ cache'[j].pins = 0
                                \/ cache'[j].pins <= cache[j].pins
           /\ cache' = [cache EXCEPT ![k].date = now] =>
                \A j \in Keys : cache'[j].pins <= cache[j].pins
           /\ UNCHANGED cache =>
                \A j \in Keys : cache'[j].pins <= cache[j].pins
<1>1. \A j \in Keys : cache[j] \in EntryType /\ cache[j].pins \in Nat
  BY DEF Inv, Typed, EntryType
<1>2. ASSUME cache' = Without(k)
      PROVE  \A j \in Keys : \/ cache'[j].pins = 0
                             \/ cache'[j].pins <= cache[j].pins
  BY <1>1, <1>2 DEF Without, NoEntry, Inv, Typed
<1>3. ASSUME cache' = [cache EXCEPT ![k].date = now]
      PROVE  \A j \in Keys : cache'[j].pins <= cache[j].pins
  <2>1. \A j \in Keys : cache'[j].pins = cache[j].pins
    BY <1>1, <1>3 DEF Inv, Typed, EntryType
  <2> QED
    BY <1>1, <2>1
<1> QED
  BY <1>1, <1>2, <1>3

(* The sections that read the cache, ask S3 or erase entries.              *)
LEMMA SectionPins ==
    ASSUME Inv, Inv', PinInv, NEW w \in Workers,
           \/ GetStat(w) \/ IsNoObjectCache(w) \/ HeadRequest(w) \/ Look(w)
           \/ TruncateCache(w) \/ GetAdded(w) \/ Drop(w)
    PROVE  PinInv'
<1> DEFINE r == req[w]
           k == r.key
<1>1. /\ UNCHANGED handles /\ k \in Keys
      /\ r.pc \in {"get", "noobj", "head", "look", "evict", "reget", "drop"}
  BY OfThread DEF GetStat, IsNoObjectCache, HeadRequest, Look,
     TruncateCache, GetAdded, Drop
<1>2. \A j \in Keys : cache'[j].pins = 0 \/ cache'[j].pins <= cache[j].pins
  <2>1. CASE TruncateCache(w)
    <3>1. PICK out : cache' = [j \in Keys |-> IF j \in out THEN NoEntry
                                              ELSE cache[j]]
      BY <2>1 DEF TruncateCache
    <3>2. \A j \in Keys : cache[j].pins \in Nat
      BY DEF Inv, Typed, EntryType
    <3> QED
      BY <3>1, <3>2 DEF NoEntry
  <2>2. \/ TruncateCache(w) \/ UNCHANGED cache \/ cache' = Without(k)
        \/ cache' = [cache EXCEPT ![k].date = now]
    BY DEF GetStat, IsNoObjectCache, HeadRequest, Look, GetAdded, Drop
  <2> QED
    BY <1>1, <2>1, <2>2, PinsOf
<1>3. ASSUME NEW a \in Versions, Return(w, a)
      PROVE  PinInv'
  <2>1. r.pc \notin {"done", "fd", "undo"}
    BY <1>1
  <2>2. /\ OthersStay(w)
        /\ \A j \in Keys : /\ IsClosing(req[w], j) <=> IsClosing(req'[w], j)
                           /\ IsPinned(req[w], j) => IsPinned(req'[w], j)
    BY <1>3, <2>1, ReturnSets
  <2> QED
    BY <1>1, <1>2, <2>2, PinStep
<1>4. ASSUME NEW pc, NEW ver, NEW then, pc # "done",
             req' = [req EXCEPT ![w] = Moved(r, pc, ver, then)],
             ~Found(r) \/ (pc = "drop" /\ then = "return")
      PROVE  PinInv'
  <2>1. /\ OthersStay(w)
        /\ \A j \in Keys : IsClosing(req[w], j) <=> IsClosing(req'[w], j)
        /\ req'[w].op = req[w].op /\ req'[w].key = req[w].key
        /\ req'[w].pin = req[w].pin
        /\ req'[w].pc = pc /\ req'[w].then = then
    BY <1>1, <1>4, MoveSets
  <2>2. \A j \in Keys : IsPinned(req[w], j) => IsPinned(req'[w], j)
    BY <1>1, <1>4, <2>1 DEF IsPinned, Found
  <2> QED
    BY <1>1, <1>2, <2>1, <2>2, PinStep
<1>5. /\ r \in RequestType /\ r.ver \in Versions /\ cache[k].ver \in Versions
      /\ bucket[k] \in Versions
  BY OfThread
<1>6. CASE GetStat(w)
  <2>1. r.pc = "get" /\ ~Found(r)
    BY <1>6 DEF GetStat, Found
  <2>2. \/ req' = [req EXCEPT ![w].pc = "change", ![w].ver = cache[k].ver]
        \/ DropThen(w, AfterMiss) \/ Goto(w, AfterMiss)
    BY <1>6 DEF GetStat
  <2>3. req' = [req EXCEPT ![w].pc = "change", ![w].ver = cache[k].ver]
          => req' = [req EXCEPT ![w] =
                       Moved(r, "change", cache[k].ver, r.then)]
    <3>1. [r EXCEPT !.pc = "change", !.ver = cache[k].ver]
            = Moved(r, "change", cache[k].ver, r.then)
      BY <1>5 DEF Moved, RequestType
    <3> QED
      BY <3>1 DEF Inv, Typed
  <2>4. DropThen(w, AfterMiss)
          => req' = [req EXCEPT ![w] = Moved(r, "drop", r.ver, AfterMiss)]
    BY GotoIsMove
  <2>5. Goto(w, AfterMiss)
          => req' = [req EXCEPT ![w] = Moved(r, AfterMiss, r.ver, r.then)]
    BY GotoIsMove
  <2>6. AfterMiss # "done"
    BY DEF AfterMiss
  <2> QED
    BY <1>4, <2>1, <2>2, <2>3, <2>4, <2>5, <2>6
<1>7. CASE IsNoObjectCache(w)
  <2>1. r.pc = "noobj" /\ ~Found(r)
    BY <1>7 DEF IsNoObjectCache, Found
  <2>2. Return(w, 0) \/ DropThen(w, "head") \/ Goto(w, "head")
    BY <1>7 DEF IsNoObjectCache
  <2>3. DropThen(w, "head")
          => req' = [req EXCEPT ![w] = Moved(r, "drop", r.ver, "head")]
    BY GotoIsMove
  <2>4. Goto(w, "head")
          => req' = [req EXCEPT ![w] = Moved(r, "head", r.ver, r.then)]
    BY GotoIsMove
  <2> QED
    BY <1>3, <1>4, <2>1, <2>2, <2>3, <2>4, Constants
<1>8. CASE HeadRequest(w)
  <2>1. r.pc = "head" /\ ~Found(r)
    BY <1>8 DEF HeadRequest, Found
  <2>2. \/ Return(w, 0)
        \/ req' = [req EXCEPT ![w] = [r EXCEPT !.pc = "look",
                                               !.ver = bucket[k]]]
    BY <1>8 DEF HeadRequest, Asked, Return, Inv, Typed
  <2>3. [r EXCEPT !.pc = "look", !.ver = bucket[k]]
          = Moved(r, "look", bucket[k], r.then)
    BY <1>5 DEF Moved, RequestType
  <2> QED
    BY <1>3, <1>4, <2>1, <2>2, <2>3, Constants
<1>9. CASE Look(w)
  <2>1. r.pc = "look" /\ ~Found(r)
    BY <1>9 DEF Look, Found
  <2>2. DropThen(w, "add") \/ \E pc \in {"evict", "add"} : Goto(w, pc)
    BY <1>9 DEF Look
  <2>3. DropThen(w, "add")
          => req' = [req EXCEPT ![w] = Moved(r, "drop", r.ver, "add")]
    BY GotoIsMove
  <2>4. \A pc : Goto(w, pc)
          => req' = [req EXCEPT ![w] = Moved(r, pc, r.ver, r.then)]
    BY GotoIsMove
  <2> QED
    BY <1>4, <2>1, <2>2, <2>3, <2>4
<1>10. CASE TruncateCache(w)
  <2>1. r.pc = "evict" /\ ~Found(r) /\ Goto(w, "add")
    BY <1>10 DEF TruncateCache, Found
  <2>2. req' = [req EXCEPT ![w] = Moved(r, "add", r.ver, r.then)]
    BY <2>1, GotoIsMove
  <2> QED
    BY <1>4, <2>1, <2>2
<1>11. CASE GetAdded(w)
  <2>1. Return(w, cache[k].ver) \/ DropThen(w, "return") \/ Return(w, r.ver)
    BY <1>11 DEF GetAdded
  <2>2. DropThen(w, "return")
          => req' = [req EXCEPT ![w] = Moved(r, "drop", r.ver, "return")]
    BY GotoIsMove
  <2> QED
    BY <1>3, <1>4, <1>5, <2>1, <2>2
<1>12. CASE Drop(w)
  <2>1. r.pc = "drop" /\ (r.then = "return" => Return(w, r.ver))
    BY <1>12 DEF Drop
  <2>2. r.then # "return" =>
          /\ req' = [req EXCEPT ![w] = Moved(r, r.then, r.ver, "none")]
          /\ ~Found(r) /\ r.then # "done"
    <3>1. [r EXCEPT !.pc = r.then, !.then = "none"]
            = Moved(r, r.then, r.ver, "none")
      BY <1>5 DEF Moved, RequestType
    <3>2. r.then # "return" =>
            req' = [req EXCEPT ![w] = [r EXCEPT !.pc = r.then,
                                                !.then = "none"]]
      BY <1>12 DEF Drop, Inv, Typed
    <3>3. r.then # "done"
      BY <1>5 DEF RequestType
    <3> QED
      BY <2>1, <3>1, <3>2, <3>3 DEF Found
  <2> QED
    BY <1>3, <1>4, <1>5, <2>1, <2>2
<1> QED
  BY <1>6, <1>7, <1>8, <1>9, <1>10, <1>11, <1>12

LEMMA HeadFailPins ==
    ASSUME Inv, Inv', PinInv, NEW w \in Workers, HeadFail(w)
    PROVE  PinInv'
<1> DEFINE k == req[w].key
           r == Failed(k)[w]
<1>1. /\ req[w].pc = "head" /\ UNCHANGED <<opts, cache, handles>>
      /\ Asked(w, Failed(k), 0) /\ k \in Keys
  BY OfThread DEF HeadFail, Failed
<1>2. /\ r \in RequestType /\ RequestOK(r) /\ r.pc = "head"
      /\ r.op = req[w].op /\ r.key = req[w].key /\ r.pin = req[w].pin
  BY <1>1, FailedOK
<1>3. \A j \in Keys : ~IsPinned(req[w], j)
  BY <1>1 DEF IsPinned
<1>4. PICK s : /\ req' = [Failed(k) EXCEPT ![w] = s]
               /\ \A j \in Keys : IsClosing(r, j) <=> IsClosing(s, j)
  <2>1. CASE ~opts.noobj
    <3>1. PICK s \in Returns(r, 0) : req' = [Failed(k) EXCEPT ![w] = s]
      BY <1>1, <2>1 DEF Asked
    <3>2. r.op \in Kinds /\ (r.pin => r.op = "open")
      BY <1>2 DEF RequestOK
    <3> HIDE DEF r
    <3>3. \/ s.pc = "done" /\ s.op = "none" /\ r.op # "close"
          \/ s.op = r.op /\ s.key = r.key /\ s.pc # "done"
      BY <1>2, <3>1, <3>2, Constants, ReturnsShape
    <3> QED
      BY <1>2, <3>1, <3>3 DEF IsClosing, r
  <2>2. CASE opts.noobj
    <3>1. req' = [Failed(k) EXCEPT ![w] = [r EXCEPT !.pc = "look", !.ver = 0]]
      BY <1>1, <2>2 DEF Asked, Failed
    <3> DEFINE s == [r EXCEPT !.pc = "look", !.ver = 0]
    <3>2. s.op = r.op /\ s.key = r.key /\ s.pc = "look"
      <4> HIDE DEF r
      <4> QED
        BY <1>2 DEF RequestType
    <3> QED
      BY <1>2, <3>1, <3>2 DEF IsClosing
  <2> QED
    BY <2>1, <2>2
<1>5. \A x \in Workers : req'[x] = IF x = w THEN s ELSE Failed(k)[x]
  BY <1>4 DEF Failed
<1>6. OthersStay(w)
  BY <1>1, <1>5, FailedOK DEF OthersStay, IsClosing, IsPinned
<1>7. \A j \in Keys : IsClosing(req[w], j) <=> IsClosing(req'[w], j)
  <2>1. \A j \in Keys : IsClosing(req[w], j) <=> IsClosing(r, j)
    <3> HIDE DEF r
    <3> QED
      BY <1>1, <1>2 DEF IsClosing
  <2>2. req'[w] = s
    BY <1>5
  <2> QED
    BY <1>4, <2>1, <2>2
<1>8. \A j \in Keys : cache'[j].pins <= cache[j].pins
  BY <1>1, PinsOf
<1> QED
  BY <1>1, <1>3, <1>6, <1>7, <1>8, PinStep

LEMMA ChangePins ==
    ASSUME Inv, Inv', PinInv, NEW w \in Workers, Change(w)
    PROVE  PinInv'
<1> DEFINE r == req[w]
<1>1. PICK k \in Keys : k = r.key
  BY OfThread
<1>2. /\ r.pc = "change" /\ UNCHANGED <<opts, handles>> /\ Return(w, r.ver)
      /\ cache' = [cache EXCEPT ![k].pins = Pins(k, r.pin)]
  BY <1>1 DEF Change
<1>3. r.ver \in Versions /\ r.pin \in BOOLEAN
  BY OfThread DEF RequestType
<1>4. /\ OthersStay(w)
      /\ \A j \in Keys : /\ IsClosing(req[w], j) <=> IsClosing(req'[w], j)
                         /\ IsPinned(req[w], j) => IsPinned(req'[w], j)
      /\ r.pin => IsPinned(req'[w], k)
  BY <1>1, <1>2, <1>3, ReturnSets
<1>5. /\ ~r.pin => Pins(k, r.pin) <= cache[k].pins
      /\ Pins(k, r.pin) <= cache[k].pins + 1
  BY <1>2, <1>3, PinOK
<1>6. \A j \in Keys : /\ cache[j].pins \in Nat
                      /\ cache'[j].pins = IF j = k THEN Pins(k, r.pin)
                                          ELSE cache[j].pins
  <2>1. \A j \in Keys : cache[j] \in EntryType /\ cache[j].pins \in Nat
    BY DEF Inv, Typed, EntryType
  <2> QED
    BY <1>2, <2>1 DEF Inv, Typed, EntryType
<1>7. ~IsPinned(req[w], k)
  BY <1>2 DEF IsPinned
<1>8. \A j \in Keys :
        \/ cache'[j].pins <= cache[j].pins
        \/ /\ ~IsPinned(req[w], j) /\ IsPinned(req'[w], j)
           /\ cache'[j].pins <= cache[j].pins + 1
  <2> SUFFICES ASSUME NEW j \in Keys
               PROVE  \/ cache'[j].pins <= cache[j].pins
                      \/ /\ ~IsPinned(req[w], j) /\ IsPinned(req'[w], j)
                         /\ cache'[j].pins <= cache[j].pins + 1
    OBVIOUS
  <2>1. CASE j # k
    BY <1>6, <2>1
  <2>2. CASE j = k /\ r.pin
    BY <1>4, <1>5, <1>6, <1>7, <2>2
  <2>3. CASE j = k /\ ~r.pin
    BY <1>5, <1>6, <2>3
  <2> QED
    BY <1>3, <2>1, <2>2, <2>3
<1> QED
  BY <1>2, <1>4, <1>8, PinStep

LEMMA AddPins ==
    ASSUME Inv, Inv', PinInv, NEW w \in Workers, Add(w)
    PROVE  PinInv'
<1> DEFINE r == req[w]
           v == r.ver
<1>1. PICK k \in Keys : k = r.key
  BY OfThread
<1>2. /\ r.pc = "add" /\ UNCHANGED <<opts, handles>>
      /\ cache' = [cache EXCEPT ![k] = Entry(v, r.pin /\ v # 0)]
  BY <1>1 DEF Add
<1>3. \A j \in Keys : ~IsPinned(req[w], j) /\ cache[j].pins \in Nat
  BY <1>2 DEF IsPinned, Inv, Typed, EntryType
<1>4. \A j \in Keys : cache'[j].pins = IF j # k THEN cache[j].pins
                        ELSE IF r.pin /\ v # 0 THEN 1 ELSE 0
  BY <1>2 DEF Entry, Inv, Typed
<1>5. CASE v = 0
  <2>1. Return(w, 0)
    BY <1>5 DEF Add
  <2>2. /\ OthersStay(w)
        /\ \A j \in Keys : IsClosing(req[w], j) <=> IsClosing(req'[w], j)
    BY <1>2, <2>1, Constants, ReturnSets
  <2>3. \A j \in Keys : cache'[j].pins = 0 \/ cache'[j].pins <= cache[j].pins
    BY <1>3, <1>4, <1>5
  <2> QED
    BY <1>2, <1>3, <2>2, <2>3, PinStep
<1>6. CASE v # 0
  <2>1. req' = [req EXCEPT ![w] = Moved(r, "reget", v, r.then)]
    BY <1>6, GotoIsMove DEF Add
  <2>2. /\ OthersStay(w)
        /\ \A j \in Keys : IsClosing(req[w], j) <=> IsClosing(req'[w], j)
        /\ req'[w].op = r.op /\ req'[w].key = r.key
        /\ req'[w].pin = r.pin /\ req'[w].pc = "reget"
    BY <1>2, <2>1, MoveSets
  <2>3. r.pin => r.op = "open"
    BY OfThread DEF RequestOK
  <2>4. r.pin => IsPinned(req'[w], k)
    BY <1>1, <2>2, <2>3 DEF IsPinned
  <2>5. \A j \in Keys :
          \/ cache'[j].pins <= cache[j].pins
          \/ cache'[j].pins = 0
          \/ /\ ~IsPinned(req[w], j) /\ IsPinned(req'[w], j)
             /\ cache'[j].pins <= cache[j].pins + 1
    <3> SUFFICES ASSUME NEW j \in Keys
                 PROVE  \/ cache'[j].pins <= cache[j].pins
                        \/ cache'[j].pins = 0
                        \/ /\ ~IsPinned(req[w], j) /\ IsPinned(req'[w], j)
                           /\ cache'[j].pins <= cache[j].pins + 1
      OBVIOUS
    <3>1. CASE j # k
      BY <1>3, <1>4, <3>1
    <3>2. CASE j = k /\ r.pin
      BY <1>3, <1>4, <1>6, <2>4, <3>2
    <3>3. CASE j = k /\ ~r.pin
      BY <1>4, <3>3
    <3> QED
      BY <3>1, <3>2, <3>3
  <2> QED
    BY <1>2, <1>3, <2>2, <2>5, PinStep
<1> QED
  BY <1>5, <1>6

(* The begin of a request and the steps of opening, and closing.           *)
LEMMA OperationPins ==
    ASSUME Inv, Inv', PinInv, NEW w \in Workers, Operation(w)
    PROVE  PinInv'
<1> DEFINE r == req[w]
<1>0. PICK k \in Keys : k = r.key
  BY OfThread
<1>1. r \in RequestType /\ RequestOK(r) /\ handles \in [Keys -> Nat]
  BY OfThread DEF PinInv
<1>2. \A j \in Keys : cache[j].pins \in Nat /\ cache'[j].pins \in Nat
  BY DEF Inv, Typed, EntryType
<1>3. ASSUME NEW op \in Kinds, NEW j \in Keys, NEW pc \in {"get", "clear"},
             Begin(w, op, j, pc),
             op = "close" => handles[j] > Cardinality(Closing(j))
      PROVE  PinInv'
  <2> DEFINE s == [Idle EXCEPT !.op = op, !.pc = pc, !.key = j,
                               !.start = bucket[j],
                               !.alone = \A x \in Workers :
                                           Filling(x) => req[x].key # j]
  <2>1. /\ req' = [req EXCEPT ![w] = s]
        /\ s.op = op /\ s.pc = pc /\ s.key = j /\ ~s.pin
    BY <1>3 DEF Begin, Idle
  <2> HIDE DEF s
  <2>2. OthersStay(w) /\ req'[w] = s
    BY <2>1, OneMoves
  <2>3. r.pc = "done" /\ r.op = "none" /\ UNCHANGED <<cache, handles>>
    BY <1>1, <1>3 DEF Begin, RequestOK
  <2>4. \A i \in Keys : /\ ~IsPinned(req[w], i) /\ ~IsPinned(req'[w], i)
                        /\ ~IsClosing(req[w], i)
                        /\ IsClosing(req'[w], i) <=> op = "close" /\ i = j
    BY <2>1, <2>2, <2>3 DEF IsPinned, IsClosing
  <2>5. ASSUME NEW i \in Keys
        PROVE  /\ handles[i] >= Cardinality(Closing(i)')
               /\ cache[i].pins <= handles[i] + Cardinality(Pinned(i)')
    <3>1. /\ Cardinality(Closing(i)) \in Nat
          /\ Cardinality(Closing(i)') =
                IF op = "close" /\ i = j THEN Cardinality(Closing(i)) + 1
                ELSE Cardinality(Closing(i))
          /\ Cardinality(Pinned(i)') = Cardinality(Pinned(i))
      BY <2>2, <2>4, CountsStep
    <3>2. /\ handles[i] >= Cardinality(Closing(i)) /\ handles[i] \in Nat
          /\ cache[i].pins <= handles[i] + Cardinality(Pinned(i))
      BY <1>1 DEF PinInv
    <3> QED
      BY <1>3, <3>1, <3>2
  <2> QED
    BY <1>1, <2>3, <2>5 DEF PinInv
<1>4. CASE Getattr(w) \/ Open(w) \/ Close(w)
  BY <1>3, <1>4 DEF Getattr, Open, Close, Kinds
<1>5. CASE Clear(w) \/ OpenFdFail(w)
  <2> DEFINE s == [r EXCEPT !.pc = IF r.pc = "clear" THEN "get" ELSE "undo"]
  <2>1. /\ req' = [req EXCEPT ![w] = s]
        /\ s.op = r.op /\ s.key = r.key /\ s.pin = r.pin
        /\ \/ r.pc = "clear" /\ s.pc = "get"
           \/ r.pc = "fd" /\ s.pc = "undo"
    <3>1. \/ /\ req' = [req EXCEPT ![w] = [r EXCEPT !.pc = "get"]]
             /\ r.pc = "clear"
          \/ /\ req' = [req EXCEPT ![w] = [r EXCEPT !.pc = "undo"]]
             /\ r.pc = "fd"
      BY <1>5 DEF Clear, OpenFdFail, Goto, Inv, Typed
    <3>2. \A q \in RequestType : \A pc :
            LET t == [q EXCEPT !.pc = pc] IN
            t.op = q.op /\ t.key = q.key /\ t.pin = q.pin /\ t.pc = pc
      BY DEF RequestType
    <3>3. /\ s.op = r.op /\ s.key = r.key /\ s.pin = r.pin
          /\ s.pc = IF r.pc = "clear" THEN "get" ELSE "undo"
      BY <1>1, <3>2
    <3> QED
      BY <3>1, <3>3
  <2> HIDE DEF s
  <2>2. OthersStay(w) /\ req'[w] = s
    BY <2>1, OneMoves
  <2>3. \A j \in Keys : /\ IsClosing(req[w], j) <=> IsClosing(req'[w], j)
                        /\ IsPinned(req[w], j) => IsPinned(req'[w], j)
    BY <2>1, <2>2 DEF IsClosing, IsPinned
  <2>4. /\ UNCHANGED handles
        /\ \A j \in Keys : \/ cache'[j].pins = 0
                           \/ cache'[j].pins <= cache[j].pins
    BY <1>0, <1>5, PinsOf DEF Clear, OpenFdFail
  <2> QED
    BY <2>2, <2>3, <2>4, PinStep
<1>6. \A j \in Keys : /\ ~IsClosing(Over(r, r.ans), j)
                      /\ ~IsPinned(Over(r, r.ans), j)
  BY DEF Over, Idle, IsClosing, IsPinned
<1>7. CASE OpenFd(w)
  <2>1. /\ req' = [req EXCEPT ![w] = Over(r, r.ans)] /\ UNCHANGED cache
        /\ handles' = [handles EXCEPT ![k] = @ + 1]
        /\ r.pc = "fd"
    BY <1>0, <1>7 DEF OpenFd
  <2>2. OthersStay(w) /\ req'[w] = Over(r, r.ans)
    BY <2>1, OneMoves
  <2>3. ASSUME NEW j \in Keys
        PROVE  /\ handles'[j] >= Cardinality(Closing(j)')
               /\ cache[j].pins <= handles'[j] + Cardinality(Pinned(j)')
    <3>1. /\ Cardinality(Closing(j)) \in Nat /\ Cardinality(Pinned(j)) \in Nat
          /\ Cardinality(Pinned(j)') \in Nat
          /\ \/ Cardinality(Closing(j)') = Cardinality(Closing(j))
             \/ Cardinality(Closing(j)') = Cardinality(Closing(j)) - 1
          /\ \/ Cardinality(Pinned(j)') = Cardinality(Pinned(j))
             \/ /\ j = k
                /\ Cardinality(Pinned(j)') = Cardinality(Pinned(j)) - 1
      <4>1. IsPinned(req[w], j) => j = k
        BY <1>0 DEF IsPinned
      <4> QED
        BY <1>6, <2>2, <4>1, CountsStep
    <3>2. handles'[j] = IF j = k THEN handles[j] + 1 ELSE handles[j]
      BY <1>1, <2>1
    <3>3. /\ handles[j] >= Cardinality(Closing(j)) /\ handles[j] \in Nat
          /\ cache[j].pins <= handles[j] + Cardinality(Pinned(j))
      BY <1>1 DEF PinInv
    <3> QED
      BY <1>2, <3>1, <3>2, <3>3
  <2>4. handles' \in [Keys -> Nat]
    BY <1>1, <2>1
  <2> QED
    BY <2>1, <2>3, <2>4 DEF PinInv
<1>8. CASE Undo(w)
  <2>1. /\ req' = [req EXCEPT ![w] = Over(r, r.ans)] /\ UNCHANGED handles
        /\ cache' = Without(k) /\ r.pc = "undo"
    BY <1>0, <1>8 DEF Undo
  <2>2. OthersStay(w) /\ req'[w] = Over(r, r.ans)
    BY <2>1, OneMoves
  <2>3. ASSUME NEW j \in Keys
        PROVE  /\ handles[j] >= Cardinality(Closing(j)')
               /\ cache'[j].pins <= handles[j] + Cardinality(Pinned(j)')
    <3>1. /\ Cardinality(Closing(j)) \in Nat /\ Cardinality(Pinned(j)) \in Nat
          /\ Cardinality(Pinned(j)') \in Nat
          /\ \/ Cardinality(Closing(j)') = Cardinality(Closing(j))
             \/ Cardinality(Closing(j)') = Cardinality(Closing(j)) - 1
          /\ \/ Cardinality(Pinned(j)') = Cardinality(Pinned(j))
             \/ j = k
      <4>1. IsPinned(req[w], j) => j = k
        BY <1>0 DEF IsPinned
      <4> QED
        BY <1>6, <2>2, <4>1, CountsStep
    <3>2. cache'[j].pins = IF j = k THEN 0 ELSE cache[j].pins
      BY <2>1 DEF Without, NoEntry, Inv, Typed
    <3>3. /\ handles[j] >= Cardinality(Closing(j)) /\ handles[j] \in Nat
          /\ cache[j].pins <= handles[j] + Cardinality(Pinned(j))
      BY <1>1 DEF PinInv
    <3> QED
      BY <1>2, <3>1, <3>2, <3>3
  <2> QED
    BY <1>1, <2>1, <2>3 DEF PinInv
<1>9. CASE Release(w)
  <2>1. /\ req' = [req EXCEPT ![w] = Over(r, r.ans)] /\ r.pc = "release"
        /\ cache' = [cache EXCEPT ![k].pins = Pins(k, FALSE)]
        /\ handles' = [handles EXCEPT ![k] = @ - 1] /\ UNCHANGED opts
    BY <1>0, <1>9 DEF Release
  <2>2. OthersStay(w) /\ req'[w] = Over(r, r.ans)
    BY <2>1, OneMoves
  <2>3. \A j \in Keys : /\ IsClosing(r, j) <=> j = k
                        /\ ~IsPinned(r, j)
    BY <1>0, <1>1, <2>1 DEF RequestOK, IsClosing, IsPinned
  <2>4. /\ Pins(k, FALSE) \in Nat
        /\ Pins(k, FALSE) <= cache[k].pins
        /\ cache[k].pins > 0 => Pins(k, FALSE) = cache[k].pins - 1
    BY <2>1, PinOK
  <2>5. ASSUME NEW j \in Keys
        PROVE  /\ handles'[j] \in Nat
               /\ handles'[j] >= Cardinality(Closing(j)')
               /\ cache'[j].pins <= handles'[j] + Cardinality(Pinned(j)')
    <3>1. /\ Cardinality(Closing(j)) \in Nat /\ Cardinality(Pinned(j)) \in Nat
          /\ Cardinality(Closing(j)') \in Nat
          /\ Cardinality(Closing(j)') =
               IF j = k THEN Cardinality(Closing(j)) - 1
               ELSE Cardinality(Closing(j))
          /\ Cardinality(Pinned(j)') = Cardinality(Pinned(j))
      BY <1>6, <2>2, <2>3, CountsStep
    <3>2. handles'[j] = IF j = k THEN handles[j] - 1 ELSE handles[j]
      BY <1>1, <2>1
    <3>3. /\ handles[j] >= Cardinality(Closing(j)) /\ handles[j] \in Nat
          /\ cache[j].pins <= handles[j] + Cardinality(Pinned(j))
      BY <1>1 DEF PinInv
    <3>4. cache'[j].pins = IF j = k THEN Pins(k, FALSE) ELSE cache[j].pins
      <4>1. \A i \in Keys : cache[i] \in EntryType
        BY DEF Inv, Typed
      <4> QED
        BY <2>1, <4>1 DEF Inv, Typed, EntryType
    <3>5. CASE j = k
      <4> DEFINE h == handles[k]
                 c == Cardinality(Closing(k))
                 a == Cardinality(Pinned(k))
                 p == cache[k].pins
                 q == Pins(k, FALSE)
      <4>1. /\ h \in Nat /\ c \in Nat /\ c - 1 \in Nat /\ h >= c
            /\ a \in Nat /\ p \in Nat /\ q \in Nat
            /\ p <= h + a /\ q <= p /\ (p > 0 => q = p - 1)
        BY <1>2, <2>4, <3>1, <3>3, <3>5
      <4>2. /\ handles'[j] = h - 1 /\ cache'[j].pins = q
            /\ Cardinality(Closing(j)') = c - 1
            /\ Cardinality(Pinned(j)') = a
        BY <3>1, <3>2, <3>4, <3>5
      <4> HIDE DEF h, c, a, p, q
      <4>3. h - 1 \in Nat /\ h - 1 >= c - 1 /\ q <= h - 1 + a
        BY <4>1
      <4> QED
        BY <4>2, <4>3
    <3>6. CASE j # k
      BY <3>1, <3>2, <3>3, <3>4, <3>6
    <3> QED
      BY <3>5, <3>6
  <2>6. handles' \in [Keys -> Nat]
    BY <1>1, <2>1, <2>5
  <2> QED
    BY <2>5, <2>6 DEF PinInv
<1> QED
  BY <1>4, <1>5, <1>7, <1>8, <1>9 DEF Operation

LEMMA PinInvInductive == Inv /\ Inv' /\ PinInv /\ [Next]_vars => PinInv'
<1> SUFFICES ASSUME Inv, Inv', PinInv, [Next]_vars
             PROVE  PinInv'
  OBVIOUS
<1>1. ASSUME NEW w \in Workers, Operation(w)
      PROVE  PinInv'
  BY <1>1, OperationPins
<1>2. ASSUME NEW w \in Workers, GetObjectAttribute(w)
      PROVE  PinInv'
  BY <1>2, SectionPins, HeadFailPins, ChangePins, AddPins
     DEF GetObjectAttribute
<1>3. CASE UNCHANGED <<cache, handles, req>>
  BY <1>3 DEF PinInv, Pinned, IsPinned, Closing
<1> QED
  BY <1>1, <1>2, <1>3 DEF Next, Put, Tick, vars

LEMMA PinInvInit == Init => PinInv
<1> SUFFICES ASSUME Init
             PROVE  PinInv
  OBVIOUS
<1>1. \A k \in Keys : Closing(k) = {} /\ Pinned(k) = {}
  BY DEF Init, Idle, Closing, Pinned, IsPinned
<1>2. Cardinality({}) = 0
  BY FS_EmptySet
<1>3. \A k \in Keys : handles[k] = 0 /\ cache[k].pins = 0
  BY DEF Init, NoEntry
<1>4. handles \in [Keys -> Nat]
  BY DEF Init
<1>5. \A k \in Keys : Cardinality(Closing(k)) = 0 /\ Cardinality(Pinned(k)) = 0
  BY <1>1, <1>2
<1> QED
  BY <1>3, <1>4, <1>5 DEF PinInv

(* The cache and its requests keep their types, and an entry that says     *)
(* "no object" is there only where the option is on.                       *)
THEOREM CacheTypeCorrect == Spec => []TypeOK
<1>1. Inv /\ PinInv => TypeOK
  BY DEF Inv, PinInv, Typed, TypeOK, EntryOK
<1> QED
  BY <1>1, InvInit, InvInductive, PinInvInit, PinInvInductive, PTL DEF Spec

(* However opens, closes, lookups and evictions interleave, an entry has   *)
(* no more pins than there are files open or being opened                  *)
(* (ChangeNoTruncateFlag, s3fs_release).                                   *)
THEOREM PinsAreOfOpens == Spec => []PinsBounded
<1>1. Inv /\ PinInv => PinsBounded
  <2> SUFFICES ASSUME Inv, PinInv, NEW k \in Keys
               PROVE  cache[k].pins <= handles[k] + Cardinality(Opening(k))
    BY DEF PinsBounded
  <2>1. IsFiniteSet(Opening(k)) /\ Pinned(k) \in SUBSET Opening(k)
    <3>1. Opening(k) \in SUBSET Workers
      BY DEF Opening
    <3>2. Pinned(k) \in SUBSET Opening(k)
      BY DEF Opening, Pinned, IsPinned
    <3> QED
      BY <3>1, <3>2, CacheAssumption, FS_Subset DEF CacheAssumption
  <2>2. IsFiniteSet(Pinned(k))
        /\ Cardinality(Pinned(k)) <= Cardinality(Opening(k))
    BY <2>1, FS_Subset
  <2>3. Cardinality(Pinned(k)) \in Nat /\ Cardinality(Opening(k)) \in Nat
    BY <2>1, <2>2, FS_CardinalityType
  <2>4. cache[k].pins \in Nat /\ handles[k] \in Nat
    BY DEF Inv, Typed, EntryType, PinInv
  <2> QED
    BY <2>2, <2>3, <2>4 DEF PinInv
<1> QED
  BY <1>1, InvInit, InvInductive, PinInvInit, PinInvInductive, PTL DEF Spec
----------------------------------------------------------------------------
(* Answers.                                                                *)

(* A request is over with what it had found before opening the file, with  *)
(* what get_object_attribute returns, or with a failed HEAD.               *)
AnswerOf(w) ==
    \/ /\ req[w].pc \in {"fd", "undo", "release"}
       /\ req' = [req EXCEPT ![w] = Over(req[w], req[w].ans)]
    \/ \E a \in Versions :
         /\ Return(w, a)
         /\ req[w].start > 0 /\ ~req[w].failed /\ ~opts.noobj => a > 0
    \/ req'[w].failed

LEMMA OperationAnswers ==
    ASSUME Inv, NEW w \in Workers, Operation(w),
           req[w].pc # "done", req'[w].pc = "done"
    PROVE  AnswerOf(w)
<1> DEFINE r == req[w]
<1>1. CASE Getattr(w) \/ Open(w) \/ Close(w)
  BY <1>1 DEF Getattr, Open, Close, Begin
<1>2. CASE Clear(w)
  BY <1>2, OfThread DEF Clear, Goto, RequestType, Inv, Typed
<1>3. CASE OpenFdFail(w)
  BY <1>3, OfThread DEF OpenFdFail, Goto, RequestType, Inv, Typed
<1>4. CASE OpenFd(w)
  BY <1>4 DEF OpenFd, AnswerOf
<1>5. CASE Undo(w)
  BY <1>5 DEF Undo, AnswerOf
<1>6. CASE Release(w)
  BY <1>6 DEF Release, AnswerOf
<1> QED
  BY <1>1, <1>2, <1>3, <1>4, <1>5, <1>6 DEF Operation

(* A failed HEAD is remembered.                                            *)
LEMMA HeadFailAnswers ==
    ASSUME Inv, NEW w \in Workers, HeadFail(w)
    PROVE  req'[w].failed
<1> DEFINE k == req[w].key
           r == Failed(k)[w]
<1>1. k \in Keys /\ Asked(w, Failed(k), 0) /\ req[w].pc = "head"
  BY OfThread DEF HeadFail, Failed
<1>2. /\ r \in RequestType /\ RequestOK(r) /\ r.failed /\ r.pc = "head"
      /\ r.op \in Kinds /\ (r.pin => r.op = "open")
  BY <1>1, FailedOK DEF RequestOK
<1>3. CASE ~opts.noobj
  <2>1. PICK s \in Returns(r, 0) : req' = [Failed(k) EXCEPT ![w] = s]
    BY <1>1, <1>3 DEF Asked
  <2>2. req'[w] = s
    BY <2>1 DEF Failed
  <2> HIDE DEF r
  <2> QED
    BY <1>2, <2>1, <2>2, Constants, ReturnsShape
<1>4. CASE opts.noobj
  <2>1. req'[w] = [r EXCEPT !.pc = "look", !.ver = 0]
    BY <1>1, <1>4 DEF Asked, Failed
  <2> HIDE DEF r
  <2> QED
    BY <1>2, <2>1 DEF RequestType
<1> QED
  BY <1>3, <1>4

LEMMA SectionAnswers ==
    ASSUME Inv, NEW w \in Workers, GetObjectAttribute(w),
           req[w].pc # "done", req'[w].pc = "done"
    PROVE  AnswerOf(w)
<1> DEFINE r == req[w]
           k == r.key
<1>1. /\ r \in RequestType /\ RequestOK(r) /\ k \in Keys
      /\ r.ver \in Versions /\ cache[k].ver \in Versions
      /\ r.ver \in Nat /\ r.start \in Nat /\ bucket[k] \in Versions
  BY OfThread, Constants DEF RequestType
<1>2. ASSUME NEW pc, NEW ver, NEW then, pc # "done",
             req' = [req EXCEPT ![w] = Moved(r, pc, ver, then)]
      PROVE  FALSE
  <2>1. req'[w] = Moved(r, pc, ver, then)
    BY <1>2 DEF Inv, Typed
  <2>2. Moved(r, pc, ver, then).pc = pc
    BY <1>1 DEF Moved, RequestType
  <2> QED
    BY <1>2, <2>1, <2>2
<1>3. \A pc : Goto(w, pc) => pc = "done"
  BY <1>2, GotoIsMove
<1>4. \A then : ~DropThen(w, then)
  BY <1>2, GotoIsMove
<1>5. ASSUME NEW a \in Versions, Return(w, a),
             r.start > 0 /\ ~r.failed /\ ~opts.noobj => a > 0
      PROVE  AnswerOf(w)
  BY <1>5 DEF AnswerOf
<1>6. CASE GetStat(w)
  <2>1. req' # [req EXCEPT ![w].pc = "change", ![w].ver = cache[k].ver]
    <3>1. [r EXCEPT !.pc = "change", !.ver = cache[k].ver]
            = Moved(r, "change", cache[k].ver, r.then)
      BY <1>1 DEF Moved, RequestType
    <3>2. req' = [req EXCEPT ![w].pc = "change", ![w].ver = cache[k].ver]
            => req' = [req EXCEPT ![w] =
                         Moved(r, "change", cache[k].ver, r.then)]
      BY <3>1 DEF Inv, Typed
    <3> QED
      BY <1>2, <3>2
  <2>2. AfterMiss # "done"
    BY DEF AfterMiss
  <2> QED
    BY <1>3, <1>4, <1>6, <2>1, <2>2 DEF GetStat
<1>7. CASE Change(w)
  <2>1. Return(w, r.ver) /\ r.pc = "change"
    BY <1>7 DEF Change
  <2>2. r.ver > 0
    BY <1>1, <2>1 DEF RequestOK, Found
  <2> QED
    BY <1>1, <1>5, <2>1, <2>2
<1>8. CASE IsNoObjectCache(w)
  <2>1. r.pc = "noobj" /\ Return(w, 0)
    BY <1>3, <1>4, <1>8 DEF IsNoObjectCache
  <2>2. opts.noobj
    BY <1>1, <2>1 DEF RequestOK
  <2> QED
    BY <1>5, <2>1, <2>2, Constants
<1>9. CASE HeadRequest(w)
  <2>1. r.pc = "head" /\ Asked(w, req, bucket[k])
    BY <1>9 DEF HeadRequest
  <2>2. CASE bucket[k] = 0 /\ ~opts.noobj
    <3>1. Return(w, 0)
      BY <2>1, <2>2 DEF Asked, Return
    <3>2. ~(r.start > 0)
      BY <1>1, <2>1, <2>2 DEF RequestOK
    <3> QED
      BY <1>5, <3>1, <3>2, Constants
  <2>3. CASE ~(bucket[k] = 0 /\ ~opts.noobj)
    <3>1. req' = [req EXCEPT ![w] = [r EXCEPT !.pc = "look",
                                              !.ver = bucket[k]]]
      BY <2>1, <2>3 DEF Asked, Inv, Typed
    <3>2. [r EXCEPT !.pc = "look", !.ver = bucket[k]]
            = Moved(r, "look", bucket[k], r.then)
      BY <1>1 DEF Moved, RequestType
    <3> QED
      BY <1>2, <3>1, <3>2
  <2> QED
    BY <2>2, <2>3
<1>10. CASE HeadFail(w)
  BY <1>10, HeadFailAnswers DEF AnswerOf
<1>11. CASE Look(w) \/ TruncateCache(w)
  BY <1>3, <1>4, <1>11 DEF Look, TruncateCache
<1>12. CASE Add(w)
  <2>1. r.pc = "add" /\ r.ver = 0 /\ Return(w, 0)
    BY <1>3, <1>12 DEF Add
  <2>2. opts.noobj
    BY <1>1, <2>1 DEF RequestOK, Fills
  <2> QED
    BY <1>5, <2>1, <2>2, Constants
<1>13. CASE GetAdded(w)
  <2>1. /\ r.pc = "reget"
        /\ (Hit(k) /\ Return(w, cache[k].ver)) \/ Return(w, r.ver)
    BY <1>4, <1>13 DEF GetAdded
  <2>2. r.ver > 0 /\ (Hit(k) => cache[k].ver > 0)
    BY <1>1, <2>1, CachedTells DEF RequestOK, Found
  <2> QED
    BY <1>1, <1>5, <2>1, <2>2
<1>14. CASE Drop(w)
  <2>1. r.pc = "drop"
    BY <1>14 DEF Drop
  <2>2. CASE r.then = "return"
    <3>1. Return(w, r.ver) /\ r.ver > 0
      BY <1>1, <1>14, <2>1, <2>2 DEF Drop, RequestOK, Found
    <3> QED
      BY <1>1, <1>5, <3>1
  <2>3. CASE r.then # "return"
    <3>1. req' = [req EXCEPT ![w] = [r EXCEPT !.pc = r.then, !.then = "none"]]
      BY <1>14, <2>3 DEF Drop, Inv, Typed
    <3>2. [r EXCEPT !.pc = r.then, !.then = "none"]
            = Moved(r, r.then, r.ver, "none")
      BY <1>1 DEF Moved, RequestType
    <3>3. r.then # "done"
      BY <1>1 DEF RequestType
    <3> QED
      BY <1>2, <3>1, <3>2, <3>3
  <2> QED
    BY <2>2, <2>3
<1> QED
  BY <1>6, <1>7, <1>8, <1>9, <1>10, <1>11, <1>12, <1>13, <1>14
     DEF GetObjectAttribute

(* Only a thread's own step ends its request.                              *)
LEMMA OwnAnswer ==
    ASSUME Inv, NEW w \in Workers, NEW x \in Workers, x # w,
           Operation(w) \/ GetObjectAttribute(w)
    PROVE  req'[x].pc = req[x].pc
<1>1. CASE HeadFail(w)
  <2> DEFINE k == req[w].key
  <2>1. k \in Keys
    BY OfThread
  <2>2. Asked(w, Failed(k), 0)
    BY <1>1 DEF HeadFail, Failed
  <2>3. req'[x] = Failed(k)[x]
    BY <2>2 DEF Asked, Failed
  <2> QED
    BY <2>1, <2>3, FailedOK
<1>2. CASE ~HeadFail(w)
  <2>1. req'[x] = req[x]
    BY <1>2 DEF Operation, GetObjectAttribute, Getattr, Open, Close, Begin,
       Clear, OpenFd, OpenFdFail, Undo, Release, GetStat, Change,
       IsNoObjectCache, HeadRequest, Look, TruncateCache, Add, GetAdded,
       Drop, Goto, DropThen, Return, Asked, Inv, Typed
  <2> QED
    BY <2>1
<1> QED
  BY <1>1, <1>2

(* However the threads of FUSE interleave with each other, with evictions  *)
(* and with expiry, a published object is not reported missing, with the   *)
(* options that the site mounts with (get_object_attribute, s3fs_open).    *)
THEOREM PublishedAreFound == Spec => PublishedFound
<1>1. Inv /\ [Next]_vars =>
        [\A w \in Workers :
           Answers(w) /\ req[w].op \in {"getattr", "open"} /\ req[w].start > 0
             /\ ~req'[w].failed /\ ~opts.noobj
             => req'[w].ans > 0]_vars
  <2> SUFFICES ASSUME Inv, Next, NEW w \in Workers, Answers(w),
                      req[w].op \in {"getattr", "open"}, req[w].start > 0,
                      ~req'[w].failed, ~opts.noobj
               PROVE  req'[w].ans > 0
    OBVIOUS
  <2> DEFINE r == req[w]
  <2>1. r.pc # "done" /\ req'[w].pc = "done"
    BY DEF Answers
  <2>2. Operation(w) \/ GetObjectAttribute(w)
    <3>1. \A x \in Workers : Operation(x) \/ GetObjectAttribute(x) => x = w
      BY <2>1, OwnAnswer
    <3> QED
      BY <2>1, <3>1 DEF Next, Put, Tick
  <2>3. AnswerOf(w)
    BY <2>1, <2>2, OperationAnswers, SectionAnswers
  <2>4. r \in RequestType /\ RequestOK(r) /\ r.ans \in Versions
    BY OfThread
  <2>5. CASE /\ r.pc \in {"fd", "undo", "release"}
             /\ req' = [req EXCEPT ![w] = Over(r, r.ans)]
    <3>1. req'[w] = Over(r, r.ans)
      BY <2>5 DEF Inv, Typed
    <3>2. req'[w].ans = r.ans /\ req'[w].failed = r.failed
      BY <3>1 DEF Over, Idle
    <3> QED
      BY <2>4, <2>5, <3>2 DEF RequestOK
  <2>6. ASSUME NEW a \in Versions, Return(w, a),
               r.start > 0 /\ ~r.failed /\ ~opts.noobj => a > 0
        PROVE  req'[w].ans > 0
    <3>1. PICK s \in Returns(r, a) : req' = [req EXCEPT ![w] = s]
      BY <2>6 DEF Return
    <3>2. req'[w] = s
      BY <3>1 DEF Inv, Typed
    <3>3. r.op \in Kinds /\ (r.pin => r.op = "open")
      BY <2>1, <2>4 DEF RequestOK
    <3>4. s.failed = r.failed /\ (s.pc = "done" => s.ans = a)
      BY <2>4, <3>1, <3>3, ReturnsShape
    <3> QED
      BY <2>1, <2>6, <3>2, <3>4
  <2> QED
    BY <2>3, <2>5, <2>6 DEF AnswerOf
<1> QED
  BY <1>1, Invariant, PTL DEF Spec, PublishedFound
----------------------------------------------------------------------------
(* Freshness.                                                              *)

(* An open that OpenFresh makes a promise to.                              *)
Watched(r) == r.op = "open" /\ r.alone /\ ~r.failed

(* Nothing older than the call is on its way into the entry of its key, or *)
(* in it once it has been cleared, or about to be answered, or in st after *)
(* the first lookup.                                                       *)
Fresh(r) ==
    /\ \A x \in Workers : Fills(req[x]) /\ req[x].key = r.key
                            => req[x].ver >= r.start
    /\ r.pc # "clear" /\ r.key \in Cached => cache[r.key].ver >= r.start
    /\ Found(r) => r.ver >= r.start
    /\ r.pc \in {"fd", "undo"} => r.ans >= r.start
    /\ r.pin => r.first >= r.start

FreshInv == \A w \in Workers : Watched(req[w]) => Fresh(req[w])

(* Where a thread has the version v from: a HEAD of before, a HEAD of now, *)
(* or the cache.                                                           *)
Learned(w, v) ==
    LET r == req[w] IN
    \/ (Fills(r) \/ Found(r)) /\ v = r.ver
    \/ v = bucket[r.key]
    \/ r.pc # "clear" /\ r.key \in Cached /\ v = cache[r.key].ver

(* What the steps of a request, but for its first and a failed HEAD, do to *)
(* the cache,                                                              *)
CacheEffect(w) ==
    LET r == req[w] IN
    /\ \A k \in Keys : k \in Cached' =>
         \/ k \in Cached /\ cache'[k].ver = cache[k].ver
         \/ k = r.key /\ Fills(r) /\ cache'[k].ver = r.ver
    /\ r.pc = "clear" => r.key \notin Cached'

(* and to the request.                                                     *)
RequestEffect(w) ==
    LET r == req[w]
        s == req'[w]
    IN
    /\ \A x \in Workers : x # w => req'[x] = req[x]
    /\ s.failed = r.failed
    /\ s.pc \in {"done", "fd", "undo"} =>
         \/ r.pc \in {"fd", "undo", "release"} /\ s.ans = r.ans
         \/ Learned(w, s.ans)
    /\ s.pc = "done" =>
         /\ s.op = "none" /\ s.first = r.first
         /\ r.op = "open" => r.pin \/ s.ans = 0
    /\ s.pc # "done" =>
         /\ s.pin => (r.pin /\ s.first = r.first) \/ Learned(w, s.first)
         /\ s.key = r.key /\ s.start = r.start
         /\ s.op = r.op /\ s.alone = r.alone /\ s.pc # "clear"
         /\ Fills(s) => \/ Fills(r) /\ s.ver = r.ver
                        \/ s.ver = bucket[r.key]
         /\ Found(s) => Learned(w, s.ver)

LEMMA WatchedLearns ==
    ASSUME Inv, NEW w \in Workers, Watched(req[w]), Fresh(req[w]),
           NEW v \in Versions, Learned(w, v)
    PROVE  v >= req[w].start
<1> DEFINE r == req[w]
<1>1. RequestOK(r) /\ r.pc # "done"
  BY OfThread DEF RequestOK, Watched
<1>2. bucket[r.key] >= r.start
  BY <1>1 DEF RequestOK
<1>3. Fills(r) => r.ver >= r.start
  BY DEF Fresh
<1> QED
  BY <1>2, <1>3 DEF Learned, Fresh

LEMMA FreshStep ==
    ASSUME Inv, Inv', FreshInv, NEW w \in Workers, UNCHANGED bucket,
           CacheEffect(w), RequestEffect(w)
    PROVE  FreshInv'
<1> DEFINE r == req[w]
           s == req'[w]
<1>1. ASSUME NEW x \in Workers, x # w, Watched(req[x])
      PROVE  Fresh(req[x])'
  <2> DEFINE q == req[x]
  <2>1. q' = q /\ Fresh(q)
    BY <1>1 DEF RequestEffect, FreshInv
  <2>2. RequestOK(q) /\ q.pc # "done" /\ q.key \in Keys
    BY <1>1, OfThread DEF RequestOK, Watched
  <2>3. bucket[q.key] >= q.start
    BY <2>2 DEF RequestOK
  <2>4. Fills(r) /\ r.key = q.key => r.ver >= q.start
    BY <2>1 DEF Fresh
  <2>5. Fills(s) /\ s.key = q.key => s.ver >= q.start
    <3>1. Fills(s) => s.pc # "done"
      BY DEF Fills
    <3> HIDE DEF q, s
    <3>2. Fills(s) => /\ s.key = r.key
                      /\ \/ Fills(r) /\ s.ver = r.ver
                         \/ s.ver = bucket[r.key]
      BY <3>1 DEF RequestEffect, s
    <3> QED
      BY <2>3, <2>4, <3>2
  <2>6. ASSUME NEW y \in Workers, Fills(req'[y]), req'[y].key = q.key
        PROVE  req'[y].ver >= q.start
    <3>1. CASE y = w
      BY <2>5, <2>6, <3>1
    <3>2. CASE y # w
      BY <2>1, <2>6, <3>2 DEF RequestEffect, Fresh
    <3> QED
      BY <3>1, <3>2
  <2>7. ASSUME q.pc # "clear", q.key \in Cached'
        PROVE  cache'[q.key].ver >= q.start
    <3>1. \/ q.key \in Cached /\ cache'[q.key].ver = cache[q.key].ver
          \/ q.key = r.key /\ Fills(r) /\ cache'[q.key].ver = r.ver
      BY <2>2, <2>7 DEF CacheEffect
    <3> QED
      BY <2>1, <2>4, <2>7, <3>1 DEF Fresh
  <2>8. /\ Found(q) => q.ver >= q.start
        /\ q.pc \in {"fd", "undo"} => q.ans >= q.start
        /\ q.pin => q.first >= q.start
    BY <2>1 DEF Fresh
  <2> QED
    BY <2>1, <2>6, <2>7, <2>8 DEF Fresh, Fills, Found
<1>2. ASSUME Watched(s)
      PROVE  Fresh(req[w])'
  <2>1. s.pc # "done"
    BY <1>2 DEF RequestEffect, Watched
  <2>2. /\ s.key = r.key /\ s.start = r.start
        /\ s.op = r.op /\ s.alone = r.alone /\ s.failed = r.failed
        /\ s.pc # "clear"
        /\ Fills(s) => (Fills(r) /\ s.ver = r.ver) \/ s.ver = bucket[r.key]
        /\ Found(s) => Learned(w, s.ver)
        /\ s.pc \in {"fd", "undo"} =>
             \/ r.pc \in {"fd", "undo", "release"} /\ s.ans = r.ans
             \/ Learned(w, s.ans)
        /\ s.pin => (r.pin /\ s.first = r.first) \/ Learned(w, s.first)
    BY <2>1 DEF RequestEffect
  <2>3. Watched(r) /\ Fresh(r)
    <3>1. Watched(r)
      BY <1>2, <2>2 DEF Watched
    <3> QED
      BY <3>1 DEF FreshInv
  <2>4. /\ s \in RequestType /\ s.ver \in Versions /\ s.ans \in Versions
        /\ s.first \in Versions
        /\ RequestOK(r) /\ r.key \in Keys /\ r.pc # "done"
    BY <2>3, OfThread DEF Inv, Typed, RequestType, RequestOK, Watched
  <2>5. \A v \in Versions : Learned(w, v) => v >= r.start
    BY <2>3, WatchedLearns
  <2>6. ASSUME NEW y \in Workers, Fills(req'[y]), req'[y].key = r.key
        PROVE  req'[y].ver >= r.start
    <3>1. CASE y = w
      <4>1. (Fills(r) /\ s.ver = r.ver) \/ s.ver = bucket[r.key]
        BY <2>2, <2>6, <3>1
      <4>2. Learned(w, s.ver)
        BY <4>1 DEF Learned
      <4> QED
        BY <2>4, <2>5, <3>1, <4>2
    <3>2. CASE y # w
      BY <2>3, <2>6, <3>2 DEF RequestEffect, Fresh
    <3> QED
      BY <3>1, <3>2
  <2>7. ASSUME r.key \in Cached'
        PROVE  cache'[r.key].ver >= r.start
    <3>1. r.pc # "clear"
      BY <2>7 DEF CacheEffect
    <3>2. \/ r.key \in Cached /\ cache'[r.key].ver = cache[r.key].ver
          \/ Fills(r) /\ cache'[r.key].ver = r.ver
      BY <2>4, <2>7 DEF CacheEffect
    <3>3. Fills(r) => r.ver >= r.start
      BY <2>3 DEF Fresh
    <3> QED
      BY <2>3, <3>1, <3>2, <3>3 DEF Fresh
  <2>8. Found(s) => s.ver >= r.start
    BY <2>2, <2>4, <2>5
  <2>9. s.pc \in {"fd", "undo"} => s.ans >= r.start
    <3>1. CASE r.pc \in {"fd", "undo", "release"} /\ s.ans = r.ans
      <4>1. r.pc # "release"
        BY <2>3, <2>4 DEF RequestOK, Watched
      <4> QED
        BY <2>3, <3>1, <4>1 DEF Fresh
    <3> QED
      BY <2>2, <2>4, <2>5, <3>1
  <2>10. /\ s.start = r.start /\ s.key = r.key
    BY <2>2
  <2>11. s.pin => s.first >= r.start
    <3>1. r.pin => r.first >= r.start
      BY <2>3 DEF Fresh
    <3> QED
      BY <2>2, <2>4, <2>5, <3>1
  <2> QED
    BY <2>6, <2>7, <2>8, <2>9, <2>10, <2>11 DEF Fresh, Fills, Found
<1>3. \A x \in Workers : x # w => req'[x] = req[x]
  BY DEF RequestEffect
<1>4. ASSUME NEW x \in Workers, Watched(req[x])'
      PROVE  Fresh(req[x])'
  <2>1. Watched(req'[x])
    BY <1>4 DEF Watched
  <2>2. CASE x = w
    BY <1>2, <2>1, <2>2
  <2>3. CASE x # w
    BY <1>1, <1>3, <2>1, <2>3
  <2> QED
    BY <2>2, <2>3
<1> QED
  BY <1>4 DEF FreshInv

(* What the steps do to the cache.                                         *)
LEMMA CacheEffects ==
    ASSUME Inv, Inv', NEW w \in Workers,
           LET k == req[w].key IN
           \/ UNCHANGED cache /\ req[w].pc # "clear"
           \/ cache' = Without(k)
           \/ /\ cache' = [cache EXCEPT ![k].date = now]
              /\ k \in Cached /\ req[w].pc # "clear"
           \/ /\ \E b \in BOOLEAN :
                   cache' = [cache EXCEPT ![k].pins = Pins(k, b)]
              /\ req[w].pc # "clear"
           \/ /\ \E out :
                   cache' = [j \in Keys |-> IF j \in out THEN NoEntry
                                            ELSE cache[j]]
              /\ req[w].pc # "clear"
           \/ /\ \E pin : cache' = [cache EXCEPT ![k] = Entry(req[w].ver, pin)]
              /\ Fills(req[w])
    PROVE  CacheEffect(w)
<1> DEFINE r == req[w]
<1>0. PICK k \in Keys : k = r.key
  BY OfThread
<1>1. /\ cache \in [Keys -> EntryType]
      /\ \A j : j \in Cached <=> j \in Keys /\ cache[j] # NoEntry
      /\ \A j : j \in Cached' <=> j \in Keys /\ cache'[j] # NoEntry
  BY DEF Cached, Inv, Typed
<1>2. CASE UNCHANGED cache /\ r.pc # "clear"
  BY <1>1, <1>2 DEF CacheEffect
<1>3. CASE cache' = Without(k)
  <2>1. \A j \in Keys : cache'[j] = IF j = k THEN NoEntry ELSE cache[j]
    BY <1>1, <1>3 DEF Without
  <2> QED
    BY <1>0, <1>1, <2>1 DEF CacheEffect
<1>4. CASE /\ cache' = [cache EXCEPT ![k].date = now]
           /\ k \in Cached /\ r.pc # "clear"
  <2>1. \A j \in Keys : j # k => cache'[j] = cache[j]
    BY <1>1, <1>4
  <2>2. cache'[k].ver = cache[k].ver
    BY <1>1, <1>4 DEF EntryType
  <2> QED
    BY <1>0, <1>1, <1>4, <2>1, <2>2 DEF CacheEffect
<1>5. ASSUME NEW b \in BOOLEAN,
             cache' = [cache EXCEPT ![k].pins = Pins(k, b)], r.pc # "clear"
      PROVE  CacheEffect(w)
  <2>1. \A j \in Keys : j # k => cache'[j] = cache[j]
    BY <1>1, <1>5
  <2>2. cache'[k].ver = cache[k].ver
    BY <1>1, <1>5 DEF EntryType
  <2>3. k \in Cached' => k \in Cached
    <3>1. CASE cache[k] = NoEntry
      <4>1. Pins(k, b) = 0
        BY <3>1 DEF Pins
      <4>2. cache'[k] = [NoEntry EXCEPT !.pins = 0]
        BY <1>1, <1>5, <3>1, <4>1
      <4> QED
        BY <1>1, <4>2 DEF NoEntry
    <3> QED
      BY <1>1, <3>1
  <2> QED
    BY <1>0, <1>1, <1>5, <2>1, <2>2, <2>3 DEF CacheEffect
<1>6. ASSUME NEW out, r.pc # "clear",
             cache' = [j \in Keys |-> IF j \in out THEN NoEntry ELSE cache[j]]
      PROVE  CacheEffect(w)
  <2>1. \A j \in Keys : cache'[j] = IF j \in out THEN NoEntry ELSE cache[j]
    BY <1>6
  <2> QED
    BY <1>1, <1>6, <2>1 DEF CacheEffect
<1>7. ASSUME NEW pin, cache' = [cache EXCEPT ![k] = Entry(r.ver, pin)],
             Fills(r)
      PROVE  CacheEffect(w)
  <2>1. \A j \in Keys : j # k => cache'[j] = cache[j]
    BY <1>1, <1>7
  <2>2. cache'[k].ver = r.ver
    BY <1>1, <1>7 DEF Entry
  <2>3. r.pc # "clear"
    BY <1>7 DEF Fills
  <2> QED
    BY <1>0, <1>1, <1>7, <2>1, <2>2, <2>3 DEF CacheEffect
<1> QED
  BY <1>0, <1>2, <1>3, <1>4, <1>5, <1>6, <1>7

(* What the ways to go on do to the request.                               *)
LEMMA ReturnEffect ==
    ASSUME Inv, NEW w \in Workers, NEW a \in Versions, Return(w, a),
           Learned(w, a), req[w].pc # "done"
    PROVE  RequestEffect(w)
<1> DEFINE r == req[w]
<1>1. PICK s \in Returns(r, a) : req' = [req EXCEPT ![w] = s]
  BY DEF Return
<1>2. /\ req'[w] = s /\ \A x \in Workers : x # w => req'[x] = req[x]
  BY <1>1 DEF Inv, Typed
<1>3. /\ r \in RequestType /\ r.op \in Kinds /\ (r.pin => r.op = "open")
  BY OfThread DEF RequestOK
<1>4. /\ s.failed = r.failed
      /\ \/ /\ s.pc = "done" /\ s.op = "none" /\ s.ans = a
            /\ s.first = r.first /\ (r.op = "open" => s.ans = 0)
         \/ /\ s.pc \in {"release", "fd", "get"} /\ s.ans = a
            /\ s.op = r.op /\ s.key = r.key /\ s.start = r.start
            /\ s.alone = r.alone
            /\ s.pin => (r.pin /\ s.first = r.first) \/ s.first = a
  BY <1>1, <1>3, ReturnsShape
<1>5. s.pc \in {"release", "fd", "get"} => ~Fills(s) /\ ~Found(s)
  BY DEF Fills, Found
<1> QED
  BY <1>2, <1>4, <1>5 DEF RequestEffect

LEMMA MoveEffect ==
    ASSUME Inv, NEW w \in Workers, NEW pc, NEW ver, NEW then,
           req' = [req EXCEPT ![w] = Moved(req[w], pc, ver, then)],
           pc \notin {"done", "clear", "fd", "undo"},
           pc \in {"look", "evict", "add"} \/ (pc = "drop" /\ then = "add")
             => \/ Fills(req[w]) /\ ver = req[w].ver
                \/ ver = bucket[req[w].key],
           pc \in {"change", "reget"} \/ (pc = "drop" /\ then = "return")
             => Learned(w, ver)
    PROVE  RequestEffect(w)
<1> DEFINE s == Moved(req[w], pc, ver, then)
<1>1. /\ req'[w] = s /\ \A x \in Workers : x # w => req'[x] = req[x]
  BY DEF Inv, Typed
<1>2. req[w] \in RequestType
  BY OfThread
<1>3. /\ s.op = req[w].op /\ s.key = req[w].key /\ s.start = req[w].start
      /\ s.alone = req[w].alone /\ s.failed = req[w].failed
      /\ s.pc = pc /\ s.ver = ver /\ s.then = then
      /\ s.pin = req[w].pin /\ s.first = req[w].first
  BY <1>2 DEF Moved, RequestType
<1> HIDE DEF s
<1> QED
  BY <1>1, <1>3 DEF RequestEffect, Fills, Found

LEMMA OperationFresh ==
    ASSUME Inv, Inv', NEW w \in Workers, Operation(w), req[w].pc # "done"
    PROVE  UNCHANGED bucket /\ CacheEffect(w) /\ RequestEffect(w)
<1> DEFINE r == req[w]
<1>1. r \in RequestType /\ RequestOK(r)
  BY OfThread
<1>2. \A s : req' = [req EXCEPT ![w] = s]
               => /\ req'[w] = s
                  /\ \A x \in Workers : x # w => req'[x] = req[x]
  BY DEF Inv, Typed
<1>3. \A q \in RequestType : \A pc :
        LET t == [q EXCEPT !.pc = pc] IN
        /\ t.op = q.op /\ t.key = q.key /\ t.start = q.start /\ t.ans = q.ans
        /\ t.alone = q.alone /\ t.failed = q.failed /\ t.pc = pc
        /\ t.pin = q.pin /\ t.first = q.first
  BY DEF RequestType
<1>4. /\ Over(r, r.ans).failed = r.failed /\ Over(r, r.ans).ans = r.ans
      /\ Over(r, r.ans).pc = "done" /\ Over(r, r.ans).op = "none"
      /\ Over(r, r.ans).first = r.first
  BY DEF Over, Idle
<1>5. ASSUME req' = [req EXCEPT ![w] = Over(r, r.ans)],
             r.pc \in {"fd", "undo", "release"}
      PROVE  RequestEffect(w)
  <2>1. r.op = "open" => r.pin
    BY <1>1, <1>5 DEF RequestOK
  <2> QED
    BY <1>2, <1>4, <1>5, <2>1 DEF RequestEffect
<1>6. CASE Getattr(w) \/ Open(w) \/ Close(w)
  BY <1>6 DEF Getattr, Open, Close, Begin
<1>7. CASE Clear(w)
  <2>1. /\ r.pc = "clear" /\ cache' = Without(r.key) /\ UNCHANGED bucket
        /\ req' = [req EXCEPT ![w] = [r EXCEPT !.pc = "get"]]
    BY <1>7 DEF Clear, Goto, Inv, Typed
  <2>2. RequestEffect(w)
    <3> DEFINE s == [r EXCEPT !.pc = "get"]
    <3>1. req'[w] = s /\ \A x \in Workers : x # w => req'[x] = req[x]
      BY <1>2, <2>1
    <3>2. /\ s.op = r.op /\ s.key = r.key /\ s.start = r.start
          /\ s.alone = r.alone /\ s.failed = r.failed /\ s.pc = "get"
          /\ s.pin = r.pin /\ s.first = r.first
      BY <1>1, <1>3
    <3> HIDE DEF s
    <3> QED
      BY <3>1, <3>2 DEF RequestEffect, Fills, Found
  <2> QED
    BY <2>1, <2>2, CacheEffects
<1>8. CASE OpenFdFail(w)
  <2>1. /\ r.pc = "fd" /\ UNCHANGED <<bucket, cache>>
        /\ req' = [req EXCEPT ![w] = [r EXCEPT !.pc = "undo"]]
    BY <1>8 DEF OpenFdFail, Goto, Inv, Typed
  <2>2. RequestEffect(w)
    <3> DEFINE s == [r EXCEPT !.pc = "undo"]
    <3>1. req'[w] = s /\ \A x \in Workers : x # w => req'[x] = req[x]
      BY <1>2, <2>1
    <3>2. /\ s.op = r.op /\ s.key = r.key /\ s.start = r.start
          /\ s.alone = r.alone /\ s.failed = r.failed /\ s.pc = "undo"
          /\ s.ans = r.ans /\ s.pin = r.pin /\ s.first = r.first
      BY <1>1, <1>3
    <3> HIDE DEF s
    <3> QED
      BY <2>1, <3>1, <3>2 DEF RequestEffect, Fills, Found
  <2> QED
    BY <2>1, <2>2, CacheEffects
<1>9. CASE OpenFd(w)
  <2>1. /\ r.pc = "fd" /\ UNCHANGED <<bucket, cache>>
        /\ req' = [req EXCEPT ![w] = Over(r, r.ans)]
    BY <1>9 DEF OpenFd
  <2> QED
    BY <1>5, <2>1, CacheEffects
<1>10. CASE Undo(w)
  <2>1. /\ r.pc = "undo" /\ UNCHANGED bucket /\ cache' = Without(r.key)
        /\ req' = [req EXCEPT ![w] = Over(r, r.ans)]
    BY <1>10 DEF Undo
  <2> QED
    BY <1>5, <2>1, CacheEffects
<1>11. CASE Release(w)
  <2>1. /\ r.pc = "release" /\ UNCHANGED bucket
        /\ cache' = [cache EXCEPT ![r.key].pins = Pins(r.key, FALSE)]
        /\ req' = [req EXCEPT ![w] = Over(r, r.ans)]
    BY <1>11 DEF Release
  <2>2. \E b \in BOOLEAN :
          cache' = [cache EXCEPT ![r.key].pins = Pins(r.key, b)]
    BY <2>1
  <2> QED
    BY <1>5, <2>1, <2>2, CacheEffects
<1> QED
  BY <1>6, <1>7, <1>8, <1>9, <1>10, <1>11 DEF Operation

LEMMA SectionFresh ==
    ASSUME Inv, Inv', NEW w \in Workers, GetObjectAttribute(w), ~HeadFail(w)
    PROVE  UNCHANGED bucket /\ CacheEffect(w) /\ RequestEffect(w)
<1> DEFINE r == req[w]
           k == r.key
<1>1. /\ r \in RequestType /\ RequestOK(r) /\ k \in Keys
      /\ r.ver \in Versions /\ cache[k].ver \in Versions
      /\ bucket[k] \in Versions /\ r.pin \in BOOLEAN
  BY OfThread DEF RequestType
<1>2. UNCHANGED bucket /\ r.pc \notin {"done", "clear", "fd", "undo"}
  BY DEF GetObjectAttribute, GetStat, Change, IsNoObjectCache, HeadRequest,
     HeadFail, Look, TruncateCache, Add, GetAdded, Drop
<1>3. CacheEffect(w)
  <2>1. CASE Change(w)
    <3>1. \E b \in BOOLEAN : cache' = [cache EXCEPT ![k].pins = Pins(k, b)]
      BY <1>1, <2>1 DEF Change
    <3> QED
      BY <1>2, <3>1, CacheEffects
  <2>2. CASE TruncateCache(w)
    <3>1. \E out : cache' = [j \in Keys |-> IF j \in out THEN NoEntry
                                            ELSE cache[j]]
      BY <2>2 DEF TruncateCache
    <3> QED
      BY <1>2, <3>1, CacheEffects
  <2>3. CASE Add(w)
    <3>1. \E pin : cache' = [cache EXCEPT ![k] = Entry(r.ver, pin)]
      BY <2>3 DEF Add
    <3>2. Fills(r)
      BY <2>3 DEF Add, Fills
    <3> QED
      BY <3>1, <3>2, CacheEffects
  <2>4. CASE GetStat(w) \/ IsNoObjectCache(w) \/ GetAdded(w)
    <3>1. \/ UNCHANGED cache
          \/ cache' = [cache EXCEPT ![k].date = now] /\ k \in Cached
      <4>1. cache[k].noobj => k \in Cached
        BY <1>1 DEF Cached, NoEntry
      <4> QED
        BY <2>4, <4>1 DEF GetStat, IsNoObjectCache, GetAdded, Hit
    <3> QED
      BY <1>2, <3>1, CacheEffects
  <2>5. CASE HeadRequest(w) \/ Look(w)
    BY <1>2, <2>5, CacheEffects DEF HeadRequest, Look
  <2>6. CASE Drop(w)
    BY <2>6, CacheEffects DEF Drop
  <2> QED
    BY <2>1, <2>2, <2>3, <2>4, <2>5, <2>6 DEF GetObjectAttribute
<1>4. RequestEffect(w)
  <2>1. ASSUME NEW a \in Versions, Return(w, a), Learned(w, a)
        PROVE  RequestEffect(w)
    BY <1>2, <2>1, ReturnEffect
  <2>2. CASE GetStat(w)
    <3>1. AfterMiss \in {"noobj", "head"}
      BY DEF AfterMiss
    <3>2. \/ /\ k \in Cached
             /\ req' = [req EXCEPT ![w].pc = "change", ![w].ver = cache[k].ver]
          \/ DropThen(w, AfterMiss)
          \/ Goto(w, AfterMiss)
      BY <2>2 DEF GetStat, Hit
    <3>3. ASSUME k \in Cached,
                 req' = [req EXCEPT ![w].pc = "change", ![w].ver = cache[k].ver]
          PROVE  RequestEffect(w)
      <4>1. [r EXCEPT !.pc = "change", !.ver = cache[k].ver]
              = Moved(r, "change", cache[k].ver, r.then)
        BY <1>1 DEF Moved, RequestType
      <4>2. req' = [req EXCEPT ![w] = Moved(r, "change", cache[k].ver, r.then)]
        BY <3>3, <4>1 DEF Inv, Typed
      <4>3. Learned(w, cache[k].ver)
        BY <1>2, <3>3 DEF Learned
      <4>4. ASSUME NEW pc \in {"change", "reget"}, NEW ver, Learned(w, ver),
                   req' = [req EXCEPT ![w] = Moved(r, pc, ver, r.then)]
            PROVE  RequestEffect(w)
        BY <4>4, MoveEffect
      <4> QED
        BY <4>2, <4>3, <4>4
    <3>4. ASSUME DropThen(w, AfterMiss)
          PROVE  RequestEffect(w)
      <4>1. req' = [req EXCEPT ![w] = Moved(r, "drop", r.ver, AfterMiss)]
        BY <3>4, GotoIsMove
      <4> QED
        BY <3>1, <4>1, MoveEffect
    <3>5. ASSUME Goto(w, AfterMiss)
          PROVE  RequestEffect(w)
      <4>1. req' = [req EXCEPT ![w] = Moved(r, AfterMiss, r.ver, r.then)]
        BY <3>5, GotoIsMove
      <4> QED
        BY <3>1, <4>1, MoveEffect
    <3> QED
      BY <3>2, <3>3, <3>4, <3>5
  <2>3. CASE Change(w)
    <3>1. Return(w, r.ver) /\ Learned(w, r.ver)
      BY <2>3 DEF Change, Learned, Found
    <3> QED
      BY <1>1, <2>1, <3>1
  <2>4. CASE IsNoObjectCache(w)
    <3>1. \/ Return(w, 0) /\ cache[k].noobj
          \/ DropThen(w, "head") \/ Goto(w, "head")
      BY <2>4 DEF IsNoObjectCache
    <3>2. cache[k].noobj => k \in Cached /\ cache[k].ver = 0
      BY <1>1 DEF Cached, NoEntry, Inv, EntryOK
    <3>3. cache[k].noobj => Learned(w, 0)
      BY <1>2, <3>2 DEF Learned
    <3>4. DropThen(w, "head") => RequestEffect(w)
      <4>1. DropThen(w, "head")
              => req' = [req EXCEPT ![w] = Moved(r, "drop", r.ver, "head")]
        BY GotoIsMove
      <4> QED
        BY <4>1, MoveEffect
    <3>5. Goto(w, "head") => RequestEffect(w)
      <4>1. Goto(w, "head")
              => req' = [req EXCEPT ![w] = Moved(r, "head", r.ver, r.then)]
        BY GotoIsMove
      <4> QED
        BY <4>1, MoveEffect
    <3> QED
      BY <2>1, <3>1, <3>3, <3>4, <3>5, Constants
  <2>5. CASE HeadRequest(w)
    <3>1. \/ Return(w, 0) /\ bucket[k] = 0
          \/ req' = [req EXCEPT ![w] = [r EXCEPT !.pc = "look",
                                                 !.ver = bucket[k]]]
      BY <2>5 DEF HeadRequest, Asked, Return, Inv, Typed
    <3>2. [r EXCEPT !.pc = "look", !.ver = bucket[k]]
            = Moved(r, "look", bucket[k], r.then)
      BY <1>1 DEF Moved, RequestType
    <3>3. bucket[k] = 0 => Learned(w, 0)
      BY DEF Learned
    <3>4. ASSUME NEW pc \in {"look", "evict"}, NEW ver, ver = bucket[k],
                 req' = [req EXCEPT ![w] = Moved(r, pc, ver, r.then)]
          PROVE  RequestEffect(w)
      BY <3>4, MoveEffect
    <3> QED
      BY <2>1, <3>1, <3>2, <3>3, <3>4, Constants
  <2>6. CASE Look(w)
    <3>1. Fills(r)
      BY <2>6 DEF Look, Fills
    <3>2. DropThen(w, "add") \/ \E pc \in {"evict", "add"} : Goto(w, pc)
      BY <2>6 DEF Look
    <3>3. DropThen(w, "add") => RequestEffect(w)
      <4>1. DropThen(w, "add")
              => req' = [req EXCEPT ![w] = Moved(r, "drop", r.ver, "add")]
        BY GotoIsMove
      <4> QED
        BY <3>1, <4>1, MoveEffect
    <3>4. ASSUME NEW pc \in {"evict", "add"}, Goto(w, pc)
          PROVE  RequestEffect(w)
      <4>1. req' = [req EXCEPT ![w] = Moved(r, pc, r.ver, r.then)]
        BY <3>4, GotoIsMove
      <4> QED
        BY <3>1, <4>1, MoveEffect
    <3> QED
      BY <3>2, <3>3, <3>4
  <2>7. CASE TruncateCache(w)
    <3>1. Fills(r) /\ Goto(w, "add")
      BY <2>7 DEF TruncateCache, Fills
    <3>2. req' = [req EXCEPT ![w] = Moved(r, "add", r.ver, r.then)]
      BY <3>1, GotoIsMove
    <3>3. ASSUME NEW pc \in {"evict", "add"},
                 req' = [req EXCEPT ![w] = Moved(r, pc, r.ver, r.then)]
          PROVE  RequestEffect(w)
      BY <3>1, <3>3, MoveEffect
    <3> QED
      BY <3>2, <3>3
  <2>8. CASE Add(w)
    <3>1. Learned(w, r.ver)
      BY <2>8 DEF Add, Learned, Fills
    <3>2. (r.ver = 0 /\ Return(w, 0)) \/ Goto(w, "reget")
      BY <2>8 DEF Add
    <3>3. Goto(w, "reget") => RequestEffect(w)
      <4>1. Goto(w, "reget")
              => req' = [req EXCEPT ![w] = Moved(r, "reget", r.ver, r.then)]
        BY GotoIsMove
      <4> QED
        BY <3>1, <4>1, MoveEffect
    <3> QED
      BY <2>1, <3>1, <3>2, <3>3, Constants
  <2>9. CASE GetAdded(w)
    <3>1. Learned(w, r.ver)
      BY <2>9 DEF GetAdded, Learned, Found
    <3>2. k \in Cached => Learned(w, cache[k].ver)
      BY <1>2 DEF Learned
    <3>3. \/ k \in Cached /\ Return(w, cache[k].ver)
          \/ DropThen(w, "return")
          \/ Return(w, r.ver)
      BY <2>9 DEF GetAdded, Hit
    <3>4. DropThen(w, "return") => RequestEffect(w)
      <4>1. DropThen(w, "return")
              => req' = [req EXCEPT ![w] = Moved(r, "drop", r.ver, "return")]
        BY GotoIsMove
      <4> QED
        BY <3>1, <4>1, MoveEffect
    <3> QED
      BY <1>1, <2>1, <3>1, <3>2, <3>3, <3>4
  <2>10. CASE Drop(w)
    <3>1. r.pc = "drop" /\ r.then \in {"noobj", "head", "add", "return"}
      BY <1>1, <2>10 DEF Drop, RequestOK, RequestType
    <3>2. CASE r.then = "return"
      <4>1. Return(w, r.ver) /\ Learned(w, r.ver)
        BY <2>10, <3>1, <3>2 DEF Drop, Learned, Found
      <4> QED
        BY <1>1, <2>1, <4>1
    <3>3. CASE r.then # "return"
      <4>1. req' = [req EXCEPT ![w] = [r EXCEPT !.pc = r.then,
                                                !.then = "none"]]
        BY <2>10, <3>3 DEF Drop, Inv, Typed
      <4>2. [r EXCEPT !.pc = r.then, !.then = "none"]
              = Moved(r, r.then, r.ver, "none")
        BY <1>1 DEF Moved, RequestType
      <4>3. r.then = "add" => Fills(r)
        BY <3>1 DEF Fills
      <4>4. ASSUME NEW pc \in {"noobj", "head", "add"}, NEW then,
                   then = "none", pc = "add" => Fills(r),
                   req' = [req EXCEPT ![w] = Moved(r, pc, r.ver, then)]
            PROVE  RequestEffect(w)
        BY <4>4, MoveEffect
      <4>5. r.then \in {"noobj", "head", "add"}
        BY <3>1, <3>3
      <4> QED
        BY <4>1, <4>2, <4>3, <4>4, <4>5
    <3> QED
      BY <3>2, <3>3
  <2> QED
    BY <2>2, <2>3, <2>4, <2>5, <2>6, <2>7, <2>8, <2>9, <2>10
       DEF GetObjectAttribute
<1> QED
  BY <1>2, <1>3, <1>4

(* A failed HEAD takes the promise back for all the requests of its key.   *)
LEMMA HeadFailFresh ==
    ASSUME Inv, Inv', FreshInv, NEW w \in Workers, HeadFail(w)
    PROVE  FreshInv'
<1> DEFINE k == req[w].key
<1>1. /\ k \in Keys /\ UNCHANGED cache
      /\ Asked(w, Failed(k), 0)
  BY OfThread DEF HeadFail, Failed
<1>2. \A x \in Workers : x # w => req'[x] = Failed(k)[x]
  BY <1>1 DEF Asked, Failed
<1>3. ASSUME NEW x \in Workers, x # w
      PROVE  /\ req'[x].op = req[x].op /\ req'[x].pc = req[x].pc
             /\ req'[x].key = req[x].key /\ req'[x].ver = req[x].ver
             /\ req'[x].then = req[x].then /\ req'[x].ans = req[x].ans
             /\ req'[x].start = req[x].start /\ req'[x].alone = req[x].alone
             /\ req'[x].pin = req[x].pin /\ req'[x].first = req[x].first
             /\ req'[x].failed <=> req[x].failed \/ req[x].key = k
  BY <1>1, <1>2, <1>3, FailedOK
<1>4. req'[w].failed
  BY HeadFailAnswers
<1>5. Fills(req'[w]) => req'[w].key = k
  <2> DEFINE r == Failed(k)[w]
  <2>1. /\ r \in RequestType /\ r.key = k /\ r.op \in Kinds
        /\ r.pin => r.op = "open"
    <3>1. req[w].pc = "head"
      BY DEF HeadFail
    <3> QED
      BY <1>1, <3>1, FailedOK DEF RequestOK
  <2>2. CASE ~opts.noobj
    <3>1. PICK s \in Returns(r, 0) : req' = [Failed(k) EXCEPT ![w] = s]
      BY <1>1, <2>2 DEF Asked
    <3>2. req'[w] = s
      BY <3>1 DEF Failed
    <3> HIDE DEF r
    <3>3. s.pc = "done" \/ s.key = r.key
      BY <2>1, <3>1, Constants, ReturnsShape
    <3> QED
      BY <2>1, <3>2, <3>3 DEF Fills
  <2>3. CASE opts.noobj
    <3>1. req'[w] = [r EXCEPT !.pc = "look", !.ver = 0]
      BY <1>1, <2>3 DEF Asked, Failed
    <3> HIDE DEF r
    <3> QED
      BY <2>1, <3>1 DEF RequestType
  <2> QED
    BY <2>2, <2>3
<1>6. ASSUME NEW x \in Workers, Watched(req'[x])
      PROVE  Fresh(req[x])'
  <2>1. x # w
    BY <1>4, <1>6 DEF Watched
  <2>2. Fresh(req[x]) /\ req[x].key # k
    BY <1>3, <1>6, <2>1 DEF Watched, FreshInv
  <2>3. ASSUME NEW y \in Workers, Fills(req'[y]), req'[y].key = req[x].key
        PROVE  req'[y].ver >= req[x].start
    <3>1. y # w
      BY <1>5, <2>2, <2>3
    <3>2. Fills(req[y]) /\ req[y].key = req[x].key
      BY <1>3, <2>3, <3>1 DEF Fills
    <3> QED
      BY <1>3, <2>2, <3>1, <3>2 DEF Fresh
  <2>4. UNCHANGED Cached
    BY <1>1 DEF Cached
  <2>5. Found(req'[x]) => Found(req[x])
    BY <1>3, <2>1 DEF Found
  <2> QED
    BY <1>1, <1>3, <2>1, <2>2, <2>3, <2>4, <2>5 DEF Fresh, Fills, Found
<1> QED
  BY <1>6 DEF FreshInv, Watched

(* An open begins when nothing is on its way into the entry of its key.    *)
LEMMA BeginFresh ==
    ASSUME Inv, Inv', FreshInv, NEW w \in Workers,
           Getattr(w) \/ Open(w) \/ Close(w)
    PROVE  FreshInv'
<1>1. PICK op \in Kinds, k \in Keys, pc \in {"get", "clear"} :
        Begin(w, op, k, pc) /\ (op = "open" => pc = "clear")
  BY DEF Getattr, Open, Close, Kinds
<1> DEFINE s == [Idle EXCEPT !.op = op, !.pc = pc, !.key = k,
                             !.start = bucket[k],
                             !.alone = \A x \in Workers :
                                         Filling(x) => req[x].key # k]
<1>2. /\ req' = [req EXCEPT ![w] = s] /\ UNCHANGED cache
      /\ req[w].pc = "done"
  BY <1>1 DEF Begin
<1>3. /\ s.op = op /\ s.pc = pc /\ s.key = k /\ ~s.pin
      /\ s.alone <=> \A x \in Workers : Filling(x) => req[x].key # k
  BY DEF Idle
<1> HIDE DEF s
<1>4. req'[w] = s /\ \A x \in Workers : x # w => req'[x] = req[x]
  BY <1>2 DEF Inv, Typed
<1>5. ~Fills(req[w]) /\ ~Fills(s) /\ ~Found(s)
  BY <1>2, <1>3 DEF Fills, Found
<1>6. UNCHANGED Cached
  BY <1>2 DEF Cached
<1>7. ASSUME NEW x \in Workers, Watched(req'[x])
      PROVE  Fresh(req[x])'
  <2>1. CASE x = w
    <3>1. op = "open" /\ pc = "clear" /\ s.alone
      BY <1>1, <1>3, <1>4, <1>7, <2>1 DEF Watched
    <3>2. \A y \in Workers : Fills(req'[y]) => req'[y].key # k
      BY <1>3, <1>4, <1>5, <3>1 DEF Fills, Filling
    <3> QED
      BY <1>3, <1>4, <1>5, <2>1, <3>1, <3>2 DEF Fresh, Fills, Found
  <2>2. CASE x # w
    <3>1. Fresh(req[x]) /\ req'[x] = req[x]
      BY <1>4, <1>7, <2>2 DEF FreshInv
    <3>2. \A y \in Workers : Fills(req'[y]) => req'[y] = req[y]
      BY <1>4, <1>5
    <3> QED
      BY <1>2, <1>6, <3>1, <3>2 DEF Fresh, Fills, Found
  <2> QED
    BY <2>1, <2>2
<1> QED
  BY <1>7 DEF FreshInv, Watched

LEMMA FreshInductive == Inv /\ Inv' /\ FreshInv /\ [Next]_vars => FreshInv'
<1> SUFFICES ASSUME Inv, Inv', FreshInv, [Next]_vars
             PROVE  FreshInv'
  OBVIOUS
<1>1. ASSUME NEW w \in Workers, Operation(w)
      PROVE  FreshInv'
  <2>1. CASE Getattr(w) \/ Open(w) \/ Close(w)
    BY <2>1, BeginFresh
  <2>2. CASE req[w].pc # "done"
    BY <1>1, <2>2, OperationFresh, FreshStep
  <2> QED
    BY <1>1, <2>1, <2>2
       DEF Operation, Clear, OpenFd, OpenFdFail, Undo, Release
<1>2. ASSUME NEW w \in Workers, GetObjectAttribute(w)
      PROVE  FreshInv'
  <2>1. CASE HeadFail(w)
    BY <2>1, HeadFailFresh
  <2>2. CASE ~HeadFail(w)
    BY <1>2, <2>2, SectionFresh, FreshStep
  <2> QED
    BY <2>1, <2>2
<1>3. CASE UNCHANGED <<cache, req>>
  BY <1>3 DEF FreshInv, Watched, Fresh, Fills, Found, Cached
<1> QED
  BY <1>1, <1>2, <1>3 DEF Next, Put, Tick, vars

(* The attributes that an open gives, those in st whose size it takes and  *)
(* those it answers and pins, are not older than the call, and the         *)
(* DelStat at its start is what makes them so: unless another thread was   *)
(* then between its HEAD and its AddStat of the same object (s3fs_open).   *)
THEOREM OpensAreFresh == Spec => OpenFresh
<1>1. Init => FreshInv
  BY DEF Init, Idle, FreshInv, Watched
<1>2. Inv /\ FreshInv /\ [Next]_vars =>
        [\A w \in Workers :
           Answers(w) /\ req[w].op = "open" /\ req[w].alone /\ ~req'[w].failed
             => /\ req'[w].first >= req[w].start
                /\ req'[w].ans >= req[w].start]_vars
  <2> SUFFICES ASSUME Inv, Inv', FreshInv, Next, NEW w \in Workers, Answers(w),
                      req[w].op = "open", req[w].alone, ~req'[w].failed
               PROVE  /\ req'[w].first >= req[w].start
                      /\ req'[w].ans >= req[w].start
    BY InvInductive
  <2> DEFINE r == req[w]
  <2>1. r.pc # "done" /\ req'[w].pc = "done"
    BY DEF Answers
  <2>2. Operation(w) \/ GetObjectAttribute(w)
    <3>1. \A x \in Workers : Operation(x) \/ GetObjectAttribute(x) => x = w
      BY <2>1, OwnAnswer
    <3> QED
      BY <2>1, <3>1 DEF Next, Put, Tick
  <2>3. ~HeadFail(w)
    BY HeadFailAnswers
  <2>4. RequestEffect(w)
    BY <2>1, <2>2, <2>3, OperationFresh, SectionFresh
  <2>5. Watched(r) /\ Fresh(r)
    <3>1. r.failed = req'[w].failed
      BY <2>4 DEF RequestEffect
    <3> QED
      BY <3>1 DEF Watched, FreshInv
  <2>6. req'[w].ans \in Versions /\ RequestOK(r)
    BY OfThread DEF Inv, Typed, RequestType
  <2>7. \/ r.pc \in {"fd", "undo", "release"} /\ req'[w].ans = r.ans
        \/ Learned(w, req'[w].ans)
    BY <2>1, <2>4 DEF RequestEffect
  <2>8. req'[w].ans >= r.start
    <3>1. CASE r.pc \in {"fd", "undo", "release"} /\ req'[w].ans = r.ans
      <4>1. r.pc # "release"
        BY <2>5, <2>6 DEF RequestOK, Watched
      <4> QED
        BY <2>5, <3>1, <4>1 DEF Fresh
    <3> QED
      BY <2>5, <2>6, <2>7, <3>1, WatchedLearns
  <2>9. req'[w].first >= r.start
    <3>1. /\ req'[w].first = r.first /\ (r.pin \/ req'[w].ans = 0)
          /\ r.first \in Nat /\ r.start \in Nat
      BY <2>1, <2>4, OfThread, Constants DEF RequestEffect, RequestType
    <3>2. r.pin => r.first >= r.start
      BY <2>5 DEF Fresh
    <3> QED
      BY <2>8, <3>1, <3>2
  <2> QED
    BY <2>8, <2>9
<1> QED
  BY <1>1, <1>2, InvInit, InvInductive, FreshInductive, PTL
     DEF Spec, OpenFresh
----------------------------------------------------------------------------
(* What the truncation selects.                                            *)

(* A set that holds 0 and with every number the next holds the numbers.    *)
LEMMA Climb ==
    ASSUME NEW n \in Nat, NEW S, 0 \in S,
           \A i \in 1 .. n : i - 1 \in S => i \in S
    PROVE  n \in S
<1> DEFINE T == (0 .. n) \ S
           R == OpToRel(<, Nat)
<1>1. \A x, y \in Nat : x < y => <<x, y>> \in R
  BY DEF OpToRel
<1>2. SUFFICES ASSUME T # {}
               PROVE  FALSE
  OBVIOUS
<1>3. T \subseteq Nat
  OBVIOUS
<1>4. IsWellFoundedOn(R, Nat)
  BY NatLessThanWellFounded
<1> HIDE DEF R
<1>5. PICK x \in T : \A y \in T : ~ (<<y, x>> \in R)
  <2> HIDE DEF T
  <2> QED
    BY <1>2, <1>3, <1>4, WFMin
<1>6. x \in 1 .. n
  OBVIOUS
<1>7. x - 1 \in T
  BY <1>6
<1>8. x \in Nat /\ x - 1 \in Nat /\ x - 1 < x
  BY <1>6
<1>9. <<x - 1, x>> \in R
  BY <1>1, <1>8
<1> QED
  BY <1>5, <1>7, <1>9

First(ks) == Selection(Cardinality(ks) - opts.size + 1, {})

(* The selections after each of the first n keys.                          *)
IsRun(g, n, ks) ==
    g = [k \in 0 .. n |-> IF k = 0 THEN {First(ks)}
                          ELSE IF k \in ks THEN Consider(g[k - 1], k)
                          ELSE g[k - 1]]

LEMMA RunExists ==
    ASSUME NEW ks, NEW n \in Nat
    PROVE  \E g : IsRun(g, n, ks)
<1> DEFINE S == {i \in Nat : \E g : IsRun(g, i, ks)}
<1>1. 0 \in S
  <2> DEFINE g == [k \in 0 .. 0 |-> {First(ks)}]
  <2>1. IsRun(g, 0, ks)
    BY DEF IsRun
  <2> QED
    BY <2>1
<1>2. ASSUME NEW i \in 1 .. n, i - 1 \in S
      PROVE  i \in S
  <2>1. PICK g : IsRun(g, i - 1, ks)
    BY <1>2
  <2> DEFINE last == IF i \in ks THEN Consider(g[i - 1], i) ELSE g[i - 1]
             h == [k \in 0 .. i |-> IF k = i THEN last ELSE g[k]]
             step(f, k) == IF k = 0 THEN {First(ks)}
                           ELSE IF k \in ks THEN Consider(f[k - 1], k)
                           ELSE f[k - 1]
  <2>2. \A k \in 0 .. i - 1 : g[k] = step(g, k)
    BY <2>1 DEF IsRun
  <2>3. ASSUME NEW k \in 0 .. i
        PROVE  h[k] = step(h, k)
    <3>1. CASE k = i
      <4>1. h[k] = last /\ k # 0 /\ h[k - 1] = g[i - 1]
        BY <3>1
      <4> QED
        BY <3>1, <4>1
    <3>2. CASE k # i
      <4>1. k \in 0 .. i - 1 /\ h[k] = g[k]
        BY <3>2
      <4>2. k # 0 => h[k - 1] = g[k - 1]
        BY <4>1
      <4> QED
        BY <2>2, <4>1, <4>2
    <3> QED
      BY <3>1, <3>2
  <2>4. h = [k \in 0 .. i |-> step(h, k)]
    <3>1. h = [k \in 0 .. i |-> h[k]]
      OBVIOUS
    <3> HIDE DEF h, step
    <3> QED
      BY <2>3, <3>1
  <2>5. IsRun(h, i, ks)
    <3> HIDE DEF h
    <3> QED
      BY <2>4 DEF IsRun
  <2> QED
    BY <2>5
<1> QED
  <2>1. n \in S
    <3> HIDE DEF S
    <3> QED
      BY <1>1, <1>2, Climb
  <2> QED
    BY <2>1

LEMMA SelectionsRun ==
    ASSUME NEW ks
    PROVE  IsRun(Selections(ks), NKeys, ks)
<1>1. PICK g : IsRun(g, NKeys, ks)
  BY CacheAssumption, RunExists DEF CacheAssumption
<1>2. g = [k \in 0 .. NKeys |->
             IF k = 0 THEN {Selection(Cardinality(ks) - opts.size + 1, {})}
             ELSE IF k \in ks THEN Consider(g[k - 1], k) ELSE g[k - 1]]
  BY <1>1 DEF IsRun, First
<1> QED
  BY <1>2, Zenon DEF Selections, IsRun, First

LEMMA SelectionsSteps ==
    ASSUME NEW ks
    PROVE  /\ Selections(ks)[0] = {First(ks)}
           /\ \A k \in 1 .. NKeys :
                Selections(ks)[k] = IF k \in ks
                                    THEN Consider(Selections(ks)[k - 1], k)
                                    ELSE Selections(ks)[k - 1]
<1> DEFINE s == Selections(ks)
<1>1. s = [k \in 0 .. NKeys |-> IF k = 0 THEN {First(ks)}
                                ELSE IF k \in ks THEN Consider(s[k - 1], k)
                                ELSE s[k - 1]]
  BY SelectionsRun DEF IsRun
<1>2. NKeys \in Nat
  BY CacheAssumption DEF CacheAssumption
<1> HIDE DEF s
<1>3. \A k \in 0 .. NKeys : s[k] = IF k = 0 THEN {First(ks)}
                                ELSE IF k \in ks THEN Consider(s[k - 1], k)
                                ELSE s[k - 1]
  BY <1>1
<1> QED
  BY <1>2, <1>3 DEF s

LEMMA SelectionFields ==
    ASSUME NEW n, NEW l
    PROVE  Selection(n, l).count = n /\ Selection(n, l).out = l
  BY DEF Selection

(* What one entry does to a selection.                                     *)
Extends(s, sel, k) ==
    LET l == sel.out \cup {k} IN
    /\ s.count = Left(sel, k)
    /\ \/ /\ s.count < Cardinality(l)
          /\ \E o \in Outliers(l) : s.out = l \ {o}
       \/ ~(s.count < Cardinality(l)) /\ s.out = l

LEMMA Considered ==
    ASSUME NEW sels, NEW k, NEW s \in Consider(sels, k)
    PROVE  \E sel \in sels : Extends(s, sel, k)
<1> DEFINE n(sel) == Left(sel, k)
           l(sel) == sel.out \cup {k}
           of(sel) == IF n(sel) < Cardinality(l(sel))
                        THEN {Selection(n(sel), l(sel) \ {o}) :
                                o \in Outliers(l(sel))}
                        ELSE {Selection(n(sel), l(sel))}
<1>1. Consider(sels, k) = UNION {of(sel) : sel \in sels}
  BY DEF Consider
<1>2. PICK sel \in sels : s \in of(sel)
  <2> HIDE DEF of
  <2> QED
    BY <1>1
<1>3. CASE n(sel) < Cardinality(l(sel))
  <2>1. PICK o \in Outliers(l(sel)) : s = Selection(n(sel), l(sel) \ {o})
    BY <1>2, <1>3
  <2>2. s.count = n(sel) /\ s.out = l(sel) \ {o}
    BY <2>1, SelectionFields
  <2> QED
    BY <1>3, <2>2 DEF Extends
<1>4. CASE ~(n(sel) < Cardinality(l(sel)))
  <2>1. s = Selection(n(sel), l(sel))
    BY <1>2, <1>4
  <2>2. s.count = n(sel) /\ s.out = l(sel)
    BY <2>1, SelectionFields
  <2> QED
    BY <1>4, <2>2 DEF Extends
<1> QED
  BY <1>3, <1>4

LEMMA KeysFinite ==
    /\ NKeys \in Nat \ {0} /\ IsFiniteSet(Keys)
    /\ \A ks \in SUBSET Keys : IsFiniteSet(ks) /\ Cardinality(ks) \in Nat
<1>1. NKeys \in Nat \ {0}
  BY CacheAssumption DEF CacheAssumption
<1>2. 1 \in Int /\ NKeys \in Int
  BY <1>1
<1>3. IsFiniteSet(Keys)
  BY <1>2, FS_Interval DEF Keys
<1>4. \A ks \in SUBSET Keys : IsFiniteSet(ks)
  BY <1>3, FS_Subset
<1> QED
  BY <1>1, <1>3, <1>4, FS_CardinalityType

(* An entry joins the list of a selection, and with it another leaves it   *)
(* when the list is full.                                                  *)
LEMMA Sizes ==
    ASSUME NEW sel, NEW s, NEW k \in Nat \ {0}, Extends(s, sel, k),
           sel.out \subseteq 1 .. k - 1
    PROVE  LET m == Cardinality(sel.out) IN
           /\ m \in Nat
           /\ Cardinality(sel.out \cup {k}) = m + 1
           /\ s.count < m + 1 => Cardinality(s.out) = m
           /\ ~(s.count < m + 1) => Cardinality(s.out) = m + 1
<1> DEFINE m == Cardinality(sel.out)
           l == sel.out \cup {k}
<1>1. IsFiniteSet(sel.out) /\ m \in Nat
  <2>1. 1 \in Int /\ k - 1 \in Int
    OBVIOUS
  <2>2. IsFiniteSet(1 .. k - 1)
    BY <2>1, FS_Interval
  <2>3. IsFiniteSet(sel.out)
    BY <2>2, FS_Subset
  <2> QED
    BY <2>3, FS_CardinalityType
<1>2. IsFiniteSet(l) /\ Cardinality(l) = m + 1
  BY <1>1, FS_AddElement
<1>3. CASE s.count < m + 1
  <2>1. PICK o \in l : s.out = l \ {o}
    BY <1>2, <1>3 DEF Extends, Outliers
  <2>2. Cardinality(l \ {o}) = Cardinality(l) - 1
    BY <1>2, FS_RemoveElement
  <2> QED
    BY <1>1, <1>2, <1>3, <2>1, <2>2
<1>4. CASE ~(s.count < m + 1)
  BY <1>1, <1>2, <1>4 DEF Extends
<1> QED
  BY <1>1, <1>2, <1>3, <1>4

(* The list never shrinks, and it is cut short only when it is as long as  *)
(* the pins have left the count: at least half of what is over the size is *)
(* on it in the end.                                                       *)
Halving(s, k, ks, c) ==
    /\ s.count \in Nat
    /\ s.out \subseteq ks \cap (1 .. k)
    /\ \/ 2 * Cardinality(s.out) >= c - 1
       \/ Cardinality(s.out) + s.count >= c /\ s.out = ks \cap (1 .. k)

LEMMA HalvingStep ==
    ASSUME NEW ks, NEW k \in Nat \ {0}, k \in ks, NEW c \in Nat, NEW sel, NEW s,
           Halving(sel, k - 1, ks, c), Extends(s, sel, k)
    PROVE  Halving(s, k, ks, c)
<1> DEFINE m == Cardinality(sel.out)
<1>1. sel.out \subseteq 1 .. k - 1
  BY DEF Halving
<1>2. /\ m \in Nat
      /\ Cardinality(sel.out \cup {k}) = m + 1
      /\ s.count < m + 1 => Cardinality(s.out) = m
      /\ ~(s.count < m + 1) => Cardinality(s.out) = m + 1
  BY <1>1, Sizes
<1>3. sel.count \in Nat /\ s.count \in {sel.count, sel.count - 1} /\ s.count \in Nat
  BY DEF Halving, Extends, Left
<1>4. s.out \subseteq sel.out \cup {k}
  BY DEF Extends, Outliers
<1>5. sel.out \cup {k} \subseteq ks \cap (1 .. k)
  BY DEF Halving
<1>6. CASE 2 * m >= c - 1
  BY <1>2, <1>3, <1>4, <1>5, <1>6 DEF Halving
<1>7. CASE m + sel.count >= c /\ sel.out = ks \cap (1 .. k - 1)
  <2>1. sel.out \cup {k} = ks \cap (1 .. k)
    BY <1>7
  <2>2. ~(s.count < m + 1) => s.out = sel.out \cup {k}
    BY <1>2 DEF Extends
  <2> QED
    BY <1>2, <1>3, <1>4, <1>5, <1>7, <2>1, <2>2 DEF Halving
<1> QED
  BY <1>6, <1>7 DEF Halving

LEMMA SelectedHalf ==
    ASSUME NEW ks \in SUBSET Keys, opts.size \in Nat \ {0},
           Cardinality(ks) >= opts.size, NEW out \in Selected(ks)
    PROVE  out \subseteq ks /\ 2 * Cardinality(out) >= Cardinality(ks) - opts.size
<1> DEFINE c == Cardinality(ks) - opts.size + 1
           S == {k \in 0 .. NKeys : \A s \in Selections(ks)[k] :
                                      Halving(s, k, ks, c)}
<1>1. NKeys \in Nat /\ Cardinality(ks) \in Nat /\ c \in Nat
  BY KeysFinite
<1>2. 0 \in S
  <2>1. First(ks).count = c /\ First(ks).out = {}
    BY SelectionFields DEF First
  <2>2. Cardinality({}) = 0
    BY FS_EmptySet
  <2>3. Halving(First(ks), 0, ks, c)
    BY <1>1, <2>1, <2>2 DEF Halving
  <2> QED
    BY <1>1, <2>3, SelectionsSteps
<1>3. ASSUME NEW k \in 1 .. NKeys, k - 1 \in S
      PROVE  k \in S
  <2>1. ASSUME NEW s \in Selections(ks)[k]
        PROVE  Halving(s, k, ks, c)
    <3>1. CASE k \in ks
      <4>1. PICK sel \in Selections(ks)[k - 1] : Extends(s, sel, k)
        BY <2>1, <3>1, SelectionsSteps, Considered
      <4>2. Halving(sel, k - 1, ks, c)
        BY <1>3
      <4>3. k \in Nat \ {0}
        BY <1>1
      <4> HIDE DEF c
      <4> QED
        BY <1>1, <3>1, <4>1, <4>2, <4>3, HalvingStep
    <3>2. CASE k \notin ks
      <4>1. s \in Selections(ks)[k - 1]
        BY <2>1, <3>2, SelectionsSteps
      <4>2. Halving(s, k - 1, ks, c)
        BY <1>3, <4>1
      <4>3. ks \cap (1 .. k) = ks \cap (1 .. k - 1)
        BY <1>1, <3>2 DEF Keys
      <4> HIDE DEF c
      <4> QED
        BY <4>2, <4>3 DEF Halving
    <3> QED
      BY <3>1, <3>2
  <2> QED
    BY <2>1
<1>4. NKeys \in S
  <2> HIDE DEF S
  <2> QED
    BY <1>1, <1>2, <1>3, Climb
<1>5. PICK s \in Selections(ks)[NKeys] : out = s.out
  BY DEF Selected
<1>6. Halving(s, NKeys, ks, c)
  BY <1>4
<1>7. ks \cap (1 .. NKeys) = ks
  BY DEF Keys
<1>8. /\ out \subseteq ks
      /\ \/ 2 * Cardinality(out) >= c - 1
         \/ out = ks
  BY <1>5, <1>6, <1>7 DEF Halving
<1>9. c - 1 = Cardinality(ks) - opts.size
  BY <1>1
<1>10. Cardinality(out) \in Nat
  BY <1>8, KeysFinite
<1> QED
  BY <1>1, <1>8, <1>9, <1>10

(* Where nothing is pinned the count stays, and the list is of the oldest. *)
Ageing(s, k, ks, c) ==
    /\ s.count = c
    /\ s.out \subseteq ks \cap (1 .. k)
    /\ \A x \in s.out, y \in (ks \cap (1 .. k)) \ s.out :
         cache[x].date <= cache[y].date
    /\ \/ Cardinality(s.out) = c
       \/ Cardinality(s.out) <= c /\ s.out = ks \cap (1 .. k)

LEMMA AgeingStep ==
    ASSUME NEW ks \in SUBSET Keys, \A k \in Keys : cache[k].date \in Nat,
           NEW k \in ks, cache[k].pins = 0, NEW c \in Nat, NEW sel, NEW s,
           Ageing(sel, k - 1, ks, c), Extends(s, sel, k)
    PROVE  Ageing(s, k, ks, c)
<1> DEFINE m == Cardinality(sel.out)
           l == sel.out \cup {k}
           before == ks \cap (1 .. k - 1)
<1>0. k \in Nat \ {0} /\ NKeys \in Nat
  BY CacheAssumption DEF CacheAssumption, Keys
<1>1. sel.out \subseteq before /\ sel.out \subseteq 1 .. k - 1
  BY DEF Ageing
<1>2. /\ m \in Nat
      /\ Cardinality(l) = m + 1
      /\ s.count < m + 1 => Cardinality(s.out) = m
      /\ ~(s.count < m + 1) => Cardinality(s.out) = m + 1
  BY <1>0, <1>1, Sizes
<1>3. s.count = c
  BY DEF Ageing, Extends, Left
<1>4. ks \cap (1 .. k) = before \cup {k}
  BY <1>0
<1>5. CASE c < m + 1
  <2>1. PICK o \in Outliers(l) : s.out = l \ {o}
    BY <1>2, <1>3, <1>5 DEF Extends
  <2>2. o \in l /\ \A j \in l : cache[j].date <= cache[o].date
    BY <2>1 DEF Outliers
  <2>3. l \subseteq Keys /\ \A j \in l : cache[j].date \in Nat
    BY <1>1
  <2>4. \A x \in sel.out, y \in before \ sel.out :
          cache[x].date <= cache[y].date
    BY DEF Ageing
  <2>5. ASSUME NEW x \in s.out, NEW y \in (before \cup {k}) \ s.out
        PROVE  cache[x].date <= cache[y].date
    <3>1. CASE y = o
      BY <2>1, <2>2, <3>1
    <3>2. CASE y # o
      <4>1. y \in before \ sel.out /\ x \in l
        BY <2>1, <2>5, <3>2
      <4>2. CASE x \in sel.out
        BY <2>4, <4>1, <4>2
      <4>3. CASE x = k /\ x \notin sel.out
        <5>1. o \in sel.out
          BY <2>1, <2>2, <4>3
        <5>2. cache[o].date <= cache[y].date /\ cache[x].date <= cache[o].date
          BY <2>2, <2>4, <4>1, <5>1
        <5>3. /\ cache[x].date \in Nat /\ cache[o].date \in Nat
              /\ cache[y].date \in Nat
          BY <2>2, <2>3, <4>1
        <5> QED
          BY <5>2, <5>3
      <4> QED
        BY <4>1, <4>2, <4>3
    <3> QED
      BY <3>1, <3>2
  <2>6. Cardinality(s.out) = c
    BY <1>2, <1>3, <1>5 DEF Ageing
  <2> QED
    BY <1>1, <1>3, <1>4, <2>1, <2>5, <2>6 DEF Ageing
<1>6. CASE ~(c < m + 1)
  <2>1. s.out = l /\ Cardinality(s.out) = m + 1
    BY <1>2, <1>3, <1>6 DEF Extends
  <2>2. sel.out = before
    BY <1>2, <1>6 DEF Ageing
  <2> QED
    BY <1>2, <1>3, <1>4, <1>6, <2>1, <2>2 DEF Ageing
<1> QED
  BY <1>5, <1>6

LEMMA SelectedOldest ==
    ASSUME NEW ks \in SUBSET Keys, opts.size \in Nat \ {0},
           Cardinality(ks) >= opts.size, NEW out \in Selected(ks),
           \A k \in Keys : cache[k].date \in Nat /\ cache[k].pins = 0
    PROVE  /\ out \subseteq ks
           /\ Cardinality(out) = Cardinality(ks) - opts.size + 1
           /\ \A x \in out, y \in ks \ out : cache[x].date <= cache[y].date
<1> DEFINE c == Cardinality(ks) - opts.size + 1
           S == {k \in 0 .. NKeys : \A s \in Selections(ks)[k] :
                                      Ageing(s, k, ks, c)}
<1>1. NKeys \in Nat /\ Cardinality(ks) \in Nat /\ c \in Nat
  BY KeysFinite
<1>2. 0 \in S
  <2>1. First(ks).count = c /\ First(ks).out = {}
    BY SelectionFields DEF First
  <2>2. Cardinality({}) = 0
    BY FS_EmptySet
  <2>3. Ageing(First(ks), 0, ks, c)
    BY <1>1, <2>1, <2>2 DEF Ageing
  <2> QED
    BY <1>1, <2>3, SelectionsSteps
<1>3. ASSUME NEW k \in 1 .. NKeys, k - 1 \in S
      PROVE  k \in S
  <2>1. ASSUME NEW s \in Selections(ks)[k]
        PROVE  Ageing(s, k, ks, c)
    <3>1. CASE k \in ks
      <4>1. PICK sel \in Selections(ks)[k - 1] : Extends(s, sel, k)
        BY <2>1, <3>1, SelectionsSteps, Considered
      <4>2. Ageing(sel, k - 1, ks, c)
        BY <1>3
      <4> HIDE DEF c
      <4> QED
        BY <1>1, <3>1, <4>1, <4>2, AgeingStep
    <3>2. CASE k \notin ks
      <4>1. s \in Selections(ks)[k - 1]
        BY <2>1, <3>2, SelectionsSteps
      <4>2. Ageing(s, k - 1, ks, c)
        BY <1>3, <4>1
      <4>3. ks \cap (1 .. k) = ks \cap (1 .. k - 1)
        BY <1>1, <3>2 DEF Keys
      <4> HIDE DEF c
      <4> QED
        BY <4>2, <4>3 DEF Ageing
    <3> QED
      BY <3>1, <3>2
  <2> QED
    BY <2>1
<1>4. NKeys \in S
  <2> HIDE DEF S
  <2> QED
    BY <1>1, <1>2, <1>3, Climb
<1>5. PICK s \in Selections(ks)[NKeys] : out = s.out
  BY DEF Selected
<1>6. Ageing(s, NKeys, ks, c)
  BY <1>4
<1>7. ks \cap (1 .. NKeys) = ks
  BY DEF Keys
<1>8. Cardinality(out) = c
  <2>1. \/ Cardinality(out) = c
        \/ Cardinality(out) <= c /\ out = ks
    BY <1>5, <1>6, <1>7 DEF Ageing
  <2> QED
    BY <1>1, <2>1
<1> QED
  BY <1>5, <1>6, <1>7, <1>8 DEF Ageing
----------------------------------------------------------------------------
(* The bound of the cache.                                                 *)

(* A thread has seen that there is room, or has made it.                   *)
Adds(r) == r.pc = "add" \/ (r.pc = "drop" /\ r.then = "add")

Adding == {w \in Workers : Adds(req[w])}

(* The keys of the cache, and those about to be in it.                     *)
Claimed == Cached \cup {req[w].key : w \in Adding}

RoomInv == Cardinality(Claimed) < opts.size + 2 * Cardinality(Workers)

Counted ==
    /\ Claimed \subseteq Keys /\ Cached \subseteq Keys
    /\ Cardinality(Claimed) \in Nat /\ Cardinality(Cached) \in Nat
    /\ Cardinality(Workers) \in Nat /\ opts.size \in Nat \ {0}
    /\ Cardinality(Claimed) <= Cardinality(Cached) + Cardinality(Workers)

LEMMA ClaimedCounted == Inv => Counted
<1> SUFFICES ASSUME Inv PROVE Counted
  OBVIOUS
<1> DEFINE K == {req[w].key : w \in Adding}
<1>1. /\ IsFiniteSet(Workers) /\ Cardinality(Workers) \in Nat
      /\ opts.size \in Nat \ {0}
  BY CacheAssumption, FS_CardinalityType
     DEF CacheAssumption, Inv, Typed, OptionType
<1>2. K \subseteq Keys /\ Cached \subseteq Keys
  BY DEF Inv, Typed, RequestType, Adding, Cached
<1>3. /\ IsFiniteSet(Adding) /\ Cardinality(Adding) <= Cardinality(Workers)
      /\ Cardinality(Adding) \in Nat
  <2>1. Adding \subseteq Workers
    BY DEF Adding
  <2> QED
    BY <1>1, <2>1, FS_Subset, FS_CardinalityType
<1>4. IsFiniteSet(K) /\ Cardinality(K) <= Cardinality(Adding)
  <2> DEFINE f == [w \in Adding |-> req[w].key]
  <2>1. f \in Surjection(Adding, K)
    BY DEF Surjection
  <2> HIDE DEF f
  <2> QED
    BY <1>3, <2>1, FS_Surjection
<1>5. Claimed = Cached \cup K
  BY DEF Claimed
<1> HIDE DEF K
<1>6. /\ IsFiniteSet(Cached) /\ IsFiniteSet(Claimed)
      /\ Cardinality(Cached) \in Nat /\ Cardinality(Claimed) \in Nat
  BY <1>2, <1>5, KeysFinite
<1>7. Cardinality(K) \in Nat
  BY <1>4, FS_CardinalityType
<1>8. /\ Cardinality(Cached \cup K)
           = Cardinality(Cached) + Cardinality(K) - Cardinality(Cached \cap K)
      /\ Cardinality(Cached \cap K) \in Nat
  <2>1. IsFiniteSet(Cached \cap K)
    BY <1>6, FS_Subset
  <2> QED
    BY <1>4, <1>6, <2>1, FS_Union, FS_CardinalityType
<1> QED
  BY <1>1, <1>2, <1>3, <1>4, <1>5, <1>6, <1>7, <1>8 DEF Counted

LEMMA NextCounted == Inv' => Counted'
  BY ClaimedCounted, PTL

(* A step that claims no key keeps the bound.                              *)
LEMMA NoClaim ==
    ASSUME Inv, RoomInv, Claimed' \subseteq Claimed, UNCHANGED opts
    PROVE  RoomInv'
<1>1. IsFiniteSet(Claimed)
  BY ClaimedCounted, KeysFinite DEF Counted
<1>2. Cardinality(Claimed') <= Cardinality(Claimed)
  BY <1>1, FS_Subset
<1>3. Cardinality(Claimed') \in Nat
  BY <1>1, FS_Subset, FS_CardinalityType
<1> QED
  BY <1>2, <1>3, ClaimedCounted DEF RoomInv, Counted

(* Of those that do, one follows a look at the size, and one the making of *)
(* room.                                                                   *)
LEMMA EnoughRoom ==
    ASSUME Inv, Inv', UNCHANGED opts,
           Cardinality(Cached') < opts.size + Cardinality(Workers)
    PROVE  RoomInv'
<1>1. Counted /\ Counted'
  BY ClaimedCounted, NextCounted
<1> QED
  BY <1>1 DEF RoomInv, Counted

LEMMA Working ==
    ASSUME NEW w \in Workers
    PROVE  Cardinality(Workers) \in Nat \ {0}
  BY CacheAssumption, FS_CardinalityType, FS_EmptySet DEF CacheAssumption

(* A step of a thread that neither adds nor is to add claims nothing.      *)
LEMMA QuietClaims ==
    ASSUME Inv, NEW w \in Workers, CacheEffect(w),
           ~Fills(req[w]) \/ Adds(req[w]),
           \A x \in Workers : x # w => req'[x] = req[x],
           Adds(req'[w]) => Adds(req[w]) /\ req'[w].key = req[w].key
    PROVE  Claimed' \subseteq Claimed
<1>1. Cached' \subseteq Claimed
  <2>1. \A k \in Keys : k \in Cached' =>
          k \in Cached \/ (k = req[w].key /\ Adds(req[w]))
    BY DEF CacheEffect
  <2>2. Cached' \subseteq Keys
    BY DEF Cached
  <2> QED
    BY <2>1, <2>2 DEF Claimed, Adding
<1>2. ASSUME NEW x \in Workers, Adds(req'[x])
      PROVE  req'[x].key \in Claimed
  <2>1. Adds(req[x]) /\ req'[x].key = req[x].key
    BY <1>2
  <2> QED
    BY <2>1 DEF Claimed, Adding
<1> QED
  BY <1>1, <1>2 DEF Claimed, Adding

(* The truncation takes at least half of what is over the size.            *)
LEMMA TruncateRoom ==
    ASSUME Inv, Inv', RoomInv, NEW w \in Workers, TruncateCache(w)
    PROVE  RoomInv'
<1> DEFINE left == Cached \ OverTime
           size == opts.size
           W == Cardinality(Workers)
<1>1. PICK out \in Erased :
        cache' = [k \in Keys |-> IF k \in out THEN NoEntry ELSE cache[k]]
  BY DEF TruncateCache
<1>2. Cached' = Cached \ out /\ UNCHANGED opts
  BY <1>1 DEF Cached, TruncateCache
<1>3. Counted /\ W \in Nat \ {0}
  BY ClaimedCounted, Working
<1>4. /\ Cardinality(Cached) < size + 2 * W
      /\ Cardinality(left) \in Nat /\ Cardinality(left) <= Cardinality(Cached)
      /\ left \subseteq Keys /\ IsFiniteSet(left) /\ size \in Nat \ {0}
      /\ Cardinality(Cached) \in Nat
  <2>1. /\ Cached \subseteq Claimed /\ IsFiniteSet(Claimed)
        /\ IsFiniteSet(Cached) /\ left \subseteq Cached
    BY <1>3, KeysFinite DEF Claimed, Counted
  <2>2. Cardinality(Cached) <= Cardinality(Claimed)
    BY <2>1, FS_Subset
  <2>3. /\ IsFiniteSet(left) /\ Cardinality(left) <= Cardinality(Cached)
    BY <2>1, FS_Subset
  <2>4. Cardinality(left) \in Nat
    BY <2>3, FS_CardinalityType
  <2> QED
    BY <1>3, <2>1, <2>2, <2>3, <2>4 DEF RoomInv, Counted
<1>5. CASE Cardinality(left) < size
  <2>1. Cached' = left
    BY <1>1, <1>2, <1>5 DEF Erased
  <2>2. Cardinality(left) < size + W
    BY <1>3, <1>4, <1>5
  <2> QED
    BY <1>2, <2>1, <2>2, EnoughRoom
<1>6. CASE ~(Cardinality(left) < size)
  <2>1. PICK sel \in Selected(left) : out = OverTime \cup sel
    BY <1>1, <1>6 DEF Erased
  <2>2. Cached' = left \ sel
    BY <1>2, <2>1
  <2>3. /\ sel \subseteq left
        /\ 2 * Cardinality(sel) >= Cardinality(left) - size
    BY <1>4, <1>6, <2>1, SelectedHalf
  <2>4. /\ Cardinality(left \ sel) = Cardinality(left) - Cardinality(sel)
        /\ Cardinality(sel) \in Nat
    <3>1. left \cap sel = sel /\ IsFiniteSet(sel)
      BY <1>4, <2>3, FS_Subset
    <3> QED
      BY <1>4, <3>1, FS_Difference, FS_CardinalityType
  <2>5. Cardinality(left \ sel) < size + W
    BY <1>3, <1>4, <2>3, <2>4
  <2> QED
    BY <1>2, <2>2, <2>5, EnoughRoom
<1> QED
  BY <1>5, <1>6

LEMMA LookRoom ==
    ASSUME Inv, Inv', RoomInv, NEW w \in Workers, Look(w)
    PROVE  RoomInv'
<1> DEFINE k == req[w].key
<1>1. /\ UNCHANGED <<opts, cache>> /\ Cached' = Cached
      /\ k \in Keys /\ req[w] \in RequestType
  BY OfThread DEF Look, Cached
<1>2. /\ \A x \in Workers : x # w => req'[x] = req[x]
      /\ req'[w].key = k
  <2>1. \/ req' = [req EXCEPT ![w].pc = "drop", ![w].then = "add"]
        \/ \E pc : req' = [req EXCEPT ![w].pc = pc]
    BY DEF Look, DropThen, Goto
  <2> QED
    BY <1>1, <2>1 DEF Inv, Typed, RequestType
<1>3. CASE k \in Cached
  <2>1. Claimed' \subseteq Claimed
    <3>1. \A x \in Workers : x # w /\ Adds(req'[x])
            => Adds(req[x]) /\ req'[x].key = req[x].key
      BY <1>2
    <3> QED
      BY <1>1, <1>2, <1>3, <3>1 DEF Claimed, Adding
  <2> QED
    BY <1>1, <2>1, NoClaim
<1>4. CASE k \notin Cached /\ Oversize
  <2>1. req'[w].pc = "evict"
    BY <1>1, <1>4 DEF Look, Goto, Inv, Typed, RequestType
  <2>2. \A x \in Workers : Adds(req'[x])
            => Adds(req[x]) /\ req'[x].key = req[x].key
    BY <1>2, <2>1 DEF Adds
  <2>3. Claimed' \subseteq Claimed
    BY <1>1, <2>2 DEF Claimed, Adding
  <2> QED
    BY <1>1, <2>3, NoClaim
<1>5. CASE ~Oversize
  <2>1. Cardinality(Cached') <= opts.size
    BY <1>1, <1>5, ClaimedCounted DEF Oversize, Counted
  <2>2. Cardinality(Cached') < opts.size + Cardinality(Workers)
    BY <1>1, <2>1, ClaimedCounted, Working DEF Counted
  <2> QED
    BY <1>1, <2>2, EnoughRoom
<1> QED
  BY <1>3, <1>4, <1>5

(* Where the requests go from each section but the three that matter.      *)
LEMMA SectionGoes ==
    ASSUME Inv, NEW w \in Workers, GetObjectAttribute(w), ~HeadFail(w),
           ~Look(w), ~TruncateCache(w), Adds(req'[w])
    PROVE  Adds(req[w])
<1> DEFINE r == req[w]
<1>1. r \in RequestType /\ r.ver \in Versions /\ 0 \in Versions
  BY OfThread, Constants
<1>2. cache[r.key].ver \in Versions
  BY OfThread
<1>3. ASSUME NEW a \in Versions, Return(w, a), r.pc # "done"
      PROVE  FALSE
  <2>1. PICK s \in Returns(r, a) : req'[w] = s
    BY <1>3 DEF Return, Inv, Typed
  <2>2. s.pc \in {"done", "release", "fd", "get"}
    BY <1>3, <2>1, OfThread, ReturnsShape DEF RequestOK
  <2> QED
    BY <2>1, <2>2 DEF Adds
<1>4. ASSUME NEW pc, NEW ver, NEW then, pc \notin {"done", "add"},
             ~(pc = "drop" /\ then = "add"), r.pc # "done",
             req' = [req EXCEPT ![w] = Moved(r, pc, ver, then)]
      PROVE  FALSE
  <2>1. req'[w] = Moved(r, pc, ver, then)
    BY <1>4, OneMoves
  <2>2. req'[w].pc = pc /\ req'[w].then = then
    BY <1>1, <2>1 DEF Moved, RequestType
  <2> QED
    BY <1>4, <2>2 DEF Adds
<1>5. ASSUME NEW pc \in {"noobj", "head", "reget"}, Goto(w, pc), r.pc # "done"
      PROVE  FALSE
  <2>1. req' = [req EXCEPT ![w] = Moved(r, pc, r.ver, r.then)]
    BY <1>5, GotoIsMove
  <2> QED
    BY <1>4, <1>5, <2>1
<1>6. ASSUME NEW then \in {"noobj", "head", "return"}, DropThen(w, then),
             r.pc # "done"
      PROVE  FALSE
  <2>1. req'[w] = [r EXCEPT !.pc = "drop", !.then = then]
    BY <1>6 DEF DropThen, Inv, Typed
  <2>2. req'[w].pc = "drop" /\ req'[w].then = then
    BY <1>1, <2>1 DEF RequestType
  <2> QED
    BY <1>6, <2>2 DEF Adds
<1>7. ASSUME NEW pc \in {"change", "look"}, NEW ver, r.pc # "done",
             req' = [req EXCEPT ![w] = [r EXCEPT !.pc = pc, !.ver = ver]]
      PROVE  FALSE
  <2>1. [r EXCEPT !.pc = pc, !.ver = ver] = Moved(r, pc, ver, r.then)
    BY <1>1 DEF Moved, RequestType
  <2> QED
    BY <1>4, <1>7, <2>1
<1>8. AfterMiss \in {"noobj", "head"}
  BY DEF AfterMiss
<1>9. CASE GetStat(w)
  <2>1. /\ r.pc # "done"
        /\ \/ req' = [req EXCEPT ![w] = [r EXCEPT !.pc = "change",
                                                 !.ver = cache[r.key].ver]]
           \/ DropThen(w, AfterMiss)
           \/ Goto(w, AfterMiss)
    BY <1>9 DEF GetStat, Inv, Typed
  <2> QED
    BY <1>5, <1>6, <1>7, <1>8, <2>1
<1>10. CASE Change(w)
  BY <1>1, <1>3, <1>10 DEF Change
<1>11. CASE IsNoObjectCache(w)
  BY <1>1, <1>3, <1>5, <1>6, <1>11 DEF IsNoObjectCache
<1>12. CASE HeadRequest(w)
  <2>1. /\ r.pc # "done"
        /\ \/ Return(w, 0)
           \/ req' = [req EXCEPT ![w] = [r EXCEPT !.pc = "look",
                                                 !.ver = bucket[r.key]]]
    BY <1>12 DEF HeadRequest, Asked, Return, Inv, Typed
  <2> QED
    BY <1>1, <1>3, <1>7, <2>1
<1>13. CASE Add(w)
  BY <1>13 DEF Add, Adds
<1>14. CASE GetAdded(w)
  <2>1. /\ r.pc # "done"
        /\ \/ Return(w, cache[r.key].ver)
           \/ DropThen(w, "return")
           \/ Return(w, r.ver)
    BY <1>14 DEF GetAdded
  <2> QED
    BY <1>1, <1>2, <1>3, <1>6, <2>1
<1>15. CASE Drop(w)
  <2>1. r.pc = "drop" /\ r.then \in {"noobj", "head", "add", "return"}
    BY <1>15, OfThread, ThreadFields DEF Drop, RequestOK
  <2>2. CASE r.then = "return"
    BY <1>1, <1>3, <1>15, <2>1, <2>2 DEF Drop
  <2>3. CASE r.then # "return"
    <3>1. req'[w].pc = r.then
      BY <1>1, <1>15, <2>3 DEF Drop, Inv, Typed, RequestType
    <3> QED
      BY <2>1, <3>1 DEF Adds
  <2> QED
    BY <2>2, <2>3
<1> QED
  BY <1>9, <1>10, <1>11, <1>12, <1>13, <1>14, <1>15 DEF GetObjectAttribute

LEMMA SectionRoom ==
    ASSUME Inv, Inv', RoomInv, NEW w \in Workers, GetObjectAttribute(w),
           ~HeadFail(w)
    PROVE  RoomInv'
<1>1. CASE Look(w)
  BY <1>1, LookRoom
<1>2. CASE TruncateCache(w)
  BY <1>2, TruncateRoom
<1>3. CASE ~Look(w) /\ ~TruncateCache(w)
  <2>1. CacheEffect(w) /\ RequestEffect(w)
    BY SectionFresh
  <2>2. req[w].pc \notin {"look", "evict"} /\ UNCHANGED opts
    BY <1>3 DEF GetObjectAttribute, GetStat, Change, IsNoObjectCache,
       HeadRequest, Add, GetAdded, Drop, HeadFail
  <2>3. ~Fills(req[w]) \/ Adds(req[w])
    BY <2>2 DEF Fills, Adds
  <2>4. \A x \in Workers : x # w => req'[x] = req[x]
    BY <2>1 DEF RequestEffect
  <2>5. Adds(req'[w]) => Adds(req[w]) /\ req'[w].key = req[w].key
    <3>1. Adds(req'[w]) => req'[w].pc # "done"
      BY DEF Adds
    <3> QED
      BY <1>3, <2>1, <3>1, SectionGoes DEF RequestEffect
  <2> QED
    BY <2>1, <2>2, <2>3, <2>4, <2>5, QuietClaims, NoClaim
<1> QED
  BY <1>1, <1>2, <1>3

LEMMA HeadFailRoom ==
    ASSUME Inv, Inv', RoomInv, NEW w \in Workers, HeadFail(w)
    PROVE  RoomInv'
<1> DEFINE k == req[w].key
<1>1. /\ k \in Keys /\ UNCHANGED <<opts, cache>> /\ req[w].pc = "head"
      /\ Asked(w, Failed(k), 0)
  BY OfThread DEF HeadFail, Failed
<1>2. \A x \in Workers : x # w => req'[x] = Failed(k)[x]
  BY <1>1 DEF Asked, Failed
<1>3. ASSUME NEW x \in Workers, x # w
      PROVE  /\ req'[x].key = req[x].key /\ req'[x].pc = req[x].pc
             /\ req'[x].then = req[x].then
  BY <1>1, <1>2, <1>3, FailedOK
<1>4. ~Adds(req'[w])
  <2> DEFINE r == Failed(k)[w]
  <2>1. r \in RequestType /\ r.op \in Kinds /\ (r.pin => r.op = "open")
    BY <1>1, FailedOK DEF RequestOK
  <2>2. CASE ~opts.noobj
    <3>1. PICK s \in Returns(r, 0) : req' = [Failed(k) EXCEPT ![w] = s]
      BY <1>1, <2>2 DEF Asked
    <3>2. req'[w] = s
      BY <3>1 DEF Failed
    <3> HIDE DEF r
    <3>3. s.pc \in {"done", "release", "fd", "get"}
      BY <2>1, <3>1, Constants, ReturnsShape
    <3> QED
      BY <3>2, <3>3 DEF Adds
  <2>3. CASE opts.noobj
    <3>1. req'[w] = [r EXCEPT !.pc = "look", !.ver = 0]
      BY <1>1, <2>3 DEF Asked, Failed
    <3> HIDE DEF r
    <3> QED
      BY <2>1, <3>1 DEF RequestType, Adds
  <2> QED
    BY <2>2, <2>3
<1>5. Cached' = Cached
  BY <1>1 DEF Cached
<1>6. \A x \in Workers : Adds(req'[x])
        => Adds(req[x]) /\ req'[x].key = req[x].key
  BY <1>3, <1>4 DEF Adds
<1>7. Claimed' \subseteq Claimed
  BY <1>5, <1>6 DEF Claimed, Adding
<1> QED
  BY <1>1, <1>7, NoClaim

LEMMA OperationRoom ==
    ASSUME Inv, Inv', RoomInv, NEW w \in Workers, Operation(w)
    PROVE  RoomInv'
<1>1. UNCHANGED opts
  BY DEF Operation, Getattr, Open, Close, Begin, Clear, OpenFd, OpenFdFail,
     Undo, Release
<1>2. CASE Getattr(w) \/ Open(w) \/ Close(w)
  <2>1. PICK op \in Kinds, k \in Keys, pc \in {"get", "clear"} :
          Begin(w, op, k, pc)
    BY <1>2 DEF Getattr, Open, Close, Kinds
  <2>2. /\ \A x \in Workers : x # w => req'[x] = req[x]
        /\ req'[w].pc = pc /\ Cached' = Cached
    BY <2>1 DEF Begin, Inv, Typed, Idle, Cached
  <2>3. ~Adds(req'[w])
    BY <2>2 DEF Adds
  <2>4. \A x \in Workers : Adds(req'[x]) => req'[x] = req[x]
    BY <2>2, <2>3
  <2>5. Claimed' \subseteq Claimed
    BY <2>2, <2>4 DEF Claimed, Adding
  <2> QED
    BY <1>1, <2>5, NoClaim
<1>3. CASE ~(Getattr(w) \/ Open(w) \/ Close(w))
  <2>1. req[w].pc \in {"clear", "fd", "undo", "release"}
    BY <1>3 DEF Operation, Clear, OpenFd, OpenFdFail, Undo, Release
  <2>2. CacheEffect(w) /\ RequestEffect(w)
    BY <2>1, OperationFresh
  <2>3. ~Fills(req[w])
    BY <2>1 DEF Fills
  <2>4. req'[w].pc \in {"done", "get", "undo"}
    <3>1. \/ \E pc \in {"get", "undo"} : req'[w] = [req[w] EXCEPT !.pc = pc]
          \/ req'[w] = Over(req[w], req[w].ans)
      BY <1>3 DEF Operation, Clear, OpenFd, OpenFdFail, Undo, Release, Goto,
         Inv, Typed
    <3> QED
      BY <3>1, OfThread DEF Over, Idle, RequestType
  <2>5. ~Adds(req'[w])
    BY <2>4 DEF Adds
  <2>6. \A x \in Workers : x # w => req'[x] = req[x]
    BY <2>2 DEF RequestEffect
  <2> QED
    BY <1>1, <2>2, <2>3, <2>5, <2>6, QuietClaims, NoClaim
<1> QED
  BY <1>2, <1>3

LEMMA RoomInductive == Inv /\ Inv' /\ RoomInv /\ [Next]_vars => RoomInv'
<1> SUFFICES ASSUME Inv, Inv', RoomInv, [Next]_vars
             PROVE  RoomInv'
  OBVIOUS
<1>1. ASSUME NEW w \in Workers, Operation(w)
      PROVE  RoomInv'
  BY <1>1, OperationRoom
<1>2. ASSUME NEW w \in Workers, GetObjectAttribute(w)
      PROVE  RoomInv'
  BY <1>2, HeadFailRoom, SectionRoom
<1>3. CASE UNCHANGED <<opts, cache, req>>
  BY <1>3 DEF RoomInv, Claimed, Adding, Cached
<1> QED
  BY <1>1, <1>2, <1>3 DEF Next, Put, Tick, vars

LEMMA RoomInit == Init => RoomInv
<1> SUFFICES ASSUME Init PROVE RoomInv
  OBVIOUS
<1>1. Claimed = {}
  BY DEF Init, Claimed, Adding, Adds, Cached, Idle
<1>2. Cardinality({}) = 0 /\ Cardinality(Workers) \in Nat
  BY CacheAssumption, FS_EmptySet, FS_CardinalityType DEF CacheAssumption
<1>3. opts.size \in Nat \ {0}
  BY CacheAssumption DEF CacheAssumption, Init, OptionType
<1> QED
  BY <1>1, <1>2, <1>3 DEF RoomInv

(* However the threads interleave and whatever is pinned, the cache holds  *)
(* fewer entries than its size and two for each thread (TruncateCache and  *)
(* the sections around it).                                                *)
THEOREM CacheStaysBounded == Spec => []CacheBounded
<1>1. Inv /\ RoomInv => CacheBounded
  <2> SUFFICES ASSUME Inv, RoomInv PROVE CacheBounded
    OBVIOUS
  <2>1. Counted /\ IsFiniteSet(Claimed)
    BY ClaimedCounted, KeysFinite DEF Counted
  <2>2. Cardinality(Cached) <= Cardinality(Claimed)
    BY <2>1, FS_Subset DEF Claimed
  <2> QED
    BY <2>1, <2>2 DEF RoomInv, CacheBounded, Counted
<1> QED
  BY <1>1, InvInit, InvInductive, RoomInit, RoomInductive, PTL DEF Spec

(* Where nothing is pinned and nothing expires, a truncation leaves room   *)
(* for one entry and erases no entry that is younger than one that it      *)
(* leaves (TruncateCache).                                                 *)
THEOREM TruncationIsLru == Spec => EvictsOldest
<1>1. Inv /\ [Next]_vars =>
        [\A w \in Workers :
           LET out == Cached \ Cached' IN
           TruncateCache(w) /\ opts.expire < 0
             /\ Cardinality(Cached) >= opts.size
             /\ (\A k \in Keys : cache[k].pins = 0)
             => /\ Cardinality(Cached') = opts.size - 1
                /\ \A k \in out, j \in Cached' :
                     cache[k].date <= cache[j].date]_vars
  <2> SUFFICES ASSUME Inv, NEW w \in Workers, TruncateCache(w),
                      opts.expire < 0, Cardinality(Cached) >= opts.size,
                      \A k \in Keys : cache[k].pins = 0
               PROVE  /\ Cardinality(Cached') = opts.size - 1
                      /\ \A k \in Cached \ Cached', j \in Cached' :
                           cache[k].date <= cache[j].date
    OBVIOUS
  <2>1. PICK out \in Erased :
          cache' = [k \in Keys |-> IF k \in out THEN NoEntry ELSE cache[k]]
    BY DEF TruncateCache
  <2>2. Cached' = Cached \ out
    BY <2>1 DEF Cached
  <2>3. Counted /\ IsFiniteSet(Cached)
    BY ClaimedCounted, KeysFinite DEF Counted
  <2>4. OverTime = {}
    <3>1. opts.expire \in Int
      BY CacheAssumption DEF CacheAssumption, Inv, Typed, OptionType
    <3> QED
      BY <3>1 DEF OverTime, Expired
  <2>5. out \in Selected(Cached)
    BY <2>1, <2>3, <2>4 DEF Erased, Counted
  <2>6. \A k \in Keys : cache[k].date \in Nat
    BY Constants DEF Inv, Typed, EntryType
  <2>7. /\ out \subseteq Cached
        /\ Cardinality(out) = Cardinality(Cached) - opts.size + 1
        /\ \A x \in out, y \in Cached \ out : cache[x].date <= cache[y].date
    BY <2>3, <2>5, <2>6, SelectedOldest DEF Counted
  <2>8. Cardinality(Cached \ out) = Cardinality(Cached) - Cardinality(out)
    <3>1. Cached \cap out = out
      BY <2>7
    <3> QED
      BY <2>3, <3>1, FS_Difference
  <2> QED
    BY <2>2, <2>3, <2>7, <2>8 DEF Counted
<1> QED
  BY <1>1, InvInit, InvInductive, PTL DEF Spec, EvictsOldest
=============================================================================

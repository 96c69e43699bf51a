----------------------------- MODULE StatCache -----------------------------
(***************************************************************************)
(* The attributes s3fs keeps of the bucket's objects (s3fs-fuse cache.cpp) *)
(* as the file operations use them that the RTMP server needs to play a    *)
(* file under the mount: getattr, open and close for reading.  The bucket  *)
(* is written behind its back, by the PHP scripts.                         *)
(*                                                                         *)
(* Threads of FUSE interleave between the sections that hold               *)
(* stat_cache_lock and around each request to S3.  The bucket is flat, as  *)
(* the scripts fill it: there are no "name/" objects.                      *)
(***************************************************************************)
EXTENDS Integers, FiniteSets

CONSTANTS
    NKeys,      \* the objects are 1 .. NKeys, in the order of std::map
    Workers,    \* the threads of FUSE
    Options,    \* mount options, see OptionType
    Stored,     \* the versions in the bucket at the start
    MaxVersion, \* bound: versions of one object
    MaxTime,    \* bound: ticks of the clock
    MaxBegun,   \* bound: requests of each kind, under given options
    Faults      \* what may go wrong: "head", "fd"

(* max_stat_cache_size (1000 by default), stat_cache_expire (-1 when it is *)
(* not given) and enable_noobj_cache.                                      *)
OptionType == [size : Nat \ {0}, expire : Nat \cup {-1}, noobj : BOOLEAN]

Kinds == {"getattr", "open", "close"}

ASSUME CacheAssumption ==
    /\ NKeys \in Nat \ {0}
    /\ IsFiniteSet(Workers)
    /\ Options \subseteq OptionType
    /\ Stored \in [1 .. NKeys -> 0 .. MaxVersion]
    /\ MaxVersion \in Nat \ {0} /\ MaxTime \in Nat
    /\ MaxBegun \in [Options -> [Kinds -> Nat]]
    /\ Faults \subseteq {"head", "fd"}

Keys == 1 .. NKeys
Versions == 0 .. MaxVersion  \* 0: there is no such object

VARIABLES
    opts,     \* the options of the mount
    now,      \* the clock
    bucket,   \* key -> version in S3
    cache,    \* stat_cache
    handles,  \* key -> open file handles
    req,      \* the request of each thread
    begun     \* requests so far, for their bound

vars == <<opts, now, bucket, cache, handles, req, begun>>

NoEntry == [ver |-> 0, date |-> 0, pins |-> 0, noobj |-> FALSE]
Entry(v, pin) ==
    [ver |-> v, date |-> now, pins |-> IF pin THEN 1 ELSE 0, noobj |-> v = 0]

(* A thread between two requests.  pin is add_no_truncate_cache, ver what  *)
(* the HEAD found, then where the request goes after a DelStat; first is   *)
(* the version that the first lookup of an open left in st (zeroed when it *)
(* found none), ans the version answered, 0 for an error.  start, alone    *)
(* and failed are history: the version in S3 when the request began,       *)
(* whether no other request was filling in its key then, and whether a     *)
(* HEAD of its key failed since.                                           *)
Idle == [op |-> "none", pc |-> "done", key |-> 1, pin |-> FALSE, ver |-> 0,
         then |-> "none", first |-> 0, ans |-> 0, start |-> 0,
         alone |-> TRUE, failed |-> FALSE]

Init ==
    /\ opts \in Options
    /\ now = 0
    /\ bucket = Stored
    /\ cache = [k \in Keys |-> NoEntry]
    /\ handles = [k \in Keys |-> 0]
    /\ req = [w \in Workers |-> Idle]
    /\ begun = [op \in Kinds |-> 0]

Cached == {k \in Keys : cache[k] # NoEntry}

(* IsExpireStatCacheTime: the time has to be exceeded.                     *)
Expired(k) == opts.expire >= 0 /\ cache[k].date + opts.expire < now

(* The cache after DelStat.                                                *)
Without(k) == [cache EXCEPT ![k] = NoEntry]

(* A request that is over leaves what it found and the failure it met.     *)
Over(r, a) == [Idle EXCEPT !.first = r.first, !.ans = a, !.failed = r.failed]

Goto(w, pc) == req' = [req EXCEPT ![w].pc = pc]

----------------------------------------------------------------------------
(* The requests.                                                           *)

(* Between the HEAD and the insertion of what it found.                    *)
Filling(w) ==
    \/ req[w].pc \in {"look", "evict", "add"}
    \/ req[w].pc = "drop" /\ req[w].then = "add"

Begin(w, op, k, pc) ==
    /\ req[w].pc = "done"
    /\ begun[op] < MaxBegun[opts][op]
    /\ begun' = [begun EXCEPT ![op] = @ + 1]
    /\ req' = [req EXCEPT ![w] =
                [Idle EXCEPT !.op = op, !.pc = pc, !.key = k,
                             !.start = bucket[k],
                             !.alone = \A x \in Workers :
                                         Filling(x) => req[x].key # k]]
    /\ UNCHANGED <<opts, now, bucket, cache, handles>>

Getattr(w) == \E k \in Keys : Begin(w, "getattr", k, "get")

(* Slip: open does not clear the entry.                                    *)
OpenUncleared(w) == \E k \in Keys : Begin(w, "open", k, "get")

Open(w) == \E k \in Keys : Begin(w, "open", k, "clear")

Closing(k) == {w \in Workers : req[w].op = "close" /\ req[w].key = k
                                                   /\ req[w].pc # "done"}

Close(w) ==
    \E k \in Keys :
        /\ handles[k] > Cardinality(Closing(k))
        /\ Begin(w, "close", k, "get")

(* get_object_attribute returns, with the version a, 0 for an error, and   *)
(* its caller goes on: getattr is done.  open was at check_object_access,  *)
(* where a missing object ends it unless the directory may be written, or  *)
(* at reading the attributes that it pins.  close was at its flush.        *)
Returns(r, a) ==
    LET s == [r EXCEPT !.ans = a, !.ver = 0, !.then = "none"] IN
    CASE r.op = "getattr" -> {Over(r, a)}
      [] r.op = "close"   -> {[s EXCEPT !.pc = "release"]}
      [] r.op = "open" /\ r.pin  -> {[s EXCEPT !.pc = "fd"]}
      [] r.op = "open" /\ ~r.pin ->
           {[s EXCEPT !.pc = "get", !.pin = TRUE, !.first = a]}
             \cup {x \in {Over(r, 0)} : a = 0}

Return(w, a) == \E r \in Returns(req[w], a) : req' = [req EXCEPT ![w] = r]

(* The DelStat at the start of s3fs_open.                                  *)
Clear(w) ==
    /\ req[w].pc = "clear"
    /\ cache' = Without(req[w].key)
    /\ Goto(w, "get")
    /\ UNCHANGED <<opts, now, bucket, handles, begun>>

(* FdManager::Open, of the size in st and the attributes pinned.           *)
OpenFd(w) ==
    /\ req[w].pc = "fd"
    /\ handles' = [handles EXCEPT ![req[w].key] = @ + 1]
    /\ req' = [req EXCEPT ![w] = Over(@, @.ans)]
    /\ UNCHANGED <<opts, now, bucket, cache, begun>>

OpenFdFail(w) ==
    /\ "fd" \in Faults
    /\ req[w].pc = "fd"
    /\ Goto(w, "undo")
    /\ UNCHANGED <<opts, now, bucket, cache, handles, begun>>

Undo(w) ==
    /\ req[w].pc = "undo"
    /\ cache' = Without(req[w].key)
    /\ req' = [req EXCEPT ![w] = Over(@, @.ans)]
    /\ UNCHANGED <<opts, now, bucket, handles, begun>>

(* Slip: the count goes below zero.                                        *)
PinsUnchecked(k, b) ==
    IF cache[k] = NoEntry THEN 0
    ELSE IF b THEN cache[k].pins + 1 ELSE cache[k].pins - 1

(* ChangeNoTruncateFlag: the pins of the entry of k, if there is one.      *)
Pins(k, b) ==
    IF cache[k] = NoEntry THEN 0
    ELSE IF b THEN cache[k].pins + 1
    ELSE IF cache[k].pins > 0 THEN cache[k].pins - 1 ELSE 0

(* Slip: the pin stays when the file is closed.                            *)
ReleaseKeepingPin(w) ==
    /\ req[w].pc = "release"
    /\ handles' = [handles EXCEPT ![req[w].key] = @ - 1]
    /\ req' = [req EXCEPT ![w] = Over(@, @.ans)]
    /\ UNCHANGED <<opts, now, bucket, cache, begun>>

(* s3fs_release of a file open for reading.                                *)
Release(w) ==
    LET k == req[w].key IN
    /\ req[w].pc = "release"
    /\ cache' = [cache EXCEPT ![k].pins = Pins(k, FALSE)]
    /\ handles' = [handles EXCEPT ![k] = @ - 1]
    /\ req' = [req EXCEPT ![w] = Over(@, @.ans)]
    /\ UNCHANGED <<opts, now, bucket, begun>>

----------------------------------------------------------------------------
(* get_object_attribute, one section under stat_cache_lock at a time.      *)

(* The DelStat that a section asks for after it has given up the lock.     *)
DropThen(w, then) == req' = [req EXCEPT ![w].pc = "drop", ![w].then = then]

Drop(w) ==
    /\ req[w].pc = "drop"
    /\ cache' = Without(req[w].key)
    /\ IF req[w].then = "return"
         THEN Return(w, req[w].ver)
         ELSE req' = [req EXCEPT ![w].pc = req[w].then, ![w].then = "none"]
    /\ UNCHANGED <<opts, now, bucket, handles, begun>>

(* GetStat finds an entry that tells something of the object.  An entry    *)
(* that says there is none is a miss.                                      *)
Hit(k) == k \in Cached /\ ~Expired(k) /\ ~cache[k].noobj
Stale(k) == k \in Cached /\ Expired(k)

AfterMiss == IF opts.noobj THEN "noobj" ELSE "head"

(* The first GetStat.                                                      *)
GetStat(w) ==
    LET k == req[w].key IN
    /\ req[w].pc = "get"
    /\ \/ /\ Hit(k)
          /\ cache' = [cache EXCEPT ![k].date = now]
          /\ req' = [req EXCEPT ![w].pc = "change", ![w].ver = cache[k].ver]
       \/ Stale(k) /\ DropThen(w, AfterMiss) /\ UNCHANGED cache
       \/ ~Hit(k) /\ ~Stale(k) /\ Goto(w, AfterMiss) /\ UNCHANGED cache
    /\ UNCHANGED <<opts, now, bucket, handles, begun>>

(* ChangeNoTruncateFlag after a hit, with the flag of this request: a      *)
(* request that does not pin takes a pin away.                             *)
Change(w) ==
    LET k == req[w].key IN
    /\ req[w].pc = "change"
    /\ cache' = [cache EXCEPT ![k].pins = Pins(k, req[w].pin)]
    /\ Return(w, req[w].ver)
    /\ UNCHANGED <<opts, now, bucket, handles, begun>>

(* IsNoObjectCache, only looked at with enable_noobj_cache.                *)
IsNoObjectCache(w) ==
    LET k == req[w].key IN
    /\ req[w].pc = "noobj"
    /\ \/ /\ cache[k].noobj /\ ~Expired(k)
          /\ cache' = [cache EXCEPT ![k].date = now]
          /\ Return(w, 0)
       \/ Stale(k) /\ DropThen(w, "head") /\ UNCHANGED cache
       \/ ~cache[k].noobj /\ ~Stale(k) /\ Goto(w, "head") /\ UNCHANGED cache
    /\ UNCHANGED <<opts, now, bucket, handles, begun>>

(* After the HEAD: what is not there, or could not be asked for, goes into *)
(* the cache as absent, if that is enabled.                                *)
Asked(w, r, v) ==
    IF v = 0 /\ ~opts.noobj
      THEN \E s \in Returns(r[w], 0) : req' = [r EXCEPT ![w] = s]
      ELSE req' = [r EXCEPT ![w].pc = "look", ![w].ver = v]

HeadRequest(w) ==
    /\ req[w].pc = "head"
    /\ Asked(w, req, bucket[req[w].key])
    /\ UNCHANGED <<opts, now, bucket, cache, handles, begun>>

(* Any error but 404 (a timeout, a 503) is treated as 404 is.              *)
HeadFail(w) ==
    /\ "head" \in Faults
    /\ req[w].pc = "head"
    /\ Asked(w, [x \in Workers |-> [req[x] EXCEPT
                   !.failed = @ \/ req[x].key = req[w].key]], 0)
    /\ UNCHANGED <<opts, now, bucket, cache, handles, begun>>

(* Slip: the cache is cut down only when it is just over its size.         *)
OversizeOnce == Cardinality(Cached) = opts.size + 1

Oversize == Cardinality(Cached) > opts.size

(* The first section of AddStat and of AddNoObjectCache.                   *)
Look(w) ==
    LET k == req[w].key IN
    /\ req[w].pc = "look"
    /\ IF k \in Cached THEN DropThen(w, "add")
       ELSE Goto(w, IF Oversize THEN "evict" ELSE "add")
    /\ UNCHANGED <<opts, now, bucket, cache, handles, begun>>

----------------------------------------------------------------------------
(* TruncateCache.                                                          *)

(* Step 1 as it is written: of the entries over their time, only those     *)
(* that are pinned are erased.                                             *)
OverTime == {k \in Cached : cache[k].pins > 0 /\ Expired(k)}

(* Slip: the end of the list that is dropped is the old one.               *)
OutliersOldest(ks) == {k \in ks : \A j \in ks : cache[k].date <= cache[j].date}

(* What pop_back of the sorted list may drop: a youngest entry (hit_count, *)
(* which breaks ties, is left out of the model).                           *)
Outliers(ks) == {k \in ks : \A j \in ks : cache[j].date <= cache[k].date}

(* Step 3 goes through the map in order.  A selection is the number still  *)
(* to erase and the entries on the list; one entry leads from a set of     *)
(* possible selections to another.                                         *)
Selection(n, ks) == [count |-> n, out |-> ks]

Left(sel, k) ==
    IF cache[k].pins > 0 /\ sel.count > 0 THEN sel.count - 1 ELSE sel.count

Consider(sels, k) ==
    UNION {LET n  == Left(sel, k)
               ks == sel.out \cup {k}
           IN IF n < Cardinality(ks)
                THEN {Selection(n, ks \ {o}) : o \in Outliers(ks)}
                ELSE {Selection(n, ks)} : sel \in sels}

(* The possible selections among ks when the map is done up to each key.   *)
Selections(ks) ==
    LET first == Selection(Cardinality(ks) - opts.size + 1, {})
        sels[k \in 0 .. NKeys] ==
            IF k = 0 THEN {first}
            ELSE IF k \in ks THEN Consider(sels[k - 1], k) ELSE sels[k - 1]
    IN sels

Selected(ks) == {sel.out : sel \in Selections(ks)[NKeys]}

(* What one call may erase.                                                *)
Erased ==
    LET left == Cached \ OverTime IN
    IF Cardinality(left) < opts.size THEN {OverTime}
    ELSE {OverTime \cup out : out \in Selected(left)}

TruncateCache(w) ==
    /\ req[w].pc = "evict"
    /\ \E out \in Erased :
         cache' = [k \in Keys |-> IF k \in out THEN NoEntry ELSE cache[k]]
    /\ Goto(w, "add")
    /\ UNCHANGED <<opts, now, bucket, handles, begun>>

(* The last section of AddStat, and the GetStat that follows it; of        *)
(* AddNoObjectCache, after which the request is over.                      *)
Add(w) ==
    LET k == req[w].key
        v == req[w].ver
    IN
    /\ req[w].pc = "add"
    /\ cache' = [cache EXCEPT ![k] = Entry(v, req[w].pin /\ v # 0)]
    /\ IF v = 0 THEN Return(w, 0) ELSE Goto(w, "reget")
    /\ UNCHANGED <<opts, now, bucket, handles, begun>>

(* Slip: without an entry there is no such object.                         *)
GetAddedOnly(w) ==
    LET k == req[w].key IN
    /\ req[w].pc = "reget"
    /\ \/ /\ Hit(k)
          /\ cache' = [cache EXCEPT ![k].date = now]
          /\ Return(w, cache[k].ver)
       \/ Stale(k) /\ DropThen(w, "return") /\ UNCHANGED cache
       \/ ~Hit(k) /\ ~Stale(k) /\ Return(w, 0) /\ UNCHANGED cache
    /\ UNCHANGED <<opts, now, bucket, handles, begun>>

(* Without an entry the answer is made of the headers.                     *)
GetAdded(w) ==
    LET k == req[w].key IN
    /\ req[w].pc = "reget"
    /\ \/ /\ Hit(k)
          /\ cache' = [cache EXCEPT ![k].date = now]
          /\ Return(w, cache[k].ver)
       \/ Stale(k) /\ DropThen(w, "return") /\ UNCHANGED cache
       \/ ~Hit(k) /\ ~Stale(k) /\ Return(w, req[w].ver) /\ UNCHANGED cache
    /\ UNCHANGED <<opts, now, bucket, handles, begun>>

----------------------------------------------------------------------------
(* The rest of the world: a script puts an object, the clock ticks.        *)

Put(k) ==
    /\ bucket[k] < MaxVersion
    /\ bucket' = [bucket EXCEPT ![k] = @ + 1]
    /\ UNCHANGED <<opts, now, cache, handles, req, begun>>

Tick ==
    /\ now < MaxTime
    /\ now' = now + 1
    /\ UNCHANGED <<opts, bucket, cache, handles, req, begun>>

Operation(w) ==
    \/ Getattr(w) \/ Open(w) \/ Close(w)
    \/ Clear(w) \/ OpenFd(w) \/ OpenFdFail(w) \/ Undo(w) \/ Release(w)

GetObjectAttribute(w) ==
    \/ GetStat(w) \/ Change(w) \/ IsNoObjectCache(w)
    \/ HeadRequest(w) \/ HeadFail(w) \/ Look(w) \/ TruncateCache(w)
    \/ Add(w) \/ GetAdded(w) \/ Drop(w)

Next ==
    \/ \E w \in Workers : Operation(w) \/ GetObjectAttribute(w)
    \/ \E k \in Keys : Put(k)
    \/ Tick

Spec == Init /\ [][Next]_vars

----------------------------------------------------------------------------
(* Properties.                                                             *)

EntryType == [ver : Versions, date : 0 .. MaxTime, pins : Nat, noobj : BOOLEAN]

RequestType ==
    [op : Kinds \cup {"none"},
     pc : {"done", "clear", "get", "change", "noobj", "head", "look", "evict",
           "add", "reget", "drop", "fd", "undo", "release"},
     key : Keys, pin : BOOLEAN, ver : Versions,
     then : {"none", "noobj", "head", "add", "return"},
     first : Versions, ans : Versions, start : Versions, alone : BOOLEAN,
     failed : BOOLEAN]

(* The types of the variables; an entry says "no object" only where the    *)
(* option is on, and then carries no attributes (though it may be pinned,  *)
(* by an open that had a hit on the entry that it replaced).               *)
TypeOK ==
    /\ opts \in Options
    /\ now \in 0 .. MaxTime
    /\ bucket \in [Keys -> Versions]
    /\ cache \in [Keys -> EntryType]
    /\ handles \in [Keys -> Nat]
    /\ req \in [Workers -> RequestType]
    /\ begun \in [Kinds -> Nat]
    /\ \A k \in Keys : cache[k].noobj => opts.noobj /\ cache[k].ver = 0

(* However many threads look at the size at once and add afterwards, and   *)
(* whatever is pinned and so makes the truncation erase too little, the    *)
(* cache outgrows its size by less than twice the number of threads.       *)
CacheBounded ==
    Cardinality(Cached) < opts.size + 2 * Cardinality(Workers)

Answers(w) == req[w].pc # "done" /\ req'[w].pc = "done"

(* With the options that the site mounts with, an object that was in the   *)
(* bucket when a request for it began is never reported missing, unless S3 *)
(* failed to answer: a video just uploaded can be played at once.          *)
PublishedFound ==
    [][\A w \in Workers :
         Answers(w) /\ req[w].op \in {"getattr", "open"} /\ req[w].start > 0
           /\ ~req'[w].failed /\ ~opts.noobj
           => req'[w].ans > 0]_vars

(* Opening a file gives its attributes as they were at the call or newer,  *)
(* those whose size it is opened with and those that are pinned, unless    *)
(* another thread was then about to enter older ones, or a HEAD failed.    *)
OpenFresh ==
    [][\A w \in Workers :
         Answers(w) /\ req[w].op = "open" /\ req[w].alone /\ ~req'[w].failed
           => /\ req'[w].first >= req[w].start
              /\ req'[w].ans >= req[w].start]_vars

(* The opens of k that may have pinned its entry already.                  *)
Opening(k) ==
    {w \in Workers : /\ req[w].op = "open" /\ req[w].key = k
                     /\ req[w].pin /\ req[w].pc # "done"}

(* Every pin of an entry is of an open file or of an open in progress: an  *)
(* entry is not kept from the truncation after the last close.             *)
PinsBounded ==
    \A k \in Keys : cache[k].pins <= handles[k] + Cardinality(Opening(k))

(* Where nothing is pinned and nothing expires, the truncation makes just  *)
(* room for one entry, and erases none that is younger than one it keeps.  *)
EvictsOldest ==
    [][\A w \in Workers :
         LET out == Cached \ Cached' IN
         TruncateCache(w) /\ opts.expire < 0
           /\ Cardinality(Cached) >= opts.size
           /\ (\A k \in Keys : cache[k].pins = 0)
           => /\ Cardinality(Cached') = opts.size - 1
              /\ \A k \in out, j \in Cached' :
                   cache[k].date <= cache[j].date]_vars

(* Where comments have it otherwise: s3fs.cpp says of an entry with a pin  *)
(* that "This cached stats is only removed by DelStat()".                  *)
ClaimPinnedKept ==
    [][\A k \in Keys :
         cache[k].pins > 0 /\ k \notin Cached'
           => \E w \in Workers : /\ req[w].pc \in {"clear", "drop", "undo"}
                                 /\ req[w].key = k /\ req'[w] # req[w]]_vars
=============================================================================

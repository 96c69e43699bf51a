------------------------- MODULE FrameThreadsProofs -------------------------
(* Proofs about the frame threads, for any number of threads, packets,     *)
(* seeks and faults and any codecs.                                        *)
EXTENDS FrameThreads, FiniteSetTheorems, WellFoundedInduction, TLAPS

----------------------------------------------------------------------------
(* Types.                                                                  *)
MainType ==
    [pc : {"create", "idle", "call", "prev", "prevAsleep", "collect",
           "collectAsleep", "park", "parkAsleep", "kill", "join", "freed"},
     plan : {"feed", "drain", "rewind", "last", "ended"},
     sent : Frames, rewinds : 0 .. MaxRewinds, made : 1 .. N, pkt : Frames,
     at : 0 .. N, err : Frames \cup {None}, got : BOOLEAN]
RingType ==
    [next_decoding : 0 .. N, next_finished : Threads, delaying : BOOLEAN,
     prev : Threads \cup {None}, die : BOOLEAN]
ContextType == [held : SUBSET Packets, last : Frames]
ThreadType ==
    [pc : {"none", "check", "wait", "woken", "setup", "decode", "starved",
           "finish", "exit"},
     state : {"INPUT_READY", "SETTING_UP", "SETUP_FINISHED"},
     pkt : Frames, ref : Frames, out : Frames, result : Frames,
     ctx : ContextType]
HistType ==
    [decoded : SUBSET Packets, returned : Seq(Packets), lost : SUBSET Packets,
     failed : SUBSET Packets, reported : SUBSET Packets,
     faults : 0 .. MaxFaults]

Typed ==
    /\ codec \in Codecs
    /\ main \in MainType
    /\ fctx \in RingType
    /\ th \in [Threads -> ThreadType]
    /\ prog \in [Frames -> BOOLEAN]
    /\ hist \in HistType

(* What the caller is at.                                                  *)
Calling == main.pc \in {"call", "prev", "prevAsleep"}
Collecting == main.pc \in {"collect", "collectAsleep"}
Parking == main.pc \in {"park", "parkAsleep"}
Ending == main.pc \in {"kill", "join", "freed"}
Running == main.pc = "idle" \/ Calling \/ Collecting

(* The call hands its packet to a thread.                                  *)
Submits == main.pkt # 0 \/ codec.cap

(* The packet of this call is with a thread already.                       *)
Handed == Collecting /\ Submits

(* Where at and next_decoding point, and which plan goes with which place. *)
Places ==
    /\ main.pc = "create" => main.at < N
    /\ Collecting => main.at \in Threads /\ main.err \in Frames
    /\ Parking => main.at <= main.made
    /\ main.pc = "parkAsleep" => main.at < main.made
    /\ main.pc \in {"kill", "join"} => main.at < main.made
    /\ ~Handed => fctx.next_decoding \in Threads
    /\ main.pc = "idle" => main.plan \in {"feed", "drain", "ended"}
    /\ Calling \/ Collecting =>
         IF main.pkt = 0 THEN main.plan \in {"drain", "rewind", "last"}
                         ELSE main.plan = "feed"
    /\ main.pc \in {"prev", "prevAsleep"} => Submits

Base == Typed /\ Places

(* The smallest of some numbers is one of them.                            *)
LEMMA LowestIs ==
    ASSUME NEW S, S \subseteq Nat, S # {}
    PROVE  Lowest(S) \in S /\ \A j \in S : Lowest(S) <= j
<1>1. \E k \in S : \A j \in S : ~ (<<j, k>> \in OpToRel(<, Nat))
  BY NatLessThanWellFounded, WFMin
<1>2. PICK k \in S : \A j \in S : ~ (<<j, k>> \in OpToRel(<, Nat))
  BY <1>1
<1>3. ASSUME NEW j \in S
      PROVE  k <= j
  <2>1. <<j, k>> \in Nat \X Nat /\ ~ (<<j, k>> \in OpToRel(<, Nat))
    BY <1>2
  <2>2. ~ (j < k)
    BY <2>1 DEF OpToRel
  <2>3. j \in Nat /\ k \in Nat
    OBVIOUS
  <2> QED
    BY <2>2, <2>3
<1> QED
  BY <1>3 DEF Lowest

(* The numbers.                                                            *)
LEMMA Numbers ==
    /\ N \in Nat /\ N >= 2 /\ MaxPackets \in Nat /\ MaxRewinds \in Nat
    /\ MaxFaults \in Nat
    /\ Threads = 0 .. N - 1 /\ Packets = 1 .. MaxPackets
    /\ Frames = 0 .. MaxPackets /\ None = -1
    /\ \A c \in Codecs : /\ c \in CodecType
                         /\ c.delay > 0 => c.cap
                         /\ c.cap => c.shared
  BY FrameAssumption DEF FrameAssumption, Threads, Packets, Frames, None

(* The fields of the records.                                              *)
LEMMA ThreadFields ==
    ASSUME Typed, NEW t \in Threads
    PROVE  /\ th[t].pc \in {"none", "check", "wait", "woken", "setup", "decode",
                            "starved", "finish", "exit"}
           /\ th[t].state \in {"INPUT_READY", "SETTING_UP", "SETUP_FINISHED"}
           /\ th[t].pkt \in Frames /\ th[t].ref \in Frames
           /\ th[t].out \in Frames /\ th[t].result \in Frames
           /\ th[t].ctx \in ContextType
           /\ th[t].ctx.held \subseteq Packets /\ th[t].ctx.last \in Frames
<1>1. th[t] \in ThreadType
  BY DEF Typed
<1>2. th[t].ctx \in ContextType
  BY <1>1 DEF ThreadType
<1> QED
  BY <1>1, <1>2 DEF ThreadType, ContextType

LEMMA MainFields ==
    ASSUME Typed
    PROVE  /\ main.pc \in {"create", "idle", "call", "prev", "prevAsleep",
                           "collect", "collectAsleep", "park", "parkAsleep",
                           "kill", "join", "freed"}
           /\ main.plan \in {"feed", "drain", "rewind", "last", "ended"}
           /\ main.sent \in Frames /\ main.rewinds \in 0 .. MaxRewinds
           /\ main.made \in 1 .. N /\ main.pkt \in Frames
           /\ main.at \in 0 .. N /\ main.err \in Frames \cup {None}
           /\ main.got \in BOOLEAN
  BY DEF Typed, MainType

LEMMA RingFields ==
    ASSUME Typed
    PROVE  /\ fctx.next_decoding \in 0 .. N /\ fctx.next_finished \in Threads
           /\ fctx.delaying \in BOOLEAN /\ fctx.die \in BOOLEAN
           /\ fctx.prev \in Threads \cup {None}
           /\ codec \in CodecType
  BY Numbers DEF Typed, RingType

LEMMA HistFields ==
    ASSUME Typed
    PROVE  /\ hist.decoded \subseteq Packets /\ hist.returned \in Seq(Packets)
           /\ hist.lost \subseteq Packets /\ hist.failed \subseteq Packets
           /\ hist.reported \subseteq Packets /\ hist.faults \in 0 .. MaxFaults
  BY DEF Typed, HistType

(* Going round the ring.                                                   *)
LEMMA Around ==
    /\ \A t \in Threads : (t + 1) % N = IF t = N - 1 THEN 0 ELSE t + 1
    /\ \A d \in 0 .. N : d % N = IF d = N THEN 0 ELSE d
  BY Numbers, SMT

----------------------------------------------------------------------------
(* What a step does, field by field.                                       *)

(* Nothing of thread u changes but, perhaps, that it is woken by the       *)
(* report of the frame it waits for.                                       *)
Kept(u) ==
    /\ th'[u].state = th[u].state /\ th'[u].pkt = th[u].pkt
    /\ th'[u].ctx = th[u].ctx /\ th'[u].ref = th[u].ref
    /\ th'[u].out = th[u].out /\ th'[u].result = th[u].result
Beside(u, k) ==
    /\ Kept(u)
    /\ th'[u].pc = IF th[u].pc = "starved" /\ th[u].ref = k
                   THEN "decode" ELSE th[u].pc
Others(t, k) == \A u \in Threads \ {t} : Beside(u, k)
OthersSame(t) == \A u \in Threads \ {t} : th'[u] = th[u]

(* Nothing of the caller changes but, perhaps, that it is woken.           *)
MainKept ==
    /\ main'.plan = main.plan /\ main'.sent = main.sent
    /\ main'.rewinds = main.rewinds /\ main'.made = main.made
    /\ main'.pkt = main.pkt /\ main'.at = main.at
    /\ main'.err = main.err /\ main'.got = main.got
MainProgress(t) ==
    /\ MainKept
    /\ main'.pc = IF main.pc = "prevAsleep" /\ fctx.prev = t
                  THEN "prev" ELSE main.pc
MainOutput(t) ==
    /\ MainKept
    /\ main'.pc = IF main.pc = "prevAsleep" /\ fctx.prev = t THEN "prev"
                  ELSE IF main.pc = "collectAsleep" /\ main.at = t
                       THEN "collect"
                       ELSE IF main.pc = "parkAsleep" /\ main.at = t
                            THEN "park" ELSE main.pc

LEMMA ProgressIs ==
    ASSUME Typed, NEW t, main' = MainOnProgress(t)
    PROVE  MainProgress(t) /\ main' \in MainType
  BY DEF Typed, MainType, MainOnProgress, MainProgress, MainKept

LEMMA OutputIs ==
    ASSUME Typed, NEW t, main' = MainOnOutput(t)
    PROVE  MainOutput(t) /\ main' \in MainType
  BY DEF Typed, MainType, MainOnOutput, MainOnProgress, MainOutput, MainKept

(* The thread that broadcasts is none of those that wait.                  *)
LEMMA BroadcastIs ==
    ASSUME Typed, NEW t \in Threads, NEW r \in ThreadType, r.pc # "starved",
           th' = Broadcast([th EXCEPT ![t] = r], t)
    PROVE  /\ th' \in [Threads -> ThreadType]
           /\ th'[t] = r
           /\ Others(t, r.pkt)
<1> DEFINE T == [th EXCEPT ![t] = r]
<1>1. T \in [Threads -> ThreadType] /\ T[t] = r
  BY DEF Typed
<1>2. \A u \in Threads \ {t} : T[u] = th[u]
  BY DEF Typed
<1> HIDE DEF T
<1>3. \A u \in Threads : th'[u] = IF T[u].pc = "starved" /\ T[u].ref = T[t].pkt
                                  THEN [T[u] EXCEPT !.pc = "decode"] ELSE T[u]
  BY DEF Broadcast, T
<1>4. \A u \in Threads : [T[u] EXCEPT !.pc = "decode"] \in ThreadType
  BY <1>1 DEF ThreadType
<1>5. th' \in [Threads -> ThreadType]
  BY <1>1, <1>4 DEF Broadcast, T
<1>6. th'[t] = r
  BY <1>1, <1>3
<1>7. ASSUME NEW u \in Threads \ {t}
      PROVE  Beside(u, r.pkt)
  <2>1. th[u] \in ThreadType
    BY DEF Typed
  <2>2. th'[u] = IF th[u].pc = "starved" /\ th[u].ref = r.pkt
                 THEN [th[u] EXCEPT !.pc = "decode"] ELSE th[u]
    BY <1>1, <1>2, <1>3
  <2> QED
    BY <2>1, <2>2 DEF Beside, Kept, ThreadType
<1> QED
  BY <1>5, <1>6, <1>7 DEF Others

(* What every step keeps of a thread's own fields.                         *)
Own(t, pc, state, out, ref, ctx, result) ==
    /\ th'[t].pc = pc /\ th'[t].state = state /\ th'[t].out = out
    /\ th'[t].ref = ref /\ th'[t].ctx = ctx /\ th'[t].result = result
    /\ th'[t].pkt = th[t].pkt

Moves(t, pc) ==
    /\ th' \in [Threads -> ThreadType]
    /\ th'[t].pc = pc /\ Kept(t)
    /\ OthersSame(t)

LEMMA MovesIs ==
    ASSUME Typed, NEW t \in Threads,
           NEW p \in {"none", "check", "wait", "woken", "setup", "decode",
                      "starved", "finish", "exit"},
           th' = [th EXCEPT ![t].pc = p]
    PROVE  Moves(t, p)
  BY DEF Typed, Moves, Kept, OthersSame, ThreadType

SleepDoes(t) ==
    /\ Looks(t) /\ ~fctx.die /\ th[t].state = "INPUT_READY"
    /\ Moves(t, "wait")
    /\ UNCHANGED <<codec, main, fctx, prog, hist>>
LEMMA SleepEffect ==
    ASSUME Typed, NEW t \in Threads, Sleep(t)
    PROVE  SleepDoes(t)
  BY MovesIs DEF Sleep, SleepDoes

ExitDoes(t) ==
    /\ Looks(t) /\ fctx.die
    /\ Moves(t, "exit")
    /\ UNCHANGED <<codec, main, fctx, prog, hist>>
LEMMA ExitEffect ==
    ASSUME Typed, NEW t \in Threads, Exit(t)
    PROVE  ExitDoes(t)
  BY MovesIs DEF Exit, ExitDoes

StartDoes(t) ==
    /\ Looks(t) /\ ~fctx.die /\ th[t].state # "INPUT_READY"
    /\ th' \in [Threads -> ThreadType]
    /\ Own(t, "setup", th[t].state, 0, th[t].ref, th[t].ctx, th[t].result)
    /\ OthersSame(t)
    /\ UNCHANGED <<codec, main, fctx, prog, hist>>
LEMMA StartEffect ==
    ASSUME Typed, NEW t \in Threads, Start(t)
    PROVE  StartDoes(t)
<1>1. th[t] \in ThreadType /\ 0 \in Frames
  BY Numbers DEF Typed
<1> QED
  BY <1>1 DEF Typed, Start, StartDoes, ThreadType, Own, OthersSame

(* Fields of the histories.                                                *)
HistIs(decoded, returned, lost, failed, reported, faults) ==
    /\ hist'.decoded = decoded /\ hist'.returned = returned
    /\ hist'.lost = lost /\ hist'.failed = failed
    /\ hist'.reported = reported /\ hist'.faults = faults

HistFault ==
    /\ HistIs(hist.decoded, hist.returned, hist.lost, hist.failed,
              hist.reported, hist.faults + 1)
    /\ hist' \in HistType

LEMMA FaultIs ==
    ASSUME Typed, Faulty, hist' = WithFault
    PROVE  HistFault
<1>1. hist.faults + 1 \in 0 .. MaxFaults
  BY HistFields, Numbers DEF Faulty
<1> QED
  BY <1>1 DEF WithFault, Typed, HistType, HistIs, HistFault

SpuriousDoes(t) ==
    /\ Faulty /\ th[t].pc = "wait"
    /\ Moves(t, "woken")
    /\ HistFault
    /\ UNCHANGED <<codec, main, fctx, prog>>
LEMMA SpuriousEffect ==
    ASSUME Typed, NEW t \in Threads, Spurious(t)
    PROVE  SpuriousDoes(t)
  BY MovesIs, FaultIs DEF Spurious, SpuriousDoes

AwaitProgressDoes(t) ==
    /\ th[t].pc = "decode" /\ ~prog[th[t].ref]
    /\ Moves(t, "starved")
    /\ UNCHANGED <<codec, main, fctx, prog, hist>>
LEMMA AwaitProgressEffect ==
    ASSUME Typed, NEW t \in Threads, AwaitProgress(t)
    PROVE  AwaitProgressDoes(t)
  BY MovesIs DEF AwaitProgress, AwaitProgressDoes

(* A codec's frames and the frame it puts out for packet k.                *)
HeldWith(t) == th[t].ctx.held \cup {th[t].pkt}
PutOut(t) ==
    IF Cardinality(HeldWith(t)) > codec.delay THEN Lowest(HeldWith(t)) ELSE 0

LEMMA PutOutIs ==
    ASSUME Typed, NEW t \in Threads, th[t].pkt # 0
    PROVE  /\ HeldWith(t) \subseteq Packets
           /\ PutOut(t) \in Frames
           /\ PutOut(t) # 0 => /\ PutOut(t) \in HeldWith(t)
                               /\ \A j \in HeldWith(t) : PutOut(t) <= j
           /\ ~codec.cap /\ th[t].ctx.held = {} => PutOut(t) = th[t].pkt
<1>1. th[t] \in ThreadType /\ codec \in CodecType
  BY Numbers DEF Typed
<1>2. HeldWith(t) \subseteq Packets /\ HeldWith(t) # {}
  <2>1. th[t].ctx.held \subseteq Packets /\ th[t].pkt \in Frames
    BY <1>1 DEF ThreadType, ContextType
  <2>2. th[t].pkt \in Packets
    BY <2>1, Numbers
  <2> QED
    BY <2>1, <2>2 DEF HeldWith
<1>3. /\ Lowest(HeldWith(t)) \in HeldWith(t)
      /\ \A j \in HeldWith(t) : Lowest(HeldWith(t)) <= j
  BY <1>2, LowestIs, Numbers
<1>4. ASSUME ~codec.cap, th[t].ctx.held = {}
      PROVE  PutOut(t) = th[t].pkt
  <2>1. HeldWith(t) = {th[t].pkt}
    BY <1>4 DEF HeldWith
  <2>2. Cardinality(HeldWith(t)) = 1
    BY <2>1, FS_Singleton
  <2>3. codec.delay = 0
    BY <1>1, <1>4, Numbers DEF Typed, CodecType
  <2> QED
    BY <1>3, <2>1, <2>2, <2>3 DEF PutOut
<1> QED
  BY <1>2, <1>3, <1>4, Numbers DEF PutOut

SetupPacketDoes(t) ==
    /\ th[t].pc = "setup" /\ th[t].pkt # 0
    /\ th' \in [Threads -> ThreadType]
    /\ Own(t, "decode", "SETUP_FINISHED", PutOut(t),
           IF codec.shared THEN th[t].ctx.last ELSE 0,
           IF codec.shared
           THEN [held |-> HeldWith(t) \ {PutOut(t)}, last |-> th[t].pkt]
           ELSE th[t].ctx,
           th[t].result)
    /\ Others(t, th[t].pkt)
    /\ MainProgress(t) /\ main' \in MainType
    /\ HistIs(hist.decoded \cup {th[t].pkt}, hist.returned, hist.lost,
              hist.failed, hist.reported, hist.faults)
    /\ hist' \in HistType
    /\ UNCHANGED <<codec, fctx, prog>>
LEMMA SetupPacketEffect ==
    ASSUME Typed, NEW t \in Threads, SetupPacket(t)
    PROVE  SetupPacketDoes(t)
<1> DEFINE r == [th[t] EXCEPT
                   !.pc = "decode", !.state = "SETUP_FINISHED",
                   !.out = PutOut(t),
                   !.ref = IF codec.shared THEN th[t].ctx.last ELSE 0,
                   !.ctx = IF codec.shared
                           THEN [held |-> HeldWith(t) \ {PutOut(t)},
                                 last |-> th[t].pkt] ELSE th[t].ctx]
<1>1. th[t] \in ThreadType /\ th[t].pkt # 0 /\ th[t].pc = "setup"
  BY DEF Typed, SetupPacket
<1>2. /\ HeldWith(t) \subseteq Packets /\ PutOut(t) \in Frames
      /\ 0 \in Frames
  BY <1>1, PutOutIs, Numbers
<1>3. /\ r \in ThreadType /\ r.pkt = th[t].pkt
      /\ r.pc = "decode" /\ r.state = "SETUP_FINISHED" /\ r.out = PutOut(t)
      /\ r.ref = IF codec.shared THEN th[t].ctx.last ELSE 0
      /\ r.ctx = IF codec.shared
                 THEN [held |-> HeldWith(t) \ {PutOut(t)}, last |-> th[t].pkt]
                 ELSE th[t].ctx
      /\ r.result = th[t].result
  BY <1>1, <1>2 DEF ThreadType, ContextType
<1>4. th' = Broadcast([th EXCEPT ![t] = r], t)
  BY DEF SetupPacket, PutOut, HeldWith, Typed
<1> HIDE DEF r
<1>5. /\ th' \in [Threads -> ThreadType] /\ th'[t] = r
      /\ Others(t, th[t].pkt)
  BY <1>3, <1>4, BroadcastIs
<1>6. MainProgress(t) /\ main' \in MainType
  BY ProgressIs DEF SetupPacket
<1>7. th[t].pkt \in Packets
  BY <1>1, Numbers DEF ThreadType
<1>8. /\ HistIs(hist.decoded \cup {th[t].pkt}, hist.returned, hist.lost,
                hist.failed, hist.reported, hist.faults)
      /\ hist' \in HistType
  BY <1>7 DEF SetupPacket, Typed, HistType, HistIs
<1>9. Own(t, "decode", "SETUP_FINISHED", PutOut(t),
           IF codec.shared THEN th[t].ctx.last ELSE 0,
           IF codec.shared
           THEN [held |-> HeldWith(t) \ {PutOut(t)}, last |-> th[t].pkt]
           ELSE th[t].ctx,
           th[t].result)
  BY <1>3, <1>5 DEF Own
<1> QED
  BY <1>1, <1>5, <1>6, <1>8, <1>9 DEF SetupPacketDoes, SetupPacket

SetupErrorDoes(t) ==
    /\ th[t].pc = "setup" /\ th[t].pkt # 0 /\ codec.shared /\ Faulty
    /\ th' \in [Threads -> ThreadType]
    /\ Own(t, "finish", th[t].state, th[t].out, th[t].ref, th[t].ctx,
           th[t].pkt)
    /\ OthersSame(t)
    /\ HistIs(hist.decoded, hist.returned, hist.lost,
              hist.failed \cup {th[t].pkt}, hist.reported, hist.faults + 1)
    /\ hist' \in HistType
    /\ UNCHANGED <<codec, main, fctx, prog>>
LEMMA SetupErrorEffect ==
    ASSUME Typed, NEW t \in Threads, SetupError(t)
    PROVE  SetupErrorDoes(t)
<1>1. th[t] \in ThreadType /\ th[t].pkt # 0
  BY DEF Typed, SetupError
<1>2. /\ th' \in [Threads -> ThreadType]
      /\ Own(t, "finish", th[t].state, th[t].out, th[t].ref, th[t].ctx,
             th[t].pkt)
      /\ OthersSame(t)
  BY <1>1 DEF Typed, SetupError, ThreadType, Own, OthersSame
<1>3. th[t].pkt \in Packets
  BY <1>1, Numbers, ThreadFields
<1>4. hist.faults + 1 \in 0 .. MaxFaults
  BY HistFields, Numbers DEF SetupError, Faulty
<1>5. /\ HistIs(hist.decoded, hist.returned, hist.lost,
                hist.failed \cup {th[t].pkt}, hist.reported, hist.faults + 1)
      /\ hist' \in HistType
  BY <1>3, <1>4 DEF SetupError, WithFault, Typed, HistType, HistIs
<1> QED
  BY <1>1, <1>2, <1>5 DEF SetupErrorDoes, SetupError

(* The frame an empty packet brings.                                       *)
Leftover(t) == IF th[t].ctx.held = {} THEN 0 ELSE Lowest(th[t].ctx.held)

LEMMA LeftoverIs ==
    ASSUME Typed, NEW t \in Threads
    PROVE  /\ Leftover(t) \in Frames
           /\ th[t].ctx.held # {} => /\ Leftover(t) \in th[t].ctx.held
                                     /\ Leftover(t) # 0
           /\ \A j \in th[t].ctx.held : Leftover(t) <= j
<1>1. th[t].ctx.held \subseteq Packets
  BY ThreadFields
<1>2. ASSUME th[t].ctx.held # {}
      PROVE  /\ Leftover(t) \in th[t].ctx.held
             /\ \A j \in th[t].ctx.held : Leftover(t) <= j
  <2>1. th[t].ctx.held \subseteq Nat
    BY <1>1, Numbers
  <2> QED
    BY <1>2, <2>1, LowestIs DEF Leftover
<1> QED
  BY <1>1, <1>2, Numbers DEF Leftover

SetupEmptyDoes(t) ==
    /\ th[t].pc = "setup" /\ th[t].pkt = 0
    /\ th' \in [Threads -> ThreadType]
    /\ Own(t, "finish", th[t].state, Leftover(t), th[t].ref,
           [held |-> th[t].ctx.held \ {Leftover(t)}, last |-> th[t].ctx.last],
           0)
    /\ OthersSame(t)
    /\ UNCHANGED <<codec, main, fctx, prog, hist>>
LEMMA SetupEmptyEffect ==
    ASSUME Typed, NEW t \in Threads, SetupEmpty(t)
    PROVE  SetupEmptyDoes(t)
<1> DEFINE c == [held |-> th[t].ctx.held \ {Leftover(t)},
                 last |-> th[t].ctx.last]
<1>1. th[t] \in ThreadType /\ th[t].pkt = 0 /\ 0 \in Frames
  <2>1. th[t] \in ThreadType /\ th[t].pkt = 0
    BY DEF Typed, SetupEmpty
  <2> QED
    BY <2>1, Numbers
<1>2. Leftover(t) \in Frames /\ c \in ContextType
  BY LeftoverIs, ThreadFields DEF ContextType
<1>4. th' = [th EXCEPT ![t] =
               [th[t] EXCEPT !.pc = "finish", !.out = Leftover(t), !.ctx = c,
                             !.result = 0]]
  BY <1>1 DEF SetupEmpty, Leftover, Typed, ThreadType
<1> HIDE DEF c
<1>5. /\ th' \in [Threads -> ThreadType]
      /\ Own(t, "finish", th[t].state, Leftover(t), th[t].ref, c, 0)
      /\ OthersSame(t)
  BY <1>1, <1>2, <1>4 DEF Typed, ThreadType, Own, OthersSame
<1> QED
  BY <1>1, <1>5 DEF SetupEmptyDoes, SetupEmpty, c

(* The frame whose output fails is dropped, and its error kept.            *)
Dropped(t) == IF th[t].pkt = 0 THEN Leftover(t) ELSE th[t].pkt
OutputFailDoes(t) ==
    /\ th[t].pc = "setup" /\ th[t].ctx.held # {} /\ Faulty
    /\ th' \in [Threads -> ThreadType]
    /\ Own(t, "finish", th[t].state, th[t].out, th[t].ref,
           [held |-> th[t].ctx.held \ {Leftover(t)}, last |-> th[t].ctx.last],
           Dropped(t))
    /\ OthersSame(t)
    /\ HistIs(hist.decoded, hist.returned, hist.lost \cup {Leftover(t)},
              hist.failed \cup {Dropped(t)}, hist.reported, hist.faults + 1)
    /\ hist' \in HistType
    /\ UNCHANGED <<codec, main, fctx, prog>>
LEMMA OutputFailEffect ==
    ASSUME Typed, NEW t \in Threads, OutputFail(t)
    PROVE  OutputFailDoes(t)
<1> DEFINE c == [held |-> th[t].ctx.held \ {Leftover(t)},
                 last |-> th[t].ctx.last]
<1>1. th[t] \in ThreadType /\ th[t].ctx.held # {}
  BY DEF Typed, OutputFail
<1>2. /\ Leftover(t) \in Packets /\ Leftover(t) \in Frames
      /\ Dropped(t) \in Packets /\ Dropped(t) \in Frames
      /\ c \in ContextType
  BY <1>1, LeftoverIs, ThreadFields, Numbers DEF ContextType, Dropped
<1>3. Leftover(t) = Lowest(th[t].ctx.held)
  BY <1>1 DEF Leftover
<1>4. th' = [th EXCEPT ![t] =
               [th[t] EXCEPT !.pc = "finish", !.ctx = c,
                             !.result = Dropped(t)]]
  BY <1>1, <1>3 DEF OutputFail, Dropped, Typed, ThreadType
<1>5. hist.faults + 1 \in 0 .. MaxFaults
  BY HistFields, Numbers DEF OutputFail, Faulty
<1>6. hist' = [WithFault EXCEPT !.lost = @ \cup {Leftover(t)},
                                !.failed = @ \cup {Dropped(t)}]
  BY <1>3 DEF OutputFail, Dropped
<1> HIDE DEF c
<1>7. /\ th' \in [Threads -> ThreadType]
      /\ Own(t, "finish", th[t].state, th[t].out, th[t].ref, c, Dropped(t))
      /\ OthersSame(t)
  BY <1>1, <1>2, <1>4 DEF Typed, ThreadType, Own, OthersSame
<1>8. /\ HistIs(hist.decoded, hist.returned, hist.lost \cup {Leftover(t)},
                hist.failed \cup {Dropped(t)}, hist.reported, hist.faults + 1)
      /\ hist' \in HistType
  BY <1>2, <1>5, <1>6 DEF WithFault, Typed, HistType, HistIs
<1> QED
  BY <1>1, <1>7, <1>8 DEF OutputFailDoes, OutputFail, c

DecodeDoes(t, ok) ==
    /\ th[t].pc = "decode" /\ prog[th[t].ref] /\ (ok \/ Faulty)
    /\ prog' \in [Frames -> BOOLEAN]
    /\ prog' = [prog EXCEPT ![th[t].pkt] = TRUE]
    /\ th' \in [Threads -> ThreadType]
    /\ Own(t, "finish", th[t].state, IF ok THEN th[t].out ELSE 0, th[t].ref,
           th[t].ctx, IF ok THEN 0 ELSE th[t].pkt)
    /\ Others(t, th[t].pkt)
    /\ MainProgress(t) /\ main' \in MainType
    /\ IF ok THEN hist' = hist
       ELSE HistIs(hist.decoded, hist.returned,
                   hist.lost \cup Only(th[t].out),
                   hist.failed \cup {th[t].pkt}, hist.reported,
                   hist.faults + 1)
    /\ hist' \in HistType
    /\ UNCHANGED <<codec, fctx>>
LEMMA DecodeEffect ==
    ASSUME Typed, NEW t \in Threads, NEW ok \in BOOLEAN, Decode(t, ok),
           th[t].pkt # 0
    PROVE  DecodeDoes(t, ok)
<1> DEFINE r == [th[t] EXCEPT !.pc = "finish",
                              !.out = IF ok THEN th[t].out ELSE 0,
                              !.result = IF ok THEN 0 ELSE th[t].pkt]
<1>1. th[t] \in ThreadType /\ 0 \in Frames /\ th[t].pkt \in Packets
  BY Numbers, ThreadFields DEF Typed
<1>2. /\ r \in ThreadType /\ r.pkt = th[t].pkt
      /\ r.pc = "finish" /\ r.state = th[t].state
      /\ r.out = IF ok THEN th[t].out ELSE 0
      /\ r.ref = th[t].ref /\ r.ctx = th[t].ctx
      /\ r.result = IF ok THEN 0 ELSE th[t].pkt
  BY <1>1 DEF ThreadType
<1>3. th' = Broadcast([th EXCEPT ![t] = r], t)
  BY DEF Decode, Typed
<1> HIDE DEF r
<1>4. /\ th' \in [Threads -> ThreadType] /\ th'[t] = r
      /\ Others(t, th[t].pkt)
  BY <1>2, <1>3, BroadcastIs
<1>5. MainProgress(t) /\ main' \in MainType
  BY ProgressIs DEF Decode
<1>6. /\ prog' = [prog EXCEPT ![th[t].pkt] = TRUE]
      /\ prog' \in [Frames -> BOOLEAN]
  BY <1>1 DEF Decode, Typed
<1>7. /\ IF ok THEN hist' = hist
         ELSE HistIs(hist.decoded, hist.returned,
                     hist.lost \cup Only(th[t].out),
                     hist.failed \cup {th[t].pkt}, hist.reported,
                     hist.faults + 1)
      /\ hist' \in HistType
  <2>1. CASE ok
    BY <2>1 DEF Decode, Typed
  <2>2. CASE ~ok
    <3>1. hist.faults + 1 \in 0 .. MaxFaults
      BY <2>2, HistFields, Numbers DEF Decode, Faulty
    <3>2. Only(th[t].out) \subseteq Packets
      BY ThreadFields, Numbers DEF Only
    <3> QED
      BY <1>1, <2>2, <3>1, <3>2 DEF Decode, WithFault, Typed, HistType, HistIs
  <2> QED
    BY <2>1, <2>2
<1>8. Own(t, "finish", th[t].state, IF ok THEN th[t].out ELSE 0, th[t].ref,
          th[t].ctx, IF ok THEN 0 ELSE th[t].pkt)
  BY <1>2, <1>4 DEF Own
<1> QED
  BY <1>4, <1>5, <1>6, <1>7, <1>8 DEF DecodeDoes, Decode

FinishSetupDoes(t) ==
    /\ th[t].pc = "finish" /\ th[t].state = "SETTING_UP"
    /\ th' \in [Threads -> ThreadType]
    /\ Own(t, "finish", "SETUP_FINISHED", th[t].out, th[t].ref, th[t].ctx,
           th[t].result)
    /\ Others(t, th[t].pkt)
    /\ MainProgress(t) /\ main' \in MainType
    /\ UNCHANGED <<codec, fctx, prog, hist>>
LEMMA FinishSetupEffect ==
    ASSUME Typed, NEW t \in Threads, FinishSetup(t)
    PROVE  FinishSetupDoes(t)
<1> DEFINE r == [th[t] EXCEPT !.state = "SETUP_FINISHED"]
<1>1. th[t] \in ThreadType /\ th[t].pc = "finish"
  BY DEF Typed, FinishSetup
<1>2. /\ r \in ThreadType /\ r.pkt = th[t].pkt
      /\ r.pc = "finish" /\ r.state = "SETUP_FINISHED" /\ r.out = th[t].out
      /\ r.ref = th[t].ref /\ r.ctx = th[t].ctx /\ r.result = th[t].result
  BY <1>1 DEF ThreadType
<1>3. th' = Broadcast([th EXCEPT ![t] = r], t)
  BY DEF FinishSetup, Typed
<1> HIDE DEF r
<1>4. /\ th' \in [Threads -> ThreadType] /\ th'[t] = r
      /\ Others(t, th[t].pkt)
  BY <1>2, <1>3, BroadcastIs
<1>5. MainProgress(t) /\ main' \in MainType
  BY ProgressIs DEF FinishSetup
<1>6. Own(t, "finish", "SETUP_FINISHED", th[t].out, th[t].ref, th[t].ctx,
          th[t].result)
  BY <1>2, <1>4 DEF Own
<1> QED
  BY <1>4, <1>5, <1>6 DEF FinishSetupDoes, FinishSetup

DoneDoes(t) ==
    /\ th[t].pc = "finish" /\ th[t].state = "SETUP_FINISHED"
    /\ th' \in [Threads -> ThreadType]
    /\ Own(t, "check", "INPUT_READY", th[t].out, th[t].ref, th[t].ctx,
           th[t].result)
    /\ Others(t, th[t].pkt)
    /\ MainOutput(t) /\ main' \in MainType
    /\ UNCHANGED <<codec, fctx, prog, hist>>
LEMMA DoneEffect ==
    ASSUME Typed, NEW t \in Threads, Done(t)
    PROVE  DoneDoes(t)
<1> DEFINE r == [th[t] EXCEPT !.pc = "check", !.state = "INPUT_READY"]
<1>1. th[t] \in ThreadType /\ th[t].pc = "finish"
  BY DEF Typed, Done
<1>2. /\ r \in ThreadType /\ r.pkt = th[t].pkt
      /\ r.pc = "check" /\ r.state = "INPUT_READY" /\ r.out = th[t].out
      /\ r.ref = th[t].ref /\ r.ctx = th[t].ctx /\ r.result = th[t].result
  BY <1>1 DEF ThreadType
<1>3. th' = Broadcast([th EXCEPT ![t] = r], t)
  BY DEF Done, Typed
<1> HIDE DEF r
<1>4. /\ th' \in [Threads -> ThreadType] /\ th'[t] = r
      /\ Others(t, th[t].pkt)
  BY <1>2, <1>3, BroadcastIs
<1>5. MainOutput(t) /\ main' \in MainType
  BY OutputIs DEF Done
<1>6. Own(t, "check", "INPUT_READY", th[t].out, th[t].ref, th[t].ctx,
          th[t].result)
  BY <1>2, <1>4 DEF Own
<1> QED
  BY <1>4, <1>5, <1>6 DEF DoneDoes, Done

(* The caller's fields after a step, and the ring's.                       *)
MainIs(pc, plan, sent, rewinds, pkt, at, err, got) ==
    /\ main' \in MainType
    /\ main'.pc = pc /\ main'.plan = plan /\ main'.sent = sent
    /\ main'.rewinds = rewinds /\ main'.pkt = pkt /\ main'.at = at
    /\ main'.err = err /\ main'.got = got
    /\ main'.made = main.made
MainGoes(pc, at) ==
    MainIs(pc, main.plan, main.sent, main.rewinds, main.pkt, at, main.err,
           main.got)
Answers(got, err) ==
    MainIs(IF main.plan \in {"rewind", "last"} THEN "park" ELSE "idle",
           IF main.plan = "drain" /\ ~got THEN "ended" ELSE main.plan,
           main.sent, main.rewinds, main.pkt, 0, err, got)
Collects ==
    MainIs("collect", main.plan, main.sent, main.rewinds, main.pkt,
           fctx.next_finished, 0, FALSE)
RingIs(nd, nf, delaying, prev, die) ==
    /\ fctx' \in RingType
    /\ fctx'.next_decoding = nd /\ fctx'.next_finished = nf
    /\ fctx'.delaying = delaying /\ fctx'.prev = prev /\ fctx'.die = die
Delays(nd) == fctx.delaying /\ nd <= N - 1 - codec.early
Submitted(nd, prev) ==
    /\ RingIs(nd, fctx.next_finished, Delays(nd), prev, fctx.die)
    /\ IF Delays(nd) /\ main.pkt # 0 THEN Answers(FALSE, 0) ELSE Collects

LEMMA GoesIs ==
    ASSUME Typed,
           NEW p \in {"create", "idle", "call", "prev", "prevAsleep",
                      "collect", "collectAsleep", "park", "parkAsleep",
                      "kill", "join", "freed"},
           NEW a \in 0 .. N,
           main' = [main EXCEPT !.pc = p, !.at = a]
    PROVE  MainGoes(p, a)
  BY DEF Typed, MainType, MainGoes, MainIs

LEMMA StaysIs ==
    ASSUME Typed,
           NEW p \in {"create", "idle", "call", "prev", "prevAsleep",
                      "collect", "collectAsleep", "park", "parkAsleep",
                      "kill", "join", "freed"},
           main' = [main EXCEPT !.pc = p]
    PROVE  MainGoes(p, main.at)
  BY DEF Typed, MainType, MainGoes, MainIs

LEMMA AnswerIs ==
    ASSUME Typed, NEW got \in BOOLEAN, NEW err \in Frames \cup {None},
           main' = Answer(main, got, err)
    PROVE  Answers(got, err)
<1>1. 0 \in 0 .. N
  BY Numbers
<1> QED
  BY <1>1 DEF Typed, MainType, Answer, Answers, MainIs

LEMMA CollectsIs ==
    ASSUME Typed,
           main' = [main EXCEPT !.pc = "collect", !.at = fctx.next_finished,
                                !.got = FALSE, !.err = 0]
    PROVE  Collects
<1>1. fctx.next_finished \in 0 .. N /\ 0 \in Frames
  BY RingFields, Numbers
<1> QED
  BY <1>1 DEF Typed, MainType, Collects, MainIs

LEMMA SubmittedIs ==
    ASSUME Typed, NEW nd \in 0 .. N, NEW prev \in Threads \cup {None},
           NEW f \in RingType,
           f.next_decoding = nd, f.prev = prev, f.die = fctx.die,
           f.next_finished = fctx.next_finished,
           f.delaying = fctx.delaying,
           AfterSubmit(main, f)
    PROVE  Submitted(nd, prev)
<1>1. StillDelaying(f) = Delays(nd) /\ StillDelaying(f) \in BOOLEAN
  BY DEF StillDelaying, Delays
<1>2. RingIs(nd, fctx.next_finished, Delays(nd), prev, fctx.die)
  BY <1>1 DEF AfterSubmit, RingIs, RingType
<1>3. CASE Delays(nd) /\ main.pkt # 0
  <2>1. main' = Answer(main, FALSE, 0)
    BY <1>1, <1>3 DEF AfterSubmit
  <2>2. 0 \in Frames \cup {None}
    BY Numbers
  <2> QED
    BY <1>2, <1>3, <2>1, <2>2, AnswerIs DEF Submitted
<1>4. CASE ~(Delays(nd) /\ main.pkt # 0)
  <2>1. main' = [main EXCEPT !.pc = "collect", !.at = fctx.next_finished,
                             !.got = FALSE, !.err = 0]
    BY <1>1, <1>4 DEF AfterSubmit
  <2> QED
    BY <1>2, <1>4, <2>1, CollectsIs DEF Submitted
<1> QED
  BY <1>3, <1>4

(* The steps of the caller.                                                *)
FeedDoes ==
    /\ main.pc = "idle" /\ main.plan = "feed" /\ main.sent < MaxPackets
    /\ MainIs("call", main.plan, main.sent + 1, main.rewinds, main.sent + 1,
              main.at, main.err, main.got)
    /\ UNCHANGED <<codec, fctx, th, prog, hist>>
LEMMA FeedEffect ==
    ASSUME Typed, Feed
    PROVE  FeedDoes
<1>1. main.sent + 1 \in Frames
  BY MainFields, Numbers DEF Feed
<1> QED
  BY <1>1 DEF Feed, FeedDoes, Typed, MainType, MainIs

EmptyDoes(plan) ==
    /\ main.pc = "idle" /\ main.plan \in {"feed", "drain"}
    /\ main.plan = "drain" => plan # "rewind"
    /\ MainIs("call", plan, main.sent,
              IF plan = "rewind" THEN main.rewinds + 1 ELSE main.rewinds, 0,
              main.at, main.err, main.got)
    /\ UNCHANGED <<codec, fctx, th, prog, hist>>
LEMMA EmptyEffect ==
    ASSUME Typed, NEW plan \in {"drain", "rewind", "last"}, Empty(plan)
    PROVE  EmptyDoes(plan)
<1>1. plan = "rewind" => main.rewinds + 1 \in 0 .. MaxRewinds
  BY MainFields, Numbers DEF Empty
<1>2. 0 \in Frames
  BY Numbers
<1> QED
  BY <1>1, <1>2 DEF Empty, EmptyDoes, Typed, MainType, MainIs

UserContextFailDoes ==
    /\ Faulty /\ main.pc = "call"
    /\ Answers(FALSE, None) /\ HistFault
    /\ UNCHANGED <<codec, fctx, th, prog>>
LEMMA UserContextFailEffect ==
    ASSUME Typed, UserContextFail
    PROVE  UserContextFailDoes
  BY AnswerIs, FaultIs DEF UserContextFail, UserContextFailDoes

SubmitNothingDoes ==
    /\ main.pc = "call" /\ main.pkt = 0 /\ ~codec.cap
    /\ RingIs(fctx.next_decoding, fctx.next_finished,
              Delays(fctx.next_decoding), fctx.prev, fctx.die)
    /\ Collects
    /\ UNCHANGED <<codec, th, prog, hist>>
LEMMA SubmitNothingEffect ==
    ASSUME Typed, SubmitNothing
    PROVE  SubmitNothingDoes
<1>1. Submitted(fctx.next_decoding, fctx.prev)
  BY SubmittedIs, RingFields DEF SubmitNothing, Typed
<1> QED
  BY <1>1 DEF SubmitNothing, SubmitNothingDoes, Submitted

LockDoes ==
    /\ main.pc = "call" /\ ~WorkerHolds(fctx.next_decoding) /\ Submits
    /\ MainGoes("prev", main.at)
    /\ UNCHANGED <<codec, fctx, th, prog, hist>>
LEMMA LockEffect ==
    ASSUME Typed, Lock
    PROVE  LockDoes
  BY StaysIs DEF Lock, LockDoes, Submits

AwaitSetupDoes ==
    /\ main.pc = "prev" /\ PrevSettingUp
    /\ MainGoes("prevAsleep", main.at)
    /\ UNCHANGED <<codec, fctx, th, prog, hist>>
LEMMA AwaitSetupEffect ==
    ASSUME Typed, AwaitSetup
    PROVE  AwaitSetupDoes
  BY StaysIs DEF AwaitSetup, AwaitSetupDoes

ContextFailDoes ==
    /\ Faulty /\ main.pc = "prev" /\ ~PrevSettingUp
    /\ Answers(FALSE, None) /\ HistFault
    /\ UNCHANGED <<codec, fctx, th, prog>>
LEMMA ContextFailEffect ==
    ASSUME Typed, ContextFail
    PROVE  ContextFailDoes
  BY AnswerIs, FaultIs DEF ContextFail, ContextFailDoes

HandDoes(t) ==
    /\ main.pc = "prev" /\ ~PrevSettingUp /\ t = fctx.next_decoding
    /\ th' \in [Threads -> ThreadType]
    /\ th'[t].pc = SignalInput(t) /\ th'[t].state = "SETTING_UP"
    /\ th'[t].pkt = main.pkt
    /\ th'[t].ctx = IF fctx.prev # None /\ codec.shared
                    THEN th[fctx.prev].ctx ELSE th[t].ctx
    /\ th'[t].ref = th[t].ref /\ th'[t].out = th[t].out
    /\ th'[t].result = th[t].result
    /\ OthersSame(t)
    /\ Submitted(t + 1, t)
    /\ UNCHANGED <<codec, prog, hist>>
LEMMA HandEffect ==
    ASSUME Typed, Hand, fctx.next_decoding \in Threads
    PROVE  HandDoes(fctx.next_decoding)
<1> DEFINE t == fctx.next_decoding
           c == IF fctx.prev # None /\ codec.shared
                THEN th[fctx.prev].ctx ELSE th[t].ctx
           f == [fctx EXCEPT !.prev = t, !.next_decoding = t + 1]
<1>1. /\ t \in Threads /\ th[t] \in ThreadType /\ c \in ContextType
      /\ SignalInput(t) \in {"none", "check", "wait", "woken", "setup",
                             "decode", "starved", "finish", "exit"}
  BY ThreadFields, RingFields DEF Typed, SignalInput
<1>2. t + 1 \in 0 .. N
  BY <1>1, Numbers
<1>3. /\ f \in RingType /\ f.next_decoding = t + 1 /\ f.prev = t
      /\ f.die = fctx.die /\ f.next_finished = fctx.next_finished
      /\ f.delaying = fctx.delaying
  BY <1>1, <1>2 DEF Typed, RingType
<1>4. AfterSubmit(main, f)
  BY DEF Hand
<1>5. Submitted(t + 1, t)
  <2> HIDE DEF f, t
  <2> QED
    BY <1>1, <1>2, <1>3, <1>4, SubmittedIs
<1>6. th' = [th EXCEPT ![t].ctx = c, ![t].pkt = main.pkt,
                       ![t].state = "SETTING_UP", ![t].pc = SignalInput(t)]
  BY <1>1 DEF Hand, Typed
<1>7. main.pkt \in Frames
  BY MainFields
<1>8. /\ th' \in [Threads -> ThreadType]
      /\ th'[t].pc = SignalInput(t) /\ th'[t].state = "SETTING_UP"
      /\ th'[t].pkt = main.pkt /\ th'[t].ctx = c
      /\ th'[t].ref = th[t].ref /\ th'[t].out = th[t].out
      /\ th'[t].result = th[t].result
      /\ OthersSame(t)
  <2> HIDE DEF c, t
  <2> QED
    BY <1>1, <1>6, <1>7 DEF Typed, ThreadType, OthersSame
<1> QED
  BY <1>5, <1>8 DEF HandDoes, Hand

AwaitOutputDoes ==
    /\ main.pc = "collect" /\ th[main.at].state # "INPUT_READY"
    /\ MainGoes("collectAsleep", main.at)
    /\ UNCHANGED <<codec, fctx, th, prog, hist>>
LEMMA AwaitOutputEffect ==
    ASSUME Typed, AwaitOutput
    PROVE  AwaitOutputDoes
  BY StaysIs DEF AwaitOutput, AwaitOutputDoes

(* The thread after t.                                                     *)
After(t) == IF t = N - 1 THEN 0 ELSE t + 1

LEMMA AfterIs ==
    ASSUME NEW t \in Threads
    PROVE  After(t) \in Threads /\ (t + 1) % N = After(t)
  BY Around, Numbers DEF After

(* t gives up its frame.                                                   *)
Takes(t) ==
    /\ th' \in [Threads -> ThreadType]
    /\ Own(t, th[t].pc, th[t].state, 0, th[t].ref, th[t].ctx, th[t].result)
    /\ OthersSame(t)
LEMMA TakenIs ==
    ASSUME Typed, NEW t \in Threads, th' = [th EXCEPT ![t].out = 0]
    PROVE  Takes(t)
<1>1. 0 \in Frames
  BY Numbers
<1> QED
  BY <1>1 DEF Typed, ThreadType, Takes, Own, OthersSame

(* A drain passes a thread without a frame.                                *)
Latest(t) == IF th[t].result # 0 THEN th[t].result ELSE main.err
PassDoes(t) ==
    /\ main.pc = "collect" /\ t = main.at /\ th[t].state = "INPUT_READY"
    /\ main.pkt = 0 /\ th[t].out = 0 /\ After(t) # fctx.next_finished
    /\ Takes(t)
    /\ MainIs("collect", main.plan, main.sent, main.rewinds, main.pkt,
              After(t), Latest(t), main.got)
    /\ UNCHANGED <<codec, fctx, prog, hist>>

(* The call takes what the thread has, and returns.                        *)
TakeDoes(t) ==
    /\ main.pc = "collect" /\ t = main.at /\ th[t].state = "INPUT_READY"
    /\ \/ main.pkt # 0 \/ th[t].out # 0 \/ After(t) = fctx.next_finished
    /\ Takes(t)
    /\ Answers(th[t].out # 0, ErrorOf(th[t].out, Latest(t)))
    /\ RingIs(IF fctx.next_decoding = N THEN 0 ELSE fctx.next_decoding,
              After(t), fctx.delaying, fctx.prev, fctx.die)
    /\ HistIs(hist.decoded,
              IF th[t].out = 0 THEN hist.returned
              ELSE Append(hist.returned, th[t].out),
              hist.lost, hist.failed,
              hist.reported \cup Only(ErrorOf(th[t].out, Latest(t))),
              hist.faults)
    /\ hist' \in HistType
    /\ UNCHANGED <<codec, prog>>

LEMMA CollectEffect ==
    ASSUME Typed, Collect, main.at \in Threads, main.err \in Frames
    PROVE  PassDoes(main.at) \/ TakeDoes(main.at)
<1> DEFINE t == main.at
           e == ErrorOf(th[t].out, Latest(t))
<1>1. /\ main.pc = "collect" /\ th[t].state = "INPUT_READY"
      /\ UNCHANGED <<codec, prog>>
  BY DEF Collect
<1>2. Takes(t)
  BY TakenIs DEF Collect, Taken
<1>3. After(t) \in Threads /\ (t + 1) % N = After(t)
  BY AfterIs
<1>4. Latest(t) \in Frames /\ e \in Frames
  BY ThreadFields DEF Latest, ErrorOf
<1>5. CASE Goes(th[t].out, After(t))
  <2>1. /\ main' = [main EXCEPT !.at = After(t), !.err = Latest(t)]
        /\ UNCHANGED <<fctx, hist>>
    BY <1>3, <1>5 DEF Collect, Latest
  <2>2. After(t) \in 0 .. N
    BY <1>3, Numbers
  <2>3. MainIs("collect", main.plan, main.sent, main.rewinds, main.pkt,
               After(t), Latest(t), main.got)
    BY <1>1, <1>4, <2>1, <2>2 DEF Typed, MainType, MainIs
  <2> QED
    BY <1>1, <1>2, <1>5, <2>1, <2>3 DEF PassDoes, Goes
<1>6. CASE ~Goes(th[t].out, After(t))
  <2>1. /\ main' = Answer(main, th[t].out # 0, e)
        /\ fctx' = Advanced(After(t))
        /\ hist' = [hist EXCEPT
                      !.returned = IF th[t].out = 0 THEN @
                                   ELSE Append(@, th[t].out),
                      !.reported = @ \cup Only(e)]
    BY <1>3, <1>6 DEF Collect, Latest
  <2>2. Answers(th[t].out # 0, e)
    BY <1>4, <2>1, AnswerIs
  <2>3. RingIs(IF fctx.next_decoding = N THEN 0 ELSE fctx.next_decoding,
               After(t), fctx.delaying, fctx.prev, fctx.die)
    <3>1. fctx.next_decoding \in 0 .. N
      BY RingFields
    <3>2. fctx.next_decoding % N
            = IF fctx.next_decoding = N THEN 0 ELSE fctx.next_decoding
      BY <3>1, Around
    <3>4. (IF fctx.next_decoding = N THEN 0 ELSE fctx.next_decoding) \in 0 .. N
      BY <3>1, Numbers
    <3>3. fctx' = [fctx EXCEPT !.next_decoding = fctx.next_decoding % N,
                               !.next_finished = After(t)]
      BY <2>1 DEF Advanced, Typed, RingType
    <3> HIDE DEF t
    <3> QED
      BY <1>3, <3>2, <3>3, <3>4 DEF Typed, RingType, RingIs
  <2>4. /\ HistIs(hist.decoded,
                  IF th[t].out = 0 THEN hist.returned
                  ELSE Append(hist.returned, th[t].out),
                  hist.lost, hist.failed, hist.reported \cup Only(e),
                  hist.faults)
        /\ hist' \in HistType
    <3>1. Only(e) \subseteq Packets
      BY <1>4, Numbers DEF Only
    <3>2. th[t].out # 0 => th[t].out \in Packets
      BY ThreadFields, Numbers
    <3> HIDE DEF t, e
    <3>3. hist.returned \in Seq(Packets)
      BY HistFields
    <3>4. (IF th[t].out = 0 THEN hist.returned
           ELSE Append(hist.returned, th[t].out)) \in Seq(Packets)
      BY <3>2, <3>3
    <3> QED
      BY <2>1, <3>1, <3>4 DEF Typed, HistType, HistIs
  <2> QED
    BY <1>1, <1>2, <1>6, <2>2, <2>3, <2>4 DEF TakeDoes, Goes
<1> QED
  BY <1>5, <1>6

CreateDoes(t) ==
    /\ main.pc = "create" /\ t = main.at
    /\ Moves(t, "woken")
    /\ IF t + 1 = N THEN MainGoes("idle", 0) ELSE MainGoes("create", t + 1)
    /\ UNCHANGED <<codec, fctx, prog, hist>>
LEMMA CreateEffect ==
    ASSUME Typed, Create, main.at \in Threads
    PROVE  CreateDoes(main.at)
<1>1. Moves(main.at, "woken")
  BY MovesIs DEF Create
<1>2. 0 \in 0 .. N /\ main.at + 1 \in 0 .. N
  BY Numbers
<1>3. IF main.at + 1 = N THEN MainGoes("idle", 0)
      ELSE MainGoes("create", main.at + 1)
  <2>1. CASE main.at + 1 = N
    <3>1. main' = [main EXCEPT !.pc = "idle", !.at = 0]
      BY <2>1 DEF Create
    <3> QED
      BY <1>2, <2>1, <3>1, GoesIs
  <2>2. CASE main.at + 1 # N
    <3>1. main' = [main EXCEPT !.pc = "create", !.at = main.at + 1]
      BY <2>2 DEF Create, Typed, MainType
    <3> QED
      BY <1>2, <2>2, <3>1, GoesIs
  <2> QED
    BY <2>1, <2>2
<1> QED
  BY <1>1, <1>3 DEF Create, CreateDoes

CreateFailDoes ==
    /\ Faulty /\ main.pc = "create"
    /\ main' \in MainType
    /\ main'.pc = "park" /\ main'.plan = "ended" /\ main'.at = 0
    /\ main'.made = main.at + 1 /\ main'.sent = main.sent
    /\ main'.rewinds = main.rewinds /\ main'.pkt = main.pkt
    /\ main'.err = main.err /\ main'.got = main.got
    /\ HistFault
    /\ UNCHANGED <<codec, fctx, th, prog>>
LEMMA CreateFailEffect ==
    ASSUME Typed, CreateFail, main.at \in Threads
    PROVE  CreateFailDoes
<1>1. main.at + 1 \in 1 .. N /\ 0 \in 0 .. N
  BY Numbers
<1> QED
  BY <1>1, FaultIs DEF CreateFail, CreateFailDoes, Typed, MainType

CloseDoes ==
    /\ main.pc = "idle" /\ main.plan = "ended"
    /\ MainGoes("park", 0)
    /\ UNCHANGED <<codec, fctx, th, prog, hist>>
LEMMA CloseEffect ==
    ASSUME Typed, Close
    PROVE  CloseDoes
<1>1. 0 \in 0 .. N
  BY Numbers
<1> QED
  BY <1>1, GoesIs DEF Close, CloseDoes

AwaitParkedDoes ==
    /\ main.pc = "park" /\ main.at < main.made
    /\ th[main.at].state # "INPUT_READY"
    /\ MainGoes("parkAsleep", main.at)
    /\ UNCHANGED <<codec, fctx, th, prog, hist>>
LEMMA AwaitParkedEffect ==
    ASSUME Typed, AwaitParked
    PROVE  AwaitParkedDoes
  BY StaysIs DEF AwaitParked, AwaitParkedDoes

ParkDoes(t) ==
    /\ main.pc = "park" /\ t = main.at /\ main.at < main.made
    /\ th[t].state = "INPUT_READY"
    /\ Takes(t)
    /\ MainGoes("park", t + 1)
    /\ HistIs(hist.decoded, hist.returned, hist.lost \cup Only(th[t].out),
              hist.failed, hist.reported, hist.faults)
    /\ hist' \in HistType
    /\ UNCHANGED <<codec, fctx, prog>>
LEMMA ParkEffect ==
    ASSUME Typed, Park, main.at \in Threads
    PROVE  ParkDoes(main.at)
<1>1. Takes(main.at)
  BY TakenIs DEF Park
<1>2. main.at + 1 \in 0 .. N
  BY Numbers
<1>3. main' = [main EXCEPT !.pc = "park", !.at = main.at + 1]
  BY DEF Park, Typed, MainType
<1>4. MainGoes("park", main.at + 1)
  BY <1>2, <1>3, GoesIs
<1>5. Only(th[main.at].out) \subseteq Packets
  BY ThreadFields, Numbers DEF Only
<1>6. /\ HistIs(hist.decoded, hist.returned,
                hist.lost \cup Only(th[main.at].out), hist.failed,
                hist.reported, hist.faults)
      /\ hist' \in HistType
  BY <1>5 DEF Park, Typed, HistType, HistIs
<1> QED
  BY <1>1, <1>4, <1>6 DEF Park, ParkDoes

FlushDoes ==
    /\ main.pc = "park" /\ main.at = main.made /\ main.plan = "rewind"
    /\ th' \in [Threads -> ThreadType]
    /\ \A t \in Threads :
         /\ th'[t].pc = th[t].pc /\ th'[t].state = th[t].state
         /\ th'[t].pkt = th[t].pkt /\ th'[t].ref = th[t].ref
         /\ th'[t].out = th[t].out /\ th'[t].result = th[t].result
         /\ th'[t].ctx = FreshContext
    /\ HistIs(hist.decoded, hist.returned, hist.lost \cup Held, hist.failed,
              hist.reported, hist.faults)
    /\ hist' \in HistType
    /\ RingIs(0, 0, TRUE, None, FALSE)
    /\ MainIs("idle", "feed", main.sent, main.rewinds, main.pkt, 0, main.err,
              main.got)
    /\ UNCHANGED <<codec, prog>>

LEMMA FreshTypes ==
    /\ FreshContext \in ContextType
    /\ FreshRing \in RingType
    /\ FreshThread \in ThreadType
    /\ FreshContext.held = {} /\ FreshContext.last = 0
<1>1. 0 \in Frames /\ 0 \in Threads /\ 0 \in 0 .. N
  BY Numbers
<1>2. FreshContext \in ContextType
  BY <1>1 DEF FreshContext, ContextType
<1> QED
  BY <1>1, <1>2
     DEF FreshContext, ContextType, FreshRing, RingType, FreshThread,
         ThreadType

LEMMA FlushEffect ==
    ASSUME Typed, Flush
    PROVE  FlushDoes
<1>1. /\ th' \in [Threads -> ThreadType]
      /\ \A t \in Threads :
           /\ th'[t].pc = th[t].pc /\ th'[t].state = th[t].state
           /\ th'[t].pkt = th[t].pkt /\ th'[t].ref = th[t].ref
           /\ th'[t].out = th[t].out /\ th'[t].result = th[t].result
           /\ th'[t].ctx = FreshContext
  BY FreshTypes DEF Flush, Typed, ThreadType
<1>2. Held \subseteq Packets
  BY RingFields, ThreadFields DEF Held
<1>3. /\ HistIs(hist.decoded, hist.returned, hist.lost \cup Held,
                hist.failed, hist.reported, hist.faults)
      /\ hist' \in HistType
  BY <1>2 DEF Flush, Typed, HistType, HistIs
<1>4. RingIs(0, 0, TRUE, None, FALSE)
  BY FreshTypes DEF Flush, Rewound, RingIs, FreshRing
<1>5. MainIs("idle", "feed", main.sent, main.rewinds, main.pkt, 0, main.err,
             main.got)
  <2>1. 0 \in 0 .. N
    BY Numbers
  <2> QED
    BY <2>1 DEF Flush, Typed, MainType, MainIs
<1> QED
  BY <1>1, <1>3, <1>4, <1>5 DEF Flush, FlushDoes

DieDoes ==
    /\ main.pc = "park" /\ main.at = main.made /\ main.plan # "rewind"
    /\ RingIs(fctx.next_decoding, fctx.next_finished, fctx.delaying,
              fctx.prev, TRUE)
    /\ MainGoes("kill", 0)
    /\ UNCHANGED <<codec, th, prog, hist>>
LEMMA DieEffect ==
    ASSUME Typed, Die
    PROVE  DieDoes
<1>1. 0 \in 0 .. N
  BY Numbers
<1>2. MainGoes("kill", 0)
  BY <1>1, GoesIs DEF Die
<1>3. RingIs(fctx.next_decoding, fctx.next_finished, fctx.delaying,
             fctx.prev, TRUE)
  BY DEF Die, Typed, RingType, RingIs
<1> QED
  BY <1>2, <1>3 DEF Die, DieDoes

KillDoes(t) ==
    /\ main.pc = "kill" /\ t = main.at /\ ~WorkerHolds(t)
    /\ Moves(t, SignalInput(t))
    /\ MainGoes("join", main.at)
    /\ UNCHANGED <<codec, fctx, prog, hist>>
LEMMA KillEffect ==
    ASSUME Typed, Kill, main.at \in Threads
    PROVE  KillDoes(main.at)
<1>1. SignalInput(main.at) \in {"none", "check", "wait", "woken", "setup",
                                "decode", "starved", "finish", "exit"}
  BY ThreadFields DEF SignalInput
<1>2. Moves(main.at, SignalInput(main.at))
  BY <1>1, MovesIs DEF Kill
<1> QED
  BY <1>2, StaysIs DEF Kill, KillDoes

JoinDoes ==
    /\ main.pc = "join" /\ th[main.at].pc \in {"none", "exit"}
    /\ IF main.at + 1 = main.made THEN MainGoes("freed", 0)
                                  ELSE MainGoes("kill", main.at + 1)
    /\ UNCHANGED <<codec, fctx, th, prog, hist>>
LEMMA JoinEffect ==
    ASSUME Typed, Join, main.at \in Threads
    PROVE  JoinDoes
<1>1. 0 \in 0 .. N /\ main.at + 1 \in 0 .. N
  BY Numbers
<1>2. CASE main.at + 1 = main.made
  <2>1. main' = [main EXCEPT !.pc = "freed", !.at = 0]
    BY <1>2 DEF Join
  <2> QED
    BY <1>1, <1>2, <2>1, GoesIs DEF Join, JoinDoes
<1>3. CASE main.at + 1 # main.made
  <2>1. main' = [main EXCEPT !.pc = "kill", !.at = main.at + 1]
    BY <1>3 DEF Join, Typed, MainType
  <2> QED
    BY <1>1, <1>3, <2>1, GoesIs DEF Join, JoinDoes
<1> QED
  BY <1>2, <1>3

----------------------------------------------------------------------------
(* The ring.                                                               *)

(* Thread t has neither work nor a frame.                                  *)
Quiet(t) == th[t].state = "INPUT_READY" /\ th[t].out = 0

(* What the place of a worker says of its fields.  Only the thread of the  *)
(* last packet may be setting up, and it has no frame meanwhile.           *)
WorkerOK(t) ==
    /\ th[t].pc \in {"none", "wait", "exit"} => th[t].state = "INPUT_READY"
    /\ th[t].pc \in {"check", "woken"} => th[t].state # "SETUP_FINISHED"
    /\ th[t].pc = "setup" => th[t].state = "SETTING_UP"
    /\ th[t].pc \in {"decode", "starved"} =>
         th[t].state = "SETUP_FINISHED" /\ th[t].pkt # 0
    /\ th[t].pc = "finish" => th[t].state # "INPUT_READY"
    /\ th[t].state = "SETTING_UP" =>
         /\ t = fctx.prev
         /\ th[t].pc # "finish" => th[t].out = 0
         /\ th[t].pkt = 0 => codec.cap
WorkersOK == \A t \in Threads : WorkerOK(t)

(* What the place of the caller says of the threads.                       *)
CreateOK ==
    main.pc = "create" =>
        /\ main.made = N /\ main.plan = "feed" /\ fctx = FreshRing
        /\ \A t \in Threads : Quiet(t) /\ (th[t].pc = "none" <=> t >= main.at)
RunOK ==
    Running \/ (Parking /\ main.plan = "rewind") =>
        /\ main.made = N
        /\ \A t \in Threads : th[t].pc # "none"
ParkOK ==
    Parking =>
        /\ main.plan \in {"rewind", "last", "ended"}
        /\ \A t \in Threads : t < main.at \/ t >= main.made => Quiet(t)
EndOK ==
    /\ fctx.die <=> Ending
    /\ Ending => \A t \in Threads : Quiet(t)
    /\ \A t \in Threads : th[t].pc = "exit" => Ending

(* Threads from a to b, counted round the ring.                            *)
Dist(a, b) == IF a <= b THEN b - a ELSE b - a + N

(* From next_finished on, the threads that may have work or a frame; those *)
(* a drain has passed have none any more.                                  *)
Span ==
    IF Handed
    THEN Dist(fctx.next_finished, fctx.next_decoding - 1) + 1
    ELSE Dist(fctx.next_finished, fctx.next_decoding)
Passed(t) ==
    /\ Collecting
    /\ Dist(fctx.next_finished, t) < Dist(fctx.next_finished, main.at)

FirstOK ==
    fctx.prev = None =>
        /\ fctx.next_decoding = 0 /\ fctx.next_finished = 0 /\ ~Handed
        /\ \A t \in Threads : Quiet(t) /\ th[t].ctx = FreshContext
PrevOK ==
    fctx.prev # None =>
        \/ fctx.next_decoding = fctx.prev + 1
        \/ fctx.next_decoding = 0 /\ fctx.prev = N - 1 /\ ~Handed
DelayOK ==
    Running /\ main.plan = "feed" /\ fctx.delaying =>
        fctx.next_finished = 0 /\ ~Collecting
AtOK == Collecting /\ main.pkt # 0 => main.at = fctx.next_finished
SpanOK ==
    Running => \A t \in Threads :
        Dist(fctx.next_finished, t) >= Span \/ Passed(t) => Quiet(t)

CallerOK == CreateOK /\ RunOK /\ ParkOK /\ EndOK
RingOK == FirstOK /\ PrevOK /\ DelayOK /\ AtOK /\ SpanOK

RingInv == Typed /\ Places /\ WorkersOK /\ CallerOK /\ RingOK

----------------------------------------------------------------------------
(* Distances.                                                              *)
LEMMA DistIs ==
    ASSUME NEW a \in Threads, NEW b \in Threads
    PROVE  /\ Dist(a, b) \in 0 .. N - 1
           /\ Dist(a, b) = 0 <=> a = b
           /\ Dist(a, After(b)) = IF After(b) = a THEN 0 ELSE Dist(a, b) + 1
           /\ After(b) = a <=> Dist(a, b) = N - 1
           /\ Dist(0, b) = b
  BY Numbers DEF Dist, After

LEMMA DistInjective ==
    ASSUME NEW a \in Threads, NEW b \in Threads, NEW c \in Threads,
           Dist(a, b) = Dist(a, c)
    PROVE  b = c
  BY Numbers DEF Dist

LEMMA DistShift ==
    ASSUME NEW a \in Threads, NEW b \in Threads, NEW c \in Threads
    PROVE  Dist(After(b), c) = IF Dist(a, c) > Dist(a, b)
                               THEN Dist(a, c) - Dist(a, b) - 1
                               ELSE Dist(a, c) - Dist(a, b) - 1 + N
  BY Numbers DEF Dist, After

----------------------------------------------------------------------------
WorkerDoes(t) ==
    \/ SleepDoes(t) \/ ExitDoes(t) \/ StartDoes(t) \/ SpuriousDoes(t)
    \/ SetupPacketDoes(t) \/ SetupErrorDoes(t) \/ SetupEmptyDoes(t)
    \/ OutputFailDoes(t)
    \/ AwaitProgressDoes(t) \/ \E ok \in BOOLEAN : DecodeDoes(t, ok)
    \/ FinishSetupDoes(t) \/ DoneDoes(t)
CallDoes ==
    \/ FeedDoes \/ \E plan \in {"drain", "rewind", "last"} : EmptyDoes(plan)
    \/ UserContextFailDoes \/ SubmitNothingDoes \/ LockDoes
    \/ AwaitSetupDoes \/ ContextFailDoes
    \/ HandDoes(fctx.next_decoding)
    \/ AwaitOutputDoes \/ PassDoes(main.at) \/ TakeDoes(main.at)
ManageDoes ==
    \/ CreateDoes(main.at) \/ CreateFailDoes \/ CloseDoes
    \/ AwaitParkedDoes \/ ParkDoes(main.at) \/ FlushDoes
    \/ DieDoes \/ KillDoes(main.at) \/ JoinDoes

LEMMA WorkerEffect ==
    ASSUME RingInv, NEW t \in Threads, Worker(t) \/ Spurious(t)
    PROVE  WorkerDoes(t)
<1>1. Typed /\ WorkerOK(t)
  BY DEF RingInv, WorkersOK
<1>2. ASSUME NEW ok \in BOOLEAN, Decode(t, ok)
      PROVE  DecodeDoes(t, ok)
  <2>1. th[t].pkt # 0
    BY <1>1, <1>2 DEF Decode, WorkerOK
  <2> QED
    BY <1>1, <1>2, <2>1, DecodeEffect
<1> QED
  BY <1>1, <1>2, SleepEffect, ExitEffect, StartEffect, SpuriousEffect,
     SetupPacketEffect, SetupErrorEffect, SetupEmptyEffect,
     OutputFailEffect,
     AwaitProgressEffect, FinishSetupEffect, DoneEffect
     DEF Worker, WorkerDoes

LEMMA CallEffect ==
    ASSUME RingInv, DecodeFrame
    PROVE  CallDoes
<1>1. Typed
  BY DEF RingInv
<1>2. Hand => fctx.next_decoding \in Threads
  BY DEF RingInv, Places, Collecting, Handed, Hand
<1>3. Collect => main.at \in Threads /\ main.err \in Frames
  BY DEF RingInv, Places, Collecting, Collect
<1> QED
  BY <1>1, <1>2, <1>3, FeedEffect, EmptyEffect, UserContextFailEffect,
     SubmitNothingEffect, LockEffect, AwaitSetupEffect, ContextFailEffect,
     HandEffect, AwaitOutputEffect, CollectEffect
     DEF DecodeFrame, CallDoes

LEMMA ManageEffect ==
    ASSUME RingInv, Manage
    PROVE  ManageDoes
<1>1. Typed
  BY DEF RingInv
<1>2. \/ main.pc \in {"create", "kill", "join"}
      \/ main.pc = "park" /\ main.at < main.made
      => main.at \in Threads
  BY <1>1, MainFields, Numbers DEF RingInv, Places
<1> QED
  BY <1>1, <1>2, CreateEffect, CreateFailEffect, CloseEffect,
     AwaitParkedEffect, ParkEffect, FlushEffect, DieEffect, KillEffect,
     JoinEffect
     DEF Manage, ManageDoes, Create, CreateFail, Park, Kill, Join

(* A step of a worker leaves the caller where it is, or wakes it.          *)
CallerStays ==
    /\ MainKept /\ main' \in MainType
    /\ UNCHANGED <<codec, fctx>>
    /\ main.pc \in {"create", "idle", "call", "prev", "collect", "park",
                    "kill", "join", "freed"} => main'.pc = main.pc
    /\ main.pc = "prevAsleep" => main'.pc \in {"prev", "prevAsleep"}
    /\ main.pc = "collectAsleep" => main'.pc \in {"collect", "collectAsleep"}
    /\ main.pc = "parkAsleep" => main'.pc \in {"park", "parkAsleep"}

LEMMA WorkerCaller ==
    ASSUME Typed, NEW t \in Threads, WorkerDoes(t)
    PROVE  CallerStays
<1>1. main \in MainType
  BY DEF Typed
<1>2. CASE UNCHANGED <<codec, main, fctx>>
  BY <1>1, <1>2 DEF CallerStays, MainKept
<1>3. CASE MainProgress(t) /\ main' \in MainType /\ UNCHANGED <<codec, fctx>>
  BY <1>3 DEF CallerStays, MainProgress
<1>4. CASE MainOutput(t) /\ main' \in MainType /\ UNCHANGED <<codec, fctx>>
  BY <1>4 DEF CallerStays, MainOutput
<1> QED
  BY <1>2, <1>3, <1>4
     DEF WorkerDoes, SleepDoes, ExitDoes, StartDoes, SpuriousDoes,
         SetupPacketDoes, SetupErrorDoes, SetupEmptyDoes, OutputFailDoes,
         AwaitProgressDoes,
         DecodeDoes, FinishSetupDoes, DoneDoes

LEMMA CallerPhases ==
    ASSUME Typed, CallerStays
    PROVE  /\ Calling' = Calling /\ Collecting' = Collecting
           /\ Parking' = Parking /\ Ending' = Ending /\ Running' = Running
           /\ Submits' = Submits /\ Handed' = Handed
           /\ main'.pc = "create" <=> main.pc = "create"
           /\ main'.pc = "idle" <=> main.pc = "idle"
           /\ main'.pc \in {"kill", "join"} <=> main.pc \in {"kill", "join"}
           /\ main'.pc \in {"prev", "prevAsleep"}
                <=> main.pc \in {"prev", "prevAsleep"}
           /\ main'.pc = "parkAsleep" => main.pc = "parkAsleep"
           /\ Span' = Span
           /\ \A t : Passed(t)' = Passed(t)
<1>1. /\ main.pc \in {"create", "idle", "call", "prev", "prevAsleep",
                      "collect", "collectAsleep", "park", "parkAsleep",
                      "kill", "join", "freed"}
      /\ main'.pc \in {"create", "idle", "call", "prev", "prevAsleep",
                      "collect", "collectAsleep", "park", "parkAsleep",
                      "kill", "join", "freed"}
  BY DEF Typed, MainType, CallerStays
<1>2. /\ Calling' = Calling /\ Collecting' = Collecting
      /\ Parking' = Parking /\ Ending' = Ending /\ Running' = Running
      /\ main'.pc = "create" <=> main.pc = "create"
      /\ main'.pc = "idle" <=> main.pc = "idle"
      /\ main'.pc \in {"kill", "join"} <=> main.pc \in {"kill", "join"}
      /\ main'.pc \in {"prev", "prevAsleep"}
           <=> main.pc \in {"prev", "prevAsleep"}
      /\ main'.pc = "parkAsleep" => main.pc = "parkAsleep"
  BY <1>1 DEF CallerStays, Calling, Collecting, Parking, Ending, Running
<1>3. /\ main'.pkt = main.pkt /\ main'.at = main.at
      /\ codec' = codec /\ fctx' = fctx
  BY DEF CallerStays, MainKept
<1>4. Submits' = Submits /\ Handed' = Handed
  BY <1>2, <1>3 DEF Submits, Handed
<1>5. Span' = Span /\ \A t : Passed(t)' = Passed(t)
  BY <1>2, <1>3, <1>4 DEF Span, Passed, Dist
<1> QED
  BY <1>2, <1>4, <1>5

(* What a step of a worker does to the threads: much to itself, and others *)
(* it perhaps wakes.                                                       *)
Aside(u) ==
    /\ Kept(u)
    /\ \/ th'[u].pc = th[u].pc
       \/ th[u].pc = "starved" /\ th'[u].pc = "decode"
ThreadsStep(t) ==
    /\ th' \in [Threads -> ThreadType]
    /\ \A u \in Threads \ {t} : Aside(u)
    /\ th'[t].pkt = th[t].pkt
    /\ th'[t].pc = "none" <=> th[t].pc = "none"
    /\ th'[t].pc = "exit" => th[t].pc = "exit" \/ fctx.die
    /\ Quiet(t) => /\ Quiet(t)' /\ th'[t].ctx = th[t].ctx
                   /\ th'[t].result = th[t].result
    /\ prog' \in [Frames -> BOOLEAN] /\ hist' \in HistType

LEMMA WorkerThreads ==
    ASSUME RingInv, NEW t \in Threads, WorkerDoes(t)
    PROVE  ThreadsStep(t) /\ WorkerOK(t)'
<1>1. /\ Typed /\ WorkerOK(t) /\ th[t] \in ThreadType
      /\ prog \in [Frames -> BOOLEAN] /\ hist \in HistType
  BY DEF RingInv, WorkersOK, Typed
<1>2. /\ th[t].state = "SETTING_UP" => t = fctx.prev
      /\ fctx.prev' = fctx.prev /\ codec.cap' = codec.cap
  BY <1>1, WorkerCaller DEF WorkerOK, CallerStays
<1>3. CASE SleepDoes(t)
  BY <1>1, <1>2, <1>3
     DEF SleepDoes, Moves, Kept, OthersSame, WorkerOK, Quiet, Looks,
         ThreadsStep, Aside
<1>4. CASE ExitDoes(t)
  <2>1. Quiet(t)
    BY <1>4 DEF RingInv, CallerOK, EndOK, ExitDoes
  <2> QED
    BY <1>1, <1>2, <1>4, <2>1
       DEF ExitDoes, Moves, Kept, OthersSame, WorkerOK, Quiet, Looks,
           ThreadsStep, Aside
<1>5. CASE StartDoes(t)
  BY <1>1, <1>2, <1>5
     DEF StartDoes, Own, Kept, OthersSame, WorkerOK, Quiet, Looks,
         ThreadsStep, Aside, ThreadType
<1>6. CASE SpuriousDoes(t)
  BY <1>1, <1>2, <1>6
     DEF SpuriousDoes, Moves, Kept, OthersSame, WorkerOK, Quiet, Looks,
         ThreadsStep, Aside, HistFault
<1>7. CASE SetupPacketDoes(t)
  BY <1>1, <1>2, <1>7
     DEF SetupPacketDoes, Own, Kept, Others, Beside, WorkerOK, Quiet, Looks,
         ThreadsStep, Aside
<1>8. CASE SetupErrorDoes(t)
  BY <1>1, <1>2, <1>8
     DEF SetupErrorDoes, Own, Kept, OthersSame, WorkerOK, Quiet, Looks,
         ThreadsStep, Aside
<1>9. CASE SetupEmptyDoes(t)
  BY <1>1, <1>2, <1>9
     DEF SetupEmptyDoes, Own, Kept, OthersSame, WorkerOK, Quiet, Looks,
         ThreadsStep, Aside
<1>14. CASE OutputFailDoes(t)
  BY <1>1, <1>2, <1>14
     DEF OutputFailDoes, Own, Kept, OthersSame, WorkerOK, Quiet, Looks,
         ThreadsStep, Aside
<1>10. CASE AwaitProgressDoes(t)
  BY <1>1, <1>2, <1>10
     DEF AwaitProgressDoes, Moves, Kept, OthersSame, WorkerOK, Quiet, Looks,
         ThreadsStep, Aside
<1>11. ASSUME NEW ok \in BOOLEAN, DecodeDoes(t, ok)
       PROVE  ThreadsStep(t) /\ WorkerOK(t)'
  BY <1>1, <1>2, <1>11
     DEF DecodeDoes, Own, Kept, Others, Beside, WorkerOK, Quiet, Looks,
         ThreadsStep, Aside
<1>12. CASE FinishSetupDoes(t)
  BY <1>1, <1>2, <1>12
     DEF FinishSetupDoes, Own, Kept, Others, Beside, WorkerOK, Quiet, Looks,
         ThreadsStep, Aside
<1>13. CASE DoneDoes(t)
  BY <1>1, <1>2, <1>13
     DEF DoneDoes, Own, Kept, Others, Beside, WorkerOK, Quiet, Looks,
         ThreadsStep, Aside
<1> QED
  BY <1>3, <1>4, <1>5, <1>6, <1>7, <1>8, <1>9, <1>10, <1>11, <1>12, <1>13,
     <1>14
     DEF WorkerDoes

(* The workers keep the invariant of the ring.                             *)
LEMMA WorkerKeepsRing ==
    ASSUME RingInv, NEW t \in Threads, WorkerDoes(t)
    PROVE  RingInv'
<1>1. Typed /\ Places /\ WorkersOK /\ CallerOK /\ RingOK
  BY DEF RingInv
<1>2. CallerStays /\ ThreadsStep(t) /\ WorkerOK(t)'
  BY <1>1, WorkerCaller, WorkerThreads
<1>3. /\ Calling' = Calling /\ Collecting' = Collecting
      /\ Parking' = Parking /\ Ending' = Ending /\ Running' = Running
      /\ Submits' = Submits /\ Handed' = Handed
      /\ main'.pc = "create" <=> main.pc = "create"
      /\ main'.pc = "idle" <=> main.pc = "idle"
      /\ main'.pc \in {"kill", "join"} <=> main.pc \in {"kill", "join"}
      /\ main'.pc \in {"prev", "prevAsleep"}
           <=> main.pc \in {"prev", "prevAsleep"}
      /\ main'.pc = "parkAsleep" => main.pc = "parkAsleep"
      /\ Span' = Span
      /\ \A u : Passed(u)' = Passed(u)
  BY <1>1, <1>2, CallerPhases
<1>4. MainKept /\ codec' = codec /\ fctx' = fctx
  BY <1>2 DEF CallerStays
<1>5. Typed'
  BY <1>1, <1>2 DEF Typed, CallerStays, ThreadsStep
<1>6. Places'
  BY <1>1, <1>3, <1>4 DEF Places, MainKept
<1>7. ASSUME NEW u \in Threads
      PROVE  /\ th'[u].pc = "none" <=> th[u].pc = "none"
             /\ th'[u].pc = "exit" => th[u].pc = "exit" \/ fctx.die
             /\ Quiet(u) => Quiet(u)' /\ th'[u].ctx = th[u].ctx
             /\ WorkerOK(u)'
  <2>1. CASE u = t
    BY <1>2, <2>1 DEF ThreadsStep
  <2>2. CASE u # t
    <3>1. Aside(u) /\ WorkerOK(u)
      BY <1>1, <1>2, <2>2 DEF ThreadsStep, WorkersOK
    <3> QED
      BY <1>4, <3>1 DEF Aside, Kept, Quiet, WorkerOK
  <2> QED
    BY <2>1, <2>2
<1>8. WorkersOK'
  BY <1>7 DEF WorkersOK
<1>9. CreateOK'
  BY <1>1, <1>3, <1>4, <1>7 DEF CallerOK, CreateOK, MainKept
<1>10. RunOK'
  BY <1>1, <1>3, <1>4, <1>7 DEF CallerOK, RunOK, MainKept
<1>11. ParkOK'
  BY <1>1, <1>3, <1>4, <1>7 DEF CallerOK, ParkOK, MainKept
<1>12. EndOK'
  BY <1>1, <1>3, <1>4, <1>7 DEF CallerOK, EndOK, MainKept
<1>13. RingOK'
  <2>1. FirstOK' /\ PrevOK' /\ DelayOK' /\ AtOK'
    BY <1>1, <1>3, <1>4, <1>7
       DEF RingOK, FirstOK, PrevOK, DelayOK, AtOK, MainKept
  <2>2. SpanOK'
    BY <1>1, <1>3, <1>4, <1>7 DEF RingOK, SpanOK
  <2> QED
    BY <2>1, <2>2 DEF RingOK
<1> QED
  BY <1>5, <1>6, <1>8, <1>9, <1>10, <1>11, <1>12, <1>13 DEF RingInv, CallerOK

(* The caller, on its own.                                                 *)
LEMMA SameThreads ==
    ASSUME UNCHANGED <<codec, fctx, th>>
    PROVE  /\ \A t \in Threads : Quiet(t)' = Quiet(t)
           /\ WorkersOK => WorkersOK'
  BY DEF Quiet, WorkersOK, WorkerOK

(* A step that only moves the caller on.                                   *)
CallerMoves ==
    /\ UNCHANGED <<codec, fctx, th, prog>>
    /\ hist' \in HistType /\ main' \in MainType
    /\ main'.pc # "create"
    /\ Ending' <=> Ending
    /\ Handed' <=> Handed
    /\ Running' \/ (Parking' /\ main'.plan = "rewind") =>
         /\ Running \/ (Parking /\ main.plan = "rewind")
         /\ main'.made = main.made
    /\ Running' => Running /\ (Collecting' <=> Collecting)
    /\ Collecting' => main'.at = main.at /\ main'.pkt = main.pkt

LEMMA CallerMovesKeepsRing ==
    ASSUME RingInv, CallerMoves, Places', ParkOK', DelayOK'
    PROVE  RingInv'
<1>1. Typed /\ Places /\ WorkersOK /\ CallerOK /\ RingOK
  BY DEF RingInv
<1>2. WorkersOK' /\ \A t \in Threads : Quiet(t)' = Quiet(t)
  BY <1>1, SameThreads DEF CallerMoves
<1>3. Typed'
  BY <1>1 DEF Typed, CallerMoves
<1>4. CallerOK'
  BY <1>1, <1>2 DEF CallerOK, CreateOK, RunOK, EndOK, CallerMoves
<1>5. FirstOK' /\ PrevOK' /\ AtOK'
  <2>1. Collecting' => Collecting
    BY DEF CallerMoves, Running, Collecting, Calling
  <2> QED
    BY <1>1, <1>2, <2>1 DEF RingOK, FirstOK, PrevOK, AtOK, CallerMoves
<1>6. SpanOK'
  <2>1. ASSUME Running'
        PROVE  Running /\ Span' = Span /\ \A t : Passed(t)' <=> Passed(t)
    BY <2>1 DEF CallerMoves, Span, Passed
  <2> QED
    BY <1>1, <1>2, <2>1 DEF RingOK, SpanOK, CallerMoves
<1> QED
  BY <1>2, <1>3, <1>4, <1>5, <1>6 DEF RingInv, RingOK

(* What the answer of a call is followed by.                               *)
LEMMA AnswerPlaces ==
    ASSUME RingInv, Calling \/ Collecting,
           NEW got, NEW err, Answers(got, err)
    PROVE  /\ IF main.plan \in {"rewind", "last"}
              THEN main'.pc = "park" ELSE main'.pc = "idle"
           /\ main'.pc = "park" => main'.plan = main.plan
           /\ main'.pc = "idle" => main'.plan \in {"feed", "drain", "ended"}
           /\ main'.plan = "feed" <=> main.plan = "feed"
           /\ main'.plan = "rewind" <=> main.plan = "rewind"
           /\ main'.at = 0 /\ main.made = N /\ main'.made = N
           /\ main' \in MainType
           /\ ~Calling' /\ ~Collecting' /\ ~Handed' /\ ~Ending' /\ ~Ending
           /\ (Running' <=> main'.pc = "idle") /\ (Parking' <=> main'.pc = "park")
           /\ Running
<1>1. Places /\ RunOK /\ Running
  BY DEF RingInv, CallerOK, Running
<1>2. main.plan \in {"feed", "drain", "rewind", "last"} /\ main.made = N
  BY <1>1 DEF Places, RunOK
<1> QED
  BY <1>1, <1>2
     DEF Answers, MainIs, Calling, Collecting, Handed, Ending, Running,
         Parking

LEMMA AnswerParks ==
    ASSUME RingInv, Calling \/ Collecting, th' \in [Threads -> ThreadType],
           NEW got, NEW err, Answers(got, err)
    PROVE  ParkOK' /\ CreateOK'
<1>1. /\ main'.pc \in {"park", "idle"}
      /\ main'.pc = "park" => main'.plan \in {"rewind", "last"}
      /\ main'.at = 0 /\ main'.made = N /\ (Parking' <=> main'.pc = "park")
  BY AnswerPlaces
<1>2. \A t \in Threads : ~ (t < 0 \/ t >= N)
  BY Numbers
<1> QED
  BY <1>1, <1>2 DEF ParkOK, CreateOK

LEMMA FailKeepsRing ==
    ASSUME RingInv, UserContextFailDoes \/ ContextFailDoes
    PROVE  RingInv'
<1>1. Typed /\ Places /\ WorkersOK /\ CallerOK /\ RingOK
  BY DEF RingInv
<1>2. /\ Calling /\ Answers(FALSE, None)
      /\ UNCHANGED <<codec, fctx, th, prog>> /\ hist' \in HistType
  BY DEF UserContextFailDoes, ContextFailDoes, Calling, HistFault
<1>3. /\ IF main.plan \in {"rewind", "last"}
         THEN main'.pc = "park" ELSE main'.pc = "idle"
      /\ main'.pc = "park" => main'.plan = main.plan
      /\ main'.pc = "idle" => main'.plan \in {"feed", "drain", "ended"}
      /\ main'.plan = "feed" <=> main.plan = "feed"
      /\ main'.plan = "rewind" <=> main.plan = "rewind"
      /\ main'.at = 0 /\ main.made = N /\ main'.made = N
      /\ main' \in MainType
      /\ ~Calling' /\ ~Collecting' /\ ~Handed' /\ ~Ending' /\ ~Ending
      /\ (Running' <=> main'.pc = "idle") /\ (Parking' <=> main'.pc = "park")
      /\ Running
  BY <1>2, AnswerPlaces
<1>4. th' \in [Threads -> ThreadType]
  BY <1>1, <1>2 DEF Typed
<1>5. ParkOK'
  BY <1>2, <1>4, AnswerParks
<1>6. ~Collecting /\ ~Handed
  BY <1>2 DEF Calling, Collecting, Handed
<1>7. Places'
  BY <1>1, <1>2, <1>3, <1>6, Numbers DEF Places
<1>8. DelayOK'
  BY <1>1, <1>2, <1>3, <1>6 DEF RingOK, DelayOK
<1>9. CallerMoves
  BY <1>2, <1>3, <1>6 DEF CallerMoves
<1> QED
  BY <1>5, <1>7, <1>8, <1>9, CallerMovesKeepsRing

LEMMA FeedKeepsRing ==
    ASSUME RingInv, FeedDoes
    PROVE  RingInv'
<1>1. Typed /\ Places /\ RingOK
  BY DEF RingInv
<1>2. /\ main.pc = "idle" /\ main.plan = "feed" /\ main'.pc = "call"
      /\ UNCHANGED <<codec, fctx, th, prog, hist>>
      /\ main'.plan = "feed" /\ main'.made = main.made
      /\ main'.pkt # 0 /\ main' \in MainType
  BY <1>1, MainFields, Numbers DEF FeedDoes, MainIs
<1>3. /\ ~Handed /\ ~Handed' /\ ~Collecting /\ ~Collecting' /\ Running
      /\ ~Parking' /\ ~Ending /\ ~Ending'
  BY <1>2 DEF Handed, Collecting, Running, Calling, Parking, Ending
<1>4. Places' /\ ParkOK' /\ DelayOK'
  BY <1>1, <1>2, <1>3 DEF Places, Calling, ParkOK, RingOK, DelayOK
<1>5. CallerMoves
  BY <1>1, <1>2, <1>3 DEF CallerMoves, Typed
<1> QED
  BY <1>4, <1>5, CallerMovesKeepsRing

LEMMA EmptyKeepsRing ==
    ASSUME RingInv, NEW plan \in {"drain", "rewind", "last"}, EmptyDoes(plan)
    PROVE  RingInv'
<1>1. Typed /\ Places
  BY DEF RingInv
<1>2. /\ main.pc = "idle" /\ main'.pc = "call"
      /\ UNCHANGED <<codec, fctx, th, prog, hist>>
      /\ main'.plan = plan /\ main'.made = main.made
      /\ main'.pkt = 0 /\ main' \in MainType
  BY DEF EmptyDoes, MainIs
<1>3. /\ ~Handed /\ ~Handed' /\ ~Collecting /\ ~Collecting' /\ Running
      /\ ~Parking' /\ ~Ending /\ ~Ending'
  BY <1>2 DEF Handed, Collecting, Running, Calling, Parking, Ending
<1>4. Places' /\ ParkOK' /\ DelayOK'
  BY <1>1, <1>2, <1>3 DEF Places, Calling, ParkOK, DelayOK
<1>5. CallerMoves
  BY <1>1, <1>2, <1>3 DEF CallerMoves, Typed
<1> QED
  BY <1>4, <1>5, CallerMovesKeepsRing

LEMMA LockKeepsRing ==
    ASSUME RingInv, LockDoes \/ AwaitSetupDoes \/ AwaitOutputDoes
    PROVE  RingInv'
<1>1. Typed /\ Places /\ RingOK
  BY DEF RingInv
<1>2. /\ UNCHANGED <<codec, fctx, th, prog, hist>>
      /\ main'.plan = main.plan /\ main'.made = main.made
      /\ main'.pkt = main.pkt /\ main'.at = main.at /\ main'.err = main.err
      /\ main' \in MainType
      /\ \/ main.pc = "call" /\ main'.pc = "prev" /\ Submits
         \/ main.pc = "prev" /\ main'.pc = "prevAsleep" /\ Submits
         \/ main.pc = "collect" /\ main'.pc = "collectAsleep"
  BY <1>1 DEF LockDoes, AwaitSetupDoes, AwaitOutputDoes, MainGoes, MainIs,
              Places
<1>3. /\ Calling' <=> Calling
      /\ Collecting' <=> Collecting
      /\ Running /\ Running' /\ ~Parking' /\ ~Ending /\ ~Ending'
  BY <1>2 DEF Collecting, Running, Calling, Parking, Ending
<1>4. (Submits' <=> Submits) /\ (Handed' <=> Handed)
  BY <1>2, <1>3 DEF Handed, Submits
<1>5. Places'
  BY <1>1, <1>2, <1>3, <1>4 DEF Places
<1>6. ParkOK' /\ DelayOK'
  BY <1>1, <1>2, <1>3 DEF ParkOK, RingOK, DelayOK
<1>7. CallerMoves
  BY <1>1, <1>2, <1>3, <1>4 DEF CallerMoves, Typed
<1> QED
  BY <1>5, <1>6, <1>7, CallerMovesKeepsRing

LEMMA CloseKeepsRing ==
    ASSUME RingInv, CloseDoes \/ AwaitParkedDoes
    PROVE  RingInv'
<1>1. Typed /\ Places /\ RingOK /\ RunOK /\ ParkOK
  BY DEF RingInv, CallerOK
<1>2. /\ UNCHANGED <<codec, fctx, th, prog, hist>>
      /\ main'.plan = main.plan /\ main'.made = main.made
      /\ main' \in MainType
      /\ \/ /\ main.pc = "idle" /\ main'.pc = "park" /\ main'.at = 0
            /\ main.plan = "ended"
         \/ /\ main.pc = "park" /\ main'.pc = "parkAsleep"
            /\ main'.at = main.at /\ main.at < main.made
  BY DEF CloseDoes, AwaitParkedDoes, MainGoes, MainIs
<1>3. /\ ~Calling' /\ ~Collecting /\ ~Collecting' /\ ~Running' /\ Parking'
      /\ ~Ending /\ ~Ending' /\ ~Handed /\ ~Handed'
      /\ main.pc = "idle" => Running
      /\ main.pc = "park" => Parking
  BY <1>2 DEF Collecting, Running, Calling, Parking, Ending, Handed
<1>4. Places'
  BY <1>1, <1>2, <1>3, MainFields, Numbers DEF Places
<1>5. ParkOK'
  <2>1. CASE main.pc = "idle"
    <3>1. main'.made = N
      BY <1>1, <1>2, <1>3, <2>1 DEF RunOK
    <3>2. \A t \in Threads : ~ (t < 0 \/ t >= N)
      BY Numbers
    <3> QED
      BY <1>2, <2>1, <3>1, <3>2 DEF ParkOK
  <2>2. CASE main.pc = "park"
    BY <1>1, <1>2, <1>3, <2>2 DEF ParkOK, Quiet
  <2> QED
    BY <1>2, <2>1, <2>2
<1>6. DelayOK'
  BY <1>3 DEF DelayOK
<1>7. CallerMoves
  <2>1. Parking' /\ main'.plan = "rewind" =>
          Running \/ (Parking /\ main.plan = "rewind")
    BY <1>2, <1>3
  <2> QED
    BY <1>1, <1>2, <1>3, <2>1 DEF CallerMoves, Typed
<1> QED
  BY <1>4, <1>5, <1>6, <1>7, CallerMovesKeepsRing

LEMMA JoinKeepsRing ==
    ASSUME RingInv, JoinDoes
    PROVE  RingInv'
<1>1. Typed /\ Places
  BY DEF RingInv
<1>2. /\ UNCHANGED <<codec, fctx, th, prog, hist>>
      /\ main' \in MainType /\ main'.made = main.made /\ main.pc = "join"
      /\ \/ main'.pc = "freed"
         \/ main'.pc = "kill" /\ main'.at = main.at + 1 /\ main.at + 1 # main.made
  BY DEF JoinDoes, MainGoes, MainIs
<1>3. /\ ~Calling' /\ ~Collecting /\ ~Collecting' /\ ~Running' /\ ~Parking'
      /\ Ending /\ Ending' /\ ~Handed /\ ~Handed'
  BY <1>2 DEF Collecting, Running, Calling, Parking, Ending, Handed
<1>4. Places'
  BY <1>1, <1>2, <1>3, MainFields, Numbers DEF Places
<1>5. ParkOK' /\ DelayOK'
  BY <1>3 DEF ParkOK, DelayOK
<1>6. CallerMoves
  BY <1>1, <1>2, <1>3 DEF CallerMoves, Typed
<1> QED
  BY <1>4, <1>5, <1>6, CallerMovesKeepsRing

LEMMA CreateFailKeepsRing ==
    ASSUME RingInv, CreateFailDoes
    PROVE  RingInv'
<1>1. Typed /\ Places /\ CreateOK
  BY DEF RingInv, CallerOK
<1>2. /\ UNCHANGED <<codec, fctx, th, prog>> /\ hist' \in HistType
      /\ main' \in MainType /\ main.pc = "create" /\ main'.pc = "park"
      /\ main'.plan = "ended" /\ main'.at = 0
  BY DEF CreateFailDoes, HistFault
<1>3. /\ ~Calling' /\ ~Collecting /\ ~Collecting' /\ ~Running' /\ Parking'
      /\ ~Ending /\ ~Ending' /\ ~Handed /\ ~Handed'
  BY <1>2 DEF Collecting, Running, Calling, Parking, Ending, Handed
<1>4. Places'
  <2>1. main'.made \in 1 .. N
    BY <1>2 DEF MainType
  <2> QED
    BY <1>1, <1>2, <1>3, <2>1, Numbers DEF Places
<1>5. ParkOK' /\ DelayOK'
  BY <1>1, <1>2, <1>3 DEF ParkOK, DelayOK, CreateOK, Quiet
<1>6. CallerMoves
  BY <1>1, <1>2, <1>3 DEF CallerMoves, Typed
<1> QED
  BY <1>4, <1>5, <1>6, CallerMovesKeepsRing

LEMMA CreateKeepsRing ==
    ASSUME RingInv, CreateDoes(main.at)
    PROVE  RingInv'
<1>1. Typed /\ Places /\ WorkersOK /\ CallerOK /\ RingOK /\ CreateOK
  BY DEF RingInv, CallerOK
<1>2. /\ UNCHANGED <<codec, fctx, prog, hist>>
      /\ main' \in MainType /\ main.pc = "create"
      /\ main'.plan = main.plan /\ main'.made = main.made
      /\ main.at \in Threads
      /\ \/ main'.pc = "idle" /\ main'.at = 0 /\ main.at + 1 = N
         \/ main'.pc = "create" /\ main'.at = main.at + 1 /\ main.at + 1 < N
      /\ Moves(main.at, "woken")
  BY <1>1, MainFields, Numbers DEF CreateDoes, MainGoes, MainIs, Places
<1>3. /\ ~Calling' /\ ~Collecting /\ ~Collecting' /\ ~Parking'
      /\ ~Ending /\ ~Ending' /\ ~Handed /\ ~Handed'
      /\ Running' <=> main'.pc = "idle"
  BY <1>2 DEF Collecting, Running, Calling, Parking, Ending, Handed
<1>4. \A t \in Threads :
         /\ th'[t].pc = IF t = main.at THEN "woken" ELSE th[t].pc
         /\ Quiet(t)' /\ th'[t].ctx = th[t].ctx
         /\ th'[t].state = th[t].state /\ th'[t].pkt = th[t].pkt
         /\ th'[t].out = th[t].out
         /\ th[t].pc = "none" <=> t >= main.at
  BY <1>1, <1>2 DEF Moves, Kept, OthersSame, Quiet, CreateOK
<1>5. Typed' /\ Places'
  BY <1>1, <1>2, <1>3, Numbers DEF Typed, Places, Moves, CreateOK
<1>6. WorkersOK'
  BY <1>1, <1>2, <1>4 DEF WorkersOK, WorkerOK, Quiet
<1>7. CreateOK'
  BY <1>1, <1>2, <1>4, Numbers DEF CreateOK
<1>8. RunOK'
  <2>1. ASSUME main'.pc = "idle", NEW t \in Threads
        PROVE  th'[t].pc # "none"
    BY <1>2, <1>4, <2>1, Numbers
  <2> QED
    BY <1>1, <1>2, <1>3, <2>1 DEF RunOK, CreateOK
<1>9. ParkOK' /\ EndOK'
  BY <1>1, <1>2, <1>3, <1>4 DEF ParkOK, CallerOK, EndOK
<1>10. FirstOK'
  BY <1>1, <1>2, <1>3, <1>4 DEF RingOK, FirstOK
<1>11. PrevOK' /\ AtOK' /\ SpanOK'
  BY <1>1, <1>2, <1>3, <1>4 DEF RingOK, PrevOK, AtOK, SpanOK
<1>12. DelayOK'
  <2>1. fctx.prev = None
    BY <1>1, <1>2 DEF CreateOK, FreshRing
  <2> QED
    BY <1>1, <1>2, <1>3, <2>1 DEF RingOK, FirstOK, DelayOK
<1> QED
  BY <1>5, <1>6, <1>7, <1>8, <1>9, <1>10, <1>11, <1>12
     DEF RingInv, CallerOK, RingOK

LEMMA ParkKeepsRing ==
    ASSUME RingInv, ParkDoes(main.at)
    PROVE  RingInv'
<1>1. Typed /\ Places /\ WorkersOK /\ CallerOK /\ RingOK /\ ParkOK
  BY DEF RingInv, CallerOK
<1>2. /\ UNCHANGED <<codec, fctx, prog>> /\ hist' \in HistType
      /\ main' \in MainType /\ main.pc = "park" /\ main'.pc = "park"
      /\ main'.plan = main.plan /\ main'.made = main.made
      /\ main'.at = main.at + 1 /\ main.at < main.made
      /\ main.at \in Threads /\ main.made \in Int
      /\ Takes(main.at) /\ th[main.at].state = "INPUT_READY"
  BY <1>1, MainFields, Numbers DEF ParkDoes, MainGoes, MainIs
<1>3. /\ ~Calling' /\ ~Collecting /\ ~Collecting' /\ ~Running' /\ Parking
      /\ Parking' /\ ~Ending /\ ~Ending' /\ ~Handed /\ ~Handed'
  BY <1>2 DEF Collecting, Running, Calling, Parking, Ending, Handed
<1>4. \A t \in Threads :
         /\ th'[t].pc = th[t].pc /\ th'[t].state = th[t].state
         /\ th'[t].pkt = th[t].pkt /\ th'[t].ctx = th[t].ctx
         /\ th'[t].out = IF t = main.at THEN 0 ELSE th[t].out
         /\ t = main.at => Quiet(t)'
         /\ Quiet(t) => Quiet(t)'
  BY <1>2 DEF Takes, Own, OthersSame, Quiet
<1>5. Typed' /\ Places'
  BY <1>1, <1>2, <1>3, Numbers DEF Typed, Places, Takes
<1>6. WorkersOK'
  BY <1>1, <1>2, <1>4 DEF WorkersOK, WorkerOK
<1>7. CreateOK' /\ RunOK' /\ EndOK'
  BY <1>1, <1>2, <1>3, <1>4 DEF CallerOK, CreateOK, RunOK, EndOK
<1>8. ParkOK'
  <2>1. ASSUME NEW t \in Threads, t < main.at + 1 \/ t >= main.made
        PROVE  t < main.at \/ t = main.at \/ t >= main.made
    BY <1>2, <2>1, Numbers
  <2> QED
    BY <1>1, <1>2, <1>3, <1>4, <2>1 DEF ParkOK
<1>9. RingOK'
  BY <1>1, <1>2, <1>3, <1>4
     DEF RingOK, FirstOK, PrevOK, DelayOK, AtOK, SpanOK
<1> QED
  BY <1>5, <1>6, <1>7, <1>8, <1>9 DEF RingInv, CallerOK

LEMMA FlushKeepsRing ==
    ASSUME RingInv, FlushDoes
    PROVE  RingInv'
<1>1. Typed /\ WorkersOK /\ CallerOK /\ ParkOK /\ RunOK
  BY DEF RingInv, CallerOK
<1>2. /\ UNCHANGED <<codec, prog>> /\ hist' \in HistType
      /\ main' \in MainType /\ main.pc = "park" /\ main'.pc = "idle"
      /\ main.plan = "rewind" /\ main'.plan = "feed"
      /\ main'.made = main.made /\ main'.at = 0 /\ main.at = main.made
      /\ RingIs(0, 0, TRUE, None, FALSE)
  BY DEF FlushDoes, MainIs
<1>3. /\ ~Calling' /\ ~Collecting' /\ Running' /\ Parking
      /\ ~Parking' /\ ~Ending /\ ~Ending' /\ ~Handed'
  BY <1>2 DEF Collecting, Running, Calling, Parking, Ending, Handed
<1>4. main.made = N /\ main.at = N /\ \A t \in Threads : t < N
  BY <1>1, <1>2, <1>3, Numbers DEF RunOK
<1>5. \A t \in Threads :
         /\ th'[t].pc = th[t].pc /\ th[t].pc # "none"
         /\ Quiet(t)' /\ Quiet(t) /\ th'[t].ctx = FreshContext
         /\ th'[t].state = "INPUT_READY" /\ th[t].state = "INPUT_READY"
  BY <1>1, <1>2, <1>3, <1>4 DEF FlushDoes, Quiet, ParkOK, RunOK
<1>6. Typed' /\ Places'
  BY <1>1, <1>2, <1>3, Numbers DEF Typed, Places, FlushDoes, RingIs
<1>7. WorkersOK'
  BY <1>1, <1>5 DEF WorkersOK, WorkerOK
<1>8. CallerOK'
  BY <1>1, <1>2, <1>3, <1>4, <1>5
     DEF CallerOK, CreateOK, RunOK, ParkOK, EndOK, RingIs
<1>9. RingOK'
  BY <1>2, <1>3, <1>5
     DEF RingOK, FirstOK, PrevOK, DelayOK, AtOK, SpanOK, RingIs
<1> QED
  BY <1>6, <1>7, <1>8, <1>9 DEF RingInv

LEMMA DieKeepsRing ==
    ASSUME RingInv, DieDoes
    PROVE  RingInv'
<1>1. Typed /\ Places /\ WorkersOK /\ CallerOK /\ RingOK /\ ParkOK
  BY DEF RingInv, CallerOK
<1>2. /\ UNCHANGED <<codec, th, prog, hist>>
      /\ main' \in MainType /\ main.pc = "park" /\ main'.pc = "kill"
      /\ main'.made = main.made /\ main'.at = 0 /\ main.at = main.made
      /\ RingIs(fctx.next_decoding, fctx.next_finished, fctx.delaying,
                fctx.prev, TRUE)
  BY DEF DieDoes, MainGoes, MainIs
<1>3. /\ ~Calling' /\ ~Collecting' /\ ~Running' /\ Parking /\ ~Handed
      /\ ~Parking' /\ ~Ending /\ Ending' /\ ~Handed'
  BY <1>2 DEF Collecting, Running, Calling, Parking, Ending, Handed
<1>4. main.made \in 1 .. N
  BY <1>1, MainFields
<1>5. \A t \in Threads : Quiet(t) /\ Quiet(t)'
  <2>1. \A t \in Threads : t < main.made \/ t >= main.made
    BY <1>4, Numbers
  <2> QED
    BY <1>1, <1>2, <1>3, <2>1 DEF ParkOK, Quiet
<1>6. Typed' /\ Places'
  BY <1>1, <1>2, <1>3, <1>4, Numbers DEF Typed, Places, RingIs
<1>7. WorkersOK'
  BY <1>1, <1>2 DEF WorkersOK, WorkerOK, RingIs
<1>8. CallerOK'
  BY <1>2, <1>3, <1>5 DEF CallerOK, CreateOK, RunOK, ParkOK, EndOK, RingIs
<1>9. RingOK'
  BY <1>1, <1>2, <1>3, <1>5
     DEF RingOK, FirstOK, PrevOK, DelayOK, AtOK, SpanOK, RingIs
<1> QED
  BY <1>6, <1>7, <1>8, <1>9 DEF RingInv

LEMMA KillKeepsRing ==
    ASSUME RingInv, KillDoes(main.at)
    PROVE  RingInv'
<1>1. Typed /\ Places /\ WorkersOK /\ CallerOK /\ RingOK
  BY DEF RingInv
<1>2. /\ UNCHANGED <<codec, fctx, prog, hist>>
      /\ main' \in MainType /\ main.pc = "kill" /\ main'.pc = "join"
      /\ main'.made = main.made /\ main'.at = main.at
      /\ Moves(main.at, SignalInput(main.at)) /\ main.at \in Threads
  BY <1>1, MainFields, Numbers DEF KillDoes, MainGoes, MainIs, Places
<1>3. /\ ~Calling' /\ ~Collecting' /\ ~Running' /\ ~Parking' /\ ~Handed
      /\ Ending /\ Ending' /\ ~Handed'
  BY <1>2 DEF Collecting, Running, Calling, Parking, Ending, Handed
<1>4. \A t \in Threads :
         /\ Quiet(t) /\ Quiet(t)' /\ th'[t].ctx = th[t].ctx
         /\ th'[t].state = th[t].state /\ th'[t].pkt = th[t].pkt
         /\ \/ th'[t].pc = th[t].pc
            \/ th[t].pc = "wait" /\ th'[t].pc = "woken"
  BY <1>1, <1>2, <1>3
     DEF CallerOK, EndOK, Moves, Kept, OthersSame, Quiet, SignalInput
<1>5. Typed' /\ Places'
  BY <1>1, <1>2, <1>3 DEF Typed, Places, Moves
<1>6. WorkersOK'
  BY <1>1, <1>2, <1>4 DEF WorkersOK, WorkerOK, Quiet
<1>7. CallerOK'
  BY <1>1, <1>2, <1>3, <1>4 DEF CallerOK, CreateOK, RunOK, ParkOK, EndOK
<1>8. RingOK'
  BY <1>1, <1>2, <1>3, <1>4
     DEF RingOK, FirstOK, PrevOK, DelayOK, AtOK, SpanOK
<1> QED
  BY <1>5, <1>6, <1>7, <1>8 DEF RingInv

LEMMA SubmitNothingKeepsRing ==
    ASSUME RingInv, SubmitNothingDoes
    PROVE  RingInv'
<1>1. Typed /\ Places /\ WorkersOK /\ CallerOK /\ RingOK /\ RunOK
  BY DEF RingInv, CallerOK
<1>2. /\ UNCHANGED <<codec, th, prog, hist>> /\ ~codec.cap
      /\ main' \in MainType /\ main.pc = "call" /\ main'.pc = "collect"
      /\ main'.plan = main.plan /\ main.pkt = 0 /\ main'.pkt = 0
      /\ main'.made = main.made /\ main'.at = fctx.next_finished
      /\ main'.err = 0
      /\ RingIs(fctx.next_decoding, fctx.next_finished,
                Delays(fctx.next_decoding), fctx.prev, fctx.die)
  BY DEF SubmitNothingDoes, Collects, MainIs
<1>3. /\ Calling /\ ~Calling' /\ ~Collecting /\ Collecting' /\ Running
      /\ Running' /\ ~Parking' /\ ~Ending /\ ~Ending'
      /\ ~Handed /\ ~Handed' /\ ~Submits'
  BY <1>2
     DEF Collecting, Running, Calling, Parking, Ending, Handed, Submits
<1>4. \A t \in Threads : Quiet(t) <=> Quiet(t)'
  BY <1>2 DEF Quiet
<1>5. main'.plan \in {"drain", "rewind", "last"}
  BY <1>1, <1>2, <1>3 DEF Places
<1>6. Typed' /\ Places'
  BY <1>1, <1>2, <1>3, <1>5, RingFields, Numbers DEF Typed, Places, RingIs
<1>7. WorkersOK'
  BY <1>1, <1>2 DEF WorkersOK, WorkerOK, RingIs
<1>8. CallerOK'
  BY <1>1, <1>2, <1>3, <1>4
     DEF CallerOK, CreateOK, RunOK, ParkOK, EndOK, RingIs
<1>9. FirstOK' /\ PrevOK' /\ DelayOK' /\ AtOK'
  BY <1>1, <1>2, <1>3, <1>4, <1>5
     DEF RingOK, FirstOK, PrevOK, DelayOK, AtOK, RingIs
<1>10. SpanOK'
  <2>1. Span' = Span
    BY <1>2, <1>3 DEF Span, RingIs
  <2>2. \A t \in Threads : ~Passed(t)'
    <3>1. SUFFICES ASSUME NEW t \in Threads
                   PROVE  ~Passed(t)'
      OBVIOUS
    <3>2. fctx'.next_finished = fctx.next_finished
      BY <1>2 DEF RingIs
    <3>3. /\ Dist(fctx.next_finished, fctx.next_finished) = 0
          /\ Dist(fctx.next_finished, t) \in 0 .. N - 1
      BY <1>1, RingFields, DistIs
    <3>4. ~(Dist(fctx.next_finished, t)
              < Dist(fctx.next_finished, fctx.next_finished))
      BY <3>3, Numbers
    <3> QED
      BY <1>2, <3>2, <3>4 DEF Passed
  <2> QED
    BY <1>1, <1>2, <1>3, <1>4, <2>1, <2>2 DEF RingOK, SpanOK, RingIs
<1> QED
  BY <1>6, <1>7, <1>8, <1>9, <1>10 DEF RingInv, RingOK

(* The thread the next packet is for, while it is this call's turn.        *)
LEMMA NextIsQuiet ==
    ASSUME RingInv, main.pc = "idle" \/ Calling
    PROVE  /\ fctx.next_decoding \in Threads
           /\ Quiet(fctx.next_decoding)
           /\ fctx.prev # fctx.next_decoding
           /\ th[fctx.next_decoding].pc \in {"wait", "check", "woken"}
<1>1. Typed /\ Places /\ WorkersOK /\ CallerOK /\ RingOK
  BY DEF RingInv
<1>2. Running /\ ~Collecting /\ ~Handed /\ ~Ending
  BY DEF Running, Calling, Collecting, Handed, Ending
<1>3. fctx.next_decoding \in Threads
  BY <1>1, <1>2 DEF Places
<1>4. Quiet(fctx.next_decoding)
  <2>1. Span = Dist(fctx.next_finished, fctx.next_decoding)
    BY <1>2 DEF Span
  <2>2. Span \in 0 .. N - 1
    BY <1>1, <1>3, <2>1, RingFields, DistIs
  <2>3. Dist(fctx.next_finished, fctx.next_decoding) >= Span
    BY <2>1, <2>2, Numbers
  <2> QED
    BY <1>1, <1>2, <1>3, <2>3 DEF RingOK, SpanOK
<1>5. fctx.prev # fctx.next_decoding
  BY <1>1, <1>3, RingFields, Numbers DEF RingOK, PrevOK
<1>6. th[fctx.next_decoding].pc \in {"wait", "check", "woken"}
  <2>1. th[fctx.next_decoding].pc \notin {"none", "exit"}
    BY <1>1, <1>2, <1>3 DEF CallerOK, RunOK, EndOK
  <2>2. WorkerOK(fctx.next_decoding)
    BY <1>1, <1>3 DEF WorkersOK
  <2> QED
    BY <1>1, <1>3, <1>4, <2>1, <2>2, ThreadFields DEF WorkerOK, Quiet
<1> QED
  BY <1>3, <1>4, <1>5, <1>6

LEMMA HandKeepsRing ==
    ASSUME RingInv, NEW t \in Threads, t = fctx.next_decoding,
           NEW nf \in Threads, nf = fctx.next_finished, HandDoes(t)
    PROVE  RingInv'
<1>1. Typed /\ Places /\ WorkersOK /\ CallerOK /\ RingOK /\ RunOK
  BY DEF RingInv, CallerOK
<1>2. /\ UNCHANGED <<codec, prog, hist>> /\ main.pc = "prev" /\ Calling
      /\ Submitted(t + 1, t) /\ ~PrevSettingUp /\ Submits /\ Running
      /\ ~Collecting /\ ~Handed /\ ~Ending
  BY <1>1 DEF HandDoes, Places, Calling, Running, Collecting, Handed, Ending
<1>3. /\ t \in Threads /\ Quiet(t) /\ fctx.prev # t
      /\ th[t].pc \in {"wait", "check", "woken"}
  BY <1>2, NextIsQuiet
<1>4. /\ th' \in [Threads -> ThreadType]
      /\ th'[t].pc \in {"check", "woken"} /\ th'[t].state = "SETTING_UP"
      /\ th'[t].pkt = main.pkt /\ th'[t].out = 0
      /\ \A u \in Threads \ {t} : th'[u] = th[u]
  BY <1>3 DEF HandDoes, OthersSame, SignalInput, Quiet
<1>5. /\ fctx' \in RingType /\ fctx'.next_decoding = t + 1
      /\ fctx'.prev = t /\ fctx'.next_finished = nf /\ fctx'.die = fctx.die
      /\ fctx'.delaying = Delays(t + 1) /\ nf \in Threads
  BY <1>1, <1>2, RingFields DEF Submitted, RingIs
<1>6. WorkersOK'
  <2>1. WorkerOK(t)'
    BY <1>2, <1>4, <1>5 DEF WorkerOK, Submits
  <2>2. ASSUME NEW u \in Threads \ {t}
        PROVE  WorkerOK(u)'
    <3>1. th[u].state # "SETTING_UP" /\ WorkerOK(u)
      BY <1>1, <1>2, Numbers DEF WorkersOK, WorkerOK, PrevSettingUp
    <3> QED
      BY <1>4, <3>1 DEF WorkerOK
  <2> QED
    BY <2>1, <2>2 DEF WorkersOK
<1>7. ASSUME NEW u \in Threads, u # t, Dist(nf, u) >= Dist(nf, t)
      PROVE  Quiet(u)'
  <2>1. Quiet(u)
    BY <1>1, <1>2, <1>7 DEF RingOK, SpanOK, Span
  <2> QED
    BY <1>4, <1>7, <2>1 DEF Quiet
<1>8. RunOK' /\ EndOK' /\ PrevOK' /\ FirstOK' /\ ~Ending'
  <2>1. /\ ~Ending' /\ main'.made = main.made
        /\ Running' \/ main'.pc = "park"
    BY <1>2
       DEF Submitted, Answers, Collects, MainIs, Ending, Running, Collecting
  <2>2. \A u \in Threads : th'[u].pc # "none" /\ th'[u].pc # "exit"
    BY <1>1, <1>2, <1>4 DEF RunOK, CallerOK, EndOK
  <2> QED
    BY <1>1, <1>2, <1>3, <1>5, <2>1, <2>2, Numbers
       DEF CallerOK, RunOK, EndOK, PrevOK, FirstOK
<1>9. CASE Delays(t + 1) /\ main.pkt # 0
  <2>1. Answers(FALSE, 0)
    BY <1>2, <1>9 DEF Submitted
  <2>2. main.plan = "feed" /\ fctx.delaying /\ t + 1 < N /\ nf = 0
    <3>1. main.plan = "feed"
      BY <1>1, <1>2, <1>9 DEF Places
    <3>2. codec.early \in {0, 1}
      BY <1>1, RingFields DEF CodecType
    <3> QED
      BY <1>1, <1>2, <1>3, <1>9, <3>1, <3>2, Numbers
         DEF Delays, RingOK, DelayOK
  <2>3. /\ main'.pc = "idle" /\ main'.plan = "feed" /\ main' \in MainType
        /\ ~Calling' /\ ~Collecting' /\ ~Handed' /\ Running' /\ ~Parking'
    BY <2>1, <2>2
       DEF Answers, MainIs, Calling, Collecting, Handed, Running, Parking
  <2>4. Typed' /\ Places'
    BY <1>1, <1>2, <1>3, <1>4, <1>5, <2>2, <2>3, Numbers DEF Typed, Places
  <2>5. CreateOK' /\ ParkOK'
    BY <2>3 DEF CreateOK, ParkOK
  <2>6. DelayOK' /\ AtOK'
    BY <1>5, <2>2, <2>3 DEF DelayOK, AtOK
  <2>7. SpanOK'
    <3>1. Span' = Dist(0, t + 1) /\ t + 1 \in Threads
      BY <1>3, <1>5, <2>2, <2>3, Numbers DEF Span
    <3>2. ASSUME NEW u \in Threads, Dist(0, u) >= Dist(0, t + 1)
          PROVE  u # t /\ Dist(0, u) >= Dist(0, t)
      BY <1>3, <3>1, <3>2, Numbers DEF Dist
    <3> QED
      BY <1>5, <1>7, <2>2, <2>3, <3>1, <3>2 DEF SpanOK, Passed
  <2> QED
    BY <1>6, <1>8, <2>4, <2>5, <2>6, <2>7 DEF RingInv, CallerOK, RingOK
<1>10. CASE ~ (Delays(t + 1) /\ main.pkt # 0)
  <2>1. Collects
    BY <1>2, <1>10 DEF Submitted
  <2>2. /\ main'.pc = "collect" /\ main'.plan = main.plan
        /\ main'.pkt = main.pkt /\ main'.at = nf /\ main'.err = 0
        /\ main' \in MainType
        /\ ~Calling' /\ Collecting' /\ Running' /\ ~Parking'
    BY <2>1 DEF Collects, MainIs, Calling, Collecting, Running, Parking
  <2>3. Handed'
    BY <1>2, <2>2 DEF Handed, Submits
  <2>4. Typed' /\ Places'
    BY <1>1, <1>2, <1>3, <1>4, <1>5, <2>2, <2>3, Numbers DEF Typed, Places
  <2>5. CreateOK' /\ ParkOK' /\ AtOK'
    BY <1>5, <2>2 DEF CreateOK, ParkOK, AtOK
  <2>6. DelayOK'
    <3>1. main'.plan = "feed" => main.pkt # 0
      BY <1>1, <1>2, <2>2 DEF Places
    <3> QED
      BY <1>5, <1>10, <3>1 DEF DelayOK
  <2>7. SpanOK'
    <3>1. Span' = Dist(nf, t) + 1
      BY <1>3, <1>5, <2>3, Numbers DEF Span
    <3>2. Dist(nf, t) \in 0 .. N - 1 /\ \A u \in Threads : ~Passed(u)'
      <4>1. Dist(nf, nf) = 0 /\ \A u \in Threads : Dist(nf, u) \in 0 .. N - 1
        BY DistIs
      <4>2. \A u \in Threads : ~ (Dist(nf, u) < 0)
        BY <4>1, Numbers
      <4> QED
        BY <1>5, <2>2, <4>1, <4>2 DEF Passed
    <3>3. ASSUME NEW u \in Threads, Dist(nf, u) >= Dist(nf, t) + 1
          PROVE  u # t /\ Dist(nf, u) >= Dist(nf, t)
      <4>1. Dist(nf, u) \in 0 .. N - 1
        BY DistIs
      <4> QED
        BY <3>2, <3>3, <4>1, Numbers
    <3> QED
      BY <1>5, <1>7, <3>1, <3>2, <3>3 DEF SpanOK
  <2> QED
    BY <1>6, <1>8, <2>4, <2>5, <2>6, <2>7 DEF RingInv, CallerOK, RingOK
<1> QED
  BY <1>9, <1>10

LEMMA PassKeepsRing ==
    ASSUME RingInv, NEW t \in Threads, NEW nf \in Threads,
           nf = fctx.next_finished, PassDoes(t)
    PROVE  RingInv'
<1>1. Typed /\ Places /\ WorkersOK /\ CallerOK /\ RingOK
  BY DEF RingInv
<1>2. /\ UNCHANGED <<codec, fctx, prog, hist>> /\ main.pc = "collect"
      /\ main'.pc = "collect" /\ main'.plan = main.plan
      /\ main'.made = main.made /\ main'.pkt = main.pkt /\ main.pkt = 0
      /\ main'.at = After(t) /\ t = main.at /\ main' \in MainType
      /\ main'.err = Latest(t)
      /\ th[t].state = "INPUT_READY" /\ th[t].out = 0 /\ After(t) # nf
  BY DEF PassDoes, MainIs
<1>3. /\ Collecting /\ Collecting' /\ Running /\ Running' /\ ~Calling
      /\ ~Calling' /\ ~Parking' /\ ~Ending /\ ~Ending'
  BY <1>2 DEF Collecting, Running, Calling, Parking, Ending
<1>4. (Submits' <=> Submits) /\ (Handed' <=> Handed)
  BY <1>2, <1>3 DEF Submits, Handed
<1>5. \A u \in Threads :
         /\ th'[u].pc = th[u].pc /\ th'[u].state = th[u].state
         /\ th'[u].pkt = th[u].pkt /\ th'[u].ctx = th[u].ctx
         /\ th'[u].out = th[u].out
         /\ Quiet(u) <=> Quiet(u)'
  BY <1>2 DEF PassDoes, Takes, Own, OthersSame, Quiet
<1>6. Typed' /\ Places'
  <2>1. Latest(t) \in Frames
    BY <1>1, <1>3, ThreadFields DEF Latest, Places
  <2>2. th' \in [Threads -> ThreadType]
    BY DEF PassDoes, Takes
  <2> QED
    BY <1>1, <1>2, <1>3, <1>4, <2>1, <2>2, AfterIs DEF Typed, Places
<1>7. WorkersOK'
  BY <1>1, <1>2, <1>5 DEF WorkersOK, WorkerOK
<1>8. CallerOK'
  BY <1>1, <1>2, <1>3, <1>5 DEF CallerOK, CreateOK, RunOK, ParkOK, EndOK
<1>9. FirstOK' /\ PrevOK' /\ AtOK' /\ DelayOK'
  BY <1>1, <1>2, <1>3, <1>4, <1>5
     DEF RingOK, FirstOK, PrevOK, DelayOK, AtOK
<1>10. SpanOK'
  <2>1. Span' = Span
    BY <1>2, <1>4 DEF Span
  <2>2. Dist(nf, After(t)) = Dist(nf, t) + 1 /\ Dist(nf, t) \in 0 .. N - 1
    BY <1>2, DistIs
  <2>3. ASSUME NEW u \in Threads, Passed(u)'
        PROVE  Quiet(u)
    <3>1. Dist(nf, u) < Dist(nf, After(t)) /\ Dist(nf, u) \in 0 .. N - 1
      BY <1>2, <2>3, DistIs DEF Passed
    <3>2. Dist(nf, u) < Dist(nf, t) \/ Dist(nf, u) = Dist(nf, t)
      BY <2>2, <3>1, Numbers
    <3>3. CASE Dist(nf, u) < Dist(nf, t)
      BY <1>1, <1>2, <1>3, <3>3 DEF RingOK, SpanOK, Passed
    <3>4. CASE Dist(nf, u) = Dist(nf, t)
      BY <1>2, <3>4, DistInjective DEF Quiet
    <3> QED
      BY <3>2, <3>3, <3>4
  <2> QED
    BY <1>1, <1>2, <1>3, <1>5, <2>1, <2>3 DEF RingOK, SpanOK
<1> QED
  BY <1>6, <1>7, <1>8, <1>9, <1>10 DEF RingInv, RingOK

(* Positions after the ring went on by one thread.                         *)
LEMMA SpanShift ==
    ASSUME NEW a \in Threads, NEW b \in Threads, NEW u \in Threads,
           NEW s \in 0 .. N, Dist(a, b) < s, Dist(a, b) < Dist(a, u),
           Dist(After(b), u) >= s - Dist(a, b) - 1
    PROVE  Dist(a, u) >= s
<1>1. Dist(a, b) \in 0 .. N - 1 /\ Dist(a, u) \in 0 .. N - 1
  BY DistIs
<1>2. Dist(After(b), u) = Dist(a, u) - Dist(a, b) - 1
  BY <1>1, DistShift, Numbers
<1> QED
  BY <1>1, <1>2, Numbers

LEMMA SpanAfter ==
    ASSUME NEW a \in Threads, NEW b \in Threads, NEW p \in Threads
    PROVE  /\ Dist(a, p) + 1 \in 0 .. N
           /\ Dist(a, b) < Dist(a, p) + 1 =>
                Dist(After(b), After(p)) >= Dist(a, p) + 1 - Dist(a, b) - 1
<1>1. /\ Dist(a, b) \in 0 .. N - 1 /\ Dist(a, p) \in 0 .. N - 1
      /\ After(b) \in Threads /\ After(p) \in Threads
  BY DistIs, AfterIs
<1>2. CASE p = b
  <2>1. Dist(After(b), After(p)) \in 0 .. N - 1
    BY <1>1, DistIs
  <2> QED
    BY <1>1, <1>2, <2>1, Numbers
<1>3. CASE p # b
  <2>1. Dist(a, p) # Dist(a, b)
    BY <1>3, DistInjective
  <2>2. ASSUME Dist(a, b) < Dist(a, p) + 1
        PROVE  Dist(After(b), p) = Dist(a, p) - Dist(a, b) - 1
    <3>1. Dist(a, p) > Dist(a, b)
      BY <1>1, <2>1, <2>2, Numbers
    <3> QED
      BY <3>1, DistShift
  <2>3. After(p) # After(b)
    BY <1>3, Numbers DEF After
  <2>4. Dist(After(b), After(p)) = Dist(After(b), p) + 1
    BY <1>1, <2>3, DistIs
  <2> QED
    BY <1>1, <2>2, <2>4, Numbers
<1> QED
  BY <1>2, <1>3

LEMMA TakeKeepsRing ==
    ASSUME RingInv, NEW t \in Threads, NEW nf \in Threads,
           nf = fctx.next_finished, TakeDoes(t)
    PROVE  RingInv'
<1> DEFINE nd == IF fctx.next_decoding = N THEN 0 ELSE fctx.next_decoding
           err == ErrorOf(th[t].out, Latest(t))
<1>1. Typed /\ Places /\ WorkersOK /\ CallerOK /\ RingOK /\ RunOK
  BY DEF RingInv, CallerOK
<1>2. /\ UNCHANGED <<codec, prog>> /\ main.pc = "collect" /\ Collecting
      /\ t = main.at /\ th[t].state = "INPUT_READY" /\ hist' \in HistType
      /\ Answers(th[t].out # 0, err) /\ Takes(t)
      /\ RingIs(nd, After(t), fctx.delaying, fctx.prev, fctx.die)
  BY DEF TakeDoes, Collecting
<1>3. /\ IF main.plan \in {"rewind", "last"}
         THEN main'.pc = "park" ELSE main'.pc = "idle"
      /\ main'.pc = "park" => main'.plan = main.plan
      /\ main'.pc = "idle" => main'.plan \in {"feed", "drain", "ended"}
      /\ main'.plan = "feed" <=> main.plan = "feed"
      /\ main'.plan = "rewind" <=> main.plan = "rewind"
      /\ main'.at = 0 /\ main.made = N /\ main'.made = N
      /\ main' \in MainType
      /\ ~Calling' /\ ~Collecting' /\ ~Handed' /\ ~Ending' /\ ~Ending
      /\ (Running' <=> main'.pc = "idle") /\ (Parking' <=> main'.pc = "park")
      /\ Running
  BY <1>2, AnswerPlaces
<1>4. \A u \in Threads :
         /\ th'[u].pc = th[u].pc /\ th'[u].state = th[u].state
         /\ th'[u].pkt = th[u].pkt /\ th'[u].ctx = th[u].ctx
         /\ th'[u].out = IF u = t THEN 0 ELSE th[u].out
         /\ Quiet(u) => Quiet(u)'
         /\ u = t => Quiet(u)'
  BY <1>2 DEF Takes, Own, OthersSame, Quiet
<1>5. nd \in Threads /\ After(t) \in Threads
  BY <1>1, RingFields, AfterIs, Numbers
<1>6. th' \in [Threads -> ThreadType]
  BY <1>2 DEF Takes
<1>7. Typed'
  BY <1>1, <1>2, <1>3, <1>6 DEF Typed, RingIs
<1>8. Places'
  BY <1>2, <1>3, <1>5, Numbers DEF Places, RingIs
<1>9. WorkersOK'
  BY <1>1, <1>2, <1>4 DEF WorkersOK, WorkerOK, RingIs
<1>10. CallerOK'
  <2>1. ParkOK' /\ CreateOK'
    BY <1>2, <1>6, AnswerParks
  <2>2. RunOK' /\ EndOK'
    BY <1>1, <1>2, <1>3, <1>4 DEF CallerOK, RunOK, EndOK, RingIs
  <2> QED
    BY <2>1, <2>2 DEF CallerOK
<1>11. FirstOK'
  <2>1. ASSUME fctx.prev = None
        PROVE  After(t) = 0 /\ nd = 0
    <3>1. ~Handed /\ Quiet(t) /\ nf = 0 /\ fctx.next_decoding = 0
      BY <1>1, <2>1 DEF RingOK, FirstOK
    <3>2. main.pkt = 0 /\ th[t].out = 0
      BY <1>2, <3>1 DEF Handed, Submits, Quiet
    <3> QED
      BY <3>1, <3>2, Numbers DEF TakeDoes
  <2> QED
    BY <1>1, <1>2, <1>3, <1>4, <2>1 DEF RingOK, FirstOK, RingIs
<1>12. PrevOK' /\ AtOK' /\ DelayOK'
  <2>1. PrevOK'
    BY <1>1, <1>2, <1>3, RingFields, Numbers DEF RingOK, PrevOK, RingIs
  <2>2. AtOK' /\ DelayOK'
    BY <1>1, <1>2, <1>3 DEF RingOK, AtOK, DelayOK, RingIs
  <2> QED
    BY <2>1, <2>2
<1>13. SpanOK'
  <2>1. Span' = Dist(After(t), nd) /\ \A u \in Threads : ~Passed(u)'
    BY <1>2, <1>3 DEF Span, Passed, RingIs
  <2>2. /\ Span \in 0 .. N
        /\ Dist(nf, t) < Span =>
             Dist(After(t), nd) >= Span - Dist(nf, t) - 1
    <3>1. CASE Handed
      <4> DEFINE p == fctx.next_decoding - 1
      <4>1. p \in Threads /\ nd = After(p)
        BY <1>1, <3>1, RingFields, Numbers DEF RingOK, FirstOK, PrevOK, After
      <4>2. Span = Dist(nf, p) + 1
        BY <3>1 DEF Span
      <4> HIDE DEF p, nd
      <4>3. /\ Dist(nf, p) + 1 \in 0 .. N
            /\ Dist(nf, t) < Dist(nf, p) + 1 =>
                 Dist(After(t), After(p)) >= Dist(nf, p) + 1 - Dist(nf, t) - 1
        BY <4>1, SpanAfter
      <4>4. Dist(After(t), After(p)) = Dist(After(t), nd)
        BY <4>1
      <4>5. Span \in 0 .. N
        BY <4>2, <4>3
      <4>6. ASSUME Dist(nf, t) < Span
            PROVE  Dist(After(t), nd) >= Span - Dist(nf, t) - 1
        <5>1. /\ Dist(nf, p) \in 0 .. N - 1 /\ Dist(nf, t) \in 0 .. N - 1
              /\ Dist(After(t), nd) \in 0 .. N - 1
          BY <1>5, <4>1, DistIs
        <5> QED
          BY <4>2, <4>3, <4>4, <4>6, <5>1, Numbers
      <4> QED
        BY <4>5, <4>6
    <3>2. CASE ~Handed
      <4>1. fctx.next_decoding \in Threads /\ nd = fctx.next_decoding
        BY <1>1, <3>2, Numbers DEF Places
      <4>2. Span = Dist(nf, nd) /\ Dist(nf, nd) \in 0 .. N - 1
        BY <3>2, <4>1, DistIs DEF Span
      <4>3. Dist(nf, t) \in 0 .. N - 1
        BY DistIs
      <4>4. Dist(nf, t) < Span =>
              Dist(After(t), nd) = Dist(nf, nd) - Dist(nf, t) - 1
        BY <1>5, <4>2, <4>3, DistShift
      <4> HIDE DEF nd
      <4> QED
        BY <1>5, <4>2, <4>3, <4>4, Numbers
    <3> QED
      BY <3>1, <3>2
  <2>3. ASSUME NEW u \in Threads, Dist(After(t), u) >= Dist(After(t), nd)
        PROVE  Quiet(u)'
    <3>1. /\ Dist(nf, u) \in 0 .. N - 1 /\ Dist(nf, t) \in 0 .. N - 1
          /\ Dist(After(t), u) \in 0 .. N - 1
          /\ Dist(After(t), nd) \in 0 .. N - 1
      BY <1>5, DistIs
    <3>2. CASE Dist(nf, u) < Dist(nf, t)
      BY <1>1, <1>2, <1>3, <1>4, <3>2 DEF RingOK, SpanOK, Passed
    <3>3. CASE Dist(nf, u) = Dist(nf, t)
      BY <1>4, <3>3, DistInjective
    <3>4. CASE Dist(nf, u) > Dist(nf, t)
      <4>1. Dist(nf, u) >= Span
        <5>1. CASE Dist(nf, t) < Span
          <6>1. Dist(After(t), u) >= Span - Dist(nf, t) - 1
            BY <2>2, <2>3, <3>1, <5>1, Numbers
          <6> QED
            BY <2>2, <3>4, <5>1, <6>1, SpanShift
        <5>2. CASE ~ (Dist(nf, t) < Span)
          BY <2>2, <3>1, <3>4, <5>2, Numbers
        <5> QED
          BY <5>1, <5>2
      <4> QED
        BY <1>1, <1>3, <1>4, <4>1 DEF RingOK, SpanOK
    <3> QED
      BY <3>1, <3>2, <3>3, <3>4, Numbers
  <2> QED
    BY <1>2, <2>1, <2>3 DEF SpanOK, RingIs
<1> QED
  BY <1>7, <1>8, <1>9, <1>10, <1>11, <1>12, <1>13 DEF RingInv, RingOK

LEMMA InitRing == Init => RingInv
<1> SUFFICES ASSUME Init
             PROVE  RingInv
  OBVIOUS
<1>1. /\ 0 \in Frames /\ 0 \in 0 .. N /\ N \in 1 .. N /\ 0 \in 0 .. MaxRewinds
      /\ 0 \in 0 .. MaxFaults /\ 0 < N
  BY Numbers
<1>2. /\ main.pc = "create" /\ main.plan = "feed" /\ main.at = 0
      /\ main.made = N /\ fctx = FreshRing
  BY DEF Init
<1>3. \A t \in Threads :
         /\ th[t].pc = "none" /\ th[t].state = "INPUT_READY" /\ th[t].out = 0
         /\ th[t].ctx = FreshContext /\ t >= 0
  BY Numbers DEF Init, FreshThread
<1>4. /\ fctx.next_decoding = 0 /\ fctx.next_finished = 0 /\ fctx.die = FALSE
      /\ fctx.prev = None /\ 0 \in Threads
  BY <1>2, Numbers DEF FreshRing
<1>5. Typed
  <2>1. main \in MainType
    BY <1>1 DEF Init, MainType
  <2>2. hist \in HistType
    BY <1>1 DEF Init, HistType
  <2> QED
    BY <1>2, <2>1, <2>2, FreshTypes DEF Init, Typed
<1>6. /\ ~Calling /\ ~Collecting /\ ~Parking /\ ~Ending /\ ~Running /\ ~Handed
  BY <1>2 DEF Calling, Collecting, Parking, Ending, Running, Handed
<1>7. Places
  BY <1>1, <1>2, <1>4, <1>6 DEF Places
<1>8. WorkersOK /\ CallerOK
  BY <1>2, <1>3, <1>4, <1>6
     DEF WorkersOK, WorkerOK, CallerOK, CreateOK, RunOK, ParkOK, EndOK, Quiet
<1>9. RingOK
  BY <1>3, <1>4, <1>6
     DEF RingOK, FirstOK, PrevOK, DelayOK, AtOK, SpanOK, Quiet
<1> QED
  BY <1>5, <1>7, <1>8, <1>9 DEF RingInv

LEMMA CallKeepsRing ==
    ASSUME RingInv, CallDoes
    PROVE  RingInv'
<1>1. HandDoes(fctx.next_decoding) => RingInv'
  <2>1. HandDoes(fctx.next_decoding) =>
          fctx.next_decoding \in Threads /\ fctx.next_finished \in Threads
    BY NextIsQuiet, RingFields DEF HandDoes, Calling, RingInv
  <2> QED
    BY <2>1, HandKeepsRing
<1>2. PassDoes(main.at) \/ TakeDoes(main.at) => RingInv'
  <2>1. Collecting => main.at \in Threads /\ fctx.next_finished \in Threads
    BY RingFields DEF RingInv, Places
  <2>2. PassDoes(main.at) \/ TakeDoes(main.at) => Collecting
    BY DEF PassDoes, TakeDoes, Collecting
  <2> QED
    BY <2>1, <2>2, PassKeepsRing, TakeKeepsRing
<1> QED
  BY <1>1, <1>2, FeedKeepsRing, EmptyKeepsRing, FailKeepsRing,
     SubmitNothingKeepsRing, LockKeepsRing
     DEF CallDoes

LEMMA ManageKeepsRing ==
    ASSUME RingInv, ManageDoes
    PROVE  RingInv'
  BY CreateKeepsRing, CreateFailKeepsRing, CloseKeepsRing, ParkKeepsRing,
     FlushKeepsRing, DieKeepsRing, KillKeepsRing, JoinKeepsRing
     DEF ManageDoes

LEMMA StutterKeepsRing ==
    ASSUME RingInv, UNCHANGED vars
    PROVE  RingInv'
<1>1. UNCHANGED <<codec, main, fctx, th, prog, hist>>
  BY DEF vars
<1>2. /\ Calling' <=> Calling
      /\ Collecting' <=> Collecting
      /\ Parking' <=> Parking
      /\ Ending' <=> Ending
      /\ Running' <=> Running
      /\ Submits' <=> Submits
      /\ Handed' <=> Handed
      /\ Span' = Span
      /\ \A t \in Threads : /\ Quiet(t)' <=> Quiet(t)
                            /\ Passed(t)' <=> Passed(t)
                            /\ WorkerOK(t)' <=> WorkerOK(t)
  BY <1>1
     DEF Calling, Collecting, Parking, Ending, Running, Submits, Handed, Span,
         Quiet, Passed, WorkerOK
<1>3. Typed' /\ Places' /\ WorkersOK'
  BY <1>1, <1>2 DEF RingInv, Typed, Places, WorkersOK
<1>4. CallerOK'
  BY <1>1, <1>2 DEF RingInv, CallerOK, CreateOK, RunOK, ParkOK, EndOK
<1>5. RingOK'
  BY <1>1, <1>2
     DEF RingInv, RingOK, FirstOK, PrevOK, DelayOK, AtOK, SpanOK
<1> QED
  BY <1>3, <1>4, <1>5 DEF RingInv

(* A step is one of a worker, of the caller in a call, of the caller       *)
(* outside of calls, or none.                                              *)
LEMMA Steps ==
    ASSUME RingInv, [Next]_vars
    PROVE  \/ \E t \in Threads : WorkerDoes(t)
           \/ CallDoes
           \/ ManageDoes
           \/ UNCHANGED vars
  BY WorkerEffect, CallEffect, ManageEffect DEF Next, Main

LEMMA RingInductive == RingInv /\ [Next]_vars => RingInv'
  BY Steps, WorkerKeepsRing, CallKeepsRing, ManageKeepsRing, StutterKeepsRing

LEMMA RingInvariant == Spec => []RingInv
  BY InitRing, RingInductive, PTL DEF Spec

(* The state of the frame threads keeps its types.                         *)
THEOREM FrameThreadsTyped == Spec => []TypeOK
<1>1. RingInv => TypeOK
  <2> SUFFICES ASSUME RingInv
               PROVE  TypeOK
    OBVIOUS
  <2>1. Typed
    BY DEF RingInv
  <2>2. fctx.next_decoding \in
          IF main.pc \in {"collect", "collectAsleep"} THEN 0 .. N ELSE Threads
    BY <2>1, RingFields DEF RingInv, Places, Handed, Collecting
  <2>3. th \in [Threads -> ThreadType]
    BY <2>1 DEF Typed
  <2> QED
    BY <2>1, <2>2, <2>3, MainFields, RingFields, HistFields
       DEF TypeOK, Typed, ThreadType, ContextType
<1> QED
  BY <1>1, RingInvariant, PTL

(* The thread that gets the next packet is idle and its frame was taken,   *)
(* however far apart the ring's two ends are (pthread_frame.c:401).        *)
THEOREM PacketsGoToIdle == Spec => []SubmitsToIdle
<1>1. RingInv => SubmitsToIdle
  BY NextIsQuiet DEF SubmitsToIdle, Quiet, Calling
<1> QED
  BY <1>1, RingInvariant, PTL

----------------------------------------------------------------------------
(* Sleeping and waking.  Who has been signalled to exit does not wait; a   *)
(* thread that was never made has no place.                                *)
Signalled(t) ==
    \/ main.pc = "freed"
    \/ main.pc = "kill" /\ t < main.at
    \/ main.pc = "join" /\ t <= main.at
CallerAsleep ==
    /\ main.pc = "prevAsleep" => PrevSettingUp
    /\ main.pc \in {"collectAsleep", "parkAsleep"} =>
         th[main.at].state # "INPUT_READY"
SleepOK(t) ==
    /\ th[t].pc = "wait" => ~Signalled(t)
    /\ th[t].pc = "starved" => ~prog[th[t].ref]
SleepsOK == \A t \in Threads : SleepOK(t)
MadeOK == \A t \in Threads : t >= main.made => th[t].pc = "none"
Asleep == CallerAsleep /\ SleepsOK /\ MadeOK

(* A worker that changes its state tells those who wait for that.          *)
LEMMA StateTold ==
    ASSUME NEW t, WorkerDoes(t)
    PROVE  \/ th'[t].state = th[t].state
           \/ MainProgress(t) /\ th'[t].state = "SETUP_FINISHED"
           \/ MainOutput(t) /\ th'[t].state = "INPUT_READY"
  BY DEF WorkerDoes, SleepDoes, ExitDoes, StartDoes, SpuriousDoes,
         SetupPacketDoes, SetupErrorDoes, SetupEmptyDoes, OutputFailDoes,
         AwaitProgressDoes,
         DecodeDoes, FinishSetupDoes, DoneDoes, Own, Moves, Kept

LEMMA WorkerKeepsAsleep ==
    ASSUME RingInv, Asleep, NEW t \in Threads, WorkerDoes(t)
    PROVE  Asleep'
<1>1. /\ Typed /\ CallerAsleep /\ SleepsOK /\ MadeOK /\ SleepOK(t)
      /\ prog \in [Frames -> BOOLEAN] /\ main \in MainType
  BY DEF RingInv, Asleep, SleepsOK, Typed
<1>2. /\ CallerStays /\ ThreadsStep(t) /\ fctx' = fctx
      /\ main'.at = main.at /\ main'.made = main.made
  BY <1>1, WorkerCaller, WorkerThreads DEF CallerStays, MainKept
<1>3. \A u \in Threads : Signalled(u)' <=> Signalled(u)
  BY <1>1, <1>2 DEF Signalled, CallerStays, MainType
<1>4. MadeOK'
  BY <1>1, <1>2 DEF MadeOK, ThreadsStep, Aside
<1>5. fctx.die <=> Ending
  BY DEF RingInv, CallerOK, EndOK
<1>6. fctx.prev # None => fctx.prev \in Threads
  BY <1>1, RingFields
<1>7. main.pc \in {"collectAsleep", "parkAsleep"} => main.at \in Threads
  BY <1>1, MainFields, Numbers DEF RingInv, Places, Collecting
<1>8. CallerAsleep'
  <2>1. \A u \in Threads \ {t} : th'[u].state = th[u].state
    BY <1>2 DEF ThreadsStep, Aside, Kept
  <2>2. /\ main'.pc = "prevAsleep" => main.pc = "prevAsleep"
        /\ main'.pc = "collectAsleep" => main.pc = "collectAsleep"
        /\ main'.pc = "parkAsleep" => main.pc = "parkAsleep"
    BY <1>1, <1>2 DEF CallerStays, MainType
  <2>3. CASE th'[t].state = th[t].state
    BY <1>1, <1>2, <1>6, <1>7, <2>1, <2>2, <2>3 DEF CallerAsleep, PrevSettingUp
  <2>4. CASE MainProgress(t) /\ th'[t].state = "SETUP_FINISHED"
    BY <1>1, <1>2, <1>6, <1>7, <2>1, <2>2, <2>4
       DEF CallerAsleep, PrevSettingUp, MainProgress
  <2>5. CASE MainOutput(t) /\ th'[t].state = "INPUT_READY"
    BY <1>1, <1>2, <1>6, <1>7, <2>1, <2>2, <2>5
       DEF CallerAsleep, PrevSettingUp, MainOutput
  <2> QED
    BY <2>3, <2>4, <2>5, StateTold
<1>9. SleepsOK'
  <2> SUFFICES ASSUME NEW u \in Threads
               PROVE  SleepOK(u)'
    BY DEF SleepsOK
  <2>1. SleepOK(u) /\ (Signalled(u)' <=> Signalled(u)) /\ (Signalled(t) => Ending)
    BY <1>1, <1>3 DEF SleepsOK, Signalled, Ending
  <2>2. CASE DecodeDoes(t, TRUE) \/ DecodeDoes(t, FALSE)
    <3>1. th[u].ref \in Frames
      BY <1>1, ThreadFields
    <3>2. CASE u = t
      BY <2>2, <3>2 DEF DecodeDoes, Own, SleepOK
    <3>3. CASE u # t
      BY <1>1, <2>1, <2>2, <3>1, <3>3
         DEF DecodeDoes, Others, Beside, Kept, SleepOK
    <3> QED
      BY <3>2, <3>3
  <2>3. CASE \/ StartDoes(t) \/ SetupErrorDoes(t) \/ SetupEmptyDoes(t)
             \/ OutputFailDoes(t) \/ SleepDoes(t) \/ ExitDoes(t) \/ SpuriousDoes(t)
             \/ AwaitProgressDoes(t)
    BY <1>1, <1>5, <2>1, <2>3
       DEF StartDoes, SetupErrorDoes, SetupEmptyDoes, OutputFailDoes,
           SleepDoes, ExitDoes,
           SpuriousDoes, AwaitProgressDoes, Own, Moves, Kept, OthersSame,
           SleepOK
  <2>4. CASE SetupPacketDoes(t) \/ FinishSetupDoes(t) \/ DoneDoes(t)
    BY <1>1, <2>1, <2>4
       DEF SetupPacketDoes, FinishSetupDoes, DoneDoes, Own, Others, Beside,
           Kept, SleepOK
  <2> QED
    BY <2>2, <2>3, <2>4 DEF WorkerDoes
<1> QED
  BY <1>4, <1>8, <1>9 DEF Asleep

(* The caller keeps it too: in a call nobody is signalled to exit.         *)
LEMMA CallKeepsAsleep ==
    ASSUME RingInv, Asleep, CallDoes
    PROVE  Asleep'
<1>1. /\ Typed /\ CallerAsleep /\ SleepsOK /\ MadeOK /\ main \in MainType
      /\ Places
  BY DEF RingInv, Asleep, Typed
<1>2. /\ prog' = prog /\ main'.made = main.made
      /\ main'.pc \notin {"kill", "join", "freed", "parkAsleep"}
      /\ main'.pc \in {"prevAsleep", "collectAsleep"} =>
           fctx' = fctx /\ th' = th /\ CallerAsleep'
  BY <1>1
     DEF CallDoes, FeedDoes, EmptyDoes, UserContextFailDoes,
         SubmitNothingDoes, LockDoes, AwaitSetupDoes, ContextFailDoes,
         HandDoes, AwaitOutputDoes, PassDoes, TakeDoes, Submitted, Answers,
         Collects, MainGoes, MainIs, CallerAsleep, PrevSettingUp
<1>3. \A u \in Threads :
        /\ th'[u].pc = "wait" => th[u].pc = "wait"
        /\ th'[u].pc = "none" <=> th[u].pc = "none"
        /\ th'[u].pc = "starved" <=> th[u].pc = "starved"
        /\ th'[u].ref = th[u].ref
  <2>1. CASE HandDoes(fctx.next_decoding)
    BY <2>1 DEF HandDoes, OthersSame, SignalInput
  <2>2. CASE PassDoes(main.at) \/ TakeDoes(main.at)
    BY <2>2 DEF PassDoes, TakeDoes, Takes, Own, OthersSame
  <2>3. CASE th' = th
    BY <2>3
  <2> QED
    BY <2>1, <2>2, <2>3
       DEF CallDoes, FeedDoes, EmptyDoes, UserContextFailDoes,
           SubmitNothingDoes, LockDoes, AwaitSetupDoes, ContextFailDoes,
           AwaitOutputDoes
<1>4. CallerAsleep'
  BY <1>2 DEF CallerAsleep
<1>5. SleepsOK'
  BY <1>1, <1>2, <1>3 DEF SleepsOK, SleepOK, Signalled
<1>6. MadeOK'
  BY <1>1, <1>2, <1>3 DEF MadeOK
<1> QED
  BY <1>4, <1>5, <1>6 DEF Asleep

LEMMA ManageKeepsAsleep ==
    ASSUME RingInv, Asleep, ManageDoes
    PROVE  Asleep'
<1>1. /\ Typed /\ CallerAsleep /\ SleepsOK /\ MadeOK /\ main \in MainType
      /\ Places /\ main.made \in 1 .. N /\ main.at \in 0 .. N
  BY MainFields DEF RingInv, Asleep, Typed
<1>2. CASE CreateDoes(main.at) \/ CreateFailDoes
  <2>1. /\ main.pc = "create" /\ main.made = N /\ prog' = prog
        /\ main'.pc \in {"create", "idle", "park"}
        /\ main'.made \in {N, main.at + 1} /\ main.at \in Threads
    BY <1>1, <1>2, Numbers
       DEF CreateDoes, CreateFailDoes, MainGoes, MainIs, Places, RingInv,
           CallerOK, CreateOK
  <2>2. \A u \in Threads :
          /\ u # main.at => th'[u] = th[u]
          /\ th'[u] = th[u] \/ th'[u].pc = "woken"
          /\ th[u].pc = "none" <=> u >= main.at
    BY <1>1, <1>2, <2>1
       DEF CreateDoes, CreateFailDoes, Moves, OthersSame, RingInv, CallerOK,
           CreateOK
  <2>3. MadeOK'
    BY <1>1, <2>1, <2>2, Numbers DEF MadeOK
  <2>4. CallerAsleep' /\ SleepsOK'
    BY <1>1, <2>1, <2>2 DEF CallerAsleep, SleepsOK, SleepOK, Signalled
  <2> QED
    BY <2>3, <2>4 DEF Asleep
<1>3. CASE CloseDoes \/ AwaitParkedDoes \/ DieDoes \/ JoinDoes
  <2>1. /\ th' = th /\ prog' = prog /\ main'.made = main.made
        /\ main.pc # "freed"
        /\ \/ main'.pc = "park"
           \/ main'.pc = "parkAsleep" /\ th[main'.at].state # "INPUT_READY"
           \/ main'.pc = "kill" /\ main'.at = 0
           \/ /\ main.pc = "join" /\ main'.pc = "freed"
              /\ main.at + 1 = main.made
              /\ th[main.at].pc \in {"none", "exit"}
           \/ /\ main.pc = "join" /\ main'.pc = "kill"
              /\ main'.at = main.at + 1
    BY <1>3
       DEF CloseDoes, AwaitParkedDoes, DieDoes, JoinDoes, MainGoes, MainIs
  <2>2. CallerAsleep' /\ MadeOK'
    BY <1>1, <2>1 DEF CallerAsleep, MadeOK
  <2>3. ASSUME NEW t \in Threads, th[t].pc = "wait", Signalled(t)'
        PROVE  Signalled(t)
    <3>1. t < main.made
      BY <1>1, <2>3, Numbers DEF MadeOK
    <3> QED
      BY <1>1, <2>1, <2>3, <3>1, Numbers DEF Signalled
  <2>4. SleepsOK'
    BY <1>1, <2>1, <2>3 DEF SleepsOK, SleepOK
  <2> QED
    BY <2>2, <2>4 DEF Asleep
<1>4. CASE ParkDoes(main.at) \/ FlushDoes \/ KillDoes(main.at)
  <2>1. /\ prog' = prog /\ main'.made = main.made
        /\ \/ main'.pc \in {"park", "idle"}
           \/ /\ main.pc = "kill" /\ main'.pc = "join" /\ main'.at = main.at
              /\ Moves(main.at, SignalInput(main.at))
        /\ \A u \in Threads :
             /\ th'[u].pc = "wait" => th[u].pc = "wait"
             /\ th'[u].pc = "none" <=> th[u].pc = "none"
             /\ th'[u].pc = "starved" <=> th[u].pc = "starved"
             /\ th'[u].ref = th[u].ref
    BY <1>4
       DEF ParkDoes, FlushDoes, KillDoes, MainGoes, MainIs, Moves, Kept,
           OthersSame, SignalInput, Takes, Own
  <2>2. CallerAsleep' /\ MadeOK'
    BY <1>1, <2>1 DEF CallerAsleep, MadeOK
  <2>3. ASSUME NEW t \in Threads, th'[t].pc = "wait"
        PROVE  ~Signalled(t)'
    <3>1. ~Signalled(t)
      BY <1>1, <2>1, <2>3 DEF SleepsOK, SleepOK
    <3>2. main'.pc = "join" => t # main.at
      BY <2>1, <2>3 DEF Moves, SignalInput
    <3> QED
      BY <1>1, <2>1, <3>1, <3>2, Numbers DEF Signalled
  <2>4. SleepsOK'
    BY <1>1, <2>1, <2>3 DEF SleepsOK, SleepOK
  <2> QED
    BY <2>2, <2>4 DEF Asleep
<1> QED
  BY <1>2, <1>3, <1>4 DEF ManageDoes

LEMMA InitAsleep == Init => Asleep
<1> SUFFICES ASSUME Init
             PROVE  Asleep
  OBVIOUS
<1>1. /\ main.pc = "create" /\ main.made = N
      /\ \A t \in Threads : th[t].pc = "none"
  BY DEF Init, FreshThread
<1> QED
  BY <1>1, Numbers
     DEF Asleep, CallerAsleep, SleepsOK, SleepOK, MadeOK

LEMMA StutterKeepsAsleep ==
    ASSUME Asleep, UNCHANGED vars
    PROVE  Asleep'
  BY DEF vars, Asleep, CallerAsleep, PrevSettingUp, SleepsOK, SleepOK,
         Signalled, MadeOK

LEMMA AsleepInductive == RingInv /\ Asleep /\ [Next]_vars => Asleep'
  BY Steps, WorkerKeepsAsleep, CallKeepsAsleep, ManageKeepsAsleep,
     StutterKeepsAsleep

LEMMA AsleepInvariant == Spec => []Asleep
  BY RingInvariant, InitAsleep, AsleepInductive, PTL DEF Spec

(* Whoever sleeps on a condition variable waits for something that is not  *)
(* there yet: no signal came before the sleep, or to another condition.    *)
THEOREM SignalsReach == Spec => []NoSignalMissed
<1>1. RingInv /\ Asleep => NoSignalMissed
  BY DEF RingInv, WorkersOK, WorkerOK, Asleep, CallerAsleep, SleepsOK,
         SleepOK, Signalled, NoSignalMissed
<1> QED
  BY <1>1, RingInvariant, AsleepInvariant, PTL

----------------------------------------------------------------------------
(* The packets come in order: none is set up before the packets handed     *)
(* over before it were, and the caller's is newer than all of them.        *)
Unset(t) == th[t].state = "SETTING_UP" /\ th[t].pc # "finish"

SentOK == \A k \in hist.decoded : k <= main.sent
CallOK ==
    Calling /\ main.pkt # 0 =>
        /\ main.pkt = main.sent
        /\ \A k \in hist.decoded : k < main.pkt
        /\ \A t \in Threads : Unset(t) => th[t].pkt < main.pkt
UnsetOK(t) ==
    Unset(t) /\ th[t].pkt # 0 =>
        /\ th[t].pkt <= main.sent
        /\ \A k \in hist.decoded : k < th[t].pkt
LastOK(t) == th[t].ctx.last \in hist.decoded \cup {0}
InOrder == SentOK /\ CallOK /\ \A t \in Threads : UnsetOK(t) /\ LastOK(t)

LEMMA WorkerKeepsOrder ==
    ASSUME RingInv, InOrder, NEW t \in Threads, WorkerDoes(t)
    PROVE  InOrder'
<1>1. /\ Typed /\ WorkersOK /\ SentOK /\ CallOK /\ WorkerOK(t)
      /\ \A u \in Threads : UnsetOK(u) /\ LastOK(u)
      /\ main.sent \in Nat /\ main.pkt \in Nat /\ hist.decoded \subseteq Nat
      /\ \A u \in Threads : th[u].pkt \in Nat
  BY MainFields, HistFields, ThreadFields, Numbers
     DEF RingInv, InOrder, WorkersOK
<1>2. CallerStays /\ ThreadsStep(t) /\ (Calling' <=> Calling)
  BY <1>1, WorkerCaller, WorkerThreads, CallerPhases
<1>3. main'.sent = main.sent /\ main'.pkt = main.pkt
  BY <1>2 DEF CallerStays, MainKept
<1>4. \A u \in Threads \ {t} :
        /\ Unset(u)' <=> Unset(u)
        /\ th'[u].pkt = th[u].pkt /\ th'[u].ctx = th[u].ctx
  BY <1>1, <1>2 DEF ThreadsStep, Aside, Kept, Unset
<1>5. CASE SetupPacketDoes(t)
  <2>1. /\ hist'.decoded = hist.decoded \cup {th[t].pkt} /\ ~Unset(t)'
        /\ Unset(t) /\ th[t].pkt # 0
        /\ th'[t].ctx.last = IF codec.shared THEN th[t].pkt
                             ELSE th[t].ctx.last
    BY <1>1, <1>5 DEF SetupPacketDoes, Own, HistIs, Unset, WorkerOK
  <2>2. \A u \in Threads \ {t} : ~Unset(u)
    BY <1>1, <2>1 DEF Unset, WorkersOK, WorkerOK
  <2>3. SentOK'
    BY <1>1, <1>3, <2>1 DEF SentOK, UnsetOK
  <2>4. CallOK'
    BY <1>1, <1>2, <1>3, <1>4, <2>1, <2>2 DEF CallOK
  <2>5. \A u \in Threads : UnsetOK(u)' /\ LastOK(u)'
    BY <1>1, <1>3, <1>4, <2>1, <2>2 DEF UnsetOK, LastOK
  <2> QED
    BY <2>3, <2>4, <2>5 DEF InOrder
<1>6. CASE ~SetupPacketDoes(t)
  <2>1. /\ hist'.decoded = hist.decoded /\ th'[t].pkt = th[t].pkt
        /\ th'[t].ctx.last = th[t].ctx.last
        /\ Unset(t)' => Unset(t)
    BY <1>6
       DEF WorkerDoes, SleepDoes, ExitDoes, StartDoes, SpuriousDoes,
           SetupErrorDoes, SetupEmptyDoes, OutputFailDoes,
         AwaitProgressDoes, DecodeDoes,
           FinishSetupDoes, DoneDoes, Own, Moves, Kept, HistIs, HistFault,
           Unset, Looks
  <2>2. \A u \in Threads : /\ Unset(u)' => Unset(u)
                           /\ th'[u].pkt = th[u].pkt
                           /\ th'[u].ctx.last = th[u].ctx.last
    BY <1>4, <2>1
  <2> QED
    BY <1>1, <1>2, <1>3, <2>1, <2>2
       DEF InOrder, SentOK, CallOK, UnsetOK, LastOK
<1> QED
  BY <1>5, <1>6

LEMMA CallKeepsOrder ==
    ASSUME RingInv, InOrder, CallDoes
    PROVE  InOrder'
<1>1. /\ Typed /\ WorkersOK /\ SentOK /\ CallOK
      /\ \A u \in Threads : UnsetOK(u) /\ LastOK(u)
      /\ main.sent \in Nat /\ main.pkt \in Nat /\ hist.decoded \subseteq Nat
      /\ \A u \in Threads : th[u].pkt \in Nat
      /\ fctx.prev # None => fctx.prev \in Threads
  <2>1. /\ Typed /\ WorkersOK /\ SentOK /\ CallOK
        /\ \A u \in Threads : UnsetOK(u) /\ LastOK(u)
    BY DEF RingInv, InOrder
  <2>2. Frames \subseteq Nat /\ Packets \subseteq Nat
    BY Numbers
  <2> QED
    BY <2>1, <2>2, MainFields, RingFields, HistFields, ThreadFields
<1>2. CASE FeedDoes
  <2>1. /\ main'.sent = main.sent + 1 /\ main'.pkt = main.sent + 1
        /\ hist' = hist /\ th' = th
    BY <1>2 DEF FeedDoes, MainIs
  <2>2. \A k \in hist.decoded : k < main.sent + 1
    BY <1>1 DEF SentOK
  <2>3. \A t \in Threads : Unset(t) => th[t].pkt < main.sent + 1
    BY <1>1 DEF UnsetOK
  <2> QED
    BY <1>1, <2>1, <2>2, <2>3
       DEF InOrder, SentOK, CallOK, UnsetOK, LastOK, Unset
<1>3. ASSUME NEW t, t = fctx.next_decoding, HandDoes(t)
      PROVE  InOrder'
  <2>1. /\ Calling /\ ~Calling' /\ hist' = hist
        /\ main'.sent = main.sent
        /\ th'[t].pkt = main.pkt
        /\ \/ th'[t].ctx = th[t].ctx
           \/ fctx.prev # None /\ th'[t].ctx = th[fctx.prev].ctx
        /\ \A u \in Threads \ {t} : th'[u] = th[u]
    BY <1>3
       DEF HandDoes, Submitted, Answers, Collects, MainIs, Calling, OthersSame
  <2>2. CallOK' /\ SentOK'
    BY <1>1, <2>1 DEF CallOK, SentOK
  <2>3. t \in Threads
    BY <1>3, <2>1, NextIsQuiet
  <2>4. \A u \in Threads : LastOK(u)'
    BY <1>1, <2>1, <2>3 DEF LastOK
  <2>5. UnsetOK(t)'
    BY <1>1, <2>1 DEF CallOK, UnsetOK
  <2>6. \A u \in Threads \ {t} : UnsetOK(u)'
    BY <1>1, <2>1 DEF UnsetOK, Unset
  <2> QED
    BY <2>2, <2>4, <2>5, <2>6 DEF InOrder
<1>4. CASE ~FeedDoes /\ ~HandDoes(fctx.next_decoding)
  <2>1. /\ main'.sent = main.sent /\ hist'.decoded = hist.decoded
        /\ Calling' /\ main'.pkt # 0 => Calling /\ main'.pkt = main.pkt
        /\ \A u \in Threads :
             /\ th'[u].pc = th[u].pc /\ th'[u].state = th[u].state
             /\ th'[u].pkt = th[u].pkt /\ th'[u].ctx = th[u].ctx
    BY <1>4
       DEF CallDoes, EmptyDoes, UserContextFailDoes, SubmitNothingDoes,
           LockDoes, AwaitSetupDoes, ContextFailDoes, AwaitOutputDoes,
           PassDoes, TakeDoes, Answers, Collects, MainGoes, MainIs, Takes,
           Own, OthersSame, HistIs, HistFault, Calling
  <2> QED
    BY <1>1, <2>1 DEF InOrder, SentOK, CallOK, UnsetOK, LastOK, Unset
<1> QED
  BY <1>2, <1>3, <1>4

LEMMA ManageKeepsOrder ==
    ASSUME RingInv, InOrder, ManageDoes
    PROVE  InOrder'
<1>1. /\ SentOK /\ \A u \in Threads : UnsetOK(u) /\ LastOK(u)
  BY DEF InOrder
<1>2. main'.sent = main.sent /\ hist'.decoded = hist.decoded /\ ~Calling'
  BY DEF ManageDoes, CreateDoes, CreateFailDoes, CloseDoes, AwaitParkedDoes,
         ParkDoes, FlushDoes, DieDoes, KillDoes, JoinDoes, MainGoes, MainIs,
         HistIs, HistFault, Calling
<1>3. \A u \in Threads :
        /\ Unset(u)' => Unset(u)
        /\ th'[u].pkt = th[u].pkt
        /\ th'[u].ctx = th[u].ctx \/ th'[u].ctx.last = 0
  <2>1. CASE CreateDoes(main.at)
    BY <2>1
       DEF CreateDoes, Moves, Kept, OthersSame, Unset, RingInv, CallerOK,
           CreateOK, Quiet
  <2>2. CASE FlushDoes
    BY <2>2, FreshTypes DEF FlushDoes, Unset
  <2>3. CASE ParkDoes(main.at) \/ KillDoes(main.at)
    BY <2>3
       DEF ParkDoes, KillDoes, Takes, Own, Moves, Kept, OthersSame, Unset,
           SignalInput
  <2>4. CASE th' = th
    BY <2>4 DEF Unset
  <2> QED
    BY <2>1, <2>2, <2>3, <2>4
       DEF ManageDoes, CreateFailDoes, CloseDoes, AwaitParkedDoes, DieDoes,
           JoinDoes
<1> QED
  BY <1>1, <1>2, <1>3 DEF InOrder, SentOK, CallOK, UnsetOK, LastOK

LEMMA InitOrder == Init => InOrder
<1> SUFFICES ASSUME Init
             PROVE  InOrder
  OBVIOUS
<1>1. /\ hist.decoded = {} /\ main.pc = "create"
      /\ \A t \in Threads : th[t].state = "INPUT_READY" /\ th[t].ctx.last = 0
  BY DEF Init, FreshThread, FreshContext
<1> QED
  BY <1>1 DEF InOrder, SentOK, CallOK, UnsetOK, LastOK, Unset, Calling

LEMMA StutterKeepsOrder ==
    ASSUME InOrder, UNCHANGED vars
    PROVE  InOrder'
  BY DEF vars, InOrder, SentOK, CallOK, UnsetOK, LastOK, Unset, Calling

LEMMA OrderInductive == RingInv /\ InOrder /\ [Next]_vars => InOrder'
  BY Steps, WorkerKeepsOrder, CallKeepsOrder, ManageKeepsOrder,
     StutterKeepsOrder

LEMMA OrderInvariant == Spec => []InOrder
  BY RingInvariant, InitOrder, OrderInductive, PTL DEF Spec

----------------------------------------------------------------------------
(* Who waits for whom.  A frame is reported already or a thread is at it,  *)
(* and a thread refers to an older frame than its own.                     *)
Decoding(t) == th[t].pc \in {"decode", "starved"}
Coming(k) == prog[k] \/ \E u \in Threads : Decoding(u) /\ th[u].pkt = k
ChainOK(t) ==
    /\ Coming(th[t].ctx.last)
    /\ Decoding(t) => th[t].ref < th[t].pkt /\ Coming(th[t].ref)
Chain == prog[0] /\ \A t \in Threads : ChainOK(t)

LEMMA WorkerKeepsComing ==
    ASSUME RingInv, NEW t \in Threads, WorkerDoes(t), NEW k \in Frames,
           Coming(k)
    PROVE  Coming(k)'
<1>1. Typed /\ WorkersOK /\ prog \in [Frames -> BOOLEAN] /\ th[t].pkt \in Frames
  BY ThreadFields DEF RingInv, Typed
<1>2. ThreadsStep(t)
  BY WorkerThreads
<1>3. \A u \in Threads \ {t} : Decoding(u) => Decoding(u)' /\ th'[u].pkt = th[u].pkt
  BY <1>2 DEF ThreadsStep, Aside, Kept, Decoding
<1>4. /\ prog[k] => prog'[k]
      /\ Decoding(t) => \/ Decoding(t)' /\ th'[t].pkt = th[t].pkt
                        \/ prog'[th[t].pkt]
  <2>1. CASE DecodeDoes(t, TRUE) \/ DecodeDoes(t, FALSE)
    BY <1>1, <2>1 DEF DecodeDoes
  <2>2. CASE ~DecodeDoes(t, TRUE) /\ ~DecodeDoes(t, FALSE)
    BY <1>1, <2>2
       DEF WorkerDoes, SleepDoes, ExitDoes, StartDoes, SpuriousDoes,
           SetupPacketDoes, SetupErrorDoes, SetupEmptyDoes, OutputFailDoes,
           AwaitProgressDoes, FinishSetupDoes, DoneDoes, Own, Moves, Kept,
           Decoding, Looks
  <2> QED
    BY <2>1, <2>2
<1> QED
  BY <1>3, <1>4 DEF Coming

LEMMA WorkerKeepsChain ==
    ASSUME RingInv, InOrder, Chain, NEW t \in Threads, WorkerDoes(t)
    PROVE  Chain'
<1>1. /\ Typed /\ WorkersOK /\ prog \in [Frames -> BOOLEAN]
      /\ 0 \in Frames /\ codec' = codec
      /\ \A u \in Threads : /\ th[u].ctx.last \in Frames /\ th[u].ref \in Frames
                            /\ th[u].pkt \in Frames
                            /\ ChainOK(u) /\ UnsetOK(u) /\ LastOK(u)
  BY ThreadFields, Numbers, WorkerCaller
     DEF RingInv, Typed, Chain, InOrder, CallerStays
<1>2. ThreadsStep(t)
  BY WorkerThreads
<1>3. prog'[0]
  BY <1>1
     DEF Chain, WorkerDoes, SleepDoes, ExitDoes, StartDoes, SpuriousDoes,
         SetupPacketDoes, SetupErrorDoes, SetupEmptyDoes, OutputFailDoes,
         AwaitProgressDoes,
         DecodeDoes, FinishSetupDoes, DoneDoes
<1>4. \A k \in Frames : Coming(k) => Coming(k)'
  BY WorkerKeepsComing
<1>5. \A u \in Threads \ {t} :
        /\ Decoding(u)' <=> Decoding(u)
        /\ th'[u].pkt = th[u].pkt /\ th'[u].ctx = th[u].ctx
        /\ th'[u].ref = th[u].ref
  BY <1>2 DEF ThreadsStep, Aside, Kept, Decoding
<1>6. ASSUME NEW u \in Threads, u # t
      PROVE  ChainOK(u)'
  BY <1>1, <1>4, <1>5, <1>6 DEF ChainOK
<1>7. ChainOK(t)'
  <2>1. CASE SetupPacketDoes(t)
    <3>1. /\ Decoding(t)' /\ th'[t].pkt = th[t].pkt /\ th[t].pkt # 0
          /\ th'[t].ref = IF codec.shared THEN th[t].ctx.last ELSE 0
          /\ th'[t].ctx.last = IF codec.shared THEN th[t].pkt
                               ELSE th[t].ctx.last
          /\ Unset(t)
      BY <1>1, <2>1
         DEF SetupPacketDoes, Own, Decoding, Unset, WorkersOK, WorkerOK
    <3>2. th[t].ctx.last < th[t].pkt
      BY <1>1, <3>1, Numbers DEF UnsetOK, LastOK
    <3>3. 0 < th[t].pkt
      BY <1>1, <3>1, Numbers
    <3>4. \A k : k = th[t].pkt => Coming(k)'
      BY <3>1 DEF Coming
    <3>5. \A k : k = th[t].ctx.last \/ k = 0 => Coming(k)'
      BY <1>1, <1>3, <1>4 DEF ChainOK, Coming
    <3> QED
      BY <3>1, <3>2, <3>3, <3>4, <3>5 DEF ChainOK
  <2>2. CASE ~SetupPacketDoes(t)
    <3>1. /\ Decoding(t)' => Decoding(t)
          /\ th'[t].pkt = th[t].pkt /\ th'[t].ref = th[t].ref
          /\ th'[t].ctx.last = th[t].ctx.last
      BY <2>2
         DEF WorkerDoes, SleepDoes, ExitDoes, StartDoes, SpuriousDoes,
             SetupErrorDoes, SetupEmptyDoes, OutputFailDoes,
         AwaitProgressDoes, DecodeDoes,
             FinishSetupDoes, DoneDoes, Own, Moves, Kept, Decoding
    <3> QED
      BY <1>1, <1>4, <3>1 DEF ChainOK
  <2> QED
    BY <2>1, <2>2
<1> QED
  BY <1>3, <1>6, <1>7 DEF Chain

LEMMA CallKeepsChain ==
    ASSUME RingInv, Chain, CallDoes \/ ManageDoes
    PROVE  Chain'
<1>1. prog' = prog
  BY DEF CallDoes, FeedDoes, EmptyDoes, UserContextFailDoes,
         SubmitNothingDoes, LockDoes, AwaitSetupDoes, ContextFailDoes,
         HandDoes, AwaitOutputDoes, PassDoes, TakeDoes, ManageDoes,
         CreateDoes, CreateFailDoes, CloseDoes, AwaitParkedDoes, ParkDoes,
         FlushDoes, DieDoes, KillDoes, JoinDoes
<1>2. \A u \in Threads :
        /\ Decoding(u) => th'[u].pkt = th[u].pkt
        /\ Decoding(u)' <=> Decoding(u)
        /\ th'[u].ref = th[u].ref
        /\ \/ th'[u].ctx = th[u].ctx
           \/ th'[u].ctx.last = 0
           \/ \E v \in Threads : th'[u].ctx = th[v].ctx
  <2>1. ASSUME NEW t, t = fctx.next_decoding, HandDoes(t), NEW u \in Threads
        PROVE  /\ Decoding(u) => th'[u].pkt = th[u].pkt
               /\ Decoding(u)' <=> Decoding(u)
               /\ th'[u].ref = th[u].ref
               /\ \/ th'[u].ctx = th[u].ctx
                  \/ \E v \in Threads : th'[u].ctx = th[v].ctx
    <3>1. t \in Threads /\ th[t].pc \in {"wait", "check", "woken"}
      BY <2>1, NextIsQuiet DEF HandDoes, Calling
    <3>2. fctx.prev # None => fctx.prev \in Threads
      BY RingFields DEF RingInv
    <3> QED
      BY <2>1, <3>1, <3>2 DEF HandDoes, OthersSame, SignalInput, Decoding
  <2>2. CASE PassDoes(main.at) \/ TakeDoes(main.at) \/ ParkDoes(main.at)
    BY <2>2 DEF PassDoes, TakeDoes, ParkDoes, Takes, Own, OthersSame, Decoding
  <2>3. CASE CreateDoes(main.at)
    <3>1. main.at >= main.at
      BY MainFields, Numbers DEF RingInv
    <3> QED
      BY <2>3, <3>1
         DEF CreateDoes, Moves, Kept, OthersSame, Decoding, RingInv, CallerOK,
             CreateOK
  <2>4. CASE KillDoes(main.at)
    BY <2>4 DEF KillDoes, Moves, Kept, OthersSame, Decoding, SignalInput
  <2>5. CASE FlushDoes
    BY <2>5, FreshTypes DEF FlushDoes, Decoding
  <2>6. CASE th' = th
    BY <2>6 DEF Decoding
  <2> QED
    BY <2>1, <2>2, <2>3, <2>4, <2>5, <2>6
       DEF CallDoes, FeedDoes, EmptyDoes, UserContextFailDoes,
           SubmitNothingDoes, LockDoes, AwaitSetupDoes, ContextFailDoes,
           AwaitOutputDoes, ManageDoes, CreateFailDoes, CloseDoes,
           AwaitParkedDoes, DieDoes, JoinDoes
<1>3. \A k : Coming(k) => Coming(k)'
  BY <1>1, <1>2 DEF Coming
<1>4. Coming(0)'
  BY <1>1 DEF Chain, Coming
<1> QED
  BY <1>1, <1>2, <1>3, <1>4 DEF Chain, ChainOK

LEMMA InitChain == Init => Chain
<1> SUFFICES ASSUME Init
             PROVE  Chain
  OBVIOUS
<1>1. \A t \in Threads : th[t].pc = "none" /\ th[t].ctx.last = 0
  BY DEF Init, FreshThread, FreshContext
<1>2. prog[0]
  <2>1. 0 \in Frames
    BY Numbers
  <2> QED
    BY <2>1 DEF Init
<1> QED
  BY <1>1, <1>2 DEF Chain, ChainOK, Coming, Decoding

LEMMA StutterKeepsChain ==
    ASSUME Chain, UNCHANGED vars
    PROVE  Chain'
  BY DEF vars, Chain, ChainOK, Coming, Decoding

LEMMA ChainInductive == RingInv /\ InOrder /\ Chain /\ [Next]_vars => Chain'
  BY Steps, WorkerKeepsChain, CallKeepsChain, StutterKeepsChain

LEMMA ChainInvariant == Spec => []Chain
  BY RingInvariant, OrderInvariant, InitChain, ChainInductive, PTL DEF Spec

(* Of the threads that wait for a frame the one with the oldest packet     *)
(* waits for one that decodes.                                             *)
LEMMA StarvedHaveHelp ==
    ASSUME RingInv, Asleep, Chain, NEW s \in Threads, th[s].pc = "starved"
    PROVE  \E t \in Threads : th[t].pc = "decode"
<1> DEFINE S == {th[t].pkt : t \in {u \in Threads : th[u].pc = "starved"}}
<1>1. /\ \A t \in Threads : th[t].pkt \in Nat /\ th[t].ref \in Nat
      /\ S \subseteq Nat /\ S # {}
  <2>1. \A t \in Threads : th[t].pkt \in Nat /\ th[t].ref \in Nat
    BY ThreadFields, Numbers DEF RingInv
  <2>2. th[s].pkt \in S
    OBVIOUS
  <2> QED
    BY <2>1, <2>2
<1>2. PICK t \in Threads : th[t].pc = "starved" /\ \A j \in S : th[t].pkt <= j
  BY <1>1, LowestIs
<1>3. ~prog[th[t].ref]
  BY <1>2 DEF Asleep, SleepsOK, SleepOK
<1>4. th[t].ref < th[t].pkt /\ Coming(th[t].ref)
  BY <1>2 DEF Chain, ChainOK, Decoding
<1>5. PICK u \in Threads : Decoding(u) /\ th[u].pkt = th[t].ref
  BY <1>3, <1>4 DEF Coming
<1>6. th[u].pkt \notin S
  BY <1>1, <1>2, <1>4, <1>5
<1>7. th[u].pc = "decode"
  BY <1>5, <1>6 DEF Decoding
<1> QED
  BY <1>7

(* Until the decoder is closed the caller or a worker can go on, however   *)
(* many threads there are and whatever frames they refer to.               *)
THEOREM NobodyIsStuck == Spec => []SomeoneCanRun
<1>1. RingInv /\ Asleep /\ Chain => SomeoneCanRun
  <2> SUFFICES ASSUME RingInv, Asleep, Chain, main.pc # "freed", ~MainCanRun,
                      \A t \in Threads : ~WorkerCanRun(t)
               PROVE  FALSE
    BY DEF SomeoneCanRun
  <2>1. Typed
    BY DEF RingInv
  <2>2. \A t \in Threads : ~(th[t].pc = "starved")
    BY StarvedHaveHelp DEF WorkerCanRun
  <2>3. ASSUME NEW t \in Threads, ~MainHolds(t)
        PROVE  /\ th[t].pc \in {"none", "wait", "exit"}
               /\ th[t].state = "INPUT_READY" /\ ~WorkerHolds(t)
    <3>1. th[t].pc \in {"none", "wait", "exit"}
      BY <2>1, <2>2, <2>3, ThreadFields DEF WorkerCanRun, Looks
    <3> QED
      BY <3>1 DEF RingInv, WorkersOK, WorkerOK, WorkerHolds
  <2>4. CASE main.pc = "prevAsleep"
    <3>1. /\ fctx.prev \in Threads /\ th[fctx.prev].state = "SETTING_UP"
      BY <2>1, <2>4, RingFields DEF Asleep, CallerAsleep, PrevSettingUp
    <3>2. ~MainHolds(fctx.prev)
      BY <2>4, NextIsQuiet DEF MainHolds, Calling
    <3> QED
      BY <2>3, <3>1, <3>2
  <2>5. CASE main.pc # "prevAsleep"
    <3>1. \/ main.pc \in {"collectAsleep", "parkAsleep"}
          \/ main.pc = "call" /\ WorkerHolds(fctx.next_decoding)
          \/ main.pc = "kill" /\ WorkerHolds(main.at)
          \/ main.pc = "join" /\ th[main.at].pc \notin {"none", "exit"}
      BY <2>5 DEF MainCanRun
    <3>2. \A t : ~MainHolds(t)
      BY <3>1 DEF MainHolds
    <3>3. main.pc = "call" => fctx.next_decoding \in Threads
      BY NextIsQuiet DEF Calling
    <3>4. main.pc # "call" => main.at \in Threads
      BY <2>1, <3>1, MainFields, Numbers DEF RingInv, Places, Collecting
    <3>5. main.pc \in {"call", "join"}
      BY <2>3, <3>1, <3>2, <3>3, <3>4 DEF Asleep, CallerAsleep
    <3>6. main.pc = "join"
      BY <2>3, <3>1, <3>2, <3>3, <3>5
    <3>7. th[main.at].pc = "wait"
      BY <2>3, <3>1, <3>2, <3>4, <3>6
    <3>8. main.at <= main.at
      BY <2>1, MainFields, Numbers
    <3> QED
      BY <3>4, <3>6, <3>7, <3>8 DEF Asleep, SleepsOK, SleepOK, Signalled
  <2> QED
    BY <2>4, <2>5
<1> QED
  BY <1>1, RingInvariant, AsleepInvariant, ChainInvariant, PTL

----------------------------------------------------------------------------
(* Where the frames are: D are those decoded, R returned, L lost, H held   *)
(* back by the codec, and thread t has frame o[t], if it has any.  They    *)
(* are apart from each other, and in line: what was returned is older than *)
(* what threads have, and that is older than what is held back.            *)
Line(D, R, L, H, o) ==
    /\ D \subseteq Packets /\ H \subseteq Packets
    /\ o \in [Threads -> Frames]
    /\ \A k : k \in D <=> \/ k \in R \cup L \cup H
                          \/ k # 0 /\ \E t \in Threads : o[t] = k
    /\ \A k \in L : k \notin R /\ k \notin H /\ \A t \in Threads : o[t] # k
    /\ \A k \in R : \A j \in H : k < j
    /\ \A k \in R : \A t \in Threads : o[t] # 0 => k < o[t]
    /\ \A t \in Threads : o[t] # 0 => \A j \in H : o[t] < j
    /\ \A t, u \in Threads : t # u /\ o[t] # 0 => o[t] # o[u]

(* A thread puts out the oldest of the frames held back and of those that  *)
(* have just come, or nothing.                                             *)
LEMMA LinePutOut ==
    ASSUME NEW D, NEW R, NEW L, NEW H, NEW o, Line(D, R, L, H, o),
           NEW E \in SUBSET Packets, \A e \in E : \A d \in D : d < e,
           NEW t \in Threads, o[t] = 0, NEW x \in Frames,
           x # 0 => x \in H \cup E /\ \A j \in H \cup E : x <= j
    PROVE  Line(D \cup E, R, L, (H \cup E) \ {x}, [o EXCEPT ![t] = x])
<1> DEFINE G == H \cup E
           p == [o EXCEPT ![t] = x]
<1>1. /\ D \subseteq Nat /\ E \subseteq Nat /\ 0 \notin D /\ 0 \notin E
      /\ R \subseteq D /\ L \subseteq D /\ H \subseteq D
      /\ \A u \in Threads : o[u] \in Nat /\ (o[u] # 0 => o[u] \in D)
  BY Numbers DEF Line
<1>2. /\ p \in [Threads -> Frames] /\ p[t] = x
      /\ \A u \in Threads \ {t} : p[u] = o[u]
  BY DEF Line
<1>3. \A j \in G \ {x} : j \in Nat /\ (x # 0 => x < j)
  BY <1>1, Numbers
<1>4. \A k \in D : k \notin E
  BY <1>1
<1>5. \A k : k \in D \cup E <=> \/ k \in R \cup L \cup (G \ {x})
                                \/ k # 0 /\ \E u \in Threads : p[u] = k
  <2>1. ASSUME NEW k, k # 0
        PROVE  (\E u \in Threads : p[u] = k)
                 <=> k = x \/ \E u \in Threads : o[u] = k
    BY <1>2, <2>1
  <2>2. ~(0 \in D \cup E) /\ ~(0 \in R \cup L \cup G)
    BY <1>1
  <2>3. x # 0 => x \in G
    OBVIOUS
  <2> QED
    BY <2>1, <2>2, <2>3 DEF Line
<1>6. \A k \in L : k \notin R /\ k \notin G /\ \A u \in Threads : p[u] # k
  BY <1>1, <1>2, <1>4 DEF Line
<1>7. \A k \in R : \A j \in G : k < j
  BY <1>1 DEF Line
<1>8. \A k \in R : \A u \in Threads : p[u] # 0 => k < p[u]
  BY <1>2, <1>7 DEF Line
<1>9. \A u \in Threads \ {t} : o[u] # 0 => \A j \in G : o[u] < j
  BY <1>1 DEF Line
<1>10. \A u \in Threads : p[u] # 0 => \A j \in G \ {x} : p[u] < j
  BY <1>2, <1>3, <1>9
<1>11. \A u, v \in Threads : u # v /\ p[u] # 0 => p[u] # p[v]
  <2>1. \A u \in Threads \ {t} : o[u] # 0 => o[u] # x
    BY <1>1, <1>9
  <2> QED
    BY <1>2, <2>1 DEF Line
<1>12. D \cup E \subseteq Packets /\ G \ {x} \subseteq Packets
  BY DEF Line
<1> HIDE DEF p
<1> QED
  BY <1>2, <1>5, <1>6, <1>7, <1>8, <1>10, <1>11, <1>12 DEF Line

(* The frame of a thread is lost.                                          *)
LEMMA LineLose ==
    ASSUME NEW D, NEW R, NEW L, NEW H, NEW o, Line(D, R, L, H, o),
           NEW t \in Threads
    PROVE  Line(D, R, L \cup Only(o[t]), H, [o EXCEPT ![t] = 0])
<1> DEFINE p == [o EXCEPT ![t] = 0]
<1>1. /\ p \in [Threads -> Frames] /\ p[t] = 0
      /\ \A u \in Threads \ {t} : p[u] = o[u]
  BY Numbers DEF Line
<1>2. \A k : k \in Only(o[t]) <=> k = o[t] /\ k # 0
  BY DEF Only
<1>3. 0 \notin D /\ D \subseteq Nat /\ o[t] \in Nat /\ H \subseteq Nat /\ R \subseteq D
  BY Numbers DEF Line
<1>4. o[t] # 0 => o[t] \notin R /\ o[t] \notin H
  BY <1>3 DEF Line
<1> HIDE DEF p
<1> QED
  BY <1>1, <1>2, <1>3, <1>4 DEF Line

(* The frame of a thread is returned, if it is the oldest.                 *)
LEMMA LineReturn ==
    ASSUME NEW D, NEW R, NEW L, NEW H, NEW o, Line(D, R, L, H, o),
           NEW t \in Threads, o[t] # 0,
           \A u \in Threads \ {t} : o[u] # 0 => o[t] < o[u]
    PROVE  Line(D, R \cup {o[t]}, L, H, [o EXCEPT ![t] = 0])
<1> DEFINE p == [o EXCEPT ![t] = 0]
<1>1. /\ p \in [Threads -> Frames] /\ p[t] = 0
      /\ \A u \in Threads \ {t} : p[u] = o[u]
  BY Numbers DEF Line
<1>2. /\ 0 \notin D /\ D \subseteq Nat /\ H \subseteq Nat /\ R \subseteq D
      /\ \A u \in Threads : o[u] \in Nat
  BY Numbers DEF Line
<1> HIDE DEF p
<1>3. /\ \A k : k \in D <=> \/ k \in (R \cup {o[t]}) \cup L \cup H
                            \/ k # 0 /\ \E u \in Threads : p[u] = k
      /\ \A k \in L : /\ k \notin R \cup {o[t]} /\ k \notin H
                     /\ \A u \in Threads : p[u] # k
  BY <1>1, <1>2 DEF Line
<1>4. /\ \A k \in R \cup {o[t]} : \A j \in H : k < j
      /\ \A k \in R \cup {o[t]} : \A u \in Threads : p[u] # 0 => k < p[u]
      /\ \A u \in Threads : p[u] # 0 => \A j \in H : p[u] < j
  BY <1>1, <1>2 DEF Line
<1>5. \A u, v \in Threads : u # v /\ p[u] # 0 => p[u] # p[v]
  BY <1>1 DEF Line
<1> QED
  BY <1>1, <1>3, <1>4, <1>5 DEF Line

(* One of the frames held back is lost.                                    *)
LEMMA LineDropOne ==
    ASSUME NEW D, NEW R, NEW L, NEW H, NEW o, Line(D, R, L, H, o),
           NEW x \in H
    PROVE  Line(D, R, L \cup {x}, H \ {x}, o)
<1>1. R \subseteq D /\ D \subseteq Nat /\ H \subseteq Nat
  BY Numbers DEF Line
<1>2. x # 0 /\ x \notin R
  BY <1>1, Numbers DEF Line
<1>3. \A t \in Threads : o[t] # x
  BY <1>1, <1>2 DEF Line
<1> QED
  BY <1>2, <1>3 DEF Line

(* What is held back is dropped, when no thread has a frame.               *)
LEMMA LineDrop ==
    ASSUME NEW D, NEW R, NEW L, NEW H, NEW o, Line(D, R, L, H, o),
           \A t \in Threads : o[t] = 0
    PROVE  Line(D, R, L \cup H, {}, o)
<1>1. R \subseteq D /\ D \subseteq Nat /\ H \subseteq Nat
  BY Numbers DEF Line
<1>2. \A k \in R : k \notin H
  BY <1>1 DEF Line
<1>3. 0 \notin H
  BY Numbers DEF Line
<1> QED
  BY <1>2, <1>3 DEF Line

----------------------------------------------------------------------------
(* The frames of the program are in line, and so are those of the threads  *)
(* from next_finished on.  A codec without a delay holds nothing back.     *)
Outs == [t \in Threads |-> th[t].out]
Returned == {hist.returned[i] : i \in 1 .. Len(hist.returned)}
NoDelay == ~codec.cap => \A t \in Threads : th[t].ctx.held = {}
InLine == Line(hist.decoded, Returned, hist.lost, Held, Outs)
Row ==
    Running =>
        \A t, u \in Threads :
            /\ th[t].out # 0 /\ th[u].out # 0
            /\ Dist(fctx.next_finished, t) < Dist(fctx.next_finished, u)
            => th[t].out < th[u].out
Flow == NoDelay /\ InLine /\ Row /\ ReturnedInOrder

LEMMA SpanIsInt ==
    ASSUME fctx.next_finished \in Threads, fctx.next_decoding \in 0 .. N
    PROVE  Span \in Int
<1>1. /\ fctx.next_finished \in Int /\ fctx.next_decoding \in Int
      /\ fctx.next_decoding - 1 \in Int /\ N \in Int
  BY Numbers
<1>2. \A a, b \in Int : Dist(a, b) \in Int
  BY <1>1 DEF Dist
<1>3. /\ Dist(fctx.next_finished, fctx.next_decoding) \in Int
      /\ Dist(fctx.next_finished, fctx.next_decoding - 1) \in Int
  BY <1>1, <1>2
<1> QED
  BY <1>3 DEF Span

(* Of the threads with work or a frame that of the last packet is the      *)
(* last.                                                                   *)
LEMMA PrevIsLast ==
    ASSUME RingInv, Running, NEW p \in Threads, p = fctx.prev,
           NEW u \in Threads, ~Quiet(u), u # p
    PROVE  Dist(fctx.next_finished, u) < Dist(fctx.next_finished, p)
<1> DEFINE nf == fctx.next_finished
           nd == fctx.next_decoding
<1>1. /\ nf \in Threads /\ nd \in 0 .. N /\ RingOK /\ Places
  BY RingFields DEF RingInv
<1>2. Dist(nf, u) < Span
  <2>1. Dist(nf, u) \in 0 .. N - 1
    BY <1>1, DistIs
  <2>2. Span \in Int
    BY <1>1, SpanIsInt
  <2>3. ~(Dist(nf, u) >= Span)
    BY <1>1 DEF RingOK, SpanOK
  <2> QED
    BY <2>1, <2>2, <2>3, Numbers
<1>3. Span <= Dist(nf, p) + 1
  <2>1. p # None
    BY Numbers
  <2>2. nd = p + 1 \/ (nd = 0 /\ p = N - 1 /\ ~Handed)
    BY <1>1, <2>1 DEF RingOK, PrevOK
  <2>3. Dist(nf, p) \in 0 .. N - 1
    BY <1>1, DistIs
  <2>4. CASE Handed
    <3>1. nd - 1 = p
      BY <2>2, <2>4, Numbers
    <3> QED
      BY <2>3, <2>4, <3>1, Numbers DEF Span
  <2>5. CASE ~Handed
    <3>1. nd \in Threads
      BY <1>1, <2>5 DEF Places
    <3>2. nd = After(p)
      BY <2>2, <3>1, Numbers DEF After
    <3>3. Dist(nf, nd) = IF nd = nf THEN 0 ELSE Dist(nf, p) + 1
      BY <1>1, <3>2, DistIs
    <3> QED
      BY <2>3, <2>5, <3>3, Numbers DEF Span
  <2> QED
    BY <2>4, <2>5
<1>4. /\ Dist(nf, u) \in 0 .. N - 1 /\ Dist(nf, p) \in 0 .. N - 1
      /\ Dist(nf, u) # Dist(nf, p)
  BY <1>1, DistIs, DistInjective
<1>5. Span \in Int
  BY <1>1, SpanIsInt
<1> QED
  BY <1>2, <1>3, <1>4, <1>5, Numbers

(* A step that leaves the frames where they are.                           *)
LEMMA FlowStays ==
    ASSUME Flow, codec' = codec, hist'.decoded = hist.decoded,
           hist'.returned = hist.returned, hist'.lost = hist.lost,
           \A u \in Threads : th'[u].out = th[u].out,
           ~codec.cap => \A u \in Threads : th'[u].ctx.held = {},
           Held' = Held,
           \/ Running' => Running /\ fctx'.next_finished = fctx.next_finished
           \/ \A u \in Threads : th[u].out = 0
    PROVE  Flow'
<1>1. Outs' = Outs /\ Returned' = Returned
  BY DEF Outs, Returned
<1>2. InLine'
  BY <1>1 DEF Flow, InLine
<1>3. Row' 
  BY DEF Flow, Row, Dist
<1> QED
  BY <1>2, <1>3 DEF Flow, NoDelay, ReturnedInOrder

(* A thread puts out a frame.                                              *)
LEMMA FlowPutOut ==
    ASSUME RingInv, Flow, CallerStays, NEW t \in Threads, t = fctx.prev,
           th[t].out = 0,
           NEW E \in SUBSET Packets, \A e \in E : \A d \in hist.decoded : d < e,
           NEW x \in Frames,
           x # 0 => x \in Held \cup E /\ \A j \in Held \cup E : x <= j,
           hist'.decoded = hist.decoded \cup E,
           hist'.returned = hist.returned, hist'.lost = hist.lost,
           th'[t].out = x, th'[t].ctx.held = (Held \cup E) \ {x},
           \A u \in Threads \ {t} : th'[u].out = th[u].out
    PROVE  InLine' /\ Row' /\ ReturnedInOrder'
<1>1. /\ Typed /\ fctx' = fctx /\ (Running' <=> Running)
      /\ \A u \in Threads : th[u].out \in Frames
  BY CallerPhases, ThreadFields DEF RingInv, CallerStays
<1>2. /\ Outs' = [Outs EXCEPT ![t] = x] /\ Outs[t] = 0
      /\ Returned' = Returned
      /\ \A u \in Threads : Outs[u] = th[u].out
  BY DEF Outs, Returned
<1>3. Held' = (Held \cup E) \ {x}
  <2>1. t # None
    BY Numbers
  <2> QED
    BY <1>1, <2>1 DEF Held
<1>4. InLine'
  <2>1. Line(hist.decoded, Returned, hist.lost, Held, Outs)
    BY DEF Flow, InLine
  <2>2. Line(hist.decoded \cup E, Returned, hist.lost, (Held \cup E) \ {x},
             [Outs EXCEPT ![t] = x])
    BY <1>2, <2>1, LinePutOut
  <2> QED
    BY <1>2, <1>3, <2>2 DEF InLine
<1>5. Row'
  <2> SUFFICES ASSUME Running, NEW u \in Threads, NEW v \in Threads,
                      th'[u].out # 0, th'[v].out # 0,
                      Dist(fctx.next_finished, u) < Dist(fctx.next_finished, v)
               PROVE  th'[u].out < th'[v].out
    BY <1>1 DEF Row, Dist
  <2>1. Dist(fctx.next_finished, u) # Dist(fctx.next_finished, v)
    BY <1>1, RingFields, DistIs, Numbers
  <2>2. u # v
    BY <2>1
  <2>3. CASE u # t /\ v # t
    BY <2>3 DEF Flow, Row
  <2>4. CASE v = t
    <3>1. \A j \in Held : th[u].out < j
      BY <1>2, <2>2, <2>4 DEF Flow, InLine, Line
    <3>2. th[u].out \in hist.decoded
      BY <1>2, <2>2, <2>4 DEF Flow, InLine, Line
    <3> QED
      BY <2>2, <2>4, <3>1, <3>2
  <2>5. CASE u = t
    <3>1. ~Quiet(v)
      BY <2>2, <2>5 DEF Quiet
    <3>2. Dist(fctx.next_finished, v) < Dist(fctx.next_finished, u)
      BY <2>2, <2>5, <3>1, PrevIsLast
    <3> QED
      BY <1>1, <3>2, RingFields, DistIs, Numbers
  <2> QED
    BY <2>3, <2>4, <2>5
<1> QED
  BY <1>4, <1>5 DEF Flow, ReturnedInOrder

LEMMA WorkerKeepsFlow ==
    ASSUME RingInv, InOrder, Flow, NEW t \in Threads, WorkerDoes(t)
    PROVE  Flow'
<1>1. /\ Typed /\ WorkerOK(t) /\ UnsetOK(t) /\ NoDelay
      /\ codec \in CodecType /\ (codec.cap => codec.shared)
      /\ th[t].pkt \in Frames /\ th[t].out \in Frames
      /\ th[t].ctx.held \subseteq Packets
      /\ fctx.prev = None \/ fctx.prev \in Threads
  BY ThreadFields, RingFields, Numbers
     DEF RingInv, Typed, WorkersOK, InOrder, Flow
<1>2. /\ CallerStays /\ ThreadsStep(t) /\ codec' = codec /\ fctx' = fctx
      /\ (Running' <=> Running)
  BY <1>1, WorkerCaller, WorkerThreads, CallerPhases DEF CallerStays
<1>3. \A u \in Threads \ {t} : th'[u].out = th[u].out /\ th'[u].ctx = th[u].ctx
  BY <1>2 DEF ThreadsStep, Aside, Kept
<1>4. th[t].state = "SETTING_UP" => t = fctx.prev /\ Held = th[t].ctx.held
  <2>1. t # None
    BY Numbers
  <2> QED
    BY <1>1, <2>1 DEF WorkerOK, Held
<1>5. CASE SetupPacketDoes(t)
  <2> DEFINE E == {th[t].pkt}
  <2>1. /\ t = fctx.prev /\ Held = th[t].ctx.held /\ th[t].out = 0
        /\ th[t].pkt # 0
        /\ \A d \in hist.decoded : d < th[t].pkt
    BY <1>1, <1>4, <1>5 DEF SetupPacketDoes, WorkerOK, UnsetOK, Unset
  <2>2. E \in SUBSET Packets
    BY <1>1, <2>1, Numbers
  <2>3. /\ PutOut(t) \in Frames /\ HeldWith(t) = Held \cup E
        /\ PutOut(t) # 0 => /\ PutOut(t) \in HeldWith(t)
                            /\ \A j \in HeldWith(t) : PutOut(t) <= j
        /\ ~codec.cap => PutOut(t) = th[t].pkt /\ Held = {}
    BY <1>1, <2>1, PutOutIs DEF HeldWith, NoDelay
  <2>4. th'[t].ctx.held = (Held \cup E) \ {PutOut(t)}
    BY <1>1, <1>5, <2>1, <2>3 DEF SetupPacketDoes, Own
  <2>5. /\ hist'.decoded = hist.decoded \cup E
        /\ hist'.returned = hist.returned /\ hist'.lost = hist.lost
        /\ th'[t].out = PutOut(t)
    BY <1>5 DEF SetupPacketDoes, HistIs, Own
  <2>6. InLine' /\ Row' /\ ReturnedInOrder'
    <3> HIDE DEF E
    <3>1. \A e \in E : \A d \in hist.decoded : d < e
      BY <2>1 DEF E
    <3> QED
      BY <1>2, <1>3, <2>1, <2>2, <2>3, <2>4, <2>5, <3>1, FlowPutOut
  <2>7. NoDelay'
    BY <1>1, <1>2, <1>3, <2>3, <2>4 DEF NoDelay
  <2> QED
    BY <2>6, <2>7 DEF Flow
<1>6. CASE SetupEmptyDoes(t)
  <2>1. t = fctx.prev /\ Held = th[t].ctx.held /\ th[t].out = 0
    BY <1>1, <1>4, <1>6 DEF SetupEmptyDoes, WorkerOK
  <2>2. /\ Leftover(t) \in Frames
        /\ Leftover(t) # 0 => Leftover(t) \in Held
        /\ \A j \in Held : Leftover(t) <= j
    BY <1>1, <2>1, LeftoverIs DEF Leftover
  <2>3. /\ hist' = hist /\ th'[t].out = Leftover(t)
        /\ th'[t].ctx.held = Held \ {Leftover(t)}
    BY <1>6, <2>1 DEF SetupEmptyDoes, Own
  <2>4. InLine' /\ Row' /\ ReturnedInOrder'
    <3> DEFINE E == {}
    <3>1. E \in SUBSET Packets /\ \A e \in E : \A d \in hist.decoded : d < e
      OBVIOUS
    <3>2. /\ Held \cup E = Held /\ hist'.decoded = hist.decoded \cup E
          /\ hist'.returned = hist.returned /\ hist'.lost = hist.lost
      BY <2>3
    <3> HIDE DEF E
    <3> QED
      BY <1>2, <1>3, <2>1, <2>2, <2>3, <3>1, <3>2, FlowPutOut
  <2>5. NoDelay'
    BY <1>1, <1>2, <1>3, <2>1, <2>3 DEF NoDelay
  <2> QED
    BY <2>4, <2>5 DEF Flow
<1>7. CASE DecodeDoes(t, FALSE)
  <2>1. /\ hist'.decoded = hist.decoded /\ hist'.returned = hist.returned
        /\ hist'.lost = hist.lost \cup Only(th[t].out)
        /\ th'[t].out = 0 /\ th'[t].ctx = th[t].ctx
    BY <1>7 DEF DecodeDoes, HistIs, Own
  <2>2. /\ Outs' = [Outs EXCEPT ![t] = 0] /\ Outs[t] = th[t].out
        /\ Returned' = Returned
    BY <1>3, <2>1 DEF Outs, Returned
  <2>3. Held' = Held
    BY <1>1, <1>2, <1>3, <2>1 DEF Held
  <2>4. InLine'
    <3>1. Line(hist.decoded, Returned, hist.lost, Held, Outs)
      BY DEF Flow, InLine
    <3>2. Line(hist.decoded, Returned, hist.lost \cup Only(Outs[t]), Held,
               [Outs EXCEPT ![t] = 0])
      BY <3>1, LineLose
    <3> QED
      BY <2>1, <2>2, <2>3, <3>2 DEF InLine
  <2>5. Row' /\ ReturnedInOrder' /\ NoDelay'
    BY <1>1, <1>2, <1>3, <2>1
       DEF Flow, Row, Dist, ReturnedInOrder, NoDelay
  <2> QED
    BY <2>4, <2>5 DEF Flow
<1>9. CASE OutputFailDoes(t)
  <2>1. /\ t = fctx.prev /\ t # None /\ Held = th[t].ctx.held
    BY <1>1, <1>4, <1>9, Numbers DEF OutputFailDoes, WorkerOK
  <2>2. Leftover(t) \in Held
    BY <1>1, <1>9, <2>1, LeftoverIs DEF OutputFailDoes
  <2>3. /\ hist'.decoded = hist.decoded /\ hist'.returned = hist.returned
        /\ hist'.lost = hist.lost \cup {Leftover(t)}
        /\ th'[t].out = th[t].out
        /\ th'[t].ctx.held = th[t].ctx.held \ {Leftover(t)}
    BY <1>9 DEF OutputFailDoes, HistIs, Own
  <2>4. /\ Held' = Held \ {Leftover(t)} /\ Outs' = Outs /\ Returned' = Returned
    BY <1>2, <1>3, <2>1, <2>3 DEF Held, Outs, Returned
  <2>5. InLine'
    <3>1. Line(hist.decoded, Returned, hist.lost, Held, Outs)
      BY DEF Flow, InLine
    <3>2. Line(hist.decoded, Returned, hist.lost \cup {Leftover(t)},
               Held \ {Leftover(t)}, Outs)
      BY <2>2, <3>1, LineDropOne
    <3> QED
      BY <2>3, <2>4, <3>2 DEF InLine
  <2>6. Row' /\ ReturnedInOrder' /\ NoDelay'
    BY <1>1, <1>2, <1>3, <2>3
       DEF Flow, Row, Dist, ReturnedInOrder, NoDelay
  <2> QED
    BY <2>5, <2>6 DEF Flow
<1>8. CASE /\ ~SetupPacketDoes(t) /\ ~SetupEmptyDoes(t)
           /\ ~DecodeDoes(t, FALSE) /\ ~OutputFailDoes(t)
  <2>1. /\ hist'.decoded = hist.decoded /\ hist'.returned = hist.returned
        /\ hist'.lost = hist.lost
        /\ th'[t].out = th[t].out /\ th'[t].ctx = th[t].ctx
    <3>1. CASE DecodeDoes(t, TRUE)
      BY <3>1 DEF DecodeDoes, Own
    <3>2. CASE ~DecodeDoes(t, TRUE)
      BY <1>1, <1>8, <3>2, ThreadFields
         DEF WorkerDoes, SleepDoes, ExitDoes, StartDoes, SpuriousDoes,
             SetupErrorDoes, AwaitProgressDoes, FinishSetupDoes, DoneDoes,
             Own, Moves, Kept, HistIs, HistFault, WorkerOK, Looks
    <3> QED
      BY <3>1, <3>2
  <2>2. Held' = Held
    BY <1>1, <1>2, <1>3, <2>1 DEF Held
  <2> QED
    BY <1>1, <1>2, <1>3, <2>1, <2>2, FlowStays DEF NoDelay
<1> QED
  BY <1>5, <1>6, <1>7, <1>8, <1>9

LEMMA AnswersStop ==
    ASSUME NEW got, NEW err, Answers(got, err)
    PROVE  /\ main'.pc \in {"park", "idle"} /\ ~Collecting' /\ ~Calling'
           /\ Running' <=> main'.pc = "idle"
  BY DEF Answers, MainIs, Collecting, Calling, Running

LEMMA HandKeepsFlow ==
    ASSUME RingInv, Flow, NEW t \in Threads, t = fctx.next_decoding,
           HandDoes(t)
    PROVE  Flow'
<1>1. /\ Typed /\ codec \in CodecType /\ (codec.cap => codec.shared)
      /\ fctx.prev = None \/ fctx.prev \in Threads
      /\ NoDelay /\ RingOK /\ t # None
  BY RingFields, Numbers DEF RingInv, Typed, Flow
<1>2. /\ hist' = hist /\ codec' = codec
      /\ fctx'.next_finished = fctx.next_finished /\ fctx'.prev = t
      /\ Running
      /\ th'[t].ctx = IF fctx.prev # None /\ codec.shared
                      THEN th[fctx.prev].ctx ELSE th[t].ctx
      /\ \A u \in Threads : th'[u].out = th[u].out
      /\ \A u \in Threads \ {t} : th'[u].ctx = th[u].ctx
  BY DEF HandDoes, Submitted, RingIs, OthersSame, Running, Calling
<1>3. fctx.prev = None => th[t].ctx.held = {} /\ Held = {}
  BY <1>1, FreshTypes DEF RingOK, FirstOK, Held
<1>4. th'[t].ctx.held = Held
  BY <1>1, <1>2, <1>3 DEF NoDelay, Held
<1>5. Held' = Held
  BY <1>1, <1>2, <1>4 DEF Held
<1>6. ~codec.cap => \A u \in Threads : th'[u].ctx.held = {}
  BY <1>1, <1>2, <1>3, <1>4 DEF NoDelay, Held
<1> QED
  BY <1>2, <1>5, <1>6, FlowStays

LEMMA TakeKeepsFlow ==
    ASSUME RingInv, Flow, NEW t \in Threads, NEW nf \in Threads,
           nf = fctx.next_finished, TakeDoes(t)
    PROVE  Flow'
<1>1. Typed /\ NoDelay /\ RingOK /\ th[t].out \in Frames
  BY ThreadFields DEF RingInv, Flow
<1>2. /\ Running /\ Collecting /\ t = main.at
      /\ hist'.decoded = hist.decoded /\ hist'.lost = hist.lost
      /\ hist'.returned = IF th[t].out = 0 THEN hist.returned
                          ELSE Append(hist.returned, th[t].out)
      /\ codec' = codec /\ fctx'.prev = fctx.prev
      /\ fctx'.next_finished = After(t)
      /\ \A u \in Threads : th'[u].ctx = th[u].ctx
      /\ \A u \in Threads : th'[u].out = IF u = t THEN 0 ELSE th[u].out
  BY DEF TakeDoes, RingIs, Takes, Own, OthersSame, Running, Collecting, HistIs
<1>3. /\ \A u \in Threads : Outs[u] = th[u].out
      /\ Outs' = [Outs EXCEPT ![t] = 0]
  BY <1>2 DEF Outs
<1>4. Held' = Held /\ NoDelay'
  BY <1>1, <1>2, RingFields DEF Held, NoDelay
(* Who comes before t has no frame any more.                               *)
<1>5. \A u \in Threads : Dist(nf, u) < Dist(nf, t) => th[u].out = 0
  BY <1>1, <1>2 DEF RingOK, SpanOK, Passed, Quiet
<1>6. ASSUME NEW u \in Threads, u # t, th[u].out # 0
      PROVE  /\ Dist(nf, t) < Dist(nf, u)
             /\ Dist(After(t), u) = Dist(nf, u) - Dist(nf, t) - 1
             /\ th[t].out # 0 => th[t].out < th[u].out
  <2>1. Dist(nf, u) # Dist(nf, t)
    BY <1>6, DistInjective
  <2>2. Dist(nf, u) \in 0 .. N - 1 /\ Dist(nf, t) \in 0 .. N - 1
    BY DistIs
  <2>3. Dist(nf, t) < Dist(nf, u)
    BY <1>5, <1>6, <2>1, <2>2, Numbers
  <2>4. Dist(After(t), u) = Dist(nf, u) - Dist(nf, t) - 1
    BY <2>2, <2>3, DistShift, Numbers
  <2> QED
    BY <1>2, <1>6, <2>3, <2>4 DEF Flow, Row
<1>7. Row'
  <2> SUFFICES ASSUME NEW u \in Threads, NEW v \in Threads,
                      th'[u].out # 0, th'[v].out # 0,
                      Dist(After(t), u) < Dist(After(t), v)
               PROVE  th'[u].out < th'[v].out
    BY <1>2 DEF Row, Dist
  <2>1. /\ u # t /\ v # t /\ th[u].out # 0 /\ th[v].out # 0
        /\ th'[u].out = th[u].out /\ th'[v].out = th[v].out
    BY <1>2
  <2>2. /\ Dist(nf, u) \in 0 .. N - 1 /\ Dist(nf, v) \in 0 .. N - 1
        /\ Dist(nf, t) \in 0 .. N - 1
    BY DistIs
  <2>3. Dist(nf, u) < Dist(nf, v)
    BY <1>6, <2>1, <2>2, Numbers
  <2> QED
    BY <1>2, <2>1, <2>3 DEF Flow, Row
<1>8. CASE th[t].out = 0
  <2>1. Outs' = Outs /\ Returned' = Returned /\ hist'.returned = hist.returned
    BY <1>2, <1>3, <1>8 DEF Outs, Returned
  <2> QED
    BY <1>2, <1>4, <1>7, <2>1 DEF Flow, InLine, ReturnedInOrder
<1>9. CASE th[t].out # 0
  <2>1. hist.returned \in Seq(Packets) /\ th[t].out \in Packets
    BY <1>1, <1>9, HistFields, Numbers
  <2>2. /\ hist'.returned = Append(hist.returned, th[t].out)
        /\ Len(hist'.returned) = Len(hist.returned) + 1
        /\ Len(hist.returned) \in Nat
        /\ hist'.returned[Len(hist.returned) + 1] = th[t].out
        /\ \A i \in 1 .. Len(hist.returned) :
             hist'.returned[i] = hist.returned[i]
    BY <1>2, <1>9, <2>1
  <2>3. Returned' = Returned \cup {th[t].out}
    BY <2>2 DEF Returned
  <2>4. Line(hist.decoded, Returned, hist.lost, Held, Outs)
    BY DEF Flow, InLine
  <2>5. Line(hist.decoded, Returned \cup {Outs[t]}, hist.lost, Held,
             [Outs EXCEPT ![t] = 0])
    BY <1>3, <1>6, <1>9, <2>4, LineReturn
  <2>6. InLine'
    BY <1>2, <1>3, <1>4, <2>3, <2>5 DEF InLine
  <2>7. ReturnedInOrder'
    <3>1. \A i \in 1 .. Len(hist.returned) : hist.returned[i] < th[t].out
      BY <1>3, <1>9, <2>4 DEF Line, Returned
    <3> QED
      BY <2>2, <3>1 DEF Flow, ReturnedInOrder
  <2> QED
    BY <1>4, <1>7, <2>6, <2>7 DEF Flow
<1> QED
  BY <1>8, <1>9

LEMMA CallKeepsFlow ==
    ASSUME RingInv, Flow, CallDoes
    PROVE  Flow'
<1>1. ASSUME NEW t, t = fctx.next_decoding, HandDoes(t)
      PROVE  Flow'
  BY <1>1, NextIsQuiet, HandKeepsFlow DEF HandDoes, Calling
<1>2. ASSUME NEW t, t = main.at, TakeDoes(t)
      PROVE  Flow'
  <2>1. t \in Threads /\ fctx.next_finished \in Threads
    BY <1>2, RingFields DEF RingInv, Places, TakeDoes, Collecting
  <2> QED
    BY <1>2, <2>1, TakeKeepsFlow
<1>3. CASE ~HandDoes(fctx.next_decoding) /\ ~TakeDoes(main.at)
  <2>1. /\ codec' = codec /\ hist'.decoded = hist.decoded
        /\ hist'.returned = hist.returned /\ hist'.lost = hist.lost
        /\ fctx'.prev = fctx.prev
        /\ fctx'.next_finished = fctx.next_finished /\ Running
        /\ \A u \in Threads : /\ th'[u].out = th[u].out
                              /\ th'[u].ctx = th[u].ctx
    BY <1>3
       DEF CallDoes, FeedDoes, EmptyDoes, UserContextFailDoes,
           SubmitNothingDoes, LockDoes, AwaitSetupDoes, ContextFailDoes,
           AwaitOutputDoes, PassDoes, Takes, Own, OthersSame, HistIs,
           HistFault, RingIs, Running, Calling, Collecting
  <2>2. Held' = Held
    BY <2>1, RingFields DEF Held, RingInv
  <2> QED
    BY <2>1, <2>2, FlowStays DEF Flow, NoDelay
<1> QED
  BY <1>1, <1>2, <1>3

LEMMA ParkKeepsFlow ==
    ASSUME RingInv, Flow, NEW t \in Threads, ParkDoes(t)
    PROVE  Flow'
<1>1. /\ hist'.decoded = hist.decoded /\ hist'.returned = hist.returned
      /\ hist'.lost = hist.lost \cup Only(th[t].out)
      /\ codec' = codec /\ fctx' = fctx /\ ~Running'
      /\ \A u \in Threads : /\ th'[u].out = IF u = t THEN 0 ELSE th[u].out
                            /\ th'[u].ctx = th[u].ctx
  BY DEF ParkDoes, HistIs, Takes, Own, OthersSame, MainGoes, MainIs, Running,
         Calling, Collecting
<1>2. /\ Outs' = [Outs EXCEPT ![t] = 0] /\ Outs[t] = th[t].out
      /\ Returned' = Returned
  BY <1>1 DEF Outs, Returned
<1>3. Held' = Held
  BY <1>1, RingFields DEF Held, RingInv
<1>4. Line(hist.decoded, Returned, hist.lost, Held, Outs)
  BY DEF Flow, InLine
<1>5. Line(hist.decoded, Returned, hist.lost \cup Only(Outs[t]), Held,
           [Outs EXCEPT ![t] = 0])
  BY <1>4, LineLose
<1> QED
  BY <1>1, <1>2, <1>3, <1>5
     DEF Flow, InLine, Row, ReturnedInOrder, NoDelay

LEMMA ManageKeepsFlow ==
    ASSUME RingInv, Flow, ManageDoes
    PROVE  Flow'
<1>1. CASE ParkDoes(main.at)
  <2>1. main.at \in Threads
    BY <1>1, MainFields, Numbers DEF ParkDoes, RingInv
  <2> QED
    BY <1>1, <2>1, ParkKeepsFlow
<1>2. CASE FlushDoes
  <2>1. /\ hist'.decoded = hist.decoded /\ hist'.returned = hist.returned
        /\ hist'.lost = hist.lost \cup Held
        /\ fctx'.prev = None
        /\ \A u \in Threads : th'[u].out = th[u].out /\ th'[u].ctx.held = {}
    BY <1>2, FreshTypes DEF FlushDoes, HistIs, RingIs
  <2>2. \A u \in Threads : th[u].out = 0
    <3>1. /\ Parking /\ main.at = main.made /\ main.made = N
      BY <1>2 DEF FlushDoes, Parking, RingInv, CallerOK, RunOK
    <3> QED
      BY <3>1, Numbers DEF RingInv, CallerOK, ParkOK, Quiet
  <2>3. Outs' = Outs /\ Returned' = Returned /\ Held' = {}
    BY <2>1 DEF Outs, Returned, Held
  <2>4. Line(hist.decoded, Returned, hist.lost, Held, Outs)
    BY DEF Flow, InLine
  <2>5. Line(hist.decoded, Returned, hist.lost \cup Held, {}, Outs)
    <3>1. \A u \in Threads : Outs[u] = 0
      BY <2>2 DEF Outs
    <3> QED
      BY <2>4, <3>1, LineDrop
  <2> QED
    BY <2>1, <2>2, <2>3, <2>5 DEF Flow, InLine, Row, ReturnedInOrder, NoDelay
<1>3. CASE ~ParkDoes(main.at) /\ ~FlushDoes
  <2>1. /\ codec' = codec /\ hist'.decoded = hist.decoded
        /\ hist'.returned = hist.returned /\ hist'.lost = hist.lost
        /\ fctx'.prev = fctx.prev
        /\ Running' => main.pc = "create"
        /\ \A u \in Threads : /\ th'[u].out = th[u].out
                              /\ th'[u].ctx = th[u].ctx
    BY <1>3
       DEF ManageDoes, CreateDoes, CreateFailDoes, CloseDoes,
           AwaitParkedDoes, DieDoes, KillDoes, JoinDoes, Moves, Kept,
           OthersSame, HistFault, HistIs, RingIs, MainGoes, MainIs, Running,
           Calling, Collecting
  <2>2. main.pc = "create" => \A u \in Threads : th[u].out = 0
    BY DEF RingInv, CallerOK, CreateOK, Quiet
  <2>3. Held' = Held
    BY <2>1, RingFields DEF Held, RingInv
  <2> QED
    BY <2>1, <2>2, <2>3, FlowStays DEF Flow, NoDelay
<1> QED
  BY <1>1, <1>2, <1>3

LEMMA InitFlow == Init => Flow
<1> SUFFICES ASSUME Init
             PROVE  Flow
  OBVIOUS
<1>1. /\ hist.decoded = {} /\ hist.lost = {} /\ hist.returned = <<>>
      /\ main.pc = "create" /\ fctx.prev = None
      /\ \A t \in Threads : th[t].out = 0 /\ th[t].ctx.held = {}
  BY DEF Init, FreshThread, FreshContext, FreshRing
<1>2. Returned = {} /\ Held = {} /\ Outs \in [Threads -> Frames]
  BY <1>1, Numbers DEF Returned, Held, Outs
<1>3. InLine
  BY <1>1, <1>2 DEF InLine, Line, Outs
<1> QED
  BY <1>1, <1>3
     DEF Flow, NoDelay, Row, Running, Calling, Collecting, ReturnedInOrder

LEMMA StutterKeepsFlow ==
    ASSUME Flow, UNCHANGED vars
    PROVE  Flow'
<1>1. UNCHANGED <<codec, main, fctx, th, prog, hist>>
  BY DEF vars
<1>2. Outs' = Outs /\ Returned' = Returned /\ Held' = Held /\ (Running' <=> Running)
  BY <1>1 DEF Outs, Returned, Held, Running, Calling, Collecting
<1> QED
  BY <1>1, <1>2 DEF Flow, NoDelay, InLine, Row, Dist, ReturnedInOrder

LEMMA FlowInductive == RingInv /\ InOrder /\ Flow /\ [Next]_vars => Flow'
  BY Steps, WorkerKeepsFlow, CallKeepsFlow, ManageKeepsFlow, StutterKeepsFlow

LEMMA FlowInvariant == Spec => []Flow
  BY RingInvariant, OrderInvariant, InitFlow, FlowInductive, PTL DEF Spec

(* The caller is given the frames in the order of the stream, none twice,  *)
(* whichever thread is done first (the comment at pthread_frame.c:443).    *)
THEOREM FramesInOrder == Spec => []ReturnedInOrder
<1>1. Flow => ReturnedInOrder
  BY DEF Flow
<1> QED
  BY <1>1, FlowInvariant, PTL

(* As many values as arguments, when no two arguments have the same.       *)
LEMMA ImageSize ==
    ASSUME NEW S, IsFiniteSet(S), NEW f,
           \A x, y \in S : f[x] = f[y] => x = y
    PROVE  /\ IsFiniteSet({f[x] : x \in S})
           /\ Cardinality({f[x] : x \in S}) = Cardinality(S)
<1> DEFINE T == {f[x] : x \in S}
           g == [x \in S |-> f[x]]
<1>1. g \in Surjection(S, T) /\ g \in Injection(S, T)
  BY DEF Surjection, Injection, IsInjective
<1> HIDE DEF g
<1>2. IsFiniteSet(T) /\ Cardinality(T) = Cardinality(S)
  BY <1>1, FS_Surjection
<1> QED
  BY <1>2

LEMMA ApartSize ==
    ASSUME NEW S, IsFiniteSet(S), NEW T, IsFiniteSet(T), S \cap T = {}
    PROVE  /\ IsFiniteSet(S \cup T)
           /\ Cardinality(S \cup T) = Cardinality(S) + Cardinality(T)
<1>1. /\ Cardinality(S) \in Nat /\ Cardinality(T) \in Nat
      /\ Cardinality(S \cap T) = 0
  BY FS_CardinalityType, FS_EmptySet
<1>2. /\ IsFiniteSet(S \cup T)
      /\ Cardinality(S \cup T)
           = Cardinality(S) + Cardinality(T) - Cardinality(S \cap T)
  BY FS_Union
<1> QED
  BY <1>1, <1>2

(* The frames in their places are as many as were decoded.                 *)
LEMMA LineSize ==
    ASSUME NEW D, NEW R, NEW L, NEW H, NEW o, Line(D, R, L, H, o),
           NEW W, W = {t \in Threads : o[t] # 0}
    PROVE  /\ D = R \cup L \cup H \cup {o[t] : t \in W}
           /\ Cardinality(D) = Cardinality(R) + Cardinality(L)
                                 + Cardinality(H) + Cardinality(W)
<1> DEFINE O == {o[t] : t \in W}
<1>1. D \subseteq Nat /\ 0 \notin D /\ IsFiniteSet(D)
  <2>1. D \subseteq Packets /\ Packets = 1 .. MaxPackets
        /\ 1 \in Int /\ MaxPackets \in Int
    BY Numbers DEF Line
  <2>2. IsFiniteSet(1 .. MaxPackets)
    BY <2>1, FS_Interval
  <2>3. IsFiniteSet(D)
    BY <2>1, <2>2, FS_Subset
  <2> QED
    BY <2>1, <2>3, Numbers
<1>2. D = R \cup L \cup H \cup O
  BY <1>1 DEF Line
<1>3. /\ R \cap L = {} /\ (R \cup L) \cap H = {}
      /\ (R \cup L \cup H) \cap O = {}
  <2>1. R \subseteq Nat /\ H \subseteq Nat /\ R \subseteq D
    BY <1>1, <1>2
  <2>2. \A k \in R : k \notin L /\ k \notin H
    BY <2>1 DEF Line
  <2>3. \A k \in L : k \notin H
    BY DEF Line
  <2>4. ASSUME NEW t \in W
        PROVE  o[t] \notin R /\ o[t] \notin L /\ o[t] \notin H
    <3>1. t \in Threads /\ o[t] # 0 /\ o[t] \in Nat
      BY Numbers DEF Line
    <3> QED
      BY <2>1, <3>1 DEF Line
  <2> QED
    BY <2>2, <2>3, <2>4
<1>4. IsFiniteSet(W)
  <2>1. Threads = 0 .. N - 1 /\ 0 \in Int /\ N - 1 \in Int
    BY Numbers
  <2>2. IsFiniteSet(Threads)
    BY <2>1, FS_Interval
  <2> QED
    BY <2>2, FS_Subset
<1>5. Cardinality(O) = Cardinality(W)
  <2>1. \A x, y \in W : o[x] = o[y] => x = y
    BY DEF Line
  <2> QED
    BY <1>4, <2>1, ImageSize
<1> HIDE DEF O
<1>6. /\ IsFiniteSet(R) /\ IsFiniteSet(L) /\ IsFiniteSet(H)
      /\ IsFiniteSet(O)
  BY <1>1, <1>2, FS_Subset
<1>7. /\ Cardinality(R \cup L) = Cardinality(R) + Cardinality(L)
      /\ IsFiniteSet(R \cup L)
  BY <1>3, <1>6, ApartSize
<1>8. /\ Cardinality(R \cup L \cup H)
           = Cardinality(R) + Cardinality(L) + Cardinality(H)
      /\ IsFiniteSet(R \cup L \cup H)
  BY <1>3, <1>6, <1>7, ApartSize
<1>9. Cardinality(D) = Cardinality(R \cup L \cup H) + Cardinality(O)
  BY <1>2, <1>3, <1>6, <1>8, ApartSize
<1> QED
  BY <1>2, <1>5, <1>8, <1>9 DEF O

(* Every frame is in exactly one place: returned, with a thread, held back *)
(* by the codec, or lost to a broken packet or a flush.                    *)
THEOREM NoFrameVanishes == Spec => []FramesConserved
<1>1. RingInv /\ Flow => FramesConserved
  <2> SUFFICES ASSUME RingInv, Flow
               PROVE  FramesConserved
    OBVIOUS
  <2> DEFINE W == {t \in Threads : th[t].out # 0}
  <2>1. Line(hist.decoded, Returned, hist.lost, Held, Outs)
    BY DEF Flow, InLine
  <2>2. W = {t \in Threads : Outs[t] # 0}
    BY DEF Outs
  <2>3. {Outs[t] : t \in W} = {th[t].out : t \in W}
    BY DEF Outs
  <2>4. Cardinality(Returned) = Len(hist.returned)
    <3>1. /\ hist.returned \in Seq(Packets) /\ Len(hist.returned) \in Nat
          /\ \A i \in 1 .. Len(hist.returned) : hist.returned[i] \in Nat
      BY HistFields, Numbers DEF RingInv
    <3>2. /\ IsFiniteSet(1 .. Len(hist.returned))
          /\ Cardinality(1 .. Len(hist.returned)) = Len(hist.returned)
      BY <3>1, FS_Interval
    <3>3. \A i, j \in 1 .. Len(hist.returned) :
            hist.returned[i] = hist.returned[j] => i = j
      BY <3>1 DEF Flow, ReturnedInOrder
    <3> QED
      BY <3>2, <3>3, ImageSize DEF Returned
  <2> HIDE DEF W
  <2>5. /\ hist.decoded = Returned \cup hist.lost \cup Held
                            \cup {Outs[t] : t \in W}
        /\ Cardinality(hist.decoded)
             = Cardinality(Returned) + Cardinality(hist.lost)
                 + Cardinality(Held) + Cardinality(W)
    <3> DEFINE D == hist.decoded
               R == Returned
               L == hist.lost
               H == Held
               o == Outs
    <3>1. Line(D, R, L, H, o) /\ W = {t \in Threads : o[t] # 0}
      BY <2>1, <2>2
    <3> HIDE DEF D, R, L, H, o
    <3>2. /\ D = R \cup L \cup H \cup {o[t] : t \in W}
          /\ Cardinality(D) = Cardinality(R) + Cardinality(L)
                                + Cardinality(H) + Cardinality(W)
      BY <3>1, LineSize
    <3> QED
      BY <3>2 DEF D, R, L, H, o
  <2> QED
    BY <2>3, <2>4, <2>5 DEF FramesConserved, Returned, W
<1> QED
  BY <1>1, RingInvariant, FlowInvariant, PTL

----------------------------------------------------------------------------
(* Draining.  The thread with the empty packet has it until the call       *)
(* returns, and when it is done without a frame nothing is held back, or   *)
(* it failed.                                                              *)
LastEmpty ==
    Collecting /\ main.pkt = 0 /\ codec.cap =>
        /\ th[fctx.prev].pkt = 0
        /\ ~Unset(fctx.prev) /\ th[fctx.prev].out = 0 =>
             Held = {} \/ th[fctx.prev].result # 0
Drained == LastEmpty /\ DrainComplete

LEMMA WorkerKeepsDrained ==
    ASSUME RingInv, Drained, NEW t \in Threads, WorkerDoes(t)
    PROVE  Drained'
<1>1. /\ Typed /\ WorkerOK(t) /\ LastEmpty /\ DrainComplete
      /\ fctx.prev = None \/ fctx.prev \in Threads
      /\ main.pc \in {"create", "idle", "call", "prev", "prevAsleep",
                      "collect", "collectAsleep", "park", "parkAsleep",
                      "kill", "join", "freed"}
  BY RingFields, MainFields DEF RingInv, WorkersOK, Drained
<1>2. /\ CallerStays /\ ThreadsStep(t) /\ codec' = codec /\ fctx' = fctx
      /\ (Collecting' <=> Collecting) /\ (main'.pc = "idle" <=> main.pc = "idle")
      /\ main'.pkt = main.pkt /\ main'.plan = main.plan /\ main'.err = main.err
  BY <1>1, WorkerCaller, WorkerThreads, CallerPhases DEF CallerStays, MainKept
<1>3. \A u \in Threads \ {t} :
        /\ th'[u].out = th[u].out /\ th'[u].ctx = th[u].ctx
        /\ th'[u].pkt = th[u].pkt /\ (Unset(u)' <=> Unset(u))
        /\ th'[u].result = th[u].result
        /\ Quiet(u) => Quiet(u)'
  BY <1>2 DEF ThreadsStep, Aside, Kept, Unset, Quiet
<1>4. /\ th'[t].pkt = th[t].pkt
      /\ Quiet(t) => /\ Quiet(t)' /\ th'[t].ctx = th[t].ctx
                     /\ th'[t].result = th[t].result
  BY <1>2 DEF ThreadsStep
<1>5. DrainComplete'
  <2> SUFFICES ASSUME main.pc = "idle", main.plan = "ended", main.err # None
               PROVE  /\ Held' = {} \/ EmptyFailed'
                      /\ \A u \in Threads : Quiet(u)'
    BY <1>2 DEF DrainComplete, Quiet
  <2>1. (Held = {} \/ EmptyFailed) /\ \A u \in Threads : Quiet(u)
    BY <1>1 DEF DrainComplete, Quiet
  <2>2. \A u \in Threads :
          /\ Quiet(u)' /\ th'[u].ctx = th[u].ctx
          /\ th'[u].pkt = th[u].pkt /\ th'[u].result = th[u].result
    BY <1>3, <1>4, <2>1
  <2> QED
    BY <1>1, <1>2, <2>1, <2>2 DEF Held, EmptyFailed
<1>6. LastEmpty'
  <2> SUFFICES ASSUME Collecting, main.pkt = 0, codec.cap
               PROVE  /\ th'[fctx.prev].pkt = 0
                      /\ ~Unset(fctx.prev)' /\ th'[fctx.prev].out = 0
                           => Held' = {} \/ th'[fctx.prev].result # 0
    BY <1>2 DEF LastEmpty
  <2>1. fctx.prev \in Threads /\ fctx.prev # None
    BY <1>1, Numbers DEF RingInv, RingOK, FirstOK, Handed, Submits
  <2>2. /\ th[fctx.prev].pkt = 0
        /\ ~Unset(fctx.prev) /\ th[fctx.prev].out = 0 =>
             Held = {} \/ th[fctx.prev].result # 0
    BY <1>1 DEF LastEmpty
  <2>3. CASE t # fctx.prev
    BY <1>2, <1>3, <2>1, <2>2, <2>3 DEF Held
  <2>4. CASE t = fctx.prev /\ SetupEmptyDoes(t)
    <3>1. /\ th'[t].out = Leftover(t) /\ (Held = {} => Held' = {})
          /\ Held = th[t].ctx.held
      BY <1>2, <2>1, <2>4 DEF SetupEmptyDoes, Own, Held
    <3>2. Leftover(t) = 0 => Held = {}
      BY <1>1, <3>1, LeftoverIs
    <3> QED
      BY <1>4, <2>2, <2>4, <3>1, <3>2
  <2>6. CASE t = fctx.prev /\ OutputFailDoes(t)
    <3>1. th'[t].result = Leftover(t) /\ th[t].ctx.held # {}
      BY <2>2, <2>6 DEF OutputFailDoes, Own, Dropped
    <3>2. Leftover(t) # 0
      BY <1>1, <3>1, LeftoverIs
    <3> QED
      BY <1>4, <2>2, <2>6, <3>1, <3>2
  <2>5. CASE t = fctx.prev /\ ~SetupEmptyDoes(t) /\ ~OutputFailDoes(t)
    <3>1. /\ th'[t].out = th[t].out /\ th'[t].ctx = th[t].ctx
          /\ th'[t].result = th[t].result
          /\ Unset(t) => Unset(t)'
      BY <1>1, <2>2, <2>5, ThreadFields
         DEF WorkerDoes, SleepDoes, ExitDoes, StartDoes, SpuriousDoes,
             SetupPacketDoes, SetupErrorDoes, AwaitProgressDoes, DecodeDoes,
             FinishSetupDoes, DoneDoes, Own, Moves, Kept, WorkerOK, Looks,
             Unset
    <3>2. Held' = Held
      BY <1>2, <2>1, <2>5, <3>1 DEF Held
    <3> QED
      BY <1>2, <1>4, <2>2, <2>5, <3>1, <3>2
  <2> QED
    BY <2>3, <2>4, <2>5, <2>6
<1> QED
  BY <1>5, <1>6 DEF Drained

LEMMA TakeKeepsDrained ==
    ASSUME RingInv, Flow, Drained, NEW t \in Threads, NEW nf \in Threads,
           nf = fctx.next_finished, TakeDoes(t)
    PROVE  Drained'
<1>1. /\ Typed /\ Places /\ RingOK /\ LastEmpty /\ Collecting /\ Running
      /\ t = main.at /\ th[t].state = "INPUT_READY"
      /\ ErrorOf(th[t].out, Latest(t)) \in Frames
      /\ fctx.prev = None \/ fctx.prev \in Threads
  <2>1. /\ Collecting /\ t = main.at /\ th[t].state = "INPUT_READY"
        /\ Typed /\ Places /\ RingOK /\ LastEmpty
    BY DEF RingInv, Drained, TakeDoes, Collecting
  <2> QED
    BY <2>1, ThreadFields, RingFields DEF Places, Latest, ErrorOf, Running
<1>2. /\ Answers(th[t].out # 0, ErrorOf(th[t].out, Latest(t)))
      /\ codec' = codec /\ fctx'.prev = fctx.prev
      /\ \A u \in Threads :
           /\ th'[u].ctx = th[u].ctx /\ th'[u].state = th[u].state
           /\ th'[u].pkt = th[u].pkt /\ th'[u].result = th[u].result
           /\ th'[u].out = IF u = t THEN 0 ELSE th[u].out
  BY DEF TakeDoes, RingIs, Takes, Own, OthersSame
<1>3. Held' = Held /\ ~Collecting'
  BY <1>1, <1>2, AnswersStop DEF Held
<1>4. ASSUME main'.pc = "idle", main'.plan = "ended"
      PROVE  /\ Held' = {} \/ EmptyFailed'
             /\ \A u \in Threads :
                  th'[u].out = 0 /\ th'[u].state = "INPUT_READY"
  <2>1. main.plan = "drain" /\ th[t].out = 0 /\ main.pkt = 0
    BY <1>1, <1>2, <1>4 DEF Answers, MainIs, Places
  <2>2. After(t) = nf
    BY <2>1 DEF TakeDoes
  <2>3. Dist(nf, t) = N - 1
    BY <2>2, DistIs
  <2>4. ASSUME NEW u \in Threads, u # t
        PROVE  Quiet(u)
    <3>1. /\ Dist(nf, u) \in 0 .. N - 1 /\ Dist(nf, t) \in 0 .. N - 1
          /\ Dist(nf, u) # Dist(nf, t)
      BY <2>4, DistIs, DistInjective
    <3>2. Dist(nf, u) < Dist(nf, t)
      BY <2>3, <3>1, Numbers
    <3> QED
      BY <1>1, <3>2 DEF RingOK, SpanOK, Passed
  <2>5. \A u \in Threads : Quiet(u)
    BY <1>1, <2>1, <2>4 DEF Quiet
  <2>6. CASE codec.cap
    <3>1. fctx.prev \in Threads
      BY <1>1, <2>6, Numbers DEF RingOK, FirstOK, Handed, Submits
    <3>2. ~Unset(fctx.prev) /\ th[fctx.prev].out = 0
      BY <2>5, <3>1 DEF Quiet, Unset
    <3>3. Held' = {} \/ EmptyFailed'
      BY <1>1, <1>2, <1>3, <2>1, <2>6, <3>1, <3>2, Numbers
         DEF LastEmpty, EmptyFailed
    <3> QED
      BY <1>2, <2>5, <3>3 DEF Quiet
  <2>7. CASE ~codec.cap
    <3>1. Held = {}
      BY <1>1, <2>7 DEF Flow, NoDelay, Held
    <3> QED
      BY <1>2, <1>3, <2>5, <3>1 DEF Quiet
  <2> QED
    BY <2>6, <2>7
<1> QED
  BY <1>3, <1>4 DEF Drained, LastEmpty, DrainComplete

LEMMA CallKeepsDrained ==
    ASSUME RingInv, Flow, Drained, CallDoes
    PROVE  Drained'
<1>1. ASSUME NEW t, t = main.at, TakeDoes(t)
      PROVE  Drained'
  <2>1. t \in Threads /\ fctx.next_finished \in Threads
    BY <1>1, RingFields DEF RingInv, Places, TakeDoes, Collecting
  <2> QED
    BY <1>1, <2>1, TakeKeepsDrained
<1>2. ASSUME NEW t, t = fctx.next_decoding, HandDoes(t)
      PROVE  Drained'
  <2>1. t \in Threads /\ th[t].pc \in {"wait", "check", "woken"}
    BY <1>2, NextIsQuiet DEF HandDoes, Calling
  <2>2. /\ fctx'.prev = t /\ th'[t].pkt = main.pkt /\ Unset(t)'
        /\ main'.pkt = main.pkt
    BY <1>2, <2>1
       DEF HandDoes, Submitted, RingIs, Answers, Collects, MainIs, Unset,
           SignalInput
  <2>3. LastEmpty'
    BY <2>2 DEF LastEmpty
  <2>4. ~(main'.pc = "idle" /\ main'.plan = "ended")
    BY <1>2
       DEF HandDoes, Submitted, Answers, Collects, MainIs, RingInv, Places,
           Calling
  <2> QED
    BY <2>3, <2>4 DEF Drained, DrainComplete
<1>3. CASE ~TakeDoes(main.at) /\ ~HandDoes(fctx.next_decoding)
  <2>1. /\ codec' = codec /\ fctx'.prev = fctx.prev
        /\ \A u \in Threads :
             /\ th'[u].out = th[u].out /\ th'[u].ctx = th[u].ctx
             /\ th'[u].pc = th[u].pc /\ th'[u].state = th[u].state
             /\ th'[u].pkt = th[u].pkt /\ th'[u].result = th[u].result
        /\ Collecting' => \/ ~codec.cap
                          \/ Collecting /\ main'.pkt = main.pkt
        /\ main'.pc = "idle" => main'.err = None
    BY <1>3
       DEF CallDoes, FeedDoes, EmptyDoes, UserContextFailDoes,
           SubmitNothingDoes, LockDoes, AwaitSetupDoes, ContextFailDoes,
           AwaitOutputDoes, PassDoes, Takes, Own, OthersSame, RingIs,
           Answers, Collects, MainGoes, MainIs, Collecting
  <2>2. Held' = Held /\ (fctx.prev = None \/ fctx.prev \in Threads)
    BY <2>1, RingFields DEF Held, RingInv
  <2>3. codec.cap /\ Collecting => fctx.prev \in Threads
    BY <2>2, Numbers DEF RingInv, RingOK, FirstOK, Handed, Submits
  <2>4. LastEmpty'
    BY <2>1, <2>2, <2>3 DEF Drained, LastEmpty, Unset
  <2> QED
    BY <2>1, <2>4 DEF Drained, DrainComplete
<1> QED
  BY <1>1, <1>2, <1>3

LEMMA ManageKeepsDrained ==
    ASSUME RingInv, Drained, ManageDoes
    PROVE  Drained'
<1>1. /\ ~Collecting'
      /\ main'.pc = "idle" => main'.plan = "feed"
  BY DEF ManageDoes, CreateDoes, CreateFailDoes, CloseDoes, AwaitParkedDoes,
         ParkDoes, FlushDoes, DieDoes, KillDoes, JoinDoes, MainGoes, MainIs,
         Collecting, RingInv, CallerOK, CreateOK
<1> QED
  BY <1>1 DEF Drained, LastEmpty, DrainComplete

LEMMA InitDrained == Init => Drained
  BY DEF Init, Drained, LastEmpty, DrainComplete, Collecting

LEMMA StutterKeepsDrained ==
    ASSUME Drained, UNCHANGED vars
    PROVE  Drained'
<1>1. UNCHANGED <<codec, main, fctx, th, prog, hist>>
  BY DEF vars
<1>2. Held' = Held /\ (Collecting' <=> Collecting)
  BY <1>1 DEF Held, Collecting
<1> QED
  BY <1>1, <1>2 DEF Drained, LastEmpty, DrainComplete, EmptyFailed, Unset

LEMMA DrainedInductive ==
    RingInv /\ Flow /\ Drained /\ [Next]_vars => Drained'
  BY Steps, WorkerKeepsDrained, CallKeepsDrained, ManageKeepsDrained,
     StutterKeepsDrained

LEMMA DrainedInvariant == Spec => []Drained
  BY RingInvariant, FlowInvariant, InitDrained, DrainedInductive, PTL DEF Spec

(* When an empty packet brings no frame, no thread works any more and no   *)
(* frame is left, in a thread or in the codec - unless memory ran out just *)
(* then: in the call, or in the thread of that packet.                     *)
THEOREM DrainEmpties == Spec => []DrainComplete
<1>1. Drained => DrainComplete
  BY DEF Drained
<1> QED
  BY <1>1, DrainedInvariant, PTL

----------------------------------------------------------------------------
(* Errors.  What a thread failed with is kept where the caller comes to    *)
(* ask for it: with a codec that has no delay no packet is handed over     *)
(* while the decoder is drained.                                           *)
Failing(t) ==
    /\ th[t].result # 0
    /\ th[t].state = "INPUT_READY" \/ th[t].pc = "finish"
Unreported == hist.failed # {} /\ hist.reported = {} /\ main.rewinds = 0
FailKept ==
    Unreported /\ Running /\ main.plan \in {"feed", "drain"} =>
        \E t \in Threads :
            /\ Failing(t)
            /\ main.plan = "feed" => Dist(fctx.next_finished, t) < Span
PassedKept ==
    Collecting /\ main.pkt = 0 =>
        \A t \in Threads : Passed(t) /\ th[t].result # 0 => main.err # 0
RewindOK ==
    /\ main.plan = "rewind" => main.rewinds # 0
    /\ main.pc = "create" => hist.failed = {}
Errors == RewindOK /\ (~codec.cap => FailKept /\ PassedKept /\ ErrorKept)

(* A thread that fails now is one the caller will still ask.               *)
LEMMA WorkerKeepsErrors ==
    ASSUME RingInv, Flow, Drained, Errors, NEW t \in Threads, WorkerDoes(t)
    PROVE  Errors'
<1>1. /\ Typed /\ WorkerOK(t) /\ RingOK /\ RewindOK /\ DrainComplete
      /\ main.pc \in {"create", "idle", "call", "prev", "prevAsleep",
                      "collect", "collectAsleep", "park", "parkAsleep",
                      "kill", "join", "freed"}
  BY MainFields DEF RingInv, WorkersOK, Errors, Drained
<1>2. /\ CallerStays /\ ThreadsStep(t) /\ codec' = codec /\ fctx' = fctx
      /\ (Collecting' <=> Collecting) /\ (Running' <=> Running)
      /\ (main'.pc = "create" <=> main.pc = "create")
      /\ (main'.pc = "idle" <=> main.pc = "idle") /\ Span' = Span
      /\ (\A u : Passed(u)' <=> Passed(u))
      /\ main'.pkt = main.pkt /\ main'.plan = main.plan
      /\ main'.err = main.err /\ main'.rewinds = main.rewinds
  BY <1>1, WorkerCaller, WorkerThreads, CallerPhases DEF CallerStays, MainKept
<1>3. \A u \in Threads \ {t} :
        th'[u].result = th[u].result /\ (Failing(u) => Failing(u)')
  BY <1>2 DEF ThreadsStep, Aside, Kept, Failing
<1>4. \A u \in Threads : Passed(u) => Quiet(u)
  BY <1>1 DEF RingOK, SpanOK, Passed, Running
<1>5. CASE SetupErrorDoes(t) \/ DecodeDoes(t, FALSE)
  <2>1. /\ Failing(t)' /\ ~Quiet(t) /\ hist'.reported = hist.reported
    <3>1. th[t].pkt # 0
      BY <1>1, <1>5 DEF SetupErrorDoes, DecodeDoes, WorkerOK
    <3> QED
      BY <1>1, <1>5, <3>1
         DEF SetupErrorDoes, DecodeDoes, Own, HistIs, WorkerOK, Quiet, Failing
  <2>2. RewindOK'
    BY <1>1, <1>2, <2>1 DEF RewindOK, RingInv, CallerOK, CreateOK
  <2>3. FailKept'
    <3>1. Running => Dist(fctx.next_finished, t) < Span
      <4>1. fctx.next_finished \in Threads /\ fctx.next_decoding \in 0 .. N
        BY <1>1, RingFields
      <4>2. Dist(fctx.next_finished, t) \in 0 .. N - 1 /\ Span \in Int
        BY <4>1, DistIs, SpanIsInt
      <4>3. Running => ~(Dist(fctx.next_finished, t) >= Span)
        BY <1>1, <2>1 DEF RingOK, SpanOK
      <4> QED
        BY <4>2, <4>3, Numbers
    <3> QED
      BY <1>2, <2>1, <3>1 DEF FailKept, Dist
  <2>4. ~codec.cap => PassedKept'
    BY <1>2, <1>3, <1>4, <2>1 DEF Errors, PassedKept
  <2>5. ErrorKept'
    BY <1>1, <1>2, <2>1 DEF DrainComplete, Quiet, ErrorKept
  <2> QED
    BY <1>2, <2>2, <2>3, <2>4, <2>5 DEF Errors
<1>7. CASE OutputFailDoes(t)
  <2>1. codec.cap
    BY <1>7 DEF OutputFailDoes, Flow, NoDelay
  <2>2. main.pc # "create"
    BY <1>1, <1>7 DEF OutputFailDoes, WorkerOK, RingInv, CallerOK, CreateOK, Quiet
  <2> QED
    BY <1>1, <1>2, <2>1, <2>2 DEF Errors, RewindOK
<1>6. CASE ~SetupErrorDoes(t) /\ ~DecodeDoes(t, FALSE) /\ ~OutputFailDoes(t)
  <2>1. /\ hist'.failed = hist.failed /\ hist'.reported = hist.reported
        /\ Failing(t) => Failing(t)'
        /\ Quiet(t) => th'[t].result = th[t].result
    <3>1. CASE DecodeDoes(t, TRUE)
      BY <1>1, <3>1 DEF DecodeDoes, WorkerOK, Failing, Quiet
    <3>2. CASE ~DecodeDoes(t, TRUE)
      BY <1>1, <1>6, <3>2
         DEF WorkerDoes, SleepDoes, ExitDoes, StartDoes, SpuriousDoes,
             SetupPacketDoes, SetupEmptyDoes, AwaitProgressDoes,
             FinishSetupDoes, DoneDoes, Own, Moves, Kept, HistIs, HistFault,
             WorkerOK, Looks, Failing, Quiet
    <3> QED
      BY <3>1, <3>2
  <2>2. \A u \in Threads : /\ Failing(u) => Failing(u)'
                           /\ Quiet(u) => th'[u].result = th[u].result
    BY <1>3, <2>1
  <2>3. RewindOK'
    BY <1>1, <1>2, <2>1 DEF RewindOK
  <2>4. ASSUME ~codec.cap
        PROVE  FailKept' /\ PassedKept' /\ ErrorKept'
    <3>1. FailKept'
      BY <1>2, <2>1, <2>2, <2>4 DEF Errors, FailKept, Unreported, Dist
    <3>2. PassedKept'
      BY <1>2, <1>4, <2>2, <2>4 DEF Errors, PassedKept
    <3>3. ErrorKept'
      BY <1>2, <2>1, <2>4 DEF Errors, ErrorKept
    <3> QED
      BY <3>1, <3>2, <3>3
  <2> QED
    BY <1>2, <2>3, <2>4 DEF Errors
<1> QED
  BY <1>5, <1>6, <1>7


(* The thread that gets the packet is one more of those with work.         *)
LEMMA HandSpan ==
    ASSUME RingInv, NEW t \in Threads, t = fctx.next_decoding,
           NEW nf \in Threads, nf = fctx.next_finished, HandDoes(t)
    PROVE  Span = Dist(nf, t) /\ Span' = Dist(nf, t) + 1
<1>1. Typed /\ Places /\ RingOK
  BY DEF RingInv
<1>2. /\ main.pc = "prev" /\ Submits /\ Submitted(t + 1, t) /\ ~Handed
      /\ Calling /\ Running /\ codec' = codec
  BY <1>1 DEF HandDoes, Places, Handed, Collecting, Calling, Running
<1>3. fctx'.next_decoding = t + 1 /\ fctx'.next_finished = nf
  BY <1>2 DEF Submitted, RingIs
<1>4. CASE Delays(t + 1) /\ main.pkt # 0
  <2>1. main'.pc \in {"park", "idle"}
    BY <1>2, <1>4 DEF Submitted, Answers, MainIs
  <2>2. ~Handed'
    BY <2>1 DEF Handed, Collecting
  <2>3. nf = 0 /\ t + 1 < N
    <3>1. main.plan = "feed" /\ codec.early \in {0, 1} /\ fctx.delaying
      BY <1>1, <1>2, <1>4, RingFields DEF Places, CodecType, Delays
    <3> QED
      BY <1>1, <1>2, <1>4, <3>1, Numbers DEF Delays, RingOK, DelayOK
  <2>4. Dist(nf, t + 1) = Dist(nf, t) + 1
    BY <2>3, Numbers DEF Dist
  <2> QED
    BY <1>2, <1>3, <2>2, <2>4 DEF Span
<1>5. CASE ~(Delays(t + 1) /\ main.pkt # 0)
  <2>1. main'.pc = "collect" /\ main'.pkt = main.pkt
    BY <1>2, <1>5 DEF Submitted, Collects, MainIs
  <2>2. Handed'
    BY <1>2, <2>1 DEF Handed, Collecting, Submits
  <2>3. Span' = Dist(nf, t) + 1
    BY <1>3, <2>2, Numbers DEF Span
  <2> QED
    BY <1>2, <2>3 DEF Span
<1> QED
  BY <1>4, <1>5

LEMMA HandKeepsErrors ==
    ASSUME RingInv, Errors, NEW t \in Threads, t = fctx.next_decoding,
           NEW nf \in Threads, nf = fctx.next_finished, HandDoes(t)
    PROVE  Errors'
<1>1. /\ Calling /\ Running /\ Submits /\ RewindOK
  BY DEF HandDoes, RingInv, Places, Calling, Running, Errors
<1>2. /\ codec' = codec /\ hist' = hist /\ fctx'.next_finished = nf
      /\ main'.rewinds = main.rewinds /\ main'.pc # "create"
      /\ main'.plan = "rewind" => main.plan = "rewind"
      /\ main.pkt # 0 => main'.pkt # 0 /\ main'.plan = main.plan
      /\ OthersSame(t)
  BY <1>1
     DEF HandDoes, Submitted, RingIs, Answers, Collects, MainIs, RingInv,
         Places
<1>3. RewindOK'
  BY <1>1, <1>2 DEF RewindOK
<1>4. ASSUME ~codec.cap
      PROVE  FailKept' /\ PassedKept' /\ ErrorKept'
  <2>1. main.pkt # 0 /\ main.plan = "feed"
    BY <1>1, <1>4 DEF Submits, RingInv, Places
  <2>2. PassedKept' /\ ErrorKept'
    BY <1>2, <2>1 DEF PassedKept, ErrorKept
  <2>3. FailKept'
    <3> SUFFICES ASSUME Unreported
                 PROVE  \E x \in Threads :
                          Failing(x)' /\ Dist(nf, x) < Span'
      BY <1>2, <2>1 DEF FailKept, Unreported, Dist
    <3>1. PICK x \in Threads : Failing(x) /\ Dist(nf, x) < Span
      BY <1>1, <1>4, <2>1 DEF Errors, FailKept
    <3>2. Span = Dist(nf, t) /\ Span' = Dist(nf, t) + 1
      BY HandSpan
    <3>3. Dist(nf, x) \in 0 .. N - 1 /\ Dist(nf, t) \in 0 .. N - 1
      BY DistIs
    <3>4. x # t /\ Dist(nf, x) < Dist(nf, t) + 1
      BY <3>1, <3>2, <3>3, Numbers
    <3>5. Failing(x)'
      BY <1>2, <3>1, <3>4 DEF OthersSame, Failing
    <3> QED
      BY <3>2, <3>4, <3>5
  <2> QED
    BY <2>2, <2>3
<1> QED
  BY <1>2, <1>3, <1>4 DEF Errors


LEMMA PassKeepsErrors ==
    ASSUME RingInv, Errors, NEW t \in Threads, NEW nf \in Threads,
           nf = fctx.next_finished, PassDoes(t)
    PROVE  Errors'
<1>1. /\ codec' = codec /\ hist' = hist /\ fctx' = fctx /\ t = main.at
      /\ main.pc = "collect" /\ main'.pc = "collect" /\ main'.pkt = main.pkt
      /\ main'.plan = main.plan /\ main'.rewinds = main.rewinds
      /\ main'.at = After(t) /\ main'.err = Latest(t) /\ main.pkt = 0
      /\ After(t) # nf
      /\ \A u \in Threads :
           /\ th'[u].result = th[u].result /\ th'[u].state = th[u].state
           /\ th'[u].pc = th[u].pc
  BY DEF PassDoes, MainIs, Takes, Own, OthersSame
<1>2. /\ Collecting /\ Running /\ Collecting' /\ Running' /\ Span' = Span
      /\ \A u \in Threads : Failing(u)' <=> Failing(u)
  BY <1>1 DEF Collecting, Running, Failing, Span, Handed, Submits
<1>3. RewindOK' /\ ErrorKept'
  BY <1>1 DEF Errors, RewindOK, ErrorKept
<1>4. ~codec.cap => FailKept'
  BY <1>1, <1>2 DEF Errors, FailKept, Unreported, Dist
<1>5. ASSUME ~codec.cap, NEW u \in Threads, Passed(u)', th[u].result # 0
      PROVE  Latest(t) # 0
  <2>1. Dist(nf, u) < Dist(nf, After(t))
    BY <1>1, <1>5 DEF Passed
  <2>2. /\ Dist(nf, After(t)) = Dist(nf, t) + 1
        /\ Dist(nf, t) \in 0 .. N - 1 /\ Dist(nf, u) \in 0 .. N - 1
    BY <1>1, DistIs
  <2>3. Dist(nf, u) < Dist(nf, t) \/ Dist(nf, u) = Dist(nf, t)
    BY <2>1, <2>2, Numbers
  <2>4. CASE Dist(nf, u) < Dist(nf, t)
    BY <1>1, <1>2, <1>5, <2>4 DEF Errors, PassedKept, Passed, Latest
  <2>5. CASE Dist(nf, u) = Dist(nf, t)
    BY <1>5, <2>5, DistInjective DEF Latest
  <2> QED
    BY <2>3, <2>4, <2>5
<1> QED
  BY <1>1, <1>3, <1>4, <1>5 DEF Errors, PassedKept

(* Who is asked for its frame is asked for its error, and who is passed in *)
(* a drain leaves it with the caller.                                      *)
LEMMA TakeKeepsErrors ==
    ASSUME RingInv, Errors, NEW t \in Threads, NEW nf \in Threads,
           nf = fctx.next_finished, TakeDoes(t)
    PROVE  Errors'
<1> DEFINE e == ErrorOf(th[t].out, Latest(t))
<1>1. /\ Typed /\ Places /\ RingOK /\ Collecting /\ Running /\ t = main.at
      /\ th[t].state = "INPUT_READY" /\ RewindOK
      /\ \/ main.pkt # 0 \/ th[t].out # 0 \/ After(t) = nf
  BY DEF RingInv, TakeDoes, Collecting, Running, Errors
<1>2. /\ codec' = codec /\ fctx'.next_finished = After(t)
      /\ fctx'.next_decoding =
           IF fctx.next_decoding = N THEN 0 ELSE fctx.next_decoding
      /\ Answers(th[t].out # 0, e)
      /\ hist'.failed = hist.failed
      /\ hist'.reported = hist.reported \cup Only(e)
      /\ \A u \in Threads :
           /\ th'[u].result = th[u].result /\ th'[u].state = th[u].state
           /\ th'[u].pc = th[u].pc
  BY DEF TakeDoes, RingIs, Takes, Own, OthersSame, HistIs
<1>3. /\ main'.pc \in {"park", "idle"} /\ ~Collecting' /\ ~Calling'
      /\ Running' <=> main'.pc = "idle"
  <2> HIDE DEF e
  <2> QED
    BY <1>2, AnswersStop
<1>4. /\ main'.rewinds = main.rewinds /\ main'.pkt = main.pkt
      /\ main'.plan = "rewind" => main.plan = "rewind"
      /\ main'.plan = "feed" => main.plan = "feed" /\ main.pkt # 0
      /\ main'.plan = "ended" => main.plan = "drain" /\ th[t].out = 0
      /\ main'.plan \in {"drain", "ended"} => main.plan = "drain"
      /\ main.plan = "drain" => main.pkt = 0
  BY <1>1, <1>2 DEF Answers, MainIs, Places
<1>5. RewindOK' /\ PassedKept'
  BY <1>1, <1>2, <1>3, <1>4 DEF RewindOK, PassedKept
<1>6. \A u \in Threads : Failing(u) => Failing(u)'
  BY <1>2 DEF Failing
<1>7. e # 0 => hist'.reported # {}
  BY <1>2 DEF Only
<1>8. ASSUME ~codec.cap, hist.failed # {}, hist'.reported = {},
             main.rewinds = 0, main'.pc = "idle"
      PROVE  /\ main'.plan # "ended"
             /\ main'.plan \in {"feed", "drain"} =>
                  \E x \in Threads :
                    /\ Failing(x)'
                    /\ main'.plan = "feed" => Dist(After(t), x) < Span'
  <2>1. e = 0 /\ Unreported
    BY <1>2, <1>7, <1>8 DEF Unreported
  <2>2. main'.plan # "ended"
    <3> SUFFICES ASSUME main'.plan = "ended"
                 PROVE  FALSE
      OBVIOUS
    <3>1. main.plan = "drain" /\ th[t].out = 0 /\ main.pkt = 0 /\ After(t) = nf
      BY <1>1, <1>4
    <3>2. PICK x \in Threads : Failing(x)
      BY <1>1, <1>8, <2>1, <3>1 DEF Errors, FailKept
    <3>3. x = t \/ Passed(x)
      <4>1. /\ Dist(nf, t) = N - 1 /\ Dist(nf, x) \in 0 .. N - 1
            /\ x # t => Dist(nf, x) # Dist(nf, t)
        BY <3>1, DistIs, DistInjective
      <4>2. x # t => Dist(nf, x) < Dist(nf, t)
        BY <4>1, Numbers
      <4> QED
        BY <1>1, <4>2 DEF Passed
    <3>4. Latest(t) # 0
      BY <1>1, <1>8, <3>1, <3>2, <3>3
         DEF Errors, PassedKept, Failing, Latest
    <3> QED
      BY <2>1, <3>1, <3>4 DEF ErrorOf
  <2>3. CASE main'.plan = "drain"
    <3>1. PICK x \in Threads : Failing(x)
      BY <1>1, <1>4, <1>8, <2>1, <2>3 DEF Errors, FailKept
    <3> QED
      BY <1>6, <2>2, <2>3, <3>1
  <2>4. CASE main'.plan = "feed"
    <3> DEFINE p == fctx.next_decoding - 1
               nd == fctx'.next_decoding
    <3>1. main.plan = "feed" /\ main.pkt # 0 /\ Handed /\ t = nf
      BY <1>1, <1>4, <2>4 DEF Handed, Submits, RingOK, AtOK
    <3>2. PICK x \in Threads : Failing(x) /\ Dist(nf, x) < Span
      BY <1>1, <1>8, <2>1, <3>1 DEF Errors, FailKept
    <3>3. p \in Threads /\ nd = After(p) /\ nd \in Threads
      <4>1. /\ fctx.next_decoding \in 0 .. N
            /\ fctx.prev \in Threads /\ fctx.next_decoding = fctx.prev + 1
        BY <1>1, <3>1, RingFields, Numbers DEF RingOK, FirstOK, PrevOK
      <4> QED
        BY <1>2, <4>1, Numbers DEF After
    <3>4. Span = Dist(nf, p) + 1
      BY <3>1 DEF Span
    <3>5. Span' = Dist(After(t), nd)
      BY <1>2, <1>3 DEF Span, Handed
    <3>6. x # t
      BY <1>1, <2>1, <3>1, <3>2 DEF ErrorOf, Failing
    <3> HIDE DEF p, nd
    <3>7. /\ Dist(nf, x) \in 0 .. N - 1 /\ Dist(nf, p) \in 0 .. N - 1
          /\ Dist(nf, nf) = 0 /\ Dist(nf, x) # 0
          /\ Dist(After(t), x) \in 0 .. N - 1
          /\ Dist(After(t), nd) \in 0 .. N - 1
      BY <3>1, <3>3, <3>6, DistIs, AfterIs
    <3>8. Dist(After(t), x) = Dist(nf, x) - 1
      <4>1. Dist(nf, x) > Dist(nf, nf)
        BY <3>7, Numbers
      <4>2. Dist(After(nf), x) = Dist(nf, x) - Dist(nf, nf) - 1
        BY <4>1, DistShift
      <4> QED
        BY <3>1, <3>7, <4>2, Numbers
    <3>9. Dist(After(t), nd) >= Dist(nf, p)
      <4>1. Dist(nf, t) < Dist(nf, p) + 1
        BY <3>1, <3>7, Numbers
      <4>2. Dist(After(t), After(p)) >= Dist(nf, p) + 1 - Dist(nf, t) - 1
        BY <3>3, <4>1, SpanAfter
      <4> QED
        BY <3>1, <3>3, <3>7, <4>2, Numbers
    <3>10. Dist(After(t), x) < Span'
      BY <3>2, <3>4, <3>5, <3>7, <3>8, <3>9, Numbers
    <3> QED
      BY <1>6, <2>2, <3>2, <3>10
  <2> QED
    BY <2>2, <2>3, <2>4
<1>9. ~codec.cap => FailKept' /\ ErrorKept'
  <2>1. Unreported' => hist.failed # {} /\ hist'.reported = {} /\ main.rewinds = 0
    BY <1>2, <1>4 DEF Unreported
  <2>2. ~codec.cap => FailKept'
    BY <1>2, <1>3, <1>8, <2>1 DEF FailKept, Dist
  <2>3. ~codec.cap => ErrorKept'
    BY <1>2, <1>4, <1>8 DEF ErrorKept
  <2> QED
    BY <2>2, <2>3
<1> QED
  BY <1>2, <1>5, <1>9 DEF Errors


LEMMA CallKeepsErrors ==
    ASSUME RingInv, Errors, CallDoes
    PROVE  Errors'
<1>1. ASSUME NEW t, t = fctx.next_decoding, HandDoes(t)
      PROVE  Errors'
  <2>1. t \in Threads /\ fctx.next_finished \in Threads
    BY <1>1, NextIsQuiet, RingFields DEF HandDoes, Calling, RingInv
  <2> QED
    BY <1>1, <2>1, HandKeepsErrors
<1>2. ASSUME NEW t, t = main.at, PassDoes(t) \/ TakeDoes(t)
      PROVE  Errors'
  <2>1. t \in Threads /\ fctx.next_finished \in Threads
    BY <1>2, RingFields DEF RingInv, Places, PassDoes, TakeDoes, Collecting
  <2> QED
    BY <1>2, <2>1, PassKeepsErrors, TakeKeepsErrors
<1>3. CASE /\ ~HandDoes(fctx.next_decoding)
           /\ ~PassDoes(main.at) /\ ~TakeDoes(main.at)
  <2>1. /\ main.rewinds \in 0 .. MaxRewinds /\ fctx.next_finished \in Threads
        /\ fctx.next_decoding \in 0 .. N /\ Places /\ RewindOK
    BY MainFields, RingFields DEF RingInv, Errors
  <2>2. /\ codec' = codec /\ th' = th
        /\ hist'.failed = hist.failed /\ hist'.reported = hist.reported
        /\ fctx'.next_finished = fctx.next_finished
        /\ fctx'.next_decoding = fctx.next_decoding
        /\ Running /\ main'.pc # "create"
    BY <1>3
       DEF CallDoes, FeedDoes, EmptyDoes, UserContextFailDoes,
           SubmitNothingDoes, LockDoes, AwaitSetupDoes, ContextFailDoes,
           AwaitOutputDoes, HistIs, HistFault, RingIs, Running, Calling,
           Collecting, Answers, Collects, MainGoes, MainIs
  <2>3. /\ \/ /\ main'.rewinds = main.rewinds
              /\ main'.plan = "rewind" => main.plan = "rewind"
           \/ main'.rewinds = main.rewinds + 1 /\ main'.plan = "rewind"
        /\ main'.plan = "feed" => main.plan = "feed"
        /\ main'.plan \in {"feed", "drain"} => main.plan \in {"feed", "drain"}
        /\ main'.pc = "idle" => main'.err = None
        /\ Collecting' => \/ ~codec.cap /\ main'.pkt = 0 /\ ~Collecting
                             /\ main'.at = fctx.next_finished
                          \/ /\ Collecting /\ main'.pkt = main.pkt
                             /\ main'.at = main.at /\ main'.err = main.err
        /\ Collecting => Collecting'
    BY <1>3, <2>1
       DEF CallDoes, FeedDoes, EmptyDoes, UserContextFailDoes,
           SubmitNothingDoes, LockDoes, AwaitSetupDoes, ContextFailDoes,
           AwaitOutputDoes, Answers, Collects, MainGoes, MainIs, Collecting
  <2>4. RewindOK'
    BY <2>1, <2>2, <2>3, Numbers DEF RewindOK
  <2>5. ErrorKept'
    BY <2>3 DEF ErrorKept
  <2>6. ASSUME ~codec.cap
        PROVE  FailKept'
    <3>1. Span' = Span
      <4>1. Handed' <=> Handed
        BY <2>2, <2>3, <2>6 DEF Handed, Submits
      <4> QED
        BY <2>2, <4>1 DEF Span
    <3>2. Unreported' => Unreported \/ main'.plan = "rewind"
      BY <2>2, <2>3 DEF Unreported
    <3> QED
      BY <2>2, <2>3, <2>6, <3>1, <3>2 DEF Errors, FailKept, Failing, Dist
  <2>7. ASSUME ~codec.cap
        PROVE  PassedKept'
    <3>1. ASSUME Collecting', ~Collecting
          PROVE  \A u \in Threads : ~Passed(u)'
      <4>1. /\ main'.at = fctx.next_finished
            /\ fctx'.next_finished = fctx.next_finished
        BY <2>2, <2>3, <3>1
      <4>2. /\ Dist(fctx.next_finished, fctx.next_finished) = 0
            /\ \A u \in Threads : Dist(fctx.next_finished, u) \in 0 .. N - 1
        BY <2>1, DistIs
      <4>3. \A u \in Threads : ~(Dist(fctx.next_finished, u) < 0)
        BY <4>2, Numbers
      <4> QED
        BY <4>1, <4>2, <4>3 DEF Passed
    <3>2. ASSUME Collecting', Collecting
          PROVE  /\ main'.pkt = main.pkt /\ main'.err = main.err
                 /\ \A u \in Threads : Passed(u)' <=> Passed(u)
      BY <2>2, <2>3, <3>2 DEF Passed
    <3> QED
      BY <2>2, <2>7, <3>1, <3>2 DEF Errors, PassedKept
  <2> QED
    BY <2>2, <2>4, <2>5, <2>6, <2>7 DEF Errors
<1> QED
  BY <1>1, <1>2, <1>3

LEMMA ManageKeepsErrors ==
    ASSUME RingInv, Errors, ManageDoes
    PROVE  Errors'
<1>1. RewindOK /\ (main.pc = "create" => main.plan = "feed")
  BY DEF Errors, RingInv, CallerOK, CreateOK
<1>2. /\ codec' = codec /\ hist'.failed = hist.failed
      /\ main'.rewinds = main.rewinds /\ ~Collecting'
      /\ main'.plan = "rewind" => main.plan = "rewind"
      /\ main'.pc = "create" => main.pc = "create"
      /\ main'.pc = "idle" => main'.plan = "feed"
      /\ Running' => main.pc = "create" \/ main.plan = "rewind"
  BY <1>1
     DEF ManageDoes, CreateDoes, CreateFailDoes, CloseDoes, AwaitParkedDoes,
         ParkDoes, FlushDoes, DieDoes, KillDoes, JoinDoes, HistFault, HistIs,
         MainGoes, MainIs, Collecting, Calling, Running
<1>3. RewindOK'
  BY <1>1, <1>2 DEF RewindOK
<1>4. Running' => ~Unreported'
  BY <1>1, <1>2 DEF RewindOK, Unreported
<1> QED
  BY <1>2, <1>3, <1>4 DEF Errors, FailKept, PassedKept, ErrorKept

LEMMA InitErrors == Init => Errors
  BY DEF Init, Errors, RewindOK, FailKept, PassedKept, ErrorKept, Unreported,
         Collecting

LEMMA StutterKeepsErrors ==
    ASSUME Errors, UNCHANGED vars
    PROVE  Errors'
<1>1. UNCHANGED <<codec, main, fctx, th, prog, hist>>
  BY DEF vars
<1>2. /\ Running' <=> Running
      /\ Collecting' <=> Collecting
      /\ Span' = Span
      /\ \A t \in Threads : /\ Failing(t)' <=> Failing(t)
                            /\ Passed(t)' <=> Passed(t)
  BY <1>1 DEF Running, Calling, Collecting, Failing, Passed, Span, Handed, Submits
<1> QED
  BY <1>1, <1>2
     DEF Errors, RewindOK, FailKept, PassedKept, ErrorKept, Unreported, Dist

LEMMA ErrorsInductive ==
    RingInv /\ Flow /\ Drained /\ Errors /\ [Next]_vars => Errors'
  BY Steps, WorkerKeepsErrors, CallKeepsErrors, ManageKeepsErrors,
     StutterKeepsErrors

LEMMA ErrorsInvariant == Spec => []Errors
  BY RingInvariant, FlowInvariant, DrainedInvariant, InitErrors,
     ErrorsInductive, PTL DEF Spec

(* With a codec that has no delay a file with a broken packet never passes *)
(* for a sound one: drained without a seek, it has returned an error in    *)
(* some call.                                                              *)
THEOREM ErrorsReach == Spec => []ErrorKeptNoDelay
<1>1. Errors => ErrorKeptNoDelay
  BY DEF Errors, ErrorKeptNoDelay
<1> QED
  BY <1>1, ErrorsInvariant, PTL
=============================================================================

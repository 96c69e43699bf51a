---------------------------- MODULE FrameThreads ----------------------------
(***************************************************************************)
(* libavcodec/pthread_frame.c, the frame threads ffmpeg decodes an upload  *)
(* with: the caller hands packet k to one thread of a ring and takes the   *)
(* frame of an older packet from another.  Mutexes and condition variables *)
(* are those of the code: a thread sleeps until it is signalled, and then  *)
(* evaluates what it waits for again.                                      *)
(*                                                                         *)
(* ffmpeg sets thread_safe_callbacks (ffmpeg.c:2536), so no thread calls   *)
(* back into the caller for buffers and no release is delayed.             *)
(***************************************************************************)
EXTENDS Integers, Sequences, FiniteSets

CONSTANTS
    N,           \* thread_count
    MaxPackets,  \* bound: packets read from the file
    MaxRewinds,  \* bound: seeks back to the start (-stream_loop)
    Codecs,      \* the kinds of codec, see CodecType
    MaxFaults    \* bound: broken packets, failed allocations, empty wakeups

(* cap: AV_CODEC_CAP_DELAY, an empty packet asks for a frame held back;    *)
(* shared: it has update_thread_context; delay: the frames it reorders;    *)
(* early: 1 for FFV1, which gives up its delay a packet earlier.           *)
CodecType == [cap : BOOLEAN, shared : BOOLEAN, delay : Nat, early : {0, 1}]

ASSUME FrameAssumption ==
    /\ N \in Nat /\ N >= 2
    /\ MaxPackets \in Nat /\ MaxRewinds \in Nat /\ MaxFaults \in Nat
    /\ Codecs \subseteq CodecType
    /\ \A c \in Codecs : (c.delay > 0 => c.cap) /\ (c.cap => c.shared)

Threads == 0 .. N - 1
Packets == 1 .. MaxPackets
Frames  == 0 .. MaxPackets  \* 0: no frame, no packet
None == -1   \* no thread; and as an error: of no packet, memory ran out

VARIABLES
    codec,  \* the codec of the stream
    main,   \* the calling thread
    fctx,   \* FrameThreadContext
    th,     \* PerThreadContext of each thread, and where the thread is
    prog,   \* frame (0: none) -> its progress was reported to the end
    hist    \* history: what became of the packets and frames

vars == <<codec, main, fctx, th, prog, hist>>

FreshContext == [held |-> {}, last |-> 0]
FreshThread ==
    [pc |-> "none", state |-> "INPUT_READY", pkt |-> 0, ctx |-> FreshContext,
     ref |-> 0, out |-> 0, result |-> 0]
FreshRing ==
    [next_decoding |-> 0, next_finished |-> 0, delaying |-> TRUE,
     prev |-> None, die |-> FALSE]

Init ==
    /\ codec \in Codecs
    /\ main = [pc |-> "create", plan |-> "feed", sent |-> 0, rewinds |-> 0,
               made |-> N, pkt |-> 0, at |-> 0, err |-> 0, got |-> FALSE]
    /\ fctx = FreshRing
    /\ th = [t \in Threads |-> FreshThread]
    /\ prog = [k \in Frames |-> k = 0]
    /\ hist = [decoded |-> {}, returned |-> <<>>, lost |-> {},
               failed |-> {}, reported |-> {}, faults |-> 0]

Faulty == hist.faults < MaxFaults
WithFault == [hist EXCEPT !.faults = @ + 1]

Lowest(S) == CHOOSE k \in S : \A j \in S : k <= j
Only(k) == {k} \ {0}

----------------------------------------------------------------------------
(* Locks and signals.  A worker holds its mutex except while it sleeps on  *)
(* input_cond, and, being "woken", until it has the mutex (again); the     *)
(* caller holds that of the thread it submits to.                          *)
MainHolds(t) == main.pc \in {"prev", "prevAsleep"} /\ t = fctx.next_decoding
WorkerHolds(t) ==
    th[t].pc \in {"check", "setup", "decode", "starved", "finish"}

(* pthread_cond_broadcast of t's progress_cond: who awaits t's setup, and  *)
(* the workers that await the progress of t's frame.                       *)
MainOnProgress(t) ==
    IF main.pc = "prevAsleep" /\ fctx.prev = t
    THEN [main EXCEPT !.pc = "prev"] ELSE main
Broadcast(T, t) ==
    [u \in Threads |->
        IF T[u].pc = "starved" /\ T[u].ref = T[t].pkt
        THEN [T[u] EXCEPT !.pc = "decode"] ELSE T[u]]

(* Slip: only progress_cond is signalled when the work is done.            *)
MainOnOutputDeaf(t) == MainOnProgress(t)

(* ... and pthread_cond_signal of its output_cond as well.                 *)
MainOnOutput(t) ==
    CASE main.at = t /\ main.pc = "collectAsleep" -> [main EXCEPT !.pc = "collect"]
      [] main.at = t /\ main.pc = "parkAsleep" -> [main EXCEPT !.pc = "park"]
      [] OTHER -> MainOnProgress(t)

SignalInput(t) == IF th[t].pc = "wait" THEN "woken" ELSE th[t].pc

----------------------------------------------------------------------------
(* frame_worker_thread.                                                    *)

(* Holding its mutex, the worker looks at what input_cond stands for.      *)
Looks(t) == th[t].pc \in {"check", "woken"} /\ ~MainHolds(t)

Sleep(t) ==
    /\ Looks(t) /\ ~fctx.die /\ th[t].state = "INPUT_READY"
    /\ th' = [th EXCEPT ![t].pc = "wait"]
    /\ UNCHANGED <<codec, main, fctx, prog, hist>>

Exit(t) ==
    /\ Looks(t) /\ fctx.die
    /\ th' = [th EXCEPT ![t].pc = "exit"]
    /\ UNCHANGED <<codec, main, fctx, prog, hist>>

(* A packet is there: the old frame, if nobody took it, is released.       *)
Start(t) ==
    /\ Looks(t) /\ ~fctx.die /\ th[t].state # "INPUT_READY"
    /\ th' = [th EXCEPT ![t].pc = "setup", ![t].out = 0]
    /\ UNCHANGED <<codec, main, fctx, prog, hist>>

(* pthread_cond_wait may return without a signal.                          *)
Spurious(t) ==
    /\ Faulty
    /\ th[t].pc = "wait"
    /\ th' = [th EXCEPT ![t].pc = "woken"]
    /\ hist' = WithFault
    /\ UNCHANGED <<codec, main, fctx, prog>>

(* The part of codec->decode before ff_thread_finish_setup: the context    *)
(* that the next packet needs, and the frame to put out, are settled.  The *)
(* codec puts out the frame that is shown first (hevc_refs.c:187), which   *)
(* the model takes to be that of the oldest packet: with B frames the      *)
(* order differs, among the frames held back together.                     *)
SetupPacket(t) ==
    LET c == th[t].ctx
        k == th[t].pkt
        h == c.held \cup {k}
        o == IF Cardinality(h) > codec.delay THEN Lowest(h) ELSE 0
    IN
    /\ th[t].pc = "setup" /\ k # 0
    /\ th' = Broadcast([th EXCEPT
                ![t].pc = "decode", ![t].state = "SETUP_FINISHED",
                ![t].out = o,
                ![t].ref = IF codec.shared THEN c.last ELSE 0,
                ![t].ctx = IF codec.shared
                           THEN [held |-> h \ {o}, last |-> k] ELSE c], t)
    /\ main' = MainOnProgress(t)
    /\ hist' = [hist EXCEPT !.decoded = @ \cup {k}]
    /\ UNCHANGED <<codec, fctx, prog>>

(* The packet's headers are broken: the codec returns before its setup.    *)
SetupError(t) ==
    /\ th[t].pc = "setup" /\ th[t].pkt # 0
    /\ codec.shared /\ Faulty
    /\ th' = [th EXCEPT ![t].pc = "finish", ![t].result = th[t].pkt]
    /\ hist' = [WithFault EXCEPT !.failed = @ \cup {th[t].pkt}]
    /\ UNCHANGED <<codec, main, fctx, prog>>

(* Putting out a frame held back fails: it is dropped, and the packet with *)
(* it (hevc_refs.c:205).  A packet does so when enough frames are held, an *)
(* empty one always; the error of an empty one is named by the frame.      *)
OutputFail(t) ==
    LET c == th[t].ctx
        k == th[t].pkt
        o == Lowest(c.held)
        e == IF k = 0 THEN o ELSE k
    IN
    /\ Faulty
    /\ th[t].pc = "setup" /\ c.held # {}
    /\ k # 0 => Cardinality(c.held) >= codec.delay
    /\ th' = [th EXCEPT
                ![t].pc = "finish", ![t].result = e,
                ![t].ctx = [held |-> c.held \ {o}, last |-> c.last]]
    /\ hist' = [WithFault EXCEPT !.lost = @ \cup {o},
                                 !.failed = @ \cup {e}]
    /\ UNCHANGED <<codec, main, fctx, prog>>

(* An empty packet: a frame held back, if there is one.                    *)
SetupEmpty(t) ==
    LET c == th[t].ctx
        o == IF c.held = {} THEN 0 ELSE Lowest(c.held)
    IN
    /\ th[t].pc = "setup" /\ th[t].pkt = 0
    /\ th' = [th EXCEPT
                ![t].pc = "finish", ![t].out = o, ![t].result = 0,
                ![t].ctx = [held |-> c.held \ {o}, last |-> c.last]]
    /\ UNCHANGED <<codec, main, fctx, prog, hist>>

(* ff_thread_await_progress: the frame this one refers to is not there.    *)
AwaitProgress(t) ==
    /\ th[t].pc = "decode"
    /\ ~prog[th[t].ref]
    /\ th' = [th EXCEPT ![t].pc = "starved"]
    /\ UNCHANGED <<codec, main, fctx, prog, hist>>

(* Slip: a codec that gives up on a packet reports nothing.                *)
DecodeUnreported(t, ok) ==
    /\ th[t].pc = "decode" /\ prog[th[t].ref]
    /\ ok \/ Faulty
    /\ prog' = [prog EXCEPT ![th[t].pkt] = ok]
    /\ th' = Broadcast([th EXCEPT
                ![t].pc = "finish",
                ![t].out = IF ok THEN @ ELSE 0,
                ![t].result = IF ok THEN 0 ELSE th[t].pkt], t)
    /\ main' = MainOnProgress(t)
    /\ hist' = IF ok THEN hist
               ELSE [WithFault EXCEPT !.lost = @ \cup Only(th[t].out),
                                      !.failed = @ \cup {th[t].pkt}]
    /\ UNCHANGED <<codec, fctx>>

(* The rest of codec->decode, and its report to those who refer to it,     *)
(* which a codec makes on its error path too (hevc.c:2882).  On an error   *)
(* the frame that was to be put out is released.                           *)
Decode(t, ok) ==
    /\ th[t].pc = "decode"
    /\ prog[th[t].ref]
    /\ ok \/ Faulty
    /\ prog' = [prog EXCEPT ![th[t].pkt] = TRUE]
    /\ th' = Broadcast([th EXCEPT
                ![t].pc = "finish",
                ![t].out = IF ok THEN @ ELSE 0,
                ![t].result = IF ok THEN 0 ELSE th[t].pkt], t)
    /\ main' = MainOnProgress(t)
    /\ hist' = IF ok THEN hist
               ELSE [WithFault EXCEPT !.lost = @ \cup Only(th[t].out),
                                      !.failed = @ \cup {th[t].pkt}]
    /\ UNCHANGED <<codec, fctx>>

(* ff_thread_finish_setup for a codec that returned without calling it.    *)
FinishSetup(t) ==
    /\ th[t].pc = "finish" /\ th[t].state = "SETTING_UP"
    /\ th' = Broadcast([th EXCEPT ![t].state = "SETUP_FINISHED"], t)
    /\ main' = MainOnProgress(t)
    /\ UNCHANGED <<codec, fctx, prog, hist>>

Done(t) ==
    /\ th[t].pc = "finish" /\ th[t].state = "SETUP_FINISHED"
    /\ th' = Broadcast([th EXCEPT ![t].pc = "check",
                                  ![t].state = "INPUT_READY"], t)
    /\ main' = MainOnOutput(t)
    /\ UNCHANGED <<codec, fctx, prog, hist>>

Worker(t) ==
    \/ Sleep(t) \/ Exit(t) \/ Start(t)
    \/ SetupPacket(t) \/ SetupError(t) \/ SetupEmpty(t) \/ OutputFail(t)
    \/ AwaitProgress(t) \/ \E ok \in BOOLEAN : Decode(t, ok)
    \/ FinishSetup(t) \/ Done(t)

----------------------------------------------------------------------------
(* The caller: ff_thread_decode_frame, as ffmpeg's process_input_packet    *)
(* calls it.  plan says why: "feed" a packet, "drain" the codec at the end *)
(* of the file until it gives nothing more, or one empty packet before a   *)
(* seek back ("rewind") or before closing, the output being full ("last"). *)

(* The call returns.  got and err are what ffmpeg looks at next.           *)
Answer(m, got, err) ==
    [m EXCEPT !.got = got, !.err = err, !.at = 0,
              !.pc = IF m.plan \in {"rewind", "last"} THEN "park" ELSE "idle",
              !.plan = IF m.plan = "drain" /\ ~got THEN "ended" ELSE m.plan]

(* After the packet is handed over, f being the ring then: the first       *)
(* packets are answered without a frame.                                   *)
StillDelaying(f) == f.delaying /\ f.next_decoding <= N - 1 - codec.early
AfterSubmit(m, f) ==
    /\ fctx' = [f EXCEPT !.delaying = StillDelaying(f)]
    /\ main' = IF StillDelaying(f) /\ m.pkt # 0
               THEN Answer(m, FALSE, 0)
               ELSE [m EXCEPT !.pc = "collect", !.at = f.next_finished,
                              !.got = FALSE, !.err = 0]

Feed ==
    /\ main.pc = "idle" /\ main.plan = "feed"
    /\ main.sent < MaxPackets
    /\ main' = [main EXCEPT !.pc = "call", !.pkt = main.sent + 1,
                            !.sent = @ + 1]
    /\ UNCHANGED <<codec, fctx, th, prog, hist>>

(* The end of the file, a seek back, the output being full.                *)
Empty(plan) ==
    /\ main.pc = "idle"
    /\ \/ plan \in {"drain", "last"} /\ main.plan \in {"feed", "drain"}
       \/ plan = "rewind" /\ main.plan = "feed" /\ main.rewinds < MaxRewinds
    /\ main' = [main EXCEPT !.pc = "call", !.pkt = 0, !.plan = plan,
                            !.rewinds = IF plan = "rewind" THEN @ + 1 ELSE @]
    /\ UNCHANGED <<codec, fctx, th, prog, hist>>

(* update_context_from_user cannot allocate the slice offsets.             *)
UserContextFail ==
    /\ Faulty
    /\ main.pc = "call"
    /\ main' = Answer(main, FALSE, None)
    /\ hist' = WithFault
    /\ UNCHANGED <<codec, fctx, th, prog>>

(* submit_packet.  An empty packet is for codecs with a delay only.        *)
SubmitNothing ==
    /\ main.pc = "call"
    /\ main.pkt = 0 /\ ~codec.cap
    /\ AfterSubmit(main, fctx)
    /\ UNCHANGED <<codec, th, prog, hist>>

Lock ==
    /\ main.pc = "call" /\ ~WorkerHolds(fctx.next_decoding)
    /\ main.pkt # 0 \/ codec.cap
    /\ main' = [main EXCEPT !.pc = "prev"]
    /\ UNCHANGED <<codec, fctx, th, prog, hist>>

(* Slip: the context of the packet before is taken for settled.            *)
PrevNeverSettingUp == FALSE

PrevSettingUp == fctx.prev # None /\ th[fctx.prev].state = "SETTING_UP"

AwaitSetup ==
    /\ main.pc = "prev" /\ PrevSettingUp
    /\ main' = [main EXCEPT !.pc = "prevAsleep"]
    /\ UNCHANGED <<codec, fctx, th, prog, hist>>

(* update_thread_context fails: the packet is dropped.                     *)
ContextFail ==
    /\ Faulty
    /\ main.pc = "prev" /\ ~PrevSettingUp
    /\ fctx.prev # None /\ codec.shared
    /\ main' = Answer(main, FALSE, None)
    /\ hist' = WithFault
    /\ UNCHANGED <<codec, fctx, th, prog>>

Hand ==
    LET t == fctx.next_decoding IN
    /\ main.pc = "prev" /\ ~PrevSettingUp
    /\ th' = [th EXCEPT
                ![t].ctx = IF fctx.prev # None /\ codec.shared
                           THEN th[fctx.prev].ctx ELSE @,
                ![t].pkt = main.pkt, ![t].state = "SETTING_UP",
                ![t].pc = SignalInput(t)]
    /\ AfterSubmit(main, [fctx EXCEPT !.prev = t, !.next_decoding = @ + 1])
    /\ UNCHANGED <<codec, prog, hist>>

(* Taking the frame of the thread next_finished; when draining, of the     *)
(* first thread from there on that has one.                                *)
AwaitOutput ==
    /\ main.pc = "collect" /\ th[main.at].state # "INPUT_READY"
    /\ main' = [main EXCEPT !.pc = "collectAsleep"]
    /\ UNCHANGED <<codec, fctx, th, prog, hist>>

(* Slip: of the threads a drain passes only the last one is asked for its  *)
(* error.                                                                  *)
ErrorOfLast(o, e) == th[main.at].result

(* The error the call returns, o being the frame of the last thread it     *)
(* looked at and e the last error met.                                     *)
ErrorOf(o, e) == IF main.pkt = 0 /\ o = 0 THEN e ELSE th[main.at].result

(* Slip: a drained thread without a frame ends the drain.                  *)
GoesNever(o, next) == FALSE

Goes(o, next) == main.pkt = 0 /\ o = 0 /\ next # fctx.next_finished

(* Slip: got_frame stays set.                                              *)
TakenOnceMore(t) == th

Taken(t) == [th EXCEPT ![t].out = 0]

(* Slip: the ring is a row.                                                *)
AdvancedUnwrapped(next) == [fctx EXCEPT !.next_finished = next]

Advanced(next) ==
    [fctx EXCEPT !.next_decoding = @ % N, !.next_finished = next]

Collect ==
    LET t    == main.at
        o    == th[t].out
        e    == IF th[t].result # 0 THEN th[t].result ELSE main.err
        next == (t + 1) % N
    IN
    /\ main.pc = "collect" /\ th[t].state = "INPUT_READY"
    /\ th' = Taken(t)
    /\ IF Goes(o, next)
       THEN /\ main' = [main EXCEPT !.at = next, !.err = e]
            /\ UNCHANGED <<fctx, hist>>
       ELSE /\ main' = Answer(main, o # 0, ErrorOf(o, e))
            /\ fctx' = Advanced(next)
            /\ hist' = [hist EXCEPT
                          !.returned = IF o = 0 THEN @ ELSE Append(@, o),
                          !.reported = @ \cup Only(ErrorOf(o, e))]
    /\ UNCHANGED <<codec, prog>>

----------------------------------------------------------------------------
(* ff_frame_thread_init; what fails at thread i undoes the i before it.  A *)
(* new thread has its mutex to take before it looks at anything.           *)
Create ==
    /\ main.pc = "create"
    /\ th' = [th EXCEPT ![main.at].pc = "woken"]
    /\ main' = IF main.at + 1 = N
               THEN [main EXCEPT !.pc = "idle", !.at = 0]
               ELSE [main EXCEPT !.at = @ + 1]
    /\ UNCHANGED <<codec, fctx, prog, hist>>

CreateFail ==
    /\ Faulty
    /\ main.pc = "create"
    /\ main' = [main EXCEPT !.pc = "park", !.plan = "ended",
                            !.made = main.at + 1, !.at = 0]
    /\ hist' = WithFault
    /\ UNCHANGED <<codec, fctx, th, prog>>

(* ff_frame_thread_free, when the file is done.                            *)
Close ==
    /\ main.pc = "idle" /\ main.plan = "ended"
    /\ main' = [main EXCEPT !.pc = "park", !.at = 0]
    /\ UNCHANGED <<codec, fctx, th, prog, hist>>

(* park_frame_worker_threads.                                              *)
AwaitParked ==
    /\ main.pc = "park" /\ main.at < main.made
    /\ th[main.at].state # "INPUT_READY"
    /\ main' = [main EXCEPT !.pc = "parkAsleep"]
    /\ UNCHANGED <<codec, fctx, th, prog, hist>>

Park ==
    /\ main.pc = "park" /\ main.at < main.made
    /\ th[main.at].state = "INPUT_READY"
    /\ th' = [th EXCEPT ![main.at].out = 0]
    /\ hist' = [hist EXCEPT !.lost = @ \cup Only(th[main.at].out)]
    /\ main' = [main EXCEPT !.at = @ + 1]
    /\ UNCHANGED <<codec, fctx, prog>>

Held == IF fctx.prev = None THEN {} ELSE th[fctx.prev].ctx.held

(* Slip: the ring is not rewound for taking frames.                        *)
RewoundHalf == [FreshRing EXCEPT !.next_finished = fctx.next_finished]

Rewound == FreshRing

(* ff_thread_flush, every thread being parked.  What a codec holds back it *)
(* drops.                                                                  *)
Flush ==
    /\ main.pc = "park" /\ main.at = main.made /\ main.plan = "rewind"
    /\ th' = [t \in Threads |-> [th[t] EXCEPT !.ctx = FreshContext]]
    /\ hist' = [hist EXCEPT !.lost = @ \cup Held]
    /\ fctx' = Rewound
    /\ main' = [main EXCEPT !.pc = "idle", !.plan = "feed", !.at = 0]
    /\ UNCHANGED <<codec, prog>>

(* The rest of ff_frame_thread_free: die, and a thread after the other.    *)
Die ==
    /\ main.pc = "park" /\ main.at = main.made /\ main.plan # "rewind"
    /\ fctx' = [fctx EXCEPT !.die = TRUE]
    /\ main' = [main EXCEPT !.pc = "kill", !.at = 0]
    /\ UNCHANGED <<codec, th, prog, hist>>

Kill ==
    /\ main.pc = "kill" /\ ~WorkerHolds(main.at)
    /\ th' = [th EXCEPT ![main.at].pc = SignalInput(main.at)]
    /\ main' = [main EXCEPT !.pc = "join"]
    /\ UNCHANGED <<codec, fctx, prog, hist>>

Join ==
    /\ main.pc = "join" /\ th[main.at].pc \in {"none", "exit"}
    /\ main' = IF main.at + 1 = main.made
               THEN [main EXCEPT !.pc = "freed", !.at = 0]
               ELSE [main EXCEPT !.pc = "kill", !.at = @ + 1]
    /\ UNCHANGED <<codec, fctx, th, prog, hist>>

DecodeFrame ==
    \/ Feed \/ \E plan \in {"drain", "rewind", "last"} : Empty(plan)
    \/ UserContextFail \/ SubmitNothing \/ Lock
    \/ AwaitSetup \/ ContextFail \/ Hand
    \/ AwaitOutput \/ Collect

Manage ==
    \/ Create \/ CreateFail \/ Close
    \/ AwaitParked \/ Park \/ Flush \/ Die \/ Kill \/ Join

Main == DecodeFrame \/ Manage

Next == Main \/ \E t \in Threads : Worker(t) \/ Spurious(t)

(* The scheduler runs every thread that can run.  A thread that sleeps on  *)
(* a condition variable cannot, until it is signalled: returning without a *)
(* signal is possible, never promised.                                     *)
Spec ==
    /\ Init /\ [][Next]_vars
    /\ WF_vars(Main)
    /\ \A t \in Threads : WF_vars(Worker(t))

----------------------------------------------------------------------------
TypeOK ==
    /\ codec \in Codecs
    /\ main.pc \in {"create", "idle", "call", "prev", "prevAsleep", "collect",
                    "collectAsleep", "park", "parkAsleep", "kill", "join",
                    "freed"}
    /\ main.plan \in {"feed", "drain", "rewind", "last", "ended"}
    /\ main.sent \in Frames /\ main.pkt \in Frames
    /\ main.rewinds \in 0 .. MaxRewinds
    /\ main.made \in 1 .. N /\ main.at \in 0 .. N
    /\ main.err \in Frames \cup {None} /\ main.got \in BOOLEAN
    /\ fctx.next_decoding \in
         IF main.pc \in {"collect", "collectAsleep"} THEN 0 .. N ELSE Threads
    /\ fctx.next_finished \in Threads
    /\ fctx.delaying \in BOOLEAN /\ fctx.die \in BOOLEAN
    /\ fctx.prev \in Threads \cup {None}
    /\ th \in [Threads ->
         [pc : {"none", "check", "wait", "woken", "setup", "decode", "starved",
                "finish", "exit"},
          state : {"INPUT_READY", "SETTING_UP", "SETUP_FINISHED"},
          pkt : Frames, ref : Frames, out : Frames, result : Frames,
          ctx : [held : SUBSET Packets, last : Frames]]]
    /\ prog \in [Frames -> BOOLEAN]
    /\ hist.decoded \subseteq Packets /\ hist.lost \subseteq Packets
    /\ hist.failed \subseteq Packets /\ hist.reported \subseteq Packets
    /\ hist.returned \in Seq(Packets) /\ hist.faults \in 0 .. MaxFaults

(* The caller is given the frames in the order of the stream and none of   *)
(* them twice, whichever thread is done first, also when a drained thread  *)
(* is looked at again (the comment at pthread_frame.c:443).                *)
ReturnedInOrder ==
    \A i, j \in 1 .. Len(hist.returned) :
        i < j => hist.returned[i] < hist.returned[j]

(* Every frame whose decoding got past its headers is in exactly one place *)
(* - returned, waiting in a thread, held back by the codec, or lost to a   *)
(* broken packet or a flush: no thread is given a packet before its frame  *)
(* was taken, and no context is copied before it is settled.               *)
FramesConserved ==
    LET returned == {hist.returned[i] : i \in 1 .. Len(hist.returned)}
        waiting  == {t \in Threads : th[t].out # 0}
    IN
    /\ hist.decoded = returned \cup hist.lost \cup Held
                        \cup {th[t].out : t \in waiting}
    /\ Cardinality(hist.decoded) =
          Len(hist.returned) + Cardinality(hist.lost)
            + Cardinality(Held) + Cardinality(waiting)

(* The thread that gets the next packet is idle and its frame was taken:   *)
(* the caller writes to its context before it locks it                     *)
(* (pthread_frame.c:401).                                                  *)
SubmitsToIdle ==
    /\ main.pc \in {"call", "prev", "prevAsleep"}
    /\ main.pkt # 0 \/ codec.cap
    =>
        /\ th[fctx.next_decoding].state = "INPUT_READY"
        /\ th[fctx.next_decoding].out = 0

(* When an empty packet brings no frame, ffmpeg takes the file for done:   *)
(* then no thread works any more and no frame is left, in a thread or in   *)
(* the codec - unless memory ran out just then: in the call, or in the     *)
(* thread of that packet, whose codec then keeps what it holds back.       *)
EmptyFailed ==
    fctx.prev # None /\ th[fctx.prev].pkt = 0 /\ th[fctx.prev].result # 0
DrainComplete ==
    main.pc = "idle" /\ main.plan = "ended" /\ main.err # None =>
        /\ Held = {} \/ EmptyFailed
        /\ \A t \in Threads : th[t].out = 0 /\ th[t].state = "INPUT_READY"

(* A file with a broken packet never passes for a sound one: when it was   *)
(* drained without a seek, some call has returned an error.                *)
ErrorKept ==
    main.pc = "idle" /\ main.plan = "ended" /\ main.rewinds = 0 =>
        (hist.failed # {} => main.err = None \/ hist.reported # {})

(* That is so for codecs without a delay.                                  *)
ErrorKeptNoDelay == ~codec.cap => ErrorKept

(* pthread_frame.c:460-463: "When no frame was found while flushing, but   *)
(* an error occurred in any thread, return it instead of 0. Otherwise the  *)
(* error can get lost."  The same for every codec.                         *)
ClaimErrorKept == ErrorKept

(* Whoever sleeps on a condition variable still waits for something that   *)
(* is not there yet: no signal was sent between the look at a state and    *)
(* the sleep, and none was sent to another condition variable than the one *)
(* slept on.                                                               *)
NoSignalMissed ==
    /\ main.pc = "prevAsleep" => PrevSettingUp
    /\ main.pc \in {"collectAsleep", "parkAsleep"} =>
         th[main.at].state # "INPUT_READY"
    /\ \A t \in Threads :
         /\ th[t].pc = "wait" =>
              /\ th[t].state = "INPUT_READY"
              /\ ~ \/ main.pc = "freed"
                   \/ main.pc = "kill" /\ t < main.at
                   \/ main.pc = "join" /\ t <= main.at
         /\ th[t].pc = "starved" => ~prog[th[t].ref]

(* Until the decoder is closed the caller or some worker has a step of its *)
(* own to take, asleep neither on a condition variable nor on a mutex:     *)
(* nobody waits for a thread that waits for him, however many threads      *)
(* refer to each other's frames.                                           *)
MainCanRun ==
    /\ main.pc \notin {"prevAsleep", "collectAsleep", "parkAsleep"}
    /\ main.pc = "call" => ~WorkerHolds(fctx.next_decoding)
    /\ main.pc = "kill" => ~WorkerHolds(main.at)
    /\ main.pc = "join" => th[main.at].pc \in {"none", "exit"}
WorkerCanRun(t) ==
    \/ th[t].pc \in {"setup", "decode", "finish"}
    \/ Looks(t)
SomeoneCanRun ==
    main.pc = "freed" \/ MainCanRun \/ \E t \in Threads : WorkerCanRun(t)

(* Every call returns and closing the decoder ends: no signal is missed,   *)
(* nobody waits for a thread that waits for him, and a drain comes to an   *)
(* end.                                                                    *)
Closes == <>(main.pc = "freed")
=============================================================================

----------------------------- MODULE KlainSched -----------------------------
(***************************************************************************)
(* The goroutine scheduler of klain:sync (klainsync.c): machines (M, one   *)
(* OS thread each) run goroutines (G) taken from per-processor (P) rings   *)
(* and one global queue.  Machine m <= NProcs owns processor m; the        *)
(* machines above NProcs are the P-less rescue machines sysmon may start.  *)
(*                                                                         *)
(* A goroutine's body is abstracted to what it does to the scheduler: it   *)
(* parks on a set of channels, wakes a goroutine parked on a channel,      *)
(* blocks in a C call, reaches a safepoint, locks itself to its thread, or *)
(* returns.  Channel contents are KlainChan's business; here a channel is  *)
(* its mutex and the goroutines that wait on it.                           *)
(*                                                                         *)
(* Grain: one step per critical section.  A P mutex is a variable because  *)
(* a thief holds the victim's across several pushes; a channel mutex is    *)
(* one because a parking goroutine holds it across its context switch.     *)
(***************************************************************************)
EXTENDS Integers, SequencesExt

CONSTANTS
    Goroutines,  \* every goroutine the program may start
    NoG,         \* the null goroutine pointer
    NProcs,      \* ks_nprocs: GOMAXPROCS
    RescueCap,   \* ks_rescue_cap: rescue machines sysmon may start
    RunqCap,     \* KS_RUNQ_CAP: slots of a P's ring
    PollPeriod,  \* the global queue is polled first every PollPeriod-th time
    AgeCap,      \* bound: how far a run window is timed (see age)
    Chans,       \* the channels
    Lockers,     \* goroutines that run an event loop (LockOSThread)
    Blockers     \* goroutines that make blocking C calls

ASSUME SchedAssumption ==
    /\ NoG \notin Goroutines
    /\ NProcs \in Nat \ {0}
    /\ RescueCap \in Nat
    /\ RunqCap \in Nat \ {0}
    /\ PollPeriod \in Nat \ {0}
    /\ AgeCap \in 0..2
    /\ Lockers \subseteq Goroutines
    /\ Blockers \subseteq Goroutines

Procs == 1..NProcs
Machines == 1..(NProcs + RescueCap)
Nobody == 0                       \* no machine: a free mutex, an unlocked G
Main == 0                         \* the main thread, which is no machine

VARIABLES
    gq,       \* the global run queue
    rq,       \* rq[p]: processor p's ring, oldest first
    pmu,      \* pmu[p]: the machine holding p's mutex across steps
    status,   \* status[g]: KS_RUNNABLE..KS_DEAD, plus "new" and "freed"
    preempt,  \* preempt[g]: sysmon asks g to yield
    lockedM,  \* lockedM[g]: the machine g is locked to
    lockedG,  \* lockedG[m]: the goroutine m is locked to
    waitOn,   \* waitOn[g]: the channels whose queues hold g's live sudogs
    cmu,      \* cmu[c]: the machine holding c's mutex across a switch
    pc,       \* pc[m]: where machine m is in the scheduler loop
    cur,      \* cur[m]: the goroutine whose context is live on m
    hand,     \* hand[m]: a goroutine m holds outside every queue
    tick,     \* tick[m]: schedtick modulo PollPeriod
    vic,      \* vic[m]: the processor m looks at, or steals from
    left,     \* left[m]: goroutines m has still to take from vic[m]
    age,      \* age[m]: the run window, 0 fresh, 1 > 10ms, 2 > 20ms
    sys       \* sysmon's own state

vars == <<gq, rq, pmu, status, preempt, lockedM, lockedG, waitOn, cmu, pc,
          cur, hand, tick, vic, left, age, sys>>

Statuses == {"new", "runnable", "running", "waiting", "dead", "freed"}
PCs == {"off", "find", "pop", "global", "steal", "stealing", "park", "asleep",
        "woken", "run", "call", "drain", "switch", "unlock", "requeue", "reap"}

HasP(m) == m \in Procs
OnStack(m) == pc[m] \in {"run", "call", "drain", "switch"}

\* ks_init: the machines of the processors start their loops, sysmon starts.
Init ==
    /\ gq = <<>>
    /\ rq = [p \in Procs |-> <<>>]
    /\ pmu = [p \in Procs |-> Nobody]
    /\ status = [g \in Goroutines |-> "new"]
    /\ preempt = [g \in Goroutines |-> FALSE]
    /\ lockedM = [g \in Goroutines |-> Nobody]
    /\ lockedG = [m \in Machines |-> NoG]
    /\ waitOn = [g \in Goroutines |-> {}]
    /\ cmu = [c \in Chans |-> Nobody]
    /\ pc = [m \in Machines |-> IF HasP(m) THEN "find" ELSE "off"]
    /\ cur = [m \in Machines |-> NoG]
    /\ hand = [m \in Machines |-> NoG]
    /\ tick = [m \in Machines |-> 0]
    /\ vic = [m \in Machines |-> 0]
    /\ left = [m \in Machines |-> 0]
    /\ age = [m \in Machines |-> 0]
    /\ sys = [pc |-> "scan", i |-> 1, g |-> NoG, stuck |-> FALSE]

-----------------------------------------------------------------------------
(* Run-queue plumbing.                                                     *)

\* pthread_cond_signal on ks_gcond: one sleeper, any of them, is woken.
Signalled(npc) ==
    LET sleepers == {w \in Machines : npc[w] = "asleep"}
    IN  IF sleepers = {} THEN {npc} ELSE {[npc EXCEPT ![w] = "woken"] : w \in sleepers}

\* ks_global_push, in a step that otherwise leaves the machines at npc.
GlobalPush(g, npc) ==
    /\ gq' = Append(gq, g)
    /\ pc' \in Signalled(npc)

\* Mutants of Ready: a full ring drops g; the status is not set; a locked
\* goroutine is queued like any other.
ReadyDrops(m, g) ==
    /\ status' = [status EXCEPT ![g] = "runnable"]
    /\ HasP(m) => pmu[m] = Nobody
    /\ rq' = IF HasP(m) /\ Len(rq[m]) < RunqCap THEN [rq EXCEPT ![m] = Append(@, g)] ELSE rq
    /\ UNCHANGED <<gq, pc>>
ReadyKeepsStatus(m, g) ==
    /\ GlobalPush(g, pc)
    /\ UNCHANGED <<rq, status>>
ReadySharesLocked(m, g) ==
    /\ status' = [status EXCEPT ![g] = "runnable"]
    /\ GlobalPush(g, pc)
    /\ UNCHANGED rq

\* ks_ready(g) called on machine m, or on the main thread.
Ready(m, g) ==
    /\ status' = [status EXCEPT ![g] = "runnable"]
    /\ \/ /\ lockedM[g] # Nobody       \* only its own machine will run it
          /\ UNCHANGED <<gq, rq, pc>>
       \/ /\ lockedM[g] = Nobody
          /\ HasP(m) /\ pmu[m] = Nobody /\ Len(rq[m]) < RunqCap
          /\ rq' = [rq EXCEPT ![m] = Append(@, g)]
          /\ UNCHANGED <<gq, pc>>
       \/ /\ lockedM[g] = Nobody
          /\ HasP(m) => pmu[m] = Nobody /\ Len(rq[m]) = RunqCap
          /\ GlobalPush(g, pc)
          /\ UNCHANGED rq

\* ks_execute up to the switch: m's run window of g opens.
Execute(m, g) ==
    /\ pc' = [pc EXCEPT ![m] = "run"]
    /\ cur' = [cur EXCEPT ![m] = g]
    /\ status' = [status EXCEPT ![g] = "running"]
    /\ preempt' = [preempt EXCEPT ![g] = FALSE]
    /\ age' = [age EXCEPT ![m] = 0]

\* Run the global queue's head on m, if there is one.
ExecuteGlobal(m) ==
    /\ gq # <<>>
    /\ gq' = Tail(gq)
    /\ Execute(m, Head(gq))

Goto(m, label) == pc' = [pc EXCEPT ![m] = label]

-----------------------------------------------------------------------------
(* ks_findrunnable on machine m.                                           *)

\* Mutants of Find: the global queue is never polled first; the machine's own
\* ring is passed over.
FindWithoutPoll(m) ==
    /\ pc[m] = "find" /\ lockedG[m] = NoG
    /\ Goto(m, IF HasP(m) THEN "pop" ELSE "global")
    /\ UNCHANGED <<gq, rq, pmu, status, preempt, lockedM, lockedG, waitOn, cmu, cur,
                   hand, tick, vic, left, age, sys>>
FindStealsFirst(m) ==
    /\ pc[m] = "find" /\ lockedG[m] = NoG
    /\ Goto(m, "global")
    /\ UNCHANGED <<gq, rq, pmu, status, preempt, lockedM, lockedG, waitOn, cmu, cur,
                   hand, tick, vic, left, age, sys>>

\* The loop's head: every PollPeriod-th time the global queue goes first.
Find(m) ==
    /\ pc[m] = "find" /\ lockedG[m] = NoG
    /\ tick' = [tick EXCEPT ![m] = (@ + 1) % PollPeriod]
    /\ \/ tick'[m] = 0 /\ ExecuteGlobal(m)
       \/ /\ ~(tick'[m] = 0 /\ gq # <<>>)
          /\ Goto(m, IF HasP(m) THEN "pop" ELSE "global")
          /\ UNCHANGED <<gq, status, preempt, cur, age>>
    /\ UNCHANGED <<rq, pmu, lockedM, lockedG, waitOn, cmu, hand, vic, left, sys>>

\* A locked machine runs only its goroutine, once that is runnable.
FindLocked(m) ==
    /\ pc[m] = "find" /\ lockedG[m] # NoG
    /\ status[lockedG[m]] = "runnable"
    /\ Execute(m, lockedG[m])
    /\ UNCHANGED <<gq, rq, pmu, lockedM, lockedG, waitOn, cmu, hand, tick, vic, left, sys>>

\* Mutant of PopLocal: the ring's head is not advanced.
PopKeepsHead(m) ==
    /\ pc[m] = "pop" /\ pmu[m] = Nobody
    /\ IF rq[m] # <<>> THEN Execute(m, Head(rq[m]))
                       ELSE Goto(m, "global") /\ UNCHANGED <<status, preempt, cur, age>>
    /\ UNCHANGED <<gq, rq, pmu, lockedM, lockedG, waitOn, cmu, hand, tick, vic, left, sys>>

\* ks_p_pop on the machine's own ring.
PopLocal(m) ==
    /\ pc[m] = "pop" /\ pmu[m] = Nobody
    /\ \/ /\ rq[m] # <<>>
          /\ rq' = [rq EXCEPT ![m] = Tail(@)]
          /\ Execute(m, Head(rq[m]))
       \/ /\ rq[m] = <<>>
          /\ Goto(m, "global")
          /\ UNCHANGED <<rq, status, preempt, cur, age>>
    /\ UNCHANGED <<gq, pmu, lockedM, lockedG, waitOn, cmu, hand, tick, vic, left, sys>>

\* Then the global queue; then stealing, from processor 1 on.
PopGlobal(m) ==
    /\ pc[m] = "global"
    /\ \/ ExecuteGlobal(m) /\ UNCHANGED vic
       \/ /\ gq = <<>>
          /\ Goto(m, "steal")
          /\ vic' = [vic EXCEPT ![m] = 1]
          /\ UNCHANGED <<gq, status, preempt, cur, age>>
    /\ UNCHANGED <<rq, pmu, lockedM, lockedG, waitOn, cmu, hand, tick, left, sys>>

\* Half of the victim's ring, at least one of a non-empty ring.
StealCount(s) == IF Len(s) = 1 THEN 1 ELSE Len(s) \div 2

\* ks_p_steal's entry: look at vic[m]; lock it if there is something to take.
StealTry(m) ==
    /\ pc[m] = "steal"
    /\ \/ /\ vic[m] > NProcs
          /\ Goto(m, "park")
          /\ vic' = [vic EXCEPT ![m] = 0]
          /\ UNCHANGED <<pmu, left>>
       \/ /\ vic[m] \in Procs
          /\ \/ vic[m] = m
             \/ vic[m] # m /\ pmu[vic[m]] = Nobody /\ rq[vic[m]] = <<>>
          /\ vic' = [vic EXCEPT ![m] = @ + 1]
          /\ UNCHANGED <<pc, pmu, left>>
       \/ /\ vic[m] \in Procs \ {m}
          /\ pmu[vic[m]] = Nobody /\ rq[vic[m]] # <<>>
          /\ pmu' = [pmu EXCEPT ![vic[m]] = m]
          /\ left' = [left EXCEPT ![m] = StealCount(rq[vic[m]])]
          /\ Goto(m, "stealing")
          /\ UNCHANGED vic
    /\ UNCHANGED <<gq, rq, status, preempt, lockedM, lockedG, waitOn, cmu, cur, hand, tick, age, sys>>

\* Mutant of StealOne: every stolen goroutine becomes "the first".
StealKeepsLast(m) ==
    /\ pc[m] = "stealing" /\ left[m] > 0
    /\ hand' = [hand EXCEPT ![m] = Head(rq[vic[m]])]
    /\ rq' = [rq EXCEPT ![vic[m]] = Tail(@)]
    /\ left' = [left EXCEPT ![m] = @ - 1]
    /\ UNCHANGED <<gq, pmu, status, preempt, lockedM, lockedG, waitOn, cmu, pc, cur, tick, vic, age, sys>>

\* One turn of ks_p_steal's loop: the first goroutine stays in m's hand, the
\* others go to m's own ring (ks_p_push's answer is ignored: a full ring
\* drops the goroutine) or, from a P-less machine, to the global queue.
StealOne(m) ==
    /\ pc[m] = "stealing" /\ left[m] > 0
    /\ LET g == Head(rq[vic[m]])
           taken == [rq EXCEPT ![vic[m]] = Tail(@)]
       IN  \/ /\ hand[m] = NoG
              /\ hand' = [hand EXCEPT ![m] = g]
              /\ rq' = taken
              /\ UNCHANGED <<gq, pc>>
           \/ /\ hand[m] # NoG /\ HasP(m) /\ pmu[m] = Nobody
              /\ rq' = IF Len(taken[m]) < RunqCap
                       THEN [taken EXCEPT ![m] = Append(@, g)] ELSE taken
              /\ UNCHANGED <<gq, pc, hand>>
           \/ /\ hand[m] # NoG /\ ~HasP(m)
              /\ rq' = taken
              /\ GlobalPush(g, pc)
              /\ UNCHANGED hand
    /\ left' = [left EXCEPT ![m] = @ - 1]
    /\ UNCHANGED <<pmu, status, preempt, lockedM, lockedG, waitOn, cmu, cur, tick, vic, age, sys>>

\* ks_p_steal returns: the victim is unlocked and the first stolen G runs.
StealDone(m) ==
    /\ pc[m] = "stealing" /\ left[m] = 0
    /\ pmu' = [pmu EXCEPT ![vic[m]] = Nobody]
    /\ vic' = [vic EXCEPT ![m] = 0]
    /\ hand' = [hand EXCEPT ![m] = NoG]
    /\ Execute(m, hand[m])
    /\ UNCHANGED <<gq, rq, lockedM, lockedG, waitOn, cmu, tick, left, sys>>

\* Nothing found: take the global queue's head if one came, else wait on
\* ks_gcond (ks_idle counts the machines that do).
ParkM(m) ==
    /\ pc[m] = "park"
    /\ \/ ExecuteGlobal(m)
       \/ /\ gq = <<>>
          /\ Goto(m, "asleep")
          /\ UNCHANGED <<gq, status, preempt, cur, age>>
    /\ UNCHANGED <<rq, pmu, lockedM, lockedG, waitOn, cmu, hand, tick, vic, left, sys>>

\* pthread_cond_wait returns: ks_idle drops and the loop starts over.
Woken(m) ==
    /\ pc[m] = "woken"
    /\ Goto(m, "find")
    /\ UNCHANGED <<gq, rq, pmu, status, preempt, lockedM, lockedG, waitOn, cmu,
                   cur, hand, tick, vic, left, age, sys>>

\* A condition variable may wake its waiter for no reason.
SpuriousWake(m) ==
    /\ pc[m] = "asleep"
    /\ Goto(m, "woken")
    /\ UNCHANGED <<gq, rq, pmu, status, preempt, lockedM, lockedG, waitOn, cmu,
                   cur, hand, tick, vic, left, age, sys>>

-----------------------------------------------------------------------------
(* What a running goroutine does.                                          *)

\* klainsync_go, on a goroutine or on the main thread.
Go(g) ==
    /\ status[g] = "new"
    /\ status' = [status EXCEPT ![g] = "runnable"]
    /\ GlobalPush(g, pc)
    /\ UNCHANGED <<rq, pmu, preempt, lockedM, lockedG, waitOn, cmu, cur, hand,
                   tick, vic, left, age, sys>>

\* Mutant of Park: the mutexes are released before the switch.
ParkUnlocked(m, S) ==
    /\ pc[m] = "run"
    /\ \A c \in S : cmu[c] = Nobody
    /\ status' = [status EXCEPT ![cur[m]] = "waiting"]
    /\ waitOn' = [waitOn EXCEPT ![cur[m]] = S]
    /\ Goto(m, "switch")
    /\ UNCHANGED <<gq, rq, pmu, preempt, lockedM, lockedG, cmu, cur, hand, tick, vic, left, age, sys>>

\* ks_park / ks_park_all: g waits on the channels S, whose mutexes it holds
\* and leaves to the scheduler to release (S = {} is `select {}`).
Park(m, S) ==
    /\ pc[m] = "run"
    /\ \A c \in S : cmu[c] = Nobody
    /\ status' = [status EXCEPT ![cur[m]] = "waiting"]
    /\ waitOn' = [waitOn EXCEPT ![cur[m]] = S]
    /\ cmu' = [c \in Chans |-> IF c \in S THEN m ELSE cmu[c]]
    /\ Goto(m, "switch")
    /\ UNCHANGED <<gq, rq, pmu, preempt, lockedM, lockedG, cur, hand, tick, vic, left, age, sys>>

\* A send, receive or close on c, by m's goroutine or the main thread, that
\* dequeues g's sudog and readies g (its other sudogs turn stale).
Wake(m, c, g) ==
    /\ m # Main => pc[m] = "run"
    /\ cmu[c] = Nobody
    /\ status[g] = "waiting" /\ c \in waitOn[g]
    /\ waitOn' = [waitOn EXCEPT ![g] = {}]
    /\ Ready(m, g)
    /\ UNCHANGED <<pmu, preempt, lockedM, lockedG, cmu, cur, hand, tick, vic, left, age, sys>>

\* A blocking C call (fs, XMLHttpRequest): no safepoint until it returns.
EnterCall(m) ==
    /\ pc[m] = "run" /\ cur[m] \in Blockers
    /\ Goto(m, "call")
    /\ UNCHANGED <<gq, rq, pmu, status, preempt, lockedM, lockedG, waitOn, cmu,
                   cur, hand, tick, vic, left, age, sys>>

LeaveCall(m) ==
    /\ pc[m] = "call"
    /\ Goto(m, "run")
    /\ UNCHANGED <<gq, rq, pmu, status, preempt, lockedM, lockedG, waitOn, cmu,
                   cur, hand, tick, vic, left, age, sys>>

\* Mutant of Safepoint: the goroutine queues itself before it switches out.
YieldEnqueuesItself(m) ==
    /\ pc[m] = "run" /\ preempt[cur[m]]
    /\ preempt' = [preempt EXCEPT ![cur[m]] = FALSE]
    /\ status' = [status EXCEPT ![cur[m]] = "runnable"]
    /\ GlobalPush(cur[m], [pc EXCEPT ![m] = "switch"])
    /\ UNCHANGED <<rq, pmu, lockedM, lockedG, waitOn, cmu, cur, hand, tick, vic, left, age, sys>>

\* klainsync_safepoint with the flag set, then klainsync_gosched.
Safepoint(m) ==
    /\ pc[m] = "run" /\ preempt[cur[m]]
    /\ preempt' = [preempt EXCEPT ![cur[m]] = FALSE]
    /\ status' = [status EXCEPT ![cur[m]] = "runnable"]
    /\ Goto(m, "switch")
    /\ UNCHANGED <<gq, rq, pmu, lockedM, lockedG, waitOn, cmu, cur, hand, tick, vic, left, age, sys>>

\* Mutant of LockThread: the machine is not told.
LockHalf(m) ==
    /\ pc[m] = "run" /\ cur[m] \in Lockers
    /\ lockedM' = [lockedM EXCEPT ![cur[m]] = m]
    /\ Goto(m, IF HasP(m) THEN "drain" ELSE "run")
    /\ UNCHANGED <<gq, rq, pmu, status, preempt, lockedG, waitOn, cmu, cur, hand, tick, vic, left, age, sys>>

\* klainsync_lock_os_thread, at every entry of __kml_event_loop_run.
LockThread(m) ==
    /\ pc[m] = "run" /\ cur[m] \in Lockers
    /\ lockedM' = [lockedM EXCEPT ![cur[m]] = m]
    /\ lockedG' = [lockedG EXCEPT ![m] = cur[m]]
    /\ Goto(m, IF HasP(m) THEN "drain" ELSE "run")
    /\ UNCHANGED <<gq, rq, pmu, status, preempt, waitOn, cmu, cur, hand, tick, vic, left, age, sys>>

\* Its loop that hands the ring over, one goroutine a turn: a pop of the
\* ring, then a push on the global queue.
Drain(m) ==
    /\ pc[m] = "drain"
    /\ \/ /\ hand[m] = NoG /\ pmu[m] = Nobody /\ rq[m] # <<>>
          /\ rq' = [rq EXCEPT ![m] = Tail(@)]
          /\ hand' = [hand EXCEPT ![m] = Head(rq[m])]
          /\ UNCHANGED <<gq, pc>>
       \/ /\ hand[m] # NoG
          /\ GlobalPush(hand[m], pc)
          /\ hand' = [hand EXCEPT ![m] = NoG]
          /\ UNCHANGED rq
       \/ /\ hand[m] = NoG /\ pmu[m] = Nobody /\ rq[m] = <<>>
          /\ Goto(m, "run")
          /\ UNCHANGED <<gq, rq, hand>>
    /\ UNCHANGED <<pmu, status, preempt, lockedM, lockedG, waitOn, cmu, cur,
                   tick, vic, left, age, sys>>

\* The goroutine's body returns (ks_g_trampoline).
Finish(m) ==
    /\ pc[m] = "run"
    /\ status' = [status EXCEPT ![cur[m]] = "dead"]
    /\ Goto(m, "switch")
    /\ UNCHANGED <<gq, rq, pmu, preempt, lockedM, lockedG, waitOn, cmu, cur, hand,
                   tick, vic, left, age, sys>>

-----------------------------------------------------------------------------
(* ks_execute after the goroutine switched out.                            *)

\* Back on the scheduler's stack: the goroutine's context is saved, and how
\* it left decides which of the deferred duties is due.
SwitchOut(m) ==
    /\ pc[m] = "switch"
    /\ cur' = [cur EXCEPT ![m] = NoG]
    /\ LET s == status[cur[m]]
       IN  /\ Goto(m, CASE s = "dead" -> "reap" [] s = "runnable" -> "requeue" [] OTHER -> "unlock")
           /\ hand' = [hand EXCEPT ![m] = IF s \in {"dead", "runnable"} THEN cur[m] ELSE NoG]
    /\ UNCHANGED <<gq, rq, pmu, status, preempt, lockedM, lockedG, waitOn, cmu,
                   tick, vic, left, age, sys>>

\* The channel mutexes a parked goroutine left behind, one at a time.
ParkUnlock(m) ==
    /\ pc[m] = "unlock"
    /\ \/ \E c \in Chans :
             /\ cmu[c] = m
             /\ cmu' = [cmu EXCEPT ![c] = Nobody]
             /\ UNCHANGED pc
       \/ /\ \A c \in Chans : cmu[c] # m
          /\ Goto(m, "find")
          /\ UNCHANGED cmu
    /\ UNCHANGED <<gq, rq, pmu, status, preempt, lockedM, lockedG, waitOn, cur,
                   hand, tick, vic, left, age, sys>>

\* Mutant of Requeue: ready_after is read after it was cleared.
RequeueCleared(m) ==
    /\ pc[m] = "requeue"
    /\ hand' = [hand EXCEPT ![m] = NoG]
    /\ GlobalPush(hand'[m], [pc EXCEPT ![m] = "find"])
    /\ UNCHANGED <<rq, pmu, status, preempt, lockedM, lockedG, waitOn, cmu, cur,
                   tick, vic, left, age, sys>>

\* A goroutine that yielded goes to the back of the global queue; a locked
\* one stays with its machine.
Requeue(m) ==
    /\ pc[m] = "requeue"
    /\ \/ lockedM[hand[m]] = m /\ Goto(m, "find") /\ UNCHANGED gq
       \/ lockedM[hand[m]] # m /\ GlobalPush(hand[m], [pc EXCEPT ![m] = "find"])
    /\ hand' = [hand EXCEPT ![m] = NoG]
    /\ UNCHANGED <<rq, pmu, status, preempt, lockedM, lockedG, waitOn, cmu, cur,
                   tick, vic, left, age, sys>>

\* ks_g_free: a finished goroutine's stack and control block are released.
Reap(m) ==
    /\ pc[m] = "reap"
    /\ status' = [status EXCEPT ![hand[m]] = "freed"]
    /\ hand' = [hand EXCEPT ![m] = NoG]
    /\ Goto(m, "find")
    /\ UNCHANGED <<gq, rq, pmu, preempt, lockedM, lockedG, waitOn, cmu, cur, tick,
                   vic, left, age, sys>>

-----------------------------------------------------------------------------
(* Time and sysmon (ks_sysmon_main).                                       *)

\* Time passes while a goroutine keeps its machine.
Overrun(m) ==
    /\ HasP(m) /\ pc[m] \in {"run", "call", "drain"} /\ age[m] < AgeCap
    /\ age' = [age EXCEPT ![m] = @ + 1]
    /\ UNCHANGED <<gq, rq, pmu, status, preempt, lockedM, lockedG, waitOn, cmu,
                   pc, cur, hand, tick, vic, left, sys>>

\* Read one machine's current goroutine.
SysLoad ==
    /\ sys.pc = "scan" /\ sys.i <= NProcs
    /\ sys' = IF cur[sys.i] = NoG THEN [sys EXCEPT !.i = @ + 1]
              ELSE [sys EXCEPT !.g = cur[sys.i], !.pc = "flag"]
    /\ UNCHANGED <<gq, rq, pmu, status, preempt, lockedM, lockedG, waitOn, cmu,
                   pc, cur, hand, tick, vic, left, age>>

\* Then, through that pointer: skip a locked goroutine, flag one whose run
\* window is too long, note one the flag did not move.
SysFlag ==
    /\ sys.pc = "flag"
    /\ LET slow == lockedM[sys.g] = Nobody /\ age[sys.i] >= 1
           stuck == slow /\ age[sys.i] = 2
       IN  /\ preempt' = [preempt EXCEPT ![sys.g] = @ \/ slow]
           /\ sys' = [pc |-> "scan", i |-> sys.i + 1, g |-> NoG, stuck |-> sys.stuck \/ stuck]
    /\ UNCHANGED <<gq, rq, pmu, status, lockedM, lockedG, waitOn, cmu, pc, cur,
                   hand, tick, vic, left, age>>

Idle == {m \in Machines : pc[m] \in {"asleep", "woken"}}
WorkPending == gq # <<>> \/ \E p \in Procs : rq[p] # <<>>
\* Mutant of RescueDue: the cap is one too small.
RescueDueShort ==
    /\ sys.stuck /\ Idle = {} /\ WorkPending
    /\ \E r \in Machines : pc[r] = "off" /\ r + 1 \in Machines
RescueDue == sys.stuck /\ Idle = {} /\ WorkPending /\ \E r \in Machines : pc[r] = "off"

SysNext == [pc |-> "scan", i |-> 1, g |-> NoG, stuck |-> FALSE]

\* The scan is over and a rescue machine is due: pthread_create succeeds.
SysSpawn ==
    /\ sys.pc = "scan" /\ sys.i > NProcs /\ RescueDue
    /\ \E r \in Machines :
          /\ pc[r] = "off"
          /\ \A q \in Machines : pc[q] = "off" => r <= q
          /\ Goto(r, "find")
    /\ sys' = SysNext
    /\ UNCHANGED <<gq, rq, pmu, status, preempt, lockedM, lockedG, waitOn, cmu,
                   cur, hand, tick, vic, left, age>>

\* None is due, or pthread_create fails: sleep and scan again.
SysSleep ==
    /\ sys.pc = "scan" /\ sys.i > NProcs
    /\ sys' = SysNext
    /\ UNCHANGED <<gq, rq, pmu, status, preempt, lockedM, lockedG, waitOn, cmu,
                   pc, cur, hand, tick, vic, left, age>>

-----------------------------------------------------------------------------
FindStep(m) ==
    Find(m) \/ FindLocked(m) \/ PopLocal(m) \/ PopGlobal(m) \/ StealTry(m)
    \/ StealOne(m) \/ StealDone(m) \/ ParkM(m) \/ Woken(m)
LeaveStep(m) == SwitchOut(m) \/ ParkUnlock(m) \/ Requeue(m) \/ Reap(m)
BodyStep(m) ==
    \/ \E S \in SUBSET Chans : Park(m, S)
    \/ EnterCall(m) \/ LeaveCall(m) \/ LockThread(m) \/ Finish(m)
SysStep == SysLoad \/ SysFlag \/ SysSpawn \/ SysSleep

Next ==
    \/ \E m \in Machines :
          \/ FindStep(m) \/ LeaveStep(m) \/ BodyStep(m)
          \/ SpuriousWake(m) \/ Safepoint(m) \/ Drain(m) \/ Overrun(m)
    \/ \E m \in Machines \cup {Main}, c \in Chans, g \in Goroutines : Wake(m, c, g)
    \/ \E g \in Goroutines : Go(g)
    \/ SysStep

Spec == Init /\ [][Next]_vars

(* Every thread makes progress in the scheduler's own code, compiled code  *)
(* reaches a safepoint (function entries and loop back-edges have one),    *)
(* time passes, and a thread can be created if it is tried often enough.   *)
(* Nothing is assumed of what a goroutine's body does: it may spin, block  *)
(* in a call for ever or never wake the goroutines waiting for it.         *)
Fairness ==
    /\ \A m \in Machines :
          /\ WF_vars(FindStep(m)) /\ WF_vars(LeaveStep(m))
          /\ WF_vars(Safepoint(m)) /\ WF_vars(Drain(m)) /\ WF_vars(Overrun(m))
    /\ WF_vars(SysStep) /\ SF_vars(SysSpawn)

FairSpec == Spec /\ Fairness

-----------------------------------------------------------------------------
(* Properties.                                                             *)

\* Every queue slot, machine, mutex and hand holds a goroutine or a machine
\* of the program, or nothing: no null goroutine is ever queued.
TypeOK ==
    /\ gq \in Seq(Goroutines)
    /\ rq \in [Procs -> Seq(Goroutines)]
    /\ pmu \in [Procs -> Machines \cup {Nobody}]
    /\ status \in [Goroutines -> Statuses]
    /\ preempt \in [Goroutines -> BOOLEAN]
    /\ lockedM \in [Goroutines -> Machines \cup {Nobody}]
    /\ lockedG \in [Machines -> Goroutines \cup {NoG}]
    /\ waitOn \in [Goroutines -> SUBSET Chans]
    /\ cmu \in [Chans -> Machines \cup {Nobody}]
    /\ pc \in [Machines -> PCs]
    /\ cur \in [Machines -> Goroutines \cup {NoG}]
    /\ hand \in [Machines -> Goroutines \cup {NoG}]
    /\ tick \in [Machines -> 0..(PollPeriod - 1)]
    /\ vic \in [Machines -> 0..(NProcs + 1)]
    /\ left \in [Machines -> Nat]
    /\ age \in [Machines -> 0..AgeCap]
    /\ sys \in [pc : {"scan", "flag"}, i : 1..(NProcs + 1),
                g : Goroutines \cup {NoG}, stuck : BOOLEAN]

\* Where a goroutine is: the places that hold a pointer somebody may run it
\* through, or its live context.
InGlobal(g) == g \in ToSet(gq)
InRing(p, g) == g \in ToSet(rq[p])
Queued(g) == InGlobal(g) \/ \E p \in Procs : InRing(p, g)
OnMachine(m, g) == cur[m] = g \/ hand[m] = g

Distinct(s) == \A i, j \in DOMAIN s : s[i] = s[j] => i = j

\* No goroutine is ever in two places: twice in a queue, in two queues,
\* queued while its context is still live on a machine, or live on two
\* machines.  This is what the deferred unlocks and the deferred ready of
\* ks_execute are for (the double run its comments speak of).
OnePlace ==
    /\ Distinct(gq) /\ \A p \in Procs : Distinct(rq[p])
    /\ \A g \in Goroutines :
          /\ \A p \in Procs : InRing(p, g) => ~InGlobal(g)
          /\ \A p, q \in Procs : InRing(p, g) /\ InRing(q, g) => p = q
          /\ \A m, n \in Machines : OnMachine(m, g) /\ OnMachine(n, g) => m = n
          /\ \A m \in Machines : OnMachine(m, g) => ~Queued(g)

\* A runnable goroutine is always somewhere: in a queue, in the hands of a
\* machine, or waited for by the one machine it is locked to.  No push is
\* dropped (ks_p_steal ignores ks_p_push's answer) and no hand-over loses it.
NotLost ==
    \A g \in Goroutines :
       status[g] = "runnable" =>
          \/ Queued(g)
          \/ \E m \in Machines : OnMachine(m, g)
          \/ lockedM[g] # Nobody /\ lockedG[lockedM[g]] = g

\* What is queued is runnable: a queue never holds a goroutine that waits,
\* runs, or whose memory was released.
QueuedRunnable == \A g \in Goroutines : Queued(g) => status[g] = "runnable"

\* A goroutine locked to its thread never migrates: no shared queue holds
\* it and no other machine ever touches it.
LockedStaysPut ==
    \A g \in Goroutines : lockedM[g] # Nobody =>
       /\ ~Queued(g)
       /\ \A m \in Machines : OnMachine(m, g) => m = lockedM[g]

\* Two thieves never wait for each other: ks_p_steal takes its own ring's
\* mutex while it holds the victim's, in no order of addresses.
WantsOwnRing(m) == pc[m] = "stealing" /\ left[m] > 0 /\ hand[m] # NoG /\ HasP(m)
NoStealCycle ==
    \A m, n \in Procs :
       ~(m # n /\ WantsOwnRing(m) /\ WantsOwnRing(n) /\ pmu[m] = n /\ pmu[n] = m)

\* A goroutine made runnable runs: the scheduler starves none, whatever the
\* others do (the poll of the global queue, preemption, FIFO rings).
ReadyRuns == \A g \in Goroutines : status[g] = "runnable" ~> status[g] # "runnable"

\* A goroutine in the global queue is taken by some machine, even when every
\* processor's machine is blocked in a call: sysmon starts a rescue machine.
GlobalServed == \A g \in Goroutines : InGlobal(g) ~> ~InGlobal(g)

=============================================================================

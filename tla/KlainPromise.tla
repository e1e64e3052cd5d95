---------------------------- MODULE KlainPromise ----------------------------
(***************************************************************************)
(* The promise runtime of a compiled program: promises and their reaction  *)
(* lists (settle.c, adopt.c, defer.c, finally.c, the runners the emitter   *)
(* generates), the coroutines of async functions (task.c) and the three    *)
(* queues of a checkpoint (microtask.c).                                   *)
(*                                                                         *)
(* One thread owns all of it, so each operation is a function from the     *)
(* runtime's state s to its next one; PromiseRun composes them.  Promises  *)
(* are numbers, a task is named by its promise, and a value or a reason is *)
(* named by the promise whose creation, callback or body made it.          *)
(***************************************************************************)
EXTENDS Integers, Sequences, SequencesExt

CONSTANT MaxProms          \* bound: promises a program creates

Ids == 1..MaxProms

Pending == 0               \* the STATE word of a promise
Fulfilled == 1
Rejected == 2

NoTask == 0                \* __kml_current_task is null
NoClosure == [fn |-> "none"]

NewPromise == [st |-> Pending, val |-> 0, rx |-> <<>>,
               handled |-> FALSE, queued |-> FALSE]

(* mt, tq, unh: the queues; ph: where the drain stands; run: the closure   *)
(* whose callback is on the stack; cur: the current task, prev: the ones   *)
(* its spawners put back.                                                  *)
InitRt ==
    [prom |-> [p \in Ids |-> NewPromise],
     mt |-> <<>>, tq |-> <<>>, unh |-> <<>>, ph |-> "jobs", run |-> NoClosure,
     task |-> [t \in Ids |-> [st |-> "none", on |-> 0]],
     comb |-> [q \in Ids |-> [kind |-> "none", left |-> 0]],
     cur |-> NoTask, prev |-> <<>>]

-----------------------------------------------------------------------------
(* Settling                                                                *)

Enqueue(s, c) == [s EXCEPT !.mt = Append(@, c)]

MarkHandled(s, p) == [s EXCEPT !.prom[p].handled = TRUE]

(* A rejection nothing consumes waits for the checkpoint's report. *)
NoteRejected(s, p) ==
    LET pr == s.prom[p] IN
    IF pr.handled \/ pr.queued \/ pr.rx # <<>>
    THEN s
    ELSE [s EXCEPT !.prom[p].queued = TRUE, !.unh = Append(@, p)]

(* The list is newest first; its reactions become jobs oldest first. *)
DrainReactions(s, p) ==
    LET n == IF s.prom[p].st = Rejected THEN NoteRejected(s, p) ELSE s IN
    [n EXCEPT !.prom[p].rx = <<>>, !.mt = @ \o Reverse(n.prom[p].rx)]

(* The generated runners and the task epilogue store the outcome without   *)
(* looking at the state.                                                   *)
Store(s, p, st, v) == [s EXCEPT !.prom[p].st = st, !.prom[p].val = v]

StoreValue(s, p, v) == [s EXCEPT !.prom[p].val = v]

Settle(s, p, st) ==
    IF s.prom[p].st # Pending
    THEN s
    ELSE LET t == [s EXCEPT !.prom[p].st = st]
         IN  DrainReactions(IF st = Rejected THEN NoteRejected(t, p) ELSE t, p)

RejectWith(s, p, v) ==
    IF s.prom[p].st # Pending THEN s ELSE Settle(StoreValue(s, p, v), p, Rejected)

(* A call of an executor's resolve with a plain value. *)
ResolveThunk(s, p, v) ==
    IF s.prom[p].st # Pending THEN s ELSE Settle(StoreValue(s, p, v), p, Fulfilled)

-----------------------------------------------------------------------------
(* Reactions                                                               *)

\* Mutant: the list takes the reaction whether or not p has settled.
AttachAlwaysWaits(s, p, c) ==
    [MarkHandled(s, p) EXCEPT !.prom[p].rx = <<c>> \o @]

Attach(s, p, c) ==
    LET m == MarkHandled(s, p) IN
    IF s.prom[p].st # Pending
    THEN Enqueue(m, c)
    ELSE [m EXCEPT !.prom[p].rx = <<c>> \o @]

(* p.then / p.catch: on is the set of outcomes that have a callback. *)
Then(s, p, q, on) == Attach(s, p, [fn |-> "then", p |-> p, q |-> q, on |-> on])

Finally(s, p, q) == Attach(s, p, [fn |-> "finally", p |-> p, q |-> q])

Adopt(s, q, h) == Enqueue(s, [fn |-> "adopt_job", q |-> q, h |-> h])

AdoptJob(s, c) == Attach(s, c.h, [fn |-> "adopt_settle", q |-> c.q, h |-> c.h])

AdoptSettle(s, c) ==
    Settle(StoreValue(s, c.q, s.prom[c.h].val), c.q, s.prom[c.h].st)

DeferSettle(s, q, st, hops) ==
    Enqueue(s, [fn |-> "defer_step", q |-> q, st |-> st, hops |-> hops])

DeferStep(s, c) ==
    IF c.hops > 1
    THEN Enqueue(s, [c EXCEPT !.hops = @ - 1])
    ELSE Settle(s, c.q, c.st)

(* onFinally's promise r has settled: its rejection, or else the source's  *)
(* outcome, one more job later.                                            *)
FinallyStep(s, c) ==
    IF s.prom[c.r].st = Rejected
    THEN DeferSettle(StoreValue(s, c.q, s.prom[c.r].val), c.q, Rejected, 1)
    ELSE DeferSettle(StoreValue(s, c.q, c.val), c.q, c.st, 1)

(* A then-runner without a callback for its source's outcome. *)
PassThrough(s, c) ==
    DrainReactions(Store(s, c.q, s.prom[c.p].st, s.prom[c.p].val), c.q)

(* How a callback of the running reaction ends: the runner's tail, or      *)
(* __kml_then_guard for a throw.                                           *)

\* Mutant: finally's result takes one job, as a then's pass-through would.
CallbackReturnsEarly(s, v) ==
    LET c == s.run
        q == c.q
    IN  IF c.fn = "finally"
        THEN DeferSettle(StoreValue(s, q, s.prom[c.p].val), q, s.prom[c.p].st, 1)
        ELSE DrainReactions(Store(s, q, Fulfilled, v), q)

CallbackReturns(s, v) ==
    LET c == s.run
        q == c.q
    IN  IF c.fn = "finally"
        THEN DeferSettle(StoreValue(s, q, s.prom[c.p].val), q, s.prom[c.p].st, 2)
        ELSE DrainReactions(Store(s, q, Fulfilled, v), q)

CallbackThrows(s, v) == RejectWith(s, s.run.q, v)

\* A finally waits for what its callback returns where the callback's type
\* says it is a promise, as the programs' callbacks do.
CallbackReturnsPromise(s, h) ==
    LET c == s.run IN
    IF c.fn = "finally"
    THEN Attach(s, h, [fn |-> "finally_step", q |-> c.q, r |-> h,
                       st |-> s.prom[c.p].st, val |-> s.prom[c.p].val])
    ELSE Adopt(s, c.q, h)

-----------------------------------------------------------------------------
(* Promise.all, allSettled, any and race                                   *)

CombFinish(s, q) ==
    IF s.comb[q].kind = "any"
    THEN RejectWith(s, q, q)
    ELSE Settle(StoreValue(s, q, q), q, Fulfilled)

CountDown(s, q) ==
    LET d == [s EXCEPT !.comb[q].left = @ - 1]
    IN  IF d.comb[q].left = 0 THEN CombFinish(d, q) ELSE d

CombRunner(s, c) ==
    LET q == c.q
        m == s.prom[c.p]
        kind == s.comb[q].kind
    IN  CASE s.prom[q].st # Pending -> s
          [] s.prom[q].st = Pending /\ m.st = Rejected ->
                IF kind \in {"all", "race"} THEN RejectWith(s, q, m.val)
                                            ELSE CountDown(s, q)
          [] OTHER ->
                IF kind \in {"all", "allSettled"}
                THEN CountDown(s, q)
                ELSE Settle(StoreValue(s, q, m.val), q, Fulfilled)

(* The loop over the members, of which there are none or two (a bound). *)
Combinator(s, kind, q, members) ==
    LET start == [s EXCEPT !.comb[q] = [kind |-> kind, left |-> Len(members)]]
        Join(t, p) == Attach(t, p, [fn |-> "comb", p |-> p, q |-> q])
    IN  CASE members # <<>> -> Join(Join(start, members[1]), members[2])
          [] members = <<>> /\ kind # "race" -> CombFinish(start, q)
          [] OTHER -> start

-----------------------------------------------------------------------------
(* Async functions                                                         *)

(* The caller runs the body to its first await, and is the current task    *)
(* again after it.                                                         *)
SpawnTask(s, t) ==
    [s EXCEPT !.task[t].st = "running", !.cur = t, !.prev = Append(@, s.cur)]

\* Mutant: the drain does not forget the task it resumed.
SwapOutKeeps(s) ==
    IF s.prev = <<>>
    THEN s
    ELSE [s EXCEPT !.cur = Last(s.prev), !.prev = Front(@)]

(* The switch back: to the spawner, or to the drain that resumed the task. *)
SwapOut(s) ==
    IF s.prev = <<>>
    THEN [s EXCEPT !.cur = NoTask]
    ELSE [s EXCEPT !.cur = Last(s.prev), !.prev = Front(@)]

TaskFinish(s, v) ==
    LET t == s.cur IN
    SwapOut(DrainReactions(Store([s EXCEPT !.task[t].st = "done"],
                                 t, Fulfilled, v), t))

TaskReject(s, v) ==
    LET t == s.cur IN
    SwapOut(DrainReactions(NoteRejected(Store([s EXCEPT !.task[t].st = "done"],
                                              t, Rejected, v), t), t))

(* The body returned a promise: the task's own stays pending. *)
TaskAdopted(s, h) ==
    LET t == s.cur IN
    SwapOut([Adopt(s, t, h) EXCEPT !.task[t].st = "done"])

AwaitReady(s, p) ==
    LET t == s.cur IN
    SwapOut([Attach(s, p, [fn |-> "resume", t |-> t])
               EXCEPT !.task[t] = [st |-> "parked", on |-> p]])

(* The fresh promise an awaited plain value gets is fulfilled already. *)
AwaitPlain(s) ==
    LET t == s.cur IN
    SwapOut([Enqueue(s, [fn |-> "resume", t |-> t])
               EXCEPT !.task[t] = [st |-> "parked", on |-> 0]])

TaskResume(s, t) == [s EXCEPT !.task[t].st = "running", !.cur = t]

-----------------------------------------------------------------------------
(* A checkpoint: q_drain of each queue, then the unhandled rejections      *)

(* The top level of the entry module ended: the jobs it queued come first. *)
AfterModule(s) == [s EXCEPT !.ph = "jobs"]

(* __kml_drain_microtasks after a callback of the event loop. *)
AfterMacrotask(s) == [s EXCEPT !.ph = "ticks"]

Draining(s) == s.ph \in {"jobs", "mt"} /\ s.mt # <<>>

(* The queue being drained is empty: what the drain turns to. *)
NextPhase(s) ==
    CASE s.ph = "jobs" -> "ticks"
      [] s.ph = "ticks" -> "mt"
      [] s.ph = "mt" -> IF s.tq # <<>> THEN "ticks" ELSE "unh"
      [] OTHER -> "idle"

(* A closure that calls no code of the program. *)
IsSilent(s, c) ==
    CASE c.fn = "then" -> s.prom[c.p].st \notin c.on
      [] c.fn \in {"finally", "resume", "queued"} -> FALSE
      [] OTHER -> TRUE

RunSilent(s, c) ==
    CASE c.fn = "then" -> PassThrough(s, c)
      [] c.fn = "defer_step" -> DeferStep(s, c)
      [] c.fn = "finally_step" -> FinallyStep(s, c)
      [] c.fn = "adopt_job" -> AdoptJob(s, c)
      [] c.fn = "adopt_settle" -> AdoptSettle(s, c)
      [] c.fn = "comb" -> CombRunner(s, c)

(* What the program sees of the drain: its code entered, a rejection       *)
(* reported, nothing left; "none" while silent work comes first.           *)
Event(k, id, st, v) == [k |-> k, id |-> id, st |-> st, val |-> v]
NoEvent == Event("none", 0, 0, 0)

JobEvent(s, c) ==
    CASE c.fn = "then" -> Event("then", c.q, s.prom[c.p].st, s.prom[c.p].val)
      [] c.fn = "finally" -> Event("finally", c.q, 0, 0)
      [] c.fn = "queued" -> Event("queued", c.n, 0, 0)
      [] c.fn = "resume" ->
            LET p == s.task[c.t].on IN
            IF p = 0 THEN Event("task", c.t, Fulfilled, 0)
                     ELSE Event("task", c.t, s.prom[p].st, s.prom[p].val)

ReportEvent(s, p) ==
    IF s.prom[p].handled THEN NoEvent
    ELSE Event("report", p, s.prom[p].st, s.prom[p].val)

RtEvent(s) ==
    CASE Draining(s) ->
            IF IsSilent(s, Head(s.mt)) THEN NoEvent ELSE JobEvent(s, Head(s.mt))
      [] s.ph = "ticks" /\ s.tq # <<>> -> Event("tick", Head(s.tq), 0, 0)
      [] s.ph = "unh" /\ s.unh # <<>> -> ReportEvent(s, Head(s.unh))
      [] s.ph = "idle" -> Event("idle", 0, 0, 0)
      [] OTHER -> NoEvent

(* One silent step of the drain. *)
RtSilent(s) ==
    CASE Draining(s) -> RunSilent([s EXCEPT !.mt = Tail(@)], Head(s.mt))
      [] s.ph = "unh" /\ s.unh # <<>> -> [s EXCEPT !.unh = Tail(@)]
      [] OTHER -> [s EXCEPT !.ph = NextPhase(s)]

(* The drain enters the program's code. *)
RtCall(s) ==
    IF s.ph = "ticks"
    THEN [s EXCEPT !.tq = Tail(@)]
    ELSE LET c == Head(s.mt)
             popped == [s EXCEPT !.mt = Tail(@), !.run = c]
         IN  IF c.fn = "resume" THEN TaskResume(popped, c.t) ELSE popped

RtReturned(s) == [s EXCEPT !.run = NoClosure]

NextTick(s, id) == [s EXCEPT !.tq = Append(@, id)]

QueueMicrotask(s, n) == Enqueue(s, [fn |-> "queued", n |-> n])

=============================================================================

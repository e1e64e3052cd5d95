----------------------------- MODULE JsPromises -----------------------------
(***************************************************************************)
(* What ECMAScript (its PromiseReactionJob, NewPromiseResolveThenableJob,  *)
(* Await and the combinators) and Node (its tick queue and its processing  *)
(* of unhandled rejections) say of the operations KlainPromise implements. *)
(* The runtime's comments name both as what it has to match; this is the   *)
(* reference it is compared with.                                          *)
(*                                                                         *)
(* A reaction is [k, d, ...]: its kind and the promise it settles.  A job  *)
(* is a reaction with the outcome it was triggered by.                     *)
(***************************************************************************)
EXTENDS Integers, Sequences, SequencesExt

CONSTANT MaxProms

JsIds == 1..(2 * MaxProms)

(* The promise finally's callback wrapper returns, which d is resolved     *)
(* with: no program names it.                                              *)
Inner(d) == MaxProms + d

(* mode: the queue being run, "jobs" for the top level of a module (itself *)
(* a job) and "ticks" after a callback of the event loop.                  *)
InitJs ==
    [prom |-> [p \in JsIds |-> [st |-> 0, val |-> 0, rx |-> <<>>, handled |-> FALSE]],
     jobs |-> <<>>, ticks |-> <<>>, unh |-> <<>>, mode |-> "jobs",
     call |-> [k |-> "none"],
     comb |-> [d \in 1..MaxProms |-> [kind |-> "none", left |-> 0]]]

-----------------------------------------------------------------------------
(* FulfillPromise and RejectPromise, and the host's tracking of rejections *)
JsSettle(s, p, st, v) ==
    LET pr == s.prom[p] IN
    IF pr.st # 0
    THEN s
    ELSE [s EXCEPT
            !.prom[p] = [@ EXCEPT !.st = st, !.val = v, !.rx = <<>>],
            !.jobs = @ \o [i \in 1..Len(pr.rx) |->
                              [pr.rx[i] EXCEPT !.st = st, !.val = v]],
            !.unh = IF st = 2 /\ ~pr.handled THEN Append(@, p) ELSE @]

Reaction(k, d, on, keep) ==
    [k |-> k, d |-> d, on |-> on, keep |-> keep, st |-> 0, val |-> 0]

Plain == <<0, 0>>

(* PerformPromiseThen *)
JsAttach(s, p, r) ==
    LET pr == s.prom[p]
        h == [s EXCEPT !.prom[p].handled = TRUE]
    IN  IF pr.st = 0
        THEN [h EXCEPT !.prom[p].rx = Append(@, r)]
        ELSE [h EXCEPT !.jobs = Append(@, [r EXCEPT !.st = pr.st, !.val = pr.val])]

JsThen(s, p, d, on) == JsAttach(s, p, Reaction("then", d, on, Plain))

JsFinally(s, p, d) == JsAttach(s, p, Reaction("finally", d, {}, Plain))

(* A resolve function called with a promise h: NewPromiseResolveThenableJob *)
JsResolveWith(s, d, h) ==
    [s EXCEPT !.jobs = Append(@, [Reaction("thenable", d, {}, Plain) EXCEPT !.val = h])]

JsAwait(s, t, p) == JsAttach(s, p, Reaction("task", t, {}, Plain))

JsAwaitPlain(s, t) ==
    [s EXCEPT !.jobs = Append(@, [Reaction("task", t, {}, Plain) EXCEPT !.st = 1])]

(* The wrapper of finally's callback: PromiseResolve of what it returned,  *)
(* then a function that gives back the source's outcome; d is resolved     *)
(* with the promise of that.                                               *)
GivesBack(j) == Reaction("thunk", Inner(j.d), {}, <<j.st, j.val>>)

JsCallReturns(s, v) ==
    LET j == s.call
        resolved == [GivesBack(j) EXCEPT !.st = 1]
    IN  IF j.k = "finally"
        THEN JsResolveWith([s EXCEPT !.jobs = Append(@, resolved)], j.d, Inner(j.d))
        ELSE JsSettle(s, j.d, 1, v)

JsCallThrows(s, v) == JsSettle(s, s.call.d, 2, v)

JsCallReturnsPromise(s, h) ==
    LET j == s.call IN
    IF j.k = "finally"
    THEN JsResolveWith(JsAttach(s, h, GivesBack(j)), j.d, Inner(j.d))
    ELSE JsResolveWith(s, j.d, h)

-----------------------------------------------------------------------------
(* The combinators: one reaction for each member, in order; there are none *)
(* or two (a bound).                                                       *)
JsCombinator(s, kind, d, members) ==
    LET start == [s EXCEPT !.comb[d] = [kind |-> kind, left |-> Len(members)]]
        Join(t, p) == JsAttach(t, p, Reaction("member", d, {}, Plain))
    IN  CASE members # <<>> -> Join(Join(start, members[1]), members[2])
          [] members = <<>> /\ kind = "race" -> start
          [] members = <<>> /\ kind = "any" -> JsSettle(start, d, 2, d)
          [] OTHER -> JsSettle(start, d, 1, d)

(* The outcomes of a member that decide the result at once; the others are *)
(* counted, and the last one settles it.                                   *)
Decides(kind) ==
    CASE kind = "all" -> {2} [] kind = "any" -> {1}
      [] kind = "race" -> {1, 2} [] kind = "allSettled" -> {}

JsMember(s, j) ==
    LET c == s.comb[j.d]
        counted == [s EXCEPT !.comb[j.d].left = @ - 1]
    IN  CASE j.st \in Decides(c.kind) -> JsSettle(s, j.d, j.st, j.val)
          [] j.st \notin Decides(c.kind) /\ c.left > 1 -> counted
          [] OTHER -> JsSettle(counted, j.d, IF c.kind = "any" THEN 2 ELSE 1, j.d)

-----------------------------------------------------------------------------
(* Jobs that call no code of the program *)
JsSilentJob(j) ==
    \/ j.k = "then" /\ j.st \notin j.on
    \/ j.k \in {"thenable", "adopt", "thunk", "member"}

JsRun(s, j) ==
    CASE j.k = "then" -> JsSettle(s, j.d, j.st, j.val)
      [] j.k = "thenable" -> JsAttach(s, j.val, Reaction("adopt", j.d, {}, Plain))
      [] j.k = "adopt" -> JsSettle(s, j.d, j.st, j.val)
      [] j.k = "thunk" ->
            IF j.st = 1 THEN JsSettle(s, j.d, j.keep[1], j.keep[2])
                        ELSE JsSettle(s, j.d, 2, j.val)
      [] j.k = "member" -> JsMember(s, j)

(* A queue once begun is emptied before the other one has its turn. *)
Mode(s) ==
    LET queue == [jobs |-> s.jobs, ticks |-> s.ticks]
        other == IF s.mode = "jobs" THEN "ticks" ELSE "jobs"
    IN  CASE queue[s.mode] # <<>> -> s.mode
          [] queue[s.mode] = <<>> /\ queue[other] # <<>> -> other
          [] OTHER -> "rejections"

(* Where the rejections nobody handles are in the queue. *)
Unreported(s) == {i \in 1..Len(s.unh) : ~s.prom[s.unh[i]].handled}

JsEvent(s) ==
    LET Ev(k, id, st, v) == [k |-> k, id |-> id, st |-> st, val |-> v]
        j == Head(s.jobs)
    IN  CASE Mode(s) = "jobs" /\ JsSilentJob(j) -> Ev("none", 0, 0, 0)
          [] Mode(s) = "jobs" /\ ~JsSilentJob(j) ->
                IF j.k = "finally" THEN Ev("finally", j.d, 0, 0)
                                   ELSE Ev(j.k, j.d, j.st, j.val)
          [] Mode(s) = "ticks" -> Ev("tick", Head(s.ticks), 0, 0)
          [] OTHER ->
                IF Unreported(s) = {} THEN Ev("idle", 0, 0, 0)
                ELSE LET i == CHOOSE x \in Unreported(s) : \A y \in Unreported(s) : x <= y
                         p == s.unh[i]
                     IN  Ev("report", p, 2, s.prom[p].val)

JsSilent(s) ==
    JsRun([s EXCEPT !.jobs = Tail(@), !.mode = "jobs"], Head(s.jobs))

JsCall(s) ==
    IF Mode(s) = "ticks"
    THEN [s EXCEPT !.ticks = Tail(@), !.mode = "ticks"]
    ELSE [s EXCEPT !.jobs = Tail(@), !.mode = "jobs", !.call = Head(s.jobs)]

JsReturned(s) == [s EXCEPT !.call = [k |-> "none"]]

JsTick(s, id) == [s EXCEPT !.ticks = Append(@, id)]

JsQueueMicrotask(s, n) ==
    [s EXCEPT !.jobs = Append(@, Reaction("queued", n, {}, Plain))]

(* A callback of the event loop begins: the last checkpoint's rejections   *)
(* are settled for good.                                                   *)
JsMacrotask(s) == [s EXCEPT !.mode = "ticks", !.unh = <<>>]

=============================================================================

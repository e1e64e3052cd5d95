----------------------------- MODULE PromiseRun -----------------------------
(***************************************************************************)
(* A program's promises and async functions, run by the compiled program's *)
(* runtime (KlainPromise) beside what ECMAScript and Node say of them      *)
(* (JsPromises).  The program is any one: at every moment its running code *)
(* may do any operation the budget allows, on any promise it has created.  *)
(*                                                                         *)
(* stack holds the program's running code, innermost last: the script (the *)
(* module's top level, later a callback of the event loop), a then or      *)
(* finally callback, a tick, or an async function's body, which may lie on *)
(* top of its caller.  When it is empty both machines work off their       *)
(* queues, each to the next thing the program can see.                     *)
(***************************************************************************)
EXTENDS KlainPromise, FiniteSets

CONSTANTS
    Deferred,    \* promises 1..Deferred are new Promise, their executor's
                 \* resolving functions kept by the program
    MaxOps,      \* bound: operations of the program
    Rounds,      \* bound: how often the program's clock re-queues itself
    Kinds        \* the combinators the program uses

ASSUME PromiseAssumption ==
    /\ Deferred \in Nat
    /\ MaxProms \in Nat
    /\ MaxOps \in Nat
    /\ Rounds \in Nat
    /\ MaxProms >= Deferred + MaxOps
    /\ Kinds \subseteq {"all", "allSettled", "any", "race"}

Js == INSTANCE JsPromises

VARIABLES
    es,      \* the promises as ECMAScript and Node have them
    rt,      \* the promises of the compiled program
    stack,   \* the program's running code
    made,    \* the promises created so far are 1..made
    ops,     \* operations left
    turned   \* the event loop has run its callback

vars == <<es, rt, stack, made, ops, turned>>

Known == 1..made
New == made + 1
Script == [k |-> "script", id |-> 0]
Running == stack # <<>>
Top == Last(stack)

(* The script starts with a microtask that queues itself again and again:  *)
(* a clock that makes the number of jobs an operation takes visible.       *)
(* Promise 1 may have been resolved by its executor.                       *)
Init ==
    /\ \/ /\ es = Js!JsQueueMicrotask(Js!InitJs, Rounds)
          /\ rt = QueueMicrotask(InitRt, Rounds)
       \/ /\ Deferred > 0
          /\ es = Js!JsQueueMicrotask(Js!JsSettle(Js!InitJs, 1, 1, 1), Rounds)
          /\ rt = QueueMicrotask(ResolveThunk(InitRt, 1, 1), Rounds)
    /\ stack = <<Script>>
    /\ made = Deferred
    /\ ops = MaxOps
    /\ turned = FALSE

-----------------------------------------------------------------------------
(* Operations of the running code *)

Do(js, rtm, creates) ==
    /\ Running
    /\ ops > 0
    /\ es' = js
    /\ rt' = rtm
    /\ made' = made + creates
    /\ ops' = ops - 1
    /\ UNCHANGED <<stack, turned>>

CallThen(p, on) == Do(Js!JsThen(es, p, New, on), Then(rt, p, New, on), 1)

CallFinally(p) == Do(Js!JsFinally(es, p, New), Finally(rt, p, New), 1)

CallResolve(p) == Do(Js!JsSettle(es, p, 1, p), ResolveThunk(rt, p, p), 0)

CallReject(p) == Do(Js!JsSettle(es, p, 2, p), RejectWith(rt, p, p), 0)

CallCombinator(kind, members) ==
    Do(Js!JsCombinator(es, kind, New, members),
       Combinator(rt, kind, New, members), 1)

CallNextTick == Do(Js!JsTick(es, ops), NextTick(rt, ops), 0)

(* A call of an async function: its body begins on top of its caller. *)
CallAsync ==
    /\ Running
    /\ ops > 0
    /\ rt' = SpawnTask(rt, New)
    /\ stack' = Append(stack, [k |-> "task", id |-> New])
    /\ made' = New
    /\ ops' = ops - 1
    /\ UNCHANGED <<es, turned>>

-----------------------------------------------------------------------------
(* How running code ends *)

Leave(js, rtm) ==
    /\ es' = js
    /\ rt' = rtm
    /\ stack' = Front(stack)
    /\ UNCHANGED <<made, turned>>

EndScript ==
    /\ Running
    /\ Top.k = "script"
    /\ Leave(es, IF turned THEN AfterMacrotask(rt) ELSE AfterModule(rt))
    /\ UNCHANGED ops

EndTick ==
    /\ Running
    /\ Top.k = "tick"
    /\ Leave(es, rt)
    /\ UNCHANGED ops

InCallback == Running /\ Top.k \in {"then", "finally"}
InTask == Running /\ Top.k = "task"

CallbackReturn ==
    /\ InCallback
    /\ Leave(Js!JsReturned(Js!JsCallReturns(es, Top.id)),
             RtReturned(CallbackReturns(rt, Top.id)))
    /\ UNCHANGED ops

CallbackThrow ==
    /\ InCallback
    /\ Leave(Js!JsReturned(Js!JsCallThrows(es, Top.id)),
             RtReturned(CallbackThrows(rt, Top.id)))
    /\ UNCHANGED ops

CallbackReturnPromise(h) ==
    /\ InCallback
    /\ h # Top.id
    /\ Leave(Js!JsReturned(Js!JsCallReturnsPromise(es, h)),
             RtReturned(CallbackReturnsPromise(rt, h)))
    /\ UNCHANGED ops

AsyncReturn ==
    /\ InTask
    /\ Leave(Js!JsSettle(es, Top.id, 1, Top.id), TaskFinish(rt, Top.id))
    /\ UNCHANGED ops

AsyncThrow ==
    /\ InTask
    /\ Leave(Js!JsSettle(es, Top.id, 2, Top.id), TaskReject(rt, Top.id))
    /\ UNCHANGED ops

AsyncReturnPromise(h) ==
    /\ InTask
    /\ h # Top.id
    /\ Leave(Js!JsResolveWith(es, Top.id, h), TaskAdopted(rt, h))
    /\ UNCHANGED ops

Await(p) ==
    /\ InTask
    /\ ops > 0
    /\ Leave(Js!JsAwait(es, Top.id, p), AwaitReady(rt, p))
    /\ ops' = ops - 1

AwaitValue ==
    /\ InTask
    /\ ops > 0
    /\ Leave(Js!JsAwaitPlain(es, Top.id), AwaitPlain(rt))
    /\ ops' = ops - 1

-----------------------------------------------------------------------------
(* The queues *)

JsBusy == Js!JsEvent(es).k = "none"
RtBusy == RtEvent(rt).k = "none"

(* A machine takes a silent step, the runtime before ECMAScript: neither    *)
(* looks at the other.                                                     *)
QueueStep ==
    /\ ~Running
    /\ \/ RtBusy /\ rt' = RtSilent(rt) /\ UNCHANGED es
       \/ ~RtBusy /\ JsBusy /\ es' = Js!JsSilent(es) /\ UNCHANGED rt
    /\ UNCHANGED <<stack, made, ops, turned>>

AtRest == ~Running /\ ~JsBusy /\ ~RtBusy

(* A callback, a tick or a suspended body is entered. *)
Enter ==
    /\ AtRest
    /\ RtEvent(rt).k \in {"then", "finally", "task", "tick"}
    /\ es' = Js!JsCall(es)
    /\ rt' = RtCall(rt)
    /\ stack' = <<[k |-> RtEvent(rt).k, id |-> RtEvent(rt).id]>>
    /\ UNCHANGED <<made, ops, turned>>

(* The clock's microtask: it queues itself again. *)
ClockRound ==
    /\ AtRest
    /\ RtEvent(rt).k = "queued"
    /\ LET n == RtEvent(rt).id
           js == Js!JsReturned(Js!JsCall(es))
           rtm == RtReturned(RtCall(rt))
       IN  /\ es' = IF n > 1 THEN Js!JsQueueMicrotask(js, n - 1) ELSE js
           /\ rt' = IF n > 1 THEN QueueMicrotask(rtm, n - 1) ELSE rtm
    /\ UNCHANGED <<stack, made, ops, turned>>

(* Nothing is left: the event loop runs the program's timer callback. *)
Macrotask ==
    /\ AtRest
    /\ RtEvent(rt).k = "idle"
    /\ ~turned
    /\ ops > 0
    /\ es' = Js!JsQueueMicrotask(Js!JsMacrotask(es), Rounds)
    /\ rt' = QueueMicrotask(rt, Rounds)
    /\ stack' = <<Script>>
    /\ turned' = TRUE
    /\ UNCHANGED <<made, ops>>

Members == {<<>>} \cup {m \in Known \X Known : m[1] < m[2]}

Next ==
    \/ \E p \in Known :
          \/ \E st \in {Fulfilled, Rejected} : CallThen(p, {st})
          \/ CallFinally(p)
          \/ CallbackReturnPromise(p)
          \/ AsyncReturnPromise(p)
          \/ Await(p)
    \/ \E p \in 1..Deferred : CallResolve(p) \/ CallReject(p)
    \/ \E kind \in Kinds, members \in Members : CallCombinator(kind, members)
    \/ CallNextTick
    \/ CallAsync
    \/ EndScript
    \/ EndTick
    \/ CallbackReturn
    \/ CallbackThrow
    \/ AsyncReturn
    \/ AsyncThrow
    \/ AwaitValue
    \/ QueueStep
    \/ Enter
    \/ ClockRound
    \/ Macrotask

Spec == Init /\ [][Next]_vars

-----------------------------------------------------------------------------
(* Every closure waits in the queue (list 0) or on the list of a promise,  *)
(* here in the order they will run.                                        *)
List(p) == IF p = 0 THEN rt.mt ELSE Reverse(rt.prom[p].rx)
Held == UNION {{<<p, i>> : i \in DOMAIN List(p)} : p \in 0..MaxProms}
Closure(x) == List(x[1])[x[2]]

(* The promise a reaction reads when it runs; 0: none. *)
Source(c) ==
    CASE c.fn \in {"then", "finally", "comb"} -> c.p
      [] c.fn = "adopt_settle" -> c.h
      [] c.fn = "finally_step" -> c.r
      [] c.fn = "resume" -> rt.task[c.t].on
      [] OTHER -> 0

Settles(c, q) == c.fn \notin {"none", "resume", "queued"} /\ c.q = q

-----------------------------------------------------------------------------
(* Properties *)

(* The words of the runtime stay in their ranges: a promise's STATE is 0,  *)
(* 1 or 2, the current task is null or a task that is running, and the     *)
(* queue of unhandled rejections holds promises.                           *)
TypeOK ==
    /\ \A p \in Ids :
          /\ rt.prom[p].st \in {Pending, Fulfilled, Rejected}
          /\ rt.prom[p].val \in 0..MaxProms
          /\ rt.prom[p].handled \in BOOLEAN
          /\ rt.task[p].st \in {"none", "running", "parked", "done"}
          /\ rt.comb[p].left \in 0..2
    /\ rt.cur # NoTask => rt.task[rt.cur].st = "running"
    /\ rt.unh \in Seq(Ids)
    /\ made \in 0..MaxProms
    /\ ops \in 0..MaxOps

(* The compiled program calls the same code next as ECMAScript and Node    *)
(* do, with the same outcome: reactions, resumed bodies, ticks and reports *)
(* of unhandled rejections come in the same order whatever chains,         *)
(* finallys, adoptions, awaits and combinators race.  (adopt.c, finally.c  *)
(* and microtask.c each claim it for their part.)                          *)
SameOrder == AtRest => RtEvent(rt) = Js!JsEvent(es)

(* A reaction on a list waits for that promise, which is pending; one in   *)
(* the queue has a settled source, as the runners take for granted (they   *)
(* read every state but 1 as a rejection).                                 *)
SourcesReady ==
    /\ \A p \in Ids : \A i \in 1..Len(rt.prom[p].rx) :
          Source(rt.prom[p].rx[i]) = p /\ rt.prom[p].st = Pending
    /\ \A i \in 1..Len(rt.mt) :
          Source(rt.mt[i]) # 0 => rt.prom[Source(rt.mt[i])].st # Pending

(* A suspended body has exactly one closure that resumes it, and no other  *)
(* task has any.                                                           *)
ResumedOnce ==
    LET held == Held IN
    \A t \in Ids :
        Cardinality({x \in held : Closure(x).fn = "resume" /\ Closure(x).t = t})
          = (IF rt.task[t].st = "parked" THEN 1 ELSE 0)

(* A pending promise that a call made, rather than new Promise, has        *)
(* exactly one thing that will settle it: a closure, the callback on the   *)
(* stack or the body of its function; a combinator has one closure for     *)
(* each member still to come.                                              *)
OneSettler ==
    LET held == Held IN
    \A q \in (Deferred + 1)..made :
        LET closures == {x \in held : Settles(Closure(x), q)}
            running == Settles(rt.run, q) \/ rt.task[q].st \in {"running", "parked"}
        IN  rt.prom[q].st = Pending =>
              IF rt.comb[q].kind # "none"
              THEN Cardinality(closures) >= rt.comb[q].left
              ELSE Cardinality(closures) + (IF running THEN 1 ELSE 0) = 1

(* Nothing of the promise runtime is forgotten or done twice: closures lie *)
(* where they will run, suspended bodies are resumed once, and every       *)
(* promise of a chain has one thing that settles it.                       *)
NothingForgotten == SourcesReady /\ ResumedOnce /\ OneSettler

=============================================================================

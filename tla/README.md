# KlainMainLang: a TLA+ model of its runtime and of its compiled control flow

KlainMainLang compiles TypeScript to native code. The compiler is a pipeline of
passes written in Go; the program it produces is linked with a runtime written
in C (`codegen/llvm/*src/`) and a library written in TypeScript (`lib/node/`).
Two sides of it are hard to test and are what this project models. The runtime
is where threads meet: goroutines on a work-stealing scheduler, channels and
`select`, event loops, a thread pool, Workers and MessagePorts; and where promise
jobs, ticks and suspended functions meet on one thread. And the compiler
is where the ways out of a statement meet: `finally`, exceptions, jumps,
iterator closing and automatic frees multiply, and the binder derives facts from
a flow graph that must hold on every path.

| module | what it is |
|---|---|
| `KlainSched` | the goroutine scheduler (`klainsync.c`: M, P, G, sysmon) |
| `KlainSchedProofs` | its types, the thieves' locks and where goroutines are, proved |
| `MCKlainSched`, `MCKlainSteal` | its instances for TLC |
| `ChanSpec` | what channels and `select` promise |
| `KlainChan` | how `klainsync.c` implements them |
| `KlainChanProofs` | wait queues, matches and locks, and that `KlainChan` implements `ChanSpec`, proved |
| `MCKlainChan` | its instances for TLC |
| `KlainPort` | loop ports, thread pool, MessagePort and Worker (`klainpool.c`, `worker_threads.ts`) |
| `KlainPortSteps`, `KlainPortProofs` | hold counts, notifications and a Worker's events, proved: the invariant under the natives and the steps of a port, under the rest |
| `MCKlainPort` | its instances for TLC |
| `KlainPromise` | promises, microtasks and async functions (`microtask.c`, `settle.c`, `adopt.c`, `defer.c`, `finally.c`, `task.c`, `emit_promise_*.go`) |
| `JsPromises` | what ECMAScript and Node say of them |
| `PromiseRun` | the two running side by side under any program |
| `PromiseProofs` | nothing of the promise runtime is forgotten or done twice, proved |
| `PromiseSim`, `PromiseSteps`, `PromiseOrder` | the compiled program runs the same code next as ECMAScript and Node, proved: the simulation, what keeps it, the order that follows |
| `KmlStatements` | the statements of a function body (`ast/nodes.go`) |
| `JsSemantics` | what ECMAScript says a body does |
| `EmitFlow` | the code the emitter makes of it (`codegen/llvm/emit_*.go`) |
| `BinderFlow` | the binder's flow graph and what is asked of it (`binder/`) |
| `FallThrough` | `emit_fallthrough.go` |
| `CompiledFunction` | what the four say of one function body |
| `CompiledRun` | the compiled code running beside ECMAScript |
| `FlowPrograms`, `MCFlow` | the programs it is checked on |

`PROJECT.json` maps every definition to the lines it models.

## 1. Inventory

### The parts that keep state between steps

**Goroutine scheduler** (`klainsyncsrc/klainsync.c` 80-574, 1120-1340).
State: a global FIFO queue; a ring of `KS_RUNQ_CAP` goroutines per processor (P)
with a mutex; machines (M, an OS thread each) with their current goroutine, the
goroutine they are locked to and the duties they owe after a switch
(`park_unlock`, `ready_after`); per goroutine a status, a preempt flag and the
machine it is locked to; sysmon's scan. Operations: `klainsync_go`, `ks_ready`,
`ks_findrunnable` (poll, pop, steal, sleep), `ks_execute`, `ks_park(_all)`,
`klainsync_safepoint`/`gosched`, `klainsync_lock_os_thread`, sysmon. Hard: every
queue is shared; a goroutine is visible to wakers before its context is saved;
a thief nests two ring mutexes; sysmon reads pointers it does not own. Correct
when: no goroutine runs twice or is lost; a locked one never migrates; no lock
cycle; what is runnable runs.

**Channels and select** (`klainsync.c` 576-1095, `lib/node/klain_sync.ts`).
State per channel: mutex, ring, `closed`, two queues of wait nodes (sudogs) that
live in their caller's frame; per select a group with the case that `won`.
Operations: send, receive, close, select, default. Hard: a select waits on many
channels whose wakers race to claim it; mutexes are let go by the scheduler,
after the switch, one by one; a close wakes its waiters while other channels
claim them. Correct when: each operation takes effect once, on one case, at one
instant; nobody waits for what is there; no wait node outlives its frame; no
lock cycle.

**Promises, microtasks, async tasks** (`microtasksrc/`, `promisesrc/`,
`promiseadoptsrc/`, `tasksrc/`). State: the tick and job queues, promise states
and reactions, the coroutines that await them. Hard: re-entrant draining, jobs
that queue jobs, thenables adopted later, rejections reported at the checkpoint
unless handled by then. Correct when: a promise settles once, reactions run once
and in order, ticks go before jobs, each unhandled rejection is reported once.

**Event loop and timers** (`loopsrc/loop.c`, `timerssrc/timers.c`). State: the
holds that keep a loop alive, phase callbacks, the deadline list. Hard: a loop
must end exactly when nothing holds it; timers cleared or re-armed by callbacks.

**Thread pool and loop ports** (`threadpoolsrc/klainpool.c`). State: a work
queue with pool threads, a lock-free stack of completions per loop, a count of
operations in flight that other threads change. Hard: a completion pushed
between the drain and the loop's decision to end; order through the reversal of
the stack.

**MessagePort, BroadcastChannel, Worker** (`klainpool.c`, `workersrc/worker.c`).
State: two queues per channel, `notified`, `started`, `closed`, `close_sent`; a
Worker's thread, loop, `exited`, references. Hard: a notification in flight
while the port is stopped, closed or moved to another loop; `terminate()` racing
the worker's own end.

**Streams, fetch, Atomics, weak references, IPC, file watching** keep state too;
each is a later candidate or is I/O (see `PROJECT.json`).

### The compiler

**Code generation** (`codegen/llvm/emit_stmts.go`, `emit_exceptions.go`,
`emit_autofree.go`, `escape_check.go`, `emit_stmts_forof_any.go`,
`emit_generators.go`, `emit_fallthrough.go`). State while a function is emitted:
whether the block is done, stacks of break and continue targets, of named
labels, of pending finallys (each with what it must pop first) and of frees
owed by the open scopes. At run time: a stack of jump buffers, a pending flag
per finally. Hard: the statements on the way out are emitted once per exit,
under a state that pretends the exit already happened. Correct when: the
compiled body does what ECMAScript says; its handlers are exactly those of the
tries it is in; what it frees is freed once and not used later.

**Binder** (`binder/binder.go`, `binder/flow.go`). State: the current flow node,
jump targets, exception targets. Operations: one per statement, then the
questions: unreachable code, use before declaration, definite assignment,
reaching stores, guards. Correct when each answer is true of every run.

**Lexer, parser, type checker, resolver, semantic analysis, expressions and
classes in code generation, package manager** are passes over whole programs
and libraries, or sequential file work; they are listed in `PROJECT.json` as not
modelled. Code generation also puts a safepoint at function entries and loop
back-edges, which is a fairness assumption of `KlainSched`.

### How the parts interact

Goroutine bodies call channel operations; these park (`ks_park`, `ks_park_all`)
and ready (`ks_ready`) goroutines. An event loop that runs on a goroutine locks
it to its thread (`__kml_event_loop_run` calls `klainsync_lock_os_thread`).
Threads that are no machines (main, Workers) use channels through a condition
variable. Pool threads and other loops reach a loop through its port (a
completion stack and a `uv_async_send`). Promises are settled by loop callbacks
and run at the checkpoint after each callback.

## 2. Plan

1. *Done.* `KlainSched` with all operations, its hazards as invariants and
   liveness properties, TypeOK and freedom from steal cycles proved.
2. *Done.* `ChanSpec`, `KlainChan`, the refinement and lock freedom checked.
3. *Done.* `KlainPort`: loop ports, pool, MessagePort and Worker in one module,
   because the hold count of a loop is one number shared by all of them.
4. *Done.* Control flow: `EmitFlow`, `BinderFlow` and `FallThrough` held against
   `JsSemantics` by `CompiledRun`.
5. *Done.* Promises: `KlainPromise` held against `JsPromises` by `PromiseRun`.
6. *Done.* Proofs about the scheduler: `OnePlace`, `NotLost`, `QueuedRunnable`,
   `LockedStaysPut`.
7. *Done.* Proofs about ports: all six invariants of the run `ports`.
8. *Done.* Proofs about channels: the four invariants and the refinement of
   `ChanSpec`.
9. *Done.* Proofs about promises: `TypeOK` and `NothingForgotten`.
10. `KlainLoop` and `KlainTimers`, composed with the promises; streams; promises
   held as `any`, tasks parked on a fetch, async generators.

## 3. KlainSched

One variable per shared field, one action per critical section. The mutexes
that are held across steps are variables: `pmu` (a thief holds its victim's ring
while it pushes into its own) and `cmu` (a parking goroutine leaves its channel
mutexes to the scheduler). The global queue's mutex is never held across a step.

| code | actions |
|---|---|
| `ks_findrunnable` | `Find`, `FindLocked`, `PopLocal`, `PopGlobal`, `StealTry`, `StealOne`, `StealDone`, `ParkM`, `Woken`, `SpuriousWake` |
| `ks_execute` before the switch | `Execute` (part of the action that found the goroutine) |
| `ks_execute` after the switch | `SwitchOut`, `ParkUnlock`, `Requeue`, `Reap` |
| a goroutine's body | `Go`, `Park`, `Wake`, `EnterCall`, `LeaveCall`, `Safepoint`, `LockThread`, `Drain`, `Finish` |
| `ks_sysmon_main` | `SysLoad`, `SysFlag`, `SysSpawn`, `SysSleep`; `Overrun` is time |

Abstractions. A goroutine's body is any sequence of what it can do to the
scheduler. A channel is its mutex and who waits on it. `age` is the run window
in three steps: fresh, over the 10 ms that earn a flag, over the 20 ms that
count as stuck. `tick` is `schedtick` modulo the poll period. `FindLocked`
models the sleep-and-look loop of a locked machine as waiting until its
goroutine is runnable; a goroutine that was released never is, so the read of
freed memory in that case shows as waiting for ever. `SysFlag`
merges sysmon's reads and its write through one pointer; the load of that
pointer is a step of its own, which is where it goes stale. `RescueDue` merges
the reads of `ks_idle` and of the queues. `klainsync_unlock_os_thread` has no
caller and is left out. Stack memory and collector roots are below the model;
so is the caching of thread-local addresses that the accessors guard against.

### Runs

All scheduler runs say `CHECK_DEADLOCK FALSE`: a program whose goroutines have
all ended or all wait is a legitimate end, and deadlock of the scheduler's own
is what `NoStealCycle` and the liveness properties speak about.

| run | instance | shows |
|---|---|---|
| `sched_safety` | 3 goroutines, 2 P, 1 channel, rings of 1 | `TypeOK`, `OnePlace`, `NotLost`, `QueuedRunnable` |
| `sched_locked` | 2 goroutines, one of them locking; 2 P, 2 channels | `OnePlace`, `NotLost`, `LockedStaysPut` |
| `sched_rescue` | 1 P, 1 rescue machine, a goroutine that may block for ever | `OnePlace`, `GlobalServed` |
| `sched_fair` | 1 P, 3 goroutines that may spin | `ReadyRuns` |
| `sched_steal` | 2 P with 4 goroutines in each ring of 4 | `NoStealCycle`, `NotLost` |

Bounds. Two machines are enough for every race between a waker, a parker, a
thief and an owner; three goroutines for one to run, one to be moved and one to
wait in a queue. `RunqCap` is 1 (the code's is 256) so that a ring overflows at
once; stealing more than one goroutine needs rings of at least four, because
`StealCount` is 1 below that, so `sched_steal` starts with two rings of four.
No run window is long there, so sysmon would change nothing and stands still.
`PollPeriod` is 1 or 2 (61 in the code): with 1 every search polls the global
queue first, with 2 every other one; `sched_fair` uses 2, where the ring could
starve the queue. `AgeCap` 2 is needed where the rescue decision matters, 1
where only the flag does, 0 where neither. `RescueCap` is 0 or 1 (the code's cap
is four per processor plus four).
Goroutines without a special role are interchangeable and are declared
symmetric in `sched_safety`, a run without liveness.

Fairness (`Fairness`). Weak on the scheduler's own code, on a flagged
goroutine's safepoint, on the drain, on time and on sysmon: the operating system
runs threads, and compiled code reaches a safepoint. Strong on starting a
thread: it is tried at every scan and `pthread_create` does not fail for ever.
Nothing is assumed of bodies: they may spin, block for ever or wake nobody.

### Disagreements between the code and what is written about it

Met while modelling; TLC confirmed each with a property that is not part of the
runs, since it does not hold.

* *Stranded ring*. `ks_ready` pushes into the waker's own
  ring and signals nobody. A machine that has just scanned that ring goes to
  sleep; the waker then blocks in a call. The sleeper is never woken, and since
  it counts as idle, sysmon starts no rescue machine. ADR-00543 says
  work-stealing drains a blocked machine's goroutines.
* *Locked only processor*. With one processor and an event
  loop locked to it, the flushed goroutines have no peer machine to run them:
  sysmon skips a locked goroutine before it can call its machine stuck.
* *Ring refilled*. The ring is emptied once, when the
  thread is locked; the locked goroutine's own wake-ups go back into it. With
  other processors a thief may come; with none nobody does.
* *Stale pointer*. The goroutine sysmon is about to flag
  may have been released: the comment says a stale read costs one flag.
* *Locked goroutine that ends*. A loop with nothing to hold
  it returns, the goroutine may end, and its machine stays bound to it.

## 4. ChanSpec and KlainChan

`ChanSpec` has no locks, wait nodes or machines: an operation is called, takes
effect on one case at one instant or waits until another operation completes it,
and returns. A close takes effect at one instant, and returns when nobody waits
on the channel any more. Sending on a closed channel ends the process, as does a
close of a closed one.

`KlainChan` is the code: an operation is a select of one or more cases.
`LockNext` takes the mutexes in address order; `Run` polls the cases from a
random start (any start) and fires the first ready one (`Send`, `Recv`,
`Close`), takes the default, or queues a sudog per case and waits (`Block`);
`Release` is the scheduler letting go of its mutexes one at a time; a waker
claims the task (`won`) and writes its outcome; `Resume`, `LockNext`, `Finish`
are the claimed task running again, taking its mutexes back, pulling out its
other sudogs; `CloseWake` is one turn of a close's loops. Stale sudogs are
dropped by whoever pops them, as `ks_wq_pop_acquire` does, also while polling in
vain (`Polled`). What `klain_sync.ts` refuses before it calls the runtime, a
65th case or a second default, is not an operation here.

Grain. A critical section is one step. Two sections that hold different mutexes
meet only in the compare-and-swap of `won`, and a section succeeds in at most
one, after which it ends: ordering sections by that instant explains every
outcome. A close claims many waiters and so takes one step per waiter.
Goroutine and thread waiters coincide at this grain; so the thread's condition
variable and its signal are not steps. Values are small numbers, one per
sending case, so that a value delivered to the wrong case shows.

`Linearizable` is `ChanSpec` under the mapping `AbsState`: an operation is
"done" as soon as its case is claimed.

| run | instance | shows |
|---|---|---|
| `chan_safety` | 3 tasks, a rendezvous and a one-slot channel, plain operations, closes, two selects naming the channels in opposite orders | `TypeOK`, `NoDanglingSudog`, `NoLockDeadlock`, `NoMissedMatch`, `Linearizable` |
| `chan_live` | 2 tasks, the same and a select with a channel in both directions, one with a default, `select {}` | `Linearizable`, `WokenReturns`, `CloseWakesAll` |

Bounds. Three tasks are a waiting select and two wakers that race to claim it
through different channels; two channels are the least with an order of locks;
capacities 0 and 1 are the rendezvous and the ring that is full and empty at
once, and a longer ring only repeats the one-slot one. Tasks are symmetric in
`chan_safety`. Deadlock is not checked: tasks that wait for each other are a
program's error, and an aborted process stops.

Fairness. Weak on an operation's own steps and on the scheduler's releases (a
woken goroutine is run); strong on taking a mutex that is free again and again,
that is, a pthread mutex does not starve one waiter for ever. No task needs to
call anything.

## 5. KlainPort

Every event-loop thread has a port (`kml_loop_port`): a stack of completions
that other threads push onto, a wakeup, and a count `inflight` of what keeps the
loop alive. The count may change on any thread; whether the wakeup handle is
referenced (`refd`) is matched to it on the loop's own thread, at once if that
thread made the change, otherwise when it is woken.

| code | state and actions |
|---|---|
| `kml_loop_port`, `port_sync`, `__kml_pool_dispatch` | `loops`; `Wake`, `DispatchPort`, `DispatchEvent`, `CallReturns`, `DispatchTerminate`, `DispatchExit`, `DispatchDone`, `LoopEnds` |
| `kml_mport` and its natives | `port`; the operators `mport_*`, `mp_notify_locked`, `mp_hold_locked` |
| `MessagePort` (`worker_threads.ts`) | `obj`; `postMessage`, `Listen`, `Unlisten`, `SetRef`, `Receive`, `Detach`, `Revive`, `close`, `DrainOne`, `EmitReturns`, `DrainEnds` |
| `worker_main`, `enqueue_work` | `jobs`; `Submit`, `TakeJob`, `FinishJob` |
| `kml_wctx`, `Worker` | `wrk`; `workerSpawn`, `SpawnFails`, `Construct`, `worker_enter`, `terminate`, `TerminatePosts`, `WorkerRef`, `Exit`, `ExitHeard` |

One pair of ports, in one of two roles: the ends of a `MessageChannel`, starting
on any of the threads, or the public pair of a Worker not yet constructed.

Grain. A native on a port runs under `mp_mu` and is one step, but `close` is
two: it releases the peer's hold before it posts the peer's notification, and
the hold count is read without that mutex. `terminate()` is two, since it sets
its flag before it takes `w_mu`. A drain takes one message per step, and the
handlers of one message run between two: the program may do anything there, as
it may in the callbacks of a finished job, `'online'`, `'close'` and `'exit'`,
between two completions of a batch (`call`, until `CallReturns`).
A push on the completion stack with its `uv_async_send`, and the exchange that
empties it, are one step each. A message is its number on its port; its value,
cloning and serialization are left out. `ops` bounds what the programs do;
nothing else is bounded by it.

| run | instance | shows |
|---|---|---|
| `ports` | a parent, a Worker thread, one pool thread, 4 operations | `TypeOK`, `HoldCount`, `HeldRunsOn`, `NotStranded`, `CloseIsLast`, `WorkerEvents` |
| `ports_live` | 3 operations | `Delivered`, `TerminateEnds` |

Bounds. The pair has two ends, so two loops are all that can meet on it. Four
operations are enough for: a message, a start, a transfer and a restart
elsewhere; a message, a listener, a close and a message; a spawn needs none, so
that a Worker's whole life leaves four to its ports. One pool thread is enough,
since jobs meet only in the stack of the loop they return to, where they also
meet the other thread's pushes.

Deadlock is not checked: loops that wait for each other's messages, and a
process that has ended, are legitimate.

Fairness. Weak on what the runtime does next on each thread and on the pool's
threads: loops run, handlers return, jobs finish. Nothing is assumed of the
programs.

### Disagreements

* *A removed listener.* `_kmlDrain` (`worker_threads.ts:264`) looks at neither
  `_kmlStarted` nor the listeners: a notification under way when the last
  `'message'` listener goes drains the stopped port, and a
  drain under way goes on, so that a `once` listener with two messages queued
  loses the second. `klainpool.c:3787` says of the stop that removal calls:
  "messages queue until it starts again". `DrainOne` takes such a message and
  emits it to nobody; TLC finds one in three operations (a message, a listener,
  its removal). `Delivered` counts it as delivered.
* *A close from the other thread.* Between the release of the peer's hold and
  its notification the peer's loop may find nothing that holds it and end,
  without the `'close'` that "each end delivers" (`klainpool.c:3860`). For this
  reason no run says that `'close'` is always heard.
* *close() before start.* The callback `close()` installs does not drain: a port
  with queued messages gets a message notification that nobody acts on,
  `notified` stays set and `'close'` does not come (`worker_threads.ts:288`:
  "Its 'close' still arrives on the loop."). `NotStranded` speaks of ports whose
  callback drains.
* *A transfer after the pair closed.* `close_sent` survives the transfer, so the
  new object does not hear `'close'`.
* *unref before a transfer.* The native `refd` stays 0 while the new object's
  `hasRef()` is true.
* *BroadcastChannel* (not modelled). `postMessage` asks for the number of
  members and then for each by index, while a leaving member's place is filled
  by the last one.

## 6. Control flow: from statements to instructions

`KmlStatements` has the statements; a call, a condition and an access to the one
variable `x` are what a program can be seen to do. `JsSemantics` says what
ECMAScript does with them, as a small machine: the next event, and a stack of
what remains. `EmitFlow` is the emitter, function by function, with the same
names; its instructions are those that matter to control flow (labels, branches,
pushing and popping a handler, the pending flag, frees). `pendingFinallys` is a
Go slice and is modelled as one, an array in a heap and a length, because two
slices share an array. `BinderFlow` is the binder's graph and its queries, and
`FallThrough` the syntactic test for falling off the end.

`CompiledRun` runs the two together: an instruction that can be observed must be
the next event of ECMAScript (`InStep`), and then both take it. Calls may throw,
those of conditions and an iterator's too, and conditions go either way. So a
run of TLC over a program covers every path of
it, and the properties about the front end (`ReachSound`, `TdzSound`,
`PresentSound`, `StoresReach`) hold its answers against every path.

| run | programs | shows |
|---|---|---|
| `flow` | 8,361 bodies (`FlowPrograms!AllPrograms`) | all nine properties |
| `flow_finally` | 9 bodies, a `try` in a `finally` left twice | `InStep` is violated |

Programs. A family is a shape with three or four slots, each filled in turn with
a call, `return`, `throw`, `break`, `continue`, and the labelled ones where they
are legal: a try with catch and/or finally in a function, a loop and nested
loops (`Control`); a try in a try, a loop in a try and in a finally, an
endless loop, a try in a finally, a switch with its default in the middle,
for-of over a generator and over `any` (`Structured`); stores, guards, declarations and owned values in
branches, loops, do-while, switch and try (`Variables`). Each slot is reached by
every kind of exit, which is what the code multiplies; deeper nesting repeats
the stacks already two deep. Deadlock is checked: a function that is neither
left nor can go on would be one.

Bodies with a use of `x` the emitter refuses run in ECMAScript alone
(`Interpret`), since the front end's answers are given for them too.

Abstractions. Values are named by where they come from. A coroutine's frame, the
types that choose between lowerings of a return and the closures a finally may
call are left out; so are the iterator protocols other than a generator's and
`any`'s. A value that is freed is one that `escape_check.go` found not to
escape: the declaration says so, the rest of the analysis is not modelled. Its
slot is freed where its scope is left and, before the store, by an assignment
(`maybeFreeOnRebind`). `FreedOnce` says that no value is left in a slot that is
written again or goes; that none is freed twice is `freeSymbol`'s doing, which
leaves the slot null.

### Disagreements, and what the programs leave out because of them

* *Slice aliasing* (`flow_finally`, a finding). `emitFinallysToDepth` shortens
  the slice of pending finallys, and a `try` in the finally it compiles writes
  over the entry the next exit needs. `TryInFinally` has one exit for this reason.
* *`continue` of a for-of closes its iterator* over `any`, an async generator or
  a live collection: its target is pushed before the close is.
  `emit_stmts_forof_any.go:18` has "Leaving the loop early (`break`, `return`, a
  throw) closes an iterator", and ADR-00614 and `tests/generators_test.go:967`
  say of generators "a `continue` does not".
  `OverAny` has no `continue` of its own.
* *An unlabelled jump in a finally* that is compiled inside an inner loop goes
  to that loop. `LoopTried`'s finally has labelled jumps only.
* *A label on a block or an `if`* is taken by the first loop inside it
  (`emit_stmts.go:217`). Only loops are labelled.
* *A catch starts from the state before the try* in the binder, so a store in
  the block does not reach a read in the catch, and a variable assigned on the
  normal path counts as assigned in a finally entered by an exception. `Caught`
  has its stores before the try.
* *A do-while with a `continue`* is judged never to complete when its body ends
  in a jump (`emit_fallthrough.go`). `DoneOnce` puts the jump under an `if`.
* *A `return` at module level* inside a try skips its finally and its handler
  (`emit_stmts.go:339`). Only functions are modelled.
* *A throw out of a for-of body over a generator* does not close it, as
  ADR-00614 says: `Generated` catches what its body throws.
* *Owned values declared in a try, a catch, a finally or a case* inside a loop
  are freed for the last turn only, against "Each runtime path thus frees
  exactly once" (`emit_autofree.go`). `Freed` declares in the loop's body.
* *Names in an inlined finally* are looked up in the scopes open at the exit. No
  program shadows `x`.

## 7. Promises, jobs and async functions

`KlainPromise` is the runtime on one thread: promises with their newest-first
reaction lists, the job queue `mt`, the tick queue `tq`, the queue `unh` of
rejections nobody consumed yet, the coroutines of async functions and the
current task. One operator per function of the code, each from a state to the
next: `Settle`, `RejectWith`, `Attach`, `DrainReactions`, `NoteRejected`; the
closures a job may be (`adopt_job`, `adopt_settle`, `defer_step`,
`finally_step`, the then and combinator runners, `resume`); `SpawnTask`,
`TaskFinish`, `TaskReject`, `TaskAdopted`, `AwaitReady`; and the drain, whose
place is `ph`.

`JsPromises` is the reference, in ECMAScript's own terms: reaction records, one
job per reaction, a job of its own for a promise resolved with a promise, the
inner promise a `finally` creates. Node adds ticks (a queue once begun is emptied
before the other has its turn) and the report of what is rejected and unhandled
when both are empty. The runtime reaches the same order by other means: `finally`
counts hops instead of creating a promise, awaits and combinators create none.

`PromiseRun` runs both under every program. While code of the program is on
`stack`, it may do any operation on any promise it has made: `then`, `catch`,
`finally`, a combinator, an async call (its body runs on top of the caller),
`resolve`, `reject`, `nextTick`; it ends by returning, throwing, returning a
promise or awaiting. When no code runs, each machine works off silent jobs
(`QueueStep`, the runtime first, since neither looks at the other) until it comes
to something the program sees: a callback with its outcome, a resumed body, a tick, the report of a rejection, nothing left.
`SameOrder` says the two always come to the same, and is proved (`PromiseOrder`). A report without a listener
ends the process, so the run ends there.

A microtask that queues itself again runs beside the program (`ClockRound`). It
is a program of its own, and makes the number of jobs an operation takes visible
to programs too short to build a second chain.

`NothingForgotten` is about the runtime alone: a reaction is on the list of a
pending promise or in the queue with a settled source (`SourcesReady`; the
runners read any state but 1 as a rejection), a suspended body has exactly one
closure that resumes it (`ResumedOnce`), and a pending promise of a chain has
exactly one thing that will settle it (`OneSettler`), a combinator at least as
many closures as members are to come. Closures are counted by the place they lie
at (`Held`: a list and a position), since two of them may be equal.

| run | programs | shows |
|---|---|---|
| `promises` | 3 operations over the module's top level, its jobs, and one timer callback; one `new Promise`, pending or already resolved | `TypeOK`, `SameOrder`, `NothingForgotten` |

Bounds. How callbacks and bodies end costs no operation, so three operations are
programs like: `finally` on a settled promise whose callback returns the second
one's rejected promise while a third reaction races it; two nested async calls
and an await; a combinator over a chain. Five rounds of the clock are more than
the jobs between any operation and its effect (three, for `finally`). Combinators
take no member or two, in order of creation. A `then` has one of its two
callbacks; the runner looks at one only. A callback does not return its own
promise, see below. Deadlock is not checked: programs end.

Values are named by the promise they come from, reasons too. The WAITER field is
unused by these paths (an await is a reaction) and left out.

### Disagreements, and what the programs leave out because of them

* *An executor's `resolve(p)`* attaches its adoption to `p` at once, where
  ECMAScript queues a job that does; so it settles one job early, though
  `emit_promise_new.go:193` says "ordering matches JS (adoption is a microtask
  tick)". A `resolve(2)` after it also wins, since only the settled state is
  looked at. `CallResolve` has plain values.
* *A callback that returns its own promise* is a TypeError in ECMAScript;
  `__kml_promise_adopt` attaches the promise to itself, pending for ever.
* *A finally callback typed `any`*, or by a union that holds a promise, is not
  waited for when it returns one: `emit_promise_then.go:411` looks at the static
  return type, "as the spec's thenFinally does" (line 410), which waits for
  whatever comes. The callbacks of a finally return promises by type only.
* *Reports with a listener.* `__kml_unhandled_check` walks a queue that the
  listener may extend, and the jobs a listener queues wait for the next turn of
  the loop; Node drains before it reports more.
* *`Promise<any>` views* (`anyprom.c`) mark their source handled and are reported
  on their own account, and their settlement runs inside the source's.

## 8. Proofs

Every theorem is about the specification the runs check, for every value of the
constants that satisfies the module's assumption. The pattern is the same each
time: an inductive invariant, one lemma per action that the action keeps it, and
the properties as consequences.

| theorem | states | module |
|---|---|---|
| `TypeCorrect`, `StealsNeverCycle` | `TypeOK`, `NoStealCycle` | `KlainSchedProofs` |
| `NeverInTwoPlaces`, `NoneLost`, `QueuesHoldRunnable`, `LockedNeverMigrates` | `OnePlace`, `NotLost`, `QueuedRunnable`, `LockedStaysPut` | `KlainSchedProofs` |
| `ChanTypeCorrect`, `SudogsNeverDangle`, `MatchesNeverMissed`, `LocksNeverCycle` | `TypeOK`, `NoDanglingSudog`, `NoMissedMatch`, `NoLockDeadlock` | `KlainChanProofs` |
| `ChannelsLinearizable` | `Linearizable` | `KlainChanProofs` |
| `PromiseTypeCorrect`, `NothingIsForgotten` | `TypeOK`, `NothingForgotten` | `PromiseProofs` |
| `SameCallsNext` | `SameOrder` | `PromiseOrder` |
| `PortTypeCorrect`, `HoldsCounted`, `HeldLoopsRunOn`, `NothingStranded`, `CloseComesLast`, `WorkerEventsInOrder` | `TypeOK`, `HoldCount`, `HeldRunsOn`, `NotStranded`, `CloseIsLast`, `WorkerEvents` | `KlainPortProofs` |

### The scheduler

`SchedAssumption`: at least one processor, rings with at least one slot, a poll
period of at least one, a null goroutine that is none.

* `TypeOK` is not inductive alone: a thief runs
  what is in its hand, `Requeue` pushes what is in its hand, and a machine runs
  what its loop says is on its stack, so the types need `Shape` (where a machine
  holds a goroutine) and `Holding` (a thief finds in the victim's ring what it
  has still to take, and has taken one before it has none left to take).
* Two thieves that hold each other's rings would wait for ever if both had
  something to push. The argument
  is `Room` and `NoCycle`: a machine looks elsewhere only with its own ring
  empty, and only it pushes into its ring. So of two such thieves, the later one
  to lock its victim locked a ring that the earlier one, still holding the
  later's empty ring, had nothing to take from. With the types this is
  `StealInv == TypeOK /\ Shape /\ Holding /\ Room /\ NoCycle /\ Sysmon`.
* Where goroutines are is `PlaceInv`, inductive together with `StealInv`. The
  four properties need each other: a goroutine is moved on the strength of its
  status, which is right only because it is in one place. `Placed(g)` says where
  a goroutine of each status and lock may be; `Custody(m)` says what a
  machine's place in `ks_execute` implies of the goroutine it has. The clause
  that carries the race between a parker and a waker: a goroutine that is
  switching out to wait still holds, through its machine, the mutexes of its
  channels, so no waker can take it off one before its context is saved. And a
  machine with a locked goroutine is in no part of `ks_findrunnable` that looks
  for another. `MoveKeeps` reduces each action to one goroutine and one machine.

### Channels

`ChanAssumption`: finitely many channels, ordered by address; operations are
finite lists of cases with known channels, directions and values.

`ChanInv == Typed /\ Bounded /\ QueueInv /\ NoMissedMatch /\ Claim /\ Upwards`.
The code decides by what is in the wait queues, which also hold sudogs of
tasks that another channel has claimed already. `QueueInv` says that the sudogs
nobody has claimed are exactly the cases of the tasks that wait, so to find no
live sudog is to know that nobody waits. `NoMissedMatch` is inductive with that.
`Upwards` (mutexes held are below all the ones still wanted) gives freedom from
lock cycles: if tasks waited for each other in a circle, the one that wants the
greatest mutex would be waiting for somebody who wants a greater one. Circles
are of any length; a finite, nonempty set of addresses has a maximum.

`ChannelsLinearizable` proves `Init => Abs!Init` and that every step under
`ChanInv` is a step of `ChanSpec` or leaves its state alone. Locking, the
scheduler's releases, resuming and cleaning up stutter; a fired case, a block,
a wake of a close and a return are one abstract step each. Fairness is no part
of either specification there.

### Ports

`Distinct`: the two threads, the null pointer and the place in transit differ,
the null pointer is no half-done close, the pool is finite. `MaxOps` is any
number, so the theorems hold however long the programs run.

The natives change the loops and the ports and nothing else, and are composed
with each other inside one step (`start` releases, moves, holds and notifies).
So the invariant is a relation `Base(s, c)` between a record `s` of loops and
ports, as the natives take and return it, and a record `c` of everything else;
a native's lemma says that it keeps `Base`, and an action's lemma chains natives
and changes `c` once (`KlainPortSteps`, `KlainPortProofs`).
`PortInv == Base(State, Ctx) /\ Owing /\ Around`. Its parts:

* `Counted`: a loop's count is its holds, its completions and its needs, and a
  loop that is held or needed is referenced. It is kept by every native
  separately, so also between the two halves of a close.
* `Owing`, `Told`, `Owned`: what a port owes was notified; a port that counts as
  notified has its callback on its way to the loop it is started on, or running
  there; and that loop and callback are those of the object that stands for the
  port now. None is the property alone: a notification to an earlier owner
  satisfies `notified` of no later start, since `start` resets it. The exception
  in `Owing` is the peer of a close that is half done.
* `Ended`: a notification of the end, sent, running or done, is of a port that is
  closed with nothing queued; a closed pair takes no more messages.
* `Events`, `Drained`: `'online'` and `'exit'` are pushed in this order on a
  stack that is reversed into a batch, so the order is stated of both
  (`InOrder`); the thread has ended when its `'exit'` is sent, and the parent
  drains the port before it emits it.

### Promises

`PromiseAssumption`: any number of promises, at least as many as the program
starts with and its operations make. Nothing is said of how many operations,
ticks or rounds there are.

The operators of the runtime work on promises and queues while tasks, combinators
and the closure whose callback runs stand still, and a handler composes several
of them. So the invariant relates a state `s`, of which only the promises and the
queues count, and a context `c`, the rest; `Good(s, n, stk)` puts the two
together and adds the stack, and `RunInv` is `Good` of the program's state.

* `Fine(s, n, c, w)`: the types, and that closures lie where they belong.
  In the middle of a settlement the reactions of one promise `w` still lie on its
  list though it has settled; `DrainFine` moves them.
* `Owes(s, n, c, e, m)`: the properties count closures, so the invariant does.
  Every closure has a key, the task it resumes or the promise it settles. `Owes`
  says that the counts are right if `m` closures with key `e` are added: these
  are owed. Taking the head of the queue owes one (`PopOwes`), a body that ends
  or waits owes one (`CtxDone`, `CtxParked`), a combinator owes one for each
  member; enqueuing or attaching a closure pays one (`Repay`), entering a
  callback or a body pays it (`CtxEnter`, `CtxResumed`), and a debt to a promise
  that has settled is none (`SettledDebt`). Every handler ends without debts.
* `Fit`, `Fresh`, `RunOk`: no promise is a task's and a combinator's, a callback
  never settles either's, and a callback's source has settled. They
  are why the then runner and the task epilogue may store an outcome without
  looking at the state: nobody else settles that promise.
* `Left`: a pending `all`, `allSettled` or `any` has a member to come, so the
  count does not pass zero.
* `Frames`: only an async function's body lies on other code, each body once and
  for a task that runs, and `prev` holds the tasks of the code below. So the
  switch back in `task.c` finds the spawner's task, and the current task at the
  end of a body is the one whose body it is.

### The order of promise jobs

`SameCallsNext` holds for programs of any length over any number of promises.
The two machines hold different things in their queues: the result of a `finally`
is an inner promise with reactions and jobs of its own in the one and a closure
with a hop count in the other. So the proof is a simulation, and
`Sim(e, s, n, c, x, y)` relates the state `e` of ECMAScript to the state `s` of
the runtime, whose context is `c` and promises `1..n` (`PromiseSim`; `x` and `y`
name a `finally` in mid-step):

* `QueueSim`: a strictly increasing map `f` gives every closure of `mt` its job.
  `Fired` says what that job is, from the closure's kind, the outcome it reads
  and the hops it has still to take. The jobs that no closure stands for belong
  to inner promises (`Extra`): the one that attaches the result to its inner
  promise (`Late`), or the one before it that settles the inner promise.
* `ListSim`, `PromSim`: a promise has the same outcome and the same reactions
  in the two, in opposite order; `InnerSim` says what inner promises, which the
  runtime does not have, may look like.
* `UnhSim`: the queues of unhandled rejections are the same but for inner
  promises. `InnerSim` has a job under way that handles each of these, so none
  is ever reported.
* `Owners`, `CombSim`, `CallSim`: who settles a promise settles a pending one;
  combinators of pending promises count the same; the running callback is the
  same. The queues of ticks are equal.

Each operator of the runtime has a lemma that says what it changes (`SettlesTo`,
`AttachesTo`, `MovesTo`, `StoresTo`), its counterpart of `JsPromises` another,
and the two together keep `Sim`. Operations of running code and ends of
callbacks follow by chaining them (`PromiseSteps`).

When queues are worked off, the machines are not in step: the result of a
`finally` takes ECMAScript up to two jobs more, and the specification lets the
runtime go first to what the program sees next. So `OrderInv` has two cases. While code runs, `Sim`
holds and the phases of the two loops fit (`TurnFits`). While queues are worked
off, there is a trace of states of the runtime, each a silent job after the last
(`JobStep`): its first is `Sim` with `es`, its last is `rt` (`Behind`). A silent job
of the runtime makes the trace longer (`RtMoves`); one of ECMAScript takes the
first state off, or is a job no closure stands for (`JsMoves`). While the trace has
more than one state, ECMAScript's next job is silent (`AheadBusy`). So when neither
machine has a silent step left, the trace is one state, `Sim` with `es`
(`RestMeets`), and the two see the same next: the same job, tick or report
(`RestJobs`, `RestTicks`, `RestReports`). `RunInv` of `PromiseProofs` is used
throughout: the source of a closure in the queue has settled, a promise has one
settler, a body is resumed once.

That both machines reach such a state is no part of the theorem, which is about
safety.

### Only model-checked

* Liveness: `GlobalServed`, `ReadyRuns`, `WokenReturns`, `CloseWakesAll`,
  `Delivered`, `TerminateEnds`. Fairness and ENABLED are out of the prover's
  reach.
* `CompiledRun`. The emitter, the binder and the reference are recursive over
  statements. What they compute for every body needs induction over statements,
  whose theorem takes a predicate as parameter that no backend can instantiate;
  and the prover loses its SMT backend in a module that reaches a recursive
  operator.

## 9. Not modelled

`PROJECT.json` lists every component with its reason. In short: I/O behind the
loop port (files, DNS, HTTP, zlib, SQLite, child processes, file watching) is
one blocking call whose outcome is the world's; the value runtime, the lexer,
the parser and the type checker are functions of unbounded text and data that
no bounded enumeration covers usefully, and are what the repository's
conformance tests are for; expressions, classes and closures in code generation
likewise. Timers, async generators, streams, fetch, Atomics and weak
references keep state and are candidates along the plan.

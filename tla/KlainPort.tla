----------------------------- MODULE KlainPort -----------------------------
(***************************************************************************)
(* The event loops' completion ports, the thread pool, MessagePort and     *)
(* Worker: threadpoolsrc/klainpool.c with its callers in                   *)
(* lib/node/worker_threads.ts and the thread side in workersrc/worker.c.   *)
(*                                                                         *)
(* Every event-loop thread has a completion port: a lock-free stack that   *)
(* other threads push onto, a wakeup, and a hold count that decides        *)
(* whether the wakeup keeps the loop alive.  One pair of message ports is  *)
(* modelled: in the role "channel" the ends of a MessageChannel, anywhere; *)
(* in the role "worker" a Worker's public pair, the parent's end private   *)
(* to the Worker object.                                                   *)
(*                                                                         *)
(* The natives of a port run under mp_mu and are one step each, except     *)
(* close, which another thread's loop can see half done (it releases the   *)
(* peer's hold before it posts the peer's notification).  has and take of  *)
(* a drain are one step: only the owner takes, so what other threads do    *)
(* between the two cannot change the oldest message.                       *)
(***************************************************************************)
EXTENDS Integers, Sequences, FiniteSets, SequencesExt

CONSTANTS Main, Wkr,        \* the two event-loop threads: the parent, the Worker's
          PoolThreads,      \* the pool's threads
          None,             \* a null pointer
          Transit,          \* where a port is while its token travels in a message
          MaxOps            \* how many operations the programs perform (a bound)

Threads == {Main, Wkr}
Ports == {0, 1}             \* mp_tab: 0 the parent's end of a Worker's pair
peer(p) == 1 - p

ASSUME Distinct ==
  /\ Main # Wkr /\ None \notin Threads /\ Transit \notin Threads
  /\ None \notin [by : Threads, port : Ports]
  /\ MaxOps \in Nat /\ IsFiniteSet(PoolThreads)

VARIABLES
  loops,    \* thread -> its kml_loop_port: comp, inflight, refd, wake, and the batch being dispatched
  port,     \* port -> its kml_mport
  obj,      \* port -> the MessagePort object that stands for it now
  run,      \* thread -> what its JavaScript does: [pc, item]
  closing,  \* the thread inside __kml_native_mport_close, or None (mp_mu is held)
  wrk,      \* the kml_wctx and the Worker object
  jobs,     \* the pool: queued origins, and what each pool thread works on
  role,     \* whose ports these are: "channel" or "worker"
  ops       \* operations left to the programs

vars == <<loops, port, obj, run, closing, wrk, jobs, role, ops>>

-----------------------------------------------------------------------------
(* Completions and the state the natives change.                           *)

\* A completion: a port's callback (which object, started how), or an event.
PortItem(what, inv, p) == [what |-> what, port |-> p, gen |-> inv.gen, drains |-> inv.drains]
Event(what) == [what |-> what, port |-> 0, gen |-> 0, drains |-> FALSE]

Idle == [pc |-> "run", item |-> Event("none")]

State == [loops |-> loops, port |-> port]
Becomes(s) == loops' = s.loops /\ port' = s.port

\* Mutant: the loop's own thread leaves the reference for later too.
port_hold_later(ls, self, t, d) == [ls EXCEPT ![t].inflight = @ + d, ![t].wake = TRUE]

\* A change of t's hold count by `self`: its own thread re-matches the
\* reference now, another thread wakes it to.
port_hold(ls, self, t, d) ==
  [ls EXCEPT ![t].inflight = @ + d,
             ![t].refd = IF t = self THEN ls[t].inflight + d > 0 ELSE @,
             ![t].wake = @ \/ t # self]

push_completion(ls, t, it) == [ls EXCEPT ![t].comp = <<it>> \o @, ![t].wake = TRUE]

kml_post_to_loop(ls, self, t, it) == push_completion(port_hold(ls, self, t, 1), t, it)

\* Mutant: 'close' does not wait for the messages.
mp_notify_close_first(s, self, p) ==
  LET r == s.port[p]
      what == IF r.closed /\ ~r.closeSent THEN "closed" ELSE "messages"
  IN IF r.loop = None \/ r.notified \/ (what = "messages" /\ r.queue = <<>>) THEN s
     ELSE [loops |-> kml_post_to_loop(s.loops, self, r.loop, PortItem(what, r.inv, p)),
           port |-> [s.port EXCEPT ![p].notified = TRUE, ![p].closeSent = @ \/ what = "closed"]]

\* Wake the port's loop if it has something to deliver.
mp_notify_locked(s, self, p) ==
  LET r == s.port[p]
      Post(what) == kml_post_to_loop(s.loops, self, r.loop, PortItem(what, r.inv, p))
  IN CASE r.loop = None \/ r.notified -> s
       [] r.loop # None /\ ~r.notified /\ r.queue # <<>> ->
            [loops |-> Post("messages"), port |-> [s.port EXCEPT ![p].notified = TRUE]]
       [] r.loop # None /\ ~r.notified /\ r.queue = <<>> /\ r.closed /\ ~r.closeSent ->
            [loops |-> Post("closed"),
             port |-> [s.port EXCEPT ![p].notified = TRUE, ![p].closeSent = TRUE]]
       [] OTHER -> s

\* The port holds its loop open while it is referenced, started and open.
mp_hold_locked(s, self, p) ==
  LET r == s.port[p]
      want == r.refd /\ r.loop # None /\ ~r.closed
  IN IF want = r.held THEN s
     ELSE [loops |-> port_hold(s.loops, self, r.loop, IF want THEN 1 ELSE -1),
           port |-> [s.port EXCEPT ![p].held = want]]

\* Mutant: the hold is released and not forgotten.
ReleasedAgain(s, self, p) ==
  IF s.port[p].held THEN [s EXCEPT !.loops = port_hold(@, self, s.port[p].loop, -1)] ELSE s

\* What start and stop do first: release the hold on the loop it leaves.
Released(s, self, p) ==
  IF s.port[p].held
  THEN [loops |-> port_hold(s.loops, self, s.port[p].loop, -1),
        port |-> [s.port EXCEPT ![p].held = FALSE]]
  ELSE s

\* Mutant: a start does not look at what is queued.
mport_start_silent(s, self, p, inv) ==
  LET r == Released(s, self, p)
  IN mp_hold_locked([r EXCEPT !.port[p].loop = self, !.port[p].inv = inv, !.port[p].notified = FALSE], self, p)

mport_start(s, self, p, inv) ==
  LET r == Released(s, self, p)
      started == [r EXCEPT !.port[p].loop = self, !.port[p].inv = inv, !.port[p].notified = FALSE]
  IN mp_notify_locked(mp_hold_locked(started, self, p), self, p)

\* Mutant: a stop leaves the hold on the old loop.
mport_stop_holding(s, self, p) ==
  [s EXCEPT !.port[p].held = FALSE, !.port[p].loop = None, !.port[p].inv = None, !.port[p].notified = FALSE]

mport_stop(s, self, p) ==
  LET r == Released(s, self, p)
  IN [r EXCEPT !.port[p].loop = None, !.port[p].inv = None, !.port[p].notified = FALSE]

mport_ref(s, self, p, on) == mp_hold_locked([s EXCEPT !.port[p].refd = on], self, p)

\* Queue a value on the other end; dropped when the pair is closed.
mport_post(s, self, p) ==
  IF s.port[p].closed \/ s.port[peer(p)].closed THEN s
  ELSE LET q == peer(p)
           queued == [s EXCEPT !.port[q].queue = Append(@, s.port[q].sent + 1), !.port[q].sent = @ + 1]
       IN mp_notify_locked(queued, self, q)

\* Mutant: an empty queue leaves the port notified.
mport_has_none_notified(s, self, p) ==
  IF s.port[p].closed /\ ~s.port[p].closeSent
  THEN mp_notify_locked([s EXCEPT !.port[p].notified = FALSE], self, p) ELSE s

\* mportHas when nothing waits: the next arrival notifies again.
mport_has_none(s, self, p) ==
  LET r == [s EXCEPT !.port[p].notified = FALSE]
  IN IF r.port[p].closed /\ ~r.port[p].closeSent THEN mp_notify_locked(r, self, p) ELSE r

mport_take(s, p) == [s EXCEPT !.port[p].queue = Tail(@)]

\* mport_close up to the release of the peer's hold, and from there on.
mport_close_first(s, self, p) ==
  LET mine == mp_hold_locked([s EXCEPT !.port[p].closed = TRUE], self, p)
      told == mp_notify_locked(mine, self, p)
      q == peer(p)
  IN IF told.port[q].closed THEN told
     ELSE mp_hold_locked([told EXCEPT !.port[q].closed = TRUE], self, q)

mport_close_second(s, self, p) == mp_notify_locked(s, self, peer(p))

-----------------------------------------------------------------------------
NewPort == [loop |-> None, inv |-> None, refd |-> TRUE, held |-> FALSE, notified |-> FALSE,
            closed |-> FALSE, closeSent |-> FALSE, queue |-> <<>>, sent |-> 0]

NewObj(at, gen) == [at |-> at, gen |-> gen, started |-> FALSE, refd |-> TRUE,
                    closed |-> FALSE, listening |-> FALSE]

NewLoop == [comp |-> <<>>, batch |-> <<>>, inflight |-> 0, refd |-> FALSE, wake |-> FALSE]

\* A Worker that is running, unreferenced and heard to be online (in the role
\* "channel" only its thread matters), or one not yet constructed.  heard is
\* what its object has emitted.
Running == [state |-> "running", held |-> FALSE, exited |-> FALSE, terminate |-> FALSE,
            posting |-> FALSE, loop |-> TRUE, heard |-> <<"online">>]
Unborn == [Running EXCEPT !.state = "unborn", !.loop = FALSE, !.heard = <<>>]

Init ==
  /\ loops = [t \in Threads |-> NewLoop]
  /\ port = [p \in Ports |-> NewPort]
  /\ \/ /\ role = "channel"
        /\ obj \in {[p \in Ports |-> NewObj(at[p], 1)] : at \in [Ports -> Threads]}
        /\ obj[0].at = Wkr => obj[1].at = Wkr   \* the ends are alike
        /\ wrk = Running
        /\ run = [t \in Threads |-> Idle]
     \/ /\ role = "worker"
        /\ obj = [p \in Ports |-> NewObj(IF p = 0 THEN Main ELSE Wkr, 1)]
        /\ wrk = Unborn
        /\ run = [t \in Threads |-> IF t = Main THEN Idle ELSE [Idle EXCEPT !.pc = "off"]]
  /\ closing = None
  /\ jobs = [queue |-> <<>>, busy |-> [k \in PoolThreads |-> None]]
  /\ ops = MaxOps

-----------------------------------------------------------------------------
(* The process ends with its main thread.  A native on a port needs mp_mu. *)

Alive == run[Main].pc # "ended"
Free == Alive /\ closing = None

\* t is inside close() or terminate().
Busy(t) == (closing # None /\ closing.by = t) \/ (t = Main /\ wrk.posting)

\* t runs JavaScript of the program: a turn of its loop, a message's handlers,
\* or another callback of the batch ("call").
Turn(t) == ops > 0 /\ ops' = ops - 1 /\ ~Busy(t) /\ run[t].pc \in {"run", "emit", "call"}
Owns(t, p) == Free /\ Turn(t) /\ obj[p].at = t

\* The program's own MessagePort objects: not the one inside a Worker.
Public(p) == role = "channel" \/ p = 1

\* MessagePort.postMessage, and Worker.postMessage through the private end.
postMessage(t, p) ==
  /\ Owns(t, p) /\ ~obj[p].closed /\ wrk.state \notin {"unborn", "failed"}
  /\ Becomes(mport_post(State, t, p))
  /\ UNCHANGED <<obj, run, closing, wrk, jobs, role>>

Draining(p) == [gen |-> obj[p].gen, drains |-> TRUE]
CloseOnly(p) == [gen |-> obj[p].gen, drains |-> FALSE]

\* MessagePort.start: its callback drains the port.
Start(s, t, p) ==
  LET started == mport_start(s, t, p, Draining(p))
  IN IF obj[p].refd THEN started ELSE mport_ref(started, t, p, FALSE)

\* on('message'): the first listener starts the port.
Listen(t, p) ==
  /\ Owns(t, p) /\ Public(p) /\ ~obj[p].listening
  /\ Becomes(IF obj[p].started THEN State ELSE Start(State, t, p))
  /\ obj' = [obj EXCEPT ![p].listening = TRUE, ![p].started = TRUE]
  /\ UNCHANGED <<run, closing, wrk, jobs, role>>

\* The last 'message' listener is removed (a once() listener removes itself).
Unlisten(t, p) ==
  /\ Owns(t, p) /\ Public(p) /\ obj[p].listening
  /\ Becomes(IF obj[p].started THEN mport_stop(State, t, p) ELSE State)
  /\ obj' = [obj EXCEPT ![p].listening = FALSE, ![p].started = FALSE]
  /\ UNCHANGED <<run, closing, wrk, jobs, role>>

\* ref() and unref(), where they change anything.
SetRef(t, p, on) ==
  /\ Owns(t, p) /\ Public(p) /\ (obj[p].refd # on \/ port[p].refd # on)
  /\ Becomes(mport_ref(State, t, p, on))
  /\ obj' = [obj EXCEPT ![p].refd = on]
  /\ UNCHANGED <<run, closing, wrk, jobs, role>>

\* receiveMessageOnPort.
Receive(t, p) ==
  /\ Owns(t, p) /\ Public(p)
  /\ Becomes(IF port[p].queue = <<>> THEN mport_has_none(State, t, p) ELSE mport_take(State, p))
  /\ UNCHANGED <<obj, run, closing, wrk, jobs, role>>

\* A port in a transfer list: this object is no longer its end ...
Detach(t, p) ==
  /\ Owns(t, p) /\ Public(p)
  /\ Becomes(mport_stop(State, t, p))
  /\ obj' = [obj EXCEPT ![p].at = Transit, ![p].started = FALSE, ![p].listening = FALSE]
  /\ UNCHANGED <<run, closing, wrk, jobs, role>>

\* ... and whoever receives the message makes a new one.
Revive(t, p) ==
  /\ Alive /\ Turn(t) /\ obj[p].at = Transit
  /\ obj' = [obj EXCEPT ![p] = NewObj(t, @.gen + 1)]
  /\ UNCHANGED <<loops, port, run, closing, wrk, jobs, role>>

\* MessagePort.close: a port that is not started is started for its 'close'.
CloseBegins(t, p) ==
  /\ Free /\ obj[p].at = t /\ ~obj[p].closed
  /\ LET started == IF obj[p].started THEN State ELSE mport_start(State, t, p, CloseOnly(p))
     IN IF port[p].closed
        THEN Becomes(started) /\ closing' = None
        ELSE Becomes(mport_close_first(started, t, p)) /\ closing' = [by |-> t, port |-> p]
  /\ obj' = [obj EXCEPT ![p].started = TRUE]

close(t, p) ==
  /\ Public(p) /\ Turn(t) /\ CloseBegins(t, p)
  /\ UNCHANGED <<run, wrk, jobs, role>>

CloseEnds(t) ==
  /\ Alive /\ closing # None /\ closing.by = t
  /\ Becomes(mport_close_second(State, t, closing.port))
  /\ closing' = None
  /\ UNCHANGED <<obj, run, wrk, jobs, role, ops>>

Goto(t, pc) == run' = [run EXCEPT ![t].pc = pc]

-----------------------------------------------------------------------------
(* The pool: a submission holds its loop until its completion is delivered. *)

Submit(t) ==
  /\ Alive /\ Turn(t)
  /\ loops' = port_hold(loops, t, t, 1)
  /\ jobs' = [jobs EXCEPT !.queue = Append(@, t)]
  /\ UNCHANGED <<port, obj, run, closing, wrk, role>>

TakeJob(k) ==
  /\ Alive /\ jobs.busy[k] = None /\ jobs.queue # <<>>
  /\ jobs' = [queue |-> Tail(jobs.queue), busy |-> [jobs.busy EXCEPT ![k] = Head(jobs.queue)]]
  /\ UNCHANGED <<loops, port, obj, run, closing, wrk, role, ops>>

FinishJob(k) ==
  /\ Alive /\ jobs.busy[k] # None
  /\ loops' = push_completion(loops, jobs.busy[k], Event("work"))
  /\ jobs' = [jobs EXCEPT !.busy[k] = None]
  /\ UNCHANGED <<port, obj, run, closing, wrk, role, ops>>

-----------------------------------------------------------------------------
(* A Worker: its construction, its thread's start and end, terminate().    *)

Heard(e) == wrk' = [wrk EXCEPT !.heard = Append(@, e)]
HasExited == Contains(wrk.heard, "exit")

workerSpawn ==
  /\ Alive /\ run[Main].pc = "run" /\ wrk.state = "unborn"
  /\ loops' = port_hold(loops, Main, Main, 1)
  /\ wrk' = [wrk EXCEPT !.state = "running", !.held = TRUE]
  /\ run' = [run EXCEPT ![Main].pc = "construct", ![Wkr].pc = "enter"]
  /\ UNCHANGED <<port, obj, closing, jobs, role, ops>>

\* The thread does not start: the constructor throws.
SpawnFails ==
  /\ Alive /\ run[Main].pc = "run" /\ wrk.state = "unborn"
  /\ loops' = port_hold(port_hold(loops, Main, Main, 1), Main, Main, -1)
  /\ wrk' = [wrk EXCEPT !.state = "failed", !.exited = TRUE]
  /\ UNCHANGED <<port, obj, run, closing, jobs, role, ops>>

\* The rest of the constructor: it listens on its end and unreferences it.
Construct ==
  /\ Free /\ run[Main].pc = "construct"
  /\ Becomes(mport_ref(Start(State, Main, 0), Main, 0, FALSE))
  /\ obj' = [obj EXCEPT ![0].started = TRUE, ![0].listening = TRUE, ![0].refd = FALSE]
  /\ Goto(Main, "run")
  /\ UNCHANGED <<closing, wrk, jobs, role, ops>>

\* Mutant: a terminate() that came before the thread ran is forgotten.
worker_enter_unaware ==
  /\ Alive /\ run[Wkr].pc = "enter"
  /\ loops' = kml_post_to_loop(loops, Wkr, Main, Event("online"))
  /\ wrk' = [wrk EXCEPT !.loop = TRUE]
  /\ Goto(Wkr, "run")
  /\ UNCHANGED <<port, obj, closing, jobs, role, ops>>

\* The thread registers its loop; a terminate() that came first is posted
\* now; the parent is told it is online.
worker_enter ==
  /\ Alive /\ run[Wkr].pc = "enter"
  /\ LET told == IF wrk.terminate THEN kml_post_to_loop(loops, Wkr, Wkr, Event("terminate")) ELSE loops
     IN loops' = kml_post_to_loop(told, Wkr, Main, Event("online"))
  /\ wrk' = [wrk EXCEPT !.loop = TRUE]
  /\ Goto(Wkr, "run")
  /\ UNCHANGED <<port, obj, closing, jobs, role, ops>>

\* The thread's end: the parent will hear 'exit'.  The main thread's end is
\* the process's.
Leave(ls, t) ==
  /\ loops' = IF t = Main THEN ls ELSE kml_post_to_loop(ls, Wkr, Main, Event("exit"))
  /\ Goto(t, "ended")

LoopEnds(t) ==
  /\ Alive /\ ~Busy(t) /\ run[t].pc = "run" /\ ~loops[t].refd
  /\ Leave(loops, t)
  /\ UNCHANGED <<port, obj, closing, wrk, jobs, role, ops>>

\* process.exit, or an uncaught error.
Exit(t) ==
  /\ Alive /\ Turn(t)
  /\ Leave(loops, t)
  /\ UNCHANGED <<port, obj, closing, wrk, jobs, role>>

\* Worker.terminate: the flag first, then under w_mu the post.
terminate ==
  /\ Alive /\ Turn(Main) /\ wrk.state = "running" /\ ~HasExited
  /\ wrk' = [wrk EXCEPT !.terminate = TRUE, !.posting = TRUE]
  /\ UNCHANGED <<loops, port, obj, run, closing, jobs, role>>

TerminatePosts ==
  /\ Alive /\ wrk.posting
  /\ loops' = IF wrk.loop /\ ~wrk.exited
              THEN kml_post_to_loop(loops, Main, Wkr, Event("terminate")) ELSE loops
  /\ wrk' = [wrk EXCEPT !.posting = FALSE]
  /\ UNCHANGED <<port, obj, run, closing, jobs, role, ops>>

\* Worker.ref and Worker.unref.
WorkerRef(on) ==
  /\ Alive /\ Turn(Main) /\ wrk.state = "running" /\ ~HasExited
  /\ LET want == on /\ ~wrk.exited
     IN /\ want # wrk.held
        /\ loops' = port_hold(loops, Main, Main, IF want THEN 1 ELSE -1)
        /\ wrk' = [wrk EXCEPT !.held = want]
  /\ UNCHANGED <<port, obj, run, closing, jobs, role>>

-----------------------------------------------------------------------------
(* The loop: woken, it takes the stack at once and dispatches it in the     *)
(* order it was pushed.                                                     *)

\* Mutant: the stack is dispatched as it was taken, newest first.
NotReversed(ls, t) == [ls EXCEPT ![t].wake = FALSE, ![t].batch = ls[t].comp, ![t].comp = <<>>]

Reversed(ls, t) == [ls EXCEPT ![t].wake = FALSE, ![t].batch = Reverse(ls[t].comp), ![t].comp = <<>>]

Wake(t) ==
  /\ Alive /\ ~Busy(t) /\ run[t].pc = "run" /\ loops[t].wake
  /\ loops' = Reversed(loops, t)
  /\ Goto(t, "dispatch")
  /\ UNCHANGED <<port, obj, closing, wrk, jobs, role, ops>>

Dispatching(t, what) ==
  /\ Alive /\ ~Busy(t) /\ run[t].pc = "dispatch" /\ loops[t].batch # <<>>
  /\ Head(loops[t].batch).what \in what

\* The completion no longer holds the loop when its callback runs.
Taken(t) == port_hold([loops EXCEPT ![t].batch = Tail(@)], t, t, -1)

\* The object the callback belongs to is still its port's end.
IsEnd(t, it) == obj[it.port].at = t /\ obj[it.port].gen = it.gen

\* _kmlOnClose: the object is closed and 'close' is emitted, once.
Closes(t, it) == it.what = "closed" /\ IsEnd(t, it) /\ ~obj[it.port].closed

OnClose(t, it) ==
  IF Closes(t, it)
  THEN [obj EXCEPT ![it.port].closed = TRUE, ![it.port].started = FALSE] ELSE obj

\* A port's callback: it drains the port, unless close() started it.
DispatchPort(t) ==
  /\ Dispatching(t, {"messages", "closed"})
  /\ loops' = Taken(t)
  /\ LET it == Head(loops[t].batch)
     IN IF it.drains
        THEN run' = [run EXCEPT ![t] = [pc |-> "drain", item |-> it]] /\ UNCHANGED obj
        ELSE /\ obj' = OnClose(t, it)
             /\ IF Closes(t, it) THEN Goto(t, "call") ELSE UNCHANGED run
  /\ UNCHANGED <<port, closing, wrk, jobs, role, ops>>

\* One turn of _kmlDrain's loop: the oldest message is taken and emitted, to
\* nobody if the last listener has gone ...
DrainOne(t) ==
  LET it == run[t].item
  IN /\ Free /\ ~Busy(t) /\ run[t].pc = "drain"
     /\ IsEnd(t, it) /\ port[it.port].queue # <<>>
     /\ Becomes(mport_take(State, it.port))
     /\ IF obj[it.port].listening THEN Goto(t, "emit") ELSE UNCHANGED run
     /\ UNCHANGED <<obj, closing, wrk, jobs, role, ops>>

\* ... the handlers return ...
EmitReturns(t) ==
  /\ Alive /\ ~Busy(t) /\ run[t].pc = "emit"
  /\ Goto(t, "drain")
  /\ UNCHANGED <<loops, port, obj, closing, wrk, jobs, role, ops>>

\* ... until none waits, or the port is another object's.
DrainEnds(t) ==
  LET it == run[t].item
  IN /\ Free /\ ~Busy(t) /\ run[t].pc = "drain"
     /\ IsEnd(t, it) => port[it.port].queue = <<>>
     /\ Becomes(IF IsEnd(t, it) THEN mport_has_none(State, t, it.port) ELSE State)
     /\ obj' = OnClose(t, it)
     /\ run' = [run EXCEPT ![t] =
                  CASE it.what = "exit" -> [@ EXCEPT !.pc = "exit"]
                    [] Closes(t, it) -> [Idle EXCEPT !.pc = "call"]
                    [] OTHER -> [Idle EXCEPT !.pc = "dispatch"]]
     /\ UNCHANGED <<closing, wrk, jobs, role, ops>>

\* The callback of a job or of 'online' is called ...
DispatchEvent(t) ==
  /\ Dispatching(t, {"online", "work"})
  /\ loops' = Taken(t)
  /\ IF Head(loops[t].batch).what = "online" THEN Heard("online") ELSE UNCHANGED wrk
  /\ Goto(t, "call")
  /\ UNCHANGED <<port, obj, closing, jobs, role, ops>>

\* ... and returns, as does one of 'close' or 'exit'.
CallReturns(t) ==
  /\ Alive /\ ~Busy(t) /\ run[t].pc = "call"
  /\ Goto(t, "dispatch")
  /\ UNCHANGED <<loops, port, obj, closing, wrk, jobs, role, ops>>

\* kml_terminate_cb: the thread ends here, whatever its loop still holds.
DispatchTerminate(t) ==
  /\ Dispatching(t, {"terminate"})
  /\ Leave(Taken(t), t)
  /\ UNCHANGED <<port, obj, closing, wrk, jobs, role, ops>>

\* _kmlOnExit: the worker no longer holds the loop; what it posted is
\* drained first (a Worker whose ports are not modelled has nothing).
DispatchExit ==
  /\ Dispatching(Main, {"exit"})
  /\ loops' = IF wrk.held THEN port_hold(Taken(Main), Main, Main, -1) ELSE Taken(Main)
  /\ wrk' = [wrk EXCEPT !.exited = TRUE, !.held = FALSE,
                        !.heard = IF role = "worker" THEN @ ELSE Append(@, "exit")]
  /\ run' = IF role = "worker"
            THEN [run EXCEPT ![Main] = [pc |-> "drain", item |-> PortItem("exit", Draining(0), 0)]]
            ELSE [run EXCEPT ![Main].pc = "call"]
  /\ UNCHANGED <<port, obj, closing, jobs, role, ops>>

\* ... then its end closes and 'exit' is emitted.
ExitHeard ==
  /\ run[Main].pc = "exit"
  /\ IF obj[0].closed THEN Free /\ UNCHANGED <<loops, port, obj, closing>> ELSE CloseBegins(Main, 0)
  /\ Heard("exit")
  /\ run' = [run EXCEPT ![Main] = [Idle EXCEPT !.pc = "call"]]
  /\ UNCHANGED <<jobs, role, ops>>

\* The batch is done: the reference is matched to the hold count.
DispatchDone(t) ==
  /\ Alive /\ ~Busy(t) /\ run[t].pc = "dispatch" /\ loops[t].batch = <<>>
  /\ loops' = [loops EXCEPT ![t].refd = loops[t].inflight > 0]
  /\ Goto(t, "run")
  /\ UNCHANGED <<port, obj, closing, wrk, jobs, role, ops>>

-----------------------------------------------------------------------------
\* What the program decides to do.
Program(t) ==
  \/ \E p \in Ports : postMessage(t, p) \/ Listen(t, p) \/ Unlisten(t, p) \/ Receive(t, p)
  \/ \E p \in Ports : Detach(t, p) \/ Revive(t, p) \/ close(t, p)
  \/ \E p \in Ports, on \in BOOLEAN : SetRef(t, p, on)
  \/ Submit(t) \/ Exit(t)

Owner == workerSpawn \/ SpawnFails \/ terminate \/ \E on \in BOOLEAN : WorkerRef(on)

\* What the runtime does next on thread t.
Runtime(t) ==
  \/ CloseEnds(t) \/ Wake(t) \/ DispatchPort(t) \/ DrainOne(t) \/ EmitReturns(t) \/ DrainEnds(t)
  \/ DispatchEvent(t) \/ CallReturns(t) \/ DispatchTerminate(t) \/ DispatchDone(t) \/ LoopEnds(t)

MainOnly == Construct \/ TerminatePosts \/ DispatchExit \/ ExitHeard

Pool(k) == TakeJob(k) \/ FinishJob(k)

Next ==
  \/ \E t \in Threads : Program(t) \/ Runtime(t)
  \/ Owner \/ MainOnly \/ worker_enter
  \/ \E k \in PoolThreads : Pool(k)

\* Every thread that can take a step of the runtime takes one in the end: the
\* loops run, handlers return, jobs finish.
Fairness ==
  /\ \A t \in Threads : WF_vars(Runtime(t))
  /\ WF_vars(MainOnly) /\ WF_vars(worker_enter)
  /\ \A k \in PoolThreads : WF_vars(Pool(k))

Spec == Init /\ [][Next]_vars /\ Fairness

-----------------------------------------------------------------------------
(* Properties.                                                             *)

Items(t) == loops[t].comp \o loops[t].batch
HeldPorts(t) == {p \in Ports : port[p].held /\ port[p].loop = t}
JobsOf(t) == Cardinality({i \in DOMAIN jobs.queue : jobs.queue[i] = t})
             + Cardinality({k \in PoolThreads : jobs.busy[k] = t})
WorkerHolds(t) == IF t = Main /\ wrk.held THEN 1 ELSE 0

Invs == {None} \cup [gen : 1 .. MaxOps + 1, drains : BOOLEAN]
Whats == {"none", "messages", "closed", "terminate", "online", "exit", "work"}
ItemType == [what : Whats, port : Ports, gen : 0 .. MaxOps + 1, drains : BOOLEAN]

\* Types of the ports, the objects and the loops (kml_loop_port, kml_mport,
\* MessagePort, kml_wctx).
TypeOK ==
  /\ \A t \in Threads :
       /\ \A i \in 1 .. Len(Items(t)) : Items(t)[i] \in ItemType
       /\ loops[t].inflight \in Nat
       /\ loops[t].refd \in BOOLEAN /\ loops[t].wake \in BOOLEAN
       /\ run[t].item \in ItemType
       /\ run[t].pc \in {"off", "enter", "construct", "run", "dispatch", "drain", "emit", "call", "exit", "ended"}
  /\ \A p \in Ports :
       /\ port[p].loop \in Threads \cup {None} /\ port[p].inv \in Invs
       /\ port[p].queue \in Seq(1 .. MaxOps) /\ port[p].sent \in 0 .. MaxOps
       /\ obj[p].at \in Threads \cup {Transit} /\ obj[p].gen \in 1 .. MaxOps + 1

\* The hold count of a loop is exactly what holds it: its held ports, its
\* jobs, its Worker and the completions not yet dispatched, through every
\* start, stop, transfer, close from the other side, exit and terminate().
\* A count too low ends the loop early, one too high never ends it.
HoldCount ==
  \A t \in Threads :
    loops[t].inflight = Cardinality(HeldPorts(t)) + JobsOf(t) + Len(Items(t)) + WorkerHolds(t)

\* A loop that has a started, referenced, open port, a job or a referenced
\* Worker is referenced, so it cannot run out: no change of the count by
\* another thread leaves the wakeup unreferenced meanwhile.
HeldRunsOn ==
  \A t \in Threads :
    (HeldPorts(t) # {} \/ JobsOf(t) > 0 \/ WorkerHolds(t) > 0) => loops[t].refd

\* The callback of p's present object, when it drains, is on its way or running.
Coming(p) ==
  LET t == obj[p].at
      Ours(it) == it.port = p /\ it.gen = obj[p].gen /\ it.drains
  IN \/ \E i \in 1 .. Len(Items(t)) : Ours(Items(t)[i])
     \/ run[t].pc \in {"drain", "emit"} /\ Ours(run[t].item)

\* The port's object has a listener, its callback drains it, its thread runs.
Listening(p) ==
  /\ obj[p].at # Transit /\ obj[p].listening /\ port[p].loop # None /\ port[p].inv.drains
  /\ Alive /\ run[obj[p].at].pc # "ended"

\* What a listening port still owes its object, a queued message or its
\* 'close', is never stranded: the callback that will deliver it is in flight
\* to, or running on, the thread that owns the port now, whatever
\* notifications to earlier owners are still under way.
NotStranded ==
  \A p \in Ports :
    /\ Listening(p) /\ closing = None
    /\ port[p].queue # <<>> \/ (port[p].closed /\ ~port[p].closeSent)
    => Coming(p)

\* 'close' is the last thing an object emits: nothing waits on its port then
\* and nothing is queued later.
CloseIsLast == \A p \in Ports : obj[p].closed => port[p].closed /\ port[p].queue = <<>>

\* A Worker object emits 'online' first and 'exit' last, once each, and by
\* 'exit' it has emitted every message its thread posted.
WorkerEvents ==
  /\ wrk.heard \in {<<>>, <<"online">>, <<"online", "exit">>}
  /\ role = "worker" /\ HasExited => port[0].queue = <<>>

\* A port that listens is drained in the end (the programs post finitely
\* often), unless the program stops listening or the thread ends.
Delivered ==
  \A p \in Ports : Listening(p) ~> (port[p].queue = <<>> \/ ~Listening(p))

\* terminate() ends in 'exit', whenever it comes: before the thread runs,
\* while it runs, and after it has left.
TerminateEnds == wrk.terminate ~> (HasExited \/ ~Alive)
=============================================================================

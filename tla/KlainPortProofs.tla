-------------------------- MODULE KlainPortProofs --------------------------
(***************************************************************************)
(* Theorems about KlainPort: the steps of the pool and of the Worker keep  *)
(* the inductive invariant too, so every step of Next does, and PortInv    *)
(* implies the safety properties.                                          *)
(***************************************************************************)
EXTENDS KlainPortSteps

-----------------------------------------------------------------------------
(* terminate(), and the events of the Worker that its parent dispatches.   *)

\* What a step that leaves everything but the loops and the Worker's flags
\* alone has to show.
LEMMA QuietLoops ==
  ASSUME PortInv, QuietStep, ops' \in Nat, ops' <= ops, closing' = closing
  PROVE  Base(State, Ctx') /\ Around'
<1>1. closing' \in {None} \cup [by : Threads, port : Ports]
  BY DEF PortInv, Around
<1> QED BY <1>1, QuietContext, QuietAround

\* terminate() keeps the invariant.
LEMMA StepTerminate ==
  ASSUME PortInv, terminate
  PROVE  PortInv'
<1>1. /\ wrk' = [wrk EXCEPT !.terminate = TRUE, !.posting = TRUE]
      /\ UNCHANGED <<loops, port, obj, run, closing, jobs, role>> /\ ops > 0 /\ ops' = ops - 1
  BY DEF terminate, Turn
<1>2. QuietStep
  <2>1. /\ wrk' \in WrkType /\ wrk'.held = wrk.held /\ wrk'.state = wrk.state /\ wrk'.heard = wrk.heard
    BY <1>1, InvParts DEF WrkType
  <2> QED BY <1>1, <2>1, InvParts DEF QuietStep, SameObjects
<1>3. ops' \in Nat /\ ops' <= ops
  BY <1>1, InvParts
<1>4. Base(State, Ctx') /\ Around'
  BY <1>1, <1>2, <1>3, QuietLoops
<1> QED BY <1>1, <1>4, SameStep

\* Its post to the Worker's loop keeps the invariant.
LEMMA StepTerminatePosts ==
  ASSUME PortInv, TerminatePosts
  PROVE  PortInv'
<1>1. /\ wrk' = [wrk EXCEPT !.posting = FALSE]
      /\ UNCHANGED <<port, obj, run, closing, jobs, role, ops>>
      /\ loops' = kml_post_to_loop(loops, Main, Wkr, Event("terminate")) \/ loops' = loops
  BY DEF TerminatePosts
<1>2. QuietStep
  <2>1. /\ wrk' \in WrkType /\ wrk'.held = wrk.held /\ wrk'.state = wrk.state /\ wrk'.heard = wrk.heard
    BY <1>1, InvParts DEF WrkType
  <2> QED BY <1>1, <2>1, InvParts DEF QuietStep, SameObjects
<1>3. ops' \in Nat /\ ops' <= ops
  BY <1>1, InvParts
<1>4. Base(State, Ctx') /\ Around'
  BY <1>1, <1>2, <1>3, QuietLoops
<1>5. CASE loops' = loops
  BY <1>1, <1>4, <1>5, SameStep
<1>6. CASE loops' = kml_post_to_loop(loops, Main, Wkr, Event("terminate"))
  <2>1. PICK r : r = PostedTo(State, Main, Wkr, Event("terminate"))
    OBVIOUS
  <2>2. r.loops = loops' /\ r.port = port
    BY <1>6, <2>1, InvParts DEF PostedTo, With
  <2>3. Postable(State, Event("terminate")) /\ Event("terminate").what = "terminate"
    BY EventFacts DEF Whats
  <2>4. Base(r, Ctx')
    <3>1. PICK d : d = Ctx'
      OBVIOUS
    <3>2. Base(r, d)
      BY <1>4, <2>1, <2>3, <3>1, PostKeeps, InvParts
    <3> QED BY <3>1, <3>2
  <2> QED BY <1>1, <1>4, <2>2, <2>4, LoopStep
<1> QED BY <1>1, <1>5, <1>6

\* Only a port's callback drains.
LEMMA EventDrainsNot ==
  ASSUME PortInv, NEW t \in Threads, NEW it \in Bag(State, t), it.what \notin {"messages", "closed"}
  PROVE  ~it.drains
BY DEF PortInv, Base, Rest, Ended

\* The dispatch of a finished job keeps the invariant.
LEMMA StepWork ==
  ASSUME PortInv, NEW t \in Threads, DispatchEvent(t), Head(loops[t].batch).what = "work"
  PROVE  PortInv'
<1>0. PICK it : it = Head(loops[t].batch)
  OBVIOUS
<1>1. /\ State.loops[t].batch # <<>> /\ it = Head(State.loops[t].batch) /\ it \in Bag(State, t)
      /\ TakenOn(State, t).loops = Taken(t) /\ TakenOn(State, t).port = port /\ it.what = "work"
      /\ run[t].pc = "dispatch"
  BY <1>0, DispatchFacts DEF DispatchEvent
<1>2. UNCHANGED <<port, obj, closing, wrk, jobs, role, ops>> /\ loops' = Taken(t) /\ Goto(t, "call")
  BY DEF DispatchEvent
<1>3. /\ run' \in [Threads -> RunType] /\ run'[t].pc = "call" /\ run'[t].item = run[t].item
      /\ \A u \in Threads : u # t => run'[u] = run[u]
  BY <1>2, GotoFacts DEF Pcs
<1>4. Base(State, Ctx') /\ Around'
  <2>1. ThreadStep(t) /\ SameEndsOf /\ NoNewExit(t) /\ Goes(run[t], run'[t])
    BY <1>1, <1>2, <1>3, InvParts DEF ThreadStep, SameWorker, SameEndsOf, NoNewExit, Goes
  <2>2. closing' \in {None} \cup [by : Threads, port : Ports] /\ Base(State, Ctx)
    BY <1>2 DEF PortInv, Around
  <2> QED BY <1>1, <1>2, <1>3, <2>1, <2>2, ThreadGoes, ItemOver
<1>5. ~it.drains
  BY <1>1, EventDrainsNot
<1>6. PICK r : r = TakenOn(State, t)
  OBVIOUS
<1>7. Base(r, Ctx')
  <2>1. PICK d : d = Ctx'
    OBVIOUS
  <2>2. Base(r, d)
    BY <1>1, <1>4, <1>5, <1>6, <2>1, TakenKeeps
  <2> QED BY <2>1, <2>2
<1> QED BY <1>1, <1>2, <1>4, <1>6, <1>7, LoopStep

\* 'online' is emitted: nothing was before it.
LEMMA StepOnline ==
  ASSUME PortInv, NEW t \in Threads, DispatchEvent(t), Head(loops[t].batch).what = "online"
  PROVE  PortInv'
<1>0. PICK it : it = Head(loops[t].batch)
  OBVIOUS
<1>1. /\ State.loops[t].batch # <<>> /\ it = Head(State.loops[t].batch) /\ it \in Bag(State, t)
      /\ TakenOn(State, t).loops = Taken(t) /\ TakenOn(State, t).port = port /\ it.what = "online"
      /\ run[t].pc = "dispatch"
  BY <1>0, DispatchFacts DEF DispatchEvent
<1>2. /\ UNCHANGED <<port, obj, closing, jobs, role, ops>> /\ loops' = Taken(t) /\ Goto(t, "call")
      /\ wrk' = [wrk EXCEPT !.heard = Append(wrk.heard, "online")]
  BY DEF DispatchEvent, Heard
<1>3. t = Main
  BY <1>1 DEF PortInv, Base, Events, Threads
<1>4. PICK c, d : c = Ctx /\ d = Ctx'
  OBVIOUS
<1>5. Base(State, c) /\ Rest(State, c) /\ Events(State, c)
  BY <1>4 DEF PortInv, Base
<1>6. ~it.drains
  BY <1>1, EventDrainsNot
<1>7. PICK r : r = TakenOn(State, Main)
  OBVIOUS
<1>8. Rest(r, c) /\ TakenOk(State, r, Main)
  BY <1>1, <1>3, <1>5, <1>6, <1>7, TakenRests, InvParts
<1>9. PICK q, b, a : q = State.loops[Main].comp /\ b = State.loops[Main].batch /\ a = r.loops[Main].batch
  OBVIOUS
<1>10. TailOrder(q, b, a) /\ r.loops[Main].comp = q
  <2>1. Parts(State)
    BY InvParts, TypedParts
  <2>2. b \in Seq(ItemType) /\ b # <<>> /\ IsTail(b, a) /\ InOrder(q, b) /\ r.loops[Main].comp = q
    BY <1>1, <1>3, <1>5, <1>8, <1>9, <2>1, InvParts DEF Parts, TakenOk, Events
  <2> QED BY <2>2, OrderTail
<1>11. /\ ~Sends(r, "online") /\ (Sends(r, "exit") <=> Sends(State, "exit")) /\ Sends(State, "online")
       /\ InOrder(r.loops[Main].comp, r.loops[Main].batch)
  BY <1>1, <1>3, <1>9, <1>10 DEF Sends, TailOrder
<1>12. c.run = run /\ c.heard = <<>> /\ run[Wkr].pc \notin {"off", "enter"}
  BY <1>4, <1>5, <1>11, CtxParts DEF Events
<1>r. /\ run' \in [Threads -> RunType] /\ run'[Main].pc = "call" /\ run'[Main].item = run[Main].item
      /\ \A u \in Threads : u # Main => run'[u] = run[u]
  BY <1>2, <1>3, GotoFacts DEF Pcs
<1>13. wrk' \in WrkType /\ wrk'.heard = <<"online">> /\ wrk'.held = wrk.held /\ wrk'.state = wrk.state
  <2>1. Append(wrk.heard, "online") = <<"online">> /\ <<"online">> \in Seq({"online", "exit"})
    BY <1>4, <1>12, CtxParts, HeardSequences
  <2> QED BY <1>2, <2>1, InvParts DEF WrkType
<1>14. /\ d.run = run' /\ d.heard = <<"online">> /\ d.need = c.need /\ d.obj = c.obj
       /\ d.role = c.role /\ d.left = c.left /\ CtxOk(c)
  BY <1>2, <1>4, <1>13, CtxParts, InvParts
<1>15. CtxOk(d) /\ RestMove(r, c, d, Main)
  <2>1. Ended(r, c) /\ Resting(r, c)
    BY <1>8 DEF Rest
  <2> QED BY <1>12, <1>r, <1>14, <2>1, InvParts DEF CtxOk, RestMove, Ended, Resting
<1>16. <<"online">> # <<>> /\ <<"online">> # <<"online", "exit">>
  OBVIOUS
<1>17. Told(r, d) /\ Drained(r, d)
  <2>1. /\ \A u \in Threads : d.run[u].item = c.run[u].item
        /\ \A u \in Threads : d.run[u].pc = "ended" <=> c.run[u].pc = "ended"
        /\ \A u \in Threads : c.run[u].pc \in {"drain", "emit"} => d.run[u].pc = c.run[u].pc
        /\ d.run[Main].pc # "exit"
    BY <1>1, <1>3, <1>12, <1>r, <1>14
  <2>2. \A p \in Ports : r.port[p].loop # None => r.port[p].loop \in Threads
    BY <1>8 DEF Rest, Typed, PortType
  <2>3. Told(r, c)
    BY <1>8 DEF Rest
  <2>4. Told(r, d)
    BY <2>1, <2>2, <2>3 DEF Told, Arriving
  <2> QED BY <1>8, <1>14, <1>16, <2>1, <2>4 DEF Rest, Drained, Gone
<1>18. Rest(r, d)
  BY <1>8, <1>15, <1>17, RestMoves, InvParts
<1>19. Events(r, d)
  <2>1. \A y \in Bag(r, Wkr) : y.what \notin {"online", "exit"}
    BY <1>5, <1>8, InvParts DEF Events, TakenOk
  <2>2. ~Exiting(d) /\ ~Gone(d) /\ ~Exiting(c)
    BY <1>1, <1>3, <1>12, <1>r, <1>14, <1>16 DEF Exiting, Gone
  <2>w. d.run[Wkr] = c.run[Wkr]
    BY <1>12, <1>r, <1>14, InvParts
  <2>3. Sends(r, "exit") => d.run[Wkr].pc = "ended"
    BY <1>5, <1>11, <2>w DEF Events
  <2> QED BY <1>11, <1>12, <1>14, <1>16, <2>1, <2>2, <2>3, <2>w DEF Events
<1>20. Around'
  <2>1. ThreadStep(Main)
    BY <1>2, <1>13, <1>r, InvParts DEF ThreadStep, SameWorker
  <2>2. ~Exiting(Ctx') /\ run'[Main].pc = "call"
    BY <1>r, CtxParts DEF Exiting
  <2>3. AroundAllowed(Main)
    BY <1>1, <1>2, <1>3, <2>2 DEF AroundAllowed, PortInv, Around
  <2> QED BY <2>1, <2>3, ThreadAround, InvParts
<1> QED BY <1>1, <1>2, <1>3, <1>4, <1>7, <1>18, <1>19, <1>20, LoopStep DEF Base

-----------------------------------------------------------------------------
(* The end of a thread, and the dispatch of its 'exit'.                    *)

\* A thread leaves: the parent hears of the Worker's end, the process ends
\* with the main thread.
LEMMA LeaveStep ==
  ASSUME PortInv, NEW t \in Threads, NEW s, Base(s, Ctx), s.port = port, Leave(s.loops, t),
         UNCHANGED <<port, obj, closing, wrk, jobs, role>>, ops' \in Nat, ops' <= ops,
         run[t].pc \notin {"off", "enter", "ended"}
  PROVE  PortInv'
<1>1. /\ run' \in [Threads -> RunType] /\ run'[t].pc = "ended" /\ run'[t].item = run[t].item
      /\ \A u \in Threads : u # t => run'[u] = run[u]
  BY GotoFacts DEF Pcs, Leave
<1>2. ThreadStep(t) /\ SameEndsOf /\ NoNewExit(t) /\ Goes(run[t], run'[t]) /\ wrk'.heard = wrk.heard
  BY <1>1, InvParts DEF ThreadStep, SameWorker, SameEndsOf, NoNewExit, Goes
<1>3. closing' \in {None} \cup [by : Threads, port : Ports]
  BY DEF PortInv, Around
<1>4. Base(s, Ctx') /\ Around'
  BY <1>1, <1>2, <1>3, ThreadGoes, ItemOver
<1>5. CASE t = Main
  <2>1. loops' = s.loops
    BY <1>5 DEF Leave
  <2> QED BY <1>4, <2>1, LoopStep
<1>6. CASE t = Wkr
  <2>1. PICK d : d = Ctx'
    OBVIOUS
  <2>2. d.run = run' /\ d.heard = wrk.heard /\ d.run[Wkr].pc = "ended" /\ d.run[Main] = run[Main]
    BY <1>1, <1>2, <1>6, <2>1, CtxParts, InvParts
  <2>3. ~Sends(s, "exit") /\ ~Exiting(Ctx) /\ ~Gone(Ctx)
    BY <1>6, CtxParts DEF Base, Events
  <2>4. ~Exiting(d) /\ ~Gone(d)
    BY <2>2, <2>3, CtxParts DEF Exiting, Gone
  <2>5. PICK r : r = PostedTo(s, Wkr, Main, Event("exit"))
    OBVIOUS
  <2>6. Base(r, d)
    BY <1>4, <2>1, <2>2, <2>3, <2>4, <2>5, ExitPosts
  <2>7. r.port = port /\ loops' = r.loops
    BY <1>6, <2>5, InvParts DEF PostedTo, With, Leave
  <2> QED BY <1>4, <2>1, <2>6, <2>7, LoopStep
<1> QED BY <1>5, <1>6 DEF Threads

\* The end of a loop keeps the invariant.
LEMMA StepLoopEnds ==
  ASSUME PortInv, NEW t \in Threads, LoopEnds(t)
  PROVE  PortInv'
<1>1. UNCHANGED <<port, obj, closing, wrk, jobs, role, ops>> /\ run[t].pc = "run" /\ Leave(loops, t)
  BY DEF LoopEnds
<1>2. PICK s : s = State
  OBVIOUS
<1>3. Base(s, Ctx) /\ s.port = port /\ Leave(s.loops, t)
  BY <1>1, <1>2, InvParts DEF PortInv
<1> QED BY <1>1, <1>3, LeaveStep, InvParts

\* process.exit keeps the invariant.
LEMMA StepExit ==
  ASSUME PortInv, NEW t \in Threads, Exit(t)
  PROVE  PortInv'
<1>1. /\ UNCHANGED <<port, obj, closing, wrk, jobs, role>> /\ run[t].pc \in {"run", "emit", "call"}
      /\ Leave(loops, t) /\ ops > 0 /\ ops' = ops - 1
  BY DEF Exit, Turn
<1>2. PICK s : s = State
  OBVIOUS
<1>3. Base(s, Ctx) /\ s.port = port /\ Leave(s.loops, t)
  BY <1>1, <1>2, InvParts DEF PortInv
<1>4. ops' \in Nat /\ ops' <= ops
  BY <1>1, InvParts
<1> QED BY <1>1, <1>3, <1>4, LeaveStep

\* A terminate() that reaches the thread keeps the invariant.
LEMMA StepDispatchTerminate ==
  ASSUME PortInv, NEW t \in Threads, DispatchTerminate(t)
  PROVE  PortInv'
<1>0. PICK it : it = Head(loops[t].batch)
  OBVIOUS
<1>1. /\ State.loops[t].batch # <<>> /\ it = Head(State.loops[t].batch) /\ it \in Bag(State, t)
      /\ TakenOn(State, t).loops = Taken(t) /\ TakenOn(State, t).port = port /\ it.what = "terminate"
      /\ run[t].pc = "dispatch"
  BY <1>0, DispatchFacts DEF DispatchTerminate
<1>2. UNCHANGED <<port, obj, closing, wrk, jobs, role, ops>> /\ Leave(Taken(t), t)
  BY DEF DispatchTerminate
<1>3. ~it.drains
  BY <1>1, EventDrainsNot
<1>4. PICK s : s = TakenOn(State, t)
  OBVIOUS
<1>5. Base(s, Ctx)
  BY <1>1, <1>3, <1>4, TakenKeeps DEF PortInv
<1>6. s.port = port /\ Leave(s.loops, t)
  BY <1>1, <1>2, <1>4
<1> QED BY <1>1, <1>2, <1>5, <1>6, LeaveStep, InvParts

-----------------------------------------------------------------------------
(* Who needs a loop: the jobs of its program, the Worker of the parent.    *)

Queued(q, t) == Cardinality({i \in DOMAIN q : q[i] = t})
AtWork(b, t) == Cardinality({k \in PoolThreads : b[k] = t})
One(u, t) == IF u = t THEN 1 ELSE 0

\* The queued jobs of t are finitely many.
LEMMA QueuedFinite ==
  ASSUME NEW q \in Seq(Threads), NEW t
  PROVE  IsFiniteSet({i \in DOMAIN q : q[i] = t}) /\ Queued(q, t) \in Nat
<1>1. PICK S : S = {i \in DOMAIN q : q[i] = t}
  OBVIOUS
<1>2. S \subseteq 1 .. Len(q) /\ Len(q) \in Nat
  BY <1>1
<1>3. IsFiniteSet(1 .. Len(q))
  BY <1>2, FS_Interval
<1>4. IsFiniteSet(S) /\ Cardinality(S) \in Nat
  BY <1>2, <1>3, FS_Subset, FS_CardinalityType
<1> QED BY <1>1, <1>4 DEF Queued

\* So are those its pool threads work on.
LEMMA AtWorkFinite ==
  ASSUME NEW b, NEW t
  PROVE  IsFiniteSet({k \in PoolThreads : b[k] = t}) /\ AtWork(b, t) \in Nat
<1>1. PICK S : S = {k \in PoolThreads : b[k] = t}
  OBVIOUS
<1>2. S \subseteq PoolThreads
  BY <1>1
<1>3. IsFiniteSet(S) /\ Cardinality(S) \in Nat
  BY <1>2, Distinct, FS_Subset, FS_CardinalityType
<1> QED BY <1>1, <1>3 DEF AtWork

\* One more of something: the set with the element added, or not.
LEMMA AddOne ==
  ASSUME NEW S, IsFiniteSet(S), NEW x, x \notin S, NEW u, NEW t, NEW R,
         R = IF u = t THEN S \cup {x} ELSE S
  PROVE  Cardinality(R) = Cardinality(S) + One(u, t) /\ Cardinality(S) \in Nat
<1>1. Cardinality(S) \in Nat
  BY FS_CardinalityType
<1>2. Cardinality(S \cup {x}) = Cardinality(S) + 1
  BY FS_AddElement
<1> QED BY <1>1, <1>2 DEF One

\* A job submitted.
LEMMA QueuedAppend ==
  ASSUME NEW q \in Seq(Threads), NEW u \in Threads, NEW t
  PROVE  Queued(Append(q, u), t) = Queued(q, t) + One(u, t)
<1>1. PICK r \in Seq(Threads) : r = Append(q, u)
  BY AppendProperties
<1>2. PICK n \in Nat : n = Len(q) /\ DOMAIN q = 1 .. n
  OBVIOUS
<1>3. DOMAIN r = 1 .. n + 1 /\ r[n + 1] = u /\ \A i \in 1 .. n : r[i] = q[i]
  BY <1>1, <1>2, AppendProperties
<1>4. PICK S, R : S = {i \in DOMAIN q : q[i] = t} /\ R = {i \in DOMAIN r : r[i] = t}
  OBVIOUS
<1>5. PICK m : m = n + 1 /\ m \notin S /\ R = IF u = t THEN S \cup {m} ELSE S
  BY <1>2, <1>3, <1>4
<1>f. IsFiniteSet(S)
  BY <1>4, QueuedFinite
<1>6. Cardinality(R) = Cardinality(S) + One(u, t)
  BY <1>5, <1>f, AddOne
<1> QED BY <1>1, <1>4, <1>6 DEF Queued

\* The oldest job taken.
LEMMA QueuedTail ==
  ASSUME NEW q \in Seq(Threads), q # <<>>, NEW t
  PROVE  Queued(q, t) = Queued(Tail(q), t) + One(Head(q), t)
<1>1. PICK r \in Seq(Threads) : r = Tail(q)
  BY HeadTailProperties
<1>2. PICK n \in Nat : n = Len(r) /\ DOMAIN r = 1 .. n
  OBVIOUS
<1>3. DOMAIN q = 1 .. n + 1 /\ q[1] = Head(q) /\ \A i \in 1 .. n : r[i] = q[i + 1]
  BY <1>1, <1>2, HeadTailProperties, EmptySeq
<1>4. PICK S, R : S = {i \in DOMAIN r : r[i] = t} /\ R = {i \in DOMAIN q : q[i] = t}
  OBVIOUS
<1>5. PICK T : T = {i \in 2 .. n + 1 : q[i] = t}
  OBVIOUS
<1>6. PICK f : f = [i \in S |-> i + 1]
  OBVIOUS
<1>7. f \in Bijection(S, T)
  <2>1. \A i \in S : f[i] \in T
    BY <1>2, <1>3, <1>4, <1>5, <1>6
  <2>2. \A i, j \in S : f[i] = f[j] => i = j
    BY <1>2, <1>4, <1>6
  <2>3. \A j \in T : \E i \in S : f[i] = j
    <3> SUFFICES ASSUME NEW j \in T PROVE \E i \in S : f[i] = j
      OBVIOUS
    <3>1. j \in 2 .. n + 1 /\ q[j] = t
      BY <1>5
    <3>2. j - 1 \in 1 .. n /\ (j - 1) + 1 = j
      BY <3>1
    <3>3. j - 1 \in S
      BY <1>2, <1>3, <1>4, <3>1, <3>2
    <3> QED BY <1>6, <3>2, <3>3
  <2>4. f \in [S -> T]
    BY <1>6, <2>1
  <2> QED BY <2>2, <2>3, <2>4 DEF Bijection, Injection, Surjection, IsInjective
<1>8. IsFiniteSet(S)
  BY <1>4, QueuedFinite
<1>9. IsFiniteSet(T) /\ Cardinality(T) = Cardinality(S)
  BY <1>7, <1>8, FS_Bijection DEF ExistsBijection
<1>10. 1 \notin T /\ R = IF Head(q) = t THEN T \cup {1} ELSE T
  BY <1>2, <1>3, <1>4, <1>5
<1>11. Cardinality(R) = Cardinality(T) + One(Head(q), t)
  BY <1>9, <1>10, AddOne
<1> QED BY <1>1, <1>4, <1>9, <1>11 DEF Queued

\* A pool thread begins a job, or has finished one, seen backwards.
LEMMA AtWorkBegins ==
  ASSUME NEW b, NEW k \in PoolThreads, b[k] = None, NEW u, NEW t \in Threads,
         NEW r, r[k] = u, \A j \in PoolThreads : j # k => r[j] = b[j]
  PROVE  AtWork(r, t) = AtWork(b, t) + One(u, t)
<1>1. PICK S, R : S = {j \in PoolThreads : b[j] = t} /\ R = {j \in PoolThreads : r[j] = t}
  OBVIOUS
<1>2. k \notin S /\ R = IF u = t THEN S \cup {k} ELSE S
  BY <1>1, Distinct DEF Threads
<1>3. Cardinality(R) = Cardinality(S) + One(u, t)
  <2>1. IsFiniteSet(S)
    BY <1>1, AtWorkFinite
  <2> QED BY <1>2, <2>1, AddOne
<1> QED BY <1>1, <1>3 DEF AtWork

\* A loop is needed by the queued jobs q, those the pool threads b work on,
\* and, the parent's, n times by the Worker.
Need(q, b, n, t) == Queued(q, t) + AtWork(b, t) + (IF t = Main THEN n ELSE 0)
Holding(w) == IF w.held THEN 1 ELSE 0

\* What Ctx says of who needs a loop, before and after a step.
LEMMA NeedFacts ==
  ASSUME NEW t \in Threads
  PROVE  /\ Ctx.need[t] = Need(jobs.queue, jobs.busy, Holding(wrk), t)
         /\ Ctx'.need[t] = Need(jobs'.queue, jobs'.busy, Holding(wrk'), t)
         /\ DOMAIN Ctx'.need = Threads /\ Ctx'.need = [u \in Threads |-> Ctx'.need[u]]
<1>1. Ctx.need[t] = Need(jobs.queue, jobs.busy, Holding(wrk), t)
  BY DEF Ctx, Need, JobsOf, WorkerHolds, Queued, AtWork, Holding
<1>2. /\ Ctx'.need[t] = Need(jobs'.queue, jobs'.busy, Holding(wrk'), t)
      /\ DOMAIN Ctx'.need = Threads /\ Ctx'.need = [u \in Threads |-> Ctx'.need[u]]
  BY DEF Ctx, Need, JobsOf, WorkerHolds, Queued, AtWork, Holding
<1> QED BY <1>1, <1>2

\* It is a number.
LEMMA NeedNat ==
  ASSUME NEW q \in Seq(Threads), NEW b, NEW n \in {0, 1}, NEW t \in Threads
  PROVE  Need(q, b, n, t) \in Nat
<1>1. Queued(q, t) \in Nat /\ AtWork(b, t) \in Nat
  BY QueuedFinite, AtWorkFinite
<1> QED BY <1>1 DEF Need

\* A job submitted is one more.
LEMMA NeedSubmits ==
  ASSUME NEW q \in Seq(Threads), NEW b, NEW n \in {0, 1}, NEW t \in Threads, NEW u \in Threads
  PROVE  Need(Append(q, u), b, n, t) = Need(q, b, n, t) + One(u, t)
<1>1. Queued(q, t) \in Nat /\ AtWork(b, t) \in Nat /\ One(u, t) \in {0, 1}
  BY QueuedFinite, AtWorkFinite DEF One
<1>2. Queued(Append(q, u), t) = Queued(q, t) + One(u, t)
  BY QueuedAppend
<1> QED BY <1>1, <1>2 DEF Need

\* A job begun is the same one.
LEMMA NeedBegins ==
  ASSUME NEW q \in Seq(Threads), NEW b \in [PoolThreads -> Threads \cup {None}], NEW n \in {0, 1},
         NEW t \in Threads, NEW k \in PoolThreads, b[k] = None, q # <<>>
  PROVE  Need(Tail(q), [b EXCEPT ![k] = Head(q)], n, t) = Need(q, b, n, t)
<1>1. PICK r, u, a : r = Tail(q) /\ u = Head(q) /\ a = [b EXCEPT ![k] = u]
  OBVIOUS
<1>2. r \in Seq(Threads) /\ u \in Threads
  BY <1>1, HeadTailProperties
<1>3. Queued(q, t) = Queued(r, t) + One(u, t)
  BY <1>1, QueuedTail
<1>4. AtWork(a, t) = AtWork(b, t) + One(u, t)
  <2>1. a[k] = u /\ \A j \in PoolThreads : j # k => a[j] = b[j]
    BY <1>1
  <2> QED BY <2>1, AtWorkBegins
<1>5. Queued(r, t) \in Nat /\ AtWork(b, t) \in Nat /\ One(u, t) \in {0, 1}
  BY <1>2, QueuedFinite, AtWorkFinite DEF One
<1>6. Need(r, a, n, t) = Need(q, b, n, t)
  BY <1>3, <1>4, <1>5 DEF Need
<1> QED BY <1>1, <1>6

\* A job finished is one less.
LEMMA NeedFinishes ==
  ASSUME NEW q \in Seq(Threads), NEW b \in [PoolThreads -> Threads \cup {None}], NEW n \in {0, 1},
         NEW t \in Threads, NEW k \in PoolThreads, b[k] # None
  PROVE  Need(q, b, n, t) = Need(q, [b EXCEPT ![k] = None], n, t) + One(b[k], t)
<1>1. PICK a \in [PoolThreads -> Threads \cup {None}], u \in Threads :
        a = [b EXCEPT ![k] = None] /\ u = b[k]
  OBVIOUS
<1>2. a[k] = None /\ b[k] = u /\ \A j \in PoolThreads : j # k => b[j] = a[j]
  BY <1>1
<1>4. AtWork(b, t) = AtWork(a, t) + One(u, t)
  BY <1>2, AtWorkBegins
<1>5. Queued(q, t) \in Nat /\ AtWork(a, t) \in Nat /\ One(u, t) \in {0, 1}
  BY QueuedFinite, AtWorkFinite DEF One
<1>6. Need(q, b, n, t) = Need(q, a, n, t) + One(u, t)
  BY <1>4, <1>5 DEF Need
<1> QED BY <1>1, <1>6

\* The Worker takes or drops its hold.
LEMMA NeedHolds ==
  ASSUME NEW q \in Seq(Threads), NEW b, NEW n \in {0, 1}, NEW m \in {0, 1}, NEW t \in Threads
  PROVE  Need(q, b, m, t) = Need(q, b, n, t) + (IF t = Main THEN m - n ELSE 0)
<1>1. Queued(q, t) \in Nat /\ AtWork(b, t) \in Nat
  BY QueuedFinite, AtWorkFinite
<1> QED BY <1>1 DEF Need

\* The context of a step that changes who needs loop u.
LEMMA NeedContext ==
  ASSUME PortInv, UNCHANGED <<run, obj, role>>, wrk'.heard = wrk.heard, ops' \in Nat, ops' <= ops,
         NEW u \in Threads, NEW x \in Int,
         \A t \in Threads : Ctx'.need[t] \in Nat,
         Ctx'.need[u] = Ctx.need[u] + x, \A t \in Threads : t # u => Ctx'.need[t] = Ctx.need[t]
  PROVE  NeedMove(Ctx, Ctx', u, x) /\ CtxOk(Ctx')
<1>1. PICK c, d : c = Ctx /\ d = Ctx'
  OBVIOUS
<1>2. /\ c.run = run /\ c.heard = wrk.heard /\ c.obj = obj /\ c.role = role /\ c.left = ops
      /\ d.run = run /\ d.heard = wrk.heard /\ d.obj = obj /\ d.role = role /\ d.left = ops'
  BY <1>1, CtxParts
<1>3. d.need = [t \in Threads |-> d.need[t]]
  BY <1>1, NeedFacts
<1>4. d.need \in [Threads -> Nat]
  BY <1>1, <1>3
<1>5. CtxOk(d)
  BY <1>2, <1>4, InvParts DEF CtxOk
<1>6. NeedMove(c, d, u, x)
  BY <1>1, <1>2 DEF NeedMove, SameCtxBut
<1> QED BY <1>1, <1>5, <1>6

\* What is around the ports stays while no thread moves and no Worker is
\* constructed anew.
LEMMA AroundKeeps ==
  ASSUME PortInv, UNCHANGED <<run, obj, role, closing>>, wrk' \in WrkType, jobs' \in JobsType,
         ops' \in Nat, ops' <= ops,
         wrk'.state = "unborn" => wrk.state = "unborn" /\ wrk'.held = wrk.held
  PROVE  Around'
<1>1. Exiting(Ctx') <=> Exiting(Ctx)
  BY CtxParts DEF Exiting
<1>2. ops' \in 0 .. MaxOps /\ \A p \in Ports : obj[p].gen + ops' <= MaxOps + 1
  <2>1. ops \in 0 .. MaxOps /\ \A p \in Ports : obj[p].gen + ops <= MaxOps + 1
    BY DEF PortInv, Around
  <2>2. \A p \in Ports : obj[p].gen \in Int
    BY InvParts, Distinct DEF ObjType
  <2> QED BY <2>1, <2>2, Distinct
<1> QED BY <1>1, <1>2 DEF PortInv, Around

\* A loop's own thread takes or drops a hold of the program's.
LEMMA HoldStep ==
  ASSUME PortInv, NEW u \in Threads, NEW x \in Int, loops' = port_hold(loops, u, u, x),
         UNCHANGED <<port, closing>>, NeedMove(Ctx, Ctx', u, x), CtxOk(Ctx'), Around'
  PROVE  PortInv'
<1>1. PICK c, d : c = Ctx /\ d = Ctx'
  OBVIOUS
<1>2. PICK r : r = HeldOn(State, u, x)
  OBVIOUS
<1>3. Rest(State, c) /\ Events(State, c)
  BY <1>1 DEF PortInv, Base
<1>4. Base(r, d)
  BY <1>1, <1>2, <1>3, NeedMoves DEF Base
<1>5. r.port = port /\ loops' = r.loops
  BY <1>2, InvParts DEF HeldOn, With
<1> QED BY <1>1, <1>4, <1>5, LoopStep

\* A job submitted keeps the invariant.
LEMMA StepSubmit ==
  ASSUME PortInv, NEW t \in Threads, Submit(t)
  PROVE  PortInv'
<1>1. /\ loops' = port_hold(loops, t, t, 1) /\ jobs' = [jobs EXCEPT !.queue = Append(jobs.queue, t)]
      /\ UNCHANGED <<port, obj, run, closing, wrk, role>> /\ ops > 0 /\ ops' = ops - 1
  BY DEF Submit, Turn
<1>2. jobs.queue \in Seq(Threads) /\ jobs.busy \in [PoolThreads -> Threads \cup {None}]
  BY InvParts DEF JobsType
<1>3. /\ jobs' \in JobsType /\ jobs'.queue = Append(jobs.queue, t) /\ jobs'.busy = jobs.busy
  BY <1>1, <1>2, InvParts, AppendProperties DEF JobsType
<1>4. ops' \in Nat /\ ops' <= ops
  BY <1>1, InvParts
<1>5. ASSUME NEW u \in Threads
      PROVE  Ctx.need[u] \in Nat /\ Ctx'.need[u] = Ctx.need[u] + One(t, u)
  <2>1. PICK q, b, h : q = jobs.queue /\ b = jobs.busy /\ h = Holding(wrk) /\ h \in {0, 1}
    BY DEF Holding
  <2>2. Ctx.need[u] = Need(q, b, h, u) /\ Ctx'.need[u] = Need(Append(q, t), b, h, u)
    BY <1>1, <1>3, <2>1, NeedFacts
  <2>3. Need(q, b, h, u) \in Nat /\ Need(Append(q, t), b, h, u) = Need(q, b, h, u) + One(t, u)
    <3>1. q \in Seq(Threads) /\ h \in {0, 1}
      BY <1>2, <2>1
    <3>2. Need(Append(q, t), b, h, u) = Need(q, b, h, u) + One(t, u)
      BY <3>1, NeedSubmits, Zenon
    <3> QED BY <3>1, <3>2, NeedNat
  <2> QED BY <2>2, <2>3
<1>6. NeedMove(Ctx, Ctx', t, 1) /\ CtxOk(Ctx')
  <2>1. \A u \in Threads : Ctx'.need[u] \in Nat /\ (u # t => Ctx'.need[u] = Ctx.need[u])
    BY <1>5 DEF One
  <2>2. Ctx'.need[t] = Ctx.need[t] + 1
    BY <1>5 DEF One
  <2> QED BY <1>1, <1>4, <2>1, <2>2, NeedContext
<1>7. Around'
  BY <1>1, <1>3, <1>4, AroundKeeps, InvParts
<1> QED BY <1>1, <1>6, <1>7, HoldStep

\* A pool thread's begin of a job keeps the invariant.
LEMMA StepTakeJob ==
  ASSUME PortInv, NEW k \in PoolThreads, TakeJob(k)
  PROVE  PortInv'
<1>1. /\ jobs.busy[k] = None /\ jobs.queue # <<>>
      /\ jobs' = [queue |-> Tail(jobs.queue), busy |-> [jobs.busy EXCEPT ![k] = Head(jobs.queue)]]
      /\ UNCHANGED <<loops, port, obj, run, closing, wrk, role, ops>>
  BY DEF TakeJob
<1>2. jobs.queue \in Seq(Threads) /\ jobs.busy \in [PoolThreads -> Threads \cup {None}]
  BY InvParts DEF JobsType
<1>3. /\ jobs' \in JobsType /\ jobs'.queue = Tail(jobs.queue)
      /\ jobs'.busy = [jobs.busy EXCEPT ![k] = Head(jobs.queue)]
  <2>1. Tail(jobs.queue) \in Seq(Threads) /\ Head(jobs.queue) \in Threads
    BY <1>1, <1>2, HeadTailProperties
  <2> QED BY <1>1, <1>2, <2>1 DEF JobsType
<1>4. ASSUME NEW u \in Threads
      PROVE  Ctx.need[u] \in Nat /\ Ctx'.need[u] = Ctx.need[u]
  <2>1. PICK q, b, h : q = jobs.queue /\ b = jobs.busy /\ h = Holding(wrk) /\ h \in {0, 1}
    BY DEF Holding
  <2>2. /\ Ctx.need[u] = Need(q, b, h, u)
        /\ Ctx'.need[u] = Need(Tail(q), [b EXCEPT ![k] = Head(q)], h, u)
    BY <1>1, <1>3, <2>1, NeedFacts
  <2>3. /\ Need(q, b, h, u) \in Nat
        /\ Need(Tail(q), [b EXCEPT ![k] = Head(q)], h, u) = Need(q, b, h, u)
    BY <1>1, <1>2, <2>1, NeedNat, NeedBegins
  <2> QED BY <2>2, <2>3
<1>5. NeedMove(Ctx, Ctx', Main, 0) /\ CtxOk(Ctx')
  <2>1. Ctx'.need[Main] = Ctx.need[Main] + 0
    BY <1>4, InvParts
  <2> QED BY <1>1, <1>4, <2>1, NeedContext, InvParts
<1>6. Around'
  BY <1>1, <1>3, AroundKeeps, InvParts
<1>7. Base(State, Ctx')
  <2>1. PICK c, d : c = Ctx /\ d = Ctx'
    OBVIOUS
  <2>2. Base(State, c) /\ CtxOk(c) /\ CtxOk(d) /\ SameCtxBut(c, d) /\ Typed(State)
        /\ \A t \in Threads : d.need[t] = c.need[t]
    BY <1>4, <1>5, <2>1, InvParts DEF NeedMove, PortInv
  <2>3. Counted(State, d)
    BY <2>2 DEF Base, Rest, Counted
  <2>4. Base(State, d)
    BY <2>2, <2>3, NeedFrame DEF Base, Rest
  <2> QED BY <2>1, <2>4
<1> QED BY <1>1, <1>6, <1>7, SameStep

\* A job's end keeps the invariant: what needed the loop is on its way to it.
LEMMA StepFinishJob ==
  ASSUME PortInv, NEW k \in PoolThreads, FinishJob(k)
  PROVE  PortInv'
<1>1. /\ jobs.busy[k] # None /\ jobs' = [jobs EXCEPT !.busy[k] = None]
      /\ loops' = push_completion(loops, jobs.busy[k], Event("work"))
      /\ UNCHANGED <<port, obj, run, closing, wrk, role, ops>>
  BY DEF FinishJob
<1>2. jobs.queue \in Seq(Threads) /\ jobs.busy \in [PoolThreads -> Threads \cup {None}]
  BY InvParts DEF JobsType
<1>3. /\ jobs' \in JobsType /\ jobs'.queue = jobs.queue
      /\ jobs'.busy = [jobs.busy EXCEPT ![k] = None]
  BY <1>1, <1>2, InvParts DEF JobsType
<1>4. PICK t \in Threads : t = jobs.busy[k]
  BY <1>1, <1>2
<1>5. ASSUME NEW u \in Threads
      PROVE  Ctx'.need[u] \in Nat /\ Ctx.need[u] = Ctx'.need[u] + One(t, u)
  <2>1. PICK q, b, h : q = jobs.queue /\ b = jobs.busy /\ h = Holding(wrk) /\ h \in {0, 1}
    BY DEF Holding
  <2>2. Ctx.need[u] = Need(q, b, h, u) /\ Ctx'.need[u] = Need(q, [b EXCEPT ![k] = None], h, u)
    BY <1>1, <1>3, <2>1, NeedFacts
  <2>3. /\ Need(q, [b EXCEPT ![k] = None], h, u) \in Nat
        /\ Need(q, b, h, u) = Need(q, [b EXCEPT ![k] = None], h, u) + One(b[k], u)
    BY <1>1, <1>2, <2>1, NeedNat, NeedFinishes
  <2> QED BY <1>4, <2>1, <2>2, <2>3
<1>6. NeedMove(Ctx, Ctx', t, -1) /\ CtxOk(Ctx')
  <2>1. \A u \in Threads : Ctx'.need[u] \in Nat /\ (u # t => Ctx'.need[u] = Ctx.need[u])
    BY <1>5 DEF One
  <2>2. Ctx'.need[t] = Ctx.need[t] + -1
    BY <1>5 DEF One
  <2> QED BY <1>1, <2>1, <2>2, NeedContext, InvParts
<1>7. Around'
  BY <1>1, <1>3, AroundKeeps, InvParts
<1>8. PICK it \in ItemType : it = Event("work") /\ it.what = "work" /\ ~it.drains
  BY EventFacts DEF Whats
<1>9. PICK c, d : c = Ctx /\ d = Ctx'
  OBVIOUS
<1>10. PICK r : r = PushedOn(State, t, it)
  OBVIOUS
<1>11. Base(r, d)
  BY <1>6, <1>8, <1>9, <1>10, PushMoves DEF PortInv
<1>12. r.port = port /\ loops' = r.loops
  BY <1>1, <1>4, <1>8, <1>10, InvParts DEF PushedOn, With
<1> QED BY <1>1, <1>7, <1>9, <1>11, <1>12, LoopStep

-----------------------------------------------------------------------------
(* The Worker's holds on its parent's loop.                                *)

\* The Worker's hold changes from n to m.
LEMMA HolderContext ==
  ASSUME PortInv, jobs' = jobs, NEW x \in Int, Holding(wrk') = Holding(wrk) + x, NEW t \in Threads
  PROVE  Ctx'.need[t] \in Nat /\ Ctx'.need[t] = Ctx.need[t] + (IF t = Main THEN x ELSE 0)
<1>1. PICK q, b, n, m : /\ q = jobs.queue /\ b = jobs.busy /\ n = Holding(wrk) /\ m = Holding(wrk')
                        /\ n \in {0, 1} /\ m \in {0, 1}
  BY DEF Holding
<1>2. q \in Seq(Threads) /\ x = m - n
  BY <1>1, InvParts DEF JobsType
<1>3. Ctx.need[t] = Need(q, b, n, t) /\ Ctx'.need[t] = Need(q, b, m, t)
  BY <1>1, NeedFacts
<1>4. Need(q, b, m, t) = Need(q, b, n, t) + (IF t = Main THEN m - n ELSE 0)
  <2>1. n \in {0, 1} /\ m \in {0, 1} /\ q \in Seq(Threads)
    BY <1>1, <1>2
  <2> QED BY <2>1, NeedHolds, Zenon
<1>5. Need(q, b, m, t) \in Nat
  BY <1>1, <1>2, NeedNat
<1> QED BY <1>2, <1>3, <1>4, <1>5

\* Worker.ref and Worker.unref keep the invariant.
LEMMA StepWorkerRef ==
  ASSUME PortInv, NEW on \in BOOLEAN, WorkerRef(on)
  PROVE  PortInv'
<1>1. PICK want \in BOOLEAN : want = (on /\ ~wrk.exited)
  <2>1. (on /\ ~wrk.exited) \in BOOLEAN
    OBVIOUS
  <2> QED BY <2>1, Zenon
<1>2. PICK x \in Int : x = IF want THEN 1 ELSE -1
  OBVIOUS
<1>3. /\ want # wrk.held /\ loops' = port_hold(loops, Main, Main, x) /\ wrk' = [wrk EXCEPT !.held = want]
      /\ UNCHANGED <<port, obj, run, closing, jobs, role>> /\ ops > 0 /\ ops' = ops - 1
      /\ wrk.state = "running"
  <2>1. /\ want # wrk.held /\ loops' = port_hold(loops, Main, Main, IF want THEN 1 ELSE -1)
        /\ wrk' = [wrk EXCEPT !.held = want]
    BY <1>1, Zenon DEF WorkerRef
  <2>2. /\ UNCHANGED <<port, obj, run, closing, jobs, role>> /\ ops > 0 /\ ops' = ops - 1
        /\ wrk.state = "running"
    BY DEF WorkerRef, Turn
  <2> QED BY <1>2, <2>1, <2>2
<1>4. /\ wrk' \in WrkType /\ wrk'.held = want /\ wrk'.heard = wrk.heard /\ wrk'.state = "running"
      /\ wrk.held \in BOOLEAN
  BY <1>3, InvParts DEF WrkType
<1>5. Holding(wrk') = Holding(wrk) + x
  BY <1>2, <1>3, <1>4 DEF Holding
<1>6. ops' \in Nat /\ ops' <= ops
  BY <1>3, InvParts
<1>7. NeedMove(Ctx, Ctx', Main, x) /\ CtxOk(Ctx')
  <2>1. \A t \in Threads : Ctx'.need[t] \in Nat /\ Ctx.need[t] \in Nat
                           /\ Ctx'.need[t] = Ctx.need[t] + (IF t = Main THEN x ELSE 0)
    BY <1>3, <1>5, HolderContext, InvParts
  <2>2. /\ \A t \in Threads : Ctx'.need[t] \in Nat /\ (t # Main => Ctx'.need[t] = Ctx.need[t])
        /\ Ctx'.need[Main] = Ctx.need[Main] + x
    BY <2>1, InvParts
  <2> QED BY <1>3, <1>4, <1>6, <2>2, NeedContext, InvParts
<1>8. Around'
  BY <1>3, <1>4, <1>6, AroundKeeps, InvParts
<1> QED BY <1>3, <1>7, <1>8, HoldStep, InvParts

\* A thread that does not start leaves the invariant: the hold taken for it
\* is dropped.
LEMMA StepSpawnFails ==
  ASSUME PortInv, SpawnFails
  PROVE  PortInv'
<1>1. /\ loops' = port_hold(port_hold(loops, Main, Main, 1), Main, Main, -1)
      /\ wrk' = [wrk EXCEPT !.state = "failed", !.exited = TRUE]
      /\ UNCHANGED <<port, obj, run, closing, jobs, role, ops>>
  BY DEF SpawnFails
<1>2. wrk' \in WrkType /\ wrk'.held = wrk.held /\ wrk'.heard = wrk.heard /\ wrk'.state = "failed"
  BY <1>1, InvParts DEF WrkType
<1>3. Around'
  BY <1>1, <1>2, AroundKeeps, InvParts
<1>4. PICK c, d : c = Ctx /\ d = Ctx'
  OBVIOUS
<1>5. /\ d.run = c.run /\ d.heard = c.heard /\ d.obj = c.obj /\ d.role = c.role /\ d.left = c.left
      /\ d.need = c.need /\ CtxOk(c) /\ c.need \in [Threads -> Nat] /\ c.left \in Nat
  BY <1>1, <1>2, <1>4, CtxParts, InvParts
<1>6. PICK m : m = [need |-> [c.need EXCEPT ![Main] = c.need[Main] + 1], run |-> c.run, heard |-> c.heard,
                    obj |-> c.obj, role |-> c.role, left |-> c.left]
  OBVIOUS
<1>7. CtxOk(m) /\ CtxOk(d) /\ NeedMove(c, m, Main, 1) /\ NeedMove(m, d, Main, -1)
  <2>1. /\ m.need \in [Threads -> Nat] /\ m.need[Main] = c.need[Main] + 1 /\ c.need[Main] \in Nat
        /\ \A u \in Threads : u # Main => m.need[u] = c.need[u]
        /\ m.run = c.run /\ m.heard = c.heard /\ m.obj = c.obj /\ m.role = c.role /\ m.left = c.left
    BY <1>5, <1>6, InvParts
  <2>2. d.need[Main] = m.need[Main] + -1
    BY <1>5, <2>1
  <2> QED BY <1>5, <2>1, <2>2 DEF CtxOk, NeedMove, SameCtxBut
<1>8. PICK s : s = HeldOn(State, Main, 1)
  OBVIOUS
<1>9. Rest(State, c) /\ Events(State, c)
  BY <1>4 DEF PortInv, Base
<1>10. Rest(s, m) /\ Events(s, m)
  BY <1>7, <1>8, <1>9, NeedMoves, InvParts
<1>11. PICK r : r = HeldOn(s, Main, -1)
  OBVIOUS
<1>12. Base(r, d)
  BY <1>7, <1>10, <1>11, NeedMoves, InvParts DEF Base
<1>13. r.port = port /\ loops' = r.loops
  BY <1>1, <1>8, <1>11, InvParts DEF HeldOn, With
<1> QED BY <1>1, <1>3, <1>4, <1>12, <1>13, LoopStep

\* The start of the Worker's thread keeps the invariant.
LEMMA StepWorkerEnter ==
  ASSUME PortInv, worker_enter
  PROVE  PortInv'
<1>1. /\ run[Wkr].pc = "enter" /\ wrk' = [wrk EXCEPT !.loop = TRUE] /\ Goto(Wkr, "run")
      /\ UNCHANGED <<port, obj, closing, jobs, role, ops>>
  BY DEF worker_enter
<1>2. /\ run' \in [Threads -> RunType] /\ run'[Wkr].pc = "run" /\ run'[Wkr].item = run[Wkr].item
      /\ \A u \in Threads : u # Wkr => run'[u] = run[u]
  BY <1>1, GotoFacts, InvParts DEF Pcs
<1>3. wrk' \in WrkType /\ wrk'.held = wrk.held /\ wrk'.state = wrk.state /\ wrk'.heard = wrk.heard
  BY <1>1, InvParts DEF WrkType
<1>4. ThreadStep(Wkr) /\ SameEndsOf /\ NoNewExit(Wkr) /\ Goes(run[Wkr], run'[Wkr])
  BY <1>1, <1>2, <1>3, InvParts DEF ThreadStep, SameWorker, SameEndsOf, NoNewExit, Goes
<1>5. closing' \in {None} \cup [by : Threads, port : Ports]
  BY <1>1 DEF PortInv, Around
<1>6. Around'
  BY <1>1, <1>2, <1>4, <1>5, NoNewExitAround, InvParts
<1>7. PICK s : s = IF wrk.terminate THEN PostedTo(State, Wkr, Wkr, Event("terminate")) ELSE State
  OBVIOUS
<1>8. Base(s, Ctx) /\ s.port = port /\ loops' = kml_post_to_loop(s.loops, Wkr, Main, Event("online"))
  <2>1. CASE wrk.terminate
    <3>1. Postable(State, Event("terminate")) /\ Event("terminate").what = "terminate"
      BY EventFacts DEF Whats
    <3>2. s = PostedTo(State, Wkr, Wkr, Event("terminate"))
      BY <1>7, <2>1
    <3>3. Base(s, Ctx)
      BY <3>1, <3>2, PostKeeps, InvParts DEF PortInv
    <3>4. s.port = port /\ s.loops = kml_post_to_loop(loops, Wkr, Wkr, Event("terminate"))
      BY <3>2, InvParts DEF PostedTo, With
    <3> QED BY <2>1, <3>3, <3>4 DEF worker_enter
  <2>2. CASE ~wrk.terminate
    BY <1>7, <2>2, InvParts DEF worker_enter, PortInv
  <2> QED BY <2>1, <2>2
<1>9. PICK c, d : c = Ctx /\ d = Ctx'
  OBVIOUS
<1>10. /\ c.run = run /\ d.run = run' /\ d.need = c.need /\ d.heard = c.heard /\ d.obj = c.obj
       /\ d.role = c.role /\ d.left = c.left /\ CtxOk(c)
  BY <1>1, <1>3, <1>9, CtxParts, InvParts
<1>11. CtxOk(d)
  BY <1>2, <1>10 DEF CtxOk
<1>12. RestMove(s, c, d, Wkr)
  <2>1. s.loops[Wkr].batch = <<>>
    BY <1>1, <1>8, <1>9, <1>10, InvParts DEF Base, Rest, Resting
  <2>2. run[Wkr].item.what = "closed" => Over(s, run[Wkr].item.port)
    BY <1>8, ItemOver, InvParts
  <2> QED BY <1>2, <1>10, <2>1, <2>2 DEF RestMove
<1>13. Told(s, d)
  BY <1>4, <1>8, <1>9, ThreadTold, InvParts
<1>14. PICK r : r = PostedTo(s, Wkr, Main, Event("online"))
  OBVIOUS
<1>15. Base(r, d)
  BY <1>1, <1>2, <1>8, <1>9, <1>10, <1>11, <1>12, <1>13, <1>14, OnlinePosts
<1>16. r.port = port /\ loops' = r.loops
  BY <1>8, <1>14 DEF PostedTo, With
<1> QED BY <1>1, <1>6, <1>9, <1>15, <1>16, LoopStep

\* The construction of a Worker keeps the invariant: it holds its parent's
\* loop before its thread runs.
LEMMA StepWorkerSpawn ==
  ASSUME PortInv, workerSpawn
  PROVE  PortInv'
<1>1. /\ run[Main].pc = "run" /\ wrk.state = "unborn" /\ loops' = port_hold(loops, Main, Main, 1)
      /\ wrk' = [wrk EXCEPT !.state = "running", !.held = TRUE]
      /\ run' = [run EXCEPT ![Main].pc = "construct", ![Wkr].pc = "enter"]
      /\ UNCHANGED <<port, obj, closing, jobs, role, ops>>
  BY DEF workerSpawn
<1>2. role = "worker" /\ run[Wkr].pc = "off" /\ ~wrk.held
  BY <1>1 DEF PortInv, Around
<1>3. wrk' \in WrkType /\ wrk'.held = TRUE /\ wrk'.heard = wrk.heard /\ wrk'.state = "running"
  BY <1>1, InvParts DEF WrkType
<1>4. PICK f : f = [run EXCEPT ![Main].pc = "construct"]
  OBVIOUS
<1>5. /\ f \in [Threads -> RunType] /\ f[Main].pc = "construct" /\ f[Main].item = run[Main].item
      /\ f[Wkr] = run[Wkr] /\ run' \in [Threads -> RunType] /\ run'[Main] = f[Main]
      /\ run'[Wkr].pc = "enter" /\ run'[Wkr].item = run[Wkr].item
  BY <1>1, <1>4, InvParts DEF RunType, Pcs
<1>6. PICK c, d : c = Ctx /\ d = Ctx'
  OBVIOUS
<1>7. /\ c.run = run /\ d.run = run' /\ d.heard = c.heard /\ d.obj = c.obj /\ d.role = c.role
      /\ d.left = c.left /\ CtxOk(c)
  BY <1>1, <1>3, <1>6, CtxParts, InvParts
<1>8. /\ \A t \in Threads : d.need[t] \in Nat /\ c.need[t] \in Nat
      /\ d.need[Main] = c.need[Main] + 1 /\ \A t \in Threads : t # Main => d.need[t] = c.need[t]
      /\ d.need = [t \in Threads |-> d.need[t]]
  <2>1. Holding(wrk') = Holding(wrk) + 1
    BY <1>2, <1>3 DEF Holding
  <2>2. \A t \in Threads : Ctx'.need[t] \in Nat /\ Ctx.need[t] \in Nat
                           /\ Ctx'.need[t] = Ctx.need[t] + (IF t = Main THEN 1 ELSE 0)
    BY <1>1, <2>1, HolderContext, InvParts
  <2>3. Ctx'.need = [t \in Threads |-> Ctx'.need[t]]
    BY NeedFacts, InvParts
  <2> QED BY <1>6, <2>2, <2>3, InvParts
<1>9. d.need \in [Threads -> Nat]
  BY <1>8
<1>10. PICK m, n :
         /\ m = [need |-> d.need, run |-> run, heard |-> c.heard, obj |-> c.obj, role |-> c.role, left |-> c.left]
         /\ n = [need |-> d.need, run |-> f, heard |-> c.heard, obj |-> c.obj, role |-> c.role, left |-> c.left]
  OBVIOUS
<1>11. CtxOk(m) /\ CtxOk(n) /\ CtxOk(d) /\ NeedMove(c, m, Main, 1)
  BY <1>5, <1>7, <1>8, <1>9, <1>10 DEF CtxOk, NeedMove, SameCtxBut
<1>12. RunMove(m, n, Main) /\ RunMove(n, d, Wkr)
  BY <1>5, <1>7, <1>10, InvParts DEF RunMove, Threads
<1>13. PICK r : r = HeldOn(State, Main, 1)
  OBVIOUS
<1>14. Base(r, m)
  <2>1. Rest(State, c) /\ Events(State, c)
    BY <1>6 DEF PortInv, Base
  <2> QED BY <1>11, <1>13, <2>1, NeedMoves, InvParts DEF Base
<1>15. /\ r.loops[Main].batch = <<>> /\ r.loops[Wkr].batch = <<>>
       /\ \A t \in Threads : run[t].item.what = "closed" => Over(r, run[t].item.port)
  <2>1. Resting(r, m) /\ Ended(r, m) /\ m.run = run
    BY <1>10, <1>14 DEF Base, Rest
  <2> QED BY <1>1, <1>2, <2>1, InvParts DEF Resting, Ended
<1>16. Base(r, n)
  <2>1. m.run = run /\ n.run = f
    BY <1>10
  <2>2. RunAllowed(r, m, n, Main)
    BY <1>1, <1>5, <1>15, <2>1, InvParts DEF RunAllowed, Exiting
  <2>3. Goes(m.run[Main], n.run[Main])
    BY <1>1, <1>5, <2>1 DEF Goes
  <2>4. Told(r, n)
    BY <1>12, <1>14, <2>3, ToldMoves, InvParts DEF Base, Rest
  <2> QED BY <1>11, <1>12, <1>14, <2>2, <2>4, RunMoves, InvParts
<1>17. Base(r, d)
  <2>1. n.run = f
    BY <1>10
  <2>2. RunAllowed(r, n, d, Wkr)
    BY <1>2, <1>5, <1>7, <1>15, <2>1, InvParts DEF RunAllowed, Exiting
  <2>3. Goes(n.run[Wkr], d.run[Wkr])
    BY <1>2, <1>5, <1>7, <2>1 DEF Goes
  <2>4. Told(r, d)
    BY <1>12, <1>16, <2>3, ToldMoves, InvParts DEF Base, Rest
  <2> QED BY <1>11, <1>12, <1>16, <2>2, <2>4, RunMoves, InvParts
<1>18. Around'
  <2>1. ~Exiting(Ctx')
    BY <1>5, CtxParts DEF Exiting
  <2> QED BY <1>1, <1>2, <1>3, <1>5, <2>1, InvParts DEF PortInv, Around
<1>19. r.port = port /\ loops' = r.loops
  BY <1>1, <1>13, InvParts DEF HeldOn, With
<1> QED BY <1>1, <1>6, <1>17, <1>18, <1>19, LoopStep

\* The dispatch of 'exit' keeps the invariant: the Worker drops its hold, and
\* what it posted is drained before anything is emitted.
LEMMA StepDispatchExit ==
  ASSUME PortInv, DispatchExit
  PROVE  PortInv'
<1>0. PICK it : it = Head(loops[Main].batch)
  OBVIOUS
<1>1. /\ State.loops[Main].batch # <<>> /\ it = Head(State.loops[Main].batch) /\ it \in Bag(State, Main)
      /\ TakenOn(State, Main).loops = Taken(Main) /\ TakenOn(State, Main).port = port
      /\ it.what = "exit" /\ run[Main].pc = "dispatch"
  BY <1>0, DispatchFacts, InvParts DEF DispatchExit
<1>2. /\ UNCHANGED <<port, obj, closing, jobs, role, ops>>
      /\ loops' = IF wrk.held THEN port_hold(Taken(Main), Main, Main, -1) ELSE Taken(Main)
      /\ wrk' = [wrk EXCEPT !.exited = TRUE, !.held = FALSE,
                            !.heard = IF role = "worker" THEN wrk.heard ELSE Append(wrk.heard, "exit")]
      /\ run' = IF role = "worker"
                THEN [run EXCEPT ![Main] = [pc |-> "drain", item |-> PortItem("exit", Draining(0), 0)]]
                ELSE [run EXCEPT ![Main].pc = "call"]
  BY DEF DispatchExit
<1>3. PICK c, d : c = Ctx /\ d = Ctx'
  OBVIOUS
<1>4. Rest(State, c) /\ Events(State, c) /\ c.run = run /\ c.heard = wrk.heard /\ CtxOk(c)
  BY <1>3, CtxParts, InvParts DEF PortInv, Base
<1>5. ~it.drains
  BY <1>1, EventDrainsNot, InvParts
<1>6. PICK s : s = TakenOn(State, Main)
  OBVIOUS
<1>7. Rest(s, c) /\ TakenOk(State, s, Main)
  BY <1>1, <1>4, <1>5, <1>6, TakenRests, InvParts
<1>8. PICK q, b, a : q = State.loops[Main].comp /\ b = State.loops[Main].batch /\ a = s.loops[Main].batch
  OBVIOUS
<1>9. TailOrder(q, b, a) /\ s.loops[Main].comp = q
  <2>1. Parts(State)
    BY InvParts, TypedParts
  <2>2. b \in Seq(ItemType) /\ b # <<>> /\ IsTail(b, a) /\ InOrder(q, b) /\ s.loops[Main].comp = q
    BY <1>1, <1>4, <1>7, <1>8, <2>1, InvParts DEF Parts, TakenOk, Events
  <2> QED BY <2>2, OrderTail
<1>10. /\ ~Sends(s, "online") /\ ~Sends(s, "exit") /\ Sends(State, "exit") /\ ~Sends(State, "online")
       /\ InOrder(s.loops[Main].comp, s.loops[Main].batch)
  BY <1>1, <1>8, <1>9 DEF Sends, TailOrder
<1>11. run[Wkr].pc = "ended" /\ wrk.heard = <<"online">> /\ ~Exiting(c)
  <2>1. run[Wkr].pc = "ended" /\ ~Exiting(c) /\ ~Gone(c)
    BY <1>4, <1>10 DEF Events
  <2>2. wrk.heard # <<>>
    BY <1>4, <1>10, <2>1 DEF Events
  <2> QED BY <1>4, <2>1, <2>2 DEF Events, Gone
<1>12. PICK h : h = IF role = "worker" THEN <<"online">> ELSE <<"online", "exit">>
  OBVIOUS
<1>13. wrk' \in WrkType /\ wrk'.held = FALSE /\ wrk'.heard = h /\ wrk'.state = wrk.state
  <2>1. h = IF role = "worker" THEN wrk.heard ELSE Append(wrk.heard, "exit")
    BY <1>11, <1>12, HeardSequences
  <2>2. h \in Seq({"online", "exit"})
    BY <1>12, HeardSequences
  <2>3. wrk' = [wrk EXCEPT !.exited = TRUE, !.held = FALSE, !.heard = h]
    BY <1>2, <2>1
  <2> QED BY <2>2, <2>3, InvParts DEF WrkType
<1>14. /\ run' \in [Threads -> RunType] /\ run'[Wkr] = run[Wkr]
       /\ role = "worker" => /\ run'[Main].pc = "drain" /\ run'[Main].item.what = "exit"
                             /\ run'[Main].item.port = 0 /\ run'[Main].item.gen = obj[0].gen
       /\ role # "worker" => run'[Main].pc = "call" /\ run'[Main].item = run[Main].item
  <2>1. CASE role # "worker"
    <3>1. Goto(Main, "call")
      BY <1>2, <2>1 DEF Goto
    <3> QED BY <2>1, <3>1, GotoFacts, InvParts DEF Pcs
  <2>2. CASE role = "worker"
    <3>1. PICK e : e = PortItem("exit", Draining(0), 0)
      OBVIOUS
    <3>2. 0 \in Ports
      BY DEF Ports
    <3>3. PICK v \in Starts : v = Draining(0) /\ v.gen = obj[0].gen
      BY <3>2, StartInvs
    <3>v. v.gen \in 0 .. MaxOps + 1 /\ v.drains \in BOOLEAN
      BY Distinct DEF Starts
    <3>4. e \in ItemType /\ e.what = "exit" /\ e.port = 0 /\ e.gen = obj[0].gen
      <4>1. e = [what |-> "exit", port |-> 0, gen |-> v.gen, drains |-> v.drains]
        BY <3>1, <3>3 DEF PortItem
      <4> QED BY <3>2, <3>3, <3>v, <4>1 DEF ItemType, Whats
    <3>5. PICK y : y = [pc |-> "drain", item |-> e]
      OBVIOUS
    <3>6. y \in RunType /\ y.pc = "drain" /\ y.item = e
      BY <3>4, <3>5 DEF RunType, Pcs
    <3>7. run' = [run EXCEPT ![Main] = y]
      BY <1>2, <2>2, <3>1, <3>5
    <3> QED BY <2>2, <3>4, <3>6, <3>7, InvParts
  <2> QED BY <2>1, <2>2
<1>15. /\ d.run = run' /\ d.heard = h /\ d.obj = c.obj /\ d.role = c.role /\ d.left = c.left /\ c.role = role
  BY <1>2, <1>3, <1>13, CtxParts
<1>16. PICK x \in Int : x = IF wrk.held THEN -1 ELSE 0
  OBVIOUS
<1>17. /\ \A t \in Threads : d.need[t] \in Nat /\ c.need[t] \in Nat
       /\ d.need[Main] = c.need[Main] + x /\ \A t \in Threads : t # Main => d.need[t] = c.need[t]
       /\ d.need = [t \in Threads |-> d.need[t]]
  <2>1. Holding(wrk') = Holding(wrk) + x
    BY <1>13, <1>16 DEF Holding
  <2>2. \A t \in Threads : Ctx'.need[t] \in Nat /\ Ctx.need[t] \in Nat
                           /\ Ctx'.need[t] = Ctx.need[t] + (IF t = Main THEN x ELSE 0)
    BY <1>2, <2>1, HolderContext, InvParts
  <2>3. Ctx'.need = [t \in Threads |-> Ctx'.need[t]]
    BY NeedFacts, InvParts
  <2> QED BY <1>3, <2>2, <2>3, InvParts
<1>18. d.need \in [Threads -> Nat]
  BY <1>17
<1>19. PICK m : m = [need |-> d.need, run |-> run, heard |-> c.heard, obj |-> c.obj, role |-> c.role, left |-> c.left]
  OBVIOUS
<1>20. CtxOk(m) /\ CtxOk(d) /\ NeedMove(c, m, Main, x)
  BY <1>4, <1>14, <1>15, <1>17, <1>18, <1>19 DEF CtxOk, NeedMove, SameCtxBut
<1>21. PICK r : r = IF wrk.held THEN HeldOn(s, Main, -1) ELSE s
  OBVIOUS
<1>22. /\ Rest(r, m) /\ r.port = s.port
       /\ \A u \in Threads : r.loops[u].comp = s.loops[u].comp /\ r.loops[u].batch = s.loops[u].batch
  <2>1. CASE wrk.held
    <3>1. r = HeldOn(s, Main, -1) /\ NeedMove(c, m, Main, -1)
      BY <1>16, <1>20, <1>21, <2>1
    <3> QED BY <1>7, <1>20, <3>1, NeedMoves, InvParts
  <2>2. CASE ~wrk.held
    <3>1. r = s /\ \A t \in Threads : m.need[t] = c.need[t]
      BY <1>16, <1>17, <1>19, <1>21, <2>2, InvParts
    <3>2. Counted(s, m)
      BY <1>7, <3>1 DEF Rest, Counted
    <3>3. Rest(s, m)
      BY <1>7, <1>20, <3>2, NeedFrame DEF Rest, NeedMove
    <3> QED BY <3>1, <3>3
  <2> QED BY <2>1, <2>2
<1>23. Told(r, d)
  <2> SUFFICES ASSUME NEW p \in Ports, r.port[p].loop # None, r.port[p].notified,
                      r.port[p].inv.drains, d.run[r.port[p].loop].pc # "ended"
               PROVE  Arriving(r, d, p)
    BY DEF Told
  <2>1. PICK l \in Threads : l = r.port[p].loop
    BY <1>22, TypedParts DEF Rest, Parts
  <2>2. m.run = run /\ d.run = run' /\ (l = Main \/ l = Wkr)
    BY <1>15, <1>19 DEF Threads
  <2>3. run[l].pc # "ended"
    BY <1>1, <1>14, <2>1, <2>2
  <2>4. Arriving(r, m, p)
    BY <1>22, <2>1, <2>2, <2>3 DEF Rest, Told
  <2> QED BY <1>1, <1>14, <2>1, <2>2, <2>4 DEF Arriving
<1>24. <<"online">> # <<>> /\ <<"online", "exit">> # <<>> /\ <<"online">> # <<"online", "exit">>
  OBVIOUS
<1>25. Drained(r, d)
  BY <1>12, <1>14, <1>15, <1>24 DEF Drained, Gone
<1>26. Rest(r, d)
  <2>1. RestMove(r, m, d, Main)
    <3>1. d.run[Main].item.what = "closed" => Over(r, d.run[Main].item.port)
      BY <1>14, <1>15, <1>19, <1>22, InvParts DEF Rest, Ended
    <3>2. d.run[Main].pc \notin {"off", "enter", "construct", "run"}
      BY <1>1, <1>14, <1>15
    <3> QED BY <1>14, <1>15, <1>19, <3>1, <3>2, InvParts DEF RestMove, Threads
  <2> QED BY <1>20, <1>22, <1>23, <1>25, <2>1, RestMoves, InvParts
<1>27. Events(r, d)
  <2>1. \A y \in Bag(r, Wkr) : y.what \notin {"online", "exit"}
    <3>1. Bag(r, Wkr) = Bag(s, Wkr)
      BY <1>22, InvParts DEF Bag
    <3> QED BY <1>4, <1>7, <3>1, InvParts DEF Events, TakenOk
  <2>2. /\ ~Sends(r, "online") /\ ~Sends(r, "exit") /\ InOrder(r.loops[Main].comp, r.loops[Main].batch)
    BY <1>10, <1>22, InvParts DEF Sends
  <2>3. d.run[Wkr].pc = "ended"
    BY <1>11, <1>14, <1>15
  <2>4. Exiting(d) => role = "worker"
    BY <1>4, <1>11, <1>14, <1>15 DEF Exiting
  <2> QED BY <1>12, <1>15, <1>24, <2>1, <2>2, <2>3, <2>4 DEF Events
<1>28. Around'
  <2>1. wrk.state # "unborn"
    BY <1>11 DEF PortInv, Around
  <2>2. role = "worker" => Exiting(Ctx')
    BY <1>14, CtxParts DEF Exiting
  <2>3. role # "worker" => ~Exiting(Ctx') /\ run'[Main].pc = "call"
    BY <1>1, <1>3, <1>4, <1>11, <1>14, CtxParts DEF Exiting
  <2> QED BY <1>1, <1>2, <1>13, <1>14, <2>1, <2>2, <2>3 DEF PortInv, Around
<1>29. r.port = port /\ loops' = r.loops
  BY <1>1, <1>2, <1>6, <1>21, <1>22 DEF HeldOn, With
<1> QED BY <1>2, <1>3, <1>26, <1>27, <1>28, <1>29, LoopStep DEF Base

-----------------------------------------------------------------------------
(* The initial states.                                                     *)

\* What everything starts with has its type.
LEMMA Fresh ==
  /\ NewLoop \in LoopType /\ NewLoop.comp = <<>> /\ NewLoop.batch = <<>> /\ NewLoop.inflight = 0
  /\ NewPort \in PortType /\ NewPort.loop = None /\ ~NewPort.held /\ NewPort.queue = <<>> /\ NewPort.sent = 0
  /\ \A t \in Threads : /\ NewObj(t, 1) \in ObjType /\ NewObj(t, 1).at = t /\ NewObj(t, 1).gen = 1
                        /\ ~NewObj(t, 1).closed
  /\ Idle \in RunType /\ Idle.pc = "run" /\ Idle.item.what = "none"
  /\ [Idle EXCEPT !.pc = "off"] \in RunType /\ [Idle EXCEPT !.pc = "off"].pc = "off"
  /\ [Idle EXCEPT !.pc = "off"].item.what = "none"
<1>1. PICK b \in BOOLEAN, e \in BOOLEAN : b = FALSE /\ e = TRUE
  OBVIOUS
<1>2. <<>> \in Seq(ItemType) /\ <<>> \in Seq(1 .. MaxOps)
  OBVIOUS
<1>3. /\ NewLoop \in LoopType /\ NewLoop.comp = <<>> /\ NewLoop.batch = <<>> /\ NewLoop.inflight = 0
  <2>1. NewLoop = [comp |-> <<>>, batch |-> <<>>, inflight |-> 0, refd |-> b, wake |-> b]
    BY <1>1 DEF NewLoop
  <2> QED BY <1>2, <2>1 DEF LoopType
<1>4. NewPort \in PortType /\ NewPort.loop = None /\ ~NewPort.held /\ NewPort.queue = <<>> /\ NewPort.sent = 0
  <2>1. NewPort = [loop |-> None, inv |-> None, refd |-> e, held |-> b, notified |-> b,
                   closed |-> b, closeSent |-> b, queue |-> <<>>, sent |-> 0]
    BY <1>1 DEF NewPort
  <2>2. None \in Invs /\ None \in Threads \cup {None} /\ 0 \in 0 .. MaxOps
    BY Distinct DEF Invs
  <2>3. NewPort \in PortType
    <3>1. PICK q \in Seq(1 .. MaxOps), n \in 0 .. MaxOps, l \in Threads \cup {None}, v \in Invs :
            q = <<>> /\ n = 0 /\ l = None /\ v = None
      BY <1>2, <2>2
    <3>2. NewPort = [loop |-> l, inv |-> v, refd |-> e, held |-> b, notified |-> b,
                     closed |-> b, closeSent |-> b, queue |-> q, sent |-> n]
      BY <2>1, <3>1
    <3> QED BY <3>2 DEF PortType
  <2>4. NewPort.loop = None /\ ~NewPort.held /\ NewPort.queue = <<>> /\ NewPort.sent = 0
    BY <1>1, <2>1
  <2> QED BY <2>3, <2>4
<1>5. ASSUME NEW t \in Threads
      PROVE  /\ NewObj(t, 1) \in ObjType /\ NewObj(t, 1).at = t /\ NewObj(t, 1).gen = 1 /\ ~NewObj(t, 1).closed
  <2>1. NewObj(t, 1) = [at |-> t, gen |-> 1, started |-> b, refd |-> e, closed |-> b, listening |-> b]
    BY <1>1 DEF NewObj
  <2>2. 1 \in 1 .. MaxOps + 1
    BY Distinct
  <2>3. PICK g \in 1 .. MaxOps + 1 : g = 1
    BY <2>2
  <2>4. NewObj(t, 1) = [at |-> t, gen |-> g, started |-> b, refd |-> e, closed |-> b, listening |-> b]
    BY <2>1, <2>3
  <2>5. NewObj(t, 1) \in ObjType
    BY <2>4 DEF ObjType
  <2>6. NewObj(t, 1).at = t /\ NewObj(t, 1).gen = g /\ NewObj(t, 1).closed = b
    BY <2>4
  <2> QED BY <1>1, <2>3, <2>5, <2>6
<1>6. Event("none") \in ItemType /\ Event("none").what = "none"
  BY EventFacts DEF Whats
<1>7. PICK i \in ItemType : i = Event("none") /\ i.what = "none"
  BY <1>6
<1>8. Idle = [pc |-> "run", item |-> i]
  BY <1>7 DEF Idle
<1>9. /\ Idle \in RunType /\ Idle.pc = "run" /\ Idle.item.what = "none"
      /\ [Idle EXCEPT !.pc = "off"] \in RunType /\ [Idle EXCEPT !.pc = "off"].pc = "off"
      /\ [Idle EXCEPT !.pc = "off"].item.what = "none"
  BY <1>7, <1>8 DEF RunType, Pcs
<1> QED BY <1>3, <1>4, <1>5, <1>9

\* So has a Worker, running or not yet constructed.
LEMMA FreshWorker ==
  /\ Running \in WrkType /\ Running.state = "running" /\ ~Running.held /\ Running.heard = <<"online">>
  /\ Unborn \in WrkType /\ Unborn.state = "unborn" /\ ~Unborn.held /\ Unborn.heard = <<>>
<1>1. PICK b \in BOOLEAN, e \in BOOLEAN : b = FALSE /\ e = TRUE
  OBVIOUS
<1>2. PICK h \in Seq({"online", "exit"}) : h = <<"online">>
  BY HeardSequences
<1>3. PICK g \in Seq({"online", "exit"}) : g = <<>>
  BY EmptySeq
<1>4. Running = [state |-> "running", held |-> b, exited |-> b, terminate |-> b,
                 posting |-> b, loop |-> e, heard |-> h]
  BY <1>1, <1>2 DEF Running
<1>5. Unborn = [Running EXCEPT !.state = "unborn", !.loop = b, !.heard = g]
  BY <1>1, <1>3 DEF Unborn
<1>6. Running \in WrkType /\ Running.state = "running" /\ ~Running.held /\ Running.heard = <<"online">>
  BY <1>1, <1>2, <1>4 DEF WrkType
<1>7. Unborn \in WrkType /\ Unborn.state = "unborn" /\ ~Unborn.held /\ Unborn.heard = <<>>
  BY <1>1, <1>3, <1>4, <1>5 DEF WrkType
<1> QED BY <1>6, <1>7

\* Nothing needs a loop yet.
LEMMA NoNeed ==
  ASSUME NEW t \in Threads, NEW b, \A k \in PoolThreads : b[k] = None
  PROVE  Need(<<>>, b, 0, t) = 0
<1>1. {i \in DOMAIN <<>> : <<>>[i] = t} = {}
  OBVIOUS
<1>2. {k \in PoolThreads : b[k] = t} = {}
  BY Distinct DEF Threads
<1>3. Queued(<<>>, t) = 0 /\ AtWork(b, t) = 0
  BY <1>1, <1>2, FS_EmptySet DEF Queued, AtWork
<1> QED BY <1>3 DEF Need

\* What the two kinds of initial states have in common.
LEMMA InitParts ==
  ASSUME Init
  PROVE  /\ loops = [t \in Threads |-> NewLoop] /\ port = [p \in Ports |-> NewPort]
         /\ closing = None /\ ops = MaxOps /\ jobs \in JobsType /\ jobs.queue = <<>>
         /\ \A k \in PoolThreads : jobs.busy[k] = None
         /\ obj \in [Ports -> ObjType] /\ \A p \in Ports : obj[p].gen = 1 /\ ~obj[p].closed
         /\ wrk \in WrkType /\ Holding(wrk) = 0 /\ ~wrk.held
         /\ run \in [Threads -> RunType] /\ \A t \in Threads : run[t].item.what = "none"
         /\ run[Main].pc = "run"
         /\ \/ role = "channel" /\ wrk.state = "running" /\ wrk.heard = <<"online">> /\ run[Wkr].pc = "run"
            \/ /\ role = "worker" /\ wrk.state = "unborn" /\ wrk.heard = <<>> /\ run[Wkr].pc = "off"
               /\ obj[0].at = Main
<1>1. Main \in Threads /\ Wkr \in Threads /\ Main # Wkr /\ 0 \in Ports
  BY Distinct DEF Threads, Ports
<1>2. /\ loops = [t \in Threads |-> NewLoop] /\ port = [p \in Ports |-> NewPort]
      /\ closing = None /\ ops = MaxOps /\ jobs = [queue |-> <<>>, busy |-> [k \in PoolThreads |-> None]]
  BY DEF Init
<1>3. jobs \in JobsType /\ jobs.queue = <<>> /\ \A k \in PoolThreads : jobs.busy[k] = None
  BY <1>2 DEF JobsType
<1>4. CASE role = "channel"
  <2>1. /\ wrk = Running /\ run = [t \in Threads |-> Idle]
        /\ \E at \in [Ports -> Threads] : obj = [p \in Ports |-> NewObj(at[p], 1)]
    BY <1>4 DEF Init
  <2>2. PICK at \in [Ports -> Threads] : obj = [p \in Ports |-> NewObj(at[p], 1)]
    BY <2>1
  <2>3. \A p \in Ports : at[p] \in Threads /\ obj[p] = NewObj(at[p], 1)
    BY <2>2
  <2>4. obj \in [Ports -> ObjType] /\ \A p \in Ports : obj[p].gen = 1 /\ ~obj[p].closed
    BY <2>2, <2>3, Fresh
  <2>5. \A t \in Threads : run[t] = Idle
    BY <2>1
  <2>6. run \in [Threads -> RunType]
    BY <2>1, Fresh
  <2>7. Holding(wrk) = 0 /\ wrk \in WrkType /\ wrk.heard = <<"online">> /\ wrk.state = "running" /\ ~wrk.held
    BY <2>1, FreshWorker DEF Holding
  <2> QED BY <1>1, <1>2, <1>3, <1>4, <2>4, <2>5, <2>6, <2>7, Fresh
<1>5. CASE role = "worker"
  <2>1. /\ wrk = Unborn /\ obj = [p \in Ports |-> NewObj(IF p = 0 THEN Main ELSE Wkr, 1)]
        /\ run = [t \in Threads |-> IF t = Main THEN Idle ELSE [Idle EXCEPT !.pc = "off"]]
    BY <1>5 DEF Init
  <2>3. \A p \in Ports : \E t \in Threads : obj[p] = NewObj(t, 1) /\ (p = 0 => t = Main)
    BY <1>1, <2>1
  <2>4. obj \in [Ports -> ObjType] /\ \A p \in Ports : obj[p].gen = 1 /\ ~obj[p].closed
    <3>1. \A p \in Ports : obj[p] \in ObjType /\ obj[p].gen = 1 /\ ~obj[p].closed
      BY <2>3, Fresh
    <3> QED BY <2>1, <3>1
  <2>5. obj[0].at = Main
    BY <1>1, <2>3, Fresh
  <2>6. run[Main] = Idle /\ run[Wkr] = [Idle EXCEPT !.pc = "off"]
    BY <1>1, <2>1
  <2>7. run \in [Threads -> RunType] /\ \A t \in Threads : run[t].item.what = "none"
    BY <2>1, Fresh
  <2>8. Holding(wrk) = 0 /\ wrk \in WrkType /\ wrk.heard = <<>> /\ wrk.state = "unborn" /\ ~wrk.held
    BY <2>1, FreshWorker DEF Holding
  <2> QED BY <1>1, <1>2, <1>3, <1>5, <2>4, <2>5, <2>6, <2>7, <2>8, Fresh
<1> QED BY <1>4, <1>5 DEF Init

\* The invariant holds initially.
LEMMA InitInv ==
  ASSUME Init
  PROVE  PortInv
<1>0. Main \in Threads /\ Wkr \in Threads /\ Main # Wkr
  BY Distinct DEF Threads
<1>1. PICK s, c : s = State /\ c = Ctx
  OBVIOUS
<1>2. s.loops = loops /\ s.port = port /\ s = With(loops, port)
  BY <1>1 DEF State, With
<1>3. \A t \in Threads : s.loops[t] = NewLoop
  BY <1>2, InitParts
<1>4. \A p \in Ports : s.port[p] = NewPort
  BY <1>2, InitParts
<1>5. Typed(s)
  <2>1. s.loops \in [Threads -> LoopType] /\ s.port \in [Ports -> PortType]
    BY <1>2, InitParts, Fresh
  <2> QED BY <1>2, <1>4, <2>1, Fresh DEF Typed, With
<1>6. \A t \in Threads : c.need[t] = 0
  <2>1. ASSUME NEW t \in Threads PROVE Ctx.need[t] = 0
    <3>1. Ctx.need[t] = Need(jobs.queue, jobs.busy, Holding(wrk), t)
      BY NeedFacts
    <3> QED BY <3>1, InitParts, NoNeed
  <2> QED BY <1>1, <2>1
<1>7. c.run = run /\ c.heard = wrk.heard /\ c.obj = obj /\ c.role = role /\ c.left = MaxOps
  BY <1>1, InitParts DEF Ctx
<1>8. CtxOk(c)
  <2>1. c.need = [t \in Threads |-> c.need[t]]
    BY <1>1 DEF Ctx
  <2>2. c.need \in [Threads -> Nat]
    BY <1>6, <2>1
  <2> QED BY <1>7, <2>2, InitParts, Distinct DEF CtxOk
<1>9. Counted(s, c)
  <2>1. \A t \in Threads : Held(s, t) = 0
    BY <1>4, Fresh DEF Held, HeldBy, Ports
  <2>2. \A t \in Threads : Load(s, t) = 0
    <3>1. Size(<<>>, <<>>) = 0
      BY DEF Size
    <3>2. \A t \in Threads : s.loops[t].comp = <<>> /\ s.loops[t].batch = <<>>
      BY <1>3, Fresh
    <3> QED BY <3>1, <3>2 DEF Load
  <2>3. \A t \in Threads : s.loops[t].inflight = 0
    BY <1>3, Fresh
  <2> QED BY <1>6, <2>1, <2>2, <2>3 DEF Counted
<1>10. \A t \in Threads : Bag(s, t) = {}
  <2>1. Range(<<>>) = {}
    BY DEF Range
  <2> QED BY <1>3, <2>1, Fresh DEF Bag
<1>11. Ended(s, c)
  BY <1>7, <1>10, InitParts DEF Ended
<1>12. Told(s, c) /\ Owned(s, c)
  BY <1>4, Fresh DEF Told, Owned
<1>13. Resting(s, c)
  BY <1>3, <1>4, <1>7, Fresh, Distinct DEF Resting
<1>14. <<"online">> # <<>> /\ <<>> # <<"online", "exit">> /\ <<"online">> # <<"online", "exit">>
  OBVIOUS
<1>15. ~Exiting(c) /\ ~Gone(c)
  BY <1>7, <1>14, InitParts DEF Exiting, Gone
<1>16. Drained(s, c)
  BY <1>7, <1>15, InitParts DEF Drained
<1>17. Events(s, c)
  <2>1. DOMAIN <<>> = {} /\ \A e : ~Holds(<<>>, e)
    BY DEF Holds
  <2>2. s.loops[Main].comp = <<>> /\ s.loops[Main].batch = <<>>
    BY <1>0, <1>3, Fresh
  <2>3. InOrder(s.loops[Main].comp, s.loops[Main].batch) /\ \A e : ~Sends(s, e)
    BY <2>1, <2>2 DEF InOrder, Sends
  <2> QED BY <1>0, <1>7, <1>10, <1>14, <1>15, <2>3, InitParts DEF Events
<1>18. Owing
  BY <1>1, <1>4, Fresh DEF Owing, OwesNone, EndsNone
<1>19. Around
  <2>1. \A p \in Ports : obj[p].gen + ops <= MaxOps + 1
    BY InitParts, Distinct
  <2> QED BY <1>1, <1>15, <2>1, InitParts, Distinct DEF Around
<1> QED BY <1>1, <1>5, <1>8, <1>9, <1>11, <1>12, <1>13, <1>16, <1>17, <1>18, <1>19 DEF PortInv, Base, Rest

-----------------------------------------------------------------------------
(* The steps of Next.                                                      *)

\* Every step keeps the invariant.
LEMMA NextInv ==
  ASSUME PortInv, [Next]_vars
  PROVE  PortInv'
<1>1. ASSUME NEW t \in Threads, Program(t) PROVE PortInv'
  <2>1. CASE \E p \in Ports : postMessage(t, p) \/ Listen(t, p) \/ Unlisten(t, p) \/ Receive(t, p)
    BY <2>1, StepPostMessage, StepListen, StepUnlisten, StepReceive
  <2>2. CASE \E p \in Ports : Detach(t, p) \/ Revive(t, p) \/ close(t, p)
    BY <2>2, StepDetach, StepRevive, StepClose
  <2>3. CASE \E p \in Ports, on \in BOOLEAN : SetRef(t, p, on)
    BY <2>3, StepSetRef
  <2>4. CASE Submit(t) \/ Exit(t)
    BY <2>4, StepSubmit, StepExit
  <2> QED BY <1>1, <2>1, <2>2, <2>3, <2>4 DEF Program
<1>2. ASSUME NEW t \in Threads, Runtime(t) PROVE PortInv'
  <2>1. CASE CloseEnds(t) \/ Wake(t) \/ DispatchPort(t) \/ DrainOne(t) \/ EmitReturns(t) \/ DrainEnds(t)
    BY <2>1, StepCloseEnds, StepWake, StepDispatchPort, StepDrainOne, StepEmitReturns, StepDrainEnds
  <2>2. CASE DispatchEvent(t)
    <3>1. Head(loops[t].batch).what \in {"online", "work"}
      BY <2>2 DEF DispatchEvent, Dispatching
    <3> QED BY <2>2, <3>1, StepWork, StepOnline
  <2>3. CASE CallReturns(t) \/ DispatchTerminate(t) \/ DispatchDone(t) \/ LoopEnds(t)
    BY <2>3, StepCallReturns, StepDispatchTerminate, StepDispatchDone, StepLoopEnds
  <2> QED BY <1>2, <2>1, <2>2, <2>3 DEF Runtime
<1>3. CASE Owner
  BY <1>3, StepWorkerSpawn, StepSpawnFails, StepTerminate, StepWorkerRef DEF Owner
<1>4. CASE MainOnly
  BY <1>4, StepConstruct, StepTerminatePosts, StepDispatchExit, StepExitHeard DEF MainOnly
<1>5. CASE worker_enter
  BY <1>5, StepWorkerEnter
<1>6. ASSUME NEW k \in PoolThreads, Pool(k) PROVE PortInv'
  BY <1>6, StepTakeJob, StepFinishJob DEF Pool
<1>7. CASE UNCHANGED vars
  <2>1. UNCHANGED <<loops, port, obj, run, closing, wrk, jobs, role, ops>>
    BY <1>7 DEF vars
  <2>2. QuietStep /\ ops' \in Nat /\ ops' <= ops
    BY <2>1, InvParts DEF QuietStep, SameObjects
  <2>3. Base(State, Ctx') /\ Around'
    BY <2>1, <2>2, QuietLoops
  <2> QED BY <2>1, <2>3, SameStep
<1> QED BY <1>1, <1>2, <1>3, <1>4, <1>5, <1>6, <1>7 DEF Next

\* PortInv is an invariant of the loops, the ports, the pool and the Worker.
LEMMA InvHolds == Spec => []PortInv
<1>1. Init => PortInv
  BY InitInv
<1>2. PortInv /\ [Next]_vars => PortInv'
  BY NextInv
<1> QED BY <1>1, <1>2, PTL DEF Spec

-----------------------------------------------------------------------------
(* What the invariant says.                                                *)

\* The completions on their way to a loop, in one sequence.
LEMMA ItemsFacts ==
  ASSUME PortInv, NEW t \in Threads
  PROVE  /\ Len(Items(t)) = Load(State, t) /\ Load(State, t) \in Nat
         /\ \A i \in 1 .. Len(Items(t)) : Items(t)[i] \in ItemType
         /\ \A it \in Bag(State, t) : \E i \in 1 .. Len(Items(t)) : Items(t)[i] = it
<1>1. Parts(State) /\ State.loops = loops
  BY InvParts, TypedParts
<1>2. PICK q \in Seq(ItemType), b \in Seq(ItemType) : q = loops[t].comp /\ b = loops[t].batch
  BY <1>1 DEF Parts
<1>3. PICK r : r = q \o b
  OBVIOUS
<1>4. /\ r \in Seq(ItemType) /\ Len(r) = Len(q) + Len(b) /\ Len(q) \in Nat /\ Len(b) \in Nat
      /\ \A i \in 1 .. Len(q) + Len(b) : r[i] = IF i <= Len(q) THEN q[i] ELSE b[i - Len(q)]
  BY <1>3, ConcatProperties
<1>5. Items(t) = r
  BY <1>2, <1>3 DEF Items
<1>6. Load(State, t) = Len(q) + Len(b) /\ Bag(State, t) = Range(q) \cup Range(b)
  BY <1>1, <1>2 DEF Load, Size, Bag
<1>7. \A i \in 1 .. Len(r) : r[i] \in ItemType
  BY <1>4
<1>8. ASSUME NEW it \in Range(q) PROVE \E i \in 1 .. Len(r) : r[i] = it
  <2>1. PICK i \in 1 .. Len(q) : q[i] = it
    BY DEF Range
  <2> QED BY <1>4, <2>1
<1>9. ASSUME NEW it \in Range(b) PROVE \E i \in 1 .. Len(r) : r[i] = it
  <2>1. PICK i \in 1 .. Len(b) : b[i] = it
    BY DEF Range
  <2>2. Len(q) + i \in 1 .. Len(r) /\ ~(Len(q) + i <= Len(q)) /\ (Len(q) + i) - Len(q) = i
    BY <1>4, <2>1
  <2>3. r[Len(q) + i] = it
    BY <1>4, <2>1, <2>2
  <2> QED BY <2>2, <2>3
<1> QED BY <1>4, <1>5, <1>6, <1>7, <1>8, <1>9

\* The number of ports that hold a loop.
LEMMA HeldCount ==
  ASSUME PortInv, NEW t \in Threads
  PROVE  /\ Cardinality(HeldPorts(t)) = Held(State, t) /\ Held(State, t) \in Nat
         /\ HeldPorts(t) # {} => Held(State, t) > 0
<1>1. PICK H : H = HeldPorts(t)
  OBVIOUS
<1>2. State.port = port /\ H = {p \in {0, 1} : port[p].held /\ port[p].loop = t}
  BY <1>1, InvParts DEF HeldPorts, Ports
<1>3. \A p \in {0, 1} : (p \in H => HeldBy(State, p, t) = 1) /\ (p \notin H => HeldBy(State, p, t) = 0)
  BY <1>2 DEF HeldBy
<1>4. /\ Cardinality({}) = 0 /\ Cardinality({0}) = 1 /\ Cardinality({1}) = 1 /\ Cardinality({0, 1}) = 2
  <2>1. Cardinality({}) = 0 /\ Cardinality({0}) = 1 /\ Cardinality({1}) = 1 /\ IsFiniteSet({0})
    BY FS_EmptySet, FS_Singleton
  <2>2. Cardinality({0} \cup {1}) = Cardinality({0}) + 1
    BY <2>1, FS_AddElement
  <2>3. {0} \cup {1} = {0, 1}
    OBVIOUS
  <2> QED BY <2>1, <2>2, <2>3
<1>5. CASE 0 \in H /\ 1 \in H
  <2>1. H = {0, 1}
    BY <1>2, <1>5
  <2> QED BY <1>1, <1>3, <1>4, <1>5, <2>1 DEF Held
<1>6. CASE 0 \in H /\ 1 \notin H
  <2>1. H = {0}
    BY <1>2, <1>6
  <2> QED BY <1>1, <1>3, <1>4, <1>6, <2>1 DEF Held
<1>7. CASE 0 \notin H /\ 1 \in H
  <2>1. H = {1}
    BY <1>2, <1>7
  <2> QED BY <1>1, <1>3, <1>4, <1>7, <2>1 DEF Held
<1>8. CASE 0 \notin H /\ 1 \notin H
  <2>1. H = {}
    BY <1>2, <1>8
  <2> QED BY <1>1, <1>3, <1>4, <1>8, <2>1 DEF Held
<1> QED BY <1>5, <1>6, <1>7, <1>8

\* The jobs and the Worker that need a loop.
LEMMA NeedCount ==
  ASSUME PortInv, NEW t \in Threads
  PROVE  JobsOf(t) \in Nat /\ WorkerHolds(t) \in {0, 1} /\ Ctx.need[t] = JobsOf(t) + WorkerHolds(t)
<1>1. jobs.queue \in Seq(Threads)
  BY InvParts DEF JobsType
<1>2. Queued(jobs.queue, t) \in Nat /\ AtWork(jobs.busy, t) \in Nat
  BY <1>1, QueuedFinite, AtWorkFinite
<1>3. JobsOf(t) = Queued(jobs.queue, t) + AtWork(jobs.busy, t)
  BY DEF JobsOf, Queued, AtWork
<1>4. WorkerHolds(t) \in {0, 1} /\ Ctx.need[t] = JobsOf(t) + WorkerHolds(t)
  BY DEF WorkerHolds, Ctx
<1> QED BY <1>2, <1>3, <1>4

\* The invariant implies HoldCount and HeldRunsOn.
LEMMA InvHoldCount ==
  ASSUME PortInv
  PROVE  HoldCount /\ HeldRunsOn /\ \A t \in Threads : loops[t].inflight \in Nat
<1>1. ASSUME NEW t \in Threads
      PROVE  /\ loops[t].inflight = Cardinality(HeldPorts(t)) + JobsOf(t) + Len(Items(t)) + WorkerHolds(t)
             /\ loops[t].inflight \in Nat
             /\ (HeldPorts(t) # {} \/ JobsOf(t) > 0 \/ WorkerHolds(t) > 0) => loops[t].refd
  <2>1. /\ State.loops[t].inflight = Held(State, t) + Load(State, t) + Ctx.need[t]
        /\ Held(State, t) + Ctx.need[t] > 0 => State.loops[t].refd
    BY DEF PortInv, Base, Rest, Counted
  <2>2. State.loops = loops
    BY InvParts
  <2>3. PICK h \in Nat, l \in Nat, j \in Nat, w \in {0, 1} :
          /\ h = Held(State, t) /\ h = Cardinality(HeldPorts(t)) /\ (HeldPorts(t) # {} => h > 0)
          /\ l = Load(State, t) /\ l = Len(Items(t))
          /\ j = JobsOf(t) /\ w = WorkerHolds(t) /\ Ctx.need[t] = j + w
    BY HeldCount, ItemsFacts, NeedCount
  <2>4. loops[t].inflight = h + l + (j + w)
    BY <2>1, <2>2, <2>3
  <2>5. loops[t].inflight = h + j + l + w /\ loops[t].inflight \in Nat
    BY <2>4
  <2>6. (HeldPorts(t) # {} \/ j > 0 \/ w > 0) => h + (j + w) > 0
    BY <2>3
  <2>7. (HeldPorts(t) # {} \/ j > 0 \/ w > 0) => loops[t].refd
    <3>1. h + (j + w) > 0 => loops[t].refd
      BY <2>1, <2>2, <2>3
    <3> QED BY <2>6, <3>1, Zenon
  <2> QED BY <2>3, <2>5, <2>7
<1> QED BY <1>1 DEF HoldCount, HeldRunsOn

\* The invariant implies TypeOK.
LEMMA InvTypeOK == ASSUME PortInv PROVE TypeOK
<1>1. /\ Parts(State) /\ State.loops = loops /\ State.port = port
      /\ run \in [Threads -> RunType] /\ obj \in [Ports -> ObjType]
  BY InvParts, TypedParts
<1>2. ASSUME NEW t \in Threads
      PROVE  /\ \A i \in 1 .. Len(Items(t)) : Items(t)[i] \in ItemType
             /\ loops[t].inflight \in Nat
             /\ loops[t].refd \in BOOLEAN /\ loops[t].wake \in BOOLEAN
  <2>1. loops[t] \in LoopType
    BY <1>1 DEF Parts
  <2>2. loops[t].refd \in BOOLEAN /\ loops[t].wake \in BOOLEAN
    BY <2>1 DEF LoopType
  <2> QED BY <2>2, ItemsFacts, InvHoldCount
<1>3. ASSUME NEW t \in Threads PROVE run[t].item \in ItemType /\ run[t].pc \in Pcs
  BY <1>1 DEF RunType
<1>4. ASSUME NEW p \in Ports
      PROVE  /\ port[p].loop \in Threads \cup {None} /\ port[p].inv \in Invs
             /\ port[p].queue \in Seq(1 .. MaxOps) /\ port[p].sent \in 0 .. MaxOps
  <2>1. port[p] \in PortType
    BY <1>1 DEF Parts
  <2> QED BY <2>1 DEF PortType
<1>5. ASSUME NEW p \in Ports
      PROVE  obj[p].at \in Threads \cup {Transit} /\ obj[p].gen \in 1 .. MaxOps + 1
  BY <1>1 DEF ObjType
<1> QED BY <1>2, <1>3, <1>4, <1>5 DEF TypeOK, Pcs

\* What a port owes was announced to the loop that has it (Owing), the loop of
\* the object that stands for it (Owned), and the announcement has not been
\* used up (Told).
LEMMA InvNotStranded == ASSUME PortInv PROVE NotStranded
<1> SUFFICES ASSUME NEW p \in Ports, Listening(p), closing = None,
                    port[p].queue # <<>> \/ (port[p].closed /\ ~port[p].closeSent)
             PROVE  Coming(p)
  BY DEF NotStranded
<1>1. /\ State.port = port /\ Ctx.run = run /\ Ctx.obj = obj
  BY InvParts, CtxParts
<1>2. /\ port[p].loop # None /\ port[p].inv.drains /\ run[obj[p].at].pc # "ended"
  BY DEF Listening
<1>3. port[p].notified
  BY <1>1, <1>2 DEF PortInv, Owing, OwesNone, EndsNone
<1>4. PICK t \in Threads : t = port[p].loop /\ t = obj[p].at
  <2>1. port[p].loop \in Threads \cup {None} /\ port[p].loop = obj[p].at
    BY <1>1, <1>2, InvTypeOK DEF TypeOK, PortInv, Base, Rest, Owned
  <2> QED BY <1>2, <2>1
<1>5. port[p].inv.gen = obj[p].gen
  BY <1>1, <1>2 DEF PortInv, Base, Rest, Owned
<1>6. Arriving(State, Ctx, p)
  <2>1. Told(State, Ctx)
    BY DEF PortInv, Base, Rest
  <2> QED BY <1>1, <1>2, <1>3, <1>4, <2>1 DEF Told
<1>7. CASE \E it \in Bag(State, t) : Carries(it, p, port[p].inv)
  <2>1. PICK it \in Bag(State, t) : it.port = p /\ it.gen = obj[p].gen /\ it.drains
    BY <1>5, <1>7 DEF Carries
  <2>2. PICK i \in 1 .. Len(Items(t)) : Items(t)[i] = it
    BY ItemsFacts
  <2> QED BY <1>4, <2>1, <2>2 DEF Coming
<1>8. CASE run[t].pc \in {"drain", "emit"} /\ Carries(run[t].item, p, port[p].inv)
  BY <1>4, <1>5, <1>8 DEF Coming, Carries
<1> QED BY <1>1, <1>4, <1>6, <1>7, <1>8 DEF Arriving

\* The invariant implies CloseIsLast.
LEMMA InvCloseIsLast == ASSUME PortInv PROVE CloseIsLast
<1>1. State.port = port /\ Ctx.obj = obj
  BY InvParts, CtxParts
<1>2. Ended(State, Ctx)
  BY DEF PortInv, Base, Rest
<1> QED BY <1>1, <1>2 DEF CloseIsLast, Ended, Over

\* The invariant implies WorkerEvents: a Worker that heard 'exit' heard
\* 'online' before it, and its port was drained in between.
LEMMA InvWorkerEvents == ASSUME PortInv PROVE WorkerEvents
<1>1. State.port = port /\ Ctx.heard = wrk.heard /\ Ctx.role = role
  BY InvParts, CtxParts
<1>2. wrk.heard \in {<<>>, <<"online">>, <<"online", "exit">>}
  BY <1>1 DEF PortInv, Base, Events
<1>3. ASSUME HasExited PROVE wrk.heard = <<"online", "exit">>
  <2>1. PICK h : h = wrk.heard
    OBVIOUS
  <2>2. PICK i \in 1 .. Len(h) : h[i] = "exit"
    BY <1>3, <2>1 DEF HasExited, Contains
  <2>3. h # <<>> /\ h # <<"online">>
    BY <2>2
  <2> QED BY <1>2, <2>1, <2>3
<1>4. Drained(State, Ctx)
  BY DEF PortInv, Base, Rest
<1>5. role = "worker" /\ HasExited => port[0].queue = <<>>
  BY <1>1, <1>3, <1>4 DEF Drained, Gone
<1> QED BY <1>2, <1>5 DEF WorkerEvents

-----------------------------------------------------------------------------
(* The theorems.                                                           *)

\* The loops, the ports, their objects and the completions are well typed, for
\* any number of operations and pool threads; a hold count never goes negative.
THEOREM PortTypeCorrect == Spec => []TypeOK
<1>1. PortInv => TypeOK
  BY InvTypeOK
<1> QED BY <1>1, InvHolds, PTL

\* A loop's hold count is its held ports, jobs, undispatched completions and
\* Worker, whoever started, stopped, transferred, closed or terminated what.
THEOREM HoldsCounted == Spec => []HoldCount
<1>1. PortInv => HoldCount
  BY InvHoldCount
<1> QED BY <1>1, InvHolds, PTL

\* A loop with a held port, a job or a referenced Worker is referenced.
THEOREM HeldLoopsRunOn == Spec => []HeldRunsOn
<1>1. PortInv => HeldRunsOn
  BY InvHoldCount
<1> QED BY <1>1, InvHolds, PTL

\* The callback that delivers what a listening port owes is on its way to, or
\* running on, the thread that owns the port now.
THEOREM NothingStranded == Spec => []NotStranded
<1>1. PortInv => NotStranded
  BY InvNotStranded
<1> QED BY <1>1, InvHolds, PTL

\* A port that has emitted 'close' is closed and has no message left.
THEOREM CloseComesLast == Spec => []CloseIsLast
<1>1. PortInv => CloseIsLast
  BY InvCloseIsLast
<1> QED BY <1>1, InvHolds, PTL

\* A Worker emits 'online' and then 'exit', and no message is left at 'exit'.
THEOREM WorkerEventsInOrder == Spec => []WorkerEvents
<1>1. PortInv => WorkerEvents
  BY InvWorkerEvents
<1> QED BY <1>1, InvHolds, PTL

=============================================================================

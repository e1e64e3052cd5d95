----------------------------- MODULE KlainChan ------------------------------
(***************************************************************************)
(* Channels and select of klain:sync (klainsync.c): a mutex, a ring and    *)
(* two queues of wait nodes (sudogs) per channel; an operation locks the   *)
(* channels of all its cases in address order, runs the first ready case,  *)
(* or leaves a sudog on every channel and waits until a waker claims one   *)
(* of them.                                                                *)
(*                                                                         *)
(* A plain send, receive or close is an operation of one case.  A          *)
(* goroutine (which parks) and a thread that is none (which waits on a     *)
(* condition variable) take the same steps at this grain: both let go of   *)
(* the mutexes only once they can be woken, and take them again before     *)
(* they look at what they were woken with.  How a woken goroutine comes to *)
(* run is KlainSched's business.                                           *)
(*                                                                         *)
(* Grain: one step per critical section.  Two sections that hold different *)
(* mutexes meet only in the compare-and-swap of `won', and a section       *)
(* succeeds in at most one of those, its last: ordering sections by their  *)
(* end explains every outcome.  A close claims many sudogs, so it is one   *)
(* step per sudog.  Mutexes are taken one per step, and let go one per     *)
(* step where the holder is already visible to wakers.                     *)
(***************************************************************************)
EXTENDS Integers, SequencesExt

CONSTANTS
    Tasks,  \* goroutines, and threads that are none (main, a Worker)
    Chans,  \* the channels: their addresses, which order their mutexes
    Cap,    \* Cap[c]: slots of c's buffer, 0 for a rendezvous channel
    Ops     \* the operations tasks call: cases, and whether there is a default

ASSUME ChanAssumption ==
    /\ Chans \subseteq Nat /\ IsFiniteSet(Chans)
    /\ Cap \in [Chans -> Nat]
    /\ \A o \in Ops :
          /\ o.default \in BOOLEAN
          /\ Len(o.cases) \in Nat /\ DOMAIN o.cases = 1..Len(o.cases)
          /\ \A i \in DOMAIN o.cases :
                /\ o.cases[i].ch \in Chans
                /\ o.cases[i].dir \in {"recv", "send", "close"}
                /\ o.cases[i].dir = "close" => Len(o.cases) = 1 /\ ~o.default

VARIABLES
    buf,     \* buf[c]: the ring's values, oldest first
    closed,  \* closed[c]
    recvq,   \* recvq[c]: sudogs <<task, case>> blocked in receive
    sendq,   \* sendq[c]: sudogs blocked in send
    pc,      \* pc[t]: idle, lock, wait, relock, close or done
    op,      \* op[t]: the operation t is in
    mine,    \* mine[t]: the channels whose mutex t's operation holds
    old,     \* old[t]: mutexes t parked with, still to be let go for it
    won,     \* won[t]: the case a waker claimed, 0 for none yet
    res,     \* res[t]: the outcome, as written by whoever completed t
    dead     \* the process aborted

vars == <<buf, closed, recvq, sendq, pc, op, mine, old, won, res, dead>>

NoOp == [cases |-> <<>>, default |-> FALSE]

Cases(t) == op[t].cases

\* The case (0: the default), the value received, and ok.
Outcome(i, v, b) == [case |-> i, val |-> v, ok |-> b]
NoOutcome == Outcome(0, 0, FALSE)

Init ==
    /\ buf = [c \in Chans |-> <<>>]
    /\ closed = [c \in Chans |-> FALSE]
    /\ recvq = [c \in Chans |-> <<>>]
    /\ sendq = [c \in Chans |-> <<>>]
    /\ pc = [t \in Tasks |-> "idle"]
    /\ op = [t \in Tasks |-> NoOp]
    /\ mine = [t \in Tasks |-> {}]
    /\ old = [t \in Tasks |-> {}]
    /\ won = [t \in Tasks |-> 0]
    /\ res = [t \in Tasks |-> NoOutcome]
    /\ dead = FALSE

-----------------------------------------------------------------------------
\* Mutexes.

\* The distinct channels of an operation.
Locks(t) == {Cases(t)[i].ch : i \in DOMAIN Cases(t)}

Locked(c) == \E u \in Tasks : c \in mine[u] \cup old[u]

\* Mutant: the mutexes are taken in the order of the cases.
NextLockByCase(t) ==
    Cases(t)[Min({i \in DOMAIN Cases(t) : Cases(t)[i].ch \notin mine[t]})].ch

\* The mutex an operation takes next: the lowest address it does not hold.
NextLock(t) == Min(Locks(t) \ mine[t])

\* t's operation holds every mutex it needs.
HoldsAll(t) == mine[t] = Locks(t)

LockNext(t) ==
    /\ pc[t] \in {"lock", "relock"} /\ ~HoldsAll(t)
    /\ ~Locked(NextLock(t))
    /\ mine' = [mine EXCEPT ![t] = @ \cup {NextLock(t)}]
    /\ UNCHANGED <<buf, closed, recvq, sendq, pc, op, old, won, res, dead>>

\* Mutant: the scheduler lets go of one of a select's mutexes only.
ReleaseOne(t, c) ==
    /\ c \in old[t] /\ old[t] = Locks(t)
    /\ old' = [old EXCEPT ![t] = @ \ {c}]
    /\ UNCHANGED <<buf, closed, recvq, sendq, pc, op, mine, won, res, dead>>

\* The scheduler lets go of a mutex a parked goroutine left held (a thread
\* lets go of its own).  A waker may claim the task from the first of them.
Release(t, c) ==
    /\ c \in old[t]
    /\ old' = [old EXCEPT ![t] = @ \ {c}]
    /\ UNCHANGED <<buf, closed, recvq, sendq, pc, op, mine, won, res, dead>>

-----------------------------------------------------------------------------
\* Wait queues.

\* Mutant: a popped sudog is committed to whoever claimed its task.
AcquiresStale(sg) == TRUE

\* A popped sudog commits when no waker has claimed its task yet.
Acquires(sg) == won[sg[1]] = 0

Live(q) == {j \in DOMAIN q : Acquires(q[j])}

\* The first waiter that commits, and the queue once it, and the stale
\* sudogs before it, are popped.
FirstLive(q) == q[Min(Live(q))]
Popped(q) == IF Live(q) = {} THEN <<>> ELSE SubSeq(q, Min(Live(q)) + 1, Len(q))

\* The queues after the cases P of t were polled in vain: a poll that finds
\* nothing has popped every stale sudog of the queue it looked in.
Polled(q, t, P, dir) ==
    [c \in Chans |-> IF \E i \in P : Cases(t)[i].ch = c /\ Cases(t)[i].dir = dir
                     THEN <<>> ELSE q[c]]

\* The elements of q at the positions J, in their order.
Keep(q, J) ==
    [n \in 1..Cardinality(J) |->
        q[CHOOSE j \in J : Cardinality({k \in J : k < j}) = n - 1]]

-----------------------------------------------------------------------------
\* Operations.

Call(t, o) ==
    /\ pc[t] = "idle"
    /\ pc' = [pc EXCEPT ![t] = "lock"]
    /\ op' = [op EXCEPT ![t] = o]
    /\ UNCHANGED <<buf, closed, recvq, sendq, mine, old, won, res, dead>>

\* Mutant: one slot too many.
HasRoomPast(c) == Len(buf[c]) <= Cap[c] /\ Cap[c] > 0

\* A slot is free.
HasRoom(c) == Cap[c] > 0 /\ Len(buf[c]) < Cap[c]

\* Mutant: a receive polls the buffer only.
ReadyFromBuffer(k) ==
    \/ k.dir = "close"
    \/ k.dir = "recv" /\ (buf[k.ch] # <<>> \/ closed[k.ch])
    \/ k.dir = "send" /\ (closed[k.ch] \/ Live(recvq[k.ch]) # {} \/ HasRoom(k.ch))

\* A case that would not block now.
Ready(k) ==
    \/ k.dir = "close"
    \/ k.dir = "recv" /\ (buf[k.ch] # <<>> \/ Live(sendq[k.ch]) # {} \/ closed[k.ch])
    \/ k.dir = "send" /\ (closed[k.ch] \/ Live(recvq[k.ch]) # {} \/ HasRoom(k.ch))

ReadyCases(t) == {i \in DOMAIN Cases(t) : Ready(Cases(t)[i])}

\* Polling from case s on, cyclically: how far from s case i is, the case
\* that fires, and the cases polled in vain before it.
Distance(t, s, i) == (i - s + Len(Cases(t))) % Len(Cases(t))
Fires(t, s, i) ==
    /\ i \in ReadyCases(t)
    /\ \A j \in ReadyCases(t) : Distance(t, s, i) <= Distance(t, s, j)
Before(t, s, i) == {j \in DOMAIN Cases(t) : Distance(t, s, j) < Distance(t, s, i)}

\* t's operation ends with outcome o and lets go of its mutexes.
Ends(t, o) ==
    /\ pc' = [pc EXCEPT ![t] = "done"]
    /\ mine' = [mine EXCEPT ![t] = {}]
    /\ res' = [res EXCEPT ![t] = o]

\* The same, having claimed sg's task and written its outcome p.
EndsWaking(t, o, sg, p) ==
    /\ pc' = [pc EXCEPT ![t] = "done"]
    /\ mine' = [mine EXCEPT ![t] = {}]
    /\ res' = [res EXCEPT ![t] = o, ![sg[1]] = p]
    /\ won' = [won EXCEPT ![sg[1]] = sg[2]]

Dies(t) ==
    /\ dead' = TRUE
    /\ mine' = [mine EXCEPT ![t] = {}]
    /\ UNCHANGED <<buf, closed, recvq, sendq, pc, op, old, won, res>>

\* A send: a closed channel ends the process; a waiting receiver gets the
\* value; else it takes a slot.
Send(t, i, P) ==
    LET k == Cases(t)[i]
        c == k.ch
        rq == Polled(recvq, t, P, "send")
    IN  /\ k.dir = "send"
        /\ \/ closed[c] /\ Dies(t)
           \/ /\ ~closed[c] /\ Live(rq[c]) # {}
              /\ LET r == FirstLive(rq[c])
                 IN  EndsWaking(t, Outcome(i, 0, TRUE), r, Outcome(r[2], k.val, TRUE))
              /\ recvq' = [rq EXCEPT ![c] = Popped(@)]
              /\ sendq' = Polled(sendq, t, P, "recv")
              /\ UNCHANGED <<buf, closed, op, old, dead>>
           \/ /\ ~closed[c] /\ Live(rq[c]) = {} /\ HasRoom(c)
              /\ buf' = [buf EXCEPT ![c] = Append(@, k.val)]
              /\ Ends(t, Outcome(i, 0, TRUE))
              /\ recvq' = [rq EXCEPT ![c] = <<>>]
              /\ sendq' = Polled(sendq, t, P, "recv")
              /\ UNCHANGED <<closed, op, old, won, dead>>

\* A receive that finds sender s blocked: the oldest value of the ring, where
\* the sender's then goes, or the sender's own.
RecvMeeting(t, i, c, s) ==
    LET held == Append(buf[c], Cases(s[1])[s[2]].val)
    IN  /\ buf' = [buf EXCEPT ![c] = Tail(held)]
        /\ EndsWaking(t, Outcome(i, Head(held), TRUE), s, Outcome(s[2], 0, TRUE))

\* A receive: a blocked sender, a buffered value, the end of a closed channel.
Recv(t, i, P) ==
    LET c == Cases(t)[i].ch
        sq == Polled(sendq, t, P, "recv")
    IN  /\ Cases(t)[i].dir = "recv"
        /\ \/ /\ Live(sq[c]) # {}
              /\ RecvMeeting(t, i, c, FirstLive(sq[c]))
           \/ /\ Live(sq[c]) = {} /\ buf[c] # <<>>
              /\ buf' = [buf EXCEPT ![c] = Tail(@)]
              /\ Ends(t, Outcome(i, Head(buf[c]), TRUE))
              /\ UNCHANGED won
           \/ /\ Live(sq[c]) = {} /\ buf[c] = <<>> /\ closed[c]
              /\ Ends(t, Outcome(i, 0, FALSE))
              /\ UNCHANGED <<buf, won>>
        /\ sendq' = [sq EXCEPT ![c] = Popped(@)]
        /\ recvq' = Polled(recvq, t, P, "send")
        /\ UNCHANGED <<closed, op, old, dead>>

\* A close marks the channel and goes on to wake its waiters, mutex held.
Close(t) ==
    LET c == Cases(t)[1].ch
    IN  /\ Cases(t)[1].dir = "close"
        /\ \/ closed[c] /\ Dies(t)
           \/ /\ ~closed[c]
              /\ closed' = [closed EXCEPT ![c] = TRUE]
              /\ pc' = [pc EXCEPT ![t] = "close"]
              /\ UNCHANGED <<buf, recvq, sendq, op, mine, old, won, res, dead>>

\* It claims the receivers one by one, then the senders, all with ok unset.
CloseWake(t) ==
    LET c == Cases(t)[1].ch
        q == IF Live(recvq[c]) # {} THEN recvq[c] ELSE sendq[c]
        sg == FirstLive(q)
    IN  /\ pc[t] = "close" /\ Live(q) # {}
        /\ won' = [won EXCEPT ![sg[1]] = sg[2]]
        /\ res' = [res EXCEPT ![sg[1]] = Outcome(sg[2], 0, FALSE)]
        /\ recvq' = [recvq EXCEPT ![c] = Popped(@)]
        /\ sendq' = IF Live(recvq[c]) # {} THEN sendq ELSE [sendq EXCEPT ![c] = Popped(@)]
        /\ UNCHANGED <<buf, closed, pc, op, mine, old, dead>>

\* Mutant: a close forgets the senders.
CloseEndsEarly(t) ==
    LET c == Cases(t)[1].ch
    IN  /\ pc[t] = "close" /\ Live(recvq[c]) = {}
        /\ recvq' = [recvq EXCEPT ![c] = <<>>]
        /\ Ends(t, Outcome(1, 0, TRUE))
        /\ UNCHANGED <<buf, closed, sendq, op, old, won, dead>>

CloseEnds(t) ==
    LET c == Cases(t)[1].ch
    IN  /\ pc[t] = "close" /\ Live(recvq[c]) = {} /\ Live(sendq[c]) = {}
        /\ recvq' = [recvq EXCEPT ![c] = <<>>]
        /\ sendq' = [sendq EXCEPT ![c] = <<>>]
        /\ Ends(t, Outcome(1, 0, TRUE))
        /\ UNCHANGED <<buf, closed, op, old, won, dead>>

\* t's sudogs for channel c in direction dir, in the order of its cases.
Sudogs(t, c, dir) ==
    Keep([i \in DOMAIN Cases(t) |-> <<t, i>>],
         {i \in DOMAIN Cases(t) : Cases(t)[i].ch = c /\ Cases(t)[i].dir = dir})

\* No case is ready: the default, or a sudog on every channel and a wait,
\* with the mutexes still held until the task can be woken.
NoneReady(t) == ReadyCases(t) = {}

Default(t) ==
    /\ NoneReady(t) /\ op[t].default
    /\ recvq' = Polled(recvq, t, DOMAIN Cases(t), "send")
    /\ sendq' = Polled(sendq, t, DOMAIN Cases(t), "recv")
    /\ Ends(t, NoOutcome)
    /\ UNCHANGED <<buf, closed, op, old, won, dead>>

Block(t) ==
    LET rq == Polled(recvq, t, DOMAIN Cases(t), "send")
        sq == Polled(sendq, t, DOMAIN Cases(t), "recv")
    IN  /\ NoneReady(t) /\ ~op[t].default
        /\ recvq' = [c \in Chans |-> rq[c] \o Sudogs(t, c, "recv")]
        /\ sendq' = [c \in Chans |-> sq[c] \o Sudogs(t, c, "send")]
        /\ pc' = [pc EXCEPT ![t] = "wait"]
        /\ mine' = [mine EXCEPT ![t] = {}]
        /\ old' = [old EXCEPT ![t] = Locks(t)]
        /\ won' = [won EXCEPT ![t] = 0]
        /\ UNCHANGED <<buf, closed, op, res, dead>>

\* The critical section of an operation that holds all its mutexes.  (select
\* itself throws, before this, on a 65th case or a second default.)
Run(t) ==
    /\ pc[t] = "lock" /\ HoldsAll(t)
    /\ \/ \E s, i \in DOMAIN Cases(t) :
             /\ Fires(t, s, i)
             /\ Send(t, i, Before(t, s, i)) \/ Recv(t, i, Before(t, s, i)) \/ Close(t)
       \/ Default(t)
       \/ Block(t)

\* A claimed task runs again and takes its mutexes back.
Resume(t) ==
    /\ pc[t] = "wait" /\ won[t] # 0
    /\ pc' = [pc EXCEPT ![t] = "relock"]
    /\ UNCHANGED <<buf, closed, recvq, sendq, op, mine, old, won, res, dead>>

\* t is a sender that a close woke.
ClosedUnder(t) == Cases(t)[won[t]].dir = "send" /\ ~res[t].ok

\* Mutant: a woken select returns with its other sudogs still queued.
FinishLeaves(t) ==
    /\ pc[t] = "relock" /\ HoldsAll(t) /\ ~ClosedUnder(t)
    /\ mine' = [mine EXCEPT ![t] = {}]
    /\ pc' = [pc EXCEPT ![t] = "done"]
    /\ won' = [won EXCEPT ![t] = 0]
    /\ UNCHANGED <<buf, closed, recvq, sendq, op, old, res, dead>>

\* The queues q without t's sudogs, on the channels of its operation.
Without(q, t) ==
    [c \in Chans |-> IF c \in Locks(t)
                     THEN Keep(q[c], {j \in DOMAIN q[c] : q[c][j][1] # t}) ELSE q[c]]

\* It pulls its other sudogs out and lets go; a sender that a close woke
\* then ends the process.
Finish(t) ==
    /\ pc[t] = "relock" /\ HoldsAll(t)
    /\ recvq' = Without(recvq, t)
    /\ sendq' = Without(sendq, t)
    /\ mine' = [mine EXCEPT ![t] = {}]
    /\ \/ ClosedUnder(t) /\ dead' = TRUE /\ UNCHANGED <<pc, won>>
       \/ /\ ~ClosedUnder(t)
          /\ pc' = [pc EXCEPT ![t] = "done"]
          /\ won' = [won EXCEPT ![t] = 0]
          /\ UNCHANGED dead
    /\ UNCHANGED <<buf, closed, op, old, res>>

\* The entry point hands the outcome to its caller.
Return(t) ==
    /\ pc[t] = "done"
    /\ pc' = [pc EXCEPT ![t] = "idle"]
    /\ op' = [op EXCEPT ![t] = NoOp]
    /\ res' = [res EXCEPT ![t] = NoOutcome]
    /\ UNCHANGED <<buf, closed, recvq, sendq, mine, old, won, dead>>

Next ==
    /\ ~dead
    /\ \E t \in Tasks :
          \/ \E o \in Ops : Call(t, o)
          \/ LockNext(t)
          \/ \E c \in Chans : Release(t, c)
          \/ Run(t)
          \/ CloseWake(t) \/ CloseEnds(t)
          \/ Resume(t) \/ Finish(t)
          \/ Return(t)

Spec == Init /\ [][Next]_vars

\* An operation that can go on does: its thread is scheduled, a woken
\* goroutine is run, and a mutex that is free again and again is had.  No
\* task needs to call anything.
Fairness ==
    \A t \in Tasks :
        /\ WF_vars(~dead /\ (Run(t) \/ CloseWake(t) \/ CloseEnds(t) \/ Resume(t) \/ Finish(t)))
        /\ WF_vars(~dead /\ \E c \in Chans : Release(t, c))
        /\ SF_vars(~dead /\ LockNext(t))

FairSpec == Spec /\ Fairness

-----------------------------------------------------------------------------
\* Properties.

Sudog == Tasks \X (Nat \ {0})

\* The state is well formed; a ring never holds more than its slots.
TypeOK ==
    /\ \A c \in Chans :
          /\ Len(buf[c]) <= Cap[c] /\ closed[c] \in BOOLEAN
          /\ recvq[c] \in Seq(Sudog) /\ sendq[c] \in Seq(Sudog)
    /\ pc \in [Tasks -> {"idle", "lock", "wait", "relock", "close", "done"}]
    /\ op \in [Tasks -> Ops \cup {NoOp}]
    /\ mine \in [Tasks -> SUBSET Chans] /\ old \in [Tasks -> SUBSET Chans]
    /\ won \in [Tasks -> Nat]
    /\ dead \in BOOLEAN

\* A sudog lives in its caller's frame: whatever is queued belongs to an
\* operation still in progress, on that channel, in that direction.
NoDanglingSudog ==
    \A c \in Chans, d \in {"recv", "send"} :
        LET q == IF d = "recv" THEN recvq[c] ELSE sendq[c]
        IN  \A j \in DOMAIN q :
                LET t == q[j][1]
                    i == q[j][2]
                IN  /\ pc[t] \in {"wait", "relock"}
                    /\ i \in DOMAIN Cases(t)
                    /\ Cases(t)[i].ch = c /\ Cases(t)[i].dir = d

\* No set of operations waits for mutexes held among themselves.
NoLockDeadlock ==
    \A S \in SUBSET {t \in Tasks : pc[t] \in {"lock", "relock"} /\ ~HoldsAll(t)} :
        S # {} => \E t \in S : \A u \in S : NextLock(t) \notin mine[u]

\* The tasks that wait, unclaimed, with a case on c in direction d.
Waits(c, d) ==
    {t \in Tasks : /\ pc[t] = "wait" /\ won[t] = 0
                   /\ \E i \in DOMAIN Cases(t) : Cases(t)[i].ch = c /\ Cases(t)[i].dir = d}

Closing(c) == \E t \in Tasks : pc[t] = "close" /\ Cases(t)[1].ch = c

\* Nobody waits for what is already there: no receiver while a value or a
\* sender of another task is, no sender while a slot is, and no one on a
\* closed channel except while the close that wakes it is under way.
NoMissedMatch ==
    \A c \in Chans :
        /\ Waits(c, "recv") # {} => buf[c] = <<>>
        /\ Waits(c, "send") # {} => ~HasRoom(c)
        /\ \A r \in Waits(c, "recv"), s \in Waits(c, "send") : r = s
        /\ closed[c] /\ ~Closing(c) => Waits(c, "recv") \cup Waits(c, "send") = {}

\* The abstract state: an operation is done once its case is claimed, though
\* it has yet to wake up, take its mutexes back and clean up.
AbsState(t) ==
    CASE pc[t] = "idle" -> "idle"
      [] pc[t] = "lock" -> "called"
      [] pc[t] = "wait" /\ won[t] = 0 -> "waiting"
      [] pc[t] = "close" -> "closing"
      [] OTHER -> "done"

Abs == INSTANCE ChanSpec WITH st <- [t \in Tasks |-> AbsState(t)], out <- res

\* Channels and select implement the abstract specification: every operation
\* takes effect on exactly one case, at one instant.
Linearizable == Abs!Spec

\* A task some waker claimed returns, unless the process aborts.
WokenReturns ==
    \A t \in Tasks : (pc[t] = "wait" /\ won[t] # 0) ~> (pc[t] = "done" \/ dead)

\* Everybody who waits on a channel that is closed stops waiting on it.
CloseWakesAll ==
    \A c \in Chans :
        closed[c] ~> (dead \/ Waits(c, "recv") \cup Waits(c, "send") = {})

=============================================================================

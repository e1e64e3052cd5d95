------------------------------ MODULE ChanSpec ------------------------------
(***************************************************************************)
(* What klain:sync promises of channels and select: every operation takes  *)
(* effect at one instant, on one case, between its call and its return.    *)
(* There are no locks, wait nodes or machines here.  A task that finds no  *)
(* case ready waits, and from then on the operations of others complete    *)
(* it.  A close takes effect at one instant too, but returns only when no  *)
(* task waits on the channel any more.  KlainChan implements this.         *)
(***************************************************************************)
EXTENDS Integers, Sequences

CONSTANTS
    Tasks,  \* goroutines, and threads that are none (main, a Worker)
    Chans,  \* the channels
    Cap,    \* Cap[c]: slots of c's buffer, 0 for a rendezvous channel
    Ops,    \* the operations a task may call
    NoOp    \* what a task that is in no operation is in

VARIABLES
    buf,     \* buf[c]: the buffered values
    closed,  \* closed[c]
    st,      \* st[t]: idle, called, waiting, closing or done
    op,      \* op[t]: the operation t is in
    out,     \* out[t]: what t's operation came to, once done
    dead     \* the process aborted

vars == <<buf, closed, st, op, out, dead>>

\* An operation is a select: a sequence of cases, and whether it has a
\* default.  A plain send, receive or close is a select of one case.
Cases(t) == op[t].cases

\* The case that fired (0 for the default), the value received, and whether
\* the operation met a value rather than the end of the channel.
Outcome(i, v, b) == [case |-> i, val |-> v, ok |-> b]
NoOutcome == Outcome(0, 0, FALSE)

\* The cases on c in direction d that tasks wait with: <<task, case>>.
Waiting(c, d) ==
    UNION {{<<t, i>> : i \in {j \in DOMAIN Cases(t) : Cases(t)[j].ch = c /\ Cases(t)[j].dir = d}}
              : t \in {u \in Tasks : st[u] = "waiting"}}

Init ==
    /\ buf = [c \in Chans |-> <<>>]
    /\ closed = [c \in Chans |-> FALSE]
    /\ st = [t \in Tasks |-> "idle"]
    /\ op = [t \in Tasks |-> NoOp]
    /\ out = [t \in Tasks |-> NoOutcome]
    /\ dead = FALSE

Call(t, o) ==
    /\ st[t] = "idle"
    /\ st' = [st EXCEPT ![t] = "called"]
    /\ op' = [op EXCEPT ![t] = o]
    /\ UNCHANGED <<buf, closed, out, dead>>

\* t completes with outcome o.
Done(t, o) ==
    /\ st' = [st EXCEPT ![t] = "done"]
    /\ out' = [out EXCEPT ![t] = o]

\* t completes with o, and the waiting task of w with p.
DoneWith(t, o, w, p) ==
    /\ st' = [st EXCEPT ![t] = "done", ![w[1]] = "done"]
    /\ out' = [out EXCEPT ![t] = o, ![w[1]] = p]

\* A send meets a waiting receiver or, when there is none, takes a slot.
Send(t, i) ==
    LET k == Cases(t)[i]
    IN  /\ k.dir = "send" /\ ~closed[k.ch]
        /\ \/ \E w \in Waiting(k.ch, "recv") :
                 /\ DoneWith(t, Outcome(i, 0, TRUE), w, Outcome(w[2], k.val, TRUE))
                 /\ UNCHANGED buf
           \/ /\ Waiting(k.ch, "recv") = {} /\ Len(buf[k.ch]) < Cap[k.ch]
              /\ Done(t, Outcome(i, 0, TRUE))
              /\ buf' = [buf EXCEPT ![k.ch] = Append(@, k.val)]
        /\ UNCHANGED <<closed, op, dead>>

\* A receive takes the oldest buffered value, and a waiting sender fills the
\* slot; from an empty buffer it meets a waiting sender; a closed channel
\* yields its end.
Recv(t, i) ==
    LET c == Cases(t)[i].ch
    IN  /\ Cases(t)[i].dir = "recv"
        /\ \/ \E w \in Waiting(c, "send") :
                 LET held == Append(buf[c], Cases(w[1])[w[2]].val)
                 IN  /\ DoneWith(t, Outcome(i, Head(held), TRUE), w, Outcome(w[2], 0, TRUE))
                     /\ buf' = [buf EXCEPT ![c] = Tail(held)]
           \/ /\ Waiting(c, "send") = {} /\ buf[c] # <<>>
              /\ Done(t, Outcome(i, Head(buf[c]), TRUE))
              /\ buf' = [buf EXCEPT ![c] = Tail(@)]
           \/ /\ Waiting(c, "send") = {} /\ buf[c] = <<>> /\ closed[c]
              /\ Done(t, Outcome(i, 0, FALSE))
              /\ UNCHANGED buf
        /\ UNCHANGED <<closed, op, dead>>

Close(t, i) ==
    LET k == Cases(t)[i]
    IN  /\ k.dir = "close" /\ ~closed[k.ch]
        /\ closed' = [closed EXCEPT ![k.ch] = TRUE]
        /\ st' = [st EXCEPT ![t] = "closing"]
        /\ UNCHANGED <<buf, op, out, dead>>

\* A task waiting on a closed channel completes with the channel's end.
End(t, i) ==
    /\ st[t] = "waiting" /\ closed[Cases(t)[i].ch]
    /\ Done(t, Outcome(i, 0, FALSE))
    /\ UNCHANGED <<buf, closed, op, dead>>

CloseReturns(t) ==
    /\ st[t] = "closing"
    /\ \A d \in {"recv", "send"} : Waiting(Cases(t)[1].ch, d) = {}
    /\ Done(t, Outcome(1, 0, TRUE))
    /\ UNCHANGED <<buf, closed, op, dead>>

\* A case is ready: it would not block now.
CaseReady(k) ==
    \/ k.dir = "close"
    \/ k.dir = "recv" /\ (buf[k.ch] # <<>> \/ Waiting(k.ch, "send") # {} \/ closed[k.ch])
    \/ k.dir = "send" /\ (closed[k.ch] \/ Waiting(k.ch, "recv") # {} \/ Len(buf[k.ch]) < Cap[k.ch])

NoneReady(t) == \A i \in DOMAIN Cases(t) : ~CaseReady(Cases(t)[i])

Default(t) ==
    /\ st[t] = "called" /\ op[t].default /\ NoneReady(t)
    /\ Done(t, NoOutcome)
    /\ UNCHANGED <<buf, closed, op, dead>>

Wait(t) ==
    /\ st[t] = "called" /\ ~op[t].default /\ NoneReady(t)
    /\ st' = [st EXCEPT ![t] = "waiting"]
    /\ UNCHANGED <<buf, closed, op, out, dead>>

\* Sending on a closed channel, closing one, and a send that a close
\* completed end the process.
Panics(t) ==
    \/ /\ st[t] = "called"
       /\ \E i \in DOMAIN Cases(t) : Cases(t)[i].dir \in {"send", "close"} /\ closed[Cases(t)[i].ch]
    \/ /\ st[t] = "done" /\ out[t].case # 0
       /\ Cases(t)[out[t].case].dir = "send" /\ ~out[t].ok

Abort(t) ==
    /\ Panics(t)
    /\ dead' = TRUE
    /\ UNCHANGED <<buf, closed, st, op, out>>

Return(t) ==
    /\ st[t] = "done" /\ ~Panics(t)
    /\ st' = [st EXCEPT ![t] = "idle"]
    /\ op' = [op EXCEPT ![t] = NoOp]
    /\ out' = [out EXCEPT ![t] = NoOutcome]
    /\ UNCHANGED <<buf, closed, dead>>

Next ==
    /\ ~dead
    /\ \E t \in Tasks :
          \/ \E o \in Ops : Call(t, o)
          \/ st[t] = "called" /\ \E i \in DOMAIN Cases(t) : Send(t, i) \/ Recv(t, i) \/ Close(t, i)
          \/ \E i \in DOMAIN Cases(t) : End(t, i)
          \/ CloseReturns(t) \/ Default(t) \/ Wait(t) \/ Return(t) \/ Abort(t)

Spec == Init /\ [][Next]_vars

=============================================================================

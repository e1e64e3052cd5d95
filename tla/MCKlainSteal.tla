---------------------------- MODULE MCKlainSteal ----------------------------
(* KlainSched started where stealing moves several goroutines at once.     *)
EXTENDS KlainSched

CONSTANT Depth  \* goroutines in every ring at the start

\* Each processor's ring holds Depth goroutines and its machine is about to
\* look for one: on every machine a goroutine woke Depth others, then left.
\* Goroutines are numbered here.  StealCount is 1 for rings of up to three, so
\* that Depth is at least 4.
StealInit ==
    /\ gq = <<>>
    /\ rq = [p \in Procs |-> [i \in 1..Depth |-> (p - 1) * Depth + i]]
    /\ pmu = [p \in Procs |-> Nobody]
    /\ status = [g \in Goroutines |-> "runnable"]
    /\ preempt = [g \in Goroutines |-> FALSE]
    /\ lockedM = [g \in Goroutines |-> Nobody]
    /\ lockedG = [m \in Machines |-> NoG]
    /\ waitOn = [g \in Goroutines |-> {}]
    /\ cmu = [c \in Chans |-> Nobody]
    /\ pc = [m \in Machines |-> IF HasP(m) THEN "find" ELSE "off"]
    /\ cur = [m \in Machines |-> NoG]
    /\ hand = [m \in Machines |-> NoG]
    /\ tick = [m \in Machines |-> 0]
    /\ vic = [m \in Machines |-> 0]
    /\ left = [m \in Machines |-> 0]
    /\ age = [m \in Machines |-> 0]
    /\ sys = SysNext

\* sysmon is left to stand still: with AgeCap = 0 no run window is ever too
\* long, so that its scan flags nobody and changes nothing but sys.
StealNext == Next /\ UNCHANGED sys

StealSpec == StealInit /\ [][StealNext]_vars

=============================================================================

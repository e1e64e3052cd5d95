-------------------------- MODULE KlainSchedProofs --------------------------
(***************************************************************************)
(* Proofs about KlainSched, for every number of processors, rescue         *)
(* machines, goroutines and channels.                                      *)
(*                                                                         *)
(* First its types and the thieves' locks.  Then where goroutines are: no  *)
(* goroutine is ever in two places, none is lost, what is queued is        *)
(* runnable, and a goroutine locked to its thread stays there.             *)
(*                                                                         *)
(* These four are proved together, as one invariant with what a machine's  *)
(* place in the scheduler loop says of the goroutine it has.  A step moves *)
(* at most one goroutine and one machine: MoveKeeps reduces the invariant  *)
(* to these two, and each action then shows where its goroutine comes from *)
(* and where it goes.                                                      *)
(***************************************************************************)
EXTENDS KlainSched, TLAPS

-----------------------------------------------------------------------------
(* The inductive invariant.                                                *)

\* A machine has a goroutine on its stack, or in its hand, exactly where its
\* scheduler loop says so.
Shape ==
    \A m \in Machines :
       /\ cur[m] # NoG <=> OnStack(m)
       /\ hand[m] # NoG => pc[m] \in {"stealing", "drain", "requeue", "reap"}
       /\ pc[m] \in {"requeue", "reap"} => hand[m] # NoG
       /\ pc[m] \in {"pop", "drain"} => m \in Procs

\* A ring's mutex is held exactly by the machine stealing from it, which
\* finds there what it has still to take.
Holding ==
    /\ \A p \in Procs : pmu[p] # Nobody => pc[pmu[p]] = "stealing" /\ vic[pmu[p]] = p
    /\ \A m \in Machines :
          pc[m] = "stealing" =>
             /\ vic[m] \in Procs \ {m} /\ pmu[vic[m]] = m
             /\ left[m] <= Len(rq[vic[m]])
             /\ hand[m] = NoG => left[m] > 0

\* A machine looks for work elsewhere only with its own ring empty, and its
\* ring has room for what it has still to steal.
Room ==
    /\ \A p \in Procs : Len(rq[p]) <= RunqCap
    /\ \A m \in Procs :
          /\ pc[m] \in {"global", "steal"} => rq[m] = <<>>
          /\ pc[m] = "stealing" => Len(rq[m]) + left[m] <= RunqCap

\* Of two thieves that hold each other's rings one has nothing left to push:
\* the later of the two could take its victim only with its own ring empty.
NoCycle ==
    \A m, n \in Procs :
       m # n /\ pmu[m] = n /\ pmu[n] = m => left[m] = 0 \/ left[n] = 0

\* sysmon reads the window of a processor's machine.
Sysmon == sys.pc = "flag" => sys.i \in Procs

StealInv == TypeOK /\ Shape /\ Holding /\ Room /\ NoCycle /\ Sysmon

-----------------------------------------------------------------------------
(* Queues as sets.                                                         *)

\* Appending a goroutine that is not in a queue adds exactly it.
LEMMA AppendFacts ==
    ASSUME NEW S, NEW s \in Seq(S), NEW x \in S
    PROVE  /\ Append(s, x) \in Seq(S)
           /\ Len(Append(s, x)) = Len(s) + 1
           /\ ToSet(Append(s, x)) = ToSet(s) \cup {x}
           /\ Distinct(s) /\ x \notin ToSet(s) => Distinct(Append(s, x))
<1> DEFINE t == Append(s, x)
<1>1. t \in Seq(S) /\ Len(t) = Len(s) + 1 /\ t[Len(s) + 1] = x
  OBVIOUS
<1>2. \A i \in 1..Len(s) : t[i] = s[i]
  OBVIOUS
<1>3. DOMAIN t = 1..(Len(s) + 1) /\ DOMAIN s = 1..Len(s)
  BY <1>1
<1>4. ToSet(t) = ToSet(s) \cup {x}
  BY <1>1, <1>2, <1>3 DEF ToSet
<1>5. Distinct(s) /\ x \notin ToSet(s) => Distinct(t)
  BY <1>1, <1>2, <1>3 DEF ToSet, Distinct
<1> QED
  BY <1>1, <1>4, <1>5

\* Taking the head of a queue without duplicates removes exactly it.
LEMMA TailFacts ==
    ASSUME NEW S, NEW s \in Seq(S), s # <<>>
    PROVE  /\ Head(s) \in S /\ Head(s) \in ToSet(s)
           /\ Tail(s) \in Seq(S) /\ Len(Tail(s)) = Len(s) - 1 /\ Len(s) > 0
           /\ Distinct(s) => /\ ToSet(Tail(s)) = ToSet(s) \ {Head(s)}
                             /\ Distinct(Tail(s))
<1> DEFINE t == Tail(s)
<1>1. Len(s) > 0 /\ Head(s) = s[1] /\ Head(s) \in S
  OBVIOUS
<1>2. t \in Seq(S) /\ Len(t) = Len(s) - 1
  BY <1>1
<1>3. \A i \in 1..(Len(s) - 1) : t[i] = s[i + 1]
  BY <1>1
<1>4. DOMAIN t = 1..(Len(s) - 1) /\ DOMAIN s = 1..Len(s)
  BY <1>2
<1>5. Head(s) \in ToSet(s)
  BY <1>1, <1>4 DEF ToSet
<1>6. ASSUME Distinct(s) PROVE ToSet(t) = ToSet(s) \ {Head(s)} /\ Distinct(t)
  <2>1. Distinct(t)
    BY <1>1, <1>2, <1>3, <1>4, <1>6 DEF Distinct
  <2>2. ToSet(t) \subseteq ToSet(s) \ {Head(s)}
    BY <1>1, <1>2, <1>3, <1>4, <1>6 DEF Distinct, ToSet
  <2>3. ASSUME NEW y \in ToSet(s), y # Head(s) PROVE y \in ToSet(t)
    <3>1. PICK i \in 1..Len(s) : s[i] = y
      BY <1>4 DEF ToSet
    <3>2. i # 1 /\ i - 1 \in 1..(Len(s) - 1) /\ t[i - 1] = y
      BY <1>1, <1>3, <3>1, <2>3
    <3> QED
      BY <3>2, <1>4 DEF ToSet
  <2> QED
    BY <2>1, <2>2, <2>3
<1> QED
  BY <1>1, <1>2, <1>5, <1>6

\* ks_gcond's signal touches nobody but a sleeper.
LEMMA SignalledFacts ==
    ASSUME NEW npc \in [Machines -> PCs], NEW q \in Signalled(npc)
    PROVE  /\ q \in [Machines -> PCs]
           /\ \A m \in Machines : q[m] = npc[m] \/ (npc[m] = "asleep" /\ q[m] = "woken")
  BY DEF Signalled, PCs

-----------------------------------------------------------------------------
(* Type correctness.                                                       *)

\* A push on the global queue keeps the queue and the machines well-typed.
LEMMA GlobalPushType ==
    ASSUME TypeOK, NEW g \in Goroutines, NEW npc \in [Machines -> PCs], GlobalPush(g, npc)
    PROVE  gq' \in Seq(Goroutines) /\ pc' \in [Machines -> PCs]
  BY AppendFacts, SignalledFacts DEF GlobalPush, TypeOK

\* Opening a run window keeps the types.
LEMMA ExecuteType ==
    ASSUME TypeOK, NEW m \in Machines, NEW g \in Goroutines \cup {NoG}, Execute(m, g)
    PROVE  /\ pc' \in [Machines -> PCs]
           /\ cur' \in [Machines -> Goroutines \cup {NoG}]
           /\ status' \in [Goroutines -> Statuses]
           /\ preempt' \in [Goroutines -> BOOLEAN]
           /\ age' \in [Machines -> 0..AgeCap]
<1>1. pc' \in [Machines -> PCs]
  BY DEF TypeOK, Execute, PCs
<1>2. cur' \in [Machines -> Goroutines \cup {NoG}]
  BY DEF TypeOK, Execute
<1>3. status' \in [Goroutines -> Statuses]
  BY DEF TypeOK, Execute, Statuses
<1>4. preempt' \in [Goroutines -> BOOLEAN]
  BY DEF TypeOK, Execute
<1>5. age' \in [Machines -> 0..AgeCap]
  BY SchedAssumption DEF TypeOK, Execute
<1> QED
  BY <1>1, <1>2, <1>3, <1>4, <1>5

\* Taking the global queue's head keeps the types.
LEMMA ExecuteGlobalType ==
    ASSUME TypeOK, NEW m \in Machines, ExecuteGlobal(m)
    PROVE  /\ gq' \in Seq(Goroutines)
           /\ pc' \in [Machines -> PCs]
           /\ cur' \in [Machines -> Goroutines \cup {NoG}]
           /\ status' \in [Goroutines -> Statuses]
           /\ preempt' \in [Goroutines -> BOOLEAN]
           /\ age' \in [Machines -> 0..AgeCap]
<1>1. Head(gq) \in Goroutines /\ gq' \in Seq(Goroutines)
  BY TailFacts DEF TypeOK, ExecuteGlobal
<1>2. Execute(m, Head(gq))
  BY DEF ExecuteGlobal
<1> QED
  BY <1>1, <1>2, ExecuteType

\* Moving a machine to another place of the loop keeps pc's type.
LEMMA GotoType ==
    ASSUME TypeOK, NEW m \in Machines, NEW l \in PCs, Goto(m, l)
    PROVE  pc' \in [Machines -> PCs]
  BY DEF TypeOK, Goto

-----------------------------------------------------------------------------
(* Framing: what a step that stays away from a part of the state keeps.    *)

\* Machines other than m stand still, but for a sleeper that is signalled.
Elsewhere(m) ==
    \A n \in Machines \ {m} :
       /\ cur'[n] = cur[n] /\ hand'[n] = hand[n]
       /\ pc'[n] = pc[n] \/ (pc[n] = "asleep" /\ pc'[n] = "woken")

\* Shape is a matter of the machine that moves.
LEMMA ShapeFrame ==
    ASSUME TypeOK, Shape, NEW m, Elsewhere(m),
           m \in Machines =>
              /\ cur'[m] # NoG <=> OnStack(m)'
              /\ hand'[m] # NoG => pc'[m] \in {"stealing", "drain", "requeue", "reap"}
              /\ pc'[m] \in {"requeue", "reap"} => hand'[m] # NoG
              /\ pc'[m] \in {"pop", "drain"} => m \in Procs
    PROVE  Shape'
  BY DEF Shape, Elsewhere, OnStack

\* A step that touches no ring, no ring mutex and no thief keeps the facts
\* about stealing.
LEMMA StealFrame ==
    ASSUME Holding, Room, NoCycle, UNCHANGED <<rq, pmu, left>>,
           \A n \in Machines :
              /\ pc[n] = "stealing" => pc'[n] = "stealing" /\ vic'[n] = vic[n]
              /\ pc'[n] = "stealing" => pc[n] = "stealing" /\ hand'[n] = hand[n],
           \A n \in Procs : pc'[n] \in {"global", "steal"} => rq[n] = <<>>,
           TypeOK
    PROVE  Holding' /\ Room' /\ NoCycle'
<1>1. Procs \subseteq Machines /\ Nobody \notin Machines
  BY SchedAssumption DEF Procs, Machines, Nobody
<1>2. \A p \in Procs : pmu[p] \in Machines \cup {Nobody}
  BY DEF TypeOK
<1>3. Holding'
  BY <1>1, <1>2 DEF Holding
<1>4. Room'
  BY <1>1 DEF Room
<1>5. NoCycle'
  BY DEF NoCycle
<1> QED
  BY <1>3, <1>4, <1>5

\* The sets the machines and processors are drawn from.
LEMMA Bases ==
    /\ Procs \subseteq Machines /\ Nobody \notin Machines /\ Main \notin Machines
    /\ Procs \subseteq Nat /\ Machines \subseteq Nat
  BY SchedAssumption DEF Procs, Machines, Nobody, Main

-----------------------------------------------------------------------------
(* Each action keeps the invariant: looking for work.                      *)

\* The head of ks_findrunnable's loop, which may run the global queue's head.
LEMMA FindKeeps ==
    ASSUME StealInv, NEW m \in Machines, Find(m)
    PROVE  StealInv'
<1> USE DEF StealInv
<1>1. tick' \in [Machines -> 0..(PollPeriod - 1)]
  <2>1. (tick[m] + 1) % PollPeriod \in 0..(PollPeriod - 1)
    BY SchedAssumption DEF TypeOK
  <2> QED
    BY <2>1 DEF TypeOK, Find
<1>2. CASE ExecuteGlobal(m)
  <2>1. TypeOK'
    BY <1>1, <1>2, ExecuteGlobalType DEF TypeOK, Find
  <2>2. Head(gq) # NoG
    BY <1>2, TailFacts, SchedAssumption DEF TypeOK, ExecuteGlobal
  <2>3. Shape'
    <3>1. Elsewhere(m)
      BY <1>2 DEF TypeOK, Elsewhere, Find, ExecuteGlobal, Execute
    <3> QED
      BY <3>1, <1>2, <2>2, ShapeFrame DEF TypeOK, Shape, Find, ExecuteGlobal, Execute, OnStack
  <2>4. Holding' /\ Room' /\ NoCycle'
    BY <1>2, StealFrame, Bases DEF TypeOK, Room, Find, ExecuteGlobal, Execute
  <2>5. Sysmon'
    BY DEF Sysmon, Find
  <2> QED
    BY <2>1, <2>3, <2>4, <2>5
<1>3. CASE /\ Goto(m, IF HasP(m) THEN "pop" ELSE "global")
           /\ UNCHANGED <<gq, status, preempt, cur, age>>
  <2>1. TypeOK'
    <3>1. pc' \in [Machines -> PCs]
      BY <1>3, GotoType DEF PCs
    <3> QED
      BY <1>1, <1>3, <3>1 DEF TypeOK, Find
  <2>2. Shape'
    <3>1. Elsewhere(m)
      BY <1>3 DEF TypeOK, Elsewhere, Find, Goto
    <3> QED
      BY <3>1, <1>3, ShapeFrame DEF TypeOK, Shape, Find, Goto, OnStack, HasP
  <2>3. Holding' /\ Room' /\ NoCycle'
    BY <1>3, StealFrame, Bases DEF TypeOK, Room, Find, Goto, HasP
  <2>4. Sysmon'
    BY DEF Sysmon, Find
  <2> QED
    BY <2>1, <2>2, <2>3, <2>4
<1> QED
  BY <1>2, <1>3 DEF Find

\* A locked machine taking its own goroutine.
LEMMA FindLockedKeeps ==
    ASSUME StealInv, NEW m \in Machines, FindLocked(m)
    PROVE  StealInv'
<1> USE DEF StealInv
<1>1. TypeOK'
  BY ExecuteType DEF TypeOK, FindLocked
<1>2. Shape'
  <2>1. Elsewhere(m)
    BY DEF TypeOK, Elsewhere, FindLocked, Execute
  <2> QED
    BY <2>1, ShapeFrame DEF TypeOK, Shape, FindLocked, Execute, OnStack
<1>3. Holding' /\ Room' /\ NoCycle'
  BY StealFrame, Bases DEF TypeOK, Room, FindLocked, Execute
<1>4. Sysmon'
  BY DEF Sysmon, FindLocked
<1> QED
  BY <1>1, <1>2, <1>3, <1>4

\* The global queue's turn, and the start of the scan for a victim.
LEMMA PopGlobalKeeps ==
    ASSUME StealInv, NEW m \in Machines, PopGlobal(m)
    PROVE  StealInv'
<1> USE DEF StealInv
<1>1. CASE ExecuteGlobal(m) /\ UNCHANGED vic
  <2>1. TypeOK'
    BY <1>1, ExecuteGlobalType DEF TypeOK, PopGlobal
  <2>2. Head(gq) # NoG
    BY <1>1, TailFacts, SchedAssumption DEF TypeOK, ExecuteGlobal
  <2>3. Shape'
    <3>1. Elsewhere(m)
      BY <1>1 DEF TypeOK, Elsewhere, PopGlobal, ExecuteGlobal, Execute
    <3> QED
      BY <3>1, <1>1, <2>2, ShapeFrame DEF TypeOK, Shape, PopGlobal, ExecuteGlobal, Execute, OnStack
  <2>4. Holding' /\ Room' /\ NoCycle'
    BY <1>1, StealFrame, Bases DEF TypeOK, Room, PopGlobal, ExecuteGlobal, Execute
  <2> QED
    BY <2>1, <2>3, <2>4 DEF Sysmon, PopGlobal
<1>2. CASE /\ gq = <<>>
           /\ Goto(m, "steal")
           /\ vic' = [vic EXCEPT ![m] = 1]
           /\ UNCHANGED <<gq, status, preempt, cur, age>>
  <2>1. TypeOK'
    <3>1. pc' \in [Machines -> PCs]
      BY <1>2, GotoType DEF PCs
    <3>2. vic' \in [Machines -> 0..(NProcs + 1)]
      BY <1>2, SchedAssumption DEF TypeOK
    <3> QED
      BY <1>2, <3>1, <3>2 DEF TypeOK, PopGlobal
  <2>2. Shape'
    <3>1. Elsewhere(m)
      BY <1>2 DEF TypeOK, Elsewhere, PopGlobal, Goto
    <3> QED
      BY <3>1, <1>2, ShapeFrame DEF TypeOK, Shape, PopGlobal, Goto, OnStack
  <2>3. Holding' /\ Room' /\ NoCycle'
    BY <1>2, StealFrame, Bases DEF TypeOK, Room, PopGlobal, Goto
  <2> QED
    BY <2>1, <2>2, <2>3 DEF Sysmon, PopGlobal
<1> QED
  BY <1>1, <1>2 DEF PopGlobal

\* The owner's pop: nobody steals from the ring meanwhile.
LEMMA PopLocalKeeps ==
    ASSUME StealInv, NEW m \in Machines, PopLocal(m)
    PROVE  StealInv'
<1> USE DEF StealInv
<1>0. m \in Procs
  BY DEF Shape, PopLocal
<1>1. CASE rq[m] # <<>> /\ rq' = [rq EXCEPT ![m] = Tail(@)] /\ Execute(m, Head(rq[m]))
  <2>1. /\ Head(rq[m]) \in Goroutines /\ Head(rq[m]) # NoG
        /\ Tail(rq[m]) \in Seq(Goroutines) /\ Len(Tail(rq[m])) = Len(rq[m]) - 1
    BY <1>0, <1>1, TailFacts, SchedAssumption DEF TypeOK
  <2>2. TypeOK'
    <3>1. rq' \in [Procs -> Seq(Goroutines)]
      BY <1>0, <1>1, <2>1 DEF TypeOK
    <3> QED
      BY <1>1, <2>1, <3>1, ExecuteType DEF TypeOK, PopLocal
  <2>3. Shape'
    <3>1. Elsewhere(m)
      BY <1>1 DEF TypeOK, Elsewhere, PopLocal, Execute
    <3> QED
      BY <3>1, <1>1, <2>1, ShapeFrame DEF TypeOK, Shape, PopLocal, Execute, OnStack
  <2>4. \A n \in Machines : pc[n] = "stealing" => vic[n] # m
    BY Bases DEF PopLocal, Holding
  <2>5. Holding'
    BY <1>0, <1>1, <2>4, Bases DEF TypeOK, Holding, PopLocal, Execute
  <2>6. Room'
    <3>1. /\ pc'[m] = "run" /\ \A n \in Machines \ {m} : pc'[n] = pc[n]
          /\ rq'[m] = Tail(rq[m]) /\ \A p \in Procs \ {m} : rq'[p] = rq[p]
          /\ left' = left
      BY <1>0, <1>1 DEF TypeOK, PopLocal, Execute
    <3>2. Len(rq[m]) \in Nat /\ RunqCap \in Nat
      BY <1>0, SchedAssumption DEF TypeOK
    <3>3. ASSUME NEW p \in Procs PROVE Len(rq'[p]) <= RunqCap
      <4>1. CASE p = m
        <5>1. Len(rq[m]) <= RunqCap /\ Len(rq'[p]) = Len(rq[m]) - 1
          BY <1>0, <2>1, <3>1, <4>1 DEF Room
        <5> QED
          BY <3>2, <5>1
      <4>2. CASE p # m
        BY <3>1, <4>2 DEF Room
      <4> QED
        BY <4>1, <4>2
    <3>4. ASSUME NEW n \in Procs
          PROVE  /\ pc'[n] \in {"global", "steal"} => rq'[n] = <<>>
                 /\ pc'[n] = "stealing" => Len(rq'[n]) + left'[n] <= RunqCap
      BY <3>1, Bases DEF Room
    <3> QED
      BY <3>3, <3>4 DEF Room
  <2> QED
    BY <2>2, <2>3, <2>5, <2>6 DEF Sysmon, NoCycle, PopLocal
<1>2. CASE rq[m] = <<>> /\ Goto(m, "global") /\ UNCHANGED <<rq, status, preempt, cur, age>>
  <2>1. TypeOK'
    <3>1. pc' \in [Machines -> PCs]
      BY <1>2, GotoType DEF PCs
    <3> QED
      BY <1>2, <3>1 DEF TypeOK, PopLocal
  <2>2. Shape'
    <3>1. Elsewhere(m)
      BY <1>2 DEF TypeOK, Elsewhere, PopLocal, Goto
    <3> QED
      BY <3>1, <1>2, ShapeFrame DEF TypeOK, Shape, PopLocal, Goto, OnStack
  <2>3. Holding' /\ Room' /\ NoCycle'
    BY <1>2, StealFrame, Bases DEF TypeOK, Room, PopLocal, Goto
  <2> QED
    BY <2>1, <2>2, <2>3 DEF Sysmon, PopLocal
<1> QED
  BY <1>1, <1>2 DEF PopLocal

\* What a thief may take: part of the ring, and at least one of a ring that
\* is not empty.
LEMMA StealCountFacts ==
    ASSUME NEW s \in Seq(Goroutines), s # <<>>
    PROVE  StealCount(s) \in 1..Len(s)
<1> DEFINE n == Len(s)
<1>1. n \in Nat /\ n > 0
  OBVIOUS
<1>2. StealCount(s) = IF n = 1 THEN 1 ELSE n \div 2
  BY DEF StealCount
<1> HIDE DEF n
<1>3. (IF n = 1 THEN 1 ELSE n \div 2) \in 1..n
  BY <1>1
<1>4. StealCount(s) \in 1..n
  BY <1>2, <1>3
<1> QED
  BY <1>4 DEF n

\* The victim's mutex is taken by a thief whose own ring is empty: whoever
\* holds that ring's mutex has nothing left to take from it.
LEMMA StealTryKeeps ==
    ASSUME StealInv, NEW m \in Machines, StealTry(m)
    PROVE  StealInv'
<1> USE DEF StealInv
<1>1. CASE /\ vic[m] > NProcs \/ vic[m] \in Procs
           /\ pc' \in {pc, [pc EXCEPT ![m] = "park"]}
           /\ vic' \in {[vic EXCEPT ![m] = 0], [vic EXCEPT ![m] = @ + 1]}
           /\ vic[m] > NProcs => vic' = [vic EXCEPT ![m] = 0]
           /\ UNCHANGED <<pmu, left>>
  <2>1. TypeOK'
    <3>1. pc' \in [Machines -> PCs]
      BY <1>1 DEF TypeOK, PCs
    <3>2. vic' \in [Machines -> 0..(NProcs + 1)]
      <4>1. vic[m] \in 0..(NProcs + 1) /\ NProcs \in Nat
        BY SchedAssumption DEF TypeOK
      <4>2. CASE vic' = [vic EXCEPT ![m] = 0]
        BY <4>1, <4>2 DEF TypeOK
      <4>3. CASE vic' = [vic EXCEPT ![m] = @ + 1] /\ vic[m] \in Procs
        <5>1. vic[m] + 1 \in 0..(NProcs + 1)
          BY <4>1, <4>3 DEF Procs
        <5> QED
          BY <4>3, <5>1 DEF TypeOK
      <4> QED
        BY <1>1, <4>2, <4>3
    <3> QED
      BY <1>1, <3>1, <3>2 DEF TypeOK, StealTry
  <2>2. Shape'
    <3>1. Elsewhere(m)
      BY <1>1 DEF TypeOK, Elsewhere, StealTry
    <3> QED
      BY <3>1, <1>1, ShapeFrame DEF TypeOK, Shape, StealTry, OnStack
  <2>3. Holding' /\ Room' /\ NoCycle'
    BY <1>1, StealFrame, Bases DEF TypeOK, Room, StealTry
  <2> QED
    BY <2>1, <2>2, <2>3 DEF Sysmon, StealTry
<1>2. CASE /\ vic[m] \in Procs \ {m}
           /\ pmu[vic[m]] = Nobody /\ rq[vic[m]] # <<>>
           /\ pmu' = [pmu EXCEPT ![vic[m]] = m]
           /\ left' = [left EXCEPT ![m] = StealCount(rq[vic[m]])]
           /\ Goto(m, "stealing")
           /\ UNCHANGED vic
  <2> DEFINE k == StealCount(rq[vic[m]])
  <2>1. k \in 1..Len(rq[vic[m]]) /\ Len(rq[vic[m]]) \in Nat
    BY <1>2, StealCountFacts DEF TypeOK
  <2>2. TypeOK'
    <3>1. pc' \in [Machines -> PCs]
      BY <1>2, GotoType DEF PCs
    <3>2. pmu' \in [Procs -> Machines \cup {Nobody}] /\ left' \in [Machines -> Nat]
      BY <1>2, <2>1 DEF TypeOK
    <3> QED
      BY <1>2, <3>1, <3>2 DEF TypeOK, StealTry
  <2>3. Shape'
    <3>1. Elsewhere(m)
      BY <1>2 DEF TypeOK, Elsewhere, StealTry, Goto
    <3> QED
      BY <3>1, <1>2, ShapeFrame DEF TypeOK, Shape, StealTry, Goto, OnStack
  <2>4. Holding'
    <3>1. /\ pc' = [pc EXCEPT ![m] = "stealing"] /\ pc[m] = "steal"
          /\ rq' = rq /\ hand' = hand /\ vic' = vic
      BY <1>2 DEF StealTry, Goto
    <3>2. ASSUME NEW p \in Procs, pmu'[p] # Nobody
          PROVE  pc'[pmu'[p]] = "stealing" /\ vic'[pmu'[p]] = p
      <4>1. pc \in [Machines -> PCs] /\ pmu \in [Procs -> Machines \cup {Nobody}]
        BY DEF TypeOK
      <4>2. CASE p = vic[m]
        <5>1. pmu'[p] = m
          BY <1>2, <4>1, <4>2
        <5> QED
          BY <3>1, <4>1, <4>2, <5>1
      <4>3. CASE p # vic[m]
        <5>1. pmu'[p] = pmu[p] /\ pmu[p] \in Machines
          BY <1>2, <3>2, <4>1, <4>3
        <5>2. pc[pmu[p]] = "stealing" /\ vic[pmu[p]] = p
          BY <3>2, <5>1 DEF Holding
        <5> QED
          BY <3>1, <4>1, <5>1, <5>2
      <4> QED
        BY <4>2, <4>3
    <3>3. ASSUME NEW n \in Machines, pc'[n] = "stealing"
          PROVE  /\ vic'[n] \in Procs \ {n} /\ pmu'[vic'[n]] = n
                 /\ left'[n] <= Len(rq'[vic'[n]])
                 /\ hand'[n] = NoG => left'[n] > 0
      <4>1. CASE n = m
        BY <1>2, <2>1, <3>1, <4>1 DEF TypeOK
      <4>2. CASE n # m
        <5>1. pc[n] = "stealing" /\ vic[n] # vic[m]
          BY <1>2, <3>1, <3>3, <4>2, Bases DEF TypeOK, Holding
        <5>2. left'[n] = left[n] /\ pmu'[vic[n]] = pmu[vic[n]]
          BY <1>2, <4>2, <5>1 DEF TypeOK, Holding
        <5> QED
          BY <3>1, <5>1, <5>2 DEF Holding
      <4> QED
        BY <4>1, <4>2
    <3> QED
      BY <3>2, <3>3 DEF Holding
  <2>5. Room'
    <3>1. ASSUME m \in Procs PROVE rq[m] = <<>> /\ k <= RunqCap
      BY <1>2, <2>1, <3>1, SchedAssumption DEF Room, StealTry
    <3> QED
      <4>1. /\ pc'[m] = "stealing" /\ \A n \in Machines \ {m} : pc'[n] = pc[n]
            /\ left'[m] = k /\ \A n \in Machines \ {m} : left'[n] = left[n]
            /\ rq' = rq
        BY <1>2 DEF TypeOK, StealTry, Goto
      <4>2. m \in Procs => Len(rq[m]) = 0
        BY <3>1
      <4> QED
        BY <2>1, <3>1, <4>1, <4>2, Bases DEF Room
  <2>6. NoCycle'
    <3>1. ASSUME NEW n \in Procs, m \in Procs, pmu[m] = n PROVE left[n] = 0
      <4>1. rq[m] = <<>>
        BY <3>1 DEF Room, StealTry
      <4>2. pc[n] = "stealing" /\ vic[n] = m
        BY <3>1, Bases DEF Holding
      <4> QED
        BY <4>1, <4>2, Bases DEF TypeOK, Holding
    <3>2. ASSUME NEW a \in Procs, NEW b \in Procs, a # b, pmu'[a] = b, pmu'[b] = a
          PROVE  left'[a] = 0 \/ left'[b] = 0
      <4>1. CASE a # vic[m] /\ b # vic[m]
        <5>1. pmu[a] = b /\ pmu[b] = a
          BY <1>2, <3>2, <4>1 DEF TypeOK
        <5>2. a # m /\ b # m
          BY <5>1, Bases DEF Holding, StealTry
        <5> QED
          BY <1>2, <3>2, <5>1, <5>2, Bases DEF TypeOK, NoCycle
      <4>2. CASE a = vic[m]
        BY <1>2, <3>1, <3>2, <4>2, Bases DEF TypeOK
      <4>3. CASE b = vic[m]
        BY <1>2, <3>1, <3>2, <4>3, Bases DEF TypeOK
      <4> QED
        BY <4>1, <4>2, <4>3
    <3> QED
      BY <3>2 DEF NoCycle
  <2> QED
    BY <2>2, <2>3, <2>4, <2>5, <2>6 DEF Sysmon, StealTry
<1>3. vic[m] \in Procs => ~(vic[m] > NProcs)
  BY SchedAssumption DEF Procs
<1> QED
  BY <1>1, <1>2, <1>3 DEF StealTry, Goto

\* One goroutine changes hands: the victim's ring shrinks with what is left
\* to take, and the thief's grows only by what it still had room for.
LEMMA StealOneKeeps ==
    ASSUME StealInv, NEW m \in Machines, StealOne(m)
    PROVE  StealInv'
<1> USE DEF StealInv
<1> DEFINE v == vic[m]
           g == Head(rq[v])
           taken == [rq EXCEPT ![v] = Tail(@)]
<1>1. /\ pc[m] = "stealing" /\ left[m] \in Nat /\ left[m] > 0
      /\ v \in Procs \ {m} /\ v \in Machines /\ pmu[v] = m /\ left[m] <= Len(rq[v])
  BY Bases DEF StealOne, Holding, TypeOK
<1>2. rq[v] \in Seq(Goroutines) /\ rq[v] # <<>>
  BY <1>1 DEF TypeOK
<1>3. /\ g \in Goroutines /\ g # NoG /\ Tail(rq[v]) \in Seq(Goroutines)
      /\ Len(Tail(rq[v])) = Len(rq[v]) - 1 /\ Len(rq[v]) \in Nat
  BY <1>2, TailFacts, SchedAssumption
<1>4. /\ taken \in [Procs -> Seq(Goroutines)] /\ taken[v] = Tail(rq[v])
      /\ \A p \in Procs \ {v} : taken[p] = rq[p]
  BY <1>1, <1>3 DEF TypeOK
<1>5. left' = [left EXCEPT ![m] = @ - 1] /\ left' \in [Machines -> Nat] /\ left'[m] = left[m] - 1
  <2>1. left' = [left EXCEPT ![m] = @ - 1] /\ left \in [Machines -> Nat]
    BY DEF StealOne, TypeOK
  <2>2. left[m] - 1 \in Nat
    BY <1>1
  <2> HIDE DEF StealInv
  <2> QED
    BY <2>1, <2>2
<1>6. /\ pmu' = pmu /\ vic' = vic /\ cur' = cur /\ sys' = sys
      /\ pc' \in [Machines -> PCs] /\ gq' \in Seq(Goroutines)
      /\ \A n \in Machines : pc'[n] = pc[n] \/ (pc[n] = "asleep" /\ pc'[n] = "woken")
  <2>1. CASE UNCHANGED <<gq, pc>>
    BY <2>1 DEF StealOne, TypeOK
  <2>2. CASE GlobalPush(g, pc)
    BY <1>3, <2>2, GlobalPushType, SignalledFacts DEF StealOne, TypeOK, GlobalPush
  <2> QED
    BY <2>1, <2>2 DEF StealOne
<1>7. /\ hand' \in [Machines -> Goroutines \cup {NoG}] /\ hand'[m] # NoG
      /\ \A n \in Machines \ {m} : hand'[n] = hand[n]
  <2>1. CASE hand[m] = NoG
    <3>1. hand' = [hand EXCEPT ![m] = g]
      BY <2>1 DEF StealOne
    <3> HIDE DEF g
    <3> QED
      BY <1>3, <3>1 DEF TypeOK
  <2>2. CASE hand[m] # NoG
    BY <2>2 DEF StealOne, TypeOK
  <2> QED
    BY <2>1, <2>2
<1>8. /\ rq' \in [Procs -> Seq(Goroutines)] /\ rq'[v] = Tail(rq[v])
      /\ \A p \in Procs \ {v, m} : rq'[p] = rq[p]
      /\ m \in Procs => \/ rq'[m] = rq[m]
                        \/ Len(rq'[m]) = Len(rq[m]) + 1
  <2>1. CASE rq' = taken
    BY <1>1, <1>4, <2>1
  <2>2. CASE m \in Procs /\ rq' = [taken EXCEPT ![m] = Append(@, g)]
    <3>1. Append(rq[m], g) \in Seq(Goroutines) /\ Len(Append(rq[m], g)) = Len(rq[m]) + 1
      BY <1>3, <2>2, AppendFacts DEF TypeOK
    <3> QED
      BY <1>1, <1>4, <2>2, <3>1
  <2> QED
    BY <2>1, <2>2 DEF StealOne, HasP
<1>9. TypeOK'
  BY <1>5, <1>6, <1>7, <1>8 DEF TypeOK, StealOne
<1>10. Shape'
  <2>1. Elsewhere(m)
    BY <1>6, <1>7 DEF Elsewhere
  <2> QED
    BY <1>1, <1>6, <1>7, <2>1, ShapeFrame DEF Shape, OnStack
<1>11. \A n \in Machines \ {m} : pc[n] = "stealing" => vic[n] # v
  BY <1>1, Bases DEF Holding
<1>12. Holding'
  <2>1. ASSUME NEW p \in Procs, pmu[p] # Nobody PROVE pc'[pmu[p]] = "stealing" /\ vic[pmu[p]] = p
    BY <1>6, <2>1 DEF TypeOK, Holding
  <2>2. ASSUME NEW n \in Machines, pc'[n] = "stealing"
        PROVE  /\ vic[n] \in Procs \ {n} /\ pmu[vic[n]] = n
               /\ left'[n] <= Len(rq'[vic[n]])
               /\ hand'[n] = NoG => left'[n] > 0
    <3>1. CASE n = m
      <4>1. left'[m] <= Len(rq'[v])
        BY <1>1, <1>3, <1>5, <1>8
      <4> QED
        BY <1>1, <1>7, <3>1, <4>1
    <3>2. CASE n # m
      <4>1. pc[n] = "stealing" /\ vic[n] # v /\ vic[n] \in Procs /\ left'[n] = left[n]
        BY <1>5, <1>6, <1>11, <2>2, <3>2 DEF TypeOK, Holding
      <4>2. CASE vic[n] # m
        BY <1>7, <1>8, <3>2, <4>1, <4>2 DEF Holding
      <4>3. CASE vic[n] = m
        <5>1. Len(rq'[m]) \in Nat /\ Len(rq[m]) \in Nat /\ left[n] \in Nat /\ m \in Procs
          BY <1>8, <4>1, <4>3 DEF TypeOK
        <5>2. left[n] <= Len(rq[m])
          BY <4>1, <4>3 DEF Holding
        <5>3. Len(rq'[m]) = Len(rq[m]) \/ Len(rq'[m]) = Len(rq[m]) + 1
          BY <1>8, <5>1
        <5>4. left'[n] <= Len(rq'[vic[n]])
          BY <4>1, <4>3, <5>1, <5>2, <5>3
        <5> QED
          BY <1>7, <3>2, <4>1, <5>4 DEF Holding
      <4> QED
        BY <4>2, <4>3
    <3> QED
      BY <3>1, <3>2
  <2> QED
    BY <1>6, <2>1, <2>2 DEF Holding
<1>13. Room'
  <2>1. ASSUME NEW p \in Procs PROVE Len(rq[p]) \in Nat /\ Len(rq'[p]) \in Nat /\ Len(rq[p]) <= RunqCap
    BY <1>8 DEF TypeOK, Room
  <2>2. RunqCap \in Nat
    BY SchedAssumption
  <2>3. ASSUME m \in Procs
        PROVE  Len(rq'[m]) + left'[m] <= RunqCap
    <3>1. Len(rq[m]) + left[m] <= RunqCap
      BY <1>1, <2>3 DEF Room
    <3>2. Len(rq'[m]) = Len(rq[m]) \/ Len(rq'[m]) = Len(rq[m]) + 1
      BY <1>8, <2>3
    <3> QED
      BY <1>1, <1>5, <2>1, <2>2, <2>3, <3>1, <3>2
  <2>4. ASSUME NEW p \in Procs PROVE Len(rq'[p]) <= RunqCap
    <3>1. CASE p = v
      <4>1. Len(rq'[p]) = Len(rq[p]) - 1
        BY <1>3, <1>8, <3>1
      <4> QED
        BY <2>1, <2>2, <4>1
    <3>2. CASE p = m
      BY <1>1, <1>5, <2>1, <2>2, <2>3, <3>2
    <3>3. CASE p \notin {v, m}
      BY <1>8, <2>1, <3>3
    <3> QED
      BY <3>1, <3>2, <3>3
  <2>5. ASSUME NEW n \in Procs, n # m
        PROVE  /\ pc'[n] \in {"global", "steal"} => rq'[n] = <<>>
               /\ pc'[n] = "stealing" => Len(rq'[n]) + left'[n] <= RunqCap
    <3>1. left'[n] = left[n] /\ left[n] \in Nat /\ n \in Machines
      BY <1>5, <2>5, Bases DEF TypeOK
    <3>2. CASE n = v
      <4>1. pc[n] \notin {"global", "steal"}
        BY <1>2, <3>2 DEF Room
      <4>2. pc'[n] \notin {"global", "steal"}
        BY <1>6, <3>1, <4>1
      <4>3. ASSUME pc'[n] = "stealing" PROVE Len(rq'[n]) + left'[n] <= RunqCap
        <5>1. Len(rq[n]) + left[n] <= RunqCap
          BY <1>6, <3>1, <4>3 DEF Room
        <5>2. Len(rq'[n]) = Len(rq[n]) - 1
          BY <1>3, <1>8, <3>2
        <5> QED
          BY <2>1, <2>2, <3>1, <5>1, <5>2
      <4> QED
        BY <4>2, <4>3
    <3>3. CASE n # v
      BY <1>6, <1>8, <2>5, <3>1, <3>3 DEF Room
    <3> QED
      BY <3>2, <3>3
  <2> QED
    BY <1>1, <1>6, <2>3, <2>4, <2>5 DEF Room
<1>14. NoCycle'
  <2>1. ASSUME NEW a \in Procs, NEW b \in Procs, a # b, pmu[a] = b, pmu[b] = a
        PROVE  left'[a] = 0 \/ left'[b] = 0
    <3>1. left[a] = 0 \/ left[b] = 0
      BY <2>1 DEF NoCycle
    <3>2. \A n \in Machines : left[n] = 0 => left'[n] = 0
      BY <1>1, <1>5 DEF TypeOK
    <3> QED
      BY <3>1, <3>2, Bases
  <2> QED
    BY <1>6, <2>1 DEF NoCycle
<1>15. Sysmon'
  BY <1>6 DEF Sysmon
<1> QED
  BY <1>9, <1>10, <1>12, <1>13, <1>14, <1>15

\* The steal ends: the victim is free again, the thief runs its first catch.
LEMMA StealDoneKeeps ==
    ASSUME StealInv, NEW m \in Machines, StealDone(m)
    PROVE  StealInv'
<1> USE DEF StealInv
<1> DEFINE v == vic[m]
<1>1. pc[m] = "stealing" /\ v \in Procs \ {m} /\ pmu[v] = m /\ hand[m] # NoG /\ left[m] = 0
  BY DEF StealDone, Holding
<1>2. /\ pmu' = [pmu EXCEPT ![v] = Nobody] /\ vic' = [vic EXCEPT ![m] = 0]
      /\ hand' = [hand EXCEPT ![m] = NoG] /\ pc' = [pc EXCEPT ![m] = "run"]
      /\ cur' = [cur EXCEPT ![m] = hand[m]] /\ rq' = rq /\ left' = left /\ sys' = sys
  BY DEF StealDone, Execute
<1>3. TypeOK'
  <2>1. Execute(m, hand[m]) /\ hand[m] \in Goroutines \cup {NoG}
    BY DEF StealDone, TypeOK
  <2>2. pmu' \in [Procs -> Machines \cup {Nobody}] /\ hand' \in [Machines -> Goroutines \cup {NoG}]
    BY <1>2 DEF TypeOK
  <2>3. vic' \in [Machines -> 0..(NProcs + 1)]
    BY <1>2, SchedAssumption DEF TypeOK
  <2> QED
    BY <2>1, <2>2, <2>3, ExecuteType DEF TypeOK, StealDone
<1>4. Shape'
  <2>1. Elsewhere(m)
    BY <1>2 DEF TypeOK, Elsewhere
  <2> QED
    BY <1>1, <1>2, <2>1, ShapeFrame DEF TypeOK, Shape, OnStack
<1>5. Holding'
  <2>1. ASSUME NEW p \in Procs, pmu'[p] # Nobody
        PROVE  pc'[pmu'[p]] = "stealing" /\ vic'[pmu'[p]] = p
    <3>1. p # v /\ pmu'[p] = pmu[p] /\ pmu[p] \in Machines /\ vic[pmu[p]] = p
      BY <1>2, <2>1 DEF TypeOK, Holding
    <3>2. pmu[p] # m
      BY <3>1
    <3> QED
      BY <1>2, <2>1, <3>1, <3>2 DEF TypeOK, Holding
  <2>2. ASSUME NEW n \in Machines, pc'[n] = "stealing"
        PROVE  /\ vic'[n] \in Procs \ {n} /\ pmu'[vic'[n]] = n
               /\ left'[n] <= Len(rq'[vic'[n]])
               /\ hand'[n] = NoG => left'[n] > 0
    <3>1. n # m /\ pc[n] = "stealing" /\ vic'[n] = vic[n] /\ hand'[n] = hand[n]
      BY <1>2, <2>2 DEF TypeOK
    <3>2. vic[n] # v
      BY <1>1, <3>1 DEF Holding
    <3> QED
      BY <1>2, <3>1, <3>2 DEF TypeOK, Holding
  <2> QED
    BY <2>1, <2>2 DEF Holding
<1>6. Room'
  BY <1>2, Bases DEF TypeOK, Room
<1>7. NoCycle'
  <2>1. ASSUME NEW a \in Procs, NEW b \in Procs, a # b, pmu'[a] = b, pmu'[b] = a
        PROVE  left[a] = 0 \/ left[b] = 0
    <3>1. pmu[a] = b /\ pmu[b] = a
      BY <1>2, <2>1, Bases DEF TypeOK
    <3> QED
      BY <2>1, <3>1 DEF NoCycle
  <2> QED
    BY <1>2, <2>1 DEF NoCycle
<1> QED
  BY <1>2, <1>3, <1>4, <1>5, <1>6, <1>7 DEF Sysmon

\* A step that moves at most machine m between places where it neither looks
\* for work nor steals, and changes nobody's stack or hand.
LEMMA PlainMove ==
    ASSUME StealInv, TypeOK', NEW m, Elsewhere(m),
           UNCHANGED <<rq, pmu, left, vic, cur, hand, sys>>,
           m \in Machines =>
              /\ OnStack(m)' <=> OnStack(m)
              /\ pc[m] # "stealing" /\ (hand[m] # NoG => pc'[m] = pc[m])
              /\ pc'[m] \notin {"stealing", "global", "steal", "pop", "requeue", "reap"}
              /\ pc'[m] = "drain" => m \in Procs
    PROVE  StealInv'
<1> USE DEF StealInv
<1>1. Shape'
  BY ShapeFrame DEF Shape
<1>2. Holding' /\ Room' /\ NoCycle'
  BY StealFrame, Bases DEF Elsewhere, Room
<1> QED
  BY <1>1, <1>2 DEF Sysmon

\* The last look at the global queue, then sleep.
LEMMA ParkMKeeps ==
    ASSUME StealInv, NEW m \in Machines, ParkM(m)
    PROVE  StealInv'
<1> USE DEF StealInv
<1>1. CASE ExecuteGlobal(m)
  <2>1. TypeOK'
    BY <1>1, ExecuteGlobalType DEF TypeOK, ParkM
  <2>2. Head(gq) # NoG
    BY <1>1, TailFacts, SchedAssumption DEF TypeOK, ExecuteGlobal
  <2>3. Shape'
    <3>1. Elsewhere(m)
      BY <1>1 DEF TypeOK, Elsewhere, ParkM, ExecuteGlobal, Execute
    <3> QED
      BY <3>1, <1>1, <2>2, ShapeFrame DEF TypeOK, Shape, ParkM, ExecuteGlobal, Execute, OnStack
  <2>4. Holding' /\ Room' /\ NoCycle'
    BY <1>1, StealFrame, Bases DEF TypeOK, Room, ParkM, ExecuteGlobal, Execute
  <2> QED
    BY <2>1, <2>3, <2>4 DEF Sysmon, ParkM
<1>2. CASE Goto(m, "asleep") /\ UNCHANGED <<gq, status, preempt, cur, age>>
  <2>1. TypeOK'
    <3>1. pc' \in [Machines -> PCs]
      BY <1>2, GotoType DEF PCs
    <3> QED
      BY <1>2, <3>1 DEF TypeOK, ParkM
  <2>2. Elsewhere(m)
    BY <1>2 DEF TypeOK, Elsewhere, ParkM, Goto
  <2> QED
    BY <1>2, <2>1, <2>2, PlainMove DEF TypeOK, Shape, ParkM, Goto, OnStack
<1> QED
  BY <1>1, <1>2 DEF ParkM

\* A machine that slept on ks_gcond goes back to looking.
LEMMA WakingKeeps ==
    ASSUME StealInv, NEW m \in Machines, Woken(m) \/ SpuriousWake(m)
    PROVE  StealInv'
<1> USE DEF StealInv
<1>1. /\ pc[m] \in {"woken", "asleep"}
      /\ pc' \in {[pc EXCEPT ![m] = "find"], [pc EXCEPT ![m] = "woken"]}
      /\ UNCHANGED <<gq, rq, pmu, status, preempt, lockedM, lockedG, waitOn, cmu,
                     cur, hand, tick, vic, left, age, sys>>
  BY DEF Woken, SpuriousWake, Goto
<1>2. TypeOK'
  <2>1. pc' \in [Machines -> PCs]
    BY <1>1 DEF TypeOK, PCs
  <2> QED
    BY <1>1, <2>1 DEF TypeOK
<1>3. Elsewhere(m)
  BY <1>1 DEF TypeOK, Elsewhere
<1> QED
  BY <1>1, <1>2, <1>3, PlainMove DEF TypeOK, Shape, OnStack

-----------------------------------------------------------------------------
(* What a running goroutine does.                                          *)

\* klainsync_go: a new goroutine enters the global queue.
LEMMA GoKeeps ==
    ASSUME StealInv, NEW g \in Goroutines, Go(g)
    PROVE  StealInv'
<1> USE DEF StealInv
<1>1. gq' \in Seq(Goroutines) /\ pc' \in [Machines -> PCs]
  BY GlobalPushType DEF TypeOK, Go
<1>2. status' \in [Goroutines -> Statuses]
  BY DEF TypeOK, Go, Statuses
<1>3. TypeOK'
  BY <1>1, <1>2 DEF TypeOK, Go
<1>4. Elsewhere(Main)
  <2>1. pc' \in Signalled(pc) /\ cur' = cur /\ hand' = hand
    BY DEF Go, GlobalPush
  <2> QED
    BY <2>1, SignalledFacts DEF TypeOK, Elsewhere
<1> QED
  BY <1>3, <1>4, PlainMove, Bases DEF Go

\* The steps of a goroutine that only change its own status or machine:
\* parking, calls, yielding, locking, returning.
LEMMA BodyKeeps ==
    ASSUME StealInv, NEW m \in Machines, BodyStep(m) \/ Safepoint(m)
    PROVE  StealInv'
<1> USE DEF StealInv
<1>1. /\ pc[m] \in {"run", "call"}
      /\ \E l \in {"switch", "call", "run", "drain"} :
            pc' = [pc EXCEPT ![m] = l] /\ (l = "drain" => m \in Procs)
      /\ UNCHANGED <<gq, rq, pmu, cur, hand, tick, vic, left, age, sys>>
  <2>1. ASSUME NEW S \in SUBSET Chans, Park(m, S) PROVE <1>1!:
    BY <2>1 DEF Park, Goto
  <2>2. CASE EnterCall(m)
    BY <2>2 DEF EnterCall, Goto
  <2>3. CASE LeaveCall(m)
    BY <2>3 DEF LeaveCall, Goto
  <2>4. CASE LockThread(m)
    BY <2>4 DEF LockThread, Goto, HasP
  <2>5. CASE Finish(m)
    BY <2>5 DEF Finish, Goto
  <2>6. CASE Safepoint(m)
    BY <2>6 DEF Safepoint, Goto
  <2> QED
    BY <2>1, <2>2, <2>3, <2>4, <2>5, <2>6 DEF BodyStep
<1>2. pc' \in [Machines -> PCs]
  BY <1>1 DEF TypeOK, PCs
<1>3. /\ status' \in [Goroutines -> Statuses] /\ preempt' \in [Goroutines -> BOOLEAN]
      /\ lockedM' \in [Goroutines -> Machines \cup {Nobody}]
      /\ lockedG' \in [Machines -> Goroutines \cup {NoG}]
      /\ waitOn' \in [Goroutines -> SUBSET Chans] /\ cmu' \in [Chans -> Machines \cup {Nobody}]
  <2>1. ASSUME NEW S \in SUBSET Chans, Park(m, S) PROVE <1>3!:
    <3>1. status' \in [Goroutines -> Statuses]
      BY <2>1 DEF TypeOK, Park, Statuses
    <3>2. waitOn' \in [Goroutines -> SUBSET Chans] /\ cmu' \in [Chans -> Machines \cup {Nobody}]
      BY <2>1 DEF TypeOK, Park
    <3> QED
      BY <2>1, <3>1, <3>2 DEF TypeOK, Park
  <2>2. CASE EnterCall(m) \/ LeaveCall(m)
    BY <2>2 DEF TypeOK, EnterCall, LeaveCall
  <2>3. CASE LockThread(m)
    BY <2>3 DEF TypeOK, LockThread
  <2>4. CASE Finish(m)
    <3>1. status' \in [Goroutines -> Statuses]
      BY <2>4 DEF TypeOK, Finish, Statuses
    <3> QED
      BY <2>4, <3>1 DEF TypeOK, Finish
  <2>5. CASE Safepoint(m)
    <3>1. status' \in [Goroutines -> Statuses]
      BY <2>5 DEF TypeOK, Safepoint, Statuses
    <3> QED
      BY <2>5, <3>1 DEF TypeOK, Safepoint
  <2> QED
    BY <2>1, <2>2, <2>3, <2>4, <2>5 DEF BodyStep
<1>4. TypeOK'
  BY <1>1, <1>2, <1>3 DEF TypeOK
<1>5. Elsewhere(m)
  BY <1>1 DEF TypeOK, Elsewhere
<1> QED
  BY <1>1, <1>4, <1>5, PlainMove DEF TypeOK, Shape, OnStack

\* Readying a goroutine touches the waker's own ring, whose mutex is free,
\* and only while that machine runs a goroutine.
LEMMA WakeKeeps ==
    ASSUME StealInv, NEW m \in Machines \cup {Main}, NEW c \in Chans, NEW g \in Goroutines,
           Wake(m, c, g)
    PROVE  StealInv'
<1> USE DEF StealInv
<1>1. /\ status' \in [Goroutines -> Statuses] /\ waitOn' \in [Goroutines -> SUBSET Chans]
      /\ UNCHANGED <<pmu, preempt, lockedM, lockedG, cmu, cur, hand, tick, vic, left, age, sys>>
  <2>1. status' \in [Goroutines -> Statuses]
    BY DEF TypeOK, Wake, Ready, Statuses
  <2> QED
    BY <2>1 DEF TypeOK, Wake
<1>2. CASE UNCHANGED <<gq, rq, pc>>
  <2>1. TypeOK'
    BY <1>1, <1>2 DEF TypeOK
  <2>2. Elsewhere(Main)
    BY <1>1, <1>2 DEF Elsewhere
  <2> QED
    BY <1>1, <1>2, <2>1, <2>2, PlainMove, Bases
<1>3. CASE GlobalPush(g, pc) /\ UNCHANGED rq
  <2>1. gq' \in Seq(Goroutines) /\ pc' \in [Machines -> PCs]
    BY <1>3, GlobalPushType DEF TypeOK
  <2>2. TypeOK'
    BY <1>1, <1>3, <2>1 DEF TypeOK
  <2>3. Elsewhere(Main)
    BY <1>1, <1>3, SignalledFacts DEF TypeOK, Elsewhere, GlobalPush
  <2> QED
    BY <1>1, <1>3, <2>2, <2>3, PlainMove, Bases
<1>4. CASE /\ HasP(m) /\ pmu[m] = Nobody /\ Len(rq[m]) < RunqCap
           /\ rq' = [rq EXCEPT ![m] = Append(@, g)]
           /\ UNCHANGED <<gq, pc>>
  <2>0. m \in Procs /\ m \in Machines /\ pc[m] = "run"
    BY <1>4, Bases DEF HasP, Wake
  <2>1. /\ Append(rq[m], g) \in Seq(Goroutines) /\ Len(Append(rq[m], g)) = Len(rq[m]) + 1
        /\ Len(rq[m]) \in Nat /\ RunqCap \in Nat
    BY <2>0, AppendFacts, SchedAssumption DEF TypeOK
  <2>2. /\ rq' \in [Procs -> Seq(Goroutines)] /\ Len(rq'[m]) <= RunqCap
        /\ \A p \in Procs \ {m} : rq'[p] = rq[p]
    <3>1. rq'[m] = Append(rq[m], g) /\ \A p \in Procs \ {m} : rq'[p] = rq[p]
      BY <1>4, <2>0 DEF TypeOK
    <3>2. Len(rq'[m]) <= RunqCap
      BY <1>4, <2>1, <3>1
    <3>3. rq' \in [Procs -> Seq(Goroutines)]
      BY <1>4, <2>0, <2>1 DEF TypeOK
    <3> QED
      BY <3>1, <3>2, <3>3
  <2>3. TypeOK'
    BY <1>1, <1>4, <2>2 DEF TypeOK
  <2>4. Shape'
    BY <1>1, <1>4 DEF Shape, OnStack
  <2>5. \A n \in Machines : pc[n] = "stealing" => vic[n] # m
    BY <1>4, Bases DEF Holding
  <2>6. Holding'
    BY <1>1, <1>4, <2>2, <2>5 DEF Holding
  <2>7. Room'
    BY <1>1, <1>4, <2>0, <2>2, Bases DEF Room
  <2> QED
    BY <1>1, <2>3, <2>4, <2>6, <2>7 DEF NoCycle, Sysmon
<1> QED
  BY <1>2, <1>3, <1>4 DEF Wake, Ready

\* Draining a locked machine's ring: its own mutex is free.
LEMMA DrainKeeps ==
    ASSUME StealInv, NEW m \in Machines, Drain(m)
    PROVE  StealInv'
<1> USE DEF StealInv
<1>0. /\ pc[m] = "drain" /\ m \in Procs
      /\ UNCHANGED <<pmu, status, preempt, lockedM, lockedG, waitOn, cmu, cur,
                     tick, vic, left, age, sys>>
  BY DEF Drain, Shape
<1>1. CASE /\ hand[m] = NoG /\ pmu[m] = Nobody /\ rq[m] # <<>>
           /\ rq' = [rq EXCEPT ![m] = Tail(@)]
           /\ hand' = [hand EXCEPT ![m] = Head(rq[m])]
           /\ UNCHANGED <<gq, pc>>
  <2>1. /\ Head(rq[m]) \in Goroutines
        /\ Tail(rq[m]) \in Seq(Goroutines) /\ Len(Tail(rq[m])) = Len(rq[m]) - 1
        /\ Len(rq[m]) \in Nat /\ RunqCap \in Nat
    BY <1>0, <1>1, TailFacts, SchedAssumption DEF TypeOK
  <2>2. /\ rq' \in [Procs -> Seq(Goroutines)] /\ Len(rq'[m]) <= RunqCap
        /\ \A p \in Procs \ {m} : rq'[p] = rq[p]
    <3>1. rq'[m] = Tail(rq[m]) /\ \A p \in Procs \ {m} : rq'[p] = rq[p]
      BY <1>0, <1>1 DEF TypeOK
    <3>2. Len(rq[m]) <= RunqCap
      BY <1>0 DEF Room
    <3>3. Len(rq'[m]) <= RunqCap
      BY <2>1, <3>1, <3>2
    <3>4. rq' \in [Procs -> Seq(Goroutines)]
      BY <1>0, <1>1, <2>1 DEF TypeOK
    <3> QED
      BY <3>1, <3>3, <3>4
  <2>3. hand' \in [Machines -> Goroutines \cup {NoG}]
    BY <1>1, <2>1 DEF TypeOK
  <2>4. TypeOK'
    BY <1>0, <1>1, <2>2, <2>3 DEF TypeOK
  <2>5. Shape'
    <3>1. Elsewhere(m)
      BY <1>0, <1>1 DEF TypeOK, Elsewhere
    <3> QED
      BY <1>0, <1>1, <3>1, ShapeFrame DEF TypeOK, Shape, OnStack
  <2>6. \A n \in Machines : pc[n] = "stealing" => vic[n] # m
    BY <1>1, Bases DEF Holding
  <2>7. Holding'
    BY <1>0, <1>1, <2>2, <2>6 DEF TypeOK, Holding
  <2>8. Room'
    BY <1>0, <1>1, <2>2, Bases DEF Room
  <2> QED
    BY <1>0, <2>4, <2>5, <2>7, <2>8 DEF NoCycle, Sysmon
<1>2. CASE /\ hand[m] # NoG /\ GlobalPush(hand[m], pc)
           /\ hand' = [hand EXCEPT ![m] = NoG] /\ UNCHANGED rq
  <2>1. gq' \in Seq(Goroutines) /\ pc' \in [Machines -> PCs]
    BY <1>2, GlobalPushType DEF TypeOK
  <2>2. \A n \in Machines : pc'[n] = pc[n] \/ (pc[n] = "asleep" /\ pc'[n] = "woken")
    BY <1>2, SignalledFacts DEF TypeOK, GlobalPush
  <2>3. TypeOK'
    <3>1. hand' \in [Machines -> Goroutines \cup {NoG}]
      BY <1>2 DEF TypeOK
    <3> QED
      BY <1>0, <1>2, <2>1, <3>1 DEF TypeOK
  <2>4. Elsewhere(m)
    BY <1>0, <1>2, <2>2 DEF TypeOK, Elsewhere
  <2>5. Shape'
    BY <1>0, <1>2, <2>2, <2>4, ShapeFrame DEF TypeOK, Shape, OnStack
  <2>6. Holding' /\ Room' /\ NoCycle'
    <3>1. \A n \in Machines : pc'[n] = "stealing" => hand'[n] = hand[n]
      BY <1>0, <1>2, <2>2 DEF TypeOK
    <3>2. \A n \in Procs : pc'[n] \in {"global", "steal"} => rq[n] = <<>>
      BY <2>2, Bases DEF Room
    <3> QED
      BY <1>0, <1>2, <2>2, <3>1, <3>2, StealFrame
  <2> QED
    BY <1>0, <2>3, <2>5, <2>6 DEF Sysmon
<1>3. CASE hand[m] = NoG /\ Goto(m, "run") /\ UNCHANGED <<gq, rq, hand>>
  <2>1. TypeOK'
    <3>1. pc' \in [Machines -> PCs]
      BY <1>3, GotoType DEF PCs
    <3> QED
      BY <1>0, <1>3, <3>1 DEF TypeOK
  <2>2. Elsewhere(m)
    BY <1>0, <1>3 DEF TypeOK, Elsewhere, Goto
  <2> QED
    BY <1>0, <1>3, <2>1, <2>2, PlainMove DEF TypeOK, Goto, OnStack
<1> QED
  BY <1>1, <1>2, <1>3 DEF Drain

-----------------------------------------------------------------------------
(* After the switch.                                                       *)

\* Back on the scheduler's stack: the goroutine moves from stack to hand.
LEMMA SwitchOutKeeps ==
    ASSUME StealInv, NEW m \in Machines, SwitchOut(m)
    PROVE  StealInv'
<1> USE DEF StealInv
<1> DEFINE g == cur[m]
<1>1. /\ pc[m] = "switch" /\ g # NoG /\ cur' = [cur EXCEPT ![m] = NoG]
      /\ UNCHANGED <<gq, rq, pmu, status, preempt, lockedM, lockedG, waitOn, cmu,
                     tick, vic, left, age, sys>>
  BY DEF SwitchOut, Shape, OnStack
<1>2. \/ pc' = [pc EXCEPT ![m] = "unlock"] /\ hand' = [hand EXCEPT ![m] = NoG]
      \/ /\ pc' \in {[pc EXCEPT ![m] = "reap"], [pc EXCEPT ![m] = "requeue"]}
         /\ hand' = [hand EXCEPT ![m] = g]
  BY DEF SwitchOut, Goto
<1>3. TypeOK'
  <2>1. pc' \in [Machines -> PCs]
    BY <1>2 DEF TypeOK, PCs
  <2>2. cur' \in [Machines -> Goroutines \cup {NoG}] /\ hand' \in [Machines -> Goroutines \cup {NoG}]
    BY <1>1, <1>2 DEF TypeOK
  <2> QED
    BY <1>1, <2>1, <2>2 DEF TypeOK
<1>4. Shape'
  <2>1. Elsewhere(m)
    BY <1>1, <1>2 DEF TypeOK, Elsewhere
  <2>2. /\ cur'[m] = NoG
        /\ \/ pc'[m] = "unlock" /\ hand'[m] = NoG
           \/ pc'[m] \in {"reap", "requeue"} /\ hand'[m] # NoG
    <3>1. CASE pc' = [pc EXCEPT ![m] = "unlock"] /\ hand' = [hand EXCEPT ![m] = NoG]
      BY <1>1, <3>1 DEF TypeOK
    <3>2. CASE /\ pc' \in {[pc EXCEPT ![m] = "reap"], [pc EXCEPT ![m] = "requeue"]}
               /\ hand' = [hand EXCEPT ![m] = g]
      BY <1>1, <3>2 DEF TypeOK
    <3> QED
      BY <1>2, <3>1, <3>2
  <2> QED
    BY <2>1, <2>2, ShapeFrame DEF OnStack
<1>5. Holding' /\ Room' /\ NoCycle'
  <2>1. \A n \in Machines : /\ pc'[n] = pc[n] \/ (n = m /\ pc'[n] \in {"unlock", "reap", "requeue"})
                            /\ n # m => hand'[n] = hand[n]
    BY <1>1, <1>2 DEF TypeOK
  <2>2. \A n \in Procs : pc'[n] \in {"global", "steal"} => rq[n] = <<>>
    BY <2>1, Bases DEF Room
  <2> QED
    BY <1>1, <2>1, <2>2, StealFrame
<1> QED
  BY <1>1, <1>3, <1>4, <1>5 DEF Sysmon

\* The deferred unlocks touch channel mutexes only.
LEMMA ParkUnlockKeeps ==
    ASSUME StealInv, NEW m \in Machines, ParkUnlock(m)
    PROVE  StealInv'
<1> USE DEF StealInv
<1>1. /\ pc[m] = "unlock" /\ pc' \in {pc, [pc EXCEPT ![m] = "find"]}
      /\ UNCHANGED <<gq, rq, pmu, status, preempt, lockedM, lockedG, waitOn, cur,
                     hand, tick, vic, left, age, sys>>
  BY DEF ParkUnlock, Goto
<1>2. cmu' \in [Chans -> Machines \cup {Nobody}]
  BY DEF ParkUnlock, TypeOK
<1>3. TypeOK'
  <2>1. pc' \in [Machines -> PCs]
    BY <1>1 DEF TypeOK, PCs
  <2> QED
    BY <1>1, <1>2, <2>1 DEF TypeOK
<1>4. Elsewhere(m)
  BY <1>1 DEF TypeOK, Elsewhere
<1> QED
  BY <1>1, <1>3, <1>4, PlainMove DEF TypeOK, Shape, OnStack

\* The two ends of a goroutine in the scheduler's hand: queued, or freed.
LEMMA LeaveHandKeeps ==
    ASSUME StealInv, NEW m \in Machines, Requeue(m) \/ Reap(m)
    PROVE  StealInv'
<1> USE DEF StealInv
<1>1. /\ pc[m] \in {"requeue", "reap"} /\ hand[m] \in Goroutines
      /\ hand' = [hand EXCEPT ![m] = NoG]
      /\ UNCHANGED <<rq, pmu, preempt, lockedM, lockedG, waitOn, cmu, cur, tick,
                     vic, left, age, sys>>
  BY DEF Requeue, Reap, Shape, TypeOK
<1>2. [pc EXCEPT ![m] = "find"] \in [Machines -> PCs]
  BY DEF TypeOK, PCs
<1>3. /\ gq' \in Seq(Goroutines) /\ pc' \in [Machines -> PCs] /\ pc'[m] = "find"
      /\ \A n \in Machines \ {m} : pc'[n] = pc[n] \/ (pc[n] = "asleep" /\ pc'[n] = "woken")
  <2> DEFINE npc == [pc EXCEPT ![m] = "find"]
  <2>1. npc[m] = "find" /\ \A n \in Machines \ {m} : npc[n] = pc[n]
    BY DEF TypeOK
  <2>2. CASE gq' = gq /\ pc' = npc
    BY <1>2, <2>1, <2>2 DEF TypeOK
  <2>3. CASE GlobalPush(hand[m], npc)
    <3>1. gq' \in Seq(Goroutines) /\ pc' \in [Machines -> PCs]
      BY <1>1, <1>2, <2>3, GlobalPushType
    <3>2. pc' \in Signalled(npc)
      BY <2>3 DEF GlobalPush
    <3> HIDE DEF npc
    <3>3. \A n \in Machines : pc'[n] = npc[n] \/ (npc[n] = "asleep" /\ pc'[n] = "woken")
      BY <1>2, <3>2, SignalledFacts DEF npc
    <3> QED
      BY <2>1, <3>1, <3>3
  <2> QED
    BY <2>2, <2>3 DEF Requeue, Reap, Goto
<1>4. TypeOK'
  <2>1. status' \in [Goroutines -> Statuses]
    BY DEF Requeue, Reap, TypeOK, Statuses
  <2>2. hand' \in [Machines -> Goroutines \cup {NoG}]
    BY <1>1 DEF TypeOK
  <2> QED
    BY <1>1, <1>3, <2>1, <2>2 DEF TypeOK
<1>5. Elsewhere(m)
  BY <1>1, <1>3 DEF TypeOK, Elsewhere
<1>6. Shape'
  BY <1>1, <1>3, <1>5, ShapeFrame DEF TypeOK, Shape, OnStack
<1>7. Holding' /\ Room' /\ NoCycle'
  <2>1. \A n \in Machines : pc'[n] = "stealing" => hand'[n] = hand[n]
    BY <1>1, <1>3 DEF TypeOK
  <2>2. \A n \in Procs : pc'[n] \in {"global", "steal"} => rq[n] = <<>>
    BY <1>3, Bases DEF Room
  <2> QED
    BY <1>1, <1>3, <2>1, <2>2, StealFrame
<1> QED
  BY <1>1, <1>4, <1>6, <1>7 DEF Sysmon

-----------------------------------------------------------------------------
(* Time and sysmon.                                                        *)

\* Time touches nothing but the run window.
LEMMA OverrunKeeps ==
    ASSUME StealInv, NEW m \in Machines, Overrun(m)
    PROVE  StealInv'
<1> USE DEF StealInv
<1>1. age' \in [Machines -> 0..AgeCap]
  BY SchedAssumption DEF TypeOK, Overrun
<1>2. TypeOK'
  BY <1>1 DEF TypeOK, Overrun
<1>3. Elsewhere(Main)
  BY DEF Elsewhere, Overrun
<1> QED
  BY <1>2, <1>3, PlainMove, Bases DEF Overrun

\* sysmon touches its own state, preempt flags, and a machine not started.
LEMMA SysKeeps ==
    ASSUME StealInv, SysStep
    PROVE  StealInv'
<1> USE DEF StealInv
<1>0. NProcs \in Nat /\ 1 <= NProcs
  BY SchedAssumption
<1>1. UNCHANGED <<gq, rq, pmu, status, lockedM, lockedG, waitOn, cmu,
                  cur, hand, tick, vic, left, age>>
  BY DEF SysStep, SysLoad, SysFlag, SysSpawn, SysSleep
<1>2. preempt' \in [Goroutines -> BOOLEAN]
  BY DEF TypeOK, SysStep, SysLoad, SysFlag, SysSpawn, SysSleep
<1>3. /\ sys' \in [pc : {"scan", "flag"}, i : 1..(NProcs + 1),
                   g : Goroutines \cup {NoG}, stuck : BOOLEAN]
      /\ Sysmon'
  <2>1. CASE SysLoad
    <3>1. sys.i \in Procs /\ sys.i + 1 \in 1..(NProcs + 1) /\ sys.i \in Machines
      BY <1>0, <2>1, Bases DEF TypeOK, SysLoad, Procs
    <3> QED
      BY <2>1, <3>1 DEF TypeOK, SysLoad, Sysmon
  <2>2. CASE SysFlag
    <3>1. sys.i \in Procs /\ sys.i + 1 \in 1..(NProcs + 1)
      BY <1>0, <2>2 DEF SysFlag, Sysmon, Procs
    <3>2. sys'.pc = "scan"
      BY <2>2 DEF SysFlag
    <3>3. \E b \in BOOLEAN : sys' = [pc |-> "scan", i |-> sys.i + 1, g |-> NoG, stuck |-> b]
      BY <2>2 DEF SysFlag, TypeOK
    <3> QED
      BY <3>1, <3>2, <3>3 DEF Sysmon
  <2>3. CASE SysSpawn \/ SysSleep
    <3>1. sys' = [pc |-> "scan", i |-> 1, g |-> NoG, stuck |-> FALSE]
      BY <2>3 DEF SysSpawn, SysSleep, SysNext
    <3>2. 1 \in 1..(NProcs + 1) /\ sys'.pc = "scan"
      BY <1>0, <3>1
    <3> QED
      BY <3>1, <3>2 DEF Sysmon
  <2> QED
    BY <2>1, <2>2, <2>3 DEF SysStep
<1>4. /\ pc' \in [Machines -> PCs]
      /\ pc' = pc \/ \E r \in Machines : pc[r] = "off" /\ pc' = [pc EXCEPT ![r] = "find"]
  BY DEF TypeOK, PCs, SysStep, SysLoad, SysFlag, SysSpawn, SysSleep, Goto
<1>5. TypeOK'
  BY <1>1, <1>2, <1>3, <1>4 DEF TypeOK
<1>6. Shape'
  BY <1>1, <1>4 DEF TypeOK, Shape, OnStack
<1>7. Holding' /\ Room' /\ NoCycle'
  <2>1. \A n \in Machines : pc'[n] = pc[n] \/ (pc[n] = "off" /\ pc'[n] = "find")
    BY <1>4 DEF TypeOK
  <2>2. \A n \in Procs : pc'[n] \in {"global", "steal"} => rq[n] = <<>>
    BY <2>1, Bases DEF Room
  <2> QED
    BY <1>1, <2>1, <2>2, StealFrame
<1> QED
  BY <1>3, <1>5, <1>6, <1>7

-----------------------------------------------------------------------------
(* The invariant and what follows from it.                                 *)

\* ks_init establishes the invariant.
LEMMA StealInvInit == Init => StealInv
<1> SUFFICES ASSUME Init PROVE StealInv
  OBVIOUS
<1>0. NProcs \in Nat /\ 1 <= NProcs /\ PollPeriod \in Nat /\ 1 <= PollPeriod /\ RunqCap \in Nat
  BY SchedAssumption
<1>1. pc \in [Machines -> {"find", "off"}] /\ \A m \in Machines : cur[m] = NoG /\ hand[m] = NoG
  BY DEF Init
<1>2. TypeOK
  <2>1. gq \in Seq(Goroutines) /\ rq \in [Procs -> Seq(Goroutines)]
    BY DEF Init
  <2>2. pc \in [Machines -> PCs] /\ status \in [Goroutines -> Statuses]
    BY <1>1 DEF Init, PCs, Statuses
  <2>3. sys \in [pc : {"scan", "flag"}, i : 1..(NProcs + 1),
                 g : Goroutines \cup {NoG}, stuck : BOOLEAN]
    BY <1>0 DEF Init
  <2>4. /\ tick \in [Machines -> 0..(PollPeriod - 1)] /\ vic \in [Machines -> 0..(NProcs + 1)]
        /\ age \in [Machines -> 0..AgeCap] /\ left \in [Machines -> Nat]
    BY <1>0, SchedAssumption DEF Init
  <2> QED
    BY <2>1, <2>2, <2>3, <2>4 DEF Init, TypeOK
<1>3. Shape
  BY <1>1 DEF Shape, OnStack
<1>4. Holding /\ NoCycle
  BY <1>1, Bases DEF Init, Holding, NoCycle
<1>5. Room
  BY <1>0, <1>1, Bases DEF Init, Room
<1> QED
  BY <1>2, <1>3, <1>4, <1>5 DEF StealInv, Init, Sysmon

\* Every step of the scheduler keeps it: one case per action.
LEMMA StealInvStep == StealInv /\ [Next]_vars => StealInv'
<1> SUFFICES ASSUME StealInv, [Next]_vars PROVE StealInv'
  OBVIOUS
<1>1. ASSUME NEW m \in Machines, FindStep(m) PROVE StealInv'
  BY <1>1, FindKeeps, FindLockedKeeps, PopLocalKeeps, PopGlobalKeeps, StealTryKeeps,
     StealOneKeeps, StealDoneKeeps, ParkMKeeps, WakingKeeps DEF FindStep
<1>2. ASSUME NEW m \in Machines, LeaveStep(m) PROVE StealInv'
  BY <1>2, SwitchOutKeeps, ParkUnlockKeeps, LeaveHandKeeps DEF LeaveStep
<1>3. ASSUME NEW m \in Machines,
             BodyStep(m) \/ SpuriousWake(m) \/ Safepoint(m) \/ Drain(m) \/ Overrun(m)
      PROVE  StealInv'
  BY <1>3, BodyKeeps, WakingKeeps, DrainKeeps, OverrunKeeps
<1>4. ASSUME NEW m \in Machines \cup {Main}, NEW c \in Chans, NEW g \in Goroutines, Wake(m, c, g)
      PROVE  StealInv'
  BY <1>4, WakeKeeps
<1>5. ASSUME NEW g \in Goroutines, Go(g) PROVE StealInv'
  BY <1>5, GoKeeps
<1>6. CASE SysStep
  BY <1>6, SysKeeps
<1>7. CASE UNCHANGED vars
  BY <1>7 DEF vars, StealInv, TypeOK, Shape, OnStack, Holding, Room, NoCycle, Sysmon
<1> QED
  BY <1>1, <1>2, <1>3, <1>4, <1>5, <1>6, <1>7 DEF Next

\* klainsync.c keeps its scheduler state well-formed: for any number of
\* processors, rescue machines, goroutines and channels every queue slot,
\* machine and hand holds a goroutine of the program or nothing.
THEOREM TypeCorrect == Spec => []TypeOK
<1>1. Spec => []StealInv
  BY StealInvInit, StealInvStep, PTL DEF Spec
<1>2. StealInv => TypeOK
  BY DEF StealInv
<1> QED
  BY <1>1, <1>2, PTL

\* ks_p_steal takes two ring mutexes in no fixed order and yet two thieves
\* never block each other: a machine steals only with its own ring empty, so
\* whoever already holds that ring's mutex has nothing left to push.
THEOREM StealsNeverCycle == Spec => []NoStealCycle
<1>1. Spec => []StealInv
  BY StealInvInit, StealInvStep, PTL DEF Spec
<1>2. StealInv => NoStealCycle
  <2> SUFFICES ASSUME StealInv, NEW m \in Procs, NEW n \in Procs, m # n,
                      WantsOwnRing(m), WantsOwnRing(n), pmu[m] = n, pmu[n] = m
               PROVE  FALSE
    BY DEF NoStealCycle
  <2>1. left[m] = 0 \/ left[n] = 0
    BY DEF StealInv, NoCycle
  <2> QED
    BY <2>1 DEF WantsOwnRing
<1> QED
  BY <1>1, <1>2, PTL

-----------------------------------------------------------------------------
(* The inductive invariant.                                                *)

\* Goroutine g is in at most one place, the one its status and its lock
\* allow, and in some place when it is runnable.
Placed(g) ==
    /\ \A p \in Procs : InRing(p, g) => ~InGlobal(g)
    /\ \A p, q \in Procs : InRing(p, g) /\ InRing(q, g) => p = q
    /\ \A m, n \in Machines : OnMachine(m, g) /\ OnMachine(n, g) => m = n
    /\ \A m \in Machines : OnMachine(m, g) => ~Queued(g)
    /\ Queued(g) => status[g] = "runnable"
    /\ status[g] = "runnable" =>
          \/ Queued(g)
          \/ \E m \in Machines : OnMachine(m, g)
          \/ lockedM[g] # Nobody
    /\ lockedM[g] # Nobody =>
          /\ lockedG[lockedM[g]] = g
          /\ ~Queued(g) /\ status[g] # "new"
          /\ \A m \in Machines : OnMachine(m, g) => m = lockedM[g]

\* Machine m's goroutine is in the state that m's place in ks_execute says; a
\* goroutine that is switching out to wait still holds, through its machine,
\* the mutexes of the channels it waits on; and a locked machine has no
\* goroutine but its own and is never in the part of ks_findrunnable that
\* looks for another.
Custody(m) ==
    /\ pc[m] \in {"run", "call", "drain"} => status[cur[m]] = "running"
    /\ pc[m] = "switch" =>
          /\ status[cur[m]] \in {"waiting", "runnable", "dead"}
          /\ status[cur[m]] = "waiting" => \A c \in waitOn[cur[m]] : cmu[c] = m
    /\ hand[m] # NoG => status[hand[m]] = IF pc[m] = "reap" THEN "dead" ELSE "runnable"
    /\ lockedG[m] # NoG =>
          /\ lockedM[lockedG[m]] = m
          /\ pc[m] \notin {"pop", "global", "steal", "stealing", "park", "asleep", "woken"}
          /\ cur[m] # NoG => cur[m] = lockedG[m]

PlaceInv ==
    /\ Distinct(gq) /\ \A p \in Procs : Distinct(rq[p])
    /\ \A g \in Goroutines : Placed(g)
    /\ \A m \in Machines : Custody(m)

-----------------------------------------------------------------------------
(* What pushes and pops do to the places.                                  *)

\* A goroutine pushed on the global queue is added to it and to nothing else.
LEMMA GlobalPushed ==
    ASSUME TypeOK, Distinct(gq), NEW g \in Goroutines, ~InGlobal(g), gq' = Append(gq, g)
    PROVE  Distinct(gq') /\ \A h \in Goroutines : InGlobal(h)' <=> InGlobal(h) \/ h = g
  BY AppendFacts DEF TypeOK, InGlobal

\* The global queue's head leaves it, and nothing else does.
LEMMA GlobalPopped ==
    ASSUME TypeOK, Distinct(gq), gq # <<>>, gq' = Tail(gq)
    PROVE  /\ Head(gq) \in Goroutines /\ InGlobal(Head(gq)) /\ Distinct(gq')
           /\ \A h \in Goroutines : InGlobal(h)' <=> InGlobal(h) /\ h # Head(gq)
  BY TailFacts DEF TypeOK, InGlobal

\* A ring's head.
LEMMA RingHead ==
    ASSUME TypeOK, NEW p \in Procs, Distinct(rq[p]), rq[p] # <<>>
    PROVE  /\ Head(rq[p]) \in Goroutines /\ InRing(p, Head(rq[p]))
           /\ Tail(rq[p]) \in Seq(Goroutines) /\ Distinct(Tail(rq[p]))
           /\ ToSet(Tail(rq[p])) = ToSet(rq[p]) \ {Head(rq[p])}
  BY TailFacts DEF TypeOK, InRing

\* The same, when the step pops the ring.
LEMMA RingPopped ==
    ASSUME TypeOK, \A q \in Procs : Distinct(rq[q]), NEW p \in Procs, rq[p] # <<>>,
           rq' = [rq EXCEPT ![p] = Tail(@)]
    PROVE  /\ Head(rq[p]) \in Goroutines /\ InRing(p, Head(rq[p]))
           /\ \A q \in Procs : Distinct(rq[q])'
           /\ \A q \in Procs, h \in Goroutines :
                 InRing(q, h)' <=> InRing(q, h) /\ ~(q = p /\ h = Head(rq[p]))
<1>1. /\ Head(rq[p]) \in Goroutines /\ InRing(p, Head(rq[p])) /\ Distinct(Tail(rq[p]))
      /\ ToSet(Tail(rq[p])) = ToSet(rq[p]) \ {Head(rq[p])}
  BY RingHead
<1>2. rq'[p] = Tail(rq[p]) /\ \A q \in Procs \ {p} : rq'[q] = rq[q]
  BY DEF TypeOK
<1> QED
  BY <1>1, <1>2 DEF InRing

\* A goroutine pushed on a ring.
LEMMA RingPushed ==
    ASSUME TypeOK, \A q \in Procs : Distinct(rq[q]), NEW p \in Procs,
           NEW g \in Goroutines, ~InRing(p, g), rq' = [rq EXCEPT ![p] = Append(@, g)]
    PROVE  /\ \A q \in Procs : Distinct(rq[q])'
           /\ \A q \in Procs, h \in Goroutines :
                 InRing(q, h)' <=> InRing(q, h) \/ (q = p /\ h = g)
<1>1. rq[p] \in Seq(Goroutines) /\ g \notin ToSet(rq[p])
  BY DEF TypeOK, InRing
<1>2. Distinct(Append(rq[p], g)) /\ ToSet(Append(rq[p], g)) = ToSet(rq[p]) \cup {g}
  BY <1>1, AppendFacts
<1>3. rq'[p] = Append(rq[p], g) /\ \A q \in Procs \ {p} : rq'[q] = rq[q]
  BY DEF TypeOK
<1> QED
  BY <1>2, <1>3 DEF InRing

-----------------------------------------------------------------------------
(* One goroutine and one machine.                                          *)

\* Nothing happens to the goroutines other than g but, at most, on machine m,
\* where they stay what they are.
Apart(g, m) ==
    \A h \in Goroutines \ {g} :
       /\ InGlobal(h)' <=> InGlobal(h)
       /\ \A p \in Procs : InRing(p, h)' <=> InRing(p, h)
       /\ m \in Machines => (OnMachine(m, h)' <=> OnMachine(m, h))
       /\ status'[h] = status[h] /\ waitOn'[h] = waitOn[h] /\ lockedM'[h] = lockedM[h]
       /\ m \in Machines /\ lockedM[h] = m => lockedG'[m] = h

\* The machines other than m stand still, g is on none of them, and none of
\* them loses a channel mutex.
Aside(g, m) ==
    /\ Elsewhere(m)
    /\ \A n \in Machines \ {m} :
          /\ lockedG'[n] = lockedG[n]
          /\ g \in Goroutines => ~OnMachine(n, g)
          /\ g \in Goroutines /\ lockedG[n] = g => lockedM'[g] = lockedM[g]
          /\ \A c \in Chans : cmu[c] = n => cmu'[c] = n

\* A goroutine that a step does not move is placed as before.
LEMMA OthersPlaced ==
    ASSUME TypeOK, NEW g, NEW m, Apart(g, m), Aside(g, m),
           NEW h \in Goroutines \ {g}, Placed(h)
    PROVE  Placed(h)'
<1>1. \A n \in Machines : OnMachine(n, h)' <=> OnMachine(n, h)
  <2> TAKE n \in Machines
  <2>1. CASE n = m
    BY <2>1 DEF Apart
  <2>2. CASE n # m
    BY <2>2 DEF Aside, Elsewhere, OnMachine
  <2> QED
    BY <2>1, <2>2
<1>2. /\ InGlobal(h)' <=> InGlobal(h)
      /\ \A p \in Procs : InRing(p, h)' <=> InRing(p, h)
      /\ status'[h] = status[h] /\ lockedM'[h] = lockedM[h]
  BY DEF Apart
<1>3. Queued(h)' <=> Queued(h)
  BY <1>2 DEF Queued
<1>4. lockedM[h] # Nobody => lockedG'[lockedM[h]] = h
  <2> HAVE lockedM[h] # Nobody
  <2>1. lockedM[h] \in Machines /\ lockedG[lockedM[h]] = h
    BY DEF TypeOK, Placed
  <2> QED
    BY <2>1 DEF Apart, Aside
<1> QED
  BY <1>1, <1>2, <1>3, <1>4 DEF Placed

\* A machine that a step does not move has its goroutine as before.
LEMMA OthersInCustody ==
    ASSUME TypeOK, Shape, NEW g, NEW m, Apart(g, m), Aside(g, m),
           NEW n \in Machines \ {m}, Custody(n)
    PROVE  Custody(n)'
<1>1. /\ cur'[n] = cur[n] /\ hand'[n] = hand[n] /\ lockedG'[n] = lockedG[n]
      /\ pc'[n] = pc[n] \/ (pc[n] = "asleep" /\ pc'[n] = "woken")
  BY DEF Aside, Elsewhere
<1>2. cur[n] # NoG => /\ cur[n] \in Goroutines \ {g}
                      /\ status'[cur[n]] = status[cur[n]] /\ waitOn'[cur[n]] = waitOn[cur[n]]
                      /\ waitOn[cur[n]] \subseteq Chans
  BY DEF TypeOK, Apart, Aside, OnMachine
<1>3. hand[n] # NoG => /\ hand[n] \in Goroutines \ {g}
                       /\ status'[hand[n]] = status[hand[n]]
  BY DEF TypeOK, Apart, Aside, OnMachine
<1>4. pc'[n] \in {"run", "call", "drain", "switch"} => cur[n] # NoG
  BY <1>1 DEF Shape, OnStack
<1>5. lockedG[n] # NoG => lockedM'[lockedG[n]] = lockedM[lockedG[n]]
  BY DEF TypeOK, Apart, Aside
<1>6. \A c \in Chans : cmu[c] = n => cmu'[c] = n
  BY DEF Aside
<1>7. pc'[n] \in {"run", "call", "drain"} => status'[cur'[n]] = "running"
  BY <1>1, <1>2, <1>4 DEF Custody
<1>8. pc'[n] = "switch" =>
          /\ status'[cur'[n]] \in {"waiting", "runnable", "dead"}
          /\ status'[cur'[n]] = "waiting" => \A c \in waitOn'[cur'[n]] : cmu'[c] = n
  BY <1>1, <1>2, <1>4, <1>6 DEF Custody
<1>9. hand'[n] # NoG => status'[hand'[n]] = IF pc'[n] = "reap" THEN "dead" ELSE "runnable"
  BY <1>1, <1>3 DEF Custody
<1>10. lockedG'[n] # NoG =>
          /\ lockedM'[lockedG'[n]] = n
          /\ pc'[n] \notin {"pop", "global", "steal", "stealing", "park", "asleep", "woken"}
          /\ cur'[n] # NoG => cur'[n] = lockedG'[n]
  BY <1>1, <1>5 DEF Custody
<1> QED
  BY <1>7, <1>8, <1>9, <1>10 DEF Custody

\* A step keeps the invariant when the goroutine and the machine it moves end
\* up well.
LEMMA MoveKeeps ==
    ASSUME TypeOK, Shape, PlaceInv, NEW g, NEW m, Apart(g, m), Aside(g, m),
           Distinct(gq)', \A p \in Procs : Distinct(rq[p])',
           g \in Goroutines => Placed(g)', m \in Machines => Custody(m)'
    PROVE  PlaceInv'
<1>1. ASSUME NEW h \in Goroutines PROVE Placed(h)'
  BY OthersPlaced DEF PlaceInv
<1>2. ASSUME NEW n \in Machines PROVE Custody(n)'
  BY OthersInCustody DEF PlaceInv
<1> QED
  BY <1>1, <1>2 DEF PlaceInv

\* Only a goroutine that runs, leaves or waits for a queue is on a machine.
LEMMA OnMachineStatus ==
    ASSUME TypeOK, Shape, NEW m \in Machines, Custody(m), NEW g \in Goroutines, OnMachine(m, g)
    PROVE  /\ status[g] \in {"running", "waiting", "runnable", "dead"}
           /\ status[g] = "waiting" => pc[m] = "switch" /\ cur[m] = g
  BY SchedAssumption DEF Shape, OnStack, Custody, OnMachine

-----------------------------------------------------------------------------
(* Steps that move no goroutine.                                           *)

\* A step of sysmon, or of time, that leaves the scheduler loops alone.
LEMMA StillKeeps ==
    ASSUME PlaceInv, UNCHANGED <<gq, rq, status, lockedM, lockedG, waitOn, cmu, pc, cur, hand>>
    PROVE  PlaceInv'
<1>1. ASSUME NEW g \in Goroutines PROVE Placed(g)'
  BY DEF PlaceInv, Placed, InGlobal, InRing, Queued, OnMachine
<1>2. ASSUME NEW m \in Machines PROVE Custody(m)'
  BY DEF PlaceInv, Custody
<1>3. gq' = gq /\ rq' = rq
  OBVIOUS
<1>4. Distinct(gq)' /\ \A p \in Procs : Distinct(rq[p])'
  BY <1>3 DEF PlaceInv, Distinct
<1> QED
  BY <1>1, <1>2, <1>4 DEF PlaceInv

\* A machine moves on in its loop with the goroutine it has, if any.
LEMMA PlainKeeps ==
    ASSUME TypeOK, Shape, PlaceInv, NEW m \in Machines, NEW l \in PCs, hand[m] = NoG,
           UNCHANGED <<gq, rq, status, lockedM, lockedG, waitOn, cur, hand>>,
           pc' = [pc EXCEPT ![m] = l],
           \A c \in Chans : cmu'[c] = cmu[c] \/ cmu[c] = m,
           l # "switch", l \in {"run", "call", "drain"} => pc[m] \in {"run", "call", "drain"},
           lockedG[m] # NoG =>
              l \notin {"pop", "global", "steal", "stealing", "park", "asleep", "woken"}
    PROVE  PlaceInv'
<1>0. \A h \in Goroutines : lockedM[h] = m => lockedG[m] = h
  BY Bases DEF PlaceInv, Placed
<1>1. Apart(NoG, m)
  BY <1>0 DEF Apart, InGlobal, InRing, OnMachine
<1>2. pc'[m] = l /\ \A n \in Machines \ {m} : pc'[n] = pc[n]
  BY DEF TypeOK
<1>3. Aside(NoG, m)
  BY <1>2, SchedAssumption DEF Aside, Elsewhere
<1>4. Custody(m)'
  BY <1>2 DEF PlaceInv, Custody
<1>5. Distinct(gq)' /\ \A p \in Procs : Distinct(rq[p])'
  BY DEF PlaceInv
<1> QED
  BY <1>1, <1>3, <1>4, <1>5, MoveKeeps, SchedAssumption

-----------------------------------------------------------------------------
(* Steps that take a goroutine and run it.                                 *)

\* ks_execute of a goroutine that its place let go of.
LEMMA RunKeeps ==
    ASSUME TypeOK, Shape, PlaceInv, NEW m \in Machines, NEW g \in Goroutines, Execute(m, g),
           ~OnStack(m), hand[m] \in {NoG, g}, hand'[m] = NoG,
           \A n \in Machines \ {m} : hand'[n] = hand[n] /\ ~OnMachine(n, g),
           UNCHANGED <<lockedM, lockedG, waitOn, cmu>>,
           lockedM[g] \in {Nobody, m}, lockedG[m] \in {NoG, g},
           Distinct(gq)', \A p \in Procs : Distinct(rq[p])', ~InGlobal(g)',
           \A p \in Procs : ~InRing(p, g)',
           \A h \in Goroutines \ {g} : /\ InGlobal(h)' <=> InGlobal(h)
                                       /\ \A p \in Procs : InRing(p, h)' <=> InRing(p, h)
    PROVE  PlaceInv'
<1>0. cur[m] = NoG /\ g # NoG
  BY SchedAssumption DEF Shape
<1>1. /\ pc'[m] = "run" /\ cur'[m] = g /\ status'[g] = "running"
      /\ \A n \in Machines \ {m} : pc'[n] = pc[n] /\ cur'[n] = cur[n]
      /\ \A h \in Goroutines \ {g} : status'[h] = status[h]
  BY DEF TypeOK, Execute
<1>2. Apart(g, m)
  <2>1. ASSUME NEW h \in Goroutines \ {g} PROVE OnMachine(m, h)' <=> OnMachine(m, h)
    BY <1>0, <1>1, SchedAssumption DEF OnMachine
  <2>2. ASSUME NEW h \in Goroutines \ {g} PROVE lockedM[h] = m => lockedG'[m] = h
    BY Bases DEF PlaceInv, Placed
  <2> QED
    BY <1>1, <2>1, <2>2 DEF Apart
<1>3. Aside(g, m)
  BY <1>1 DEF Aside, Elsewhere
<1>4. Placed(g)'
  <2>1. ~Queued(g)'
    BY DEF Queued
  <2>2. \A n \in Machines : OnMachine(n, g)' <=> n = m
    BY <1>1 DEF OnMachine
  <2>3. lockedM'[g] # Nobody => lockedM'[g] = m /\ lockedG'[lockedM'[g]] = g
    BY DEF PlaceInv, Placed
  <2> QED
    BY <1>1, <2>1, <2>2, <2>3 DEF Placed, Queued
<1>5. Custody(m)'
  BY <1>0, <1>1 DEF PlaceInv, Custody
<1> QED
  BY <1>2, <1>3, <1>4, <1>5, MoveKeeps

\* The global queue's head on a machine that looks for work.
LEMMA RunGlobalKeeps ==
    ASSUME TypeOK, Shape, PlaceInv, NEW m \in Machines, ExecuteGlobal(m),
           ~OnStack(m), hand[m] = NoG, lockedG[m] = NoG,
           UNCHANGED <<rq, lockedM, lockedG, waitOn, cmu, hand>>
    PROVE  PlaceInv'
<1>0. PICK g \in Goroutines : g = Head(gq)
  BY GlobalPopped DEF PlaceInv, ExecuteGlobal
<1>1. /\ InGlobal(g) /\ Distinct(gq')
      /\ \A h \in Goroutines : InGlobal(h)' <=> InGlobal(h) /\ h # g
  BY <1>0, GlobalPopped DEF PlaceInv, ExecuteGlobal
<1>2. Placed(g) /\ Queued(g)
  BY <1>1 DEF PlaceInv, Queued
<1>3. /\ lockedM[g] = Nobody /\ \A n \in Machines : ~OnMachine(n, g)
      /\ \A p \in Procs : ~InRing(p, g)
  BY <1>1, <1>2 DEF Placed
<1>4. /\ \A p \in Procs : Distinct(rq[p])' /\ ~InRing(p, g)'
      /\ \A p \in Procs, h \in Goroutines : InRing(p, h)' <=> InRing(p, h)
  BY <1>3 DEF PlaceInv, InRing
<1>5. ~InGlobal(g)' /\ Execute(m, g)
  BY <1>0, <1>1 DEF ExecuteGlobal
<1> QED
  BY <1>1, <1>3, <1>4, <1>5, RunKeeps

-----------------------------------------------------------------------------
(* ks_findrunnable.                                                        *)

\* A machine in the loop has no goroutine yet.
LEMMA Seeking ==
    ASSUME TypeOK, Shape, PlaceInv, NEW m \in Machines,
           pc[m] \in {"find", "pop", "global", "steal", "park", "asleep", "woken"}
    PROVE  /\ ~OnStack(m) /\ hand[m] = NoG /\ cur[m] = NoG
           /\ pc[m] # "find" => lockedG[m] = NoG
  BY DEF Shape, OnStack, PlaceInv, Custody

\* The head of the loop.
LEMMA FindPlace ==
    ASSUME StealInv, PlaceInv, NEW m \in Machines, Find(m)
    PROVE  PlaceInv'
<1> USE DEF StealInv
<1>1. ~OnStack(m) /\ hand[m] = NoG
  BY Seeking DEF Find
<1>2. CASE ExecuteGlobal(m)
  BY <1>1, <1>2, RunGlobalKeeps DEF Find
<1>3. CASE /\ Goto(m, IF HasP(m) THEN "pop" ELSE "global")
           /\ UNCHANGED <<gq, status, preempt, cur, age>>
  <2>1. PICK l \in {"pop", "global"} : pc' = [pc EXCEPT ![m] = l]
    BY <1>3 DEF Goto
  <2> QED
    BY <1>1, <1>3, <2>1, PlainKeeps DEF Find, PCs
<1> QED
  BY <1>2, <1>3 DEF Find

\* The global queue's turn.
LEMMA PopGlobalPlace ==
    ASSUME StealInv, PlaceInv, NEW m \in Machines, PopGlobal(m)
    PROVE  PlaceInv'
<1> USE DEF StealInv
<1>1. ~OnStack(m) /\ hand[m] = NoG /\ lockedG[m] = NoG
  BY Seeking DEF PopGlobal
<1>2. CASE ExecuteGlobal(m)
  BY <1>1, <1>2, RunGlobalKeeps DEF PopGlobal
<1>3. CASE Goto(m, "steal") /\ UNCHANGED <<gq, status, preempt, cur, age>>
  BY <1>1, <1>3, PlainKeeps DEF PopGlobal, Goto, PCs
<1> QED
  BY <1>2, <1>3 DEF PopGlobal

\* The last look before the wait.
LEMMA ParkMPlace ==
    ASSUME StealInv, PlaceInv, NEW m \in Machines, ParkM(m)
    PROVE  PlaceInv'
<1> USE DEF StealInv
<1>1. ~OnStack(m) /\ hand[m] = NoG /\ lockedG[m] = NoG
  BY Seeking DEF ParkM
<1>2. CASE ExecuteGlobal(m)
  BY <1>1, <1>2, RunGlobalKeeps DEF ParkM
<1>3. CASE Goto(m, "asleep") /\ UNCHANGED <<gq, status, preempt, cur, age>>
  BY <1>1, <1>3, PlainKeeps DEF ParkM, Goto, PCs
<1> QED
  BY <1>2, <1>3 DEF ParkM

\* A sleeper wakes.
LEMMA WakingPlace ==
    ASSUME StealInv, PlaceInv, NEW m \in Machines, Woken(m) \/ SpuriousWake(m)
    PROVE  PlaceInv'
<1> USE DEF StealInv
<1>1. hand[m] = NoG /\ lockedG[m] = NoG
  BY Seeking DEF Woken, SpuriousWake
<1>2. CASE Woken(m)
  BY <1>1, <1>2, PlainKeeps DEF Woken, Goto, PCs
<1>3. CASE SpuriousWake(m)
  BY <1>1, <1>3, PlainKeeps DEF SpuriousWake, Goto, PCs
<1> QED
  BY <1>2, <1>3

\* A locked machine runs its own goroutine, which nobody else can have.
LEMMA FindLockedPlace ==
    ASSUME StealInv, PlaceInv, NEW m \in Machines, FindLocked(m)
    PROVE  PlaceInv'
<1> USE DEF StealInv
<1>1. ~OnStack(m) /\ hand[m] = NoG
  BY Seeking DEF FindLocked
<1>2. PICK g \in Goroutines : g = lockedG[m]
  BY DEF TypeOK, FindLocked
<1>3. lockedM[g] = m /\ Placed(g) /\ m # Nobody
  BY <1>2, SchedAssumption, Bases DEF PlaceInv, Custody
<1>4. /\ ~InGlobal(g) /\ \A p \in Procs : ~InRing(p, g)
      /\ \A n \in Machines \ {m} : ~OnMachine(n, g)
  BY <1>3 DEF Placed, Queued
<1>5. /\ UNCHANGED <<gq, rq, lockedM, lockedG, waitOn, cmu, hand>> /\ Execute(m, g)
  BY <1>2 DEF FindLocked
<1>6. /\ ~InGlobal(g)' /\ \A p \in Procs : ~InRing(p, g)'
      /\ \A h \in Goroutines : /\ InGlobal(h)' <=> InGlobal(h)
                               /\ \A p \in Procs : InRing(p, h)' <=> InRing(p, h)
  BY <1>4, <1>5 DEF InGlobal, InRing
<1>7. Distinct(gq)' /\ \A p \in Procs : Distinct(rq[p])'
  BY <1>5 DEF PlaceInv
<1> QED
  BY <1>1, <1>2, <1>3, <1>4, <1>5, <1>6, <1>7, RunKeeps

\* The owner takes its ring's head.
LEMMA PopLocalPlace ==
    ASSUME StealInv, PlaceInv, NEW m \in Machines, PopLocal(m)
    PROVE  PlaceInv'
<1> USE DEF StealInv
<1>0. m \in Procs /\ ~OnStack(m) /\ hand[m] = NoG /\ lockedG[m] = NoG
  BY Seeking DEF Shape, PopLocal
<1>1. CASE rq[m] # <<>> /\ rq' = [rq EXCEPT ![m] = Tail(@)] /\ Execute(m, Head(rq[m]))
  <2>1. PICK g \in Goroutines : g = Head(rq[m])
    BY <1>0, <1>1, RingHead DEF PlaceInv
  <2>2. /\ InRing(m, g) /\ \A q \in Procs : Distinct(rq[q])'
        /\ \A q \in Procs, h \in Goroutines : InRing(q, h)' <=> InRing(q, h) /\ ~(q = m /\ h = g)
    BY <1>0, <1>1, <2>1, RingPopped DEF PlaceInv
  <2>3. Placed(g) /\ Queued(g)
    BY <1>0, <2>2 DEF PlaceInv, Queued
  <2>4. /\ lockedM[g] = Nobody /\ \A n \in Machines : ~OnMachine(n, g)
        /\ ~InGlobal(g) /\ \A p \in Procs \ {m} : ~InRing(p, g)
    BY <1>0, <2>2, <2>3 DEF Placed
  <2>5. UNCHANGED <<gq, lockedM, lockedG, waitOn, cmu, hand>> /\ Execute(m, g)
    BY <1>1, <2>1 DEF PopLocal
  <2>6. ~InGlobal(g)' /\ Distinct(gq)' /\ \A h \in Goroutines : InGlobal(h)' <=> InGlobal(h)
    BY <2>4, <2>5 DEF InGlobal, PlaceInv
  <2>7. \A p \in Procs : ~InRing(p, g)'
    BY <2>2, <2>4
  <2> QED
    BY <1>0, <2>2, <2>4, <2>5, <2>6, <2>7, RunKeeps
<1>2. CASE rq[m] = <<>> /\ Goto(m, "global") /\ UNCHANGED <<rq, status, preempt, cur, age>>
  BY <1>0, <1>2, PlainKeeps DEF PopLocal, Goto, PCs
<1> QED
  BY <1>1, <1>2 DEF PopLocal

\* The look at a victim moves no goroutine.
LEMMA StealTryPlace ==
    ASSUME StealInv, PlaceInv, NEW m \in Machines, StealTry(m)
    PROVE  PlaceInv'
<1> USE DEF StealInv
<1>1. hand[m] = NoG /\ lockedG[m] = NoG /\ pc[m] = "steal"
  BY Seeking DEF StealTry
<1>2. PICK l \in {"park", "steal", "stealing"} : pc' = [pc EXCEPT ![m] = l]
  BY <1>1 DEF StealTry, Goto, TypeOK
<1>3. UNCHANGED <<gq, rq, status, lockedM, lockedG, waitOn, cmu, cur, hand>>
  BY DEF StealTry
<1> QED
  BY <1>1, <1>2, <1>3, PlainKeeps DEF PCs

\* The steal ends with the first stolen goroutine, which is in no queue.
LEMMA StealDonePlace ==
    ASSUME StealInv, PlaceInv, NEW m \in Machines, StealDone(m)
    PROVE  PlaceInv'
<1> USE DEF StealInv
<1>0. pc[m] = "stealing" /\ ~OnStack(m) /\ hand[m] # NoG /\ lockedG[m] = NoG
  BY DEF StealDone, Holding, OnStack, PlaceInv, Custody
<1>1. PICK g \in Goroutines : g = hand[m]
  BY <1>0 DEF TypeOK
<1>2. Placed(g) /\ OnMachine(m, g)
  BY <1>1 DEF PlaceInv, OnMachine
<1>3. /\ ~InGlobal(g) /\ (\A p \in Procs : ~InRing(p, g))
      /\ \A n \in Machines \ {m} : ~OnMachine(n, g)
      /\ lockedM[g] \in {Nobody, m}
  BY <1>2 DEF Placed, Queued
<1>4. /\ UNCHANGED <<gq, rq, lockedM, lockedG, waitOn, cmu>> /\ Execute(m, g)
      /\ hand' = [hand EXCEPT ![m] = NoG]
  BY <1>1 DEF StealDone
<1>5. hand'[m] = NoG /\ \A n \in Machines \ {m} : hand'[n] = hand[n]
  BY <1>4 DEF TypeOK
<1>6. /\ ~InGlobal(g)' /\ \A p \in Procs : ~InRing(p, g)'
      /\ \A h \in Goroutines : /\ InGlobal(h)' <=> InGlobal(h)
                               /\ \A p \in Procs : InRing(p, h)' <=> InRing(p, h)
  BY <1>3, <1>4 DEF InGlobal, InRing
<1>7. Distinct(gq)' /\ \A p \in Procs : Distinct(rq[p])'
  BY <1>4 DEF PlaceInv
<1> QED
  BY <1>0, <1>1, <1>3, <1>4, <1>5, <1>6, <1>7, RunKeeps

-----------------------------------------------------------------------------
(* Steps that put a goroutine in a queue or in a hand.                     *)

\* A runnable goroutine of no thread, in the global queue or in one ring and
\* on no machine, is well placed.
LEMMA QueuedPlaced ==
    ASSUME NEW g \in Goroutines, status'[g] = "runnable", lockedM'[g] = Nobody,
           \A n \in Machines : ~OnMachine(n, g)',
           \/ InGlobal(g)' /\ \A p \in Procs : ~InRing(p, g)'
           \/ ~InGlobal(g)' /\ \E p \in Procs : \A q \in Procs : InRing(q, g)' <=> q = p
    PROVE  Placed(g)'
  BY DEF Placed, Queued

\* A runnable goroutine in the hand of a machine, or on its way out of one.
LEMMA HeldPlaced ==
    ASSUME NEW g \in Goroutines, NEW m \in Machines, lockedM'[g] = Nobody,
           \A n \in Machines : OnMachine(n, g)' <=> n = m,
           ~InGlobal(g)', \A p \in Procs : ~InRing(p, g)'
    PROVE  Placed(g)'
  BY DEF Placed, Queued

\* A goroutine that is in a queue is nowhere else.
LEMMA QueuedAlone ==
    ASSUME PlaceInv, NEW g \in Goroutines, Queued(g)
    PROVE  /\ lockedM[g] = Nobody /\ status[g] = "runnable"
           /\ \A n \in Machines : ~OnMachine(n, g)
           /\ \A p, q \in Procs : InRing(p, g) /\ InRing(q, g) => p = q
           /\ \A p \in Procs : InRing(p, g) => ~InGlobal(g)
  BY DEF PlaceInv, Placed

\* One stolen goroutine.
LEMMA StealOnePlace ==
    ASSUME StealInv, PlaceInv, NEW m \in Machines, StealOne(m)
    PROVE  PlaceInv'
<1> USE DEF StealInv
<1>0. PICK v \in Procs \ {m} : v = vic[m] /\ rq[v] # <<>>
  BY DEF StealOne, Holding, TypeOK
<1>1. PICK g \in Goroutines : g = Head(rq[v])
  BY <1>0, RingHead DEF PlaceInv
<1>2. /\ InRing(v, g) /\ Tail(rq[v]) \in Seq(Goroutines) /\ Distinct(Tail(rq[v]))
      /\ ToSet(Tail(rq[v])) = ToSet(rq[v]) \ {g}
  BY <1>0, <1>1, RingHead DEF PlaceInv
<1>3. /\ lockedM[g] = Nobody /\ status[g] = "runnable" /\ ~InGlobal(g)
      /\ (\A n \in Machines : ~OnMachine(n, g)) /\ \A p \in Procs \ {v} : ~InRing(p, g)
  BY <1>2, QueuedAlone DEF Queued
<1>4. /\ pc[m] = "stealing" /\ lockedG[m] = NoG /\ m # Nobody
      /\ UNCHANGED <<status, lockedM, lockedG, waitOn, cmu, cur>>
  BY Bases DEF StealOne, PlaceInv, Custody
<1>5. \A h \in Goroutines : lockedM[h] # m
  BY <1>4, SchedAssumption, Bases DEF PlaceInv, Placed
<1>6. CASE /\ hand[m] = NoG /\ hand' = [hand EXCEPT ![m] = g]
           /\ rq' = [rq EXCEPT ![v] = Tail(@)] /\ UNCHANGED <<gq, pc>>
  <2>1. /\ \A q \in Procs : Distinct(rq[q])'
        /\ \A q \in Procs, h \in Goroutines : InRing(q, h)' <=> InRing(q, h) /\ ~(q = v /\ h = g)
    BY <1>0, <1>1, <1>6, RingPopped DEF PlaceInv
  <2>2. hand'[m] = g /\ \A n \in Machines \ {m} : hand'[n] = hand[n]
    BY <1>6 DEF TypeOK
  <2>3. Apart(g, m)
    BY <1>4, <1>5, <1>6, <2>1, <2>2, SchedAssumption DEF Apart, InGlobal, OnMachine
  <2>4. Aside(g, m)
    BY <1>3, <1>4, <1>6, <2>2 DEF Aside, Elsewhere
  <2>5. Placed(g)'
    <3>1. \A n \in Machines : OnMachine(n, g)' <=> n = m
      BY <1>3, <1>4, <2>2 DEF OnMachine
    <3>2. ~InGlobal(g)' /\ \A p \in Procs : ~InRing(p, g)'
      BY <1>3, <1>6, <2>1 DEF InGlobal
    <3> QED
      BY <1>3, <1>4, <3>1, <3>2, HeldPlaced
  <2>6. Custody(m)'
    BY <1>3, <1>4, <1>6, <2>2 DEF Custody
  <2>7. Distinct(gq)'
    BY <1>6 DEF PlaceInv, Distinct
  <2> QED
    BY <2>1, <2>3, <2>4, <2>5, <2>6, <2>7, MoveKeeps
<1>7. CASE /\ hand[m] # NoG /\ m \in Procs
           /\ rq' = [[rq EXCEPT ![v] = Tail(@)] EXCEPT ![m] = Append(@, g)]
           /\ UNCHANGED <<gq, pc, hand>>
  <2>1. /\ rq'[v] = Tail(rq[v]) /\ rq'[m] = Append(rq[m], g)
        /\ \A q \in Procs \ {m, v} : rq'[q] = rq[q]
    BY <1>7 DEF TypeOK
  <2>2. /\ Distinct(Append(rq[m], g)) /\ ToSet(Append(rq[m], g)) = ToSet(rq[m]) \cup {g}
    <3>1. rq[m] \in Seq(Goroutines) /\ g \notin ToSet(rq[m]) /\ Distinct(rq[m])
      BY <1>3, <1>7 DEF TypeOK, InRing, PlaceInv
    <3> QED
      BY <3>1, AppendFacts
  <2>3. /\ \A q \in Procs : Distinct(rq[q])'
        /\ \A q \in Procs, h \in Goroutines \ {g} : InRing(q, h)' <=> InRing(q, h)
        /\ \A q \in Procs : InRing(q, g)' <=> q = m
    <3>1. \A q \in Procs : Distinct(rq[q])'
      BY <1>2, <2>1, <2>2 DEF PlaceInv
    <3>2. \A q \in Procs, h \in Goroutines \ {g} : InRing(q, h)' <=> InRing(q, h)
      BY <1>2, <2>1, <2>2 DEF InRing
    <3>3. \A q \in Procs : InRing(q, g)' <=> q = m
      BY <1>2, <1>3, <2>1, <2>2 DEF InRing
    <3> QED
      BY <3>1, <3>2, <3>3
  <2>4. Apart(g, m)
    BY <1>4, <1>5, <1>7, <2>3 DEF Apart, InGlobal, OnMachine
  <2>5. Aside(g, m)
    BY <1>3, <1>4, <1>7 DEF Aside, Elsewhere
  <2>6. Placed(g)'
    <3>1. (\A n \in Machines : ~OnMachine(n, g)') /\ ~InGlobal(g)'
      BY <1>3, <1>4, <1>7 DEF OnMachine, InGlobal
    <3> QED
      BY <1>3, <1>4, <1>7, <2>3, <3>1, QueuedPlaced
  <2>7. Custody(m)'
    BY <1>4, <1>7 DEF Custody, PlaceInv
  <2>8. Distinct(gq)'
    BY <1>7 DEF PlaceInv, Distinct
  <2> QED
    BY <2>3, <2>4, <2>5, <2>6, <2>7, <2>8, MoveKeeps
<1>8. CASE /\ hand[m] # NoG /\ rq' = [rq EXCEPT ![v] = Tail(@)]
           /\ GlobalPush(g, pc) /\ UNCHANGED hand
  <2>1. /\ \A q \in Procs : Distinct(rq[q])'
        /\ \A q \in Procs, h \in Goroutines : InRing(q, h)' <=> InRing(q, h) /\ ~(q = v /\ h = g)
    BY <1>0, <1>1, <1>8, RingPopped DEF PlaceInv
  <2>2. Distinct(gq') /\ \A h \in Goroutines : InGlobal(h)' <=> InGlobal(h) \/ h = g
    BY <1>3, <1>8, GlobalPushed DEF GlobalPush, PlaceInv
  <2>3. \A n \in Machines : pc'[n] = pc[n] \/ (pc[n] = "asleep" /\ pc'[n] = "woken")
    BY <1>8, SignalledFacts DEF GlobalPush, TypeOK
  <2>4. Apart(g, m)
    BY <1>4, <1>5, <1>8, <2>1, <2>2 DEF Apart, OnMachine
  <2>5. Aside(g, m)
    BY <1>3, <1>4, <1>8, <2>3 DEF Aside, Elsewhere
  <2>6. Placed(g)'
    <3>1. /\ \A n \in Machines : ~OnMachine(n, g)'
          /\ InGlobal(g)' /\ \A p \in Procs : ~InRing(p, g)'
      BY <1>3, <1>4, <1>8, <2>1, <2>2 DEF OnMachine
    <3> QED
      BY <1>3, <1>4, <3>1, QueuedPlaced
  <2>7. Custody(m)'
    BY <1>4, <1>8, <2>3 DEF Custody, PlaceInv
  <2> QED
    BY <2>1, <2>2, <2>4, <2>5, <2>6, <2>7, MoveKeeps
<1>9. Len(rq[m]) < RunqCap \/ m \notin Procs
  BY <1>4, SchedAssumption DEF StealOne, Room, TypeOK
<1>10. m \in Procs => [rq EXCEPT ![v] = Tail(@)][m] = rq[m]
  BY DEF TypeOK
<1> QED
  BY <1>0, <1>1, <1>6, <1>7, <1>8, <1>9, <1>10 DEF StealOne, HasP

-----------------------------------------------------------------------------
(* What a running goroutine does.                                          *)

\* A goroutine that waits and whose channel's mutex is free has left its
\* machine: the machine would still hold the mutex for it.
LEMMA WaiterAway ==
    ASSUME TypeOK, Shape, PlaceInv, NEW g \in Goroutines, NEW c \in Chans,
           status[g] = "waiting", c \in waitOn[g], cmu[c] = Nobody
    PROVE  \A n \in Machines : ~OnMachine(n, g)
<1> SUFFICES ASSUME NEW n \in Machines, OnMachine(n, g) PROVE FALSE
  OBVIOUS
<1>1. pc[n] = "switch" /\ cur[n] = g /\ Custody(n)
  BY OnMachineStatus DEF PlaceInv
<1>2. cmu[c] = n
  BY <1>1 DEF Custody
<1> QED
  BY <1>2, Bases

\* A goroutine that was nowhere is pushed on the global queue.
LEMMA EnterGlobal ==
    ASSUME TypeOK, Shape, PlaceInv, NEW g \in Goroutines, ~Queued(g), lockedM[g] = Nobody,
           \A n \in Machines : ~OnMachine(n, g), GlobalPush(g, pc),
           status' = [status EXCEPT ![g] = "runnable"],
           \A h \in Goroutines \ {g} : waitOn'[h] = waitOn[h],
           UNCHANGED <<rq, lockedM, lockedG, cmu, cur, hand>>
    PROVE  PlaceInv'
<1>1. /\ Distinct(gq') /\ \A h \in Goroutines : InGlobal(h)' <=> InGlobal(h) \/ h = g
  BY GlobalPushed DEF GlobalPush, PlaceInv, Queued
<1>2. \A n \in Machines : pc'[n] = pc[n] \/ (pc[n] = "asleep" /\ pc'[n] = "woken")
  BY SignalledFacts DEF GlobalPush, TypeOK
<1>3. status'[g] = "runnable" /\ \A h \in Goroutines \ {g} : status'[h] = status[h]
  BY DEF TypeOK
<1>4. Apart(g, Nobody)
  BY <1>1, <1>3, Bases DEF Apart, InRing
<1>5. Aside(g, Nobody)
  BY <1>2 DEF Aside, Elsewhere
<1>6. Placed(g)'
  BY <1>1, <1>3, QueuedPlaced DEF OnMachine, InRing, Queued
<1>7. \A p \in Procs : Distinct(rq[p])'
  BY DEF PlaceInv, Distinct
<1> QED
  BY <1>1, <1>4, <1>5, <1>6, <1>7, MoveKeeps, Bases

\* A goroutine is started.
LEMMA GoPlace ==
    ASSUME StealInv, PlaceInv, NEW g \in Goroutines, Go(g)
    PROVE  PlaceInv'
<1> USE DEF StealInv
<1>1. ~Queued(g) /\ lockedM[g] = Nobody
  BY DEF Go, PlaceInv, Placed
<1>2. \A n \in Machines : ~OnMachine(n, g)
  BY OnMachineStatus DEF Go, PlaceInv
<1> QED
  BY <1>1, <1>2, EnterGlobal DEF Go

\* A waiting goroutine is readied.
LEMMA WakePlace ==
    ASSUME StealInv, PlaceInv, NEW m \in Machines \cup {Main}, NEW c \in Chans,
           NEW g \in Goroutines, Wake(m, c, g)
    PROVE  PlaceInv'
<1> USE DEF StealInv
<1>1. \A n \in Machines : ~OnMachine(n, g)
  BY WaiterAway DEF Wake
<1>2. /\ status[g] = "waiting" /\ status' = [status EXCEPT ![g] = "runnable"]
      /\ status'[g] = "runnable" /\ \A h \in Goroutines \ {g} : status'[h] = status[h]
  BY DEF Wake, Ready, TypeOK
<1>3. ~Queued(g) /\ Placed(g)
  BY <1>2 DEF PlaceInv, Placed
<1>4. /\ \A h \in Goroutines \ {g} : waitOn'[h] = waitOn[h]
      /\ UNCHANGED <<lockedM, lockedG, cmu, cur, hand>>
  BY DEF Wake, TypeOK
<1>5. CASE lockedM[g] # Nobody /\ UNCHANGED <<gq, rq, pc>>
  <2>1. Apart(g, Nobody)
    BY <1>2, <1>4, <1>5, Bases DEF Apart, InGlobal, InRing
  <2>2. Aside(g, Nobody)
    BY <1>1, <1>4, <1>5 DEF Aside, Elsewhere
  <2>3. Placed(g)'
    <3>1. /\ Queued(g)' <=> Queued(g)
          /\ InGlobal(g)' <=> InGlobal(g)
          /\ \A p \in Procs : InRing(p, g)' <=> InRing(p, g)
          /\ \A n \in Machines : OnMachine(n, g)' <=> OnMachine(n, g)
      BY <1>4, <1>5 DEF Queued, InGlobal, InRing, OnMachine
    <3> QED
      BY <1>2, <1>3, <1>4, <1>5, <3>1 DEF Placed
  <2>4. Distinct(gq)' /\ \A p \in Procs : Distinct(rq[p])'
    BY <1>5 DEF PlaceInv, Distinct
  <2> QED
    BY <2>1, <2>2, <2>3, <2>4, MoveKeeps, Bases
<1>6. CASE /\ lockedM[g] = Nobody /\ m \in Procs
           /\ rq' = [rq EXCEPT ![m] = Append(@, g)] /\ UNCHANGED <<gq, pc>>
  <2>1. /\ \A q \in Procs : Distinct(rq[q])'
        /\ \A q \in Procs, h \in Goroutines : InRing(q, h)' <=> InRing(q, h) \/ (q = m /\ h = g)
    BY <1>3, <1>6, RingPushed DEF PlaceInv, Queued
  <2>2. Apart(g, Nobody)
    BY <1>2, <1>4, <1>6, <2>1, Bases DEF Apart, InGlobal
  <2>3. Aside(g, Nobody)
    BY <1>1, <1>4, <1>6 DEF Aside, Elsewhere
  <2>4. Placed(g)'
    BY <1>1, <1>2, <1>3, <1>4, <1>6, <2>1, QueuedPlaced DEF OnMachine, InGlobal, Queued
  <2>5. Distinct(gq)'
    BY <1>6 DEF PlaceInv, Distinct
  <2> QED
    BY <2>1, <2>2, <2>3, <2>4, <2>5, MoveKeeps, Bases
<1>7. CASE lockedM[g] = Nobody /\ GlobalPush(g, pc) /\ UNCHANGED rq
  BY <1>1, <1>2, <1>3, <1>4, <1>7, EnterGlobal
<1> QED
  BY <1>5, <1>6, <1>7 DEF Wake, Ready, HasP

\* The goroutine a machine runs: it is there and nowhere else.
LEMMA Running ==
    ASSUME TypeOK, Shape, PlaceInv, NEW m \in Machines, OnStack(m)
    PROVE  \E g \in Goroutines :
              /\ g = cur[m] /\ g # NoG /\ OnMachine(m, g)
              /\ ~InGlobal(g) /\ \A p \in Procs : ~InRing(p, g)
              /\ ~Queued(g)
              /\ \A n \in Machines \ {m} : ~OnMachine(n, g)
              /\ lockedM[g] \in {Nobody, m} /\ lockedG[m] \in {NoG, g}
              /\ lockedM[g] = m => lockedG[m] = g
<1>1. cur[m] \in Goroutines /\ cur[m] # NoG
  BY DEF Shape, TypeOK
<1>2. PICK g \in Goroutines : g = cur[m] /\ g # NoG
  BY <1>1
<1>3. Placed(g) /\ Custody(m) /\ OnMachine(m, g)
  BY <1>2 DEF PlaceInv, OnMachine
<1>4. /\ ~Queued(g) /\ lockedM[g] \in {Nobody, m}
      /\ \A n \in Machines \ {m} : ~OnMachine(n, g)
  BY <1>3 DEF Placed
<1>5. lockedG[m] \in {NoG, g} /\ (lockedM[g] = m => lockedG[m] = g)
  BY <1>2, <1>3, Bases DEF Custody, Placed
<1> QED
  BY <1>2, <1>3, <1>4, <1>5 DEF Queued

\* A running goroutine starts to leave: to wait, to yield or for good.
LEMMA LeaveKeeps ==
    ASSUME TypeOK, Shape, PlaceInv, NEW m \in Machines, pc[m] = "run",
           NEW s \in {"waiting", "runnable", "dead"},
           status' = [status EXCEPT ![cur[m]] = s], pc' = [pc EXCEPT ![m] = "switch"],
           \A h \in Goroutines \ {cur[m]} : waitOn'[h] = waitOn[h],
           \A c \in Chans : cmu[c] # Nobody => cmu'[c] = cmu[c],
           s = "waiting" => \A c \in waitOn'[cur[m]] : cmu'[c] = m,
           UNCHANGED <<gq, rq, lockedM, lockedG, cur, hand>>
    PROVE  PlaceInv'
<1>1. PICK g \in Goroutines :
              /\ g = cur[m] /\ g # NoG /\ OnMachine(m, g)
              /\ ~InGlobal(g) /\ \A p \in Procs : ~InRing(p, g)
              /\ ~Queued(g)
              /\ \A n \in Machines \ {m} : ~OnMachine(n, g)
              /\ lockedM[g] \in {Nobody, m} /\ lockedG[m] \in {NoG, g}
              /\ lockedM[g] = m => lockedG[m] = g
  BY Running DEF OnStack
<1>2. /\ pc'[m] = "switch" /\ \A n \in Machines \ {m} : pc'[n] = pc[n]
      /\ status'[g] = s /\ \A h \in Goroutines \ {g} : status'[h] = status[h]
  BY <1>1 DEF TypeOK
<1>3. Apart(g, m)
  <2>1. \A h \in Goroutines : lockedM[h] = m => lockedG[m] = h
    BY Bases DEF PlaceInv, Placed
  <2> QED
    BY <1>1, <1>2, <2>1 DEF Apart, InGlobal, InRing, OnMachine
<1>4. Aside(g, m)
  BY <1>1, <1>2, Bases DEF Aside, Elsewhere
<1>5. Placed(g)'
  <2>1. /\ ~InGlobal(g)' /\ ~Queued(g)' /\ \A p \in Procs : ~InRing(p, g)'
        /\ \A n \in Machines : OnMachine(n, g)' <=> n = m
    BY <1>1 DEF Queued, InGlobal, InRing, OnMachine
  <2> QED
    BY <1>1, <1>2, <2>1 DEF Placed
<1>6. Custody(m)'
  <2>1. hand[m] = NoG
    BY DEF Shape
  <2> QED
    BY <1>1, <1>2, <2>1 DEF Custody, PlaceInv
<1>7. Distinct(gq)' /\ \A p \in Procs : Distinct(rq[p])'
  BY DEF PlaceInv, Distinct
<1> QED
  BY <1>3, <1>4, <1>5, <1>6, <1>7, MoveKeeps

\* A wait, a yield and a return.
LEMMA BodyLeaves ==
    ASSUME StealInv, PlaceInv, NEW m \in Machines, NEW S \in SUBSET Chans,
           Park(m, S) \/ Safepoint(m) \/ Finish(m)
    PROVE  PlaceInv'
<1> USE DEF StealInv
<1>0. pc[m] = "run" /\ cur[m] \in Goroutines
  BY Running DEF Park, Safepoint, Finish, OnStack
<1>1. CASE Park(m, S)
  <2>1. waitOn'[cur[m]] = S /\ \A h \in Goroutines \ {cur[m]} : waitOn'[h] = waitOn[h]
    BY <1>0, <1>1 DEF Park, TypeOK
  <2>2. \A c \in Chans : cmu'[c] = IF c \in S THEN m ELSE cmu[c]
    BY <1>1 DEF Park
  <2>3. /\ \A c \in Chans : cmu[c] # Nobody => cmu'[c] = cmu[c]
        /\ \A c \in waitOn'[cur[m]] : cmu'[c] = m
    BY <1>1, <2>1, <2>2 DEF Park
  <2> QED
    BY <1>0, <1>1, <2>1, <2>3, LeaveKeeps DEF Park, Goto
<1>2. CASE Safepoint(m)
  BY <1>0, <1>2, LeaveKeeps DEF Safepoint, Goto
<1>3. CASE Finish(m)
  BY <1>0, <1>3, LeaveKeeps DEF Finish, Goto
<1> QED
  BY <1>1, <1>2, <1>3

\* A blocking call begins and ends.
LEMMA CallPlace ==
    ASSUME StealInv, PlaceInv, NEW m \in Machines, EnterCall(m) \/ LeaveCall(m)
    PROVE  PlaceInv'
<1> USE DEF StealInv
<1>1. hand[m] = NoG
  BY DEF EnterCall, LeaveCall, Shape
<1>2. CASE EnterCall(m)
  BY <1>1, <1>2, PlainKeeps DEF EnterCall, Goto, PCs
<1>3. CASE LeaveCall(m)
  BY <1>1, <1>3, PlainKeeps DEF LeaveCall, Goto, PCs
<1> QED
  BY <1>2, <1>3

\* The running goroutine locks itself to its machine, which was free or
\* already its own.
LEMMA LockThreadPlace ==
    ASSUME StealInv, PlaceInv, NEW m \in Machines, LockThread(m)
    PROVE  PlaceInv'
<1> USE DEF StealInv
<1>1. PICK g \in Goroutines :
              /\ g = cur[m] /\ g # NoG /\ OnMachine(m, g)
              /\ ~InGlobal(g) /\ \A p \in Procs : ~InRing(p, g)
              /\ ~Queued(g)
              /\ \A n \in Machines \ {m} : ~OnMachine(n, g)
              /\ lockedM[g] \in {Nobody, m} /\ lockedG[m] \in {NoG, g}
              /\ lockedM[g] = m => lockedG[m] = g
  BY Running DEF LockThread, OnStack
<1>2. PICK l \in {"drain", "run"} : pc' = [pc EXCEPT ![m] = l]
  BY DEF LockThread, Goto
<1>3. /\ UNCHANGED <<gq, rq, status, waitOn, cmu, cur, hand>> /\ pc[m] = "run"
      /\ lockedM' = [lockedM EXCEPT ![g] = m] /\ lockedG' = [lockedG EXCEPT ![m] = g]
  BY <1>1 DEF LockThread
<1>4. /\ pc'[m] = l /\ (\A n \in Machines \ {m} : pc'[n] = pc[n] /\ lockedG'[n] = lockedG[n])
      /\ lockedG'[m] = g /\ lockedM'[g] = m
      /\ \A h \in Goroutines \ {g} : lockedM'[h] = lockedM[h]
  BY <1>2, <1>3 DEF TypeOK
<1>5. \A h \in Goroutines \ {g} : lockedM[h] # m
  BY <1>1, SchedAssumption, Bases DEF PlaceInv, Placed
<1>6. Apart(g, m)
  BY <1>3, <1>4, <1>5 DEF Apart, InGlobal, InRing, OnMachine
<1>7. Aside(g, m)
  <2>1. \A n \in Machines \ {m} : lockedG[n] # g
    BY <1>1, SchedAssumption, Bases DEF PlaceInv, Custody
  <2> QED
    BY <1>1, <1>3, <1>4, <2>1 DEF Aside, Elsewhere
<1>8. Placed(g)'
  <2>1. /\ ~InGlobal(g)' /\ ~Queued(g)' /\ \A p \in Procs : ~InRing(p, g)'
        /\ \A n \in Machines : OnMachine(n, g)' <=> n = m
    BY <1>1, <1>3 DEF Queued, InGlobal, InRing, OnMachine
  <2>2. status'[g] = "running"
    BY <1>1, <1>3 DEF PlaceInv, Custody
  <2> QED
    BY <1>4, <2>1, <2>2 DEF Placed
<1>9. Custody(m)'
  <2>1. hand[m] = NoG /\ status[g] = "running"
    BY <1>1, <1>3 DEF Shape, PlaceInv, Custody
  <2> QED
    BY <1>1, <1>3, <1>4, <2>1 DEF Custody
<1>10. Distinct(gq)' /\ \A p \in Procs : Distinct(rq[p])'
  BY <1>3 DEF PlaceInv, Distinct
<1> QED
  BY <1>6, <1>7, <1>8, <1>9, <1>10, MoveKeeps

-----------------------------------------------------------------------------
(* What a machine does with the goroutine in its hand.                     *)

\* The goroutine in a machine's hand: it is there and nowhere else.
LEMMA InHand ==
    ASSUME TypeOK, Shape, PlaceInv, NEW m \in Machines, hand[m] # NoG
    PROVE  \E g \in Goroutines :
              /\ g = hand[m] /\ cur[m] # g
              /\ ~InGlobal(g) /\ \A p \in Procs : ~InRing(p, g)
              /\ ~Queued(g)
              /\ \A n \in Machines \ {m} : ~OnMachine(n, g)
              /\ lockedM[g] \in {Nobody, m}
              /\ lockedM[g] = m => lockedG[m] = g
<1>1. PICK g \in Goroutines : g = hand[m]
  BY DEF TypeOK
<1>2. Placed(g) /\ Custody(m) /\ OnMachine(m, g)
  BY <1>1 DEF PlaceInv, OnMachine
<1>3. cur[m] # g
  <2> SUFFICES ASSUME cur[m] = g PROVE FALSE
    OBVIOUS
  <2>1. pc[m] = "drain"
    BY <1>1, SchedAssumption DEF Shape, OnStack
  <2> QED
    BY <1>1, <1>2, <2>1 DEF Custody
<1>4. /\ ~Queued(g) /\ lockedM[g] \in {Nobody, m}
      /\ \A n \in Machines \ {m} : ~OnMachine(n, g)
      /\ lockedM[g] = m => lockedG[m] = g
  BY <1>2, Bases DEF Placed
<1> QED
  BY <1>1, <1>3, <1>4 DEF Queued

\* A machine pushes the goroutine in its hand on the global queue.
LEMMA HandToGlobal ==
    ASSUME TypeOK, Shape, PlaceInv, NEW m \in Machines, NEW g \in Goroutines, g = hand[m],
           pc[m] \in {"drain", "requeue"}, lockedM[g] # m, NEW l \in {pc[m], "find"},
           l = "find" => pc[m] = "requeue",
           GlobalPush(g, [pc EXCEPT ![m] = l]), hand' = [hand EXCEPT ![m] = NoG],
           UNCHANGED <<rq, status, lockedM, lockedG, waitOn, cmu, cur>>
    PROVE  PlaceInv'
<1>1. /\ cur[m] # g /\ ~InGlobal(g) /\ (\A p \in Procs : ~InRing(p, g)) /\ ~Queued(g)
      /\ \A n \in Machines \ {m} : ~OnMachine(n, g)
      /\ lockedM[g] = Nobody /\ g # NoG
  BY InHand, SchedAssumption
<1>2. status[g] = "runnable"
  BY <1>1 DEF PlaceInv, Custody
<1>3. Distinct(gq') /\ \A h \in Goroutines : InGlobal(h)' <=> InGlobal(h) \/ h = g
  BY <1>1, GlobalPushed DEF GlobalPush, PlaceInv
<1>4. pc'[m] = l /\ \A n \in Machines \ {m} : pc'[n] = pc[n] \/ (pc[n] = "asleep" /\ pc'[n] = "woken")
  <2>1. [pc EXCEPT ![m] = l] \in [Machines -> PCs]
    BY DEF TypeOK, PCs
  <2>2. \A n \in Machines : \/ pc'[n] = [pc EXCEPT ![m] = l][n]
                            \/ [pc EXCEPT ![m] = l][n] = "asleep" /\ pc'[n] = "woken"
    BY <2>1, SignalledFacts DEF GlobalPush
  <2> QED
    BY <2>2 DEF TypeOK
<1>5. hand'[m] = NoG /\ \A n \in Machines \ {m} : hand'[n] = hand[n]
  BY DEF TypeOK
<1>6. Apart(g, m)
  <2>1. \A h \in Goroutines : lockedM[h] = m => lockedG[m] = h
    BY Bases DEF PlaceInv, Placed
  <2> QED
    BY <1>3, <1>5, <2>1, SchedAssumption DEF Apart, InRing, OnMachine
<1>7. Aside(g, m)
  BY <1>1, <1>4, <1>5 DEF Aside, Elsewhere
<1>8. Placed(g)'
  <2>1. /\ InGlobal(g)' /\ (\A p \in Procs : ~InRing(p, g)')
        /\ \A n \in Machines : ~OnMachine(n, g)'
    BY <1>1, <1>3, <1>5 DEF InRing, OnMachine
  <2> QED
    BY <1>1, <1>2, <2>1, QueuedPlaced
<1>9. Custody(m)'
  BY <1>4, <1>5 DEF PlaceInv, Custody
<1>10. \A p \in Procs : Distinct(rq[p])'
  BY DEF PlaceInv, Distinct
<1> QED
  BY <1>3, <1>6, <1>7, <1>8, <1>9, <1>10, MoveKeeps

\* The locked machine hands its ring over.
LEMMA DrainPlace ==
    ASSUME StealInv, PlaceInv, NEW m \in Machines, Drain(m)
    PROVE  PlaceInv'
<1> USE DEF StealInv
<1>0. /\ pc[m] = "drain" /\ m \in Procs
      /\ UNCHANGED <<status, lockedM, lockedG, waitOn, cmu, cur>>
  BY DEF Drain, Shape
<1>1. CASE /\ hand[m] = NoG /\ rq[m] # <<>> /\ rq' = [rq EXCEPT ![m] = Tail(@)]
           /\ hand' = [hand EXCEPT ![m] = Head(rq[m])] /\ UNCHANGED <<gq, pc>>
  <2>1. PICK g \in Goroutines : g = Head(rq[m])
    BY <1>0, <1>1, RingHead DEF PlaceInv
  <2>2. /\ InRing(m, g) /\ \A q \in Procs : Distinct(rq[q])'
        /\ \A q \in Procs, h \in Goroutines : InRing(q, h)' <=> InRing(q, h) /\ ~(q = m /\ h = g)
    BY <1>0, <1>1, <2>1, RingPopped DEF PlaceInv
  <2>3. /\ lockedM[g] = Nobody /\ status[g] = "runnable" /\ ~InGlobal(g)
        /\ (\A n \in Machines : ~OnMachine(n, g)) /\ \A p \in Procs \ {m} : ~InRing(p, g)
    BY <1>0, <2>2, QueuedAlone DEF Queued
  <2>4. hand'[m] = g /\ \A n \in Machines \ {m} : hand'[n] = hand[n]
    BY <1>1, <2>1 DEF TypeOK
  <2>5. Apart(g, m)
    <3>1. \A h \in Goroutines : lockedM[h] = m => lockedG[m] = h
      BY Bases DEF PlaceInv, Placed
    <3> QED
      BY <1>0, <1>1, <2>2, <2>4, <3>1, SchedAssumption DEF Apart, InGlobal, OnMachine
  <2>6. Aside(g, m)
    BY <1>0, <1>1, <2>3, <2>4 DEF Aside, Elsewhere
  <2>7. Placed(g)'
    <3>1. \A n \in Machines : OnMachine(n, g)' <=> n = m
      BY <1>0, <2>3, <2>4 DEF OnMachine
    <3>2. ~InGlobal(g)' /\ \A p \in Procs : ~InRing(p, g)'
      BY <1>1, <2>2, <2>3 DEF InGlobal
    <3> QED
      BY <1>0, <2>3, <3>1, <3>2, HeldPlaced
  <2>8. Custody(m)'
    BY <1>0, <1>1, <2>3, <2>4 DEF PlaceInv, Custody
  <2>9. Distinct(gq)'
    BY <1>1 DEF PlaceInv, Distinct
  <2> QED
    BY <2>2, <2>5, <2>6, <2>7, <2>8, <2>9, MoveKeeps
<1>2. CASE /\ hand[m] # NoG /\ GlobalPush(hand[m], pc)
           /\ hand' = [hand EXCEPT ![m] = NoG] /\ UNCHANGED rq
  <2>1. PICK g \in Goroutines : /\ g = hand[m] /\ cur[m] # g
                                /\ lockedM[g] = m => lockedG[m] = g
    BY <1>2, InHand
  <2>2. cur[m] # NoG /\ Custody(m)
    BY <1>0 DEF Shape, OnStack, PlaceInv
  <2>3. lockedM[g] # m
    BY <2>1, <2>2, SchedAssumption DEF Custody
  <2>4. [pc EXCEPT ![m] = pc[m]] = pc
    BY DEF TypeOK
  <2> QED
    BY <1>0, <1>2, <2>1, <2>3, <2>4, HandToGlobal
<1>3. CASE hand[m] = NoG /\ Goto(m, "run") /\ UNCHANGED <<gq, rq, hand>>
  BY <1>0, <1>3, PlainKeeps DEF Goto, PCs
<1> QED
  BY <1>1, <1>2, <1>3 DEF Drain

\* The goroutine's context is saved: it moves from the stack to the hand, or
\* leaves the machine to wait.
LEMMA SwitchOutPlace ==
    ASSUME StealInv, PlaceInv, NEW m \in Machines, SwitchOut(m)
    PROVE  PlaceInv'
<1> USE DEF StealInv
<1>1. PICK g \in Goroutines :
              /\ g = cur[m] /\ g # NoG /\ OnMachine(m, g)
              /\ ~InGlobal(g) /\ \A p \in Procs : ~InRing(p, g)
              /\ ~Queued(g)
              /\ \A n \in Machines \ {m} : ~OnMachine(n, g)
              /\ lockedM[g] \in {Nobody, m} /\ lockedG[m] \in {NoG, g}
              /\ lockedM[g] = m => lockedG[m] = g
  BY Running DEF SwitchOut, OnStack
<1>2. /\ UNCHANGED <<gq, rq, status, lockedM, lockedG, waitOn, cmu>> /\ hand[m] = NoG
      /\ status[g] \in {"waiting", "runnable", "dead"}
  BY <1>1 DEF SwitchOut, Shape, PlaceInv, Custody
<1>3. PICK l \in {"unlock", "requeue", "reap"} :
         /\ pc' = [pc EXCEPT ![m] = l]
         /\ l = "reap" <=> status[g] = "dead"
         /\ l = "requeue" <=> status[g] = "runnable"
  BY <1>1, <1>2 DEF SwitchOut, Goto
<1>4. PICK x \in {NoG, g} : /\ hand' = [hand EXCEPT ![m] = x]
                            /\ x = g <=> status[g] # "waiting"
  BY <1>1, <1>2 DEF SwitchOut
<1>5. /\ pc'[m] = l /\ cur'[m] = NoG /\ hand'[m] = x
      /\ \A n \in Machines \ {m} : pc'[n] = pc[n] /\ cur'[n] = cur[n] /\ hand'[n] = hand[n]
  BY <1>3, <1>4 DEF SwitchOut, TypeOK
<1>6. Apart(g, m)
  <2>1. \A h \in Goroutines : lockedM[h] = m => lockedG[m] = h
    BY Bases DEF PlaceInv, Placed
  <2>2. \A h \in Goroutines \ {g} : ~OnMachine(m, h) /\ ~OnMachine(m, h)'
    BY <1>1, <1>2, <1>5, SchedAssumption DEF OnMachine
  <2> QED
    BY <1>2, <2>1, <2>2 DEF Apart, InGlobal, InRing
<1>7. Aside(g, m)
  BY <1>1, <1>2, <1>5 DEF Aside, Elsewhere
<1>8. Placed(g)'
  <2>1. /\ ~InGlobal(g)' /\ ~Queued(g)' /\ \A p \in Procs : ~InRing(p, g)'
        /\ \A n \in Machines : OnMachine(n, g)' <=> n = m /\ x = g
    BY <1>1, <1>2, <1>5 DEF Queued, InGlobal, InRing, OnMachine
  <2> QED
    BY <1>1, <1>2, <1>4, <2>1 DEF Placed
<1>9. Custody(m)'
  BY <1>1, <1>2, <1>3, <1>4, <1>5 DEF PlaceInv, Custody
<1>10. Distinct(gq)' /\ \A p \in Procs : Distinct(rq[p])'
  BY <1>2 DEF PlaceInv, Distinct
<1> QED
  BY <1>6, <1>7, <1>8, <1>9, <1>10, MoveKeeps

\* The mutexes of a goroutine that waits.
LEMMA ParkUnlockPlace ==
    ASSUME StealInv, PlaceInv, NEW m \in Machines, ParkUnlock(m)
    PROVE  PlaceInv'
<1> USE DEF StealInv
<1>1. hand[m] = NoG /\ UNCHANGED <<gq, rq, status, lockedM, lockedG, waitOn, cur, hand>>
  BY DEF ParkUnlock, Shape
<1>2. PICK l \in {"unlock", "find"} : pc' = [pc EXCEPT ![m] = l]
  BY DEF ParkUnlock, Goto, TypeOK
<1>3. \A c \in Chans : cmu'[c] = cmu[c] \/ cmu[c] = m
  BY DEF ParkUnlock, TypeOK
<1> QED
  BY <1>1, <1>2, <1>3, PlainKeeps DEF PCs

\* A yielded goroutine goes to the global queue or waits for its machine.
LEMMA RequeuePlace ==
    ASSUME StealInv, PlaceInv, NEW m \in Machines, Requeue(m)
    PROVE  PlaceInv'
<1> USE DEF StealInv
<1>1. PICK g \in Goroutines :
              /\ g = hand[m] /\ cur[m] # g
              /\ ~InGlobal(g) /\ \A p \in Procs : ~InRing(p, g)
              /\ ~Queued(g)
              /\ \A n \in Machines \ {m} : ~OnMachine(n, g)
              /\ lockedM[g] \in {Nobody, m}
              /\ lockedM[g] = m => lockedG[m] = g
  BY InHand DEF Requeue, Shape
<1>2. /\ pc[m] = "requeue" /\ cur[m] = NoG /\ hand' = [hand EXCEPT ![m] = NoG]
      /\ UNCHANGED <<rq, status, lockedM, lockedG, waitOn, cmu, cur>>
  BY DEF Requeue, Shape, OnStack
<1>3. CASE lockedM[g] # m /\ GlobalPush(g, [pc EXCEPT ![m] = "find"])
  BY <1>1, <1>2, <1>3, HandToGlobal
<1>4. CASE lockedM[g] = m /\ Goto(m, "find") /\ UNCHANGED gq
  <2>1. /\ pc'[m] = "find" /\ hand'[m] = NoG
        /\ \A n \in Machines \ {m} : pc'[n] = pc[n] /\ hand'[n] = hand[n]
    BY <1>2, <1>4 DEF TypeOK, Goto
  <2>2. Apart(g, m)
    <3>1. \A h \in Goroutines : lockedM[h] = m => lockedG[m] = h
      BY Bases DEF PlaceInv, Placed
    <3> QED
      BY <1>1, <1>2, <1>4, <2>1, <3>1, SchedAssumption DEF Apart, InGlobal, InRing, OnMachine
  <2>3. Aside(g, m)
    BY <1>1, <1>2, <2>1 DEF Aside, Elsewhere
  <2>4. Placed(g)'
    <3>1. /\ ~InGlobal(g)' /\ ~Queued(g)' /\ (\A p \in Procs : ~InRing(p, g)')
          /\ \A n \in Machines : ~OnMachine(n, g)'
      BY <1>1, <1>2, <1>4, <2>1, SchedAssumption DEF Queued, InGlobal, InRing, OnMachine
    <3>2. status[g] = "runnable" /\ m # Nobody
      BY <1>1, <1>2, SchedAssumption, Bases DEF PlaceInv, Custody
    <3> QED
      BY <1>1, <1>2, <1>4, <3>1, <3>2 DEF Placed
  <2>5. Custody(m)'
    BY <1>2, <2>1 DEF PlaceInv, Custody
  <2>6. Distinct(gq)' /\ \A p \in Procs : Distinct(rq[p])'
    BY <1>2, <1>4 DEF PlaceInv, Distinct
  <2> QED
    BY <2>2, <2>3, <2>4, <2>5, <2>6, MoveKeeps
<1> QED
  BY <1>1, <1>3, <1>4 DEF Requeue

\* A finished goroutine is freed by the only machine that has it.
LEMMA ReapPlace ==
    ASSUME StealInv, PlaceInv, NEW m \in Machines, Reap(m)
    PROVE  PlaceInv'
<1> USE DEF StealInv
<1>1. PICK g \in Goroutines :
              /\ g = hand[m] /\ cur[m] # g
              /\ ~InGlobal(g) /\ \A p \in Procs : ~InRing(p, g)
              /\ ~Queued(g)
              /\ \A n \in Machines \ {m} : ~OnMachine(n, g)
              /\ lockedM[g] \in {Nobody, m}
              /\ lockedM[g] = m => lockedG[m] = g
  BY InHand DEF Reap, Shape
<1>2. /\ pc[m] = "reap" /\ cur[m] = NoG
      /\ UNCHANGED <<gq, rq, lockedM, lockedG, waitOn, cmu, cur>>
  BY DEF Reap, Shape, OnStack
<1>3. /\ pc'[m] = "find" /\ hand'[m] = NoG /\ status'[g] = "freed"
      /\ \A n \in Machines \ {m} : pc'[n] = pc[n] /\ hand'[n] = hand[n]
      /\ \A h \in Goroutines \ {g} : status'[h] = status[h]
  BY <1>1 DEF Reap, Goto, TypeOK
<1>4. Apart(g, m)
  <2>1. \A h \in Goroutines : lockedM[h] = m => lockedG[m] = h
    BY Bases DEF PlaceInv, Placed
  <2> QED
    BY <1>1, <1>2, <1>3, <2>1, SchedAssumption DEF Apart, InGlobal, InRing, OnMachine
<1>5. Aside(g, m)
  BY <1>1, <1>2, <1>3 DEF Aside, Elsewhere
<1>6. Placed(g)'
  <2>1. /\ ~InGlobal(g)' /\ ~Queued(g)' /\ (\A p \in Procs : ~InRing(p, g)')
        /\ \A n \in Machines : ~OnMachine(n, g)'
    BY <1>1, <1>2, <1>3, SchedAssumption DEF Queued, InGlobal, InRing, OnMachine
  <2> QED
    BY <1>1, <1>2, <1>3, <2>1 DEF Placed
<1>7. Custody(m)'
  BY <1>2, <1>3 DEF PlaceInv, Custody
<1>8. Distinct(gq)' /\ \A p \in Procs : Distinct(rq[p])'
  BY <1>2 DEF PlaceInv, Distinct
<1> QED
  BY <1>4, <1>5, <1>6, <1>7, <1>8, MoveKeeps

-----------------------------------------------------------------------------
(* Time, sysmon, and the whole next-state relation.                        *)

\* Time and sysmon move no goroutine; sysmon may start a machine.
LEMMA SysPlace ==
    ASSUME StealInv, PlaceInv, NEW m \in Machines, Overrun(m) \/ SysStep
    PROVE  PlaceInv'
<1> USE DEF StealInv
<1>1. CASE Overrun(m) \/ SysLoad \/ SysFlag \/ SysSleep
  BY <1>1, StillKeeps DEF Overrun, SysLoad, SysFlag, SysSleep
<1>2. CASE SysSpawn
  <2>1. PICK r \in Machines : pc[r] = "off" /\ Goto(r, "find")
    BY <1>2 DEF SysSpawn
  <2>2. hand[r] = NoG
    BY <2>1 DEF Shape
  <2> QED
    BY <1>2, <2>1, <2>2, PlainKeeps DEF SysSpawn, Goto, PCs
<1> QED
  BY <1>1, <1>2 DEF SysStep

\* Nothing is anywhere at the start.
LEMMA PlaceInvInit == Init => PlaceInv
<1> HAVE Init
<1>1. Distinct(gq) /\ \A p \in Procs : Distinct(rq[p])
  BY DEF Init, Distinct
<1>2. \A g \in Goroutines : ~InGlobal(g) /\ \A p \in Procs : ~InRing(p, g)
  BY DEF Init, InGlobal, InRing, ToSet
<1>3. \A g \in Goroutines : \A m \in Machines : ~OnMachine(m, g)
  BY SchedAssumption DEF Init, OnMachine
<1>4. ASSUME NEW g \in Goroutines PROVE Placed(g)
  BY <1>2, <1>3 DEF Init, Placed, Queued
<1>5. ASSUME NEW m \in Machines PROVE Custody(m)
  BY DEF Init, Custody
<1> QED
  BY <1>1, <1>4, <1>5 DEF PlaceInv

\* Every step keeps the invariant.
LEMMA PlaceInvStep == StealInv /\ PlaceInv /\ [Next]_vars => PlaceInv'
<1> SUFFICES ASSUME StealInv, PlaceInv, [Next]_vars PROVE PlaceInv'
  OBVIOUS
<1>1. CASE UNCHANGED vars
  BY <1>1, StillKeeps DEF vars
<1>2. ASSUME NEW m \in Machines,
             \/ FindStep(m) \/ LeaveStep(m) \/ BodyStep(m)
             \/ SpuriousWake(m) \/ Safepoint(m) \/ Drain(m) \/ Overrun(m)
      PROVE  PlaceInv'
  <2>1. CASE FindStep(m)
    BY <2>1, FindPlace, FindLockedPlace, PopLocalPlace, PopGlobalPlace, StealTryPlace,
       StealOnePlace, StealDonePlace, ParkMPlace, WakingPlace DEF FindStep
  <2>2. CASE LeaveStep(m)
    BY <2>2, SwitchOutPlace, ParkUnlockPlace, RequeuePlace, ReapPlace DEF LeaveStep
  <2>3. CASE BodyStep(m)
    BY <2>3, BodyLeaves, CallPlace, LockThreadPlace DEF BodyStep
  <2>4. CASE Safepoint(m)
    BY <2>4, BodyLeaves
  <2> QED
    BY <1>2, <2>1, <2>2, <2>3, <2>4, WakingPlace, DrainPlace, SysPlace
<1>3. ASSUME SysStep PROVE PlaceInv'
  <2>1. 1 \in Machines
    BY SchedAssumption DEF Machines
  <2> QED
    BY <1>3, <2>1, SysPlace
<1> QED
  BY <1>1, <1>2, <1>3, WakePlace, GoPlace DEF Next

\* The inductive invariant holds in every reachable state.
LEMMA PlaceInvariant == Spec => [](StealInv /\ PlaceInv)
<1>1. Init => StealInv /\ PlaceInv
  BY StealInvInit, PlaceInvInit
<1>2. StealInv /\ PlaceInv /\ [Next]_vars => (StealInv /\ PlaceInv)'
  BY StealInvStep, PlaceInvStep
<1> QED
  BY <1>1, <1>2, PTL DEF Spec

-----------------------------------------------------------------------------
(* The properties.                                                         *)

\* No goroutine is ever in two places: no sequence of yields, wakes, steals,
\* drains and rescues of any number of machines queues a goroutine twice,
\* or while its context is still live.  The deferred unlocks and the
\* deferred ready of ks_execute suffice.
THEOREM NeverInTwoPlaces == Spec => []OnePlace
<1>1. PlaceInv => OnePlace
  BY DEF PlaceInv, Placed, OnePlace
<1> QED
  BY <1>1, PlaceInvariant, PTL

\* No runnable goroutine is ever lost: in particular the push whose answer
\* ks_p_steal ignores never finds the thief's ring full.
THEOREM NoneLost == Spec => []NotLost
<1>1. PlaceInv => NotLost
  BY DEF PlaceInv, Placed, NotLost
<1> QED
  BY <1>1, PlaceInvariant, PTL

\* What a run queue holds is runnable, never freed.
THEOREM QueuesHoldRunnable == Spec => []QueuedRunnable
<1>1. PlaceInv => QueuedRunnable
  BY DEF PlaceInv, Placed, QueuedRunnable
<1> QED
  BY <1>1, PlaceInvariant, PTL

\* A goroutine locked to its thread is in no queue and on no other machine.
THEOREM LockedNeverMigrates == Spec => []LockedStaysPut
<1>1. PlaceInv => LockedStaysPut
  BY DEF PlaceInv, Placed, LockedStaysPut
<1> QED
  BY <1>1, PlaceInvariant, PTL

=============================================================================

--------------------------- MODULE KlainChanProofs ---------------------------
(***************************************************************************)
(* Channels and select, proved of KlainChan for every number of tasks and  *)
(* channels, every capacity and every set of operations: the state stays   *)
(* well formed, no wait node outlives its operation, nobody waits for what *)
(* is already there, mutexes are never waited for in a circle, and         *)
(* KlainChan implements ChanSpec.                                          *)
(*                                                                         *)
(* The heart of it is QueueInv: the sudogs in the queues whose task nobody *)
(* has claimed are exactly the cases of the tasks that wait.  So `no live  *)
(* sudog', which is what the code finds out, means `no waiting task',      *)
(* which is what the properties speak of.                                  *)
(***************************************************************************)
EXTENDS KlainChan, FiniteSetTheorems, SequenceTheorems, WellFoundedInduction, TLAPS

-----------------------------------------------------------------------------
(* The inductive invariant.                                                *)

Dirs == {"recv", "send"}
PCs == {"idle", "lock", "wait", "relock", "close", "done"}

\* The values the operations send.
Values == UNION {{o.cases[i].val : i \in DOMAIN o.cases} : o \in Ops}
Outcomes == [case : Nat, val : Values \cup {0}, ok : BOOLEAN]

\* Channel c's wait queue of direction d.
Q(c, d) == IF d = "recv" THEN recvq[c] ELSE sendq[c]

Typed ==
    /\ buf \in [Chans -> Seq(Values)] /\ closed \in [Chans -> BOOLEAN]
    /\ recvq \in [Chans -> Seq(Sudog)] /\ sendq \in [Chans -> Seq(Sudog)]
    /\ pc \in [Tasks -> PCs] /\ op \in [Tasks -> Ops \cup {NoOp}]
    /\ mine \in [Tasks -> SUBSET Chans] /\ old \in [Tasks -> SUBSET Chans]
    /\ won \in [Tasks -> Nat] /\ res \in [Tasks -> Outcomes]
    /\ dead \in BOOLEAN

\* A ring holds no more than its slots.
Bounded == \A c \in Chans : Len(buf[c]) <= Cap[c]

\* Sudog sg is one of an operation in progress, for channel c and direction d.
Owned(sg, c, d) ==
    /\ pc[sg[1]] \in {"wait", "relock"}
    /\ sg[2] \in DOMAIN Cases(sg[1])
    /\ Cases(sg[1])[sg[2]].ch = c /\ Cases(sg[1])[sg[2]].dir = d

\* Every case of an operation that waits unclaimed is in its queue.
Enqueued(t) ==
    pc[t] = "wait" /\ won[t] = 0 =>
       \A i \in DOMAIN Cases(t) :
          /\ Cases(t)[i].dir \in Dirs
          /\ <<t, i>> \in ToSet(Q(Cases(t)[i].ch, Cases(t)[i].dir))

QueueInv ==
    /\ \A c \in Chans, d \in Dirs : \A sg \in ToSet(Q(c, d)) : Owned(sg, c, d)
    /\ \A t \in Tasks : Enqueued(t)

\* What t's place in its operation says of its claim, its channel and its
\* outcome.
Claim(t) ==
    /\ pc[t] = "relock" => won[t] # 0
    /\ pc[t] \in {"wait", "relock"} /\ won[t] # 0 =>
          won[t] \in DOMAIN Cases(t) /\ res[t].case = won[t]
    /\ pc[t] = "close" =>
          /\ 1 \in DOMAIN Cases(t) /\ Cases(t)[1].dir = "close"
          /\ closed[Cases(t)[1].ch]
    /\ pc[t] = "done" =>
          /\ res[t].case \in DOMAIN Cases(t) \cup {0}
          /\ ~(res[t].case # 0 /\ Cases(t)[res[t].case].dir = "send" /\ ~res[t].ok)

\* Mutexes are held only inside an operation, and taken upwards.
Upwards(t) ==
    /\ mine[t] \subseteq Locks(t)
    /\ pc[t] \in {"idle", "wait", "done"} => mine[t] = {}
    /\ \A a \in mine[t], b \in Locks(t) \ mine[t] : a < b

ChanInv ==
    /\ Typed /\ Bounded /\ QueueInv /\ NoMissedMatch
    /\ \A t \in Tasks : Claim(t) /\ Upwards(t)

-----------------------------------------------------------------------------
(* Operators.                                                              *)

\* A set of naturals has a least element, and Min is it.
LEMMA NatMin ==
    ASSUME NEW T, T \subseteq Nat, T # {}
    PROVE  Min(T) \in T /\ \A y \in T : Min(T) <= y
<1> DEFINE F == {1..n : n \in T}
<1>1. F \subseteq FiniteSubsetsOf(Nat) /\ F # {}
  <2>1. ASSUME NEW n \in T PROVE 1..n \in FiniteSubsetsOf(Nat)
    <3>1. n \in Int /\ 1..n \subseteq Nat
      OBVIOUS
    <3>2. IsFiniteSet(1..n)
      BY <3>1, FS_Interval
    <3> QED
      BY <3>1, <3>2 DEF FiniteSubsetsOf
  <2> QED
    BY <2>1
<1>2. PICK M \in F : \A N \in F : ~(<<N, M>> \in StrictSubsetOrdering(Nat))
  BY <1>1, WFMin, FS_StrictSubsetOrderingWellFounded
<1>3. PICK x \in T : M = 1..x
  OBVIOUS
<1>4. ASSUME NEW y \in T PROVE x <= y
  <2> SUFFICES ASSUME y < x PROVE FALSE
    OBVIOUS
  <2>1. 1..y \subseteq 1..x /\ 1..y # 1..x /\ 1..x \subseteq Nat
    <3>1. x \in 1..x /\ x \notin 1..y
      OBVIOUS
    <3> QED
      BY <3>1
  <2>2. <<1..y, 1..x>> \in StrictSubsetOrdering(Nat)
    BY <2>1 DEF StrictSubsetOrdering
  <2> QED
    BY <1>2, <1>3, <2>2
<1> QED
  BY <1>4 DEF Min

\* What a sequence holds.
LEMMA SeqRange ==
    ASSUME NEW S, NEW q \in Seq(S)
    PROVE  /\ Len(q) \in Nat /\ DOMAIN q = 1..Len(q)
           /\ \A j \in DOMAIN q : q[j] \in S
           /\ ToSet(q) \subseteq S
           /\ \A x : x \in ToSet(q) <=> \E j \in DOMAIN q : q[j] = x
<1>1. Len(q) \in Nat /\ DOMAIN q = 1..Len(q) /\ \A j \in DOMAIN q : q[j] \in S
  BY LenProperties
<1>2. \A x : x \in ToSet(q) <=> \E j \in DOMAIN q : q[j] = x
  BY DEF ToSet
<1> QED
  BY <1>1, <1>2

\* The position of a member among the members below it is one-to-one and
\* reaches every number up to the size of the set: a set of positions can be
\* enumerated in order.
LEMMA Enumerates ==
    ASSUME NEW J, J \subseteq Nat, IsFiniteSet(J)
    PROVE  /\ Cardinality(J) \in Nat
           /\ \A j \in J : Cardinality({k \in J : k < j}) \in 0..(Cardinality(J) - 1)
           /\ \A i, j \in J : Cardinality({k \in J : k < i}) = Cardinality({k \in J : k < j}) => i = j
           /\ \A n \in 0..(Cardinality(J) - 1) : \E j \in J : Cardinality({k \in J : k < j}) = n
<1> DEFINE Below(j) == {k \in J : k < j}
           rank == [j \in J |-> Cardinality(Below(j))]
           N == Cardinality(J)
<1>1. N \in Nat /\ \A j \in J : IsFiniteSet(Below(j)) /\ Cardinality(Below(j)) \in Nat
  BY FS_Subset, FS_CardinalityType
<1>2. ASSUME NEW j \in J PROVE Cardinality(Below(j)) \in 0..(N - 1)
  <2>1. Below(j) \in SUBSET J /\ j \notin Below(j)
    OBVIOUS
  <2>2. Cardinality(Below(j)) <= N /\ N # Cardinality(Below(j))
    BY <2>1, FS_Subset
  <2> QED
    BY <1>1, <2>2
<1>3. ASSUME NEW i \in J, NEW j \in J, i < j PROVE Cardinality(Below(i)) # Cardinality(Below(j))
  <2>0. \A k \in J : k \in Nat
    OBVIOUS
  <2>1. Below(i) \in SUBSET Below(j)
    <3>1. \A k \in J : k < i => k < j
      BY <1>3, <2>0
    <3> QED
      BY <3>1
  <2>2. i \in Below(j) /\ i \notin Below(i)
    BY <1>3
  <2> QED
    BY <1>1, <2>1, <2>2, FS_Subset
<1>4. \A i, j \in J : Cardinality(Below(i)) = Cardinality(Below(j)) => i = j
  <2> TAKE i, j \in J
  <2>1. i \in Nat /\ j \in Nat
    OBVIOUS
  <2>2. i < j \/ j < i \/ i = j
    BY <2>1
  <2> QED
    BY <1>3, <2>2
<1>5. rank \in Injection(J, 0..(N - 1))
  <2>1. rank \in [J -> 0..(N - 1)]
    BY <1>2
  <2>2. \A i, j \in J : rank[i] = rank[j] => i = j
    BY <1>4
  <2> HIDE DEF rank
  <2> QED
    BY <2>1, <2>2 DEF Injection, IsInjective
<1>6. IsFiniteSet(0..(N - 1)) /\ Cardinality(0..(N - 1)) = N
  <2>1. N - 1 \in Int /\ 0 \in Int
    BY <1>1
  <2>2. /\ IsFiniteSet(0..(N - 1))
        /\ Cardinality(0..(N - 1)) = IF 0 > N - 1 THEN 0 ELSE (N - 1) - 0 + 1
    BY <2>1, FS_Interval
  <2> HIDE DEF N
  <2> QED
    BY <1>1, <2>2
<1>7. rank \in Surjection(J, 0..(N - 1))
  BY <1>5, <1>6, FS_Injection
<1>8. \A n \in 0..(N - 1) : \E j \in J : rank[j] = n
  BY <1>7 DEF Surjection
<1>9. \A j \in J : rank[j] = Cardinality(Below(j))
  OBVIOUS
<1> QED
  BY <1>1, <1>2, <1>4, <1>8, <1>9

\* Keep returns a sequence of exactly the elements at the positions it is
\* given.
LEMMA KeepFacts ==
    ASSUME NEW q, NEW J, IsFiniteSet(J), J \subseteq Nat, \A j \in J : q[j] \in Sudog
    PROVE  /\ Keep(q, J) \in Seq(Sudog)
           /\ \A x : x \in ToSet(Keep(q, J)) <=> \E j \in J : q[j] = x
<1> DEFINE Rank(j) == Cardinality({k \in J : k < j})
           N == Cardinality(J)
           at(n) == CHOOSE j \in J : Rank(j) = n - 1
<1>1. /\ N \in Nat /\ \A j \in J : Rank(j) \in 0..(N - 1)
      /\ \A i, j \in J : Rank(i) = Rank(j) => i = j
      /\ \A n \in 0..(N - 1) : \E j \in J : Rank(j) = n
  BY Enumerates
<1>2. ASSUME NEW n \in 1..N PROVE at(n) \in J /\ Rank(at(n)) = n - 1
  <2>1. n - 1 \in 0..(N - 1)
    BY <1>1
  <2>2. \E j \in J : Rank(j) = n - 1
    BY <1>1, <2>1
  <2> QED
    BY <2>2
<1>3. Keep(q, J) = [n \in 1..N |-> q[at(n)]]
  BY DEF Keep
<1>4. Keep(q, J) \in [1..N -> Sudog]
  BY <1>2, <1>3
<1>5. Keep(q, J) \in Seq(Sudog)
  BY <1>1, <1>4
<1>6. ASSUME NEW j \in J PROVE \E n \in 1..N : at(n) = j
  <2>1. Rank(j) + 1 \in 1..N /\ (Rank(j) + 1) - 1 = Rank(j)
    BY <1>1
  <2>2. at(Rank(j) + 1) \in J /\ Rank(at(Rank(j) + 1)) = Rank(j)
    BY <1>2, <2>1
  <2>3. at(Rank(j) + 1) = j
    BY <1>1, <2>2
  <2> QED
    BY <2>1, <2>3
<1>7. \A x : x \in ToSet(Keep(q, J)) <=> \E n \in 1..N : q[at(n)] = x
  BY <1>3 DEF ToSet
<1> QED
  BY <1>2, <1>5, <1>6, <1>7

-----------------------------------------------------------------------------
(* What the state says of operations and queues.                           *)

\* A case of an operation in progress.
LEMMA CaseFacts ==
    ASSUME Typed, NEW t \in Tasks, NEW i \in DOMAIN Cases(t)
    PROVE  /\ op[t] \in Ops /\ Cases(t)[i].ch \in Chans /\ Cases(t)[i].ch \in Locks(t)
           /\ Cases(t)[i].dir \in Dirs \cup {"close"}
           /\ Cases(t)[i].val \in Values
           /\ Len(Cases(t)) \in Nat /\ DOMAIN Cases(t) = 1..Len(Cases(t)) /\ i \in Nat \ {0}
           /\ Cases(t)[i].dir = "close" => DOMAIN Cases(t) = {1}
<1>1. op[t] \in Ops
  BY DEF Typed, NoOp, Cases
<1>2. /\ Len(Cases(t)) \in Nat /\ DOMAIN Cases(t) = 1..Len(Cases(t)) /\ i \in Nat \ {0}
      /\ Cases(t)[i].ch \in Chans /\ Cases(t)[i].dir \in {"recv", "send", "close"}
      /\ Cases(t)[i].dir = "close" => Len(Cases(t)) = 1
  BY <1>1, ChanAssumption DEF Cases
<1>3. Cases(t)[i].val \in Values
  BY <1>1 DEF Values, Cases
<1>4. Cases(t)[i].ch \in Locks(t)
  BY DEF Locks
<1> QED
  BY <1>1, <1>2, <1>3, <1>4 DEF Dirs

\* The channels of an operation are channels.
LEMMA LocksFacts ==
    ASSUME Typed, NEW t \in Tasks
    PROVE  Locks(t) \subseteq Chans /\ Locks(t) \subseteq Nat /\ IsFiniteSet(DOMAIN Cases(t))
                                  /\ DOMAIN Cases(t) \subseteq Nat
<1>1. Locks(t) \subseteq Chans
  BY CaseFacts DEF Locks
<1>2. IsFiniteSet(DOMAIN Cases(t)) /\ DOMAIN Cases(t) \subseteq Nat
  <2>1. CASE DOMAIN Cases(t) = {}
    BY <2>1, FS_EmptySet
  <2>2. CASE DOMAIN Cases(t) # {}
    BY <2>2, CaseFacts, FS_Interval
  <2> QED
    BY <2>1, <2>2
<1> QED
  BY <1>1, <1>2, ChanAssumption

\* A queue is a sequence of sudogs.
LEMMA QueueFacts ==
    ASSUME Typed, NEW c \in Chans, NEW d
    PROVE  /\ Q(c, d) \in Seq(Sudog) /\ ToSet(Q(c, d)) \subseteq Sudog
           /\ \A sg \in ToSet(Q(c, d)) : sg[1] \in Tasks /\ sg[2] \in Nat \ {0} /\ sg = <<sg[1], sg[2]>>
<1>1. Q(c, d) \in Seq(Sudog)
  BY DEF Typed, Q
<1>2. ToSet(Q(c, d)) \subseteq Sudog
  BY <1>1, SeqRange
<1> QED
  BY <1>1, <1>2 DEF Sudog

\* A pop takes the first live sudog and the stale ones before it, and leaves
\* every other live one.
LEMMA PoppedFacts ==
    ASSUME NEW q \in Seq(Sudog)
    PROVE  /\ Popped(q) \in Seq(Sudog) /\ ToSet(Popped(q)) \subseteq ToSet(q)
           /\ Live(q) = {} <=> \A sg \in ToSet(q) : ~Acquires(sg)
           /\ Live(q) # {} => FirstLive(q) \in ToSet(q) /\ Acquires(FirstLive(q))
           /\ \A sg \in ToSet(q) : Acquires(sg) /\ sg # FirstLive(q) => sg \in ToSet(Popped(q))
<1>1. /\ Len(q) \in Nat /\ DOMAIN q = 1..Len(q) /\ (\A j \in DOMAIN q : q[j] \in Sudog)
      /\ \A x : x \in ToSet(q) <=> \E j \in DOMAIN q : q[j] = x
  BY SeqRange
<1>2. Live(q) = {} <=> \A sg \in ToSet(q) : ~Acquires(sg)
  BY <1>1 DEF Live
<1>3. CASE Live(q) = {}
  <2>1. Popped(q) = <<>> /\ <<>> \in Seq(Sudog) /\ ToSet(<<>>) = {}
    BY <1>3 DEF Popped, ToSet
  <2> QED
    BY <1>2, <1>3, <2>1
<1>4. CASE Live(q) # {}
  <2>1. PICK m : m = Min(Live(q))
    OBVIOUS
  <2>2. m \in Live(q) /\ \A j \in Live(q) : m <= j
    BY <1>1, <1>4, <2>1, NatMin DEF Live
  <2>3. m \in 1..Len(q) /\ FirstLive(q) = q[m] /\ Acquires(q[m])
    BY <1>1, <2>1, <2>2 DEF Live, FirstLive
  <2>4. Popped(q) = SubSeq(q, m + 1, Len(q))
    BY <1>4, <2>1 DEF Popped
  <2>5. \A i \in (m + 1)..Len(q) : i \in DOMAIN q /\ q[i] \in Sudog
    BY <1>1, <2>3
  <2>6. /\ Popped(q) \in Seq(Sudog)
        /\ Len(Popped(q)) = Len(q) - m
        /\ \A i \in 1..(Len(q) - m) : Popped(q)[i] = q[m + i]
    <3>1. m + 1 \in Int /\ Len(q) \in Int
      BY <1>1, <2>3
    <3>2. /\ SubSeq(q, m + 1, Len(q)) \in Seq(Sudog)
          /\ Len(SubSeq(q, m + 1, Len(q))) = IF m + 1 <= Len(q) THEN Len(q) - (m + 1) + 1 ELSE 0
          /\ \A i \in 1..(Len(q) - (m + 1) + 1) : SubSeq(q, m + 1, Len(q))[i] = q[(m + 1) + i - 1]
      BY <2>5, <3>1, SubSeqProperties
    <3>3. \A n \in Nat : \A k \in 1..n :
             /\ n - (k + 1) + 1 = n - k
             /\ (IF k + 1 <= n THEN n - (k + 1) + 1 ELSE 0) = n - k
             /\ \A i \in Int : (k + 1) + i - 1 = k + i
      OBVIOUS
    <3>4. /\ Len(q) - (m + 1) + 1 = Len(q) - m
          /\ (IF m + 1 <= Len(q) THEN Len(q) - (m + 1) + 1 ELSE 0) = Len(q) - m
          /\ \A i \in Int : (m + 1) + i - 1 = m + i
      BY <1>1, <2>3, <3>3, Zenon
    <3>5. Len(Popped(q)) = Len(q) - m /\ Popped(q) \in Seq(Sudog)
      BY <2>4, <3>2, <3>4, Zenon
    <3>6. ASSUME NEW i \in 1..(Len(q) - m) PROVE Popped(q)[i] = q[m + i]
      <4>1. i \in 1..(Len(q) - (m + 1) + 1) /\ i \in Int
        BY <3>4
      <4> QED
        BY <2>4, <3>2, <3>4, <4>1, Zenon
    <3> QED
      BY <3>5, <3>6
  <2>7. /\ DOMAIN Popped(q) = 1..(Len(q) - m)
        /\ \A x : x \in ToSet(Popped(q)) <=> \E j \in 1..(Len(q) - m) : q[m + j] = x
    <3>1. /\ DOMAIN Popped(q) = 1..Len(Popped(q))
          /\ \A x : x \in ToSet(Popped(q)) <=> \E j \in DOMAIN Popped(q) : Popped(q)[j] = x
      BY <2>6, SeqRange
    <3> QED
      BY <2>6, <3>1
  <2>8. ToSet(Popped(q)) \subseteq ToSet(q)
    <3>1. \A j \in 1..(Len(q) - m) : m + j \in DOMAIN q
      BY <1>1, <2>3
    <3> QED
      BY <1>1, <2>7, <3>1
  <2>9. ASSUME NEW sg \in ToSet(q), Acquires(sg), sg # FirstLive(q)
        PROVE  sg \in ToSet(Popped(q))
    <3>1. PICK j \in 1..Len(q) : q[j] = sg
      BY <1>1
    <3>2. j \in Live(q) /\ j # m
      BY <1>1, <2>3, <2>9, <3>1 DEF Live
    <3>3. j - m \in 1..(Len(q) - m) /\ m + (j - m) = j
      BY <1>1, <2>2, <2>3, <3>2
    <3> QED
      BY <2>7, <3>1, <3>3
  <2>10. FirstLive(q) \in ToSet(q)
    BY <1>1, <2>3
  <2> QED
    BY <1>2, <1>4, <2>3, <2>6, <2>8, <2>9, <2>10
<1> QED
  BY <1>3, <1>4

\* No live sudog in a queue means no waiting task, and the first live one is
\* a waiting task's: what the code looks at is what its users mean.
LEMMA LiveWaits ==
    ASSUME ChanInv, NEW c \in Chans, NEW d \in Dirs
    PROVE  /\ Live(Q(c, d)) = {} <=> Waits(c, d) = {}
           /\ Live(Q(c, d)) # {} =>
                 \E u \in Tasks, i \in Nat \ {0} :
                    /\ FirstLive(Q(c, d)) = <<u, i>> /\ <<u, i>> \in ToSet(Q(c, d))
                    /\ pc[u] = "wait" /\ won[u] = 0 /\ i \in DOMAIN Cases(u)
                    /\ Cases(u)[i].ch = c /\ Cases(u)[i].dir = d
<1>0. Typed /\ QueueInv /\ \A t \in Tasks : Claim(t)
  BY DEF ChanInv
<1>1. /\ Q(c, d) \in Seq(Sudog)
      /\ \A sg \in ToSet(Q(c, d)) : sg[1] \in Tasks /\ sg[2] \in Nat \ {0} /\ sg = <<sg[1], sg[2]>>
  BY <1>0, QueueFacts
<1>2. \A sg \in ToSet(Q(c, d)) : Owned(sg, c, d)
  BY <1>0 DEF QueueInv
<1>3. \A sg \in ToSet(Q(c, d)) : Acquires(sg) => pc[sg[1]] = "wait" /\ won[sg[1]] = 0
  BY <1>0, <1>1, <1>2 DEF Owned, Claim, Acquires
<1>4. /\ Live(Q(c, d)) = {} <=> \A sg \in ToSet(Q(c, d)) : ~Acquires(sg)
      /\ Live(Q(c, d)) # {} => FirstLive(Q(c, d)) \in ToSet(Q(c, d)) /\ Acquires(FirstLive(Q(c, d)))
  BY <1>1, PoppedFacts
<1>5. ASSUME NEW u \in Waits(c, d) PROVE Live(Q(c, d)) # {}
  <2>1. PICK i \in DOMAIN Cases(u) : Cases(u)[i].ch = c /\ Cases(u)[i].dir = d
    BY DEF Waits
  <2>2. u \in Tasks /\ won[u] = 0 /\ <<u, i>> \in ToSet(Q(c, d))
    BY <1>0, <2>1 DEF Waits, QueueInv, Enqueued
  <2> QED
    BY <1>4, <2>2 DEF Acquires
<1>6. ASSUME Live(Q(c, d)) # {}
      PROVE  \E u \in Tasks, i \in Nat \ {0} :
                /\ FirstLive(Q(c, d)) = <<u, i>> /\ <<u, i>> \in ToSet(Q(c, d))
                /\ pc[u] = "wait" /\ won[u] = 0 /\ i \in DOMAIN Cases(u)
                /\ Cases(u)[i].ch = c /\ Cases(u)[i].dir = d
  <2>1. PICK sg \in ToSet(Q(c, d)) : sg = FirstLive(Q(c, d)) /\ Acquires(sg)
    BY <1>4, <1>6
  <2>2. /\ sg[1] \in Tasks /\ sg[2] \in Nat \ {0} /\ sg = <<sg[1], sg[2]>>
        /\ Owned(sg, c, d) /\ pc[sg[1]] = "wait" /\ won[sg[1]] = 0
    BY <1>1, <1>2, <1>3, <2>1
  <2>3. PICK u \in Tasks, i \in Nat \ {0} : u = sg[1] /\ i = sg[2]
    BY <2>2
  <2> QED
    BY <2>1, <2>2, <2>3 DEF Owned
<1>7. ASSUME Live(Q(c, d)) # {} PROVE Waits(c, d) # {}
  BY <1>6, <1>7 DEF Waits
<1> QED
  BY <1>5, <1>6, <1>7

\* The cases polled before the one that fires are not ready.
LEMMA PolledInVain ==
    ASSUME Typed, NEW t \in Tasks, NEW s \in DOMAIN Cases(t), NEW i \in DOMAIN Cases(t),
           Fires(t, s, i)
    PROVE  /\ Before(t, s, i) \subseteq DOMAIN Cases(t)
           /\ \A j \in Before(t, s, i) : ~Ready(Cases(t)[j])
           /\ Ready(Cases(t)[i])
<1>1. ASSUME NEW j \in DOMAIN Cases(t) PROVE Distance(t, s, j) \in Int
  <2>1. Len(Cases(t)) \in Nat \ {0} /\ j \in Int /\ s \in Int
    BY CaseFacts
  <2> QED
    BY <2>1 DEF Distance
<1>2. ASSUME NEW j \in Before(t, s, i) PROVE ~Ready(Cases(t)[j])
  <2>1. j \in DOMAIN Cases(t) /\ Distance(t, s, j) < Distance(t, s, i)
    BY DEF Before
  <2>2. j \notin ReadyCases(t)
    BY <1>1, <2>1 DEF Fires
  <2> QED
    BY <2>1, <2>2 DEF ReadyCases
<1> QED
  BY <1>2 DEF Before, Fires, ReadyCases

\* Polling in vain empties queues that held no live sudog.
LEMMA PolledFacts ==
    ASSUME Typed, NEW t \in Tasks, NEW P, P \subseteq DOMAIN Cases(t),
           \A j \in P : ~Ready(Cases(t)[j]), NEW c \in Chans
    PROVE  /\ \/ Polled(recvq, t, P, "send")[c] = Q(c, "recv")
              \/ Polled(recvq, t, P, "send")[c] = <<>> /\ Live(Q(c, "recv")) = {}
           /\ \/ Polled(sendq, t, P, "recv")[c] = Q(c, "send")
              \/ Polled(sendq, t, P, "recv")[c] = <<>> /\ Live(Q(c, "send")) = {}
<1>1. \A j \in P : /\ Cases(t)[j].dir = "send" => Live(recvq[Cases(t)[j].ch]) = {}
                   /\ Cases(t)[j].dir = "recv" => Live(sendq[Cases(t)[j].ch]) = {}
  BY DEF Ready
<1> QED
  BY <1>1 DEF Polled, Q

\* Queue r is q after stale sudogs, and those this step claims, were popped.
Pruned(q, r) ==
    /\ r \in Seq(Sudog) /\ ToSet(r) \subseteq ToSet(q)
    /\ \A sg \in ToSet(q) : won'[sg[1]] = 0 => sg \in ToSet(r)

\* What the code does to a queue prunes it.
LEMMA PrunedCases ==
    ASSUME NEW q \in Seq(Sudog), NEW r, \A u \in Tasks : won'[u] = 0 => won[u] = 0,
           \/ r = q
           \/ r = <<>> /\ Live(q) = {}
           \/ r = Popped(q) /\ (Live(q) # {} => won'[FirstLive(q)[1]] # 0)
    PROVE  Pruned(q, r)
<1>1. ToSet(q) \subseteq Sudog
  BY SeqRange
<1>2. \A sg \in ToSet(q) : sg[1] \in Tasks
  BY <1>1 DEF Sudog
<1>3. \A sg \in ToSet(q) : won'[sg[1]] = 0 => Acquires(sg)
  BY <1>2 DEF Acquires
<1>4. /\ Popped(q) \in Seq(Sudog) /\ ToSet(Popped(q)) \subseteq ToSet(q)
      /\ Live(q) = {} <=> \A sg \in ToSet(q) : ~Acquires(sg)
      /\ \A sg \in ToSet(q) : Acquires(sg) /\ sg # FirstLive(q) => sg \in ToSet(Popped(q))
  BY PoppedFacts
<1>5. CASE r = q
  BY <1>5 DEF Pruned
<1>6. CASE r = <<>> /\ Live(q) = {}
  <2>1. r \in Seq(Sudog) /\ ToSet(r) = {}
    BY <1>6 DEF ToSet
  <2> QED
    BY <1>3, <1>4, <1>6, <2>1 DEF Pruned
<1>7. CASE r = Popped(q) /\ (Live(q) # {} => won'[FirstLive(q)[1]] # 0)
  <2>1. ASSUME NEW sg \in ToSet(q), won'[sg[1]] = 0 PROVE sg \in ToSet(Popped(q))
    BY <1>3, <1>4, <1>7, <2>1
  <2> QED
    BY <1>4, <1>7, <2>1 DEF Pruned
<1> QED
  BY <1>5, <1>6, <1>7

-----------------------------------------------------------------------------
(* Framing.                                                                *)

\* The mutexes and the claim of a task that a step leaves alone.
LEMMA TaskFrame ==
    ASSUME NEW u \in Tasks, Claim(u), Upwards(u), Typed,
           pc'[u] = pc[u], op'[u] = op[u], mine'[u] = mine[u],
           \/ won'[u] = won[u] /\ res'[u] = res[u]
           \/ pc[u] = "wait" /\ won'[u] \in DOMAIN Cases(u) /\ res'[u].case = won'[u],
           \A c \in Chans : closed[c] => closed'[c]
    PROVE  Claim(u)' /\ Upwards(u)'
<1>1. Cases(u)' = Cases(u) /\ Locks(u)' = Locks(u)
  BY DEF Cases, Locks
<1>2. Upwards(u)'
  BY <1>1 DEF Upwards
<1>3. 1 \in DOMAIN Cases(u) => Cases(u)[1].ch \in Chans
  BY CaseFacts
<1> QED
  BY <1>1, <1>2, <1>3 DEF Claim

\* The queues, when a step only prunes them and starts no wait.
LEMMA QueueFrame ==
    ASSUME Typed, QueueInv,
           \A c \in Chans, d \in Dirs : Pruned(Q(c, d), Q(c, d)'),
           \A u \in Tasks : pc[u] \in {"wait", "relock"} =>
              pc'[u] \in {"wait", "relock"} /\ op'[u] = op[u],
           \A u \in Tasks : pc'[u] = "wait" /\ won'[u] = 0 => pc[u] = "wait" /\ won[u] = 0
    PROVE  QueueInv' /\ \A c \in Chans, d \in Dirs : Waits(c, d)' \subseteq Waits(c, d)
<1>1. \A u \in Tasks : pc[u] \in {"wait", "relock"} => Cases(u)' = Cases(u)
  BY DEF Cases
<1>2. ASSUME NEW c \in Chans, NEW d \in Dirs, NEW sg \in ToSet(Q(c, d)') PROVE Owned(sg, c, d)'
  <2>1. sg \in ToSet(Q(c, d))
    BY DEF Pruned
  <2>2. Owned(sg, c, d) /\ sg[1] \in Tasks
    BY <2>1, QueueFacts DEF QueueInv
  <2> QED
    BY <1>1, <2>2 DEF Owned
<1>3. ASSUME NEW u \in Tasks, pc'[u] = "wait", won'[u] = 0, NEW i \in DOMAIN Cases(u)
      PROVE  /\ Cases(u)[i].dir \in Dirs
             /\ \A c, d : c = Cases(u)[i].ch /\ d = Cases(u)[i].dir => <<u, i>> \in ToSet(Q(c, d)')
  <2>1. pc[u] = "wait" /\ won[u] = 0
    BY <1>3
  <2>2. PICK c \in Chans : c = Cases(u)[i].ch
    BY CaseFacts
  <2>3. PICK d \in Dirs : d = Cases(u)[i].dir
    BY <2>1 DEF QueueInv, Enqueued
  <2>4. <<u, i>> \in ToSet(Q(c, d)) /\ Pruned(Q(c, d), Q(c, d)')
    BY <2>1, <2>2, <2>3 DEF QueueInv, Enqueued
  <2>5. <<u, i>> \in ToSet(Q(c, d)')
    BY <1>3, <2>4 DEF Pruned
  <2> QED
    BY <2>2, <2>3, <2>5
<1>4. ASSUME NEW u \in Tasks PROVE Enqueued(u)'
  <2> SUFFICES ASSUME pc'[u] = "wait", won'[u] = 0
               PROVE  (\A i \in DOMAIN Cases(u) :
                         /\ Cases(u)[i].dir \in Dirs
                         /\ <<u, i>> \in ToSet(Q(Cases(u)[i].ch, Cases(u)[i].dir)))'
    BY DEF Enqueued
  <2>1. Cases(u)' = Cases(u)
    BY <1>1
  <2> QED
    BY <1>3, <2>1 DEF Q
<1>5. \A c \in Chans, d \in Dirs : Waits(c, d)' \subseteq Waits(c, d)
  BY <1>1 DEF Waits
<1> QED
  BY <1>2, <1>4, <1>5 DEF QueueInv

\* NoMissedMatch, when no wait starts and no channel is closed.
LEMMA MatchFrame ==
    ASSUME NoMissedMatch, closed' = closed, NEW t \in Tasks,
           \A c \in Chans, d \in Dirs : Waits(c, d)' \subseteq Waits(c, d),
           \A u \in Tasks \ {t} : pc[u] = "close" => pc'[u] = "close" /\ op'[u] = op[u],
           pc[t] = "close" =>
              \/ pc'[t] = "close" /\ op'[t] = op[t]
              \/ \A d \in Dirs : Waits(Cases(t)[1].ch, d) = {},
           \A c \in Chans :
              /\ Waits(c, "recv")' # {} => buf'[c] = <<>>
              /\ Waits(c, "send")' # {} => ~HasRoom(c)'
    PROVE  NoMissedMatch'
<1> SUFFICES ASSUME NEW c \in Chans
             PROVE  /\ \A r \in Waits(c, "recv")', s \in Waits(c, "send")' : r = s
                    /\ closed'[c] /\ ~Closing(c)' => Waits(c, "recv")' \cup Waits(c, "send")' = {}
  BY DEF NoMissedMatch
<1>1. Waits(c, "recv")' \subseteq Waits(c, "recv") /\ Waits(c, "send")' \subseteq Waits(c, "send")
  BY DEF Dirs
<1>2. \A r \in Waits(c, "recv")', s \in Waits(c, "send")' : r = s
  BY <1>1 DEF NoMissedMatch
<1>3. ASSUME closed'[c], ~Closing(c)' PROVE Waits(c, "recv") \cup Waits(c, "send") = {}
  <2>1. CASE ~Closing(c)
    BY <1>3, <2>1 DEF NoMissedMatch
  <2>2. CASE Closing(c)
    <3>1. PICK v \in Tasks : pc[v] = "close" /\ Cases(v)[1].ch = c
      BY <2>2 DEF Closing
    <3>2. ~(pc'[v] = "close" /\ op'[v] = op[v])
      BY <1>3, <3>1 DEF Closing, Cases
    <3>3. v = t /\ \A d \in Dirs : Waits(c, d) = {}
      BY <3>1, <3>2
    <3> QED
      BY <3>3 DEF Dirs
  <2> QED
    BY <2>1, <2>2
<1> QED
  BY <1>1, <1>2, <1>3

\* A task finishes, or goes on closing, having at most claimed one waiter.
LEMMA ServedKeeps ==
    ASSUME ChanInv, Typed', Bounded', NEW t \in Tasks, pc[t] \in {"lock", "close"},
           pc'[t] \in {"close", "done"}, pc'[t] = "close" => pc[t] = "close",
           op' = op, closed' = closed, won'[t] = won[t],
           \A c \in Chans, d \in Dirs : Pruned(Q(c, d), Q(c, d)'),
           \A u \in Tasks \ {t} :
              /\ pc'[u] = pc[u] /\ mine'[u] = mine[u]
              /\ \/ won'[u] = won[u] /\ res'[u] = res[u]
                 \/ /\ pc[u] = "wait" /\ won[u] = 0 /\ won'[u] # 0
                    /\ won'[u] \in DOMAIN Cases(u) /\ res'[u].case = won'[u],
           Claim(t)', mine'[t] = {} \/ (pc'[t] = pc[t] /\ mine'[t] = mine[t]),
           pc[t] = "close" /\ pc'[t] = "done" => \A d \in Dirs : Waits(Cases(t)[1].ch, d) = {},
           \A c \in Chans :
              /\ Waits(c, "recv") # {} => buf'[c] = <<>>
              /\ Waits(c, "send") # {} => ~HasRoom(c)'
    PROVE  ChanInv'
<1>0. /\ Typed /\ QueueInv /\ NoMissedMatch
      /\ \A u \in Tasks : Claim(u) /\ Upwards(u)
  BY DEF ChanInv
<1>1. \A u \in Tasks : pc'[u] = "wait" /\ won'[u] = 0 => pc[u] = "wait" /\ won[u] = 0
  OBVIOUS
<1>2. QueueInv' /\ \A c \in Chans, d \in Dirs : Waits(c, d)' \subseteq Waits(c, d)
  BY <1>0, <1>1, QueueFrame
<1>3. NoMissedMatch'
  <2>1. \A c \in Chans : /\ Waits(c, "recv")' # {} => buf'[c] = <<>>
                         /\ Waits(c, "send")' # {} => ~HasRoom(c)'
    BY <1>2 DEF Dirs
  <2> QED
    BY <1>0, <1>2, <2>1, MatchFrame
<1>4. ASSUME NEW u \in Tasks \ {t} PROVE Claim(u)' /\ Upwards(u)'
  BY <1>0, TaskFrame
<1>5. Upwards(t)'
  <2>1. CASE mine'[t] = {}
    BY <2>1 DEF Upwards
  <2>2. CASE pc'[t] = pc[t] /\ mine'[t] = mine[t]
    <3>1. Locks(t)' = Locks(t)
      BY DEF Locks, Cases
    <3> QED
      BY <1>0, <2>2, <3>1 DEF Upwards
  <2> QED
    BY <2>1, <2>2
<1> QED
  BY <1>2, <1>3, <1>4, <1>5 DEF ChanInv

\* A step of one task that neither queues nor claims anything.
LEMMA QuietKeeps ==
    ASSUME ChanInv, Typed', NEW t \in Tasks, UNCHANGED <<buf, recvq, sendq, won, closed>>,
           \A u \in Tasks \ {t} : /\ pc'[u] = pc[u] /\ op'[u] = op[u]
                                   /\ mine'[u] = mine[u] /\ res'[u] = res[u],
           \/ pc'[t] = pc[t] /\ op'[t] = op[t]
           \/ pc[t] = "wait" /\ pc'[t] = "relock" /\ op'[t] = op[t]
           \/ pc[t] \in {"idle", "done"} /\ pc'[t] \in {"idle", "lock"},
           Claim(t)', Upwards(t)'
    PROVE  ChanInv'
<1>0. /\ Typed /\ QueueInv /\ NoMissedMatch /\ Bounded
      /\ \A u \in Tasks : Claim(u) /\ Upwards(u)
  BY DEF ChanInv
<1>1. \A c \in Chans, d \in Dirs : Pruned(Q(c, d), Q(c, d)')
  <2>1. ASSUME NEW c \in Chans, NEW d \in Dirs PROVE Q(c, d)' = Q(c, d) /\ Q(c, d) \in Seq(Sudog)
    BY <1>0, QueueFacts DEF Q
  <2> QED
    BY <2>1, PrunedCases
<1>2. QueueInv' /\ \A c \in Chans, d \in Dirs : Waits(c, d)' \subseteq Waits(c, d)
  <2>1. \A u \in Tasks : pc'[u] = "wait" /\ won'[u] = 0 => pc[u] = "wait" /\ won[u] = 0
    OBVIOUS
  <2>2. \A u \in Tasks : pc[u] \in {"wait", "relock"} =>
              pc'[u] \in {"wait", "relock"} /\ op'[u] = op[u]
    OBVIOUS
  <2> QED
    BY <1>0, <1>1, <2>1, <2>2, QueueFrame
<1>3. NoMissedMatch'
  <2>1. \A c \in Chans : /\ Waits(c, "recv")' # {} => buf'[c] = <<>>
                         /\ Waits(c, "send")' # {} => ~HasRoom(c)'
    BY <1>0, <1>2 DEF NoMissedMatch, HasRoom, Dirs
  <2> QED
    BY <1>0, <1>2, <2>1, MatchFrame
<1>4. ASSUME NEW u \in Tasks \ {t} PROVE Claim(u)' /\ Upwards(u)'
  BY <1>0, TaskFrame
<1>5. Bounded'
  BY <1>0 DEF Bounded
<1> QED
  BY <1>2, <1>3, <1>4, <1>5 DEF ChanInv

-----------------------------------------------------------------------------
(* Each action keeps the invariant: the steps that touch no queue.         *)

\* A call and a return.
LEMMA CallReturnKeep ==
    ASSUME ChanInv, NEW t \in Tasks, (\E o \in Ops : Call(t, o)) \/ Return(t)
    PROVE  ChanInv'
<1>0. Typed /\ Upwards(t)
  BY DEF ChanInv
<1>1. CASE \E o \in Ops : Call(t, o)
  <2>1. PICK o \in Ops : Call(t, o)
    BY <1>1
  <2>2. Typed'
    BY <1>0, <2>1 DEF Typed, Call, PCs
  <2>3. /\ pc[t] = "idle" /\ pc'[t] = "lock" /\ mine' = mine /\ mine[t] = {}
        /\ UNCHANGED <<buf, recvq, sendq, won, closed, res>>
        /\ \A u \in Tasks \ {t} : pc'[u] = pc[u] /\ op'[u] = op[u]
    BY <1>0, <2>1 DEF Typed, Call, Upwards
  <2>4. Claim(t)' /\ Upwards(t)'
    BY <2>3 DEF Claim, Upwards
  <2> QED
    BY <2>2, <2>3, <2>4, QuietKeeps
<1>2. CASE Return(t)
  <2>1. Typed'
    <3>1. NoOutcome \in Outcomes
      BY DEF NoOutcome, Outcome, Outcomes
    <3>2. res' \in [Tasks -> Outcomes]
      BY <1>0, <1>2, <3>1 DEF Typed, Return
    <3> QED
      BY <1>0, <1>2, <3>2 DEF Typed, Return, PCs
  <2>2. /\ pc[t] = "done" /\ pc'[t] = "idle" /\ mine' = mine /\ mine[t] = {}
        /\ UNCHANGED <<buf, recvq, sendq, won, closed>>
        /\ \A u \in Tasks \ {t} : pc'[u] = pc[u] /\ op'[u] = op[u] /\ res'[u] = res[u]
    BY <1>0, <1>2 DEF Typed, Return, Upwards
  <2>3. Claim(t)' /\ Upwards(t)'
    BY <2>2 DEF Claim, Upwards
  <2> QED
    BY <2>1, <2>2, <2>3, QuietKeeps
<1> QED
  BY <1>1, <1>2

\* The next mutex is above those held.
LEMMA LockNextKeeps ==
    ASSUME ChanInv, NEW t \in Tasks, LockNext(t)
    PROVE  ChanInv'
<1>0. Typed /\ Upwards(t) /\ Claim(t)
  BY DEF ChanInv
<1>1. Locks(t) \subseteq Chans /\ Locks(t) \subseteq Nat /\ Locks(t) \ mine[t] # {}
  BY <1>0, LocksFacts DEF Upwards, LockNext, HoldsAll
<1>2. NextLock(t) \in Locks(t) \ mine[t] /\ \A b \in Locks(t) \ mine[t] : NextLock(t) <= b
  <2>1. Locks(t) \ mine[t] \subseteq Nat
    BY <1>1
  <2> QED
    BY <1>1, <2>1, NatMin DEF NextLock
<1>3. PICK n \in Locks(t) \ mine[t] : n = NextLock(t)
  BY <1>2
<1>4. /\ mine' = [mine EXCEPT ![t] = @ \cup {n}] /\ pc[t] \in {"lock", "relock"}
      /\ UNCHANGED <<buf, closed, recvq, sendq, pc, op, old, won, res, dead>>
  BY <1>3 DEF LockNext
<1>5. mine'[t] = mine[t] \cup {n} /\ \A u \in Tasks \ {t} : mine'[u] = mine[u]
  BY <1>0, <1>4 DEF Typed
<1>6. Typed'
  <2>1. mine' \in [Tasks -> SUBSET Chans]
    BY <1>0, <1>1, <1>3, <1>4 DEF Typed
  <2> QED
    BY <1>0, <1>4, <2>1 DEF Typed
<1>7. Locks(t)' = Locks(t) /\ Cases(t)' = Cases(t)
  BY <1>4 DEF Locks, Cases
<1>8. Upwards(t)'
  <2>1. \A a \in mine[t] \cup {n}, b \in Locks(t) \ (mine[t] \cup {n}) : a < b
    <3>1. \A b \in Locks(t) \ mine[t] : b \in Nat /\ n \in Nat /\ n <= b
      BY <1>1, <1>2, <1>3
    <3> QED
      BY <1>0, <3>1 DEF Upwards
  <2> QED
    BY <1>0, <1>4, <1>5, <1>7, <2>1 DEF Upwards
<1>9. Claim(t)'
  BY <1>0, <1>4, <1>7 DEF Claim
<1> QED
  BY <1>4, <1>5, <1>6, <1>8, <1>9, QuietKeeps

\* A mutex is released, a claimed task runs again, or the process dies.
LEMMA OthersKeep ==
    ASSUME ChanInv, NEW t \in Tasks,
           (\E c \in Chans : Release(t, c)) \/ Resume(t) \/ Dies(t)
    PROVE  ChanInv'
<1>0. Typed /\ Upwards(t) /\ Claim(t)
  BY DEF ChanInv
<1>1. UNCHANGED <<buf, recvq, sendq, won, closed, res, op>>
  BY DEF Release, Resume, Dies
<1>2. Locks(t)' = Locks(t) /\ Cases(t)' = Cases(t)
  BY <1>1 DEF Locks, Cases
<1>3. CASE \E c \in Chans : Release(t, c)
  <2>1. PICK c \in Chans : Release(t, c)
    BY <1>3
  <2>2. Typed'
    BY <1>0, <2>1 DEF Typed, Release
  <2>3. Claim(t)' /\ Upwards(t)'
    BY <1>0, <1>2, <2>1 DEF Release, Claim, Upwards
  <2> QED
    BY <1>1, <2>1, <2>2, <2>3, QuietKeeps DEF Release
<1>4. CASE Resume(t)
  <2>1. Typed'
    BY <1>0, <1>4 DEF Typed, Resume, PCs
  <2>2. /\ pc[t] = "wait" /\ pc'[t] = "relock" /\ won[t] # 0 /\ mine' = mine
        /\ \A u \in Tasks \ {t} : pc'[u] = pc[u]
    BY <1>0, <1>4 DEF Typed, Resume
  <2>3. Claim(t)' /\ Upwards(t)'
    BY <1>0, <1>1, <1>2, <2>2 DEF Claim, Upwards
  <2> QED
    BY <1>1, <2>1, <2>2, <2>3, QuietKeeps
<1>5. CASE Dies(t)
  <2>1. Typed'
    BY <1>0, <1>5 DEF Typed, Dies
  <2>2. pc' = pc /\ mine'[t] = {} /\ \A u \in Tasks \ {t} : mine'[u] = mine[u]
    BY <1>0, <1>5 DEF Typed, Dies
  <2>3. Claim(t)' /\ Upwards(t)'
    BY <1>0, <1>1, <1>2, <2>2 DEF Claim, Upwards
  <2> QED
    BY <1>1, <2>1, <2>2, <2>3, QuietKeeps
<1> QED
  BY <1>3, <1>4, <1>5

\* A channel is closed; those who wait on it are now the closer's business.
LEMMA CloseKeeps ==
    ASSUME ChanInv, NEW t \in Tasks, pc[t] = "lock", DOMAIN Cases(t) # {}, Close(t)
    PROVE  ChanInv'
<1>0. /\ Typed /\ Bounded /\ QueueInv /\ NoMissedMatch
      /\ \A u \in Tasks : Claim(u) /\ Upwards(u)
  BY DEF ChanInv
<1>1. 1 \in DOMAIN Cases(t)
  BY <1>0, CaseFacts
<1>2. PICK k \in Chans : k = Cases(t)[1].ch
  BY <1>0, <1>1, CaseFacts
<1>3. CASE Dies(t)
  BY <1>3, OthersKeep
<1>4. CASE /\ closed' = [closed EXCEPT ![k] = TRUE] /\ pc' = [pc EXCEPT ![t] = "close"]
           /\ UNCHANGED <<buf, recvq, sendq, op, mine, old, won, res, dead>>
  <2>1. Typed' /\ Bounded'
    BY <1>0, <1>4 DEF Typed, Bounded, PCs
  <2>2. /\ pc'[t] = "close" /\ \A u \in Tasks \ {t} : pc'[u] = pc[u]
    BY <1>0, <1>4 DEF Typed
  <2>3. closed'[k] /\ \A c \in Chans \ {k} : closed'[c] = closed[c]
    BY <1>0, <1>4 DEF Typed
  <2>4. QueueInv' /\ \A c \in Chans, d \in Dirs : Waits(c, d)' \subseteq Waits(c, d)
    <3>1. \A c \in Chans, d \in Dirs : Pruned(Q(c, d), Q(c, d)')
      <4>1. ASSUME NEW c \in Chans, NEW d \in Dirs PROVE Q(c, d)' = Q(c, d) /\ Q(c, d) \in Seq(Sudog)
        BY <1>0, <1>4, QueueFacts DEF Q
      <4> QED
        BY <1>4, <4>1, PrunedCases
    <3> QED
      BY <1>0, <1>4, <2>2, <3>1, QueueFrame
  <2>5. NoMissedMatch'
    <3>1. ASSUME NEW c \in Chans
          PROVE  /\ Waits(c, "recv")' # {} => buf'[c] = <<>>
                 /\ Waits(c, "send")' # {} => ~HasRoom(c)'
                 /\ \A r \in Waits(c, "recv")', s \in Waits(c, "send")' : r = s
      BY <1>0, <1>4, <2>4 DEF NoMissedMatch, HasRoom, Dirs
    <3>2. Closing(k)'
      BY <1>2, <1>4, <2>2 DEF Closing, Cases
    <3>3. ASSUME NEW c \in Chans, closed'[c], ~Closing(c)'
          PROVE  Waits(c, "recv")' \cup Waits(c, "send")' = {}
      <4>1. c # k /\ closed[c]
        BY <2>3, <3>2, <3>3
      <4>2. ~Closing(c)
        BY <1>4, <2>2, <3>3 DEF Closing, Cases
      <4> QED
        BY <1>0, <2>4, <4>1, <4>2 DEF NoMissedMatch, Dirs
    <3> QED
      BY <3>1, <3>3 DEF NoMissedMatch
  <2>6. ASSUME NEW u \in Tasks \ {t} PROVE Claim(u)' /\ Upwards(u)'
    BY <1>0, <1>4, <2>2, <2>3, TaskFrame
  <2>7. Claim(t)' /\ Upwards(t)'
    <3>1. Locks(t)' = Locks(t) /\ Cases(t)' = Cases(t)
      BY <1>4 DEF Locks, Cases
    <3>2. Upwards(t)'
      BY <1>0, <1>4, <2>2, <3>1 DEF Upwards
    <3>3. Claim(t)'
      BY <1>1, <1>2, <2>2, <2>3, <3>1 DEF Claim, Close
    <3> QED
      BY <3>2, <3>3
  <2> QED
    BY <2>1, <2>4, <2>5, <2>6, <2>7 DEF ChanInv
<1> QED
  BY <1>2, <1>3, <1>4 DEF Close

-----------------------------------------------------------------------------
(* The steps that serve a case.                                            *)

\* The queues p are q after polls in vain: some without a live sudog emptied.
Drained(p, q) ==
    /\ p = [e \in Chans |-> p[e]]
    /\ \A e \in Chans : p[e] = q[e] \/ (p[e] = <<>> /\ Live(q[e]) = {})

\* The queues q of one direction, polled (p).
LEMMA PollPruned ==
    ASSUME NEW q \in [Chans -> Seq(Sudog)], NEW p, Drained(p, q),
           \A u \in Tasks : won'[u] = 0 => won[u] = 0
    PROVE  p \in [Chans -> Seq(Sudog)] /\ \A e \in Chans : Pruned(q[e], p[e])
<1>1. ASSUME NEW e \in Chans PROVE Pruned(q[e], p[e])
  <2>1. q[e] \in Seq(Sudog)
    OBVIOUS
  <2> QED
    BY <2>1, PrunedCases DEF Drained
<1>2. \A e \in Chans : p[e] \in Seq(Sudog)
  BY <1>1 DEF Pruned
<1>3. p \in [Chans -> Seq(Sudog)]
  BY <1>2 DEF Drained
<1> QED
  BY <1>1, <1>3

\* The same, with a live sudog of channel c popped and claimed (r).
LEMMA PopPruned ==
    ASSUME NEW q \in [Chans -> Seq(Sudog)], NEW p, Drained(p, q),
           \A u \in Tasks : won'[u] = 0 => won[u] = 0,
           NEW c \in Chans, NEW r, r = [p EXCEPT ![c] = Popped(p[c])],
           Live(q[c]) # {} => won'[FirstLive(q[c])[1]] # 0
    PROVE  r \in [Chans -> Seq(Sudog)] /\ \A e \in Chans : Pruned(q[e], r[e])
<1>1. \A e \in Chans : Pruned(q[e], p[e])
  BY PollPruned
<1>2. Pruned(q[c], Popped(p[c]))
  <2>1. q[c] \in Seq(Sudog)
    OBVIOUS
  <2>2. Live(<<>>) = {} /\ Popped(<<>>) = <<>>
    BY DEF Live, Popped
  <2>3. \/ Popped(p[c]) = Popped(q[c])
        \/ Popped(p[c]) = <<>> /\ Live(q[c]) = {}
    BY <2>2 DEF Drained
  <2> QED
    BY <2>1, <2>3, PrunedCases
<1>3. r[c] = Popped(p[c]) /\ \A e \in Chans \ {c} : r[e] = p[e]
  BY DEF Drained
<1>4. \A e \in Chans : Pruned(q[e], r[e])
  BY <1>1, <1>2, <1>3
<1>5. \A e \in Chans : r[e] \in Seq(Sudog)
  BY <1>4 DEF Pruned
<1>6. r = [e \in Chans |-> r[e]]
  BY DEF Drained
<1> QED
  BY <1>4, <1>5, <1>6

\* Polling in vain drains.
LEMMA PolledDrained ==
    ASSUME Typed, NEW t \in Tasks, NEW P, P \subseteq DOMAIN Cases(t),
           \A j \in P : ~Ready(Cases(t)[j])
    PROVE  /\ Drained(Polled(recvq, t, P, "send"), recvq)
           /\ Drained(Polled(sendq, t, P, "recv"), sendq)
<1>1. PICK rq : rq = Polled(recvq, t, P, "send")
  OBVIOUS
<1>2. PICK sq : sq = Polled(sendq, t, P, "recv")
  OBVIOUS
<1>3. rq = [e \in Chans |-> rq[e]] /\ sq = [e \in Chans |-> sq[e]]
  BY <1>1, <1>2 DEF Polled
<1>4. ASSUME NEW e \in Chans
      PROVE  /\ rq[e] = recvq[e] \/ (rq[e] = <<>> /\ Live(recvq[e]) = {})
             /\ sq[e] = sendq[e] \/ (sq[e] = <<>> /\ Live(sendq[e]) = {})
  <2>1. Q(e, "recv") = recvq[e] /\ Q(e, "send") = sendq[e]
    BY DEF Q
  <2>2. /\ rq[e] = Q(e, "recv") \/ (rq[e] = <<>> /\ Live(Q(e, "recv")) = {})
        /\ sq[e] = Q(e, "send") \/ (sq[e] = <<>> /\ Live(Q(e, "send")) = {})
    BY <1>1, <1>2, PolledFacts, Zenon
  <2> QED
    BY <2>1, <2>2, Zenon
<1>5. Drained(rq, recvq) /\ Drained(sq, sendq)
  BY <1>3, <1>4 DEF Drained
<1> QED
  BY <1>1, <1>2, <1>5, Zenon

\* Both queues pruned, said of Q.
LEMMA BothPruned ==
    ASSUME \A e \in Chans : Pruned(recvq[e], recvq'[e]) /\ Pruned(sendq[e], sendq'[e])
    PROVE  \A c \in Chans, d \in Dirs : Pruned(Q(c, d), Q(c, d)')
<1> TAKE c \in Chans, d \in Dirs
<1>1. CASE d = "recv"
  BY <1>1 DEF Q
<1>2. CASE d = "send"
  BY <1>2 DEF Q
<1> QED
  BY <1>1, <1>2 DEF Dirs

\* An outcome as the code writes it.
LEMMA OutcomeTyped ==
    ASSUME NEW i \in Nat, NEW v \in Values \cup {0}, NEW b \in BOOLEAN
    PROVE  /\ Outcome(i, v, b) \in Outcomes
           /\ Outcome(i, v, b).case = i /\ Outcome(i, v, b).ok = b /\ Outcome(i, v, b).val = v
BY DEF Outcome, Outcomes

\* A ring that takes a value at its end while one leaves at its head.
LEMMA RotateFacts ==
    ASSUME NEW q \in Seq(Values), NEW x \in Values
    PROVE  /\ Append(q, x) \in Seq(Values) /\ Len(Append(q, x)) = Len(q) + 1
           /\ Tail(Append(q, x)) \in Seq(Values) /\ Len(Tail(Append(q, x))) = Len(q)
           /\ Head(Append(q, x)) \in Values
           /\ q = <<>> => Tail(Append(q, x)) = <<>>
           /\ q # <<>> => /\ Tail(q) \in Seq(Values) /\ Head(q) \in Values
                          /\ Len(Tail(q)) = Len(q) - 1 /\ Len(q) \in Nat \ {0}
<1>1. Append(q, x) \in Seq(Values) /\ Len(Append(q, x)) = Len(q) + 1 /\ Append(q, x) # <<>> /\ Len(q) \in Nat
  OBVIOUS
<1>2. /\ Tail(Append(q, x)) \in Seq(Values) /\ Head(Append(q, x)) \in Values
      /\ Len(Tail(Append(q, x))) = Len(Append(q, x)) - 1
  BY <1>1, HeadTailProperties
<1>3. Len(Tail(Append(q, x))) = Len(q)
  BY <1>1, <1>2
<1>4. ASSUME q = <<>> PROVE Tail(Append(q, x)) = <<>>
  <2>1. Len(Tail(Append(q, x))) = 0
    BY <1>3, <1>4
  <2> QED
    BY <1>2, <2>1, EmptySeq
<1>5. ASSUME q # <<>>
      PROVE  /\ Tail(q) \in Seq(Values) /\ Head(q) \in Values
             /\ Len(Tail(q)) = Len(q) - 1 /\ Len(q) \in Nat \ {0}
  BY <1>5, HeadTailProperties, EmptySeq
<1> QED
  BY <1>1, <1>2, <1>3, <1>4, <1>5

\* An operation ends, claiming nobody, with outcome o.
LEMMA EndsKeeps ==
    ASSUME ChanInv, NEW t \in Tasks, pc[t] \in {"lock", "close"},
           NEW i \in DOMAIN Cases(t) \cup {0}, NEW v \in Values \cup {0}, NEW b \in BOOLEAN,
           i # 0 /\ Cases(t)[i].dir = "send" => b,
           Ends(t, Outcome(i, v, b)), UNCHANGED <<closed, op, old, won, dead>>,
           recvq' \in [Chans -> Seq(Sudog)], \A e \in Chans : Pruned(recvq[e], recvq'[e]),
           sendq' \in [Chans -> Seq(Sudog)], \A e \in Chans : Pruned(sendq[e], sendq'[e]),
           buf' \in [Chans -> Seq(Values)], Bounded',
           pc[t] = "close" => \A d \in Dirs : Waits(Cases(t)[1].ch, d) = {},
           \A e \in Chans : /\ Waits(e, "recv") # {} => buf'[e] = <<>>
                            /\ Waits(e, "send") # {} => ~HasRoom(e)'
    PROVE  ChanInv'
<1>0. Typed
  BY DEF ChanInv
<1>1. i \in Nat
  BY <1>0, LocksFacts
<1>2. PICK o \in Outcomes : o = Outcome(i, v, b) /\ o.case = i /\ o.ok = b
  BY <1>1, OutcomeTyped
<1>3. /\ pc'[t] = "done" /\ mine'[t] = {} /\ res'[t] = o
      /\ \A w \in Tasks \ {t} : pc'[w] = pc[w] /\ mine'[w] = mine[w] /\ res'[w] = res[w]
  BY <1>0, <1>2 DEF Typed, Ends
<1>4. Typed'
  <2>1. res' \in [Tasks -> Outcomes]
    BY <1>0, <1>2 DEF Typed, Ends
  <2> QED
    BY <1>0, <2>1 DEF Typed, PCs, Ends
<1>5. Claim(t)'
  <2>1. Cases(t)' = Cases(t)
    BY DEF Cases
  <2> QED
    BY <1>2, <1>3, <2>1 DEF Claim
<1>6. \A e \in Chans, d \in Dirs : Pruned(Q(e, d), Q(e, d)')
  BY BothPruned
<1> QED
  BY <1>3, <1>4, <1>5, <1>6, ServedKeeps

\* A send serves a waiting receiver or fills a slot.
LEMMA SendKeeps ==
    ASSUME ChanInv, NEW t \in Tasks, pc[t] = "lock", NEW i \in DOMAIN Cases(t),
           NEW P, P \subseteq DOMAIN Cases(t), \A j \in P : ~Ready(Cases(t)[j]), Send(t, i, P)
    PROVE  ChanInv'
<1>0. /\ Typed /\ Bounded /\ QueueInv /\ NoMissedMatch
      /\ \A u \in Tasks : Claim(u) /\ Upwards(u)
  BY DEF ChanInv
<1>1. PICK c \in Chans, v \in Values : c = Cases(t)[i].ch /\ v = Cases(t)[i].val
  BY <1>0, CaseFacts
<1>2. PICK rq, sq : rq = Polled(recvq, t, P, "send") /\ sq = Polled(sendq, t, P, "recv")
  OBVIOUS
<1>3. Drained(rq, recvq) /\ Drained(sq, sendq)
  BY <1>0, <1>2, PolledDrained, Zenon
<1>4. Q(c, "recv") = recvq[c] /\ "recv" \in Dirs /\ Live(<<>>) = {}
  BY DEF Q, Dirs, Live
<1>5. CASE Dies(t)
  BY <1>5, OthersKeep
<1>6. CASE /\ Live(rq[c]) # {}
           /\ EndsWaking(t, Outcome(i, 0, TRUE), FirstLive(rq[c]), Outcome(FirstLive(rq[c])[2], v, TRUE))
           /\ recvq' = [rq EXCEPT ![c] = Popped(@)] /\ sendq' = sq
           /\ UNCHANGED <<buf, closed, op, old, dead>>
  <2>1. rq[c] = recvq[c]
    BY <1>3, <1>4, <1>6 DEF Drained
  <2>2. PICK u \in Tasks, j \in Nat \ {0} :
           /\ FirstLive(recvq[c]) = <<u, j>>
           /\ pc[u] = "wait" /\ won[u] = 0 /\ j \in DOMAIN Cases(u)
    <3>1. Live(Q(c, "recv")) # {}
      BY <1>4, <1>6, <2>1
    <3>2. \E u \in Tasks, j \in Nat \ {0} :
             /\ FirstLive(Q(c, "recv")) = <<u, j>> /\ <<u, j>> \in ToSet(Q(c, "recv"))
             /\ pc[u] = "wait" /\ won[u] = 0 /\ j \in DOMAIN Cases(u)
             /\ Cases(u)[j].ch = c /\ Cases(u)[j].dir = "recv"
      BY <1>4, <3>1, LiveWaits, Zenon
    <3> QED
      BY <1>4, <3>2, Zenon
  <2>3. /\ u # t /\ pc' = [pc EXCEPT ![t] = "done"] /\ mine' = [mine EXCEPT ![t] = {}]
        /\ res' = [res EXCEPT ![t] = Outcome(i, 0, TRUE), ![u] = Outcome(j, v, TRUE)]
        /\ won' = [won EXCEPT ![u] = j]
    BY <1>6, <2>1, <2>2 DEF EndsWaking
  <2>4. /\ pc'[t] = "done" /\ mine'[t] = {} /\ won'[u] = j /\ won'[t] = won[t]
        /\ res'[t] = Outcome(i, 0, TRUE) /\ res'[u] = Outcome(j, v, TRUE)
        /\ \A w \in Tasks \ {t} : pc'[w] = pc[w] /\ mine'[w] = mine[w]
        /\ \A w \in Tasks \ {t, u} : won'[w] = won[w] /\ res'[w] = res[w]
    BY <1>0, <2>3 DEF Typed
  <2>5. \A w \in Tasks : won'[w] = 0 => won[w] = 0
    BY <2>2, <2>4
  <2>6. recvq' \in [Chans -> Seq(Sudog)] /\ \A e \in Chans : Pruned(recvq[e], recvq'[e])
    <3>1. recvq \in [Chans -> Seq(Sudog)] /\ won'[FirstLive(recvq[c])[1]] # 0
      BY <1>0, <2>2, <2>4 DEF Typed
    <3>2. recvq' = [rq EXCEPT ![c] = Popped(rq[c])]
      BY <1>6
    <3> QED
      BY <1>3, <2>5, <3>1, <3>2, PopPruned
  <2>7. sendq' \in [Chans -> Seq(Sudog)] /\ \A e \in Chans : Pruned(sendq[e], sendq'[e])
    <3>1. sendq \in [Chans -> Seq(Sudog)]
      BY <1>0 DEF Typed
    <3> QED
      BY <1>3, <1>6, <2>5, <3>1, PollPruned
  <2>8. /\ Outcome(i, 0, TRUE) \in Outcomes /\ Outcome(j, v, TRUE) \in Outcomes
        /\ res'[t].case = i /\ res'[t].ok /\ res'[u].case = j
    <3>1. i \in Nat /\ j \in Nat /\ v \in Values \cup {0} /\ 0 \in Values \cup {0} /\ TRUE \in BOOLEAN
      BY <1>0, CaseFacts
    <3>2. /\ Outcome(i, 0, TRUE) \in Outcomes /\ Outcome(j, v, TRUE) \in Outcomes
          /\ Outcome(i, 0, TRUE).case = i /\ Outcome(i, 0, TRUE).ok = TRUE /\ Outcome(j, v, TRUE).case = j
      BY <3>1, OutcomeTyped, Zenon
    <3> QED
      BY <2>4, <3>2
  <2>9. Typed' /\ Bounded'
    <3>1. res' \in [Tasks -> Outcomes]
      BY <1>0, <2>3, <2>8 DEF Typed
    <3> QED
      BY <1>0, <1>6, <2>3, <2>6, <2>7, <3>1 DEF Typed, Bounded, PCs
  <2>10. Claim(t)'
    <3>1. Cases(t)' = Cases(t)
      BY <1>6 DEF Cases
    <3> QED
      BY <2>4, <2>8, <3>1 DEF Claim
  <2>11. \A e \in Chans : /\ Waits(e, "recv") # {} => buf'[e] = <<>>
                          /\ Waits(e, "send") # {} => ~HasRoom(e)'
    BY <1>0, <1>6 DEF NoMissedMatch, HasRoom
  <2>12. \A e \in Chans, d \in Dirs : Pruned(Q(e, d), Q(e, d)')
    BY <2>6, <2>7, BothPruned
  <2>13. \A w \in Tasks \ {t} :
            \/ won'[w] = won[w] /\ res'[w] = res[w]
            \/ /\ pc[w] = "wait" /\ won[w] = 0 /\ won'[w] # 0
               /\ won'[w] \in DOMAIN Cases(w) /\ res'[w].case = won'[w]
    BY <2>2, <2>4, <2>8
  <2> QED
    BY <1>6, <2>4, <2>9, <2>10, <2>11, <2>12, <2>13, ServedKeeps
<1>7. CASE /\ Live(rq[c]) = {} /\ HasRoom(c) /\ buf' = [buf EXCEPT ![c] = Append(@, v)]
           /\ Ends(t, Outcome(i, 0, TRUE))
           /\ recvq' = [rq EXCEPT ![c] = <<>>] /\ sendq' = sq
           /\ UNCHANGED <<closed, op, old, won, dead>>
  <2>1. Live(recvq[c]) = {}
    BY <1>3, <1>7 DEF Drained
  <2>2. Waits(c, "recv") = {} /\ Waits(c, "send") = {}
    BY <1>0, <1>4, <1>7, <2>1, LiveWaits DEF NoMissedMatch
  <2>3. recvq' \in [Chans -> Seq(Sudog)] /\ \A e \in Chans : Pruned(recvq[e], recvq'[e])
    <3>1. recvq \in [Chans -> Seq(Sudog)]
      BY <1>0 DEF Typed
    <3>2. recvq' = [rq EXCEPT ![c] = Popped(rq[c])]
      BY <1>7 DEF Popped
    <3>3. \A w \in Tasks : won'[w] = 0 => won[w] = 0
      BY <1>7
    <3> QED
      BY <1>3, <2>1, <3>1, <3>2, <3>3, PopPruned
  <2>4. sendq' \in [Chans -> Seq(Sudog)] /\ \A e \in Chans : Pruned(sendq[e], sendq'[e])
    <3>1. sendq \in [Chans -> Seq(Sudog)]
      BY <1>0 DEF Typed
    <3> QED
      BY <1>3, <1>7, <3>1, PollPruned
  <2>5. Append(buf[c], v) \in Seq(Values) /\ Len(Append(buf[c], v)) = Len(buf[c]) + 1 /\ Len(buf[c]) \in Nat
    <3>1. buf[c] \in Seq(Values)
      BY <1>0 DEF Typed
    <3> QED
      BY <3>1, RotateFacts
  <2>6. buf' \in [Chans -> Seq(Values)]
    BY <1>0, <1>7, <2>5 DEF Typed
  <2>7. buf'[c] = Append(buf[c], v) /\ \A e \in Chans \ {c} : buf'[e] = buf[e]
    BY <1>0, <1>7 DEF Typed
  <2>8. Bounded'
    <3>1. Len(buf[c]) < Cap[c] /\ Cap[c] \in Nat
      BY <1>7, ChanAssumption DEF HasRoom
    <3>2. Len(buf[c]) + 1 <= Cap[c]
      BY <2>5, <3>1
    <3> QED
      BY <1>0, <2>5, <2>7, <3>2 DEF Bounded
  <2>9. \A e \in Chans : /\ Waits(e, "recv") # {} => buf'[e] = <<>>
                         /\ Waits(e, "send") # {} => ~HasRoom(e)'
    BY <1>0, <2>2, <2>7 DEF NoMissedMatch, HasRoom
  <2> QED
    BY <1>7, <2>3, <2>4, <2>6, <2>8, <2>9, EndsKeeps
<1> QED
  BY <1>1, <1>2, <1>5, <1>6, <1>7 DEF Send

\* A receive serves a waiting sender, takes a buffered value, or meets the
\* end of the channel.
LEMMA RecvKeeps ==
    ASSUME ChanInv, NEW t \in Tasks, pc[t] = "lock", NEW i \in DOMAIN Cases(t),
           NEW P, P \subseteq DOMAIN Cases(t), \A j \in P : ~Ready(Cases(t)[j]), Recv(t, i, P)
    PROVE  ChanInv'
<1>0. /\ Typed /\ Bounded /\ QueueInv /\ NoMissedMatch
      /\ \A u \in Tasks : Claim(u) /\ Upwards(u)
  BY DEF ChanInv
<1>1. PICK c \in Chans : c = Cases(t)[i].ch /\ Cases(t)[i].dir = "recv"
  BY <1>0, CaseFacts DEF Recv
<1>2. PICK rq, sq : rq = Polled(recvq, t, P, "send") /\ sq = Polled(sendq, t, P, "recv")
  OBVIOUS
<1>3. Drained(rq, recvq) /\ Drained(sq, sendq)
  BY <1>0, <1>2, PolledDrained, Zenon
<1>4. Q(c, "send") = sendq[c] /\ "send" \in Dirs /\ Live(<<>>) = {}
  BY DEF Q, Dirs, Live
<1>5. PICK s : s = FirstLive(sq[c])
  OBVIOUS
<1>6. /\ sendq' = [sq EXCEPT ![c] = Popped(sq[c])] /\ recvq' = rq
      /\ UNCHANGED <<closed, op, old, dead>>
  BY <1>1, <1>2 DEF Recv
<1>7. /\ recvq \in [Chans -> Seq(Sudog)] /\ sendq \in [Chans -> Seq(Sudog)]
      /\ buf[c] \in Seq(Values)
  BY <1>0 DEF Typed
<1>8. CASE Live(sq[c]) # {} /\ RecvMeeting(t, i, c, s)
  <2>1. sq[c] = sendq[c]
    BY <1>3, <1>4, <1>8 DEF Drained
  <2>2. PICK u \in Tasks, j \in Nat \ {0} :
           /\ s = <<u, j>>
           /\ pc[u] = "wait" /\ won[u] = 0 /\ j \in DOMAIN Cases(u)
           /\ Cases(u)[j].ch = c /\ Cases(u)[j].dir = "send"
    <3>1. Live(Q(c, "send")) # {}
      BY <1>4, <1>8, <2>1
    <3>2. \E u \in Tasks, j \in Nat \ {0} :
             /\ FirstLive(Q(c, "send")) = <<u, j>> /\ <<u, j>> \in ToSet(Q(c, "send"))
             /\ pc[u] = "wait" /\ won[u] = 0 /\ j \in DOMAIN Cases(u)
             /\ Cases(u)[j].ch = c /\ Cases(u)[j].dir = "send"
      BY <1>4, <3>1, LiveWaits, Zenon
    <3>3. s = FirstLive(Q(c, "send"))
      BY <1>4, <1>5, <2>1
    <3> QED
      BY <3>2, <3>3, Zenon
  <2>3. PICK x \in Values : x = Cases(u)[j].val
    BY <1>0, <2>2, CaseFacts
  <2>4. /\ Tail(Append(buf[c], x)) \in Seq(Values) /\ Len(Tail(Append(buf[c], x))) = Len(buf[c])
        /\ Head(Append(buf[c], x)) \in Values
        /\ buf[c] = <<>> => Tail(Append(buf[c], x)) = <<>>
    <3>1. PICK q \in Seq(Values) : q = buf[c]
      BY <1>7
    <3>2. /\ Tail(Append(q, x)) \in Seq(Values) /\ Len(Tail(Append(q, x))) = Len(q)
          /\ Head(Append(q, x)) \in Values
          /\ q = <<>> => Tail(Append(q, x)) = <<>>
      BY RotateFacts
    <3> QED
      BY <3>1, <3>2
  <2>5. PICK h \in Values : h = Head(Append(buf[c], x))
    BY <2>4
  <2>6. /\ u # t /\ pc' = [pc EXCEPT ![t] = "done"] /\ mine' = [mine EXCEPT ![t] = {}]
        /\ res' = [res EXCEPT ![t] = Outcome(i, h, TRUE), ![u] = Outcome(j, 0, TRUE)]
        /\ won' = [won EXCEPT ![u] = j]
        /\ buf' = [buf EXCEPT ![c] = Tail(Append(buf[c], x))]
    BY <1>8, <2>2, <2>3, <2>5 DEF RecvMeeting, EndsWaking
  <2>7. /\ pc'[t] = "done" /\ mine'[t] = {} /\ won'[u] = j /\ won'[t] = won[t]
        /\ res'[t] = Outcome(i, h, TRUE) /\ res'[u] = Outcome(j, 0, TRUE)
        /\ \A w \in Tasks \ {t} : pc'[w] = pc[w] /\ mine'[w] = mine[w]
        /\ \A w \in Tasks \ {t, u} : won'[w] = won[w] /\ res'[w] = res[w]
    BY <1>0, <2>6 DEF Typed
  <2>8. \A w \in Tasks : won'[w] = 0 => won[w] = 0
    BY <2>2, <2>7
  <2>9. sendq' \in [Chans -> Seq(Sudog)] /\ \A e \in Chans : Pruned(sendq[e], sendq'[e])
    <3>1. won'[FirstLive(sendq[c])[1]] # 0
      BY <1>5, <2>1, <2>2, <2>7
    <3> QED
      BY <1>3, <1>6, <1>7, <2>8, <3>1, PopPruned
  <2>10. recvq' \in [Chans -> Seq(Sudog)] /\ \A e \in Chans : Pruned(recvq[e], recvq'[e])
    BY <1>3, <1>6, <1>7, <2>8, PollPruned
  <2>11. /\ Outcome(i, h, TRUE) \in Outcomes /\ Outcome(j, 0, TRUE) \in Outcomes
         /\ res'[t].case = i /\ res'[t].ok /\ res'[u].case = j
    <3>1. i \in Nat /\ j \in Nat /\ h \in Values \cup {0} /\ 0 \in Values \cup {0} /\ TRUE \in BOOLEAN
      BY <1>0, CaseFacts
    <3>2. /\ Outcome(i, h, TRUE) \in Outcomes /\ Outcome(j, 0, TRUE) \in Outcomes
          /\ Outcome(i, h, TRUE).case = i /\ Outcome(i, h, TRUE).ok = TRUE /\ Outcome(j, 0, TRUE).case = j
      BY <3>1, OutcomeTyped, Zenon
    <3> QED
      BY <2>7, <3>2
  <2>12. buf'[c] = Tail(Append(buf[c], x)) /\ \A e \in Chans \ {c} : buf'[e] = buf[e]
    BY <1>0, <2>6 DEF Typed
  <2>13. Typed' /\ Bounded'
    <3>1. res' \in [Tasks -> Outcomes]
      BY <1>0, <2>6, <2>11 DEF Typed
    <3>2. buf' \in [Chans -> Seq(Values)]
      BY <1>0, <2>6, <2>4 DEF Typed
    <3>3. Bounded'
      BY <1>0, <2>4, <2>12 DEF Bounded
    <3> QED
      BY <1>0, <1>6, <2>6, <2>9, <2>10, <3>1, <3>2, <3>3 DEF Typed, PCs
  <2>14. Claim(t)'
    <3>1. Cases(t)' = Cases(t)
      BY <1>6 DEF Cases
    <3> QED
      BY <2>7, <2>11, <3>1 DEF Claim
  <2>15. \A e \in Chans : /\ Waits(e, "recv") # {} => buf'[e] = <<>>
                          /\ Waits(e, "send") # {} => ~HasRoom(e)'
    BY <1>0, <2>4, <2>12 DEF NoMissedMatch, HasRoom
  <2>16. \A e \in Chans, d \in Dirs : Pruned(Q(e, d), Q(e, d)')
    BY <2>9, <2>10, BothPruned
  <2>17. \A w \in Tasks \ {t} :
            \/ won'[w] = won[w] /\ res'[w] = res[w]
            \/ /\ pc[w] = "wait" /\ won[w] = 0 /\ won'[w] # 0
               /\ won'[w] \in DOMAIN Cases(w) /\ res'[w].case = won'[w]
    BY <2>2, <2>7, <2>11
  <2> QED
    BY <1>6, <2>7, <2>13, <2>14, <2>15, <2>16, <2>17, ServedKeeps
<1>9. ASSUME Live(sq[c]) = {}, won' = won
      PROVE  /\ Waits(c, "send") = {}
             /\ recvq' \in [Chans -> Seq(Sudog)] /\ \A e \in Chans : Pruned(recvq[e], recvq'[e])
             /\ sendq' \in [Chans -> Seq(Sudog)] /\ \A e \in Chans : Pruned(sendq[e], sendq'[e])
  <2>1. Live(sendq[c]) = {} /\ \A w \in Tasks : won'[w] = 0 => won[w] = 0
    BY <1>3, <1>9 DEF Drained
  <2>2. Waits(c, "send") = {}
    <3>1. Live(Q(c, "send")) = {}
      BY <1>4, <2>1
    <3>2. Live(Q(c, "send")) = {} <=> Waits(c, "send") = {}
      BY <1>4, LiveWaits
    <3> QED
      BY <3>1, <3>2
  <2>3. recvq' \in [Chans -> Seq(Sudog)] /\ \A e \in Chans : Pruned(recvq[e], recvq'[e])
    BY <1>3, <1>6, <1>7, <2>1, PollPruned
  <2>4. sendq' \in [Chans -> Seq(Sudog)] /\ \A e \in Chans : Pruned(sendq[e], sendq'[e])
    BY <1>3, <1>6, <1>7, <2>1, PopPruned
  <2> QED
    BY <2>2, <2>3, <2>4
<1>10. CASE /\ Live(sq[c]) = {} /\ buf[c] # <<>> /\ buf' = [buf EXCEPT ![c] = Tail(@)]
            /\ Ends(t, Outcome(i, Head(buf[c]), TRUE)) /\ UNCHANGED won
  <2>1. /\ Tail(buf[c]) \in Seq(Values) /\ Head(buf[c]) \in Values
        /\ Len(Tail(buf[c])) = Len(buf[c]) - 1 /\ Len(buf[c]) \in Nat \ {0}
    <3>1. PICK q \in Seq(Values) : q = buf[c]
      BY <1>7
    <3>2. q # <<>>
      BY <1>10, <3>1
    <3> QED
      BY <3>1, <3>2, HeadTailProperties, EmptySeq
  <2>2. Waits(c, "recv") = {} /\ Waits(c, "send") = {}
    BY <1>0, <1>9, <1>10 DEF NoMissedMatch
  <2>3. buf'[c] = Tail(buf[c]) /\ (\A e \in Chans \ {c} : buf'[e] = buf[e]) /\ buf' \in [Chans -> Seq(Values)]
    BY <1>0, <1>10, <2>1 DEF Typed
  <2>4. Bounded'
    <3>1. Len(buf[c]) <= Cap[c] /\ Cap[c] \in Nat
      BY <1>0, ChanAssumption DEF Bounded
    <3>2. Len(Tail(buf[c])) <= Cap[c]
      BY <2>1, <3>1
    <3> QED
      BY <1>0, <2>3, <3>2 DEF Bounded
  <2>5. \A e \in Chans : /\ Waits(e, "recv") # {} => buf'[e] = <<>>
                         /\ Waits(e, "send") # {} => ~HasRoom(e)'
    BY <1>0, <2>2, <2>3 DEF NoMissedMatch, HasRoom
  <2> QED
    BY <1>1, <1>6, <1>9, <1>10, <2>1, <2>3, <2>4, <2>5, EndsKeeps
<1>11. CASE /\ Live(sq[c]) = {} /\ Ends(t, Outcome(i, 0, FALSE)) /\ UNCHANGED <<buf, won>>
  <2>1. /\ buf' \in [Chans -> Seq(Values)] /\ Bounded'
        /\ \A e \in Chans : /\ Waits(e, "recv") # {} => buf'[e] = <<>>
                            /\ Waits(e, "send") # {} => ~HasRoom(e)'
    BY <1>0, <1>11 DEF Typed, Bounded, NoMissedMatch, HasRoom
  <2> QED
    BY <1>1, <1>6, <1>9, <1>11, <2>1, EndsKeeps
<1> QED
  <2>1. \/ Live(sq[c]) # {} /\ RecvMeeting(t, i, c, s)
        \/ /\ Live(sq[c]) = {} /\ buf[c] # <<>> /\ buf' = [buf EXCEPT ![c] = Tail(@)]
           /\ Ends(t, Outcome(i, Head(buf[c]), TRUE)) /\ UNCHANGED won
        \/ Live(sq[c]) = {} /\ Ends(t, Outcome(i, 0, FALSE)) /\ UNCHANGED <<buf, won>>
    BY <1>1, <1>2, <1>5 DEF Recv
  <2> QED
    BY <1>8, <1>10, <1>11, <2>1

\* The default of a select none of whose cases is ready.
LEMMA DefaultKeeps ==
    ASSUME ChanInv, NEW t \in Tasks, pc[t] = "lock", Default(t)
    PROVE  ChanInv'
<1>0. Typed /\ Bounded /\ NoMissedMatch
  BY DEF ChanInv
<1>1. \A j \in DOMAIN Cases(t) : ~Ready(Cases(t)[j])
  BY DEF Default, NoneReady, ReadyCases
<1>2. Drained(recvq', recvq) /\ Drained(sendq', sendq)
  <2>1. recvq' = Polled(recvq, t, DOMAIN Cases(t), "send") /\ sendq' = Polled(sendq, t, DOMAIN Cases(t), "recv")
    BY DEF Default
  <2>2. PICK P : P = DOMAIN Cases(t)
    OBVIOUS
  <2>3. P \subseteq DOMAIN Cases(t) /\ \A j \in P : ~Ready(Cases(t)[j])
    BY <1>1, <2>2
  <2>4. Drained(Polled(recvq, t, P, "send"), recvq) /\ Drained(Polled(sendq, t, P, "recv"), sendq)
    BY <1>0, <2>3, PolledDrained, Zenon
  <2> QED
    BY <2>1, <2>2, <2>4, Zenon
<1>3. /\ Ends(t, Outcome(0, 0, FALSE)) /\ UNCHANGED <<buf, closed, op, old, won, dead>>
      /\ \A w \in Tasks : won'[w] = 0 => won[w] = 0
  BY DEF Default, NoOutcome
<1>4. /\ recvq' \in [Chans -> Seq(Sudog)] /\ \A e \in Chans : Pruned(recvq[e], recvq'[e])
      /\ sendq' \in [Chans -> Seq(Sudog)] /\ \A e \in Chans : Pruned(sendq[e], sendq'[e])
  <2>1. recvq \in [Chans -> Seq(Sudog)] /\ sendq \in [Chans -> Seq(Sudog)]
    BY <1>0 DEF Typed
  <2> QED
    BY <1>2, <1>3, <2>1, PollPruned
<1>5. /\ buf' \in [Chans -> Seq(Values)] /\ Bounded'
      /\ \A e \in Chans : /\ Waits(e, "recv") # {} => buf'[e] = <<>>
                          /\ Waits(e, "send") # {} => ~HasRoom(e)'
  BY <1>0, <1>3 DEF Typed, Bounded, NoMissedMatch, HasRoom
<1>6. 0 \in DOMAIN Cases(t) \cup {0} /\ 0 \in Values \cup {0} /\ FALSE \in BOOLEAN
  OBVIOUS
<1> QED
  BY <1>3, <1>4, <1>5, <1>6, EndsKeeps

\* A close claims one waiter.
LEMMA CloseWakeKeeps ==
    ASSUME ChanInv, NEW t \in Tasks, CloseWake(t)
    PROVE  ChanInv'
<1>0. /\ Typed /\ Bounded /\ NoMissedMatch
      /\ \A u \in Tasks : Claim(u) /\ Upwards(u)
  BY DEF ChanInv
<1>1. pc[t] = "close" /\ 1 \in DOMAIN Cases(t)
  BY <1>0 DEF CloseWake, Claim
<1>2. PICK c \in Chans : c = Cases(t)[1].ch
  BY <1>0, <1>1, CaseFacts
<1>3. PICK d \in Dirs : d = IF Live(recvq[c]) # {} THEN "recv" ELSE "send"
  BY DEF Dirs
<1>4. /\ Q(c, d) = IF Live(recvq[c]) # {} THEN recvq[c] ELSE sendq[c]
      /\ d = "recv" => Q(c, d) = recvq[c]
      /\ d = "send" => Q(c, d) = sendq[c] /\ Live(recvq[c]) = {}
  BY <1>3 DEF Q
<1>5. PICK sg : sg = FirstLive(Q(c, d))
  OBVIOUS
<1>6. /\ Live(Q(c, d)) # {}
      /\ won' = [won EXCEPT ![sg[1]] = sg[2]]
      /\ res' = [res EXCEPT ![sg[1]] = Outcome(sg[2], 0, FALSE)]
      /\ recvq' = [recvq EXCEPT ![c] = Popped(recvq[c])]
      /\ sendq' = IF Live(recvq[c]) # {} THEN sendq ELSE [sendq EXCEPT ![c] = Popped(sendq[c])]
      /\ UNCHANGED <<buf, closed, pc, op, mine, old, dead>>
  BY <1>2, <1>4, <1>5 DEF CloseWake
<1>7. PICK u \in Tasks, j \in Nat \ {0} :
         sg = <<u, j>> /\ pc[u] = "wait" /\ won[u] = 0 /\ j \in DOMAIN Cases(u)
  <2>1. \E u \in Tasks, j \in Nat \ {0} :
           /\ FirstLive(Q(c, d)) = <<u, j>> /\ <<u, j>> \in ToSet(Q(c, d))
           /\ pc[u] = "wait" /\ won[u] = 0 /\ j \in DOMAIN Cases(u)
           /\ Cases(u)[j].ch = c /\ Cases(u)[j].dir = d
    BY <1>6, LiveWaits, Zenon
  <2> QED
    BY <1>5, <2>1, Zenon
<1>8. /\ u # t /\ won'[u] = j /\ res'[u] = Outcome(j, 0, FALSE)
      /\ \A w \in Tasks \ {u} : won'[w] = won[w] /\ res'[w] = res[w]
      /\ \A w \in Tasks : won'[w] = 0 => won[w] = 0
  BY <1>0, <1>1, <1>6, <1>7 DEF Typed
<1>9. Outcome(j, 0, FALSE) \in Outcomes /\ res'[u].case = j
  <2>1. Outcome(j, 0, FALSE) \in Outcomes /\ Outcome(j, 0, FALSE).case = j
    <3>1. j \in Nat /\ 0 \in Values \cup {0} /\ FALSE \in BOOLEAN
      OBVIOUS
    <3> QED
      BY <3>1, OutcomeTyped, Zenon
  <2> QED
    BY <1>8, <2>1
<1>10. recvq \in [Chans -> Seq(Sudog)] /\ sendq \in [Chans -> Seq(Sudog)]
  BY <1>0 DEF Typed
<1>11. Drained(recvq, recvq) /\ Drained(sendq, sendq)
  BY <1>10 DEF Drained
<1>12. recvq' \in [Chans -> Seq(Sudog)] /\ \A e \in Chans : Pruned(recvq[e], recvq'[e])
  <2>1. Live(recvq[c]) # {} => won'[FirstLive(recvq[c])[1]] # 0
    BY <1>3, <1>4, <1>5, <1>7, <1>8
  <2> QED
    BY <1>6, <1>8, <1>10, <1>11, <2>1, PopPruned
<1>13. sendq' \in [Chans -> Seq(Sudog)] /\ \A e \in Chans : Pruned(sendq[e], sendq'[e])
  <2>1. CASE Live(recvq[c]) # {}
    BY <1>6, <1>8, <1>10, <1>11, <2>1, PollPruned
  <2>2. CASE Live(recvq[c]) = {}
    <3>1. won'[FirstLive(sendq[c])[1]] # 0 /\ sendq' = [sendq EXCEPT ![c] = Popped(sendq[c])]
      BY <1>3, <1>4, <1>5, <1>6, <1>7, <1>8, <2>2
    <3> QED
      BY <1>8, <1>10, <1>11, <3>1, PopPruned
  <2> QED
    BY <2>1, <2>2
<1>14. Typed' /\ Bounded'
  <2>1. res' \in [Tasks -> Outcomes] /\ won' \in [Tasks -> Nat]
    BY <1>0, <1>6, <1>7, <1>9 DEF Typed
  <2> QED
    BY <1>0, <1>6, <1>12, <1>13, <2>1 DEF Typed, Bounded
<1>15. Claim(t)'
  <2>1. Cases(t)' = Cases(t) /\ closed' = closed /\ pc' = pc
    BY <1>6 DEF Cases
  <2> QED
    BY <1>0, <1>1, <2>1 DEF Claim
<1>16. \A e \in Chans : /\ Waits(e, "recv") # {} => buf'[e] = <<>>
                        /\ Waits(e, "send") # {} => ~HasRoom(e)'
  BY <1>0, <1>6 DEF NoMissedMatch, HasRoom
<1>17. \A e \in Chans, f \in Dirs : Pruned(Q(e, f), Q(e, f)')
  BY <1>12, <1>13, BothPruned
<1>18. \A w \in Tasks \ {t} :
          \/ won'[w] = won[w] /\ res'[w] = res[w]
          \/ /\ pc[w] = "wait" /\ won[w] = 0 /\ won'[w] # 0
             /\ won'[w] \in DOMAIN Cases(w) /\ res'[w].case = won'[w]
  BY <1>7, <1>8, <1>9
<1>19. /\ pc' = pc /\ mine' = mine /\ op' = op /\ closed' = closed /\ won'[t] = won[t]
  BY <1>6, <1>8
<1> QED
  BY <1>1, <1>14, <1>15, <1>16, <1>17, <1>18, <1>19, ServedKeeps

\* A close returns when nobody waits on its channel.
LEMMA CloseEndsKeeps ==
    ASSUME ChanInv, NEW t \in Tasks, CloseEnds(t)
    PROVE  ChanInv'
<1>0. /\ Typed /\ Bounded /\ NoMissedMatch
      /\ \A u \in Tasks : Claim(u) /\ Upwards(u)
  BY DEF ChanInv
<1>1. pc[t] = "close" /\ 1 \in DOMAIN Cases(t) /\ Cases(t)[1].dir = "close"
  BY <1>0 DEF CloseEnds, Claim
<1>2. PICK c \in Chans : c = Cases(t)[1].ch
  BY <1>0, <1>1, CaseFacts
<1>3. /\ Live(recvq[c]) = {} /\ Live(sendq[c]) = {}
      /\ recvq' = [recvq EXCEPT ![c] = Popped(recvq[c])]
      /\ sendq' = [sendq EXCEPT ![c] = Popped(sendq[c])]
      /\ Ends(t, Outcome(1, 0, TRUE))
      /\ UNCHANGED <<buf, closed, op, old, won, dead>>
      /\ \A w \in Tasks : won'[w] = 0 => won[w] = 0
  BY <1>2 DEF CloseEnds, Popped
<1>4. ASSUME NEW d \in Dirs PROVE Waits(Cases(t)[1].ch, d) = {}
  <2>1. Live(Q(c, d)) = {}
    BY <1>3 DEF Q
  <2>2. Live(Q(c, d)) = {} <=> Waits(c, d) = {}
    BY LiveWaits
  <2> QED
    BY <1>2, <2>1, <2>2
<1>5. recvq \in [Chans -> Seq(Sudog)] /\ sendq \in [Chans -> Seq(Sudog)]
  BY <1>0 DEF Typed
<1>6. Drained(recvq, recvq) /\ Drained(sendq, sendq)
  BY <1>5 DEF Drained
<1>7. recvq' \in [Chans -> Seq(Sudog)] /\ \A e \in Chans : Pruned(recvq[e], recvq'[e])
  BY <1>3, <1>5, <1>6, PopPruned
<1>8. sendq' \in [Chans -> Seq(Sudog)] /\ \A e \in Chans : Pruned(sendq[e], sendq'[e])
  BY <1>3, <1>5, <1>6, PopPruned
<1>9. /\ buf' \in [Chans -> Seq(Values)] /\ Bounded'
      /\ \A e \in Chans : /\ Waits(e, "recv") # {} => buf'[e] = <<>>
                          /\ Waits(e, "send") # {} => ~HasRoom(e)'
  BY <1>0, <1>3 DEF Typed, Bounded, NoMissedMatch, HasRoom
<1>10. 1 \in DOMAIN Cases(t) \cup {0} /\ 0 \in Values \cup {0} /\ TRUE \in BOOLEAN
  BY <1>1
<1> QED
  BY <1>1, <1>3, <1>4, <1>7, <1>8, <1>9, <1>10, EndsKeeps

-----------------------------------------------------------------------------
(* The steps that queue sudogs and pull them out.                          *)

\* What a concatenation holds.
LEMMA ConcatSet ==
    ASSUME NEW S, NEW p \in Seq(S), NEW q \in Seq(S)
    PROVE  /\ p \o q \in Seq(S)
           /\ \A x : x \in ToSet(p \o q) <=> x \in ToSet(p) \/ x \in ToSet(q)
<1>1. /\ p \o q \in Seq(S) /\ Len(p \o q) = Len(p) + Len(q)
      /\ \A i \in 1..(Len(p) + Len(q)) :
            (p \o q)[i] = IF i <= Len(p) THEN p[i] ELSE q[i - Len(p)]
  BY ConcatProperties
<1>2. /\ Len(p) \in Nat /\ DOMAIN p = 1..Len(p) /\ Len(q) \in Nat /\ DOMAIN q = 1..Len(q)
      /\ \A x : x \in ToSet(p) <=> \E j \in DOMAIN p : p[j] = x
      /\ \A x : x \in ToSet(q) <=> \E j \in DOMAIN q : q[j] = x
  BY SeqRange
<1>3. /\ DOMAIN (p \o q) = 1..(Len(p) + Len(q))
      /\ \A x : x \in ToSet(p \o q) <=> \E j \in DOMAIN (p \o q) : (p \o q)[j] = x
  BY <1>1, SeqRange
<1>4. PICK m \in Nat, n \in Nat : m = Len(p) /\ n = Len(q)
  <2>1. Len(p) \in Nat /\ Len(q) \in Nat
    BY LenProperties
  <2> QED
    BY <2>1, Zenon
<1>5. ASSUME NEW x, x \in ToSet(p \o q) PROVE x \in ToSet(p) \/ x \in ToSet(q)
  <2>1. PICK j \in 1..(m + n) : (p \o q)[j] = x
    BY <1>3, <1>4, <1>5
  <2>2. (p \o q)[j] = IF j <= m THEN p[j] ELSE q[j - m]
    BY <1>1, <1>4
  <2>3. CASE j <= m
    <3>1. j \in 1..m
      BY <2>3
    <3> QED
      BY <1>2, <1>4, <2>1, <2>2, <2>3, <3>1
  <2>4. CASE ~(j <= m)
    <3>1. j - m \in 1..n
      BY <2>4
    <3> QED
      BY <1>2, <1>4, <2>1, <2>2, <2>4, <3>1
  <2> QED
    BY <2>3, <2>4
<1>6. ASSUME NEW x, x \in ToSet(p) PROVE x \in ToSet(p \o q)
  <2>1. PICK j \in 1..m : p[j] = x
    BY <1>2, <1>4, <1>6
  <2>2. j \in 1..(m + n) /\ j <= m
    OBVIOUS
  <2> QED
    BY <1>1, <1>3, <1>4, <2>1, <2>2
<1>7. ASSUME NEW x, x \in ToSet(q) PROVE x \in ToSet(p \o q)
  <2>1. PICK j \in 1..n : q[j] = x
    BY <1>2, <1>4, <1>7
  <2>2. j + m \in 1..(m + n) /\ ~(j + m <= m) /\ (j + m) - m = j
    OBVIOUS
  <2>3. (p \o q)[j + m] = x
    BY <1>1, <1>4, <2>1, <2>2
  <2> QED
    BY <1>3, <1>4, <2>2, <2>3
<1> QED
  BY <1>1, <1>5, <1>6, <1>7

\* A task's sudogs for a channel and a direction.
LEMMA SudogsFacts ==
    ASSUME Typed, NEW t \in Tasks, NEW c, NEW d
    PROVE  /\ Sudogs(t, c, d) \in Seq(Sudog)
           /\ \A x : x \in ToSet(Sudogs(t, c, d)) <=>
                 \E i \in DOMAIN Cases(t) : Cases(t)[i].ch = c /\ Cases(t)[i].dir = d /\ x = <<t, i>>
<1>1. PICK q : q = [i \in DOMAIN Cases(t) |-> <<t, i>>]
  OBVIOUS
<1>2. PICK J \in SUBSET DOMAIN Cases(t) :
         J = {i \in DOMAIN Cases(t) : Cases(t)[i].ch = c /\ Cases(t)[i].dir = d}
  OBVIOUS
<1>3. IsFiniteSet(J) /\ J \subseteq Nat
  BY LocksFacts, FS_Subset
<1>4. \A j \in J : q[j] = <<t, j>> /\ q[j] \in Sudog
  <2>1. \A j \in DOMAIN Cases(t) : j \in Nat \ {0}
    BY CaseFacts
  <2> QED
    BY <1>1, <2>1 DEF Sudog
<1>5. /\ Keep(q, J) \in Seq(Sudog)
      /\ \A x : x \in ToSet(Keep(q, J)) <=> \E j \in J : q[j] = x
  BY <1>3, <1>4, KeepFacts
<1>6. Sudogs(t, c, d) = Keep(q, J)
  BY <1>1, <1>2 DEF Sudogs
<1>7. ASSUME NEW x
      PROVE  x \in ToSet(Keep(q, J)) <=>
                \E i \in DOMAIN Cases(t) : Cases(t)[i].ch = c /\ Cases(t)[i].dir = d /\ x = <<t, i>>
  <2>1. x \in ToSet(Keep(q, J)) <=> \E j \in J : q[j] = x
    BY <1>5
  <2>2. (\E j \in J : q[j] = x) <=> \E j \in J : x = <<t, j>>
    BY <1>4
  <2> QED
    BY <1>2, <2>1, <2>2
<1> QED
  BY <1>5, <1>6, <1>7, Zenon

\* Queue r is q, perhaps drained, with t's sudogs for c and d added.
JoinedBy(r, q, t, c, d) ==
    /\ r \in Seq(Sudog)
    /\ \A x \in ToSet(r) :
          \/ x \in ToSet(q)
          \/ \E i \in DOMAIN Cases(t) :
                Cases(t)[i].ch = c /\ Cases(t)[i].dir = d /\ x = <<t, i>>
    /\ \A x \in ToSet(q) : won[x[1]] = 0 => x \in ToSet(r)
    /\ \A i \in DOMAIN Cases(t) :
          Cases(t)[i].ch = c /\ Cases(t)[i].dir = d => <<t, i>> \in ToSet(r)

\* A drained queue that a task joins with its sudogs.
LEMMA Joins ==
    ASSUME Typed, NEW t \in Tasks, NEW c \in Chans, NEW d \in Dirs,
           NEW q \in Seq(Sudog), NEW p,
           p = q \/ (p = <<>> /\ Live(q) = {})
    PROVE  JoinedBy(p \o Sudogs(t, c, d), q, t, c, d)
<1>0. PICK r : r = p \o Sudogs(t, c, d)
  OBVIOUS
<1>1. p \in Seq(Sudog) /\ ToSet(p) \subseteq ToSet(q)
  <2>1. ToSet(<<>>) = {} /\ <<>> \in Seq(Sudog)
    BY DEF ToSet
  <2> QED
    BY <2>1
<1>2. \A x \in ToSet(q) : won[x[1]] = 0 => x \in ToSet(p)
  <2>1. Live(q) = {} <=> \A sg \in ToSet(q) : ~Acquires(sg)
    BY PoppedFacts
  <2> QED
    BY <2>1 DEF Acquires
<1>3. PICK z \in Seq(Sudog) :
         /\ z = Sudogs(t, c, d)
         /\ \A x : x \in ToSet(z) <=>
               \E i \in DOMAIN Cases(t) : Cases(t)[i].ch = c /\ Cases(t)[i].dir = d /\ x = <<t, i>>
  BY SudogsFacts
<1>4. /\ r \in Seq(Sudog)
      /\ \A x : x \in ToSet(r) <=> x \in ToSet(p) \/ x \in ToSet(z)
  BY <1>0, <1>1, <1>3, ConcatSet
<1>5. JoinedBy(r, q, t, c, d)
  BY <1>1, <1>2, <1>3, <1>4 DEF JoinedBy
<1> QED
  BY <1>0, <1>5

\* A task joins the queues of its cases and waits.
LEMMA BlockKeeps ==
    ASSUME ChanInv, NEW t \in Tasks, pc[t] = "lock", Block(t)
    PROVE  ChanInv'
<1>0. /\ Typed /\ Bounded /\ QueueInv /\ NoMissedMatch
      /\ \A u \in Tasks : Claim(u) /\ Upwards(u)
  BY DEF ChanInv
<1>1. \A j \in DOMAIN Cases(t) : ~Ready(Cases(t)[j])
  BY DEF Block, NoneReady, ReadyCases
<1>2. ASSUME NEW j \in DOMAIN Cases(t)
      PROVE  /\ Cases(t)[j].dir \in Dirs /\ ~closed[Cases(t)[j].ch]
             /\ Cases(t)[j].dir = "recv" =>
                   buf[Cases(t)[j].ch] = <<>> /\ Waits(Cases(t)[j].ch, "send") = {}
             /\ Cases(t)[j].dir = "send" =>
                   ~HasRoom(Cases(t)[j].ch) /\ Waits(Cases(t)[j].ch, "recv") = {}
  <2>1. PICK c \in Chans : c = Cases(t)[j].ch
    BY <1>0, CaseFacts
  <2>2. Cases(t)[j].dir \in {"recv", "send"}
    BY <1>0, <1>1, CaseFacts DEF Ready, Dirs
  <2>3. /\ ~closed[c]
        /\ Cases(t)[j].dir = "recv" => buf[c] = <<>> /\ Live(sendq[c]) = {}
        /\ Cases(t)[j].dir = "send" => ~HasRoom(c) /\ Live(recvq[c]) = {}
    BY <1>1, <2>1, <2>2 DEF Ready
  <2>4. /\ Live(recvq[c]) = {} <=> Waits(c, "recv") = {}
        /\ Live(sendq[c]) = {} <=> Waits(c, "send") = {}
    <3>1. Q(c, "recv") = recvq[c] /\ Q(c, "send") = sendq[c] /\ "recv" \in Dirs /\ "send" \in Dirs
      BY DEF Q, Dirs
    <3>2. Live(Q(c, "recv")) = {} <=> Waits(c, "recv") = {}
      BY <3>1, LiveWaits, Zenon
    <3>3. Live(Q(c, "send")) = {} <=> Waits(c, "send") = {}
      BY <3>1, LiveWaits, Zenon
    <3> QED
      BY <3>1, <3>2, <3>3
  <2> QED
    BY <2>1, <2>2, <2>3, <2>4 DEF Dirs
<1>3. PICK rq, sq : /\ rq = Polled(recvq, t, DOMAIN Cases(t), "send")
                    /\ sq = Polled(sendq, t, DOMAIN Cases(t), "recv")
  OBVIOUS
<1>4. Drained(rq, recvq) /\ Drained(sq, sendq)
  <2>1. PICK P : P = DOMAIN Cases(t)
    OBVIOUS
  <2>2. P \subseteq DOMAIN Cases(t) /\ \A j \in P : ~Ready(Cases(t)[j])
    BY <1>1, <2>1
  <2>3. Drained(Polled(recvq, t, P, "send"), recvq) /\ Drained(Polled(sendq, t, P, "recv"), sendq)
    BY <1>0, <2>2, PolledDrained, Zenon
  <2> QED
    BY <1>3, <2>1, <2>3, Zenon
<1>5. /\ recvq' = [c \in Chans |-> rq[c] \o Sudogs(t, c, "recv")]
      /\ sendq' = [c \in Chans |-> sq[c] \o Sudogs(t, c, "send")]
      /\ pc' = [pc EXCEPT ![t] = "wait"] /\ mine' = [mine EXCEPT ![t] = {}]
      /\ old' = [old EXCEPT ![t] = Locks(t)] /\ won' = [won EXCEPT ![t] = 0]
      /\ UNCHANGED <<buf, closed, op, res, dead>>
  BY <1>3 DEF Block
<1>6. /\ pc'[t] = "wait" /\ mine'[t] = {} /\ won'[t] = 0
      /\ \A u \in Tasks \ {t} : pc'[u] = pc[u] /\ mine'[u] = mine[u] /\ won'[u] = won[u]
  BY <1>0, <1>5 DEF Typed
<1>7. \A u : Cases(u)' = Cases(u)
  BY <1>5 DEF Cases
<1>8. ASSUME NEW c \in Chans, NEW d \in Dirs PROVE JoinedBy(Q(c, d)', Q(c, d), t, c, d)
  <2>1. PICK q \in Seq(Sudog) : q = Q(c, d)
    BY <1>0, QueueFacts
  <2>2. PICK p : p = IF d = "recv" THEN rq[c] ELSE sq[c]
    OBVIOUS
  <2>3. p = q \/ (p = <<>> /\ Live(q) = {})
    BY <1>4, <2>1, <2>2 DEF Drained, Q
  <2>4. Q(c, d)' = p \o Sudogs(t, c, d)
    BY <1>5, <2>2 DEF Q, Dirs
  <2>5. JoinedBy(p \o Sudogs(t, c, d), q, t, c, d)
    BY <1>0, <2>3, Joins, Zenon
  <2> QED
    BY <2>1, <2>4, <2>5, Zenon
<1>9. Typed' /\ Bounded'
  <2>1. recvq' \in [Chans -> Seq(Sudog)]
    <3>1. ASSUME NEW c \in Chans PROVE recvq'[c] \in Seq(Sudog)
      BY <1>8 DEF Q, Dirs, JoinedBy
    <3> QED
      BY <1>5, <3>1
  <2>2. sendq' \in [Chans -> Seq(Sudog)]
    <3>1. ASSUME NEW c \in Chans PROVE sendq'[c] \in Seq(Sudog)
      BY <1>8 DEF Q, Dirs, JoinedBy
    <3> QED
      BY <1>5, <3>1
  <2>3. old' \in [Tasks -> SUBSET Chans]
    BY <1>0, <1>5, LocksFacts DEF Typed
  <2> QED
    BY <1>0, <1>5, <2>1, <2>2, <2>3 DEF Typed, Bounded, PCs
<1>10. QueueInv'
  <2>1. ASSUME NEW c \in Chans, NEW d \in Dirs, NEW x \in ToSet(Q(c, d)') PROVE Owned(x, c, d)'
    <3>1. CASE x \in ToSet(Q(c, d))
      <4>1. Owned(x, c, d) /\ x[1] \in Tasks
        BY <1>0, <3>1, QueueFacts DEF QueueInv
      <4>2. x[1] # t
        BY <4>1 DEF Owned
      <4> QED
        BY <1>6, <1>7, <4>1, <4>2 DEF Owned
    <3>2. CASE \E i \in DOMAIN Cases(t) :
                  Cases(t)[i].ch = c /\ Cases(t)[i].dir = d /\ x = <<t, i>>
      BY <1>6, <1>7, <3>2 DEF Owned
    <3> QED
      BY <1>8, <3>1, <3>2 DEF JoinedBy
  <2>2. ASSUME NEW u \in Tasks, pc'[u] = "wait", won'[u] = 0, NEW i \in DOMAIN Cases(u)
        PROVE  /\ Cases(u)[i].dir \in Dirs
               /\ \A c, d : c = Cases(u)[i].ch /\ d = Cases(u)[i].dir => <<u, i>> \in ToSet(Q(c, d)')
    <3>1. PICK c \in Chans : c = Cases(u)[i].ch
      BY <1>0, CaseFacts
    <3>2. Cases(u)[i].dir \in Dirs /\ (u # t => <<u, i>> \in ToSet(Q(Cases(u)[i].ch, Cases(u)[i].dir)))
      BY <1>0, <1>2, <1>6, <2>2 DEF QueueInv, Enqueued
    <3>3. PICK d \in Dirs : d = Cases(u)[i].dir
      BY <3>2
    <3>4. <<u, i>> \in ToSet(Q(c, d)')
      <4>1. CASE u = t
        BY <1>8, <3>1, <3>3, <4>1 DEF JoinedBy
      <4>2. CASE u # t
        <5>1. <<u, i>> \in ToSet(Q(c, d)) /\ won[u] = 0
          BY <1>6, <2>2, <3>1, <3>2, <3>3, <4>2
        <5> QED
          BY <1>8, <5>1 DEF JoinedBy
      <4> QED
        BY <4>1, <4>2
    <3> QED
      BY <3>1, <3>3, <3>4
  <2>3. ASSUME NEW u \in Tasks PROVE Enqueued(u)'
    <3> SUFFICES ASSUME pc'[u] = "wait", won'[u] = 0
                 PROVE  (\A i \in DOMAIN Cases(u) :
                           /\ Cases(u)[i].dir \in Dirs
                           /\ <<u, i>> \in ToSet(Q(Cases(u)[i].ch, Cases(u)[i].dir)))'
      BY DEF Enqueued
    <3>1. Cases(u)' = Cases(u)
      BY <1>7
    <3> QED
      BY <2>2, <3>1 DEF Q
  <2> QED
    BY <2>1, <2>3 DEF QueueInv
<1>11. ASSUME NEW c \in Chans, NEW d \in Dirs, NEW u \in Waits(c, d)'
       PROVE  \/ u \in Waits(c, d) /\ u # t
              \/ u = t /\ \E i \in DOMAIN Cases(t) : Cases(t)[i].ch = c /\ Cases(t)[i].dir = d
  BY <1>6, <1>7 DEF Waits
<1>12. NoMissedMatch'
  <2> SUFFICES ASSUME NEW c \in Chans
               PROVE  /\ Waits(c, "recv")' # {} => buf'[c] = <<>>
                      /\ Waits(c, "send")' # {} => ~HasRoom(c)'
                      /\ \A r \in Waits(c, "recv")', s \in Waits(c, "send")' : r = s
                      /\ closed'[c] /\ ~Closing(c)' => Waits(c, "recv")' \cup Waits(c, "send")' = {}
    BY DEF NoMissedMatch
  <2>1. ASSUME NEW u \in Waits(c, "recv")'
        PROVE  /\ u \in Waits(c, "recv") \/ (u = t /\ Waits(c, "send") = {} /\ ~closed[c])
               /\ buf[c] = <<>>
    BY <1>0, <1>2, <1>11 DEF Dirs, NoMissedMatch
  <2>2. ASSUME NEW u \in Waits(c, "send")'
        PROVE  /\ u \in Waits(c, "send") \/ (u = t /\ Waits(c, "recv") = {} /\ ~closed[c])
               /\ ~HasRoom(c)
    BY <1>0, <1>2, <1>11 DEF Dirs, NoMissedMatch
  <2>3. buf' = buf /\ closed' = closed /\ HasRoom(c)' = HasRoom(c)
    BY <1>5 DEF HasRoom
  <2>4. \A r \in Waits(c, "recv")', s \in Waits(c, "send")' : r = s
    BY <1>0, <2>1, <2>2 DEF NoMissedMatch
  <2>5. ASSUME closed'[c], ~Closing(c)' PROVE Waits(c, "recv")' \cup Waits(c, "send")' = {}
    <3>1. ~Closing(c)
      BY <1>6, <1>7, <2>5 DEF Closing
    <3>2. Waits(c, "recv") \cup Waits(c, "send") = {}
      BY <1>0, <2>3, <2>5, <3>1 DEF NoMissedMatch
    <3> QED
      BY <2>1, <2>2, <2>3, <2>5, <3>2
  <2> QED
    BY <2>1, <2>2, <2>3, <2>4, <2>5
<1>13. ASSUME NEW u \in Tasks PROVE Claim(u)' /\ Upwards(u)'
  <2>1. CASE u = t
    BY <1>6, <2>1 DEF Claim, Upwards
  <2>2. CASE u # t
    BY <1>0, <1>5, <1>6, <2>2, TaskFrame
  <2> QED
    BY <2>1, <2>2
<1> QED
  BY <1>9, <1>10, <1>12, <1>13 DEF ChanInv

\* A queue once a task's sudogs are pulled out.
LEMMA WithoutFacts ==
    ASSUME Typed, NEW t \in Tasks, NEW c \in Chans, NEW q \in [Chans -> Seq(Sudog)],
           \A x \in ToSet(q[c]) : x[1] = t => c \in Locks(t)
    PROVE  /\ Without(q, t)[c] \in Seq(Sudog)
           /\ \A x : x \in ToSet(Without(q, t)[c]) <=> x \in ToSet(q[c]) /\ x[1] # t
<1>1. PICK s \in Seq(Sudog) : s = q[c]
  OBVIOUS
<1>2. /\ DOMAIN s = 1..Len(s) /\ Len(s) \in Nat /\ (\A j \in DOMAIN s : s[j] \in Sudog)
      /\ \A x : x \in ToSet(s) <=> \E j \in DOMAIN s : s[j] = x
  BY SeqRange
<1>3. CASE c \notin Locks(t)
  BY <1>1, <1>3 DEF Without
<1>4. CASE c \in Locks(t)
  <2>1. PICK J \in SUBSET DOMAIN s : J = {j \in DOMAIN s : s[j][1] # t}
    OBVIOUS
  <2>2. IsFiniteSet(J) /\ J \subseteq Nat
    <3>1. IsFiniteSet(1..Len(s)) /\ 1..Len(s) \subseteq Nat
      BY <1>2, FS_Interval
    <3> QED
      BY <1>2, <3>1, FS_Subset
  <2>3. \A j \in J : s[j] \in Sudog
    BY <1>2
  <2>4. /\ Keep(s, J) \in Seq(Sudog)
        /\ \A x : x \in ToSet(Keep(s, J)) <=> \E j \in J : s[j] = x
    BY <2>2, <2>3, KeepFacts
  <2>5. Without(q, t)[c] = Keep(s, J)
    BY <1>1, <1>4, <2>1 DEF Without
  <2>6. ASSUME NEW x PROVE x \in ToSet(Keep(s, J)) <=> x \in ToSet(s) /\ x[1] # t
    <3>1. x \in ToSet(s) <=> \E j \in DOMAIN s : s[j] = x
      BY <1>2
    <3>2. x \in ToSet(Keep(s, J)) <=> \E j \in J : s[j] = x
      BY <2>4
    <3> QED
      BY <2>1, <3>1, <3>2
  <2> QED
    BY <1>1, <2>4, <2>5, <2>6, Zenon
<1> QED
  BY <1>3, <1>4

\* A woken task pulls its sudogs out and is done, or ends the process.
LEMMA FinishKeeps ==
    ASSUME ChanInv, NEW t \in Tasks, Finish(t)
    PROVE  ChanInv'
<1>0. /\ Typed /\ Bounded /\ QueueInv /\ NoMissedMatch
      /\ \A u \in Tasks : Claim(u) /\ Upwards(u)
  BY DEF ChanInv
<1>1. /\ pc[t] = "relock" /\ recvq' = Without(recvq, t) /\ sendq' = Without(sendq, t)
      /\ mine' = [mine EXCEPT ![t] = {}] /\ UNCHANGED <<buf, closed, op, old, res>>
      /\ \/ ClosedUnder(t) /\ dead' = TRUE /\ UNCHANGED <<pc, won>>
         \/ /\ ~ClosedUnder(t) /\ UNCHANGED dead
            /\ pc' = [pc EXCEPT ![t] = "done"] /\ won' = [won EXCEPT ![t] = 0]
  BY DEF Finish
<1>2. /\ mine'[t] = {} /\ \A u \in Tasks \ {t} : mine'[u] = mine[u] /\ pc'[u] = pc[u] /\ won'[u] = won[u]
      /\ \/ ClosedUnder(t) /\ pc'[t] = "relock" /\ won'[t] = won[t]
         \/ ~ClosedUnder(t) /\ pc'[t] = "done" /\ won'[t] = 0
  BY <1>0, <1>1 DEF Typed
<1>3. \A u : Cases(u)' = Cases(u)
  BY <1>1 DEF Cases
<1>4. ASSUME NEW c \in Chans, NEW d \in Dirs
      PROVE  /\ Q(c, d)' \in Seq(Sudog)
             /\ \A x : x \in ToSet(Q(c, d)') <=> x \in ToSet(Q(c, d)) /\ x[1] # t
  <2>1. \A x \in ToSet(Q(c, d)) : x[1] = t => c \in Locks(t)
    BY <1>0 DEF QueueInv, Owned, Locks
  <2>2. PICK q \in [Chans -> Seq(Sudog)] : q = IF d = "recv" THEN recvq ELSE sendq
    BY <1>0 DEF Typed
  <2>3. Q(c, d) = q[c] /\ Q(c, d)' = Without(q, t)[c]
    BY <1>1, <2>2 DEF Q
  <2>4. /\ Without(q, t)[c] \in Seq(Sudog)
        /\ \A x : x \in ToSet(Without(q, t)[c]) <=> x \in ToSet(q[c]) /\ x[1] # t
    BY <1>0, <2>1, <2>3, WithoutFacts
  <2> QED
    BY <2>3, <2>4, Zenon
<1>5. Typed' /\ Bounded'
  <2>1. \A c \in Chans : recvq'[c] \in Seq(Sudog) /\ sendq'[c] \in Seq(Sudog)
    BY <1>4 DEF Q, Dirs
  <2>2. recvq' \in [Chans -> Seq(Sudog)]
    BY <1>1, <2>1 DEF Without
  <2>3. sendq' \in [Chans -> Seq(Sudog)]
    BY <1>1, <2>1 DEF Without
  <2>4. /\ pc' \in [Tasks -> PCs] /\ won' \in [Tasks -> Nat]
        /\ mine' \in [Tasks -> SUBSET Chans]
    <3>1. /\ pc \in [Tasks -> PCs] /\ won \in [Tasks -> Nat]
          /\ mine \in [Tasks -> SUBSET Chans] /\ "done" \in PCs
      BY <1>0 DEF Typed, PCs
    <3>2. CASE UNCHANGED <<pc, won>>
      BY <1>1, <3>1, <3>2
    <3>3. CASE pc' = [pc EXCEPT ![t] = "done"] /\ won' = [won EXCEPT ![t] = 0]
      BY <1>1, <3>1, <3>3
    <3> QED
      BY <1>1, <3>2, <3>3, Zenon
  <2>5. dead' \in BOOLEAN
    BY <1>0, <1>1, Zenon DEF Typed
  <2> QED
    BY <1>0, <1>1, <2>2, <2>3, <2>4, <2>5 DEF Typed, Bounded
<1>6. QueueInv'
  <2>1. ASSUME NEW c \in Chans, NEW d \in Dirs, NEW x \in ToSet(Q(c, d)') PROVE Owned(x, c, d)'
    <3>1. x \in ToSet(Q(c, d)) /\ x[1] # t
      BY <1>4
    <3>2. Owned(x, c, d) /\ x[1] \in Tasks
      BY <1>0, <3>1, QueueFacts DEF QueueInv
    <3> QED
      BY <1>2, <1>3, <3>1, <3>2 DEF Owned
  <2>2. ASSUME NEW u \in Tasks, pc'[u] = "wait", won'[u] = 0, NEW i \in DOMAIN Cases(u)
        PROVE  /\ Cases(u)[i].dir \in Dirs
               /\ \A c, d : c = Cases(u)[i].ch /\ d = Cases(u)[i].dir => <<u, i>> \in ToSet(Q(c, d)')
    <3>1. u # t /\ pc[u] = "wait" /\ won[u] = 0
      BY <1>2, <2>2
    <3>2. PICK c \in Chans : c = Cases(u)[i].ch
      BY <1>0, CaseFacts
    <3>3. PICK d \in Dirs : d = Cases(u)[i].dir
      BY <1>0, <3>1 DEF QueueInv, Enqueued
    <3>4. <<u, i>> \in ToSet(Q(c, d))
      BY <1>0, <3>1, <3>2, <3>3 DEF QueueInv, Enqueued
    <3>5. <<u, i>> \in ToSet(Q(c, d)')
      BY <1>4, <3>1, <3>4
    <3> QED
      BY <3>2, <3>3, <3>5
  <2>3. ASSUME NEW u \in Tasks PROVE Enqueued(u)'
    <3> SUFFICES ASSUME pc'[u] = "wait", won'[u] = 0
                 PROVE  (\A i \in DOMAIN Cases(u) :
                           /\ Cases(u)[i].dir \in Dirs
                           /\ <<u, i>> \in ToSet(Q(Cases(u)[i].ch, Cases(u)[i].dir)))'
      BY DEF Enqueued
    <3>1. Cases(u)' = Cases(u)
      BY <1>3
    <3> QED
      BY <2>2, <3>1 DEF Q
  <2> QED
    BY <2>1, <2>3 DEF QueueInv
<1>7. \A c \in Chans, d \in Dirs : Waits(c, d)' \subseteq Waits(c, d)
  BY <1>2, <1>3 DEF Waits
<1>8. NoMissedMatch'
  <2>1. \A c \in Chans : /\ Waits(c, "recv")' # {} => buf'[c] = <<>>
                         /\ Waits(c, "send")' # {} => ~HasRoom(c)'
    BY <1>0, <1>1, <1>7 DEF NoMissedMatch, HasRoom, Dirs
  <2>2. closed' = closed /\ op' = op /\ pc[t] # "close"
    BY <1>1
  <2> QED
    BY <1>0, <1>2, <1>7, <2>1, <2>2, MatchFrame
<1>9. ASSUME NEW u \in Tasks PROVE Claim(u)' /\ Upwards(u)'
  <2>1. CASE u = t
    <3>1. Claim(t)'
      BY <1>0, <1>1, <1>2, <1>3 DEF Claim, ClosedUnder
    <3>2. Upwards(t)'
      BY <1>2 DEF Upwards
    <3> QED
      BY <2>1, <3>1, <3>2
  <2>2. CASE u # t
    BY <1>0, <1>1, <1>2, <2>2, TaskFrame
  <2> QED
    BY <2>1, <2>2
<1> QED
  BY <1>5, <1>6, <1>8, <1>9 DEF ChanInv

-----------------------------------------------------------------------------
(* The theorems.                                                           *)

\* The invariant holds at the start.
LEMMA ChanInvInit == Init => ChanInv
<1> SUFFICES ASSUME Init PROVE ChanInv
  OBVIOUS
<1>1. Typed
  <2>1. NoOutcome \in Outcomes
    BY DEF NoOutcome, Outcome, Outcomes
  <2>2. <<>> \in Seq(Values) /\ <<>> \in Seq(Sudog)
    OBVIOUS
  <2>3. /\ buf \in [Chans -> Seq(Values)] /\ closed \in [Chans -> BOOLEAN]
        /\ recvq \in [Chans -> Seq(Sudog)] /\ sendq \in [Chans -> Seq(Sudog)]
    BY <2>2 DEF Init
  <2>4. /\ pc \in [Tasks -> PCs] /\ op \in [Tasks -> Ops \cup {NoOp}]
        /\ mine \in [Tasks -> SUBSET Chans] /\ old \in [Tasks -> SUBSET Chans]
    BY DEF Init, PCs
  <2>5. won \in [Tasks -> Nat] /\ res \in [Tasks -> Outcomes] /\ dead \in BOOLEAN
    BY <2>1 DEF Init
  <2> QED
    BY <2>3, <2>4, <2>5 DEF Typed
<1>2. Bounded
  BY ChanAssumption DEF Init, Bounded
<1>3. QueueInv
  BY DEF Init, QueueInv, Q, ToSet, Enqueued
<1>4. \A c \in Chans, d \in Dirs : Waits(c, d) = {}
  BY DEF Init, Waits
<1>5. NoMissedMatch
  BY <1>4 DEF NoMissedMatch, Dirs
<1>6. \A t \in Tasks : Claim(t) /\ Upwards(t)
  BY DEF Init, Claim, Upwards
<1> QED
  BY <1>1, <1>2, <1>3, <1>5, <1>6 DEF ChanInv

\* An operation's critical section keeps the invariant.
LEMMA RunKeeps ==
    ASSUME ChanInv, NEW t \in Tasks, Run(t)
    PROVE  ChanInv'
<1>0. Typed /\ pc[t] = "lock"
  BY DEF ChanInv, Run
<1>1. CASE Default(t)
  BY <1>0, <1>1, DefaultKeeps
<1>2. CASE Block(t)
  BY <1>0, <1>2, BlockKeeps
<1>3. ASSUME NEW s \in DOMAIN Cases(t), NEW i \in DOMAIN Cases(t), Fires(t, s, i),
             Send(t, i, Before(t, s, i)) \/ Recv(t, i, Before(t, s, i)) \/ Close(t)
      PROVE  ChanInv'
  <2>1. PICK P : P = Before(t, s, i)
    OBVIOUS
  <2>2. P \subseteq DOMAIN Cases(t) /\ \A j \in P : ~Ready(Cases(t)[j])
    BY <1>0, <1>3, <2>1, PolledInVain
  <2>3. CASE Send(t, i, P)
    BY <1>0, <2>2, <2>3, SendKeeps
  <2>4. CASE Recv(t, i, P)
    BY <1>0, <2>2, <2>4, RecvKeeps
  <2>5. CASE Close(t)
    <3>1. DOMAIN Cases(t) # {}
      OBVIOUS
    <3> QED
      BY <1>0, <2>5, <3>1, CloseKeeps
  <2> QED
    BY <1>3, <2>1, <2>3, <2>4, <2>5
<1> QED
  BY <1>1, <1>2, <1>3 DEF Run

\* Every step keeps the invariant.
LEMMA ChanInvStep == ChanInv /\ [Next]_vars => ChanInv'
<1> SUFFICES ASSUME ChanInv, [Next]_vars PROVE ChanInv'
  OBVIOUS
<1>1. CASE UNCHANGED vars
  <2>1. Typed' /\ Bounded'
    BY <1>1 DEF ChanInv, Typed, Bounded, vars
  <2>2. QueueInv' /\ NoMissedMatch'
    BY <1>1 DEF ChanInv, QueueInv, Q, Owned, Enqueued, Cases, NoMissedMatch, Waits, HasRoom, Closing, vars
  <2>3. \A t \in Tasks : Claim(t)' /\ Upwards(t)'
    BY <1>1 DEF ChanInv, Claim, Upwards, Cases, Locks, vars
  <2> QED
    BY <2>1, <2>2, <2>3 DEF ChanInv
<1>2. ASSUME NEW t \in Tasks,
             \/ \E o \in Ops : Call(t, o)
             \/ LockNext(t)
             \/ \E c \in Chans : Release(t, c)
             \/ Run(t)
             \/ CloseWake(t) \/ CloseEnds(t)
             \/ Resume(t) \/ Finish(t)
             \/ Return(t)
      PROVE  ChanInv'
  BY <1>2, CallReturnKeep, LockNextKeeps, OthersKeep, RunKeeps, CloseWakeKeeps, CloseEndsKeeps, FinishKeeps
<1> QED
  BY <1>1, <1>2 DEF Next

\* The inductive invariant always holds.
LEMMA ChanInvariant == Spec => []ChanInv
BY ChanInvInit, ChanInvStep, PTL DEF Spec

\* For every number of tasks and channels and every set of operations, the
\* state stays well formed, and a ring never holds more than its slots.
THEOREM ChanTypeCorrect == Spec => []TypeOK
<1>1. ChanInv => TypeOK
  BY DEF ChanInv, Typed, Bounded, TypeOK, PCs
<1> QED
  BY <1>1, ChanInvariant, PTL

\* No wait node outlives its operation: whatever klainsync.c's queues hold
\* belongs to a frame that is still there, on that channel and direction.
THEOREM SudogsNeverDangle == Spec => []NoDanglingSudog
<1>1. ChanInv => NoDanglingSudog
  <2> SUFFICES ASSUME ChanInv, NEW c \in Chans, NEW d \in Dirs, NEW j \in DOMAIN Q(c, d)
               PROVE  Owned(Q(c, d)[j], c, d)
    BY DEF NoDanglingSudog, Q, Owned, Dirs
  <2>1. Q(c, d) \in Seq(Sudog) /\ \A sg \in ToSet(Q(c, d)) : Owned(sg, c, d)
    BY QueueFacts DEF ChanInv, QueueInv
  <2>2. Q(c, d)[j] \in ToSet(Q(c, d))
    BY <2>1, SeqRange
  <2> QED
    BY <2>1, <2>2
<1> QED
  BY <1>1, ChanInvariant, PTL

\* Nobody is left waiting for what is already there.
THEOREM MatchesNeverMissed == Spec => []NoMissedMatch
<1>1. ChanInv => NoMissedMatch
  BY DEF ChanInv
<1> QED
  BY <1>1, ChanInvariant, PTL

\* Operations that each take several mutexes never wait for each other in a
\* circle: the one whose next mutex has the highest address waits for none of
\* the others.
THEOREM LocksNeverCycle == Spec => []NoLockDeadlock
<1>1. ChanInv => NoLockDeadlock
  <2> SUFFICES ASSUME ChanInv, NEW S,
                      S \subseteq {t \in Tasks : pc[t] \in {"lock", "relock"} /\ ~HoldsAll(t)}, S # {}
               PROVE  \E t \in S : \A u \in S : NextLock(t) \notin mine[u]
    BY DEF NoLockDeadlock
  <2>1. ASSUME NEW t \in S
        PROVE  /\ NextLock(t) \in Chans /\ NextLock(t) \in Nat
               /\ \A a \in mine[t] : a \in Nat /\ a < NextLock(t)
    <3>1. t \in Tasks /\ Typed /\ Upwards(t) /\ ~HoldsAll(t)
      BY DEF ChanInv
    <3>2. Locks(t) \subseteq Chans /\ Locks(t) \subseteq Nat /\ Locks(t) \ mine[t] # {}
      BY <3>1, LocksFacts DEF Upwards, HoldsAll
    <3>3. NextLock(t) \in Locks(t) \ mine[t]
      <4>1. PICK T \in SUBSET Nat : T = Locks(t) \ mine[t]
        BY <3>2
      <4>2. Min(T) \in T
        BY <3>2, <4>1, NatMin
      <4> QED
        BY <4>1, <4>2 DEF NextLock
    <3> QED
      BY <3>1, <3>2, <3>3 DEF Upwards
  <2> DEFINE Above(a) == {b \in Chans : b > a}
             T == {Cardinality(Above(NextLock(t))) : t \in S}
  <2>2. IsFiniteSet(Chans) /\ Chans \subseteq Nat
    BY ChanAssumption
  <2>3. \A a : IsFiniteSet(Above(a)) /\ Cardinality(Above(a)) \in Nat
    BY <2>2, FS_Subset, FS_CardinalityType
  <2>4. T \subseteq Nat /\ T # {}
    BY <2>3
  <2>5. Min(T) \in T /\ \A n \in T : Min(T) <= n
    BY <2>4, NatMin
  <2>6. PICK t \in S : Cardinality(Above(NextLock(t))) = Min(T)
    BY <2>5
  <2>7. ASSUME NEW u \in S PROVE NextLock(t) \notin mine[u]
    <3> SUFFICES ASSUME NextLock(t) \in mine[u] PROVE FALSE
      OBVIOUS
    <3>1. PICK a \in Chans, b \in Chans : a = NextLock(t) /\ b = NextLock(u)
      BY <2>1
    <3>2. a \in Nat /\ b \in Nat /\ a < b
      BY <2>1, <3>1
    <3>3. Above(b) \subseteq Above(a) /\ b \in Above(a) /\ b \notin Above(b)
      <4>1. \A e \in Chans : e > b => e > a
        <5>1. \A e \in Chans : e \in Nat
          BY <2>2
        <5> QED
          BY <3>2, <5>1
      <4>2. b > a /\ ~(b > b)
        BY <3>2
      <4> QED
        BY <4>1, <4>2
    <3>4. Cardinality(Above(b)) <= Cardinality(Above(a)) /\ Cardinality(Above(b)) # Cardinality(Above(a))
      BY <2>3, <3>3, FS_Subset
    <3>5. Cardinality(Above(a)) <= Cardinality(Above(b))
      BY <2>5, <2>6, <3>1
    <3> HIDE DEF Above
    <3> QED
      BY <2>3, <3>4, <3>5
  <2> QED
    BY <2>7
<1> QED
  BY <1>1, ChanInvariant, PTL

-----------------------------------------------------------------------------
(* KlainChan implements ChanSpec.  The abstract state of a task is         *)
(* AbsState: an operation is done from the step that claims its case on.   *)
(* Locking, letting go, resuming and cleaning up are stutters; every other *)
(* step is one step of ChanSpec.  The code looks at queues, which hold     *)
(* stale sudogs, where ChanSpec looks at who waits; LiveWaits, of the      *)
(* inductive invariant, says that both see the same.                       *)

\* The abstract state of all tasks, as the refinement maps it.
St == [t \in Tasks |-> AbsState(t)]

\* AbsState as a function of a task's place and claim.
AbsOf(p, w) ==
    CASE p = "idle" -> "idle"
      [] p = "lock" -> "called"
      [] p = "wait" /\ w = 0 -> "waiting"
      [] p = "close" -> "closing"
      [] OTHER -> "done"

-----------------------------------------------------------------------------
(* The abstract state.                                                     *)

\* What the refinement maps a place and a claim to.
LEMMA AbsOfFacts ==
    ASSUME NEW w
    PROVE  /\ AbsOf("idle", w) = "idle" /\ AbsOf("lock", w) = "called"
           /\ AbsOf("close", w) = "closing" /\ AbsOf("done", w) = "done"
           /\ AbsOf("relock", w) = "done" /\ AbsOf("wait", 0) = "waiting"
           /\ w # 0 => AbsOf("wait", w) = "done"
BY DEF AbsOf

\* A task's abstract state, before and after a step.
LEMMA StFacts ==
    ASSUME NEW t \in Tasks
    PROVE  St[t] = AbsOf(pc[t], won[t]) /\ St'[t] = AbsOf(pc'[t], won'[t])
BY DEF St, AbsState, AbsOf

\* A task waits in the abstract state exactly if it waits unclaimed.
LEMMA StWaiting ==
    ASSUME Typed, NEW t \in Tasks
    PROVE  St[t] = "waiting" <=> pc[t] = "wait" /\ won[t] = 0
<1>1. PICK p \in PCs, w \in Nat : p = pc[t] /\ w = won[t]
  BY DEF Typed
<1>2. St[t] = AbsOf(p, w)
  BY <1>1, StFacts
<1>3. AbsOf(p, w) = "waiting" <=> p = "wait" /\ w = 0
  BY DEF AbsOf, PCs
<1> QED
  BY <1>1, <1>2, <1>3

\* A step that changes one task's abstract state.
LEMMA StOne ==
    ASSUME NEW t \in Tasks, NEW v, AbsOf(pc'[t], won'[t]) = v,
           \A u \in Tasks \ {t} : pc'[u] = pc[u] /\ won'[u] = won[u]
    PROVE  St' = [St EXCEPT ![t] = v]
<1>1. \A u \in Tasks : St[u] = AbsOf(pc[u], won[u]) /\ St'[u] = AbsOf(pc'[u], won'[u])
  BY StFacts
<1>2. St = [u \in Tasks |-> St[u]] /\ St' = [u \in Tasks |-> St'[u]]
  BY DEF St
<1>3. \A u \in Tasks : St'[u] = [St EXCEPT ![t] = v][u]
  BY <1>1, <1>2
<1> QED
  BY <1>2, <1>3

\* A step that changes two tasks' abstract states.
LEMMA StTwo ==
    ASSUME NEW t \in Tasks, NEW w \in Tasks, w # t,
           AbsOf(pc'[t], won'[t]) = "done", AbsOf(pc'[w], won'[w]) = "done",
           \A u \in Tasks \ {t, w} : pc'[u] = pc[u] /\ won'[u] = won[u]
    PROVE  St' = [St EXCEPT ![t] = "done", ![w] = "done"]
<1>1. \A u \in Tasks : St[u] = AbsOf(pc[u], won[u]) /\ St'[u] = AbsOf(pc'[u], won'[u])
  BY StFacts
<1>2. St = [u \in Tasks |-> St[u]] /\ St' = [u \in Tasks |-> St'[u]]
  BY DEF St
<1>3. \A u \in Tasks : St'[u] = [St EXCEPT ![t] = "done", ![w] = "done"][u]
  BY <1>1, <1>2
<1> QED
  BY <1>2, <1>3

\* Who waits, in the abstract specification and here.
LEMMA WaitingFacts ==
    ASSUME Typed, NEW c, NEW d
    PROVE  /\ \A u \in Tasks : \A i \in DOMAIN Cases(u) :
                 (pc[u] = "wait" /\ won[u] = 0 /\ Cases(u)[i].ch = c /\ Cases(u)[i].dir = d)
                    => <<u, i>> \in Abs!Waiting(c, d)
           /\ Abs!Waiting(c, d) = {} <=> Waits(c, d) = {}
<1>1. Abs!Waiting(c, d) =
         UNION {{<<t, i>> : i \in {j \in DOMAIN Cases(t) : Cases(t)[j].ch = c /\ Cases(t)[j].dir = d}}
                   : t \in {u \in Tasks : St[u] = "waiting"}}
  BY DEF Abs!Waiting, Abs!Cases, Cases, St
<1>2. \A u \in Tasks : St[u] = "waiting" <=> pc[u] = "wait" /\ won[u] = 0
  BY StWaiting
<1>3. ASSUME NEW u \in Tasks, NEW i \in DOMAIN Cases(u),
             pc[u] = "wait", won[u] = 0, Cases(u)[i].ch = c, Cases(u)[i].dir = d
      PROVE  <<u, i>> \in Abs!Waiting(c, d)
  BY <1>1, <1>2, <1>3
<1>4. ASSUME NEW x \in Abs!Waiting(c, d) PROVE Waits(c, d) # {}
  BY <1>1, <1>2 DEF Waits
<1>5. ASSUME NEW u \in Waits(c, d) PROVE Abs!Waiting(c, d) # {}
  BY <1>3 DEF Waits
<1> QED
  BY <1>3, <1>4, <1>5

\* Outcomes are written the same way.
LEMMA SameOutcomes ==
    /\ \A i, v, b : Abs!Outcome(i, v, b) = Outcome(i, v, b)
    /\ Abs!NoOutcome = NoOutcome
BY DEF Abs!Outcome, Outcome, Abs!NoOutcome, NoOutcome

-----------------------------------------------------------------------------
(* Steps.                                                                  *)

\* Mutexes, running again and cleaning up are not visible.
LEMMA StepStutters ==
    ASSUME ChanInv, NEW t \in Tasks,
           \/ LockNext(t)
           \/ \E c \in Chans : Release(t, c)
           \/ Resume(t)
           \/ Finish(t) /\ ~ClosedUnder(t)
    PROVE  UNCHANGED Abs!vars
<1>0. Typed /\ Claim(t)
  BY DEF ChanInv
<1>1. UNCHANGED <<buf, closed, op, res, dead>>
  BY DEF LockNext, Release, Resume, Finish
<1>2. St' = St
  <2>1. St \in [Tasks -> {St[u] : u \in Tasks}] /\ St = [u \in Tasks |-> St[u]] /\ St' = [u \in Tasks |-> St'[u]]
    BY DEF St
  <2>2. ASSUME NEW u \in Tasks PROVE AbsOf(pc'[u], won'[u]) = AbsOf(pc[u], won[u])
    <3>1. CASE LockNext(t) \/ \E c \in Chans : Release(t, c)
      BY <3>1 DEF LockNext, Release
    <3>2. CASE Resume(t)
      <4>1. /\ pc[t] = "wait" /\ won[t] # 0 /\ pc'[t] = "relock" /\ won' = won
            /\ \A v \in Tasks \ {t} : pc'[v] = pc[v]
        BY <1>0, <3>2 DEF Resume, Typed
      <4> QED
        BY <4>1, AbsOfFacts
    <3>3. CASE Finish(t) /\ ~ClosedUnder(t)
      <4>1. /\ pc[t] = "relock" /\ pc'[t] = "done"
            /\ \A v \in Tasks \ {t} : pc'[v] = pc[v] /\ won'[v] = won[v]
        BY <1>0, <3>3 DEF Finish, Typed
      <4> QED
        BY <4>1, AbsOfFacts
    <3> QED
      BY <3>1, <3>2, <3>3
  <2>3. \A u \in Tasks : St'[u] = St[u]
    BY <2>2, StFacts
  <2> QED
    BY <2>1, <2>3
<1> QED
  BY <1>1, <1>2 DEF Abs!vars, St

\* A call is a call, and a return a return.
LEMMA CallRefines ==
    ASSUME ChanInv, NEW t \in Tasks, NEW o \in Ops, Call(t, o)
    PROVE  Abs!Call(t, o)
<1>0. Typed
  BY DEF ChanInv
<1>1. /\ pc[t] = "idle" /\ pc'[t] = "lock" /\ won' = won
      /\ \A u \in Tasks \ {t} : pc'[u] = pc[u]
  BY <1>0 DEF Call, Typed
<1>2. St[t] = "idle" /\ AbsOf(pc'[t], won'[t]) = "called"
  BY <1>1, StFacts, AbsOfFacts
<1>3. St' = [St EXCEPT ![t] = "called"]
  BY <1>1, <1>2, StOne
<1> QED
  BY <1>2, <1>3 DEF Abs!Call, St, Call

\* A return hands out what the operation came to, and no panic is pending.
LEMMA ReturnRefines ==
    ASSUME ChanInv, NEW t \in Tasks, Return(t)
    PROVE  Abs!Return(t)
<1>0. Typed /\ Claim(t)
  BY DEF ChanInv
<1>1. /\ pc[t] = "done" /\ pc'[t] = "idle" /\ won' = won
      /\ \A u \in Tasks \ {t} : pc'[u] = pc[u]
  BY <1>0 DEF Return, Typed
<1>2. St[t] = "done" /\ AbsOf(pc'[t], won'[t]) = "idle"
  BY <1>1, StFacts, AbsOfFacts
<1>3. St' = [St EXCEPT ![t] = "idle"]
  BY <1>1, <1>2, StOne
<1>4. ~Abs!Panics(t)
  BY <1>0, <1>1, <1>2 DEF Abs!Panics, Abs!Cases, Cases, Claim, St
<1> QED
  BY <1>2, <1>3, <1>4, SameOutcomes DEF Abs!Return, St, Return

\* An abort is one ChanSpec allows: on a closed channel, or of a sender that
\* a close woke.
LEMMA DiesRefines ==
    ASSUME ChanInv, NEW t \in Tasks, pc[t] = "lock", NEW i \in DOMAIN Cases(t),
           Cases(t)[i].dir \in {"send", "close"}, closed[Cases(t)[i].ch], Dies(t)
    PROVE  Abs!Abort(t)
<1>1. St[t] = "called" /\ St' = St
  BY StFacts, AbsOfFacts DEF Dies, St, AbsState
<1>2. Abs!Panics(t)
  BY <1>1 DEF Abs!Panics, Abs!Cases, Cases, St
<1> QED
  BY <1>1, <1>2 DEF Abs!Abort, St, Dies

\* The same, for Finish.
LEMMA ClosedUnderRefines ==
    ASSUME ChanInv, NEW t \in Tasks, Finish(t), ClosedUnder(t)
    PROVE  Abs!Abort(t)
<1>0. Typed /\ Claim(t) /\ pc[t] = "relock"
  BY DEF ChanInv, Finish
<1>1. UNCHANGED <<pc, won, buf, closed, op, res>> /\ dead' = TRUE
  BY DEF Finish
<1>2. St[t] = "done" /\ St' = St
  BY <1>0, <1>1, StFacts, AbsOfFacts DEF St, AbsState
<1>3. res[t].case # 0 /\ Cases(t)[res[t].case].dir = "send" /\ ~res[t].ok
  BY <1>0 DEF Claim, ClosedUnder
<1>4. Abs!Panics(t)
  BY <1>2, <1>3 DEF Abs!Panics, Abs!Cases, Cases, St
<1> QED
  BY <1>1, <1>2, <1>4 DEF Abs!Abort, St

\* A slot is free: what the code asks, and what ChanSpec asks.
LEMMA RoomFacts ==
    ASSUME Typed, NEW c \in Chans
    PROVE  HasRoom(c) <=> Len(buf[c]) < Cap[c]
<1>1. PICK m \in Nat, n \in Nat : m = Len(buf[c]) /\ n = Cap[c]
  <2>1. buf[c] \in Seq(Values)
    BY DEF Typed
  <2>2. Len(buf[c]) \in Nat /\ Cap[c] \in Nat
    BY <2>1, LenProperties, ChanAssumption
  <2> QED
    BY <2>2, Zenon
<1>2. (n > 0 /\ m < n) <=> m < n
  OBVIOUS
<1> QED
  BY <1>1, <1>2 DEF HasRoom

\* A queue has a live sudog exactly if somebody waits, abstractly.
LEMMA LiveWaiting ==
    ASSUME ChanInv, NEW c \in Chans
    PROVE  /\ Live(recvq[c]) = {} <=> Abs!Waiting(c, "recv") = {}
           /\ Live(sendq[c]) = {} <=> Abs!Waiting(c, "send") = {}
<1>0. Typed
  BY DEF ChanInv
<1>1. Q(c, "recv") = recvq[c] /\ Q(c, "send") = sendq[c] /\ "recv" \in Dirs /\ "send" \in Dirs
  BY DEF Q, Dirs
<1>2. /\ Live(Q(c, "recv")) = {} <=> Waits(c, "recv") = {}
      /\ Live(Q(c, "send")) = {} <=> Waits(c, "send") = {}
  BY <1>1, LiveWaits
<1>3. /\ Abs!Waiting(c, "recv") = {} <=> Waits(c, "recv") = {}
      /\ Abs!Waiting(c, "send") = {} <=> Waits(c, "send") = {}
  BY <1>0, WaitingFacts
<1> QED
  BY <1>1, <1>2, <1>3

\* The first live sudog of a queue is an abstract waiter.
LEMMA FirstWaiting ==
    ASSUME ChanInv, NEW c \in Chans, NEW d \in Dirs, Live(Q(c, d)) # {}
    PROVE  \E u \in Tasks, j \in Nat \ {0} :
              /\ FirstLive(Q(c, d)) = <<u, j>> /\ <<u, j>> \in Abs!Waiting(c, d)
              /\ pc[u] = "wait" /\ won[u] = 0 /\ j \in DOMAIN Cases(u)
              /\ Cases(u)[j].ch = c /\ Cases(u)[j].dir = d
<1>0. Typed
  BY DEF ChanInv
<1>1. PICK u \in Tasks, j \in Nat \ {0} :
         /\ FirstLive(Q(c, d)) = <<u, j>> /\ <<u, j>> \in ToSet(Q(c, d))
         /\ pc[u] = "wait" /\ won[u] = 0 /\ j \in DOMAIN Cases(u)
         /\ Cases(u)[j].ch = c /\ Cases(u)[j].dir = d
  BY LiveWaits, Zenon
<1>2. <<u, j>> \in Abs!Waiting(c, d)
  BY <1>0, <1>1, WaitingFacts
<1> QED
  BY <1>1, <1>2, Zenon

\* A send serves an abstract waiter, or takes a slot when there is none.
LEMMA SendRefines ==
    ASSUME ChanInv, NEW t \in Tasks, pc[t] = "lock", NEW i \in DOMAIN Cases(t),
           NEW P, P \subseteq DOMAIN Cases(t), \A j \in P : ~Ready(Cases(t)[j]), Send(t, i, P)
    PROVE  Abs!Send(t, i) \/ Abs!Abort(t)
<1>0. Typed
  BY DEF ChanInv
<1>1. PICK c \in Chans, v \in Values : c = Cases(t)[i].ch /\ v = Cases(t)[i].val
  BY <1>0, CaseFacts
<1>2. PICK rq : rq = Polled(recvq, t, P, "send")
  OBVIOUS
<1>3. Drained(rq, recvq)
  BY <1>0, <1>2, PolledDrained, Zenon
<1>4. Q(c, "recv") = recvq[c] /\ "recv" \in Dirs /\ Live(<<>>) = {}
  BY DEF Q, Dirs, Live
<1>5. CASE closed[c] /\ Dies(t)
  BY <1>1, <1>5, DiesRefines DEF Send
<1>6. CASE /\ ~closed[c] /\ Live(rq[c]) # {}
           /\ EndsWaking(t, Outcome(i, 0, TRUE), FirstLive(rq[c]), Outcome(FirstLive(rq[c])[2], v, TRUE))
           /\ UNCHANGED <<buf, closed, op, old, dead>>
  <2>1. rq[c] = Q(c, "recv")
    BY <1>3, <1>4, <1>6 DEF Drained
  <2>2. PICK u \in Tasks, j \in Nat \ {0} :
           /\ FirstLive(Q(c, "recv")) = <<u, j>> /\ <<u, j>> \in Abs!Waiting(c, "recv")
           /\ pc[u] = "wait" /\ won[u] = 0 /\ j \in DOMAIN Cases(u)
    BY <1>4, <1>6, <2>1, FirstWaiting
  <2>3. PICK w \in Abs!Waiting(c, "recv") : w = <<u, j>> /\ w[1] = u /\ w[2] = j
    BY <2>2
  <2>4. /\ u # t /\ pc' = [pc EXCEPT ![t] = "done"]
        /\ res' = [res EXCEPT ![t] = Outcome(i, 0, TRUE), ![w[1]] = Outcome(w[2], v, TRUE)]
        /\ won' = [won EXCEPT ![u] = j]
    BY <1>6, <2>1, <2>2, <2>3 DEF EndsWaking
  <2>5. /\ pc'[t] = "done" /\ pc'[u] = "wait" /\ won'[u] # 0
        /\ \A x \in Tasks \ {t, u} : pc'[x] = pc[x] /\ won'[x] = won[x]
    BY <1>0, <2>2, <2>4 DEF Typed
  <2>6. AbsOf(pc'[t], won'[t]) = "done" /\ AbsOf(pc'[u], won'[u]) = "done"
    BY <2>5, AbsOfFacts
  <2>7. St' = [St EXCEPT ![t] = "done", ![w[1]] = "done"]
    BY <2>3, <2>4, <2>5, <2>6, StTwo
  <2>8. Abs!DoneWith(t, Outcome(i, 0, TRUE), w, Outcome(w[2], v, TRUE))
    BY <2>4, <2>7 DEF Abs!DoneWith, St
  <2> QED
    BY <1>1, <1>6, <2>8, SameOutcomes DEF Abs!Send, Abs!Cases, Cases, Send
<1>7. CASE /\ ~closed[c] /\ Live(rq[c]) = {} /\ HasRoom(c) /\ buf' = [buf EXCEPT ![c] = Append(@, v)]
           /\ Ends(t, Outcome(i, 0, TRUE)) /\ UNCHANGED <<closed, op, old, won, dead>>
  <2>1. Abs!Waiting(c, "recv") = {}
    BY <1>3, <1>7, LiveWaiting DEF Drained
  <2>2. Len(buf[c]) < Cap[c]
    BY <1>0, <1>7, RoomFacts
  <2>3. /\ pc'[t] = "done" /\ \A x \in Tasks \ {t} : pc'[x] = pc[x] /\ won'[x] = won[x]
    BY <1>0, <1>7 DEF Typed, Ends
  <2>4. St' = [St EXCEPT ![t] = "done"]
    BY <2>3, StOne, AbsOfFacts
  <2>5. Abs!Done(t, Outcome(i, 0, TRUE))
    BY <1>7, <2>4 DEF Abs!Done, St, Ends
  <2> QED
    BY <1>1, <1>7, <2>1, <2>2, <2>5, SameOutcomes DEF Abs!Send, Abs!Cases, Cases, Send
<1> QED
  BY <1>1, <1>2, <1>5, <1>6, <1>7 DEF Send

\* A receive serves an abstract waiter, takes a value, or meets the end.
LEMMA RecvRefines ==
    ASSUME ChanInv, NEW t \in Tasks, pc[t] = "lock", NEW i \in DOMAIN Cases(t),
           NEW P, P \subseteq DOMAIN Cases(t), \A j \in P : ~Ready(Cases(t)[j]), Recv(t, i, P)
    PROVE  Abs!Recv(t, i)
<1>0. Typed
  BY DEF ChanInv
<1>1. PICK c \in Chans : c = Cases(t)[i].ch /\ Cases(t)[i].dir = "recv"
  BY <1>0, CaseFacts DEF Recv
<1>2. PICK sq : sq = Polled(sendq, t, P, "recv")
  OBVIOUS
<1>3. Drained(sq, sendq)
  BY <1>0, <1>2, PolledDrained, Zenon
<1>4. Q(c, "send") = sendq[c] /\ "send" \in Dirs /\ Live(<<>>) = {}
  BY DEF Q, Dirs, Live
<1>5. UNCHANGED <<closed, op, dead>>
  BY DEF Recv
<1>6. CASE Live(sq[c]) # {} /\ RecvMeeting(t, i, c, FirstLive(sq[c]))
  <2>1. sq[c] = Q(c, "send")
    BY <1>3, <1>4, <1>6 DEF Drained
  <2>2. PICK u \in Tasks, j \in Nat \ {0} :
           /\ FirstLive(Q(c, "send")) = <<u, j>> /\ <<u, j>> \in Abs!Waiting(c, "send")
           /\ pc[u] = "wait" /\ won[u] = 0 /\ j \in DOMAIN Cases(u)
    BY <1>4, <1>6, <2>1, FirstWaiting
  <2>3. PICK w \in Abs!Waiting(c, "send") : w = <<u, j>> /\ w[1] = u /\ w[2] = j
    BY <2>2
  <2>4. PICK held : held = Append(buf[c], Cases(w[1])[w[2]].val)
    OBVIOUS
  <2>5. /\ u # t /\ pc' = [pc EXCEPT ![t] = "done"]
        /\ res' = [res EXCEPT ![t] = Outcome(i, Head(held), TRUE), ![w[1]] = Outcome(w[2], 0, TRUE)]
        /\ won' = [won EXCEPT ![u] = j]
        /\ buf' = [buf EXCEPT ![c] = Tail(held)]
    BY <1>6, <2>1, <2>2, <2>3, <2>4 DEF EndsWaking, RecvMeeting
  <2>6. /\ pc'[t] = "done" /\ pc'[u] = "wait" /\ won'[u] # 0
        /\ \A x \in Tasks \ {t, u} : pc'[x] = pc[x] /\ won'[x] = won[x]
    BY <1>0, <2>2, <2>5 DEF Typed
  <2>7. AbsOf(pc'[t], won'[t]) = "done" /\ AbsOf(pc'[u], won'[u]) = "done"
    BY <2>6, AbsOfFacts
  <2>8. St' = [St EXCEPT ![t] = "done", ![w[1]] = "done"]
    BY <2>3, <2>5, <2>6, <2>7, StTwo
  <2>9. Abs!DoneWith(t, Outcome(i, Head(held), TRUE), w, Outcome(w[2], 0, TRUE))
    BY <2>5, <2>8 DEF Abs!DoneWith, St
  <2> QED
    BY <1>1, <1>5, <2>4, <2>5, <2>9, SameOutcomes DEF Abs!Recv, Abs!Cases, Cases
<1>7. CASE /\ Live(sq[c]) = {} /\ UNCHANGED won
           /\ \/ /\ buf[c] # <<>> /\ buf' = [buf EXCEPT ![c] = Tail(@)]
                 /\ Ends(t, Outcome(i, Head(buf[c]), TRUE))
              \/ buf[c] = <<>> /\ closed[c] /\ Ends(t, Outcome(i, 0, FALSE)) /\ UNCHANGED buf
  <2>1. Abs!Waiting(c, "send") = {}
    BY <1>3, <1>7, LiveWaiting DEF Drained
  <2>2. /\ pc'[t] = "done" /\ \A x \in Tasks \ {t} : pc'[x] = pc[x] /\ won'[x] = won[x]
    BY <1>0, <1>7 DEF Typed, Ends
  <2>3. St' = [St EXCEPT ![t] = "done"]
    BY <2>2, StOne, AbsOfFacts
  <2>4. \/ /\ buf[c] # <<>> /\ buf' = [buf EXCEPT ![c] = Tail(@)]
           /\ Abs!Done(t, Outcome(i, Head(buf[c]), TRUE))
        \/ buf[c] = <<>> /\ closed[c] /\ Abs!Done(t, Outcome(i, 0, FALSE)) /\ UNCHANGED buf
    BY <1>7, <2>3 DEF Abs!Done, St, Ends
  <2> QED
    BY <1>1, <1>5, <2>1, <2>4, SameOutcomes DEF Abs!Recv, Abs!Cases, Cases
<1> QED
  BY <1>1, <1>2, <1>6, <1>7 DEF Recv

\* A close, which ChanSpec lets take effect at once.
LEMMA CloseRefines ==
    ASSUME ChanInv, NEW t \in Tasks, pc[t] = "lock", DOMAIN Cases(t) # {}, Close(t)
    PROVE  Abs!Abort(t) \/ (1 \in DOMAIN Cases(t) /\ Abs!Close(t, 1))
<1>0. Typed
  BY DEF ChanInv
<1>1. 1 \in DOMAIN Cases(t) /\ Cases(t)[1].dir = "close"
  BY <1>0, CaseFacts DEF Close
<1>2. CASE closed[Cases(t)[1].ch] /\ Dies(t)
  BY <1>1, <1>2, DiesRefines
<1>3. CASE /\ ~closed[Cases(t)[1].ch]
           /\ closed' = [closed EXCEPT ![Cases(t)[1].ch] = TRUE] /\ pc' = [pc EXCEPT ![t] = "close"]
           /\ UNCHANGED <<buf, recvq, sendq, op, mine, old, won, res, dead>>
  <2>1. pc'[t] = "close" /\ \A u \in Tasks \ {t} : pc'[u] = pc[u] /\ won'[u] = won[u]
    BY <1>0, <1>3 DEF Typed
  <2>2. St' = [St EXCEPT ![t] = "closing"]
    BY <2>1, StOne, AbsOfFacts
  <2> QED
    BY <1>1, <1>3, <2>2 DEF Abs!Close, Abs!Cases, Cases, St
<1> QED
  BY <1>2, <1>3 DEF Close

\* A case that would not block abstractly is ready in the code.
LEMMA ReadyRefines ==
    ASSUME ChanInv, NEW t \in Tasks, NoneReady(t)
    PROVE  Abs!NoneReady(t)
<1>0. Typed
  BY DEF ChanInv
<1>1. ASSUME NEW i \in DOMAIN Cases(t) PROVE ~Abs!CaseReady(Cases(t)[i])
  <2>1. PICK c \in Chans : c = Cases(t)[i].ch
    BY <1>0, CaseFacts
  <2>2. ~Ready(Cases(t)[i])
    BY DEF NoneReady, ReadyCases
  <2>3. /\ Live(recvq[c]) = {} <=> Abs!Waiting(c, "recv") = {}
        /\ Live(sendq[c]) = {} <=> Abs!Waiting(c, "send") = {}
        /\ HasRoom(c) <=> Len(buf[c]) < Cap[c]
    BY <1>0, LiveWaiting, RoomFacts
  <2> QED
    BY <2>1, <2>2, <2>3 DEF Ready, Abs!CaseReady
<1> QED
  BY <1>1 DEF Abs!NoneReady, Abs!Cases, Cases

\* The default, and the wait, of a select none of whose cases is ready.
LEMMA IdleRefines ==
    ASSUME ChanInv, NEW t \in Tasks, pc[t] = "lock", Default(t) \/ Block(t)
    PROVE  Abs!Default(t) \/ Abs!Wait(t)
<1>0. Typed /\ NoneReady(t)
  BY DEF ChanInv, Default, Block
<1>1. Abs!NoneReady(t) /\ St[t] = "called"
  BY <1>0, ReadyRefines, StFacts, AbsOfFacts
<1>2. CASE Default(t)
  <2>1. pc'[t] = "done" /\ \A u \in Tasks \ {t} : pc'[u] = pc[u] /\ won'[u] = won[u]
    BY <1>0, <1>2 DEF Default, Ends, Typed
  <2>2. St' = [St EXCEPT ![t] = "done"]
    BY <2>1, StOne, AbsOfFacts
  <2>3. Abs!Done(t, NoOutcome)
    BY <1>2, <2>2 DEF Abs!Done, St, Default, Ends
  <2> QED
    BY <1>1, <1>2, <2>3, SameOutcomes DEF Abs!Default, St, Default
<1>3. CASE Block(t)
  <2>0. /\ pc' = [pc EXCEPT ![t] = "wait"] /\ won' = [won EXCEPT ![t] = 0]
        /\ ~op[t].default /\ UNCHANGED <<buf, closed, op, res, dead>>
    BY <1>3 DEF Block
  <2>1. pc'[t] = "wait" /\ won'[t] = 0 /\ \A u \in Tasks \ {t} : pc'[u] = pc[u] /\ won'[u] = won[u]
    BY <1>0, <2>0 DEF Typed
  <2>2. St' = [St EXCEPT ![t] = "waiting"]
    BY <2>1, StOne, AbsOfFacts
  <2> QED
    BY <1>1, <2>0, <2>2 DEF Abs!Wait, St
<1> QED
  BY <1>2, <1>3

\* A close that claims a waiter ends the waiter's operation.
LEMMA CloseWakeRefines ==
    ASSUME ChanInv, NEW t \in Tasks, CloseWake(t)
    PROVE  \E u \in Tasks : \E j \in DOMAIN Cases(u) : Abs!End(u, j)
<1>0. Typed /\ Claim(t)
  BY DEF ChanInv
<1>1. pc[t] = "close" /\ 1 \in DOMAIN Cases(t) /\ closed[Cases(t)[1].ch]
  BY <1>0 DEF CloseWake, Claim
<1>2. PICK c \in Chans : c = Cases(t)[1].ch
  BY <1>0, <1>1, CaseFacts
<1>3. PICK d \in Dirs : d = IF Live(recvq[c]) # {} THEN "recv" ELSE "send"
  BY DEF Dirs
<1>4. Q(c, d) = IF Live(recvq[c]) # {} THEN recvq[c] ELSE sendq[c]
  BY <1>3 DEF Q
<1>5. PICK sg : sg = FirstLive(Q(c, d))
  OBVIOUS
<1>6. /\ Live(Q(c, d)) # {}
      /\ won' = [won EXCEPT ![sg[1]] = sg[2]]
      /\ res' = [res EXCEPT ![sg[1]] = Outcome(sg[2], 0, FALSE)]
      /\ UNCHANGED <<buf, closed, pc, op, mine, old, dead>>
  BY <1>2, <1>4, <1>5 DEF CloseWake
<1>7. PICK u \in Tasks, j \in Nat \ {0} :
         /\ FirstLive(Q(c, d)) = <<u, j>> /\ <<u, j>> \in Abs!Waiting(c, d)
         /\ pc[u] = "wait" /\ won[u] = 0 /\ j \in DOMAIN Cases(u)
         /\ Cases(u)[j].ch = c /\ Cases(u)[j].dir = d
  BY <1>6, FirstWaiting, Zenon
<1>8. won' = [won EXCEPT ![u] = j] /\ res' = [res EXCEPT ![u] = Outcome(j, 0, FALSE)]
  BY <1>5, <1>6, <1>7
<1>9. /\ won'[u] = j /\ pc'[u] = "wait"
      /\ \A x \in Tasks \ {u} : pc'[x] = pc[x] /\ won'[x] = won[x]
  BY <1>0, <1>6, <1>7, <1>8 DEF Typed
<1>10. St[u] = "waiting" /\ AbsOf(pc'[u], won'[u]) = "done"
  BY <1>7, <1>9, StFacts, AbsOfFacts
<1>11. St' = [St EXCEPT ![u] = "done"]
  BY <1>9, <1>10, StOne
<1>12. Abs!Done(u, Outcome(j, 0, FALSE))
  BY <1>8, <1>11 DEF Abs!Done, St
<1>13. Abs!End(u, j)
  BY <1>1, <1>2, <1>6, <1>7, <1>10, <1>12, SameOutcomes DEF Abs!End, Abs!Cases, Cases, St
<1> QED
  BY <1>7, <1>13

\* A close returns when abstractly nobody waits on its channel.
LEMMA CloseEndsRefines ==
    ASSUME ChanInv, NEW t \in Tasks, CloseEnds(t)
    PROVE  Abs!CloseReturns(t)
<1>0. Typed /\ Claim(t)
  BY DEF ChanInv
<1>1. pc[t] = "close" /\ 1 \in DOMAIN Cases(t)
  BY <1>0 DEF CloseEnds, Claim
<1>2. PICK c \in Chans : c = Cases(t)[1].ch
  BY <1>0, <1>1, CaseFacts
<1>3. /\ Live(recvq[c]) = {} /\ Live(sendq[c]) = {} /\ Ends(t, Outcome(1, 0, TRUE))
      /\ UNCHANGED <<buf, closed, op, won, dead>>
  BY <1>2 DEF CloseEnds
<1>4. Abs!Waiting(c, "recv") = {} /\ Abs!Waiting(c, "send") = {}
  BY <1>3, LiveWaiting
<1>5. pc'[t] = "done" /\ \A u \in Tasks \ {t} : pc'[u] = pc[u] /\ won'[u] = won[u]
  BY <1>0, <1>3 DEF Ends, Typed
<1>6. St[t] = "closing" /\ AbsOf(pc'[t], won'[t]) = "done"
  BY <1>1, <1>5, StFacts, AbsOfFacts
<1>7. St' = [St EXCEPT ![t] = "done"]
  BY <1>5, <1>6, StOne
<1>8. Abs!Done(t, Outcome(1, 0, TRUE))
  BY <1>3, <1>7 DEF Abs!Done, St, Ends
<1> QED
  BY <1>2, <1>3, <1>4, <1>6, <1>8, SameOutcomes DEF Abs!CloseReturns, Abs!Cases, Cases, St

-----------------------------------------------------------------------------
(* The refinement.                                                         *)

\* The initial states map to initial states.
LEMMA InitRefines == Init => Abs!Init
<1> SUFFICES ASSUME Init PROVE Abs!Init
  OBVIOUS
<1>1. St = [t \in Tasks |-> "idle"]
  BY AbsOfFacts DEF Init, St, AbsState
<1> QED
  BY <1>1, SameOutcomes DEF Init, Abs!Init, St

\* Every step maps to a step or a stutter.
LEMMA StepRefines == ChanInv /\ [Next]_vars => [Abs!Next]_(Abs!vars)
<1> SUFFICES ASSUME ChanInv, [Next]_vars PROVE Abs!Next \/ UNCHANGED Abs!vars
  OBVIOUS
<1>1. CASE UNCHANGED vars
  BY <1>1 DEF vars, Abs!vars, AbsState
<1>2. ASSUME ~dead, NEW t \in Tasks, NEW o \in Ops, Call(t, o) PROVE Abs!Next
  BY <1>2, CallRefines DEF Abs!Next
<1>3. ASSUME ~dead, NEW t \in Tasks, Return(t) PROVE Abs!Next
  BY <1>3, ReturnRefines DEF Abs!Next
<1>4. ASSUME ~dead, NEW t \in Tasks, Run(t) PROVE Abs!Next
  <2>0. Typed /\ pc[t] = "lock" /\ St[t] = "called"
    BY <1>4, StFacts, AbsOfFacts DEF ChanInv, Run
  <2>1. CASE Default(t) \/ Block(t)
    <3>1. Abs!Default(t) \/ Abs!Wait(t)
      BY <2>0, <2>1, IdleRefines
    <3> QED
      BY <1>4, <3>1 DEF Abs!Next
  <2>2. ASSUME NEW s \in DOMAIN Cases(t), NEW i \in DOMAIN Cases(t), Fires(t, s, i),
               Send(t, i, Before(t, s, i)) \/ Recv(t, i, Before(t, s, i)) \/ Close(t)
        PROVE  Abs!Next
    <3>1. PICK P : P = Before(t, s, i)
      OBVIOUS
    <3>2. P \subseteq DOMAIN Cases(t) /\ \A j \in P : ~Ready(Cases(t)[j])
      BY <2>0, <2>2, <3>1, PolledInVain
    <3>3. DOMAIN Cases(t) # {}
      OBVIOUS
    <3>4. \/ Abs!Abort(t)
          \/ \E k \in DOMAIN Cases(t) : Abs!Send(t, k) \/ Abs!Recv(t, k) \/ Abs!Close(t, k)
      <4>1. CASE Send(t, i, P)
        BY <2>0, <3>2, <4>1, SendRefines
      <4>2. CASE Recv(t, i, P)
        BY <2>0, <3>2, <4>2, RecvRefines
      <4>3. CASE Close(t)
        BY <2>0, <3>3, <4>3, CloseRefines
      <4> QED
        BY <2>2, <3>1, <4>1, <4>2, <4>3
    <3> QED
      BY <1>4, <2>0, <3>4 DEF Abs!Next, Abs!Cases, Cases, St
  <2> QED
    BY <1>4, <2>1, <2>2 DEF Run
<1>5. ASSUME ~dead, NEW t \in Tasks, CloseWake(t) PROVE Abs!Next
  <2>1. PICK u \in Tasks : \E j \in DOMAIN Cases(u) : Abs!End(u, j)
    BY <1>5, CloseWakeRefines
  <2> QED
    BY <1>5, <2>1 DEF Abs!Next, Abs!Cases, Cases
<1>6. ASSUME ~dead, NEW t \in Tasks, CloseEnds(t) PROVE Abs!Next
  BY <1>6, CloseEndsRefines DEF Abs!Next
<1>7. ASSUME ~dead, NEW t \in Tasks, Finish(t) PROVE Abs!Next \/ UNCHANGED Abs!vars
  <2>1. CASE ClosedUnder(t)
    BY <1>7, <2>1, ClosedUnderRefines DEF Abs!Next
  <2>2. CASE ~ClosedUnder(t)
    BY <1>7, <2>2, StepStutters
  <2> QED
    BY <2>1, <2>2
<1>8. ASSUME NEW t \in Tasks, LockNext(t) \/ (\E c \in Chans : Release(t, c)) \/ Resume(t)
      PROVE  UNCHANGED Abs!vars
  BY <1>8, StepStutters
<1>9. ASSUME Next PROVE Abs!Next \/ UNCHANGED Abs!vars
  <2>1. ~dead
    BY <1>9 DEF Next
  <2>2. PICK t \in Tasks :
           \/ \E o \in Ops : Call(t, o)
           \/ LockNext(t)
           \/ \E c \in Chans : Release(t, c)
           \/ Run(t)
           \/ CloseWake(t) \/ CloseEnds(t)
           \/ Resume(t) \/ Finish(t)
           \/ Return(t)
    BY <1>9 DEF Next
  <2> QED
    BY <2>1, <2>2, <1>2, <1>3, <1>4, <1>5, <1>6, <1>7, <1>8
<1> QED
  BY <1>1, <1>9

\* Channels and select implement their abstract specification: every send,
\* receive, close and select takes effect at one instant, on exactly one
\* case, whatever the interleaving of the critical sections.
THEOREM ChannelsLinearizable == Spec => Linearizable
BY InitRefines, StepRefines, ChanInvariant, PTL DEF Spec, Linearizable, Abs!Spec

=============================================================================

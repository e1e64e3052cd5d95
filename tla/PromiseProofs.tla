---------------------------- MODULE PromiseProofs ----------------------------
(***************************************************************************)
(* Promises, jobs and async functions, proved of PromiseRun for every      *)
(* number of promises and operations: the runtime's words stay in their    *)
(* ranges, and nothing is forgotten or done twice.                         *)
(*                                                                         *)
(* The operators of the runtime work on the promises and the job queue     *)
(* while tasks, combinators and the running closure stand still.  So the   *)
(* invariant is a relation between a state s, of which only the promises   *)
(* and the queues count, and a context c, the rest.  It counts: every      *)
(* closure has a key, the task it resumes or the promise it settles, and   *)
(* what must hold is the number of closures with a key.  In the middle of  *)
(* an operation some are owed: taken off the queue and not yet replaced.   *)
(***************************************************************************)
EXTENDS PromiseRun, FiniteSetTheorems, SequenceTheorems, TLAPS

Done == {Fulfilled, Rejected}
Vals == 0..MaxProms
Waiters == {"then", "finally"}

\* The closures over the first n promises.
Closures(n) ==
         [fn : {"then"}, p : 1..n, q : 1..n, on : SUBSET Done]
    \cup [fn : {"finally", "comb"}, p : 1..n, q : 1..n]
    \cup [fn : {"adopt_job", "adopt_settle"}, q : 1..n, h : 1..n]
    \cup [fn : {"defer_step"}, q : 1..n, st : Done, hops : {1, 2}]
    \cup [fn : {"finally_step"}, q : 1..n, r : 1..n, st : Done, val : Vals]
    \cup [fn : {"resume"}, t : 1..n]
    \cup [fn : {"queued"}, n : Nat]

PromType(n) == [st : {Pending} \cup Done, val : Vals, rx : Seq(Closures(n)),
                handled : BOOLEAN, queued : BOOLEAN]
TaskType == [st : {"none", "running", "parked", "done"}, on : Vals]
CombType == [kind : {"none", "all", "allSettled", "any", "race"}, left : 0..2]
RtType(n) ==
    [prom : [Ids -> PromType(n)], mt : Seq(Closures(n)), tq : Seq(Nat), unh : Seq(Ids),
     ph : {"jobs", "ticks", "mt", "unh", "idle"}, run : Closures(n) \cup {NoClosure},
     task : [Ids -> TaskType], comb : [Ids -> CombType], cur : Vals, prev : Seq(Vals)]

-----------------------------------------------------------------------------
(* The closures that wait, and how many have a key.                        *)

\* The queue, and the lists in the order they will run.
Lists(s) == [p \in 0..MaxProms |-> IF p = 0 THEN s.mt ELSE Reverse(s.prom[p].rx)]

Key(c) ==
    CASE c.fn = "resume" -> <<"resume", c.t>>
      [] c.fn \in {"none", "queued"} -> <<"none", 0>>
      [] OTHER -> <<"settle", c.q>>
Keys == {"resume", "settle"} \X Ids

Spots(L, k) ==
    {x \in UNION {{<<p, i>> : i \in DOMAIN L[p]} : p \in 0..MaxProms} : Key(L[x[1]][x[2]]) = k}
Count(s, k) == Cardinality(Spots(Lists(s), k))
Counted(s) == \A k \in Keys : IsFiniteSet(Spots(Lists(s), k))

\* m closures with key e, seen from key k.
Plus(k, e, m) == IF k = e THEN m ELSE 0

-----------------------------------------------------------------------------
(* The context.                                                            *)

Ctx(s) == [task |-> s.task, comb |-> s.comb, run |-> s.run]
CtxType(n) == [task : [Ids -> TaskType], comb : [Ids -> CombType], run : Closures(n) \cup {NoClosure}]

\* The promise closure d reads when it runs; 0: none.
Src(d, c) ==
    CASE d.fn \in {"then", "finally", "comb"} -> d.p
      [] d.fn = "adopt_settle" -> d.h
      [] d.fn = "finally_step" -> d.r
      [] d.fn = "resume" -> c.task[d.t].on
      [] OTHER -> 0

\* A combinator's closures settle a combinator's promise and no other do; a
\* then or finally settles no task's.
Fit(d, c) ==
    Key(d)[1] = "settle" =>
      /\ d.fn = "comb" <=> c.comb[d.q].kind # "none"
      /\ d.fn \in Waiters => c.task[d.q].st = "none"

\* Closures lie where they belong: on the list of the promise they read while
\* it is pending (unless it is w, just settled), in the queue afterwards.
Waits(L, pr, c, w) ==
    /\ \A p \in Ids : \A d \in Range(L[p]) : Src(d, c) = p /\ (p # w => pr[p].st = Pending)
    /\ \A d \in Range(L[0]) : Src(d, c) # 0 => pr[Src(d, c)].st # Pending
    /\ \A p \in 0..MaxProms : \A d \in Range(L[p]) : Fit(d, c)

Fine(s, n, c, w) ==
    /\ n \in Ids \cup {0} /\ s \in RtType(n) /\ c \in CtxType(n)
    /\ Counted(s) /\ Waits(Lists(s), s.prom, c, w)

-----------------------------------------------------------------------------
(* The inductive invariant.                                                *)

\* Promise q, if pending, has what will settle it, when there are m closures.
Settler(s, c, q, m) ==
    s.prom[q].st = Pending =>
      IF c.comb[q].kind # "none"
      THEN m >= c.comb[q].left
      ELSE m + (IF Settles(c.run, q) \/ c.task[q].st \in {"running", "parked"} THEN 1 ELSE 0) = 1

Left(s, c) ==
    \A q \in Ids : c.comb[q].kind \in {"all", "allSettled", "any"} /\ s.prom[q].st = Pending
                     => c.comb[q].left >= 1

RunOk(s, c) ==
    /\ c.run.fn \in Waiters \cup {"none", "resume", "queued"}
    /\ c.run.fn \in Waiters => s.prom[c.run.p].st # Pending /\ Fit(c.run, c)

\* A promise is a task's, a combinator's or neither; one not yet made is neither.
Fresh(n, c) ==
    \A q \in Ids : /\ q > n => c.task[q].st = "none" /\ c.comb[q].kind = "none"
                   /\ c.task[q].st = "none" \/ c.comb[q].kind = "none"

\* All is well but for m closures with key e, which are owed.
Due(s, k, e, m) == Count(s, k) + Plus(k, e, m)
Resumes(s, c, e, m) ==
    \A t \in Ids : Due(s, <<"resume", t>>, e, m) = (IF c.task[t].st = "parked" THEN 1 ELSE 0)
Settlers(s, n, c, e, m) ==
    \A q \in (Deferred + 1)..n : Settler(s, c, q, Due(s, <<"settle", q>>, e, m))
Owes(s, n, c, e, m) ==
    /\ Fine(s, n, c, 0) /\ Resumes(s, c, e, m) /\ Settlers(s, n, c, e, m)
    /\ Left(s, c) /\ RunOk(s, c) /\ Fresh(n, c)
NoKey == <<"none", 0>>

\* The program's code on the stack, and the tasks it belongs to.
FrameType == [k : {"script", "then", "finally", "tick", "task"}, id : Nat]
TaskOf(f) == IF f.k = "task" THEN f.id ELSE NoTask
Frames(stk, n, c, cur, prev) ==
    /\ stk \in Seq(FrameType) /\ prev \in Seq(Vals)
    /\ Len(prev) = (IF stk = <<>> THEN 0 ELSE Len(stk) - 1)
    /\ cur = (IF stk = <<>> THEN NoTask ELSE TaskOf(stk[Len(stk)]))
    /\ \A i \in 1..Len(prev) : prev[i] = TaskOf(stk[i])
    /\ \A i \in 1..Len(stk) : i > 1 => stk[i].k = "task"
    /\ \A i \in 1..Len(stk) : stk[i].k = "task" => stk[i].id \in 1..n /\ c.task[stk[i].id].st = "running"
    /\ \A i, j \in 1..Len(stk) : stk[i].k = "task" /\ stk[i] = stk[j] => i = j
    /\ stk # <<>> /\ stk[1].k \in Waiters => c.run.fn = stk[1].k /\ c.run.q = stk[1].id
    /\ c.run.fn \in Waiters => stk # <<>> /\ stk[1].k \in Waiters

Good(s, n, stk) == Owes(s, n, Ctx(s), NoKey, 0) /\ Frames(stk, n, Ctx(s), s.cur, s.prev)

RunInv ==
    /\ Good(rt, made, stack)
    /\ ops \in 0..MaxOps /\ made \in Nat /\ made >= Deferred /\ made + ops <= Deferred + MaxOps

-----------------------------------------------------------------------------
(* Lists of closures.                                                      *)

\* A set renamed one to one has as many elements.
LEMMA Renamed ==
  ASSUME NEW S, NEW T, IsFiniteSet(S), NEW f \in [S -> T],
         \A x \in S, y \in S : f[x] = f[y] => x = y, \A z \in T : \E x \in S : f[x] = z
  PROVE  IsFiniteSet(T) /\ Cardinality(T) = Cardinality(S)
<1>1. f \in Bijection(S, T)
  BY DEF Bijection, Injection, Surjection, IsInjective
<1>2. ExistsBijection(S, T)
  BY <1>1 DEF ExistsBijection
<1> QED BY <1>2, FS_Bijection

\* A closure with key k is at place i of list p.
At(L, k, p, i) == p \in 0..MaxProms /\ i \in DOMAIN L[p] /\ Key(L[p][i]) = k

\* Spots is the places where there is one.
LEMMA SpotAt ==
  ASSUME NEW L, NEW k, NEW p, NEW i
  PROVE  <<p, i>> \in Spots(L, k) <=> At(L, k, p, i)
BY DEF Spots, At

\* A member of Spots is a pair.
LEMMA SpotIs ==
  ASSUME NEW L, NEW k, NEW x \in Spots(L, k)
  PROVE  \E p, i : x = <<p, i>> /\ At(L, k, p, i)
BY DEF Spots, At

\* R is L with d appended to list p; with the head of the queue taken; with
\* list p moved to the end of the queue.
Longer(S, L, R, p, d) ==
    /\ L \in [0..MaxProms -> Seq(S)] /\ R \in [0..MaxProms -> Seq(S)] /\ p \in 0..MaxProms /\ d \in S
    /\ R[p] = Append(L[p], d) /\ \A r \in 0..MaxProms : r # p => R[r] = L[r]
Popped(S, L, R) ==
    /\ L \in [0..MaxProms -> Seq(S)] /\ R \in [0..MaxProms -> Seq(S)] /\ MaxProms \in Nat
    /\ L[0] # <<>> /\ R[0] = Tail(L[0]) /\ \A r \in 1..MaxProms : R[r] = L[r]
Drained(S, L, R, p) ==
    /\ L \in [0..MaxProms -> Seq(S)] /\ R \in [0..MaxProms -> Seq(S)] /\ MaxProms \in Nat
    /\ p \in 1..MaxProms /\ R[0] = L[0] \o L[p] /\ R[p] = <<>>
    /\ \A r \in 1..MaxProms : r # p => R[r] = L[r]

\* A closure appended to a list is one more with its key.
LEMMA AppendSpots ==
  ASSUME NEW S, NEW L, NEW R, NEW p, NEW d, Longer(S, L, R, p, d), NEW k, IsFiniteSet(Spots(L, k))
  PROVE  /\ IsFiniteSet(Spots(R, k)) /\ Cardinality(Spots(L, k)) \in Nat
         /\ Cardinality(Spots(R, k)) = Cardinality(Spots(L, k)) + Plus(k, Key(d), 1)
<1> USE DEF Longer
<1>1. PICK l \in Seq(S) : l = L[p]
  OBVIOUS
<1>2. PICK m \in Nat : m = Len(l)
  OBVIOUS
<1>3. /\ DOMAIN L[p] = 1..m /\ DOMAIN R[p] = 1..(m + 1) /\ R[p][m + 1] = d
      /\ \A i \in 1..m : R[p][i] = L[p][i]
  <2>1. PICK r : r = Append(l, d)
    OBVIOUS
  <2>2. r \in Seq(S) /\ Len(r) = m + 1 /\ r[m + 1] = d /\ \A i \in 1..m : r[i] = l[i]
    BY <1>2, <2>1, AppendProperties
  <2>3. DOMAIN l = 1..m /\ DOMAIN r = 1..(m + 1)
    BY <1>2, <2>2
  <2> QED BY <1>1, <2>1, <2>2, <2>3
<1>4. \A r, i : At(R, k, r, i) <=> At(L, k, r, i) \/ (r = p /\ i = m + 1 /\ Key(d) = k)
  <2> SUFFICES ASSUME NEW r \in 0..MaxProms, NEW i
               PROVE  At(R, k, r, i) <=> At(L, k, r, i) \/ (r = p /\ i = m + 1 /\ Key(d) = k)
    BY DEF At
  <2>1. CASE r = p
    <3>1. i \in 1..(m + 1) <=> i \in 1..m \/ i = m + 1
      OBVIOUS
    <3>2. i \in 1..m => i # m + 1 /\ R[p][i] = L[p][i]
      BY <1>3
    <3> QED BY <1>3, <2>1, <3>1, <3>2 DEF At
  <2>2. CASE r # p
    BY <2>2 DEF At
  <2> QED BY <2>1, <2>2
<1>5. PICK x : x = <<p, m + 1>>
  OBVIOUS
<1>6. x \notin Spots(L, k)
  <2>1. ~At(L, k, p, m + 1)
    BY <1>3 DEF At
  <2> QED BY <1>5, <2>1, SpotAt
<1>7. Cardinality(Spots(L, k)) \in Nat
  BY FS_CardinalityType
<1>8. ASSUME NEW y PROVE y \in Spots(R, k) <=> y \in Spots(L, k) \/ (y = x /\ Key(d) = k)
  <2>1. ASSUME y \in Spots(R, k) PROVE y \in Spots(L, k) \/ (y = x /\ Key(d) = k)
    <3>1. PICK r, i : y = <<r, i>> /\ At(R, k, r, i)
      BY <2>1, SpotIs
    <3> QED BY <1>4, <1>5, <3>1, SpotAt
  <2>2. ASSUME y \in Spots(L, k) PROVE y \in Spots(R, k)
    <3>1. PICK r, i : y = <<r, i>> /\ At(L, k, r, i)
      BY <2>2, SpotIs
    <3> QED BY <1>4, <3>1, SpotAt
  <2>3. ASSUME y = x, Key(d) = k PROVE y \in Spots(R, k)
    <3>1. At(R, k, p, m + 1)
      BY <1>4, <2>3
    <3> QED BY <1>5, <2>3, <3>1, SpotAt
  <2> QED BY <2>1, <2>2, <2>3
<1>9. CASE Key(d) = k
  <2>1. Spots(R, k) = Spots(L, k) \cup {x}
    BY <1>8, <1>9
  <2>2. IsFiniteSet(Spots(L, k) \cup {x}) /\ Cardinality(Spots(L, k) \cup {x}) = Cardinality(Spots(L, k)) + 1
    BY <1>6, FS_AddElement
  <2> QED BY <1>7, <1>9, <2>1, <2>2 DEF Plus
<1>10. CASE Key(d) # k
  <2>1. Spots(R, k) = Spots(L, k)
    BY <1>8, <1>10
  <2> QED BY <1>7, <1>10, <2>1 DEF Plus
<1> QED BY <1>9, <1>10

\* The head of the queue taken is one less.
LEMMA TailSpots ==
  ASSUME NEW S, NEW L, NEW R, Popped(S, L, R), NEW k, IsFiniteSet(Spots(L, k))
  PROVE  /\ IsFiniteSet(Spots(R, k)) /\ Cardinality(Spots(R, k)) \in Nat
         /\ Cardinality(Spots(L, k)) = Cardinality(Spots(R, k)) + Plus(k, Key(Head(L[0])), 1)
<1> USE DEF Popped
<1>1. PICK l \in Seq(S) : l = L[0] /\ l # <<>>
  OBVIOUS
<1>2. PICK m \in Nat : Len(l) = m + 1
  <2>1. Len(l) \in Nat \ {0}
    BY <1>1, EmptySeq
  <2>2. Len(l) - 1 \in Nat /\ Len(l) = (Len(l) - 1) + 1
    BY <2>1
  <2> QED BY <2>2
<1>3. /\ DOMAIN L[0] = 1..(m + 1) /\ DOMAIN R[0] = 1..m /\ Head(L[0]) = L[0][1]
      /\ \A i \in 1..m : R[0][i] = L[0][i + 1]
  <2>1. PICK r : r = Tail(l)
    OBVIOUS
  <2>2. r \in Seq(S) /\ Len(r) = m /\ Head(l) = l[1] /\ \A i \in 1..m : r[i] = l[i + 1]
    BY <1>1, <1>2, <2>1, HeadTailProperties
  <2>3. DOMAIN l = 1..(m + 1) /\ DOMAIN r = 1..m
    BY <1>2, <2>2
  <2> QED BY <1>1, <2>1, <2>2, <2>3
<1> DEFINE T == Spots(L, k) \ {<<0, 1>>}
           Up(x) == IF x[1] = 0 THEN <<0, x[2] + 1>> ELSE x
           f == [x \in Spots(R, k) |-> Up(x)]
<1>4. \A r, i : At(R, k, r, i) => IF r = 0 THEN i \in 1..m /\ At(L, k, 0, i + 1) ELSE At(L, k, r, i)
  <2> SUFFICES ASSUME NEW r \in 0..MaxProms, NEW i, At(R, k, r, i)
               PROVE  IF r = 0 THEN i \in 1..m /\ At(L, k, 0, i + 1) ELSE At(L, k, r, i)
    BY DEF At
  <2>1. CASE r = 0
    <3>1. i \in 1..m /\ Key(R[0][i]) = k
      BY <1>3, <2>1 DEF At
    <3>2. i + 1 \in 1..(m + 1) /\ R[0][i] = L[0][i + 1]
      BY <1>3, <3>1
    <3> QED BY <1>3, <2>1, <3>1, <3>2 DEF At
  <2>2. CASE r # 0
    BY <2>2 DEF At
  <2> QED BY <2>1, <2>2
<1>5. \A r, i : At(L, k, r, i) /\ ~(r = 0 /\ i = 1) =>
                  IF r = 0 THEN \E j \in 1..m : i = j + 1 /\ At(R, k, 0, j) ELSE At(R, k, r, i)
  <2> SUFFICES ASSUME NEW r \in 0..MaxProms, NEW i, At(L, k, r, i), ~(r = 0 /\ i = 1)
               PROVE  IF r = 0 THEN \E j \in 1..m : i = j + 1 /\ At(R, k, 0, j) ELSE At(R, k, r, i)
    BY DEF At
  <2>1. CASE r = 0
    <3>1. i \in 1..(m + 1) /\ i # 1 /\ Key(L[0][i]) = k
      BY <1>3, <2>1 DEF At
    <3>2. PICK j \in 1..m : i = j + 1
      <4>1. i - 1 \in 1..m /\ i = (i - 1) + 1
        BY <3>1
      <4> QED BY <4>1
    <3>3. At(R, k, 0, j)
      BY <1>3, <2>1, <3>1, <3>2 DEF At
    <3> QED BY <2>1, <3>2, <3>3
  <2>2. CASE r # 0
    BY <2>2 DEF At
  <2> QED BY <2>1, <2>2
<1>6. ASSUME NEW x \in Spots(R, k)
      PROVE  \E r, i : /\ x = <<r, i>> /\ (r = 0 => i \in 1..m) /\ At(R, k, r, i)
                       /\ Up(x) = (IF r = 0 THEN <<r, i + 1>> ELSE <<r, i>>) /\ Up(x) \in T
  <2>1. PICK r, i : x = <<r, i>> /\ At(R, k, r, i)
    BY SpotIs
  <2>2. Up(x) = (IF r = 0 THEN <<r, i + 1>> ELSE <<r, i>>)
    BY <2>1
  <2>3. CASE r = 0
    <3>1. i \in 1..m /\ At(L, k, 0, i + 1)
      BY <1>4, <2>1, <2>3
    <3>2. <<0, i + 1>> \in Spots(L, k)
      BY <3>1, SpotAt
    <3>3. <<0, i + 1>> # <<0, 1>>
      BY <3>1
    <3> QED BY <2>1, <2>2, <2>3, <3>1, <3>2, <3>3
  <2>4. CASE r # 0
    <3>1. <<r, i>> \in Spots(L, k)
      BY <1>4, <2>1, <2>4, SpotAt
    <3> QED BY <2>1, <2>2, <2>4, <3>1
  <2> QED BY <2>3, <2>4
<1>7. f \in [Spots(R, k) -> T]
  BY <1>6
<1>8. \A x \in Spots(R, k), y \in Spots(R, k) : f[x] = f[y] => x = y
  <2> SUFFICES ASSUME NEW x \in Spots(R, k), NEW y \in Spots(R, k), Up(x) = Up(y) PROVE x = y
    OBVIOUS
  <2> HIDE DEF Up, T
  <2>1. PICK r, i : x = <<r, i>> /\ (r = 0 => i \in 1..m) /\ Up(x) = (IF r = 0 THEN <<r, i + 1>> ELSE <<r, i>>)
    BY <1>6
  <2>2. PICK u, j : y = <<u, j>> /\ (u = 0 => j \in 1..m) /\ Up(y) = (IF u = 0 THEN <<u, j + 1>> ELSE <<u, j>>)
    BY <1>6
  <2>3. r = u
    BY <2>1, <2>2
  <2>4. CASE r = 0
    <3>1. i + 1 = j + 1 /\ i \in Int /\ j \in Int
      BY <2>1, <2>2, <2>3, <2>4
    <3> QED BY <2>1, <2>2, <2>3, <3>1
  <2>5. CASE r # 0
    BY <2>1, <2>2, <2>3, <2>5
  <2> QED BY <2>4, <2>5
<1>9. \A z \in T : \E x \in Spots(R, k) : f[x] = z
  <2> SUFFICES ASSUME NEW z \in T PROVE \E x \in Spots(R, k) : Up(x) = z
    OBVIOUS
  <2>1. PICK r, i : z = <<r, i>> /\ At(L, k, r, i)
    BY SpotIs
  <2>2. ~(r = 0 /\ i = 1)
    BY <2>1
  <2>3. CASE r = 0
    <3>1. PICK j \in 1..m : i = j + 1 /\ At(R, k, 0, j)
      BY <1>5, <2>1, <2>2, <2>3
    <3>2. <<0, j>> \in Spots(R, k)
      BY <3>1, SpotAt
    <3>3. Up(<<0, j>>) = z
      BY <2>1, <2>3, <3>1
    <3> QED BY <3>2, <3>3
  <2>4. CASE r # 0
    <3>1. <<r, i>> \in Spots(R, k)
      BY <1>5, <2>1, <2>4, SpotAt
    <3>2. Up(<<r, i>>) = z
      BY <2>1, <2>4
    <3> QED BY <3>1, <3>2
  <2> QED BY <2>3, <2>4
<1>10. /\ IsFiniteSet(T) /\ Cardinality(T) \in Nat
       /\ Cardinality(Spots(L, k)) = Cardinality(T) + Plus(k, Key(Head(L[0])), 1)
  <2>1. /\ IsFiniteSet(T)
        /\ Cardinality(T) = IF <<0, 1>> \in Spots(L, k) THEN Cardinality(Spots(L, k)) - 1 ELSE Cardinality(Spots(L, k))
    BY FS_RemoveElement
  <2>2. <<0, 1>> \in Spots(L, k) <=> Key(Head(L[0])) = k
    <3>1. 1 \in 1..(m + 1) /\ 0 \in 0..MaxProms
      OBVIOUS
    <3>2. At(L, k, 0, 1) <=> Key(Head(L[0])) = k
      BY <1>3, <3>1 DEF At
    <3> QED BY <3>2, SpotAt
  <2>3. Cardinality(T) \in Nat /\ Cardinality(Spots(L, k)) \in Nat
    BY <2>1, FS_CardinalityType
  <2> QED BY <2>1, <2>2, <2>3 DEF Plus
<1> HIDE DEF f, T
<1>11. IsFiniteSet(Spots(R, k)) /\ Cardinality(T) = Cardinality(Spots(R, k))
  <2>1. f \in Injection(Spots(R, k), T)
    BY <1>7, <1>8 DEF Injection, IsInjective
  <2>2. IsFiniteSet(Spots(R, k))
    BY <1>10, <2>1, FS_Injection
  <2> QED BY <1>7, <1>8, <1>9, <2>2, Renamed
<1> QED BY <1>10, <1>11

\* Moving a list to the end of the queue changes no number.
LEMMA DrainSpots ==
  ASSUME NEW S, NEW L, NEW R, NEW p, Drained(S, L, R, p), NEW k, IsFiniteSet(Spots(L, k))
  PROVE  IsFiniteSet(Spots(R, k)) /\ Cardinality(Spots(R, k)) = Cardinality(Spots(L, k))
<1> USE DEF Drained
<1>0. 0 \in 0..MaxProms /\ p \in 0..MaxProms /\ p # 0
  OBVIOUS
<1>1. PICK q \in Seq(S), l \in Seq(S) : q = L[0] /\ l = L[p]
  BY <1>0
<1>2. PICK m \in Nat, n \in Nat : m = Len(q) /\ n = Len(l)
  OBVIOUS
<1>3. /\ DOMAIN L[0] = 1..m /\ DOMAIN L[p] = 1..n /\ DOMAIN R[0] = 1..(m + n) /\ DOMAIN R[p] = {}
      /\ \A i \in 1..m : R[0][i] = L[0][i]
      /\ \A i \in 1..n : R[0][m + i] = L[p][i]
  <2>1. PICK r : r = q \o l
    OBVIOUS
  <2>2. /\ r \in Seq(S) /\ Len(r) = m + n
        /\ \A i \in 1..(m + n) : r[i] = IF i <= m THEN q[i] ELSE l[i - m]
    BY <1>2, <2>1, ConcatProperties
  <2>3. DOMAIN q = 1..m /\ DOMAIN l = 1..n /\ DOMAIN r = 1..(m + n)
    BY <1>2, <2>2
  <2>4. ASSUME NEW i \in 1..m PROVE r[i] = q[i]
    <3>1. i \in 1..(m + n) /\ i <= m
      OBVIOUS
    <3> QED BY <2>2, <3>1
  <2>5. ASSUME NEW i \in 1..n PROVE r[m + i] = l[i]
    <3>1. m + i \in 1..(m + n) /\ ~(m + i <= m) /\ (m + i) - m = i
      OBVIOUS
    <3> QED BY <2>2, <3>1
  <2>6. DOMAIN R[p] = {}
    OBVIOUS
  <2> QED BY <1>1, <2>1, <2>3, <2>4, <2>5, <2>6
<1> DEFINE Mv(x) == IF x[1] = p THEN <<0, m + x[2]>> ELSE x
           f == [x \in Spots(L, k) |-> Mv(x)]
<1>4. \A r, i : At(L, k, r, i) => IF r = p THEN i \in 1..n /\ At(R, k, 0, m + i)
                                         ELSE (r = 0 => i \in 1..m) /\ At(R, k, r, i)
  <2> SUFFICES ASSUME NEW r \in 0..MaxProms, NEW i, At(L, k, r, i)
               PROVE  IF r = p THEN i \in 1..n /\ At(R, k, 0, m + i)
                               ELSE (r = 0 => i \in 1..m) /\ At(R, k, r, i)
    BY DEF At
  <2>1. CASE r = p
    <3>1. i \in 1..n /\ Key(L[p][i]) = k
      BY <1>3, <2>1 DEF At
    <3>2. m + i \in 1..(m + n)
      BY <3>1
    <3>3. R[0][m + i] = L[p][i]
      BY <1>3, <3>1
    <3> QED BY <1>0, <1>3, <2>1, <3>1, <3>2, <3>3 DEF At
  <2>2. CASE r = 0
    <3>1. i \in 1..m /\ Key(L[0][i]) = k /\ r # p
      BY <1>0, <1>3, <2>2 DEF At
    <3>2. i \in 1..(m + n)
      BY <3>1
    <3>3. R[0][i] = L[0][i]
      BY <1>3, <3>1
    <3> QED BY <1>3, <2>2, <3>3, <3>1, <3>2 DEF At
  <2>3. CASE r # 0 /\ r # p
    BY <2>3 DEF At
  <2> QED BY <2>1, <2>2, <2>3
<1>5. \A r, i : At(R, k, r, i) => (r # p /\ At(L, k, r, i)) \/ (r = 0 /\ \E j \in 1..n : i = m + j /\ At(L, k, p, j))
  <2> SUFFICES ASSUME NEW r \in 0..MaxProms, NEW i, At(R, k, r, i)
               PROVE  (r # p /\ At(L, k, r, i)) \/ (r = 0 /\ \E j \in 1..n : i = m + j /\ At(L, k, p, j))
    BY DEF At
  <2>1. r # p
    BY <1>3 DEF At
  <2>2. CASE r = 0
    <3>1. i \in 1..(m + n) /\ Key(R[0][i]) = k
      BY <1>3, <2>2 DEF At
    <3>2. CASE i <= m
      <4>1. i \in 1..m /\ R[0][i] = L[0][i]
        BY <1>3, <3>1, <3>2
      <4> QED BY <1>3, <2>1, <2>2, <3>1, <4>1 DEF At
    <3>3. CASE ~(i <= m)
      <4>1. PICK j \in 1..n : i = m + j
        <5>1. i - m \in 1..n /\ i = m + (i - m)
          BY <3>1, <3>3
        <5> QED BY <5>1
      <4>2. R[0][i] = L[p][j] /\ p \in 0..MaxProms
        BY <1>0, <1>3, <4>1
      <4>3. At(L, k, p, j)
        BY <1>3, <3>1, <4>1, <4>2 DEF At
      <4> QED BY <2>2, <4>1, <4>3
    <3> QED BY <3>2, <3>3
  <2>3. CASE r # 0
    BY <2>1, <2>3 DEF At
  <2> QED BY <2>2, <2>3
<1>6. ASSUME NEW x \in Spots(L, k)
      PROVE  \E r, i : /\ x = <<r, i>> /\ (r = p => i \in 1..n) /\ (r = 0 => i \in 1..m)
                       /\ Mv(x) = (IF r = p THEN <<0, m + i>> ELSE <<r, i>>) /\ Mv(x) \in Spots(R, k)
  <2>1. PICK r, i : x = <<r, i>> /\ At(L, k, r, i)
    BY SpotIs
  <2>2. Mv(x) = (IF r = p THEN <<0, m + i>> ELSE <<r, i>>)
    BY <2>1
  <2>3. CASE r = p
    <3>1. i \in 1..n /\ At(R, k, 0, m + i)
      BY <1>4, <2>1, <2>3
    <3>2. <<0, m + i>> \in Spots(R, k)
      BY <3>1, SpotAt
    <3>3. r # 0
      BY <2>3
    <3> QED BY <2>1, <2>2, <2>3, <3>1, <3>2, <3>3
  <2>4. CASE r # p
    <3>1. (r = 0 => i \in 1..m) /\ At(R, k, r, i)
      BY <1>4, <2>1, <2>4
    <3>2. <<r, i>> \in Spots(R, k)
      BY <3>1, SpotAt
    <3> QED BY <2>1, <2>2, <2>4, <3>1, <3>2
  <2> QED BY <2>3, <2>4
<1>7. f \in [Spots(L, k) -> Spots(R, k)]
  BY <1>6
<1>8. \A x \in Spots(L, k), y \in Spots(L, k) : f[x] = f[y] => x = y
  <2> SUFFICES ASSUME NEW x \in Spots(L, k), NEW y \in Spots(L, k), Mv(x) = Mv(y) PROVE x = y
    OBVIOUS
  <2> HIDE DEF Mv
  <2>1. PICK r, i : /\ x = <<r, i>> /\ (r = p => i \in 1..n) /\ (r = 0 => i \in 1..m)
                    /\ Mv(x) = (IF r = p THEN <<0, m + i>> ELSE <<r, i>>)
    BY <1>6
  <2>2. PICK u, j : /\ y = <<u, j>> /\ (u = p => j \in 1..n) /\ (u = 0 => j \in 1..m)
                    /\ Mv(y) = (IF u = p THEN <<0, m + j>> ELSE <<u, j>>)
    BY <1>6
  <2>3. CASE r = p /\ u = p
    <3>1. m + i = m + j /\ i \in Int /\ j \in Int
      BY <2>1, <2>2, <2>3
    <3> QED BY <2>1, <2>2, <2>3, <3>1
  <2>4. CASE r # p /\ u # p
    BY <2>1, <2>2, <2>4
  <2>5. CASE r = p /\ u # p
    <3>1. u = 0 /\ m + i = j
      BY <2>1, <2>2, <2>5
    <3> QED BY <2>1, <2>2, <2>5, <3>1
  <2>6. CASE r # p /\ u = p
    <3>1. r = 0 /\ m + j = i
      BY <2>1, <2>2, <2>6
    <3> QED BY <2>1, <2>2, <2>6, <3>1
  <2> QED BY <2>3, <2>4, <2>5, <2>6
<1>9. \A z \in Spots(R, k) : \E x \in Spots(L, k) : f[x] = z
  <2> SUFFICES ASSUME NEW z \in Spots(R, k) PROVE \E x \in Spots(L, k) : Mv(x) = z
    OBVIOUS
  <2>1. PICK r, i : z = <<r, i>> /\ At(R, k, r, i)
    BY SpotIs
  <2>2. CASE r # p /\ At(L, k, r, i)
    <3>1. <<r, i>> \in Spots(L, k)
      BY <2>2, SpotAt
    <3>2. Mv(<<r, i>>) = z
      BY <2>1, <2>2
    <3> QED BY <3>1, <3>2
  <2>3. CASE r = 0 /\ \E j \in 1..n : i = m + j /\ At(L, k, p, j)
    <3>1. PICK j \in 1..n : i = m + j /\ At(L, k, p, j)
      BY <2>3
    <3>2. <<p, j>> \in Spots(L, k)
      BY <3>1, SpotAt
    <3>3. Mv(<<p, j>>) = z
      BY <2>1, <2>3, <3>1
    <3> QED BY <3>2, <3>3
  <2> QED BY <1>5, <2>1, <2>2, <2>3
<1> HIDE DEF f
<1> QED BY <1>7, <1>8, <1>9, Renamed

-----------------------------------------------------------------------------
(* Closures and their keys.                                                *)

\* What a closure of each kind has.
LEMMA ClosureFacts ==
  ASSUME NEW n \in Nat, NEW d \in Closures(n)
  PROVE  /\ \/ d.fn \in {"then", "finally", "comb"} /\ d.p \in 1..n /\ d.q \in 1..n
            \/ d.fn \in {"adopt_job", "adopt_settle"} /\ d.q \in 1..n /\ d.h \in 1..n
            \/ d.fn = "defer_step" /\ d.q \in 1..n /\ d.st \in Done /\ d.hops \in {1, 2}
            \/ d.fn = "finally_step" /\ d.q \in 1..n /\ d.r \in 1..n /\ d.st \in Done /\ d.val \in Vals
            \/ d.fn = "resume" /\ d.t \in 1..n
            \/ d.fn = "queued" /\ d.n \in Nat
BY DEF Closures

\* The closures the runtime makes.
LEMMA MakeClosures ==
  ASSUME NEW n \in Nat
  PROVE  /\ \A p \in 1..n, q \in 1..n, on \in SUBSET Done :
               [fn |-> "then", p |-> p, q |-> q, on |-> on] \in Closures(n)
         /\ \A p \in 1..n, q \in 1..n : /\ [fn |-> "finally", p |-> p, q |-> q] \in Closures(n)
                                        /\ [fn |-> "comb", p |-> p, q |-> q] \in Closures(n)
                                        /\ [fn |-> "adopt_job", q |-> q, h |-> p] \in Closures(n)
                                        /\ [fn |-> "adopt_settle", q |-> q, h |-> p] \in Closures(n)
         /\ \A q \in 1..n, st \in Done, m \in {1, 2} :
               [fn |-> "defer_step", q |-> q, st |-> st, hops |-> m] \in Closures(n)
         /\ \A q \in 1..n, r \in 1..n, st \in Done, v \in Vals :
               [fn |-> "finally_step", q |-> q, r |-> r, st |-> st, val |-> v] \in Closures(n)
         /\ \A t \in 1..n : [fn |-> "resume", t |-> t] \in Closures(n)
         /\ \A m \in Nat : [fn |-> "queued", n |-> m] \in Closures(n)
BY DEF Closures

\* More promises, more closures.
LEMMA ClosuresGrow ==
  ASSUME NEW n \in Nat, NEW d \in Closures(n)
  PROVE  d \in Closures(n + 1)
<1>1. 1..n \subseteq 1..(n + 1)
  OBVIOUS
<1> QED BY <1>1 DEF Closures

\* A closure's key.
LEMMA KeyFacts ==
  ASSUME NEW n \in Nat, NEW d \in Closures(n)
  PROVE  /\ d.fn = "resume" => d.t \in 1..n /\ Key(d) = <<"resume", d.t>>
         /\ d.fn = "queued" => Key(d) = NoKey
         /\ d.fn \notin {"resume", "queued"} => d.q \in 1..n /\ Key(d) = <<"settle", d.q>> /\ d.fn # "none"
         /\ \A q : Settles(d, q) <=> Key(d) = <<"settle", q>>
         /\ \A t : d.fn = "resume" /\ d.t = t <=> Key(d) = <<"resume", t>>
<1>1. /\ d.fn = "resume" => d.t \in 1..n
      /\ d.fn \notin {"resume", "queued"} => d.q \in 1..n /\ d.fn # "none"
  BY ClosureFacts
<1>2. /\ d.fn = "resume" => Key(d) = <<"resume", d.t>>
      /\ d.fn = "queued" => Key(d) = NoKey
      /\ d.fn \notin {"resume", "queued"} => Key(d) = <<"settle", d.q>>
  BY <1>1 DEF Key, NoKey
<1> QED BY <1>1, <1>2 DEF Settles, NoKey

-----------------------------------------------------------------------------
(* The lists of a state.                                                   *)

\* A list in the order it will run.
LEMMA ReverseFacts ==
  ASSUME NEW S, NEW l \in Seq(S)
  PROVE  /\ Reverse(l) \in Seq(S) /\ Len(Reverse(l)) = Len(l)
         /\ \A i \in 1..Len(l) : Reverse(l)[i] = l[Len(l) - i + 1] /\ Len(l) - i + 1 \in 1..Len(l)
         /\ \A d \in S : Reverse(<<d>> \o l) = Append(Reverse(l), d)
<1>1. PICK m \in Nat : m = Len(l)
  OBVIOUS
<1>2. \A i \in 1..m : m - i + 1 \in 1..m
  OBVIOUS
<1>3. PICK v : v = Reverse(l)
  OBVIOUS
<1>4. v = [i \in 1..m |-> l[m - i + 1]]
  BY <1>1, <1>3 DEF Reverse
<1>5. v \in [1..m -> S]
  BY <1>1, <1>2, <1>4
<1>6. v \in Seq(S) /\ Len(v) = m
  BY <1>5
<1>7. ASSUME NEW d \in S PROVE Reverse(<<d>> \o l) = Append(v, d)
  <2>1. <<d>> \in Seq(S) /\ Len(<<d>>) = 1 /\ <<d>>[1] = d
    OBVIOUS
  <2>2. PICK a : a = <<d>> \o l
    OBVIOUS
  <2>3. /\ a \in Seq(S) /\ Len(a) = m + 1 /\ a[1] = d
        /\ \A i \in 1..m : a[i + 1] = l[i]
    <3>1. /\ <<d>> \o l \in Seq(S) /\ Len(<<d>> \o l) = 1 + Len(l)
          /\ \A i \in 1..(1 + Len(l)) : (<<d>> \o l)[i] = IF i <= 1 THEN <<d>>[i] ELSE l[i - 1]
      BY <2>1, ConcatProperties, Zenon
    <3>2. /\ a \in Seq(S) /\ Len(a) = 1 + m
          /\ \A i \in 1..(1 + m) : a[i] = IF i <= 1 THEN <<d>>[i] ELSE l[i - 1]
      BY <1>1, <2>2, <3>1, Zenon
    <3>3. 1 \in 1..(1 + m) /\ \A i \in 1..m : i + 1 \in 1..(1 + m) /\ ~(i + 1 <= 1) /\ (i + 1) - 1 = i
      OBVIOUS
    <3> QED BY <2>1, <3>2, <3>3
  <2>4. PICK b : b = Reverse(a)
    OBVIOUS
  <2>5. b = [i \in 1..(m + 1) |-> a[(m + 1) - i + 1]]
    BY <2>3, <2>4 DEF Reverse
  <2>6. PICK e : e = Append(v, d)
    OBVIOUS
  <2>7. e \in Seq(S) /\ Len(e) = m + 1 /\ e[m + 1] = d /\ \A i \in 1..m : e[i] = v[i]
    BY <1>6, <2>6, AppendProperties
  <2>8. ASSUME NEW i \in 1..(m + 1) PROVE b[i] = e[i]
    <3>1. CASE i = m + 1
      <4>1. (m + 1) - i + 1 = 1
        BY <3>1
      <4> QED BY <2>3, <2>5, <2>7, <3>1, <4>1
    <3>2. CASE i # m + 1
      <4>1. i \in 1..m /\ m - i + 1 \in 1..m /\ (m + 1) - i + 1 = (m - i + 1) + 1
        BY <3>2
      <4>2. b[i] = l[m - i + 1]
        BY <2>3, <2>5, <4>1
      <4> QED BY <1>4, <2>7, <4>1, <4>2
    <3> QED BY <3>1, <3>2
  <2>9. e = [i \in 1..(m + 1) |-> e[i]]
    BY <2>7
  <2>10. b = e
    BY <2>5, <2>8, <2>9
  <2> QED BY <2>2, <2>4, <2>6, <2>10
<1> QED BY <1>1, <1>2, <1>3, <1>4, <1>6, <1>7

\* The lists hold closures.
LEMMA ListsFacts ==
  ASSUME NEW n, NEW s \in RtType(n)
  PROVE  /\ Lists(s) \in [0..MaxProms -> Seq(Closures(n))]
         /\ Lists(s)[0] = s.mt
         /\ \A p \in Ids : p \in 0..MaxProms /\ p # 0 /\ Lists(s)[p] = Reverse(s.prom[p].rx)
<1>1. MaxProms \in Nat /\ 0 \in 0..MaxProms /\ \A p \in Ids : p \in 0..MaxProms /\ p # 0
  BY PromiseAssumption DEF Ids
<1>2. \A p \in 0..MaxProms : p # 0 => p \in Ids
  BY <1>1 DEF Ids
<1>3. s.mt \in Seq(Closures(n)) /\ \A p \in Ids : s.prom[p].rx \in Seq(Closures(n))
  BY DEF RtType, PromType
<1>4. \A p \in Ids : Reverse(s.prom[p].rx) \in Seq(Closures(n))
  BY <1>3, ReverseFacts
<1> QED BY <1>1, <1>2, <1>3, <1>4 DEF Lists

-----------------------------------------------------------------------------
(* What the smallest steps do to the state.                                *)

Same(s, r) == /\ r.task = s.task /\ r.comb = s.comb /\ r.run = s.run
              /\ r.cur = s.cur /\ r.prev = s.prev
Quiet(s, r, n) ==
    /\ r \in RtType(n) /\ Same(s, r) /\ r.mt = s.mt
    /\ \A q \in Ids : r.prom[q].rx = s.prom[q].rx /\ r.prom[q].st = s.prom[q].st

\* A promise with one word changed.
LEMMA SetWord ==
  ASSUME NEW n, NEW o \in PromType(n)
  PROVE  /\ \A b \in BOOLEAN : \E x \in PromType(n) : x = [o EXCEPT !.handled = b] /\ x.rx = o.rx /\ x.st = o.st
         /\ \A b \in BOOLEAN : \E x \in PromType(n) : x = [o EXCEPT !.queued = b] /\ x.rx = o.rx /\ x.st = o.st
         /\ \A v \in Vals : \E x \in PromType(n) : x = [o EXCEPT !.val = v] /\ x.rx = o.rx /\ x.st = o.st
         /\ \A st \in Done : \E x \in PromType(n) : x = [o EXCEPT !.st = st] /\ x.rx = o.rx /\ x.st = st
         /\ \A l \in Seq(Closures(n)) : \E x \in PromType(n) : x = [o EXCEPT !.rx = l] /\ x.rx = l /\ x.st = o.st
<1>1. PICK S : S = Seq(Closures(n))
  OBVIOUS
<1>2. PromType(n) = [st : {Pending} \cup Done, val : Vals, rx : S, handled : BOOLEAN, queued : BOOLEAN] /\ S = Seq(Closures(n))
  BY <1>1 DEF PromType
<1>3. ASSUME NEW b \in BOOLEAN
      PROVE  \E x \in PromType(n) : x = [o EXCEPT !.handled = b] /\ x.rx = o.rx /\ x.st = o.st
  <2>1. PICK x : x = [o EXCEPT !.handled = b]
    OBVIOUS
  <2>2. x \in PromType(n) /\ x.rx = o.rx /\ x.st = o.st
    BY <1>2, <2>1
  <2> QED BY <2>1, <2>2, Zenon
<1>4. ASSUME NEW b \in BOOLEAN
      PROVE  \E x \in PromType(n) : x = [o EXCEPT !.queued = b] /\ x.rx = o.rx /\ x.st = o.st
  <2>1. PICK x : x = [o EXCEPT !.queued = b]
    OBVIOUS
  <2>2. x \in PromType(n) /\ x.rx = o.rx /\ x.st = o.st
    BY <1>2, <2>1
  <2> QED BY <2>1, <2>2, Zenon
<1>5. ASSUME NEW v \in Vals
      PROVE  \E x \in PromType(n) : x = [o EXCEPT !.val = v] /\ x.rx = o.rx /\ x.st = o.st
  <2>1. PICK x : x = [o EXCEPT !.val = v]
    OBVIOUS
  <2>2. x \in PromType(n) /\ x.rx = o.rx /\ x.st = o.st
    BY <1>2, <2>1
  <2> QED BY <2>1, <2>2, Zenon
<1>6. ASSUME NEW st \in Done
      PROVE  \E x \in PromType(n) : x = [o EXCEPT !.st = st] /\ x.rx = o.rx /\ x.st = st
  <2>1. PICK x : x = [o EXCEPT !.st = st]
    OBVIOUS
  <2>2. x \in PromType(n) /\ x.rx = o.rx /\ x.st = st
    BY <1>2, <2>1
  <2> QED BY <2>1, <2>2, Zenon
<1>7. ASSUME NEW l \in Seq(Closures(n))
      PROVE  \E x \in PromType(n) : x = [o EXCEPT !.rx = l] /\ x.rx = l /\ x.st = o.st
  <2>1. PICK x : x = [o EXCEPT !.rx = l]
    OBVIOUS
  <2>2. x \in PromType(n) /\ x.rx = l /\ x.st = o.st
    BY <1>2, <2>1
  <2> QED BY <2>1, <2>2, Zenon
<1> QED BY <1>3, <1>4, <1>5, <1>6, <1>7

PutProm(s, p, x) == [s EXCEPT !.prom[p] = x]
PutQueue(s, m) == [s EXCEPT !.mt = m]
PutUnhandled(s, u) == [s EXCEPT !.unh = u]

\* A state with another promise.
LEMMA SetProm ==
  ASSUME NEW n, NEW s \in RtType(n), NEW p \in Ids, NEW x \in PromType(n)
  PROVE  /\ PutProm(s, p, x) \in RtType(n) /\ Same(s, PutProm(s, p, x))
         /\ PutProm(s, p, x).mt = s.mt /\ PutProm(s, p, x).unh = s.unh
         /\ PutProm(s, p, x).prom[p] = x /\ \A q \in Ids : q # p => PutProm(s, p, x).prom[q] = s.prom[q]
<1> DEFINE r == PutProm(s, p, x)
<1>1. PICK pr : pr = [s.prom EXCEPT ![p] = x]
  OBVIOUS
<1>2. s.prom \in [Ids -> PromType(n)]
  BY DEF RtType
<1>3. pr \in [Ids -> PromType(n)] /\ pr[p] = x /\ \A q \in Ids : q # p => pr[q] = s.prom[q]
  BY <1>1, <1>2
<1>4. r = [s EXCEPT !.prom = pr]
  BY <1>1 DEF PutProm
<1>5. r \in RtType(n) /\ Same(s, r) /\ r.mt = s.mt /\ r.unh = s.unh /\ r.prom = pr
  BY <1>3, <1>4 DEF RtType, Same
<1> QED BY <1>3, <1>5

\* A state with another queue.
LEMMA SetQueue ==
  ASSUME NEW n, NEW s \in RtType(n), NEW m \in Seq(Closures(n))
  PROVE  /\ PutQueue(s, m) \in RtType(n) /\ Same(s, PutQueue(s, m))
         /\ PutQueue(s, m).mt = m /\ PutQueue(s, m).unh = s.unh /\ PutQueue(s, m).prom = s.prom
BY DEF RtType, Same, PutQueue

\* A state with other rejections to report.
LEMMA SetUnhandled ==
  ASSUME NEW n, NEW s \in RtType(n), NEW u \in Seq(Ids)
  PROVE  /\ PutUnhandled(s, u) \in RtType(n) /\ Same(s, PutUnhandled(s, u))
         /\ PutUnhandled(s, u).mt = s.mt /\ PutUnhandled(s, u).prom = s.prom
BY DEF RtType, Same, PutUnhandled

\* Marking, noting and storing a value move no closure and settle nothing.
LEMMA QuietFacts ==
  ASSUME NEW n, NEW s \in RtType(n), NEW p \in Ids, NEW v \in Vals
  PROVE  /\ Quiet(s, s, n) /\ Quiet(s, MarkHandled(s, p), n)
         /\ Quiet(s, NoteRejected(s, p), n) /\ Quiet(s, StoreValue(s, p, v), n)
<1>1. Quiet(s, s, n)
  BY DEF Quiet, Same
<1>0. PICK o \in PromType(n) : o = s.prom[p]
  BY DEF RtType
<1>2. PICK b \in BOOLEAN : b = TRUE
  OBVIOUS
<1>3. Quiet(s, MarkHandled(s, p), n)
  <2>1. PICK r : r = [s EXCEPT !.prom[p].handled = b]
    OBVIOUS
  <2>2. PICK x \in PromType(n) : x = [o EXCEPT !.handled = b] /\ x.rx = o.rx /\ x.st = o.st
    BY SetWord
  <2>3. Quiet(s, r, n)
    <3>1. PICK a : a = PutProm(s, p, x)
      OBVIOUS
    <3>2. /\ a \in RtType(n) /\ Same(s, a) /\ a.mt = s.mt
          /\ a.prom[p] = x /\ \A q \in Ids : q # p => a.prom[q] = s.prom[q]
      BY <3>1, SetProm
    <3>3. r = a
      BY <1>0, <2>1, <2>2, <3>1 DEF PutProm
    <3> QED BY <1>0, <2>2, <3>2, <3>3 DEF Quiet
  <2> QED BY <1>2, <2>1, <2>3 DEF MarkHandled
<1>4. Quiet(s, StoreValue(s, p, v), n)
  <2>1. PICK r : r = [s EXCEPT !.prom[p].val = v]
    OBVIOUS
  <2>2. PICK x \in PromType(n) : x = [o EXCEPT !.val = v] /\ x.rx = o.rx /\ x.st = o.st
    BY SetWord
  <2>3. Quiet(s, r, n)
    <3>1. PICK a : a = PutProm(s, p, x)
      OBVIOUS
    <3>2. /\ a \in RtType(n) /\ Same(s, a) /\ a.mt = s.mt
          /\ a.prom[p] = x /\ \A q \in Ids : q # p => a.prom[q] = s.prom[q]
      BY <3>1, SetProm
    <3>3. r = a
      BY <1>0, <2>1, <2>2, <3>1 DEF PutProm
    <3> QED BY <1>0, <2>2, <3>2, <3>3 DEF Quiet
  <2> QED BY <2>1, <2>3 DEF StoreValue
<1>5. Quiet(s, NoteRejected(s, p), n)
  <2>1. PICK u \in Seq(Ids) : u = Append(s.unh, p)
    BY AppendProperties DEF RtType
  <2>2. PICK x \in PromType(n) : x = [o EXCEPT !.queued = b] /\ x.rx = o.rx /\ x.st = o.st
    BY SetWord
  <2>3. PICK a : a = PutProm(s, p, x)
    OBVIOUS
  <2>4. PICK r : r = PutUnhandled(a, u)
    OBVIOUS
  <2>5. Quiet(s, r, n)
    <3>1. /\ a \in RtType(n) /\ Same(s, a) /\ a.mt = s.mt
          /\ a.prom[p] = x /\ \A q \in Ids : q # p => a.prom[q] = s.prom[q]
      BY <2>3, SetProm
    <3>2. r \in RtType(n) /\ Same(a, r) /\ r.mt = a.mt /\ r.prom = a.prom
      BY <2>4, <3>1, SetUnhandled
    <3> QED BY <1>0, <2>2, <3>1, <3>2 DEF Quiet, Same
  <2>6. NoteRejected(s, p) = s \/ NoteRejected(s, p) = r
    BY <1>0, <1>2, <2>1, <2>2, <2>3, <2>4 DEF NoteRejected, PutProm, PutUnhandled
  <2> QED BY <1>1, <2>5, <2>6
<1> QED BY <1>1, <1>3, <1>4, <1>5

SetState(s, p, st) == [s EXCEPT !.prom[p].st = st]

\* Settling sets one state word.
LEMMA StoreFacts ==
  ASSUME NEW n, NEW s \in RtType(n), NEW p \in Ids, NEW st \in Done, NEW v \in Vals,
         NEW r \in {Store(s, p, st, v), SetState(s, p, st)}
  PROVE  /\ r \in RtType(n) /\ Same(s, r) /\ r.mt = s.mt
         /\ \A q \in Ids : r.prom[q].rx = s.prom[q].rx /\ (q # p => r.prom[q].st = s.prom[q].st)
         /\ r.prom[p].st = st
<1>1. PICK o \in PromType(n) : o = s.prom[p]
  BY DEF RtType
<1>2. PICK x \in PromType(n) : x = [o EXCEPT !.st = st] /\ x.rx = o.rx /\ x.st = st
  BY SetWord
<1>3. PICK a : a = PutProm(s, p, x)
  OBVIOUS
<1>4. /\ a \in RtType(n) /\ Same(s, a) /\ a.mt = s.mt
      /\ a.prom[p] = x /\ \A q \in Ids : q # p => a.prom[q] = s.prom[q]
  BY <1>3, SetProm
<1>5. a = SetState(s, p, st)
  BY <1>1, <1>2, <1>3 DEF PutProm, SetState
<1>6. CASE r = StoreValue(a, p, v)
  <2>1. Quiet(a, r, n)
    BY <1>4, <1>6, QuietFacts
  <2> QED BY <1>1, <1>2, <1>4, <2>1 DEF Quiet, Same
<1>7. CASE r = a
  BY <1>1, <1>2, <1>4, <1>7
<1>8. Store(s, p, st, v) = StoreValue(a, p, v)
  BY <1>5 DEF Store, StoreValue, SetState
<1> QED BY <1>5, <1>6, <1>7, <1>8

\* A closure more in the queue.
LEMMA EnqueueFacts ==
  ASSUME NEW n, NEW s \in RtType(n), NEW d \in Closures(n)
  PROVE  /\ Enqueue(s, d) \in RtType(n) /\ Same(s, Enqueue(s, d))
         /\ Enqueue(s, d).prom = s.prom /\ Enqueue(s, d).mt = Append(s.mt, d)
<1>1. PICK m \in Seq(Closures(n)) : m = Append(s.mt, d)
  BY AppendProperties DEF RtType
<1>2. PICK r : r = [s EXCEPT !.mt = m]
  OBVIOUS
<1>3. r \in RtType(n) /\ Same(s, r) /\ r.prom = s.prom /\ r.mt = m
  BY <1>2 DEF RtType, Same
<1>4. Enqueue(s, d) = r
  BY <1>1, <1>2 DEF Enqueue
<1> QED BY <1>1, <1>3, <1>4

PushOn(s, p, d) == [s EXCEPT !.prom[p].rx = <<d>> \o @]
Pushed(s, p, d) == <<d>> \o s.prom[p].rx

\* A closure more on a list.
LEMMA PushFacts ==
  ASSUME NEW n, NEW s \in RtType(n), NEW p \in Ids, NEW d \in Closures(n), NEW r, r = PushOn(s, p, d)
  PROVE  /\ r \in RtType(n) /\ Same(s, r) /\ r.mt = s.mt
         /\ \A q \in Ids : r.prom[q].st = s.prom[q].st /\ (q # p => r.prom[q].rx = s.prom[q].rx)
         /\ r.prom[p].rx = Pushed(s, p, d)
<1>1. s.prom[p].rx \in Seq(Closures(n)) /\ <<d>> \in Seq(Closures(n))
  BY DEF RtType, PromType
<1>2. <<d>> \o s.prom[p].rx \in Seq(Closures(n))
  BY <1>1, ConcatProperties, Zenon
<1>3. PICK m \in Seq(Closures(n)) : m = Pushed(s, p, d)
  BY <1>2 DEF Pushed
<1>4. PICK o \in PromType(n) : o = s.prom[p]
  BY DEF RtType
<1>5. PICK x \in PromType(n) : x = [o EXCEPT !.rx = m] /\ x.rx = m /\ x.st = o.st
  BY SetWord
<1>6. PICK a : a = PutProm(s, p, x)
  OBVIOUS
<1>7. /\ a \in RtType(n) /\ Same(s, a) /\ a.mt = s.mt
      /\ a.prom[p] = x /\ \A q \in Ids : q # p => a.prom[q] = s.prom[q]
  BY <1>6, SetProm
<1>8. r = a
  BY <1>3, <1>4, <1>5, <1>6 DEF PutProm, PushOn, Pushed
<1> QED BY <1>3, <1>4, <1>5, <1>7, <1>8

\* A closure less in the queue.
LEMMA PopFacts ==
  ASSUME NEW n, NEW s \in RtType(n), s.mt # <<>>, NEW r, r = [s EXCEPT !.mt = Tail(@)]
  PROVE  /\ r \in RtType(n) /\ Same(s, r) /\ r.prom = s.prom /\ r.mt = Tail(s.mt)
         /\ Head(s.mt) \in Closures(n)
<1>1. PICK m \in Seq(Closures(n)) : m = Tail(s.mt)
  BY HeadTailProperties DEF RtType
<1>2. r = [s EXCEPT !.mt = m] /\ Head(s.mt) \in Closures(n)
  BY <1>1, HeadTailProperties DEF RtType
<1> QED BY <1>1, <1>2 DEF RtType, Same

Joined(s, p) == s.mt \o Reverse(s.prom[p].rx)
Emptied(s, p) == [s EXCEPT !.prom[p].rx = <<>>, !.mt = @ \o Reverse(s.prom[p].rx)]

\* A list drained into the queue.
LEMMA DrainFacts ==
  ASSUME NEW n, NEW s \in RtType(n), NEW p \in Ids, NEW r, r = Emptied(s, p)
  PROVE  /\ r \in RtType(n) /\ Same(s, r) /\ r.mt = Joined(s, p)
         /\ \A q \in Ids : r.prom[q].st = s.prom[q].st /\ (q # p => r.prom[q].rx = s.prom[q].rx)
         /\ r.prom[p].rx = <<>>
<1>1. s.prom[p].rx \in Seq(Closures(n)) /\ s.mt \in Seq(Closures(n))
  BY DEF RtType, PromType
<1>2. Reverse(s.prom[p].rx) \in Seq(Closures(n))
  BY <1>1, ReverseFacts
<1>3. PICK m \in Seq(Closures(n)) : m = Joined(s, p)
  BY <1>1, <1>2, ConcatProperties DEF Joined
<1>4. PICK e \in Seq(Closures(n)) : e = <<>>
  BY EmptySeq
<1>5. PICK o \in PromType(n) : o = s.prom[p]
  BY DEF RtType
<1>6. PICK x \in PromType(n) : x = [o EXCEPT !.rx = e] /\ x.rx = e /\ x.st = o.st
  BY SetWord
<1>7. PICK a : a = PutProm(s, p, x)
  OBVIOUS
<1>8. /\ a \in RtType(n) /\ Same(s, a) /\ a.mt = s.mt
      /\ a.prom[p] = x /\ \A q \in Ids : q # p => a.prom[q] = s.prom[q]
  BY <1>7, SetProm
<1>9. PICK z : z = PutQueue(a, m)
  OBVIOUS
<1>10. z \in RtType(n) /\ Same(a, z) /\ z.mt = m /\ z.prom = a.prom
  BY <1>8, <1>9, SetQueue
<1>11. r = z
  BY <1>3, <1>4, <1>5, <1>6, <1>7, <1>9 DEF PutProm, PutQueue, Emptied, Joined
<1>12. /\ z \in RtType(n) /\ Same(s, z)
       /\ \A q \in Ids : z.prom[q].st = s.prom[q].st /\ (q # p => z.prom[q].rx = s.prom[q].rx)
       /\ z.prom[p].rx = e
  BY <1>5, <1>6, <1>8, <1>10 DEF Same
<1> QED BY <1>3, <1>4, <1>10, <1>11, <1>12

-----------------------------------------------------------------------------
(* What the smallest steps do to where closures wait.                      *)

Adds(s, r, n, c, k) ==
    /\ Fine(r, n, c, 0) /\ Same(s, r)
    /\ \A p \in Ids : s.prom[p].st # Pending => r.prom[p].st # Pending
    /\ \A j \in Keys : Count(r, j) = Count(s, j) + Plus(j, k, 1)

\* The elements of a longer, a shorter and a joined list.
LEMMA RangeFacts ==
  ASSUME NEW S, NEW l \in Seq(S)
  PROVE  /\ \A d \in S : Range(Append(l, d)) = Range(l) \cup {d}
         /\ l # <<>> => Range(Tail(l)) \subseteq Range(l) /\ Head(l) \in Range(l)
         /\ Range(Reverse(l)) = Range(l) /\ Range(l) \subseteq S
<1>1. PICK m \in Nat : m = Len(l) /\ DOMAIN l = 1..m
  OBVIOUS
<1>2. ASSUME NEW d \in S PROVE Range(Append(l, d)) = Range(l) \cup {d}
  <2>1. PICK a : a = Append(l, d)
    OBVIOUS
  <2>2. a \in Seq(S) /\ Len(a) = m + 1 /\ a[m + 1] = d /\ \A i \in 1..m : a[i] = l[i]
    BY <1>1, <2>1, AppendProperties
  <2>3. DOMAIN a = 1..(m + 1) /\ (\A i : i \in 1..(m + 1) <=> i \in 1..m \/ i = m + 1)
    BY <2>2
  <2>4. Range(a) = Range(l) \cup {d}
    BY <1>1, <2>2, <2>3 DEF Range
  <2> QED BY <2>1, <2>4
<1>3. ASSUME l # <<>> PROVE Range(Tail(l)) \subseteq Range(l) /\ Head(l) \in Range(l)
  <2>1. PICK a : a = Tail(l)
    OBVIOUS
  <2>2. m > 0
    BY <1>1, <1>3, EmptySeq
  <2>3. a \in Seq(S) /\ Len(a) = m - 1 /\ \A i \in 1..(m - 1) : a[i] = l[i + 1]
    BY <1>1, <1>3, <2>1, HeadTailProperties
  <2>4. DOMAIN a = 1..(m - 1)
    BY <2>2, <2>3
  <2>5. \A i \in 1..(m - 1) : i + 1 \in 1..m
    BY <2>2
  <2>6. Range(a) \subseteq Range(l)
    BY <1>1, <2>3, <2>4, <2>5 DEF Range
  <2>7. 1 \in 1..m /\ Head(l) = l[1]
    BY <2>2
  <2> QED BY <1>1, <2>1, <2>6, <2>7 DEF Range
<1>4. Range(Reverse(l)) = Range(l)
  <2>1. PICK a : a = Reverse(l)
    OBVIOUS
  <2>2. /\ a \in Seq(S) /\ Len(a) = m
        /\ \A i \in 1..m : a[i] = l[m - i + 1] /\ m - i + 1 \in 1..m
    BY <1>1, <2>1, ReverseFacts
  <2>3. DOMAIN a = 1..m
    BY <2>2
  <2>4. ASSUME NEW i \in 1..m PROVE \E j \in 1..m : a[j] = l[i]
    <3>1. m - i + 1 \in 1..m /\ m - (m - i + 1) + 1 = i
      OBVIOUS
    <3>2. a[m - i + 1] = l[m - (m - i + 1) + 1]
      BY <2>2, <3>1
    <3> QED BY <3>1, <3>2
  <2>5. ASSUME NEW i \in 1..m PROVE \E j \in 1..m : a[i] = l[j]
    BY <2>2
  <2>6. Range(a) = Range(l)
    <3>1. Range(a) = {a[j] : j \in 1..m} /\ Range(l) = {l[j] : j \in 1..m}
      BY <1>1, <2>3 DEF Range
    <3> QED BY <2>4, <2>5, <3>1
  <2> QED BY <2>1, <2>6
<1>5. Range(l) \subseteq S
  BY <1>1 DEF Range
<1> QED BY <1>2, <1>3, <1>4, <1>5

\* A number of closures is a number.
LEMMA CountType ==
  ASSUME NEW s, Counted(s), NEW k \in Keys
  PROVE  Count(s, k) \in Nat
BY FS_CardinalityType DEF Count, Counted

\* What a well-formed state says of the number of promises and of a closure.
LEMMA FineFacts ==
  ASSUME NEW s, NEW n, NEW c, NEW w, Fine(s, n, c, w)
  PROVE  /\ n \in Nat /\ 1..n \subseteq Ids /\ s \in RtType(n) /\ c \in CtxType(n)
         /\ Lists(s) \in [0..MaxProms -> Seq(Closures(n))]
         /\ \A k \in Keys : Count(s, k) \in Nat
         /\ \A d \in Closures(n) : Src(d, c) = 0 \/ Src(d, c) \in Ids
         /\ \A p \in 0..MaxProms : \A d \in Range(Lists(s)[p]) : d \in Closures(n)
         /\ MaxProms \in Nat /\ 0 \in 0..MaxProms
<1>1. /\ n \in Nat /\ 1..n \subseteq Ids /\ MaxProms \in Nat /\ 0 \in 0..MaxProms
  BY PromiseAssumption DEF Fine, Ids
<1>2. s \in RtType(n) /\ c \in CtxType(n) /\ \A k \in Keys : Count(s, k) \in Nat
  BY CountType DEF Fine
<1>3. Lists(s) \in [0..MaxProms -> Seq(Closures(n))]
  BY <1>2, ListsFacts
<1>4. ASSUME NEW d \in Closures(n) PROVE Src(d, c) = 0 \/ Src(d, c) \in Ids
  <2>1. \A t \in 1..n : c.task[t].on \in Vals
    BY <1>1, <1>2 DEF CtxType, TaskType
  <2>2. \A v \in Vals : v = 0 \/ v \in Ids
    BY <1>1 DEF Vals, Ids
  <2>3. \/ d.fn \in {"then", "finally", "comb"} /\ d.p \in Ids
        \/ d.fn = "adopt_settle" /\ d.h \in Ids
        \/ d.fn = "finally_step" /\ d.r \in Ids
        \/ d.fn = "resume" /\ d.t \in 1..n
        \/ d.fn \in {"adopt_job", "defer_step", "queued"}
    BY <1>1, <1>4, ClosureFacts
  <2>4. CASE d.fn \in {"then", "finally", "comb"} /\ d.p \in Ids
    BY <2>4 DEF Src
  <2>5. CASE d.fn = "resume" /\ d.t \in 1..n
    BY <2>1, <2>2, <2>5 DEF Src
  <2>6. CASE d.fn = "adopt_settle" /\ d.h \in Ids
    BY <2>6 DEF Src
  <2>7. CASE d.fn = "finally_step" /\ d.r \in Ids
    BY <2>7 DEF Src
  <2>8. CASE d.fn \in {"adopt_job", "defer_step", "queued"}
    BY <2>8 DEF Src
  <2> QED BY <2>3, <2>4, <2>5, <2>6, <2>7, <2>8
<1>5. ASSUME NEW p \in 0..MaxProms, NEW d \in Range(Lists(s)[p]) PROVE d \in Closures(n)
  BY <1>3, RangeFacts
<1> QED BY <1>1, <1>2, <1>3, <1>4, <1>5

Stays(s, r, n, w) ==
    /\ r \in RtType(n) /\ r.mt = s.mt /\ \A q \in Ids : r.prom[q].rx = s.prom[q].rx
    /\ \A q \in Ids : r.prom[q].st = s.prom[q].st \/ (q = w /\ r.prom[q].st # Pending)

\* A step that moves no closure, and settles no promise or w.
LEMMA StillFine ==
  ASSUME NEW s, NEW r, NEW n, NEW c, NEW w, Fine(s, n, c, w), Stays(s, r, n, w)
  PROVE  Fine(r, n, c, w) /\ \A k : Count(r, k) = Count(s, k)
<1> USE DEF Stays
<1>1. Lists(r) = Lists(s)
  <2>1. \A p \in 0..MaxProms : p = 0 \/ p \in Ids
    BY PromiseAssumption DEF Ids
  <2> QED BY <2>1 DEF Lists
<1>2. Waits(Lists(s), s.prom, c, w)
  BY DEF Fine
<1>3. Waits(Lists(r), r.prom, c, w)
  <2>1. ASSUME NEW d \in Range(Lists(s)[0]), Src(d, c) # 0 PROVE r.prom[Src(d, c)].st # Pending
    <3>1. PICK q \in Ids : q = Src(d, c)
      BY <2>1, FineFacts
    <3> QED BY <1>2, <2>1, <3>1 DEF Waits
  <2>2. ASSUME NEW p \in Ids, NEW d \in Range(Lists(s)[p])
        PROVE  Src(d, c) = p /\ (p # w => r.prom[p].st = Pending)
    <3>1. Src(d, c) = p /\ (p # w => s.prom[p].st = Pending)
      BY <1>2, <2>2 DEF Waits
    <3>2. p # 0
      BY DEF Ids
    <3> QED BY <3>1, <3>2
  <2> QED BY <1>1, <1>2, <2>1, <2>2 DEF Waits
<1> QED BY <1>1, <1>3 DEF Fine, Counted, Count

\* So it is for a quiet step.
LEMMA QuietFine ==
  ASSUME NEW s, NEW r, NEW n, NEW c, NEW w, Fine(s, n, c, w), Quiet(s, r, n)
  PROVE  Fine(r, n, c, w) /\ \A k : Count(r, k) = Count(s, k)
<1>1. Stays(s, r, n, w)
  BY DEF Stays, Quiet
<1> QED BY <1>1, StillFine

\* A closure appended to one list.
LEMMA AppendFine ==
  ASSUME NEW s, NEW r, NEW n, NEW c, NEW p \in 0..MaxProms, NEW d \in Closures(n),
         Fine(s, n, c, 0), r \in RtType(n), Same(s, r), \A q \in Ids : r.prom[q].st = s.prom[q].st,
         Lists(r)[p] = Append(Lists(s)[p], d), \A q \in 0..MaxProms : q # p => Lists(r)[q] = Lists(s)[q],
         Fit(d, c), p # 0 => Src(d, c) = p /\ s.prom[p].st = Pending,
         p = 0 /\ Src(d, c) # 0 => s.prom[Src(d, c)].st # Pending
  PROVE  Adds(s, r, n, c, Key(d))
<1>1. /\ Lists(s) \in [0..MaxProms -> Seq(Closures(n))] /\ Lists(r) \in [0..MaxProms -> Seq(Closures(n))]
  BY FineFacts, ListsFacts
<1>2. PICK L \in [0..MaxProms -> Seq(Closures(n))], R \in [0..MaxProms -> Seq(Closures(n))] :
        L = Lists(s) /\ R = Lists(r)
  BY <1>1
<1>3. ASSUME NEW k \in Keys
      PROVE  /\ IsFiniteSet(Spots(R, k))
             /\ Cardinality(Spots(R, k)) = Cardinality(Spots(L, k)) + Plus(k, Key(d), 1)
  <2>1. IsFiniteSet(Spots(L, k))
    BY <1>2 DEF Fine, Counted
  <2>2. Longer(Closures(n), L, R, p, d)
    BY <1>2 DEF Longer
  <2> QED BY <2>1, <2>2, AppendSpots
<1>4. Range(R[p]) = Range(L[p]) \cup {d} /\ \A q \in 0..MaxProms : q # p => R[q] = L[q]
  <2>1. PICK l \in Seq(Closures(n)) : l = L[p]
    OBVIOUS
  <2>2. Range(Append(l, d)) = Range(l) \cup {d}
    BY RangeFacts
  <2> QED BY <1>2, <2>1, <2>2
<1>5. Waits(L, s.prom, c, 0)
  BY <1>2 DEF Fine
<1>6. Waits(R, r.prom, c, 0)
  <2>1. ASSUME NEW q \in Ids, NEW e \in Range(R[q])
        PROVE  Src(e, c) = q /\ r.prom[q].st = Pending
    <3>1. q \in 0..MaxProms /\ q # 0
      BY FineFacts DEF Ids
    <3> QED BY <1>4, <1>5, <2>1, <3>1 DEF Waits
  <2>2. ASSUME NEW e \in Range(R[0]), Src(e, c) # 0 PROVE r.prom[Src(e, c)].st # Pending
    <3>1. 0 \in 0..MaxProms /\ e \in Closures(n)
      BY <1>2, <2>2, FineFacts, RangeFacts
    <3>2. PICK q \in Ids : q = Src(e, c)
      BY <2>2, <3>1, FineFacts
    <3>3. s.prom[q].st # Pending
      BY <1>4, <1>5, <2>2, <3>1, <3>2 DEF Waits
    <3> QED BY <3>2, <3>3
  <2>3. ASSUME NEW q \in 0..MaxProms, NEW e \in Range(R[q]) PROVE Fit(e, c)
    BY <1>4, <1>5, <2>3 DEF Waits
  <2> QED BY <2>1, <2>2, <2>3 DEF Waits
<1>7. Fine(r, n, c, 0)
  BY <1>2, <1>3, <1>6 DEF Fine, Counted
<1> QED BY <1>2, <1>3, <1>7 DEF Adds, Count

\* The head of the queue taken.
LEMMA PopFine ==
  ASSUME NEW s, NEW r, NEW n, NEW c, Fine(s, n, c, 0), s.mt # <<>>, r = [s EXCEPT !.mt = Tail(@)]
  PROVE  /\ Fine(r, n, c, 0) /\ Same(s, r) /\ r.prom = s.prom
         /\ Head(s.mt) \in Closures(n) /\ Fit(Head(s.mt), c)
         /\ Src(Head(s.mt), c) # 0 => s.prom[Src(Head(s.mt), c)].st # Pending
         /\ \A k \in Keys : Count(s, k) = Count(r, k) + Plus(k, Key(Head(s.mt)), 1)
<1>1. s \in RtType(n) /\ MaxProms \in Nat /\ 0 \in 0..MaxProms
  BY FineFacts
<1>2. /\ r \in RtType(n) /\ Same(s, r) /\ r.prom = s.prom /\ r.mt = Tail(s.mt)
      /\ Head(s.mt) \in Closures(n)
  BY <1>1, PopFacts
<1>3. Lists(s)[0] = s.mt /\ Lists(r)[0] = Tail(s.mt) /\ s.mt \in Seq(Closures(n))
  BY <1>1, <1>2, ListsFacts DEF RtType
<1>4. \A q \in 0..MaxProms : q # 0 => Lists(r)[q] = Lists(s)[q]
  BY <1>2 DEF Lists
<1>5. Popped(Closures(n), Lists(s), Lists(r))
  <2>1. \A q \in 1..MaxProms : q \in 0..MaxProms /\ q # 0
    BY <1>1
  <2>2. /\ Lists(s) \in [0..MaxProms -> Seq(Closures(n))] /\ Lists(r) \in [0..MaxProms -> Seq(Closures(n))]
    BY <1>1, <1>2, ListsFacts
  <2>3. Lists(r)[0] = Tail(Lists(s)[0]) /\ Lists(s)[0] # <<>>
    BY <1>3
  <2> QED BY <1>1, <1>4, <2>1, <2>2, <2>3 DEF Popped
<1>6. ASSUME NEW k \in Keys
      PROVE  IsFiniteSet(Spots(Lists(r), k)) /\ Count(s, k) = Count(r, k) + Plus(k, Key(Head(s.mt)), 1)
  <2>1. IsFiniteSet(Spots(Lists(s), k))
    BY DEF Fine, Counted
  <2> QED BY <1>3, <1>5, <2>1, TailSpots DEF Count
<1>7. Range(Tail(s.mt)) \subseteq Range(s.mt) /\ Head(s.mt) \in Range(s.mt)
  BY <1>3, RangeFacts
<1>8. Waits(Lists(s), s.prom, c, 0)
  BY DEF Fine
<1>9. Waits(Lists(r), r.prom, c, 0)
  <2>1. \A q \in 0..MaxProms : \A d \in Range(Lists(r)[q]) : d \in Range(Lists(s)[q])
    BY <1>3, <1>4, <1>7
  <2>2. \A q \in Ids : q \in 0..MaxProms
    BY <1>1 DEF Ids
  <2> QED BY <1>1, <1>2, <1>8, <2>1, <2>2 DEF Waits
<1>10. Fine(r, n, c, 0)
  BY <1>2, <1>6, <1>9 DEF Fine, Counted
<1>11. Fit(Head(s.mt), c) /\ (Src(Head(s.mt), c) # 0 => s.prom[Src(Head(s.mt), c)].st # Pending)
  BY <1>1, <1>3, <1>7, <1>8 DEF Waits
<1> QED BY <1>2, <1>6, <1>10, <1>11

\* The list of a settled promise moved to the queue.
LEMMA DrainFine ==
  ASSUME NEW s, NEW n, NEW c, NEW p \in Ids, Fine(s, n, c, p), s.prom[p].st # Pending
  PROVE  Adds(s, Emptied(s, p), n, c, NoKey)
<1>1. s \in RtType(n) /\ MaxProms \in Nat /\ 0 \in 0..MaxProms
  BY FineFacts
<1>2. PICK r : r = Emptied(s, p)
  OBVIOUS
<1>3. /\ r \in RtType(n) /\ Same(s, r) /\ r.mt = Joined(s, p)
      /\ \A q \in Ids : r.prom[q].st = s.prom[q].st /\ (q # p => r.prom[q].rx = s.prom[q].rx)
      /\ r.prom[p].rx = <<>>
  BY <1>1, <1>2, DrainFacts
<1>4. PICK L \in [0..MaxProms -> Seq(Closures(n))], R \in [0..MaxProms -> Seq(Closures(n))] :
        L = Lists(s) /\ R = Lists(r)
  BY <1>1, <1>3, ListsFacts
<1>5. /\ p \in 1..MaxProms /\ p \in 0..MaxProms /\ p # 0 /\ \A q \in 1..MaxProms : q \in Ids
  BY <1>1 DEF Ids
<1>6. L[0] = s.mt /\ R[0] = r.mt /\ L[p] = Reverse(s.prom[p].rx) /\ R[p] = Reverse(r.prom[p].rx)
  BY <1>1, <1>3, <1>4, ListsFacts
<1>7. \A q \in 1..MaxProms : q # p => R[q] = L[q]
  <2>1. ASSUME NEW q \in Ids PROVE L[q] = Reverse(s.prom[q].rx) /\ R[q] = Reverse(r.prom[q].rx)
    BY <1>1, <1>3, <1>4, ListsFacts
  <2> QED BY <1>3, <1>5, <2>1
<1>8. R[0] = L[0] \o L[p]
  BY <1>3, <1>6 DEF Joined
<1>9. R[p] = <<>>
  <2>1. PICK e \in Seq(Closures(n)) : e = <<>> /\ Len(e) = 0
    BY EmptySeq
  <2>2. Reverse(e) \in Seq(Closures(n)) /\ Len(Reverse(e)) = 0
    BY <2>1, ReverseFacts
  <2>3. Reverse(e) = <<>>
    BY <2>2, EmptySeq
  <2> QED BY <1>3, <1>6, <2>1, <2>3
<1>10. Drained(Closures(n), L, R, p)
  BY <1>1, <1>5, <1>7, <1>8, <1>9 DEF Drained
<1>11. ASSUME NEW k \in Keys
       PROVE  IsFiniteSet(Spots(R, k)) /\ Cardinality(Spots(R, k)) = Cardinality(Spots(L, k))
  <2>1. IsFiniteSet(Spots(L, k))
    BY <1>4 DEF Fine, Counted
  <2> QED BY <1>10, <2>1, DrainSpots
<1>12. Range(R[0]) = Range(L[0]) \cup Range(L[p]) /\ Range(R[p]) = {}
  <2>1. PICK a \in Seq(Closures(n)), b \in Seq(Closures(n)) : a = L[0] /\ b = L[p]
    BY <1>1, <1>5
  <2>2. Range(a \o b) = Range(a) \cup Range(b)
    BY RangeConcatenation
  <2>3. PICK e : e = <<>>
    OBVIOUS
  <2>4. DOMAIN e = {}
    BY <2>3
  <2>5. Range(e) = {}
    BY <2>4 DEF Range
  <2> QED BY <1>8, <1>9, <2>1, <2>2, <2>3, <2>5
<1>13. Waits(L, s.prom, c, p)
  BY <1>4 DEF Fine
<1>14. Waits(R, r.prom, c, 0)
  <2>1. ASSUME NEW q \in Ids, NEW d \in Range(R[q])
        PROVE  Src(d, c) = q /\ r.prom[q].st = Pending
    <3>1. q # p /\ q \in 1..MaxProms
      BY <1>12, <2>1 DEF Ids
    <3> QED BY <1>3, <1>7, <1>13, <2>1, <3>1 DEF Waits
  <2>2. ASSUME NEW d \in Range(R[0]), Src(d, c) # 0 PROVE r.prom[Src(d, c)].st # Pending
    <3>1. d \in Closures(n)
      BY <1>1, <2>2, RangeFacts
    <3>2. PICK q \in Ids : q = Src(d, c)
      BY <2>2, <3>1, FineFacts
    <3>3. s.prom[q].st # Pending
      BY <1>12, <1>13, <2>2, <3>2 DEF Waits
    <3> QED BY <1>3, <3>2, <3>3
  <2>3. ASSUME NEW q \in 0..MaxProms, NEW d \in Range(R[q]) PROVE Fit(d, c)
    <3>1. q = 0 \/ q = p \/ (q \in 1..MaxProms /\ q # p)
      BY <1>1
    <3>2. \E u \in 0..MaxProms : d \in Range(L[u])
      BY <1>1, <1>5, <1>7, <1>12, <2>3, <3>1
    <3> QED BY <1>13, <3>2 DEF Waits
  <2> QED BY <2>1, <2>2, <2>3 DEF Waits
<1>15. Fine(r, n, c, 0)
  BY <1>3, <1>4, <1>11, <1>14 DEF Fine, Counted
<1>16. ASSUME NEW k \in Keys PROVE Count(r, k) = Count(s, k) + Plus(k, NoKey, 1)
  <2>1. k # NoKey /\ Count(s, k) \in Nat
    BY FineFacts DEF Keys, NoKey
  <2> QED BY <1>4, <1>11, <2>1 DEF Count, Plus
<1> QED BY <1>2, <1>3, <1>15, <1>16 DEF Adds

\* Settling a promise more is no harm.
LEMMA FineFor ==
  ASSUME NEW s, NEW n, NEW c, NEW w, Fine(s, n, c, 0)
  PROVE  Fine(s, n, c, w)
<1>1. \A p \in Ids : p # 0
  BY DEF Ids
<1> QED BY <1>1 DEF Fine, Waits

\* A step without a closure of a key.
LEMMA PlusNone ==
  ASSUME NEW j \in Keys, NEW m
  PROVE  Plus(j, NoKey, m) = 0
BY DEF Plus, Keys, NoKey

\* A quiet step adds nothing, also before or after another one.
LEMMA QuietAdds ==
  ASSUME NEW s, NEW r, NEW n, NEW c, Fine(s, n, c, 0), Quiet(s, r, n)
  PROVE  /\ Adds(s, r, n, c, NoKey)
         /\ \A z, k : Adds(r, z, n, c, k) => Adds(s, z, n, c, k)
<1>1. Fine(r, n, c, 0) /\ \A k : Count(r, k) = Count(s, k)
  BY QuietFine
<1>2. Same(s, r) /\ \A p \in Ids : r.prom[p].st = s.prom[p].st
  BY DEF Quiet
<1>3. \A j \in Keys : Count(s, j) \in Nat /\ Plus(j, NoKey, 1) = 0
  BY FineFacts, PlusNone
<1>4. \A j \in Keys : Count(r, j) = Count(s, j) + Plus(j, NoKey, 1)
  BY <1>1, <1>3
<1>5. Adds(s, r, n, c, NoKey)
  BY <1>1, <1>2, <1>4 DEF Adds
<1>6. ASSUME NEW z, NEW k, Adds(r, z, n, c, k) PROVE Adds(s, z, n, c, k)
  BY <1>1, <1>2, <1>6 DEF Adds, Same
<1> QED BY <1>5, <1>6

\* What follows a settlement: the list becomes jobs.
LEMMA DrainAdds ==
  ASSUME NEW s, NEW n, NEW c, NEW p \in Ids, Fine(s, n, c, p), s.prom[p].st # Pending
  PROVE  Adds(s, DrainReactions(s, p), n, c, NoKey)
<1>1. s \in RtType(n) /\ \A j \in Keys : Count(s, j) \in Nat
  BY FineFacts
<1>2. PICK v \in Vals : v = 0
  BY PromiseAssumption DEF Vals
<1>3. PICK z : z = (IF s.prom[p].st = Rejected THEN NoteRejected(s, p) ELSE s)
  OBVIOUS
<1>4. Quiet(s, z, n)
  BY <1>1, <1>2, <1>3, QuietFacts
<1>5. Fine(z, n, c, p) /\ \A k : Count(z, k) = Count(s, k)
  BY <1>4, QuietFine
<1>6. Adds(z, Emptied(z, p), n, c, NoKey)
  BY <1>4, <1>5, DrainFine DEF Quiet
<1>7. DrainReactions(s, p) = Emptied(z, p)
  BY <1>3 DEF DrainReactions, Emptied
<1> QED BY <1>4, <1>5, <1>6, <1>7 DEF Adds, Quiet, Same

\* Storing an outcome, and noting a rejection, before the list becomes jobs.
LEMMA StoreAdds ==
  ASSUME NEW s, NEW n, NEW c, NEW p \in Ids, Fine(s, n, c, 0), NEW st \in Done, NEW v \in Vals,
         NEW a \in {Store(s, p, st, v), SetState(s, p, st)}
  PROVE  \A z \in {a, NoteRejected(a, p)} :
            Adds(s, DrainReactions(z, p), n, c, NoKey) /\ DrainReactions(z, p).prom[p].st # Pending
<1> SUFFICES ASSUME NEW z \in {a, NoteRejected(a, p)}
             PROVE  Adds(s, DrainReactions(z, p), n, c, NoKey) /\ DrainReactions(z, p).prom[p].st # Pending
  OBVIOUS
<1>1. s \in RtType(n) /\ \A j \in Keys : Count(s, j) \in Nat
  BY FineFacts
<1>2. /\ a \in RtType(n) /\ Same(s, a) /\ a.mt = s.mt
      /\ \A q \in Ids : a.prom[q].rx = s.prom[q].rx /\ (q # p => a.prom[q].st = s.prom[q].st)
      /\ a.prom[p].st = st
  BY <1>1, StoreFacts
<1>3. st # Pending
  BY DEF Done, Pending, Fulfilled, Rejected
<1>4. Fine(a, n, c, p) /\ \A k : Count(a, k) = Count(s, k)
  <2>1. Fine(s, n, c, p)
    BY FineFor
  <2>2. \A q \in Ids : a.prom[q].st = s.prom[q].st \/ (q = p /\ a.prom[q].st # Pending)
    BY <1>2, <1>3
  <2>3. Stays(s, a, n, p)
    BY <1>2, <2>2 DEF Stays
  <2> QED BY <2>1, <2>3, StillFine
<1>5. Quiet(a, z, n)
  BY <1>2, QuietFacts
<1>6. Fine(z, n, c, p) /\ \A k : Count(z, k) = Count(a, k)
  BY <1>4, <1>5, QuietFine
<1>7. z.prom[p].st # Pending /\ Same(s, z)
  BY <1>2, <1>3, <1>5 DEF Quiet, Same
<1>8. Adds(z, DrainReactions(z, p), n, c, NoKey)
  BY <1>6, <1>7, DrainAdds
<1>9. \A q \in Ids : s.prom[q].st # Pending => z.prom[q].st # Pending
  BY <1>2, <1>3, <1>5 DEF Quiet
<1> QED BY <1>4, <1>6, <1>7, <1>8, <1>9 DEF Adds, Same

\* Settling a promise moves closures and makes none.
LEMMA SettleAdds ==
  ASSUME NEW s, NEW n, NEW c, NEW p \in Ids, Fine(s, n, c, 0), NEW st \in Done
  PROVE  Adds(s, Settle(s, p, st), n, c, NoKey) /\ Settle(s, p, st).prom[p].st # Pending
<1>1. s \in RtType(n)
  BY FineFacts
<1>2. PICK v \in Vals : v = 0
  BY PromiseAssumption DEF Vals
<1>3. CASE s.prom[p].st # Pending
  <2>1. Adds(s, s, n, c, NoKey)
    BY <1>1, <1>2, QuietFacts, QuietAdds
  <2> QED BY <1>3, <2>1 DEF Settle
<1>4. CASE s.prom[p].st = Pending
  <2>1. PICK a \in {Store(s, p, st, v), SetState(s, p, st)} : a = SetState(s, p, st)
    OBVIOUS
  <2>2. PICK z \in {a, NoteRejected(a, p)} : z = IF st = Rejected THEN NoteRejected(a, p) ELSE a
    OBVIOUS
  <2>3. Adds(s, DrainReactions(z, p), n, c, NoKey) /\ DrainReactions(z, p).prom[p].st # Pending
    BY StoreAdds
  <2>4. Settle(s, p, st) = DrainReactions(z, p)
    BY <1>4, <2>1, <2>2 DEF Settle, SetState
  <2> QED BY <2>3, <2>4
<1> QED BY <1>3, <1>4

\* So does settling it with a value.
LEMMA SettleWithAdds ==
  ASSUME NEW s, NEW n, NEW c, NEW p \in Ids, Fine(s, n, c, 0), NEW v \in Vals
  PROVE  /\ \A st \in Done : /\ Adds(s, Settle(StoreValue(s, p, v), p, st), n, c, NoKey)
                             /\ Settle(StoreValue(s, p, v), p, st).prom[p].st # Pending
         /\ Adds(s, RejectWith(s, p, v), n, c, NoKey) /\ RejectWith(s, p, v).prom[p].st # Pending
         /\ Adds(s, ResolveThunk(s, p, v), n, c, NoKey) /\ ResolveThunk(s, p, v).prom[p].st # Pending
<1>1. s \in RtType(n)
  BY FineFacts
<1>2. PICK a : a = StoreValue(s, p, v)
  OBVIOUS
<1>3. Quiet(s, a, n)
  BY <1>1, <1>2, QuietFacts
<1>4. Fine(a, n, c, 0)
  BY <1>3, QuietFine
<1>5. ASSUME NEW st \in Done
      PROVE  Adds(s, Settle(a, p, st), n, c, NoKey) /\ Settle(a, p, st).prom[p].st # Pending
  BY <1>3, <1>4, SettleAdds, QuietAdds
<1>6. Adds(s, s, n, c, NoKey)
  BY <1>1, QuietFacts, QuietAdds
<1>7. Fulfilled \in Done /\ Rejected \in Done
  BY DEF Done
<1>8. Adds(s, RejectWith(s, p, v), n, c, NoKey) /\ RejectWith(s, p, v).prom[p].st # Pending
  <2>1. RejectWith(s, p, v) = IF s.prom[p].st # Pending THEN s ELSE Settle(a, p, Rejected)
    BY <1>2 DEF RejectWith
  <2> QED BY <1>5, <1>6, <1>7, <2>1
<1>9. Adds(s, ResolveThunk(s, p, v), n, c, NoKey) /\ ResolveThunk(s, p, v).prom[p].st # Pending
  <2>1. ResolveThunk(s, p, v) = IF s.prom[p].st # Pending THEN s ELSE Settle(a, p, Fulfilled)
    BY <1>2 DEF ResolveThunk
  <2> QED BY <1>5, <1>6, <1>7, <2>1
<1> QED BY <1>2, <1>5, <1>8, <1>9

\* A job more.
LEMMA EnqueueAdds ==
  ASSUME NEW s, NEW n, NEW c, Fine(s, n, c, 0), NEW d \in Closures(n), Fit(d, c),
         Src(d, c) # 0 => s.prom[Src(d, c)].st # Pending
  PROVE  Adds(s, Enqueue(s, d), n, c, Key(d))
<1>1. s \in RtType(n) /\ 0 \in 0..MaxProms
  BY FineFacts
<1>2. PICK r : r = Enqueue(s, d)
  OBVIOUS
<1>3. r \in RtType(n) /\ Same(s, r) /\ r.prom = s.prom /\ r.mt = Append(s.mt, d)
  BY <1>1, <1>2, EnqueueFacts, Zenon
<1>4. Lists(r)[0] = Append(Lists(s)[0], d)
  BY <1>1, <1>3, ListsFacts
<1>5. \A q \in 0..MaxProms : q # 0 => Lists(r)[q] = Lists(s)[q]
  BY <1>3 DEF Lists
<1>6. PICK p \in 0..MaxProms : p = 0
  BY <1>1
<1>7. Adds(s, r, n, c, Key(d))
  BY <1>3, <1>4, <1>5, <1>6, AppendFine, Zenon
<1> QED BY <1>2, <1>7

\* A reaction more: on the list of its source, or a job when that has settled.
LEMMA AttachAdds ==
  ASSUME NEW s, NEW n, NEW c, Fine(s, n, c, 0), NEW d \in Closures(n), Fit(d, c),
         NEW p \in Ids, Src(d, c) = p
  PROVE  Adds(s, Attach(s, p, d), n, c, Key(d))
<1>1. s \in RtType(n)
  BY FineFacts
<1>2. PICK v \in Vals : v = 0
  BY PromiseAssumption DEF Vals
<1>3. PICK m : m = MarkHandled(s, p)
  OBVIOUS
<1>0. Quiet(s, m, n)
  BY <1>1, <1>2, <1>3, QuietFacts
<1>4. Quiet(s, m, n) /\ m \in RtType(n) /\ m.prom[p].st = s.prom[p].st
  BY <1>0 DEF Quiet
<1>5. Fine(m, n, c, 0)
  BY <1>4, QuietFine
<1>6. CASE s.prom[p].st # Pending
  <2>1. Adds(m, Enqueue(m, d), n, c, Key(d))
    BY <1>4, <1>5, <1>6, EnqueueAdds
  <2>2. Attach(s, p, d) = Enqueue(m, d)
    BY <1>3, <1>6 DEF Attach
  <2> QED BY <1>4, <2>1, <2>2, QuietAdds
<1>7. CASE s.prom[p].st = Pending
  <2>1. PICK r : r = PushOn(m, p, d)
    OBVIOUS
  <2>2. /\ r \in RtType(n) /\ Same(m, r) /\ r.mt = m.mt
        /\ \A q \in Ids : r.prom[q].st = m.prom[q].st /\ (q # p => r.prom[q].rx = m.prom[q].rx)
        /\ r.prom[p].rx = Pushed(m, p, d)
    BY <1>4, <2>1, PushFacts
  <2>3. p \in 0..MaxProms /\ p # 0 /\ 0 \in 0..MaxProms
    BY FineFacts DEF Ids
  <2>4. Lists(r)[p] = Append(Lists(m)[p], d)
    <3>1. Lists(r)[p] = Reverse(Pushed(m, p, d)) /\ Lists(m)[p] = Reverse(m.prom[p].rx)
      BY <1>4, <2>2, ListsFacts
    <3>2. PICK l \in Seq(Closures(n)) : l = m.prom[p].rx
      BY <1>4 DEF RtType, PromType
    <3>3. Reverse(<<d>> \o l) = Append(Reverse(l), d)
      BY ReverseFacts
    <3> QED BY <3>1, <3>2, <3>3 DEF Pushed
  <2>5. ASSUME NEW q \in 0..MaxProms, q # p PROVE Lists(r)[q] = Lists(m)[q]
    <3>1. q = 0 \/ q \in Ids
      BY FineFacts DEF Ids
    <3> QED BY <2>2, <2>5, <3>1 DEF Lists
  <2>6. Adds(m, r, n, c, Key(d))
    BY <1>4, <1>5, <1>7, <2>2, <2>3, <2>4, <2>5, AppendFine, Zenon
  <2>7. Attach(s, p, d) = r
    BY <1>3, <1>7, <2>1 DEF Attach, PushOn
  <2> QED BY <1>4, <2>6, <2>7, QuietAdds
<1> QED BY <1>6, <1>7

-----------------------------------------------------------------------------
(* Debts.                                                                  *)

\* The numbers of the promises and the keys.
LEMMA KeyMade ==
  ASSUME NEW s, NEW n, NEW c, NEW w, Fine(s, n, c, w)
  PROVE  /\ \A t \in Ids : <<"resume", t>> \in Keys /\ <<"settle", t>> \in Keys
         /\ \A q \in (Deferred + 1)..n : q \in 1..n /\ q \in Ids /\ <<"settle", q>> \in Keys
         /\ n \in Nat /\ Deferred \in Nat
<1>1. n \in Nat /\ 1..n \subseteq Ids /\ Deferred \in Nat
  BY FineFacts, PromiseAssumption
<1>2. \A t \in Ids : <<"resume", t>> \in Keys /\ <<"settle", t>> \in Keys
  BY DEF Keys
<1>3. \A q \in (Deferred + 1)..n : q \in 1..n
  BY <1>1
<1> QED BY <1>1, <1>2, <1>3

Later(s, r) == \A p \in Ids : s.prom[p].st # Pending => r.prom[p].st # Pending

\* A step after which as many closures are there or owed.
LEMMA OwesStep ==
  ASSUME NEW s, NEW r, NEW n, NEW c, NEW e, NEW m, NEW e2, NEW m2,
         Owes(s, n, c, e, m), Fine(r, n, c, 0), Later(s, r),
         \A j \in Keys : Due(r, j, e2, m2) = Due(s, j, e, m)
  PROVE  Owes(r, n, c, e2, m2)
<1>0. Fine(s, n, c, 0)
  BY DEF Owes
<1>1. /\ \A t \in Ids : <<"resume", t>> \in Keys /\ <<"settle", t>> \in Keys
      /\ \A q \in (Deferred + 1)..n : q \in 1..n /\ q \in Ids /\ <<"settle", q>> \in Keys
  BY <1>0, KeyMade
<1>2. Resumes(r, c, e2, m2)
  BY <1>1 DEF Owes, Resumes
<1>3. Settlers(r, n, c, e2, m2)
  <2> SUFFICES ASSUME NEW q \in (Deferred + 1)..n PROVE Settler(r, c, q, Due(r, <<"settle", q>>, e2, m2))
    BY DEF Settlers
  <2>1. Due(r, <<"settle", q>>, e2, m2) = Due(s, <<"settle", q>>, e, m) /\ q \in Ids
    BY <1>1
  <2>2. Settler(s, c, q, Due(s, <<"settle", q>>, e, m))
    BY DEF Owes, Settlers
  <2> QED BY <2>1, <2>2 DEF Settler, Later
<1>4. Left(r, c) /\ Fresh(n, c)
  BY DEF Owes, Left, Later
<1>5. RunOk(r, c)
  <2>1. c.run.fn \in Waiters => c.run.p \in Ids
    <3>1. n \in Nat /\ 1..n \subseteq Ids /\ c.run \in Closures(n) \cup {NoClosure}
      BY <1>0, FineFacts DEF CtxType
    <3>2. c.run.fn \in Waiters => c.run \in Closures(n)
      BY <3>1 DEF NoClosure, Waiters
    <3> QED BY <3>1, <3>2, ClosureFacts DEF Waiters
  <2> QED BY <2>1 DEF Owes, RunOk, Later
<1> QED BY <1>2, <1>3, <1>4, <1>5 DEF Owes

\* A step that adds no closure of a key leaves the debts.
LEMMA OwesAdds ==
  ASSUME NEW s, NEW r, NEW n, NEW c, NEW e, NEW m, Owes(s, n, c, e, m), Adds(s, r, n, c, NoKey)
  PROVE  Owes(r, n, c, e, m)
<1>1. Fine(s, n, c, 0) /\ Fine(r, n, c, 0) /\ Later(s, r)
  BY DEF Owes, Adds, Later
<1>2. \A j \in Keys : Count(s, j) \in Nat /\ Plus(j, NoKey, 1) = 0 /\ Count(r, j) = Count(s, j) + Plus(j, NoKey, 1)
  BY <1>1, FineFacts, PlusNone DEF Adds
<1>3. \A j \in Keys : Count(r, j) = Count(s, j)
  BY <1>2
<1>4. \A j \in Keys : Due(r, j, e, m) = Due(s, j, e, m)
  BY <1>3 DEF Due
<1> QED BY <1>1, <1>4, OwesStep

\* A step that adds a closure pays one.
LEMMA Repay ==
  ASSUME NEW s, NEW r, NEW n, NEW c, NEW e, NEW m \in Nat, NEW o, o = m + 1,
         Owes(s, n, c, e, o), Adds(s, r, n, c, e)
  PROVE  Owes(r, n, c, e, m)
<1>1. Fine(s, n, c, 0) /\ Fine(r, n, c, 0) /\ Later(s, r)
  BY DEF Owes, Adds, Later
<1>2. ASSUME NEW j \in Keys PROVE Due(r, j, e, m) = Due(s, j, e, o)
  <2>1. Count(s, j) \in Nat /\ Count(r, j) = Count(s, j) + Plus(j, e, 1)
    BY <1>1, FineFacts DEF Adds
  <2> QED BY <2>1 DEF Due, Plus
<1> QED BY <1>1, <1>2, OwesStep

\* A debt of none is no debt, and none is owed for a closure without a key.
LEMMA NoDebt ==
  ASSUME NEW s, NEW n, NEW c, NEW e, NEW e2, NEW m, NEW m2, Owes(s, n, c, e, m),
         e = NoKey \/ m = 0, e2 = NoKey \/ m2 = 0
  PROVE  Owes(s, n, c, e2, m2)
<1>1. Fine(s, n, c, 0) /\ Later(s, s)
  BY DEF Owes, Later
<1>2. ASSUME NEW j \in Keys PROVE Due(s, j, e2, m2) = Due(s, j, e, m)
  <2>1. Plus(j, e, m) = 0 /\ Plus(j, e2, m2) = 0
    BY PlusNone DEF Plus
  <2> QED BY <2>1 DEF Due
<1> QED BY <1>1, <1>2, OwesStep

\* A debt to a promise that has settled is none.
LEMMA SettledDebt ==
  ASSUME NEW s, NEW n, NEW c, NEW q \in Ids, NEW m, Owes(s, n, c, <<"settle", q>>, m), s.prom[q].st # Pending
  PROVE  Owes(s, n, c, NoKey, 0)
<1>0. Fine(s, n, c, 0)
  BY DEF Owes
<1>1. /\ \A t \in Ids : <<"resume", t>> \in Keys
      /\ \A u \in (Deferred + 1)..n : <<"settle", u>> \in Keys
  BY <1>0, KeyMade
<1>2. ASSUME NEW j \in Keys, j # <<"settle", q>> PROVE Due(s, j, NoKey, 0) = Due(s, j, <<"settle", q>>, m)
  <2>1. Plus(j, NoKey, 0) = 0 /\ Plus(j, <<"settle", q>>, m) = 0
    BY <1>2, PlusNone DEF Plus
  <2> QED BY <2>1 DEF Due
<1>3. Resumes(s, c, NoKey, 0)
  <2>1. \A t \in Ids : <<"resume", t>> # <<"settle", q>>
    OBVIOUS
  <2> QED BY <1>1, <1>2, <2>1 DEF Owes, Resumes
<1>4. Settlers(s, n, c, NoKey, 0)
  <2> SUFFICES ASSUME NEW u \in (Deferred + 1)..n PROVE Settler(s, c, u, Due(s, <<"settle", u>>, NoKey, 0))
    BY DEF Settlers
  <2>1. CASE u = q
    BY <2>1 DEF Settler
  <2>2. CASE u # q
    <3>1. Due(s, <<"settle", u>>, NoKey, 0) = Due(s, <<"settle", u>>, <<"settle", q>>, m)
      BY <1>1, <1>2, <2>2
    <3> QED BY <3>1 DEF Owes, Settlers
  <2> QED BY <2>1, <2>2
<1> QED BY <1>3, <1>4 DEF Owes

\* The head of the queue is owed when it is taken.
LEMMA PopOwes ==
  ASSUME NEW s, NEW r, NEW n, NEW c, Owes(s, n, c, NoKey, 0), s.mt # <<>>, r = [s EXCEPT !.mt = Tail(@)]
  PROVE  Owes(r, n, c, Key(Head(s.mt)), 1)
<1>1. Fine(s, n, c, 0)
  BY DEF Owes
<1>2. /\ Fine(r, n, c, 0) /\ r.prom = s.prom
      /\ \A k \in Keys : Count(s, k) = Count(r, k) + Plus(k, Key(Head(s.mt)), 1)
  BY <1>1, PopFine
<1>3. ASSUME NEW j \in Keys PROVE Due(r, j, Key(Head(s.mt)), 1) = Due(s, j, NoKey, 0)
  <2>1. Count(s, j) \in Nat /\ Plus(j, NoKey, 0) = 0
    BY <1>1, FineFacts, PlusNone
  <2> QED BY <1>2, <2>1 DEF Due
<1>4. Later(s, r)
  BY <1>2 DEF Later
<1> QED BY <1>2, <1>3, <1>4, OwesStep

Alike(s, r, n) == r \in RtType(n) /\ r.prom = s.prom /\ r.mt = s.mt

\* The rest of the state does not matter.
LEMMA AlikeOwes ==
  ASSUME NEW s, NEW r, NEW n, NEW c, NEW e, NEW m, Owes(s, n, c, e, m), Alike(s, r, n)
  PROVE  Owes(r, n, c, e, m)
<1>1. Fine(s, n, c, 0)
  BY DEF Owes
<1>2. Stays(s, r, n, 0) /\ Later(s, r)
  BY DEF Stays, Later, Alike
<1>3. Fine(r, n, c, 0) /\ \A k : Count(r, k) = Count(s, k)
  BY <1>1, <1>2, StillFine
<1>4. \A j \in Keys : Due(r, j, e, m) = Due(s, j, e, m)
  BY <1>3 DEF Due
<1> QED BY <1>2, <1>3, <1>4, OwesStep

-----------------------------------------------------------------------------
(* Changes of the context.                                                 *)

InLists(s, d) == \E p \in 0..MaxProms : d \in Range(Lists(s)[p])

\* What is known of a closure that waits; a count of nought means none.
LEMMA WaitingFacts ==
  ASSUME NEW s, NEW n, NEW c, NEW w, Fine(s, n, c, w)
  PROVE  /\ \A d : InLists(s, d) => d \in Closures(n) /\ Fit(d, c)
         /\ \A k \in Keys : \A d : InLists(s, d) /\ Count(s, k) = 0 => Key(d) # k
         /\ \A k \in Keys : (\A d : InLists(s, d) => Key(d) # k) => Count(s, k) = 0
<1>1. ASSUME NEW d, InLists(s, d) PROVE d \in Closures(n) /\ Fit(d, c)
  BY <1>1, FineFacts DEF InLists, Fine, Waits
<1>2. PICK L \in [0..MaxProms -> Seq(Closures(n))] : L = Lists(s)
  BY FineFacts
<1>3. ASSUME NEW k \in Keys, NEW d, InLists(s, d), Key(d) = k PROVE Count(s, k) # 0
  <2>1. PICK p \in 0..MaxProms : d \in Range(L[p])
    BY <1>2, <1>3 DEF InLists
  <2>2. PICK i \in DOMAIN L[p] : d = L[p][i]
    BY <2>1 DEF Range
  <2>3. <<p, i>> \in Spots(L, k)
    BY <1>3, <2>2, SpotAt DEF At
  <2>4. IsFiniteSet(Spots(L, k))
    BY <1>2 DEF Fine, Counted
  <2>5. Cardinality(Spots(L, k)) # 0
    BY <2>3, <2>4, FS_EmptySet
  <2> QED BY <1>2, <2>5 DEF Count
<1>4. ASSUME NEW k \in Keys, \A d : InLists(s, d) => Key(d) # k PROVE Count(s, k) = 0
  <2>1. Spots(L, k) = {}
    <3> SUFFICES ASSUME NEW x \in Spots(L, k) PROVE FALSE
      OBVIOUS
    <3>1. PICK p, i : x = <<p, i>> /\ At(L, k, p, i)
      BY SpotIs
    <3>2. p \in 0..MaxProms /\ L[p][i] \in Range(L[p]) /\ Key(L[p][i]) = k
      BY <3>1 DEF At, Range
    <3>3. InLists(s, L[p][i])
      BY <1>2, <3>2 DEF InLists
    <3> QED BY <1>4, <3>2, <3>3
  <2> QED BY <1>2, <2>1, FS_EmptySet DEF Count
<1> QED BY <1>1, <1>3, <1>4

\* Closures stay where they belong when the context still fits them.
LEMMA CtxFine ==
  ASSUME NEW s, NEW n, NEW c, NEW c2, Fine(s, n, c, 0), c2 \in CtxType(n),
         \A d : InLists(s, d) => Src(d, c2) = Src(d, c) /\ Fit(d, c2)
  PROVE  Fine(s, n, c2, 0)
<1>1. 0 \in 0..MaxProms /\ Ids \subseteq 0..MaxProms
  BY FineFacts DEF Ids
<1>2. Waits(Lists(s), s.prom, c, 0)
  BY DEF Fine
<1>3. \A p \in 0..MaxProms : \A d \in Range(Lists(s)[p]) : Src(d, c2) = Src(d, c) /\ Fit(d, c2)
  BY DEF InLists
<1>4. Waits(Lists(s), s.prom, c2, 0)
  BY <1>1, <1>2, <1>3 DEF Waits
<1> QED BY <1>4 DEF Fine

\* A promise more.
LEMMA FineGrow ==
  ASSUME NEW s, NEW n, NEW c, Fine(s, n, c, 0), n + 1 \in Ids
  PROVE  Fine(s, n + 1, c, 0)
<1>1. n \in Nat /\ s \in RtType(n) /\ c \in CtxType(n)
  BY FineFacts
<1>2. PICK A, B : A = Closures(n) /\ B = Closures(n + 1) /\ A \subseteq B
  BY <1>1, ClosuresGrow
<1>3. Seq(A) \subseteq Seq(B)
  BY <1>2
<1>4. PromType(n) \subseteq PromType(n + 1)
  BY <1>2, <1>3 DEF PromType
<1>5. [Ids -> PromType(n)] \subseteq [Ids -> PromType(n + 1)]
  BY <1>4
<1>6. s \in RtType(n + 1)
  BY <1>1, <1>2, <1>3, <1>5 DEF RtType
<1>7. c \in CtxType(n + 1)
  BY <1>1, <1>2 DEF CtxType
<1> QED BY <1>6, <1>7 DEF Fine

WithTask(c, t, x) == [c EXCEPT !.task[t] = x]
WithComb(c, q, x) == [c EXCEPT !.comb[q] = x]
WithRun(c, d) == [c EXCEPT !.run = d]

\* Another task, another combinator, another running closure.
LEMMA WithFacts ==
  ASSUME NEW n, NEW c \in CtxType(n), NEW t \in Ids
  PROVE  /\ \A x \in TaskType :
               /\ WithTask(c, t, x) \in CtxType(n) /\ WithTask(c, t, x).comb = c.comb /\ WithTask(c, t, x).run = c.run
               /\ WithTask(c, t, x).task[t] = x
               /\ \A q \in Ids : q # t => WithTask(c, t, x).task[q] = c.task[q]
         /\ \A x \in CombType :
               /\ WithComb(c, t, x) \in CtxType(n) /\ WithComb(c, t, x).task = c.task /\ WithComb(c, t, x).run = c.run
               /\ WithComb(c, t, x).comb[t] = x
               /\ \A q \in Ids : q # t => WithComb(c, t, x).comb[q] = c.comb[q]
<1>1. c.task \in [Ids -> TaskType] /\ c.comb \in [Ids -> CombType]
  BY DEF CtxType
<1>2. ASSUME NEW x \in TaskType
      PROVE  /\ WithTask(c, t, x) \in CtxType(n) /\ WithTask(c, t, x).comb = c.comb /\ WithTask(c, t, x).run = c.run
             /\ WithTask(c, t, x).task[t] = x
             /\ \A q \in Ids : q # t => WithTask(c, t, x).task[q] = c.task[q]
  <2>1. PICK f \in [Ids -> TaskType] : f = [c.task EXCEPT ![t] = x]
    BY <1>1
  <2>2. f[t] = x /\ \A q \in Ids : q # t => f[q] = c.task[q]
    BY <1>1, <2>1
  <2>3. WithTask(c, t, x) = [c EXCEPT !.task = f]
    BY <2>1 DEF WithTask
  <2>4. [c EXCEPT !.task = f] \in CtxType(n)
    BY DEF CtxType
  <2> QED BY <2>2, <2>3, <2>4 DEF CtxType
<1>3. ASSUME NEW x \in CombType
      PROVE  /\ WithComb(c, t, x) \in CtxType(n) /\ WithComb(c, t, x).task = c.task /\ WithComb(c, t, x).run = c.run
             /\ WithComb(c, t, x).comb[t] = x
             /\ \A q \in Ids : q # t => WithComb(c, t, x).comb[q] = c.comb[q]
  <2>1. PICK f \in [Ids -> CombType] : f = [c.comb EXCEPT ![t] = x]
    BY <1>1
  <2>2. f[t] = x /\ \A q \in Ids : q # t => f[q] = c.comb[q]
    BY <1>1, <2>1
  <2>3. WithComb(c, t, x) = [c EXCEPT !.comb = f]
    BY <2>1 DEF WithComb
  <2>4. [c EXCEPT !.comb = f] \in CtxType(n)
    BY DEF CtxType
  <2> QED BY <2>2, <2>3, <2>4 DEF CtxType
<1> QED BY <1>2, <1>3

\* A callback's promise is no task's, nor a combinator's.
LEMMA RunFacts ==
  ASSUME NEW s, NEW n, NEW c, Fine(s, n, c, 0), RunOk(s, c)
  PROVE  /\ c.run.fn \in Waiters =>
               /\ c.run \in Closures(n) /\ c.run.q \in 1..n /\ c.run.p \in 1..n
               /\ c.task[c.run.q].st = "none" /\ c.comb[c.run.q].kind = "none"
         /\ \A q : Settles(c.run, q) <=> c.run.fn \in Waiters /\ c.run.q = q
<1>1. n \in Nat /\ c.run \in Closures(n) \cup {NoClosure}
  BY FineFacts DEF CtxType
<1>2. c.run.fn \in Waiters => c.run \in Closures(n)
  BY <1>1 DEF NoClosure, Waiters
<1>3. ASSUME c.run.fn \in Waiters
      PROVE  /\ c.run \in Closures(n) /\ c.run.q \in 1..n /\ c.run.p \in 1..n
             /\ c.task[c.run.q].st = "none" /\ c.comb[c.run.q].kind = "none"
  <2>1. c.run.q \in 1..n /\ c.run.p \in 1..n
    BY <1>1, <1>2, <1>3, ClosureFacts DEF Waiters
  <2>2. Key(c.run)[1] = "settle"
    BY <1>3 DEF Key, Waiters
  <2>3. Fit(c.run, c) /\ c.run.fn # "comb"
    BY <1>3 DEF RunOk, Waiters
  <2> QED BY <1>2, <1>3, <2>1, <2>2, <2>3 DEF Fit
<1>4. ASSUME NEW q PROVE Settles(c.run, q) <=> c.run.fn \in Waiters /\ c.run.q = q
  BY DEF RunOk, Settles, Waiters
<1> QED BY <1>3, <1>4

\* The debts change with task t's words only at its own keys.
LEMMA CtxTask ==
  ASSUME NEW s, NEW n, NEW c, NEW e, NEW m, Owes(s, n, c, e, m), NEW t \in 1..n, c.task[t].st # "none",
         NEW x \in TaskType, x.st # "none", x.on = c.task[t].on \/ Count(s, <<"resume", t>>) = 0,
         NEW e2, NEW m2, Due(s, <<"resume", t>>, e2, m2) = (IF x.st = "parked" THEN 1 ELSE 0),
         \A j \in Keys : j \notin {<<"resume", t>>, <<"settle", t>>} => Due(s, j, e2, m2) = Due(s, j, e, m),
         t > Deferred => Settler(s, WithTask(c, t, x), t, Due(s, <<"settle", t>>, e2, m2))
  PROVE  Owes(s, n, WithTask(c, t, x), e2, m2)
<1>1. Fine(s, n, c, 0) /\ RunOk(s, c)
  BY DEF Owes
<1>2. t \in Ids /\ n \in Nat /\ 1..n \subseteq Ids /\ c \in CtxType(n)
  BY <1>1, FineFacts
<1>3. PICK c2 : c2 = WithTask(c, t, x)
  OBVIOUS
<1>4. /\ c2 \in CtxType(n) /\ c2.comb = c.comb /\ c2.run = c.run /\ c2.task[t] = x
      /\ \A q \in Ids : q # t => c2.task[q] = c.task[q]
  BY <1>2, <1>3, WithFacts
<1>5. ASSUME NEW d \in Closures(n), Fit(d, c) PROVE Fit(d, c2)
  <2> SUFFICES ASSUME Key(d)[1] = "settle"
               PROVE  /\ d.fn = "comb" <=> c2.comb[d.q].kind # "none"
                      /\ d.fn \in Waiters => c2.task[d.q].st = "none"
    BY DEF Fit
  <2>1. d.q \in Ids
    <3>1. d.fn \notin {"resume", "queued"}
      BY <1>2, <1>5, KeyFacts DEF NoKey
    <3> QED BY <1>2, <1>5, <3>1, KeyFacts
  <2>2. d.fn \in Waiters => c.task[d.q].st = "none"
    BY <1>5 DEF Fit
  <2> QED BY <1>4, <1>5, <2>1, <2>2 DEF Fit
<1>6. ASSUME NEW d, InLists(s, d) PROVE Src(d, c2) = Src(d, c) /\ Fit(d, c2)
  <2>1. d \in Closures(n) /\ Fit(d, c)
    BY <1>1, <1>6, WaitingFacts
  <2>2. CASE d.fn # "resume"
    BY <1>5, <2>1, <2>2 DEF Src
  <2>3. CASE d.fn = "resume"
    <3>1. d.t \in 1..n /\ Key(d) = <<"resume", d.t>>
      BY <1>2, <2>1, <2>3, KeyFacts
    <3>2. <<"resume", t>> \in Keys
      BY <1>2 DEF Keys
    <3>3. d.t = t => x.on = c.task[t].on
      BY <1>1, <1>6, <3>1, <3>2, WaitingFacts
    <3>4. c2.task[d.t].on = c.task[d.t].on
      BY <1>2, <1>4, <3>1, <3>3
    <3> QED BY <1>5, <2>1, <2>3, <3>4 DEF Src
  <2> QED BY <2>2, <2>3
<1>7. Fine(s, n, c2, 0)
  BY <1>1, <1>4, <1>6, CtxFine
<1>8. /\ \A u \in Ids : <<"resume", u>> \in Keys /\ <<"settle", u>> \in Keys
      /\ \A q \in (Deferred + 1)..n : q \in Ids /\ q > Deferred
  <2>1. \A q \in (Deferred + 1)..n : q > Deferred
    BY <1>2, PromiseAssumption
  <2> QED BY <1>1, <2>1, KeyMade
<1>9. Resumes(s, c2, e2, m2)
  <2> SUFFICES ASSUME NEW u \in Ids
               PROVE  Due(s, <<"resume", u>>, e2, m2) = (IF c2.task[u].st = "parked" THEN 1 ELSE 0)
    BY DEF Resumes
  <2>1. CASE u = t
    BY <1>4, <2>1
  <2>2. CASE u # t
    <3>1. <<"resume", u>> \notin {<<"resume", t>>, <<"settle", t>>}
      BY <2>2
    <3>2. Due(s, <<"resume", u>>, e2, m2) = Due(s, <<"resume", u>>, e, m)
      BY <1>8, <3>1
    <3> QED BY <1>4, <2>2, <3>2 DEF Owes, Resumes
  <2> QED BY <2>1, <2>2
<1>10. Settlers(s, n, c2, e2, m2)
  <2> SUFFICES ASSUME NEW q \in (Deferred + 1)..n PROVE Settler(s, c2, q, Due(s, <<"settle", q>>, e2, m2))
    BY DEF Settlers
  <2>1. CASE q = t
    BY <1>3, <1>8, <2>1
  <2>2. CASE q # t
    <3>1. <<"settle", q>> \notin {<<"resume", t>>, <<"settle", t>>}
      BY <2>2
    <3>2. Due(s, <<"settle", q>>, e2, m2) = Due(s, <<"settle", q>>, e, m)
      BY <1>8, <3>1
    <3>3. Settler(s, c, q, Due(s, <<"settle", q>>, e, m))
      BY DEF Owes, Settlers
    <3> QED BY <1>4, <1>8, <2>2, <3>2, <3>3 DEF Settler
  <2> QED BY <2>1, <2>2
<1>11. Left(s, c2)
  BY <1>4 DEF Owes, Left
<1>12. RunOk(s, c2)
  <2>1. c.run.fn \in Waiters => Fit(c.run, c2)
    BY <1>1, <1>5, RunFacts DEF RunOk
  <2> QED BY <1>1, <1>4, <2>1 DEF RunOk
<1>13. Fresh(n, c2)
  <2>1. \A q \in Ids : q > n => q # t
    BY <1>2
  <2> QED BY <1>4, <2>1 DEF Owes, Fresh
<1> QED BY <1>3, <1>7, <1>9, <1>10, <1>11, <1>12, <1>13 DEF Owes

\* Numbers of closures due with a task's two keys.
LEMMA DueFacts ==
  ASSUME NEW s, NEW n, NEW c, Fine(s, n, c, 0), NEW t \in Ids
  PROVE  /\ \A k \in Keys : \A e, m : k # e => Due(s, k, e, m) = Count(s, k)
         /\ \A k \in Keys : Due(s, k, k, 1) = Count(s, k) + 1 /\ Count(s, k) \in Nat
         /\ <<"resume", t>> \in Keys /\ <<"settle", t>> \in Keys
         /\ <<"resume", t>> # <<"settle", t>> /\ <<"resume", t>> # NoKey /\ <<"settle", t>> # NoKey
<1>1. \A k \in Keys : Count(s, k) \in Nat
  BY FineFacts
<1> QED BY <1>1 DEF Due, Plus, Keys, NoKey

\* A debt counts at its own key only.
LEMMA DueElse ==
  ASSUME NEW s, NEW n, NEW c, Fine(s, n, c, 0), NEW e, NEW m
  PROVE  \A j \in Keys : j # e => Due(s, j, e, m) = Due(s, j, NoKey, 0)
<1>1. \A j \in Keys : Plus(j, NoKey, 0) = 0
  BY PlusNone
<1> QED BY <1>1 DEF Due, Plus

\* A body that ends owes its promise's settlement.
LEMMA CtxDone ==
  ASSUME NEW s, NEW n, NEW c, Owes(s, n, c, NoKey, 0), NEW t \in 1..n, c.task[t].st = "running",
         NEW x \in TaskType, x.st = "done", x.on = c.task[t].on
  PROVE  Owes(s, n, WithTask(c, t, x), <<"settle", t>>, 1)
<1>1. Fine(s, n, c, 0) /\ RunOk(s, c) /\ t \in Ids /\ n \in Nat /\ c \in CtxType(n)
  BY FineFacts DEF Owes
<1>2. PICK e2 : e2 = <<"settle", t>>
  OBVIOUS
<1>3. \A j \in Keys : j # <<"settle", t>> => Due(s, j, e2, 1) = Due(s, j, NoKey, 0)
  BY <1>1, <1>2, DueElse
<1>4. Due(s, <<"resume", t>>, e2, 1) = (IF x.st = "parked" THEN 1 ELSE 0)
  BY <1>1, <1>3, DueFacts DEF Owes, Resumes
<1>5. t > Deferred => Settler(s, WithTask(c, t, x), t, Due(s, <<"settle", t>>, e2, 1))
  <2> SUFFICES ASSUME t > Deferred PROVE Settler(s, WithTask(c, t, x), t, Due(s, <<"settle", t>>, e2, 1))
    OBVIOUS
  <2>1. Settler(s, c, t, Due(s, <<"settle", t>>, NoKey, 0))
    <3>1. t \in (Deferred + 1)..n
      BY <1>1, PromiseAssumption
    <3> QED BY <3>1 DEF Owes, Settlers
  <2>2. PICK k \in Nat : /\ k = Count(s, <<"settle", t>>)
                         /\ Due(s, <<"settle", t>>, NoKey, 0) = k /\ Due(s, <<"settle", t>>, e2, 1) = k + 1
    BY <1>1, <1>2, DueFacts
  <2>3. ~Settles(c.run, t)
    BY <1>1, RunFacts
  <2>4. PICK c2 : c2 = WithTask(c, t, x)
    OBVIOUS
  <2>5. c2.comb = c.comb /\ c2.run = c.run /\ c2.task[t] = x
    BY <1>1, <2>4, WithFacts
  <2>6. c.comb[t].left \in Int
    BY <1>1 DEF CtxType, CombType
  <2>7. Settler(s, c, t, k)
    BY <2>1, <2>2
  <2>8. Settler(s, c2, t, k + 1)
    BY <2>3, <2>5, <2>6, <2>7 DEF Settler
  <2> QED BY <2>2, <2>4, <2>8
<1>6. c.task[t].st # "none" /\ x.st # "none"
  OBVIOUS
<1>7. Owes(s, n, WithTask(c, t, x), e2, 1)
  BY <1>3, <1>4, <1>5, <1>6, CtxTask
<1> QED BY <1>2, <1>7

\* A body that waits owes its resumption.
LEMMA CtxParked ==
  ASSUME NEW s, NEW n, NEW c, Owes(s, n, c, NoKey, 0), NEW t \in 1..n, c.task[t].st = "running",
         NEW x \in TaskType, x.st = "parked"
  PROVE  Owes(s, n, WithTask(c, t, x), <<"resume", t>>, 1)
<1>1. Fine(s, n, c, 0) /\ RunOk(s, c) /\ t \in Ids /\ n \in Nat /\ c \in CtxType(n)
  BY FineFacts DEF Owes
<1>2. PICK e2 : e2 = <<"resume", t>>
  OBVIOUS
<1>3. \A j \in Keys : j # <<"resume", t>> => Due(s, j, e2, 1) = Due(s, j, NoKey, 0)
  BY <1>1, <1>2, DueElse
<1>4. Count(s, <<"resume", t>>) = 0
  <2>1. Due(s, <<"resume", t>>, NoKey, 0) = Count(s, <<"resume", t>>)
    BY <1>1, DueFacts
  <2> QED BY <1>1, <2>1 DEF Owes, Resumes
<1>5. Due(s, <<"resume", t>>, e2, 1) = (IF x.st = "parked" THEN 1 ELSE 0)
  <2>1. Due(s, e2, e2, 1) = Count(s, e2) + 1
    BY <1>1, <1>2, DueFacts
  <2> QED BY <1>2, <1>4, <2>1
<1>6. t > Deferred => Settler(s, WithTask(c, t, x), t, Due(s, <<"settle", t>>, e2, 1))
  <2> SUFFICES ASSUME t > Deferred PROVE Settler(s, WithTask(c, t, x), t, Due(s, <<"settle", t>>, e2, 1))
    OBVIOUS
  <2>1. Settler(s, c, t, Due(s, <<"settle", t>>, NoKey, 0))
    <3>1. t \in (Deferred + 1)..n
      BY <1>1, PromiseAssumption
    <3> QED BY <3>1 DEF Owes, Settlers
  <2>2. Due(s, <<"settle", t>>, e2, 1) = Due(s, <<"settle", t>>, NoKey, 0)
    BY <1>1, <1>3, DueFacts
  <2>4. PICK c2 : c2 = WithTask(c, t, x)
    OBVIOUS
  <2>5. c2.comb = c.comb /\ c2.run = c.run /\ c2.task[t] = x
    BY <1>1, <2>4, WithFacts
  <2> QED BY <2>1, <2>2, <2>4, <2>5 DEF Settler
<1>7. c.task[t].st # "none" /\ x.st # "none"
  OBVIOUS
<1>8. Owes(s, n, WithTask(c, t, x), e2, 1)
  BY <1>3, <1>4, <1>5, <1>6, <1>7, CtxTask
<1> QED BY <1>2, <1>8

\* A body resumed pays it.
LEMMA CtxResumed ==
  ASSUME NEW s, NEW n, NEW c, NEW t \in 1..n, Owes(s, n, c, <<"resume", t>>, 1),
         NEW x \in TaskType, x.st = "running", x.on = c.task[t].on
  PROVE  Owes(s, n, WithTask(c, t, x), NoKey, 0) /\ c.task[t].st = "parked"
<1>1. Fine(s, n, c, 0) /\ RunOk(s, c) /\ t \in Ids /\ n \in Nat /\ c \in CtxType(n)
  BY FineFacts DEF Owes
<1>2. PICK e : e = <<"resume", t>> /\ Owes(s, n, c, e, 1)
  OBVIOUS
<1>3. \A j \in Keys : j # <<"resume", t>> => Due(s, j, NoKey, 0) = Due(s, j, e, 1)
  BY <1>1, <1>2, DueElse
<1>4. Count(s, <<"resume", t>>) = 0 /\ c.task[t].st = "parked"
  <2>1. PICK k \in Nat : k = Count(s, <<"resume", t>>) /\ Due(s, <<"resume", t>>, e, 1) = k + 1
    BY <1>1, <1>2, DueFacts
  <2>2. k + 1 = (IF c.task[t].st = "parked" THEN 1 ELSE 0)
    BY <1>1, <1>2, <2>1 DEF Owes, Resumes
  <2> QED BY <2>1, <2>2
<1>5. Due(s, <<"resume", t>>, NoKey, 0) = (IF x.st = "parked" THEN 1 ELSE 0)
  BY <1>1, <1>4, DueFacts
<1>6. t > Deferred => Settler(s, WithTask(c, t, x), t, Due(s, <<"settle", t>>, NoKey, 0))
  <2> SUFFICES ASSUME t > Deferred PROVE Settler(s, WithTask(c, t, x), t, Due(s, <<"settle", t>>, NoKey, 0))
    OBVIOUS
  <2>1. Settler(s, c, t, Due(s, <<"settle", t>>, e, 1))
    <3>1. t \in (Deferred + 1)..n
      BY <1>1, PromiseAssumption
    <3> QED BY <1>2, <3>1 DEF Owes, Settlers
  <2>2. Due(s, <<"settle", t>>, NoKey, 0) = Due(s, <<"settle", t>>, e, 1)
    BY <1>1, <1>3, DueFacts
  <2>4. PICK c2 : c2 = WithTask(c, t, x)
    OBVIOUS
  <2>5. c2.comb = c.comb /\ c2.run = c.run /\ c2.task[t] = x
    BY <1>1, <2>4, WithFacts
  <2> QED BY <1>4, <2>1, <2>2, <2>4, <2>5 DEF Settler
<1>7. c.task[t].st # "none" /\ x.st # "none"
  BY <1>4
<1>8. Owes(s, n, WithTask(c, t, x), NoKey, 0)
  BY <1>2, <1>3, <1>4, <1>5, <1>6, <1>7, CtxTask
<1> QED BY <1>4, <1>8

\* Which closure runs matters only to the promise it settles.
LEMMA CtxRun ==
  ASSUME NEW s, NEW n, NEW c, NEW e, NEW m, Owes(s, n, c, e, m),
         NEW d \in Closures(n) \cup {NoClosure}, RunOk(s, WithRun(c, d)), NEW e2, NEW m2,
         \A t \in Ids : Due(s, <<"resume", t>>, e2, m2) = Due(s, <<"resume", t>>, e, m),
         \A q \in (Deferred + 1)..n : Settler(s, c, q, Due(s, <<"settle", q>>, e, m))
             => Settler(s, WithRun(c, d), q, Due(s, <<"settle", q>>, e2, m2))
  PROVE  Owes(s, n, WithRun(c, d), e2, m2)
<1>1. Fine(s, n, c, 0) /\ c \in CtxType(n)
  BY DEF Owes, Fine
<1>2. PICK c2 : c2 = WithRun(c, d)
  OBVIOUS
<1>3. c2 \in CtxType(n) /\ c2.task = c.task /\ c2.comb = c.comb
  BY <1>1, <1>2 DEF CtxType, WithRun
<1>4. ASSUME NEW f, InLists(s, f) PROVE Src(f, c2) = Src(f, c) /\ Fit(f, c2)
  <2>1. Fit(f, c)
    BY <1>1, <1>4, WaitingFacts
  <2> QED BY <1>3, <2>1 DEF Src, Fit
<1>5. Fine(s, n, c2, 0)
  BY <1>1, <1>3, <1>4, CtxFine
<1>6. Resumes(s, c2, e2, m2)
  BY <1>3 DEF Owes, Resumes
<1>7. Settlers(s, n, c2, e2, m2)
  BY <1>2 DEF Owes, Settlers
<1>8. Left(s, c2) /\ Fresh(n, c2)
  BY <1>3 DEF Owes, Left, Fresh
<1> QED BY <1>2, <1>5, <1>6, <1>7, <1>8 DEF Owes

\* What WithRun leaves.
LEMMA RunWith ==
  ASSUME NEW n, NEW c \in CtxType(n), NEW d
  PROVE  WithRun(c, d).run = d /\ WithRun(c, d).task = c.task /\ WithRun(c, d).comb = c.comb
BY DEF CtxType, WithRun

\* Between callbacks any closure that is none may count as running.
LEMMA CtxRunOther ==
  ASSUME NEW s, NEW n, NEW c, NEW e, NEW m, Owes(s, n, c, e, m), c.run.fn \notin Waiters,
         NEW d \in Closures(n) \cup {NoClosure}, d.fn \in {"none", "resume", "queued"}
  PROVE  Owes(s, n, WithRun(c, d), e, m)
<1>1. Fine(s, n, c, 0) /\ RunOk(s, c) /\ c \in CtxType(n)
  BY DEF Owes, Fine
<1>2. PICK c2 : c2 = WithRun(c, d)
  OBVIOUS
<1>3. c2.run = d /\ c2.task = c.task /\ c2.comb = c.comb
  BY <1>1, <1>2, RunWith
<1>4. RunOk(s, c2)
  BY <1>3 DEF RunOk, Waiters
<1>5. \A q : ~Settles(c.run, q) /\ ~Settles(d, q)
  BY <1>1, RunFacts DEF Settles
<1>6. \A q, k : Settler(s, c, q, k) => Settler(s, c2, q, k)
  BY <1>3, <1>5 DEF Settler
<1> QED BY <1>2, <1>4, <1>6, CtxRun

\* A callback entered will settle what its closure was to settle.
LEMMA CtxEnter ==
  ASSUME NEW s, NEW n, NEW c, NEW d \in Closures(n), Owes(s, n, c, <<"settle", d.q>>, 1), c.run.fn \notin Waiters,
         d.fn \in Waiters, Fit(d, c), s.prom[d.p].st # Pending
  PROVE  Owes(s, n, WithRun(c, d), NoKey, 0)
<1>1. Fine(s, n, c, 0) /\ RunOk(s, c) /\ c \in CtxType(n) /\ n \in Nat /\ 1..n \subseteq Ids
  BY FineFacts DEF Owes
<1>2. PICK c2 : c2 = WithRun(c, d)
  OBVIOUS
<1>3. c2.run = d /\ c2.task = c.task /\ c2.comb = c.comb
  BY <1>1, <1>2, RunWith
<1>4. RunOk(s, c2)
  BY <1>3 DEF RunOk, Waiters, Fit
<1>5. /\ d.q \in 1..n /\ d.q \in Ids /\ c.task[d.q].st = "none" /\ c.comb[d.q].kind = "none"
      /\ \A q : Settles(d, q) <=> q = d.q
  <2>1. d.fn \notin {"none", "resume", "queued", "comb"}
    BY DEF Waiters
  <2>2. d.q \in 1..n /\ Key(d) = <<"settle", d.q>>
    BY <1>1, <2>1, KeyFacts
  <2> QED BY <1>1, <2>1, <2>2 DEF Fit, Settles
<1>6. \A q : ~Settles(c.run, q)
  BY <1>1, RunFacts
<1>7. PICK e : e = <<"settle", d.q>> /\ Owes(s, n, c, e, 1)
  OBVIOUS
<1>8. \A j \in Keys : j # e => Due(s, j, NoKey, 0) = Due(s, j, e, 1)
  BY <1>1, <1>5, DueElse
<1>9. \A t \in Ids : Due(s, <<"resume", t>>, NoKey, 0) = Due(s, <<"resume", t>>, e, 1)
  <2>1. \A t \in Ids : <<"resume", t>> \in Keys /\ <<"resume", t>> # e
    BY <1>7 DEF Keys
  <2> QED BY <1>8, <2>1
<1>10. ASSUME NEW q \in (Deferred + 1)..n, Settler(s, c, q, Due(s, <<"settle", q>>, e, 1))
       PROVE  Settler(s, c2, q, Due(s, <<"settle", q>>, NoKey, 0))
  <2>1. q \in Ids /\ <<"settle", q>> \in Keys
    BY <1>1, KeyMade
  <2>2. CASE q # d.q
    <3>1. Due(s, <<"settle", q>>, NoKey, 0) = Due(s, <<"settle", q>>, e, 1)
      BY <1>7, <1>8, <2>1, <2>2
    <3> QED BY <1>3, <1>5, <1>6, <1>10, <2>2, <3>1 DEF Settler
  <2>3. CASE q = d.q
    <3>1. PICK k \in Nat : Due(s, <<"settle", q>>, NoKey, 0) = k /\ Due(s, <<"settle", q>>, e, 1) = k + 1
      BY <1>1, <1>7, <2>1, <2>3, DueFacts
    <3>2. Settler(s, c, q, k + 1)
      BY <1>10, <3>1
    <3>3. Settler(s, c2, q, k)
      BY <1>3, <1>5, <1>6, <2>3, <3>2 DEF Settler
    <3> QED BY <3>1, <3>3
  <2> QED BY <2>2, <2>3
<1> QED BY <1>2, <1>4, <1>7, <1>9, <1>10, CtxRun

\* A callback that ends owes it.
LEMMA CtxUnrun ==
  ASSUME NEW s, NEW n, NEW c, Owes(s, n, c, NoKey, 0), c.run.fn \in Waiters
  PROVE  Owes(s, n, WithRun(c, NoClosure), <<"settle", c.run.q>>, 1)
<1>1. Fine(s, n, c, 0) /\ RunOk(s, c) /\ c \in CtxType(n) /\ n \in Nat /\ 1..n \subseteq Ids
  BY FineFacts DEF Owes
<1>2. PICK c2 : c2 = WithRun(c, NoClosure)
  OBVIOUS
<1>3. c2.run = NoClosure /\ c2.task = c.task /\ c2.comb = c.comb
  BY <1>1, <1>2, RunWith
<1>4. RunOk(s, c2)
  BY <1>3 DEF RunOk, Waiters, NoClosure
<1>5. PICK u \in Ids : /\ u = c.run.q /\ c.task[u].st = "none" /\ c.comb[u].kind = "none"
                       /\ \A q : Settles(c.run, q) <=> q = u
  BY <1>1, RunFacts
<1>6. \A q : ~Settles(NoClosure, q)
  BY DEF Settles, NoClosure
<1>7. PICK e : e = <<"settle", u>>
  OBVIOUS
<1>8. \A j \in Keys : j # e => Due(s, j, e, 1) = Due(s, j, NoKey, 0)
  BY <1>1, <1>5, DueElse
<1>9. \A t \in Ids : Due(s, <<"resume", t>>, e, 1) = Due(s, <<"resume", t>>, NoKey, 0)
  <2>1. \A t \in Ids : <<"resume", t>> \in Keys /\ <<"resume", t>> # e
    BY <1>7 DEF Keys
  <2> QED BY <1>8, <2>1
<1>10. ASSUME NEW q \in (Deferred + 1)..n, Settler(s, c, q, Due(s, <<"settle", q>>, NoKey, 0))
       PROVE  Settler(s, c2, q, Due(s, <<"settle", q>>, e, 1))
  <2>1. q \in Ids /\ <<"settle", q>> \in Keys
    BY <1>1, KeyMade
  <2>2. CASE q # u
    <3>1. Due(s, <<"settle", q>>, e, 1) = Due(s, <<"settle", q>>, NoKey, 0)
      BY <1>7, <1>8, <2>1, <2>2
    <3> QED BY <1>3, <1>5, <1>6, <1>10, <2>2, <3>1 DEF Settler
  <2>3. CASE q = u
    <3>1. PICK k \in Nat : Due(s, <<"settle", q>>, NoKey, 0) = k /\ Due(s, <<"settle", q>>, e, 1) = k + 1
      BY <1>1, <1>7, <2>1, <2>3, DueFacts
    <3>2. Settler(s, c, q, k)
      BY <1>10, <3>1
    <3>3. Settler(s, c2, q, k + 1)
      BY <1>3, <1>5, <1>6, <2>3, <3>2 DEF Settler
    <3> QED BY <3>1, <3>3
  <2> QED BY <2>2, <2>3
<1>11. NoClosure \in Closures(n) \cup {NoClosure}
  OBVIOUS
<1>12. Owes(s, n, c2, e, 1)
  BY <1>2, <1>4, <1>9, <1>10, <1>11, CtxRun
<1> QED BY <1>2, <1>5, <1>7, <1>12

\* A combinator whose count goes down with a closure that is owed.
LEMMA CtxLeft ==
  ASSUME NEW s, NEW n, NEW c, NEW q \in 1..n, NEW e \in {NoKey, <<"settle", q>>}, NEW m \in Nat, Owes(s, n, c, e, m),
         c.comb[q].kind # "none", NEW x \in CombType, x.kind = c.comb[q].kind,
         s.prom[q].st = Pending => x.left >= 1 /\ (q > Deferred => Count(s, <<"settle", q>>) >= x.left)
  PROVE  Owes(s, n, WithComb(c, q, x), NoKey, 0)
<1>1. Fine(s, n, c, 0) /\ RunOk(s, c) /\ c \in CtxType(n) /\ n \in Nat /\ 1..n \subseteq Ids /\ q \in Ids
  BY FineFacts DEF Owes
<1>2. PICK c2 : c2 = WithComb(c, q, x)
  OBVIOUS
<1>3. /\ c2 \in CtxType(n) /\ c2.task = c.task /\ c2.run = c.run /\ c2.comb[q] = x
      /\ \A u \in Ids : u # q => c2.comb[u] = c.comb[u]
  <2>1. /\ WithComb(c, q, x) \in CtxType(n) /\ WithComb(c, q, x).task = c.task /\ WithComb(c, q, x).run = c.run
        /\ WithComb(c, q, x).comb[q] = x
        /\ \A u \in Ids : u # q => WithComb(c, q, x).comb[u] = c.comb[u]
    BY <1>1, WithFacts
  <2> QED BY <1>2, <2>1
<1>4. \A u \in Ids : c2.comb[u].kind = c.comb[u].kind
  BY <1>3
<1>5. ASSUME NEW d \in Closures(n), Fit(d, c) PROVE Fit(d, c2)
  <2> SUFFICES ASSUME Key(d)[1] = "settle"
               PROVE  /\ d.fn = "comb" <=> c2.comb[d.q].kind # "none"
                      /\ d.fn \in Waiters => c2.task[d.q].st = "none"
    BY DEF Fit
  <2>1. d.q \in Ids
    <3>1. d.fn \notin {"resume", "queued"}
      BY <1>1, <1>5, KeyFacts DEF NoKey
    <3> QED BY <1>1, <1>5, <3>1, KeyFacts
  <2> QED BY <1>3, <1>4, <1>5, <2>1 DEF Fit
<1>6. ASSUME NEW d, InLists(s, d) PROVE Src(d, c2) = Src(d, c) /\ Fit(d, c2)
  <2>1. d \in Closures(n) /\ Fit(d, c)
    BY <1>1, <1>6, WaitingFacts
  <2> QED BY <1>3, <1>5, <2>1 DEF Src
<1>7. Fine(s, n, c2, 0)
  BY <1>1, <1>3, <1>6, CtxFine
<1>8. /\ \A j \in Keys : j # <<"settle", q>> => Due(s, j, NoKey, 0) = Due(s, j, e, m)
      /\ Due(s, <<"settle", q>>, NoKey, 0) = Count(s, <<"settle", q>>)
  <2>1. \A j \in Keys : j # <<"settle", q>> => Due(s, j, NoKey, 0) = Due(s, j, e, m)
    <3>1. CASE e = NoKey
      <4>1. \A j \in Keys : j # NoKey
        BY DEF Keys, NoKey
      <4> QED BY <1>1, <3>1, <4>1, DueElse
    <3>2. CASE e = <<"settle", q>>
      BY <1>1, <3>2, DueElse
    <3> QED BY <3>1, <3>2
  <2>2. Due(s, <<"settle", q>>, NoKey, 0) = Count(s, <<"settle", q>>)
    BY <1>1, DueFacts
  <2> QED BY <2>1, <2>2
<1>9. Resumes(s, c2, NoKey, 0)
  <2>1. \A t \in Ids : <<"resume", t>> \in Keys /\ <<"resume", t>> # <<"settle", q>>
    BY DEF Keys
  <2> QED BY <1>3, <1>8, <2>1 DEF Owes, Resumes
<1>10. Settlers(s, n, c2, NoKey, 0)
  <2> SUFFICES ASSUME NEW u \in (Deferred + 1)..n PROVE Settler(s, c2, u, Due(s, <<"settle", u>>, NoKey, 0))
    BY DEF Settlers
  <2>1. u \in Ids /\ <<"settle", u>> \in Keys /\ u > Deferred
    BY <1>1, KeyMade
  <2>2. CASE u = q
    BY <1>3, <1>8, <2>1, <2>2 DEF Settler
  <2>3. CASE u # q
    <3>1. Due(s, <<"settle", u>>, NoKey, 0) = Due(s, <<"settle", u>>, e, m)
      BY <1>8, <2>1, <2>3
    <3>2. Settler(s, c, u, Due(s, <<"settle", u>>, e, m))
      BY DEF Owes, Settlers
    <3> QED BY <1>3, <2>1, <2>3, <3>1, <3>2 DEF Settler
  <2> QED BY <2>2, <2>3
<1>11. Left(s, c2)
  BY <1>3 DEF Owes, Left
<1>12. RunOk(s, c2)
  <2>1. c.run.fn \in Waiters => Fit(c.run, c2)
    BY <1>1, <1>5, RunFacts DEF RunOk
  <2> QED BY <1>1, <1>3, <2>1 DEF RunOk
<1>13. Fresh(n, c2)
  BY <1>3, <1>4 DEF Owes, Fresh
<1> QED BY <1>2, <1>7, <1>9, <1>10, <1>11, <1>12, <1>13 DEF Owes

\* A promise more, with m closures to come.
LEMMA CtxGrow ==
  ASSUME NEW s, NEW n, NEW c, Owes(s, n, c, NoKey, 0), NEW q, q = n + 1, q \in Ids, NEW m \in Nat,
         NEW x \in TaskType, x.st \in {"none", "running"}, NEW y \in CombType, x.st = "none" \/ y.kind = "none",
         s.prom[q].st = Pending =>
            IF y.kind # "none" THEN m >= y.left /\ (y.kind # "race" => y.left >= 1)
                               ELSE m + (IF x.st = "running" THEN 1 ELSE 0) = 1
  PROVE  Owes(s, q, WithComb(WithTask(c, q, x), q, y), <<"settle", q>>, m)
<1>1. Fine(s, n, c, 0) /\ RunOk(s, c) /\ c \in CtxType(n) /\ n \in Nat /\ 1..n \subseteq Ids
  BY FineFacts DEF Owes
<1>2. Fine(s, q, c, 0) /\ c \in CtxType(q) /\ q \in Nat /\ Deferred \in Nat
  <2>1. Fine(s, n + 1, c, 0)
    BY <1>1, FineGrow
  <2> QED BY <1>1, <2>1, PromiseAssumption DEF Fine
<1>3. PICK a : a = WithTask(c, q, x)
  OBVIOUS
<1>4. /\ a \in CtxType(q) /\ a.comb = c.comb /\ a.run = c.run /\ a.task[q] = x
      /\ \A u \in Ids : u # q => a.task[u] = c.task[u]
  BY <1>2, <1>3, WithFacts
<1>5. PICK c2 : c2 = WithComb(a, q, y)
  OBVIOUS
<1>6. /\ c2 \in CtxType(q) /\ c2.task = a.task /\ c2.run = c.run /\ c2.comb[q] = y
      /\ \A u \in Ids : u # q => c2.comb[u] = a.comb[u]
  BY <1>4, <1>5, WithFacts
<1>7. /\ c2.task[q] = x /\ c2.comb[q] = y /\ c2.run = c.run
      /\ \A u \in Ids : u # q => c2.task[u] = c.task[u] /\ c2.comb[u] = c.comb[u]
      /\ \A u \in 1..n : u \in Ids /\ u # q
  <2>1. \A u \in 1..n : u \in Ids /\ u # q
    BY <1>1
  <2> QED BY <1>4, <1>6, <2>1
<1>8. ASSUME NEW d \in Closures(n), Fit(d, c) PROVE Fit(d, c2)
  <2> SUFFICES ASSUME Key(d)[1] = "settle"
               PROVE  /\ d.fn = "comb" <=> c2.comb[d.q].kind # "none"
                      /\ d.fn \in Waiters => c2.task[d.q].st = "none"
    BY DEF Fit
  <2>1. d.q \in 1..n
    <3>1. d.fn \notin {"resume", "queued"}
      BY <1>1, <1>8, KeyFacts DEF NoKey
    <3> QED BY <1>1, <1>8, <3>1, KeyFacts
  <2> QED BY <1>7, <1>8, <2>1 DEF Fit
<1>9. ASSUME NEW d, InLists(s, d) PROVE Src(d, c2) = Src(d, c) /\ Fit(d, c2)
  <2>1. d \in Closures(n) /\ Fit(d, c)
    BY <1>1, <1>9, WaitingFacts
  <2>2. d.fn = "resume" => c2.task[d.t] = c.task[d.t]
    BY <1>1, <1>7, <2>1, KeyFacts
  <2>3. Src(d, c2) = Src(d, c)
    BY <2>2 DEF Src
  <2> QED BY <1>8, <2>1, <2>3
<1>10. Fine(s, q, c2, 0)
  BY <1>2, <1>6, <1>9, CtxFine
<1>11. PICK e : e = <<"settle", q>>
  OBVIOUS
<1>12. \A j \in Keys : j # e => Due(s, j, e, m) = Due(s, j, NoKey, 0)
  BY <1>1, DueElse
<1>13. Due(s, e, e, m) = m
  <2>1. e \in Keys
    BY <1>11 DEF Keys
  <2>2. ASSUME NEW d, InLists(s, d) PROVE Key(d) # e
    <3>1. d \in Closures(n)
      BY <1>1, <2>2, WaitingFacts
    <3>2. \/ d.fn = "resume" /\ Key(d) = <<"resume", d.t>>
          \/ d.fn = "queued" /\ Key(d) = NoKey
          \/ d.q \in 1..n /\ Key(d) = <<"settle", d.q>>
      BY <1>1, <3>1, KeyFacts
    <3> QED BY <1>7, <1>11, <3>2 DEF NoKey
  <2>3. Count(s, e) = 0
    BY <1>1, <2>1, <2>2, WaitingFacts
  <2> QED BY <2>3 DEF Due, Plus
<1>14. Resumes(s, c2, e, m)
  <2> SUFFICES ASSUME NEW t \in Ids
               PROVE  Due(s, <<"resume", t>>, e, m) = (IF c2.task[t].st = "parked" THEN 1 ELSE 0)
    BY DEF Resumes
  <2>1. <<"resume", t>> \in Keys /\ <<"resume", t>> # e
    BY <1>11 DEF Keys
  <2>2. Due(s, <<"resume", t>>, e, m) = (IF c.task[t].st = "parked" THEN 1 ELSE 0)
    BY <1>12, <2>1 DEF Owes, Resumes
  <2>3. q > n
    BY <1>1
  <2>4. c.task[q].st = "none"
    BY <2>3 DEF Owes, Fresh
  <2> QED BY <1>7, <2>2, <2>4
<1>15. Settlers(s, q, c2, e, m)
  <2> SUFFICES ASSUME NEW u \in (Deferred + 1)..q PROVE Settler(s, c2, u, Due(s, <<"settle", u>>, e, m))
    BY DEF Settlers
  <2>0. \A z : ~Settles(c.run, z) \/ z \in 1..n
    BY <1>1, RunFacts
  <2>1. CASE u = q
    <3>1. Settler(s, c2, q, m)
      BY <1>7, <2>0 DEF Settler
    <3> QED BY <1>11, <1>13, <2>1, <3>1
  <2>2. CASE u # q
    <3>1. u \in (Deferred + 1)..n
      BY <1>1, <1>2, <2>2
    <3>2. u \in Ids /\ <<"settle", u>> \in Keys
      BY <1>1, <3>1, KeyMade
    <3>3. Due(s, <<"settle", u>>, e, m) = Due(s, <<"settle", u>>, NoKey, 0)
      BY <1>11, <1>12, <2>2, <3>2
    <3>4. Settler(s, c, u, Due(s, <<"settle", u>>, NoKey, 0))
      BY <3>1 DEF Owes, Settlers
    <3> QED BY <1>7, <2>2, <3>2, <3>3, <3>4 DEF Settler
  <2> QED BY <2>1, <2>2
<1>16. Left(s, c2)
  BY <1>7 DEF Owes, Left
<1>17. RunOk(s, c2)
  <2>1. c.run.fn \in Waiters => Fit(c.run, c2)
    BY <1>1, <1>8, RunFacts DEF RunOk
  <2> QED BY <1>1, <1>7, <2>1 DEF RunOk
<1>18. Fresh(q, c2)
  <2>1. \A u \in Ids : u > q => u > n /\ u # q
    BY <1>1 DEF Ids
  <2> QED BY <1>7, <2>1 DEF Owes, Fresh
<1>19. Owes(s, q, c2, e, m)
  BY <1>10, <1>14, <1>15, <1>16, <1>17, <1>18 DEF Owes
<1> QED BY <1>3, <1>5, <1>11, <1>19

-----------------------------------------------------------------------------
(* The program's code on the stack.                                        *)

\* A list without its last element.
LEMMA FrontFacts ==
  ASSUME NEW S, NEW l \in Seq(S), l # <<>>
  PROVE  /\ Front(l) \in Seq(S) /\ Len(l) \in Nat /\ Len(l) >= 1 /\ Len(Front(l)) = Len(l) - 1
         /\ \A i \in 1..(Len(l) - 1) : Front(l)[i] = l[i]
         /\ Last(l) = l[Len(l)] /\ Last(l) \in S
         /\ Front(l) = <<>> <=> Len(l) = 1
<1>1. PICK m \in Nat : m = Len(l) /\ m >= 1
  <2>1. Len(l) # 0
    BY EmptySeq
  <2> QED BY <2>1
<1>2. PICK z \in Int : z = m - 1
  BY <1>1
<1>3. \A i \in 1..z : l[i] \in S
  BY <1>1, <1>2
<1>4. PICK f : f = SubSeq(l, 1, z)
  OBVIOUS
<1>5. f \in Seq(S) /\ Len(f) = (IF 1 <= z THEN z - 1 + 1 ELSE 0) /\ \A i \in 1..(z - 1 + 1) : f[i] = l[1 + i - 1]
  BY <1>3, <1>4, SubSeqProperties
<1>6. Len(f) = m - 1
  BY <1>1, <1>2, <1>5
<1>7. \A i \in 1..(m - 1) : f[i] = l[i]
  BY <1>1, <1>2, <1>5
<1>8. Front(l) = f
  BY <1>1, <1>2, <1>4 DEF Front
<1>9. Last(l) = l[Len(l)] /\ Last(l) \in S
  BY <1>1 DEF Last
<1>10. f = <<>> <=> m = 1
  BY <1>1, <1>5, <1>6, EmptySeq
<1> QED BY <1>1, <1>5, <1>6, <1>7, <1>8, <1>9, <1>10

\* Promises are made and tasks go on under the same frames.
LEMMA FramesSame ==
  ASSUME NEW stk, NEW n \in Nat, NEW c, NEW cur, NEW prev, Frames(stk, n, c, cur, prev),
         NEW n2 \in Nat, n2 >= n, NEW c2, c2.run = c.run,
         \A t \in 1..n : c.task[t].st = "running" => c2.task[t].st = "running"
  PROVE  Frames(stk, n2, c2, cur, prev)
<1>1. \A t \in 1..n : t \in 1..n2
  OBVIOUS
<1>2. \A i \in 1..Len(stk) : stk[i].k = "task" => stk[i].id \in 1..n2 /\ c2.task[stk[i].id].st = "running"
  BY <1>1 DEF Frames
<1> QED BY <1>2 DEF Frames

\* No code, and code of one frame.
LEMMA FramesNone ==
  ASSUME NEW n, NEW c, c.run.fn \notin Waiters
  PROVE  Frames(<<>>, n, c, NoTask, <<>>)
<1>1. PICK stk : stk = <<>>
  OBVIOUS
<1>2. stk \in Seq(FrameType) /\ stk \in Seq(Vals) /\ Len(stk) = 0
  BY <1>1, EmptySeq
<1>3. Frames(stk, n, c, NoTask, stk)
  BY <1>1, <1>2 DEF Frames
<1> QED BY <1>1, <1>3

\* The drain enters one.
LEMMA FramesOne ==
  ASSUME NEW n, NEW c, NEW f \in FrameType, f.k = "task" => f.id \in 1..n /\ c.task[f.id].st = "running",
         f.k \in Waiters => c.run.fn = f.k /\ c.run.q = f.id, c.run.fn \in Waiters => f.k \in Waiters
  PROVE  Frames(<<f>>, n, c, TaskOf(f), <<>>)
<1>1. PICK stk : stk = <<f>>
  OBVIOUS
<1>2. stk \in Seq(FrameType) /\ Len(stk) = 1 /\ stk[1] = f /\ stk # <<>>
  BY <1>1
<1>3. PICK prev : prev = <<>> /\ prev \in Seq(Vals) /\ Len(prev) = 0
  BY EmptySeq
<1>4. \A i \in 1..1 : i = 1
  OBVIOUS
<1>5. Frames(stk, n, c, TaskOf(f), prev)
  BY <1>2, <1>3, <1>4 DEF Frames
<1> QED BY <1>1, <1>3, <1>5

\* An async function's body on top of its caller.
LEMMA FramesPush ==
  ASSUME NEW stk, NEW n \in Nat, NEW c, NEW cur \in Vals, NEW prev, Frames(stk, n, c, cur, prev), stk # <<>>,
         NEW c2, c2.run = c.run, \A t \in 1..n : c.task[t].st = "running" => c2.task[t].st = "running",
         NEW q, q = n + 1, c2.task[q].st = "running", NEW f, f = [k |-> "task", id |-> q]
  PROVE  Frames(Append(stk, f), q, c2, q, Append(prev, cur))
<1>1. /\ stk \in Seq(FrameType) /\ prev \in Seq(Vals) /\ q \in Nat /\ f \in FrameType
      /\ f.k = "task" /\ f.id = q /\ TaskOf(f) = q
  BY DEF Frames, FrameType, TaskOf
<1>2. PICK m \in Nat : m = Len(stk) /\ m >= 1 /\ Len(prev) = m - 1
  <2>1. Len(stk) # 0
    BY <1>1, EmptySeq
  <2> QED BY <1>1, <2>1 DEF Frames
<1>3. PICK S : S = Append(stk, f)
  OBVIOUS
<1>4. S \in Seq(FrameType) /\ Len(S) = m + 1 /\ S[m + 1] = f /\ \A i \in 1..m : S[i] = stk[i]
  BY <1>1, <1>2, <1>3, AppendProperties
<1>5. PICK P : P = Append(prev, cur)
  OBVIOUS
<1>6. P \in Seq(Vals) /\ Len(P) = m /\ P[m] = cur /\ \A i \in 1..(m - 1) : P[i] = prev[i]
  BY <1>1, <1>2, <1>5, AppendProperties
<1>7. S # <<>> /\ m + 1 \in Nat
  BY <1>2, <1>4, EmptySeq
<1>8. \A i : i \in 1..(m + 1) <=> i \in 1..m \/ i = m + 1
  BY <1>2
<1>9. ASSUME NEW i \in 1..m PROVE P[i] = TaskOf(S[i])
  <2>1. CASE i = m
    BY <1>2, <1>4, <1>6, <2>1 DEF Frames
  <2>2. CASE i # m
    <3>1. i \in 1..(m - 1)
      BY <1>2, <2>2
    <3> QED BY <1>2, <1>4, <1>6, <3>1 DEF Frames
  <2> QED BY <2>1, <2>2
<1>10. \A i \in 1..m : stk[i].k = "task" => stk[i].id \in 1..n /\ c.task[stk[i].id].st = "running"
  BY <1>2 DEF Frames
<1>11. \A t \in 1..n : t \in 1..q /\ t # q
  OBVIOUS
<1>12. q \in 1..q
  OBVIOUS
<1>13. \A i \in 1..(m + 1) : i > 1 => S[i].k = "task"
  BY <1>1, <1>2, <1>4, <1>8 DEF Frames
<1>14. \A i \in 1..(m + 1) : S[i].k = "task" => S[i].id \in 1..q /\ c2.task[S[i].id].st = "running"
  BY <1>1, <1>4, <1>8, <1>10, <1>11, <1>12
<1>15. ASSUME NEW i \in 1..(m + 1), NEW j \in 1..(m + 1), S[i].k = "task", S[i] = S[j] PROVE i = j
  <2>1. CASE i \in 1..m /\ j \in 1..m
    BY <1>2, <1>4, <1>15, <2>1 DEF Frames
  <2>2. CASE i \in 1..m /\ j = m + 1
    BY <1>1, <1>4, <1>10, <1>11, <1>15, <2>2
  <2>3. CASE i = m + 1 /\ j \in 1..m
    BY <1>1, <1>4, <1>10, <1>11, <1>15, <2>3
  <2>4. CASE i = m + 1 /\ j = m + 1
    BY <2>4
  <2> QED BY <1>8, <2>1, <2>2, <2>3, <2>4
<1>16. S[1] = stk[1]
  BY <1>2, <1>4
<1>17. Frames(S, q, c2, q, P)
  <2>1. S[1].k \in Waiters => c2.run.fn = S[1].k /\ c2.run.q = S[1].id
    BY <1>16 DEF Frames
  <2>2. c2.run.fn \in Waiters => S[1].k \in Waiters
    BY <1>16 DEF Frames
  <2>3. Len(P) = (IF S = <<>> THEN 0 ELSE Len(S) - 1) /\ q = (IF S = <<>> THEN NoTask ELSE TaskOf(S[Len(S)]))
    BY <1>1, <1>4, <1>6, <1>7
  <2> QED BY <1>4, <1>6, <1>7, <1>9, <1>13, <1>14, <1>15, <2>1, <2>2, <2>3 DEF Frames
<1> QED BY <1>3, <1>5, <1>17

Back(prev) == IF prev = <<>> THEN NoTask ELSE Last(prev)
Rest(prev) == IF prev = <<>> THEN prev ELSE Front(prev)

\* Only an async function's body lies on other code.
LEMMA FramesTop ==
  ASSUME NEW stk, NEW n, NEW c, NEW cur, NEW prev, Frames(stk, n, c, cur, prev), stk # <<>>
  PROVE  /\ Len(stk) \in Nat /\ Len(stk) >= 1 /\ Last(stk) = stk[Len(stk)] /\ Last(stk) \in FrameType
         /\ Last(stk).k # "task" => Len(stk) = 1 /\ cur = NoTask
         /\ Last(stk).k = "task" => Last(stk).id \in 1..n /\ c.task[Last(stk).id].st = "running" /\ cur = Last(stk).id
         /\ Last(stk).k \in Waiters => c.run.fn = Last(stk).k /\ c.run.q = Last(stk).id
         /\ Last(stk).k \notin Waiters /\ Len(stk) = 1 => c.run.fn \notin Waiters
<1>1. stk \in Seq(FrameType)
  BY DEF Frames
<1>2. PICK m \in Nat : m = Len(stk) /\ m >= 1
  BY <1>1, FrontFacts
<1>3. m \in 1..m /\ Last(stk) = stk[m] /\ Last(stk) \in FrameType
  <2>1. Last(stk) = stk[Len(stk)] /\ Last(stk) \in FrameType
    BY <1>1, FrontFacts
  <2> QED BY <1>2, <2>1
<1>4. m > 1 => stk[m].k = "task"
  BY <1>2, <1>3 DEF Frames
<1>5. cur = TaskOf(stk[m])
  BY <1>2 DEF Frames
<1>6. stk[m].k = "task" => stk[m].id \in 1..n /\ c.task[stk[m].id].st = "running"
  BY <1>2, <1>3 DEF Frames
<1>7. stk[m].k \in Waiters => m = 1
  BY <1>2, <1>4 DEF Waiters
<1>8. m = 1 => (stk[m].k \in Waiters => c.run.fn = stk[m].k /\ c.run.q = stk[m].id)
               /\ (c.run.fn \in Waiters => stk[m].k \in Waiters)
  BY DEF Frames
<1> QED BY <1>2, <1>3, <1>4, <1>5, <1>6, <1>7, <1>8 DEF TaskOf

\* The code on top ends or waits.
LEMMA FramesPop ==
  ASSUME NEW stk, NEW n \in Nat, NEW c, NEW cur, NEW prev, Frames(stk, n, c, cur, prev), stk # <<>>, NEW c2,
         Len(stk) = 1 => c2.run.fn \notin Waiters, Len(stk) > 1 => c2.run = c.run,
         \A t \in 1..n : t # cur /\ c.task[t].st = "running" => c2.task[t].st = "running"
  PROVE  Frames(Front(stk), n, c2, Back(prev), Rest(prev))
<1>1. stk \in Seq(FrameType) /\ prev \in Seq(Vals)
  BY DEF Frames
<1>2. PICK m \in Nat : m = Len(stk) /\ m >= 1
  BY <1>1, FrontFacts
<1>3. Len(prev) = m - 1 /\ cur = TaskOf(stk[m])
  BY <1>2 DEF Frames
<1>4. CASE m = 1
  <2>1. Front(stk) = <<>> /\ prev = <<>>
    BY <1>1, <1>2, <1>3, <1>4, FrontFacts, EmptySeq
  <2>2. Back(prev) = NoTask /\ Rest(prev) = <<>>
    BY <2>1 DEF Back, Rest
  <2>3. Frames(<<>>, n, c2, NoTask, <<>>)
    BY <1>2, <1>4, FramesNone
  <2> QED BY <2>1, <2>2, <2>3
<1>5. CASE m > 1
  <2>0. prev # <<>>
    BY <1>2, <1>3, <1>5, EmptySeq
  <2>1. PICK S : S = Front(stk)
    OBVIOUS
  <2>2. /\ S \in Seq(FrameType) /\ Len(S) = m - 1 /\ \A i \in 1..(m - 1) : S[i] = stk[i]
    BY <1>1, <1>2, <2>1, FrontFacts
  <2>3. PICK P : P = Front(prev)
    OBVIOUS
  <2>4. /\ P \in Seq(Vals) /\ Len(P) = m - 2 /\ \A i \in 1..(m - 2) : P[i] = prev[i]
        /\ Last(prev) = prev[m - 1]
    <3>1. Len(prev) - 1 = m - 2
      BY <1>2, <1>3
    <3> QED BY <1>1, <1>3, <2>0, <2>3, <3>1, FrontFacts
  <2>5. S # <<>>
    BY <1>2, <1>5, <2>2, EmptySeq
  <2>6. \A i \in 1..(m - 1) : i \in 1..m /\ i # m
    BY <1>2
  <2>7. m - 1 \in 1..(m - 1) /\ 1 \in 1..(m - 1) /\ \A i \in 1..(m - 2) : i \in 1..(m - 1)
    BY <1>2, <1>5
  <2>8. \A i \in 1..(m - 1) : prev[i] = TaskOf(stk[i])
    BY <1>3 DEF Frames
  <2>9. m \in 1..m /\ stk[m].k = "task"
    BY <1>2, <1>5 DEF Frames
  <2>10. ASSUME NEW i \in 1..(m - 1), S[i].k = "task"
         PROVE  S[i].id \in 1..n /\ c2.task[S[i].id].st = "running"
    <3>1. i \in 1..m /\ i # m /\ S[i] = stk[i]
      BY <2>2, <2>6
    <3>2. stk[i].id \in 1..n /\ c.task[stk[i].id].st = "running"
      BY <1>2, <2>10, <3>1 DEF Frames
    <3>3. stk[i].id # cur
      <4>1. cur = stk[m].id
        BY <1>3, <2>9 DEF TaskOf
      <4>2. stk[i] \in FrameType /\ stk[m] \in FrameType
        BY <1>1, <1>2, <2>9, <3>1
      <4>3. stk[i].id = stk[m].id => stk[i] = stk[m]
        BY <2>9, <2>10, <3>1, <4>2 DEF FrameType
      <4>4. stk[i] # stk[m]
        BY <1>2, <2>9, <3>1 DEF Frames
      <4> QED BY <4>1, <4>3, <4>4
    <3> QED BY <3>1, <3>2, <3>3
  <2>11. ASSUME NEW i \in 1..(m - 1), NEW j \in 1..(m - 1), S[i].k = "task", S[i] = S[j] PROVE i = j
    BY <1>2, <2>2, <2>6, <2>11 DEF Frames
  <2>12. \A i \in 1..(m - 1) : i > 1 => S[i].k = "task"
    BY <1>2, <2>2, <2>6 DEF Frames
  <2>13. \A i \in 1..(m - 2) : P[i] = TaskOf(S[i])
    BY <2>2, <2>4, <2>7, <2>8
  <2>14. /\ Len(P) = (IF S = <<>> THEN 0 ELSE Len(S) - 1)
         /\ Last(prev) = (IF S = <<>> THEN NoTask ELSE TaskOf(S[Len(S)]))
    <3>1. Last(prev) = TaskOf(S[m - 1])
      BY <2>2, <2>4, <2>7, <2>8
    <3> QED BY <1>2, <2>2, <2>4, <2>5, <3>1
  <2>15. /\ S[1].k \in Waiters => c2.run.fn = S[1].k /\ c2.run.q = S[1].id
         /\ c2.run.fn \in Waiters => S[1].k \in Waiters
    <3>1. S[1] = stk[1] /\ c2.run = c.run
      BY <1>2, <1>5, <2>2, <2>7
    <3> QED BY <3>1 DEF Frames
  <2>16. Frames(S, n, c2, Last(prev), P)
    BY <2>2, <2>4, <2>5, <2>10, <2>11, <2>12, <2>13, <2>14, <2>15 DEF Frames
  <2> QED BY <2>0, <2>1, <2>3, <2>16 DEF Back, Rest
<1> QED BY <1>2, <1>4, <1>5

-----------------------------------------------------------------------------
(* Operations of the running code.                                         *)

\* What a good state says of its words.
LEMMA GoodFacts ==
  ASSUME NEW s, NEW n, NEW stk, Good(s, n, stk)
  PROVE  /\ Owes(s, n, Ctx(s), NoKey, 0) /\ Fine(s, n, Ctx(s), 0) /\ RunOk(s, Ctx(s))
         /\ s \in RtType(n) /\ Ctx(s) \in CtxType(n) /\ n \in Nat /\ 1..n \subseteq Ids /\ 1..n \subseteq Vals
         /\ Frames(stk, n, Ctx(s), s.cur, s.prev)
         /\ Ctx(s).task = s.task /\ Ctx(s).comb = s.comb /\ Ctx(s).run = s.run
<1>1. Owes(s, n, Ctx(s), NoKey, 0) /\ Frames(stk, n, Ctx(s), s.cur, s.prev)
  BY DEF Good
<1>2. Fine(s, n, Ctx(s), 0) /\ RunOk(s, Ctx(s))
  BY <1>1 DEF Owes
<1>3. s \in RtType(n) /\ Ctx(s) \in CtxType(n) /\ n \in Nat /\ 1..n \subseteq Ids
  BY <1>2, FineFacts
<1>4. Ids \subseteq Vals
  BY PromiseAssumption DEF Ids, Vals
<1>5. Ctx(s).task = s.task /\ Ctx(s).comb = s.comb /\ Ctx(s).run = s.run
  BY DEF Ctx
<1> QED BY <1>1, <1>2, <1>3, <1>4, <1>5

\* Steps that add no closure with a key.
LEMMA GoodAdds ==
  ASSUME NEW s, NEW r, NEW n, NEW stk, Good(s, n, stk), Adds(s, r, n, Ctx(s), NoKey)
  PROVE  Good(r, n, stk)
<1>1. Owes(r, n, Ctx(s), NoKey, 0)
  BY OwesAdds DEF Good
<1>2. Ctx(r) = Ctx(s) /\ r.cur = s.cur /\ r.prev = s.prev
  BY DEF Adds, Same, Ctx
<1> QED BY <1>1, <1>2 DEF Good

\* Steps of the other queues and of the drain.
LEMMA GoodAlike ==
  ASSUME NEW s, NEW r, NEW n, NEW stk, Good(s, n, stk), Alike(s, r, n), Same(s, r)
  PROVE  Good(r, n, stk)
<1>1. Owes(r, n, Ctx(s), NoKey, 0)
  BY AlikeOwes DEF Good
<1>2. Ctx(r) = Ctx(s) /\ r.cur = s.cur /\ r.prev = s.prev
  BY DEF Same, Ctx
<1> QED BY <1>1, <1>2 DEF Good

\* Resolving functions settle a promise or do nothing.
LEMMA ResolveGood ==
  ASSUME NEW s, NEW n, NEW stk, Good(s, n, stk), NEW p \in Ids
  PROVE  Good(ResolveThunk(s, p, p), n, stk) /\ Good(RejectWith(s, p, p), n, stk)
<1>1. p \in Vals
  BY PromiseAssumption DEF Ids, Vals
<1> QED BY <1>1, GoodFacts, SettleWithAdds, GoodAdds

\* A tick is queued.
LEMMA TickGood ==
  ASSUME NEW s, NEW n, NEW stk, Good(s, n, stk), NEW m \in Nat
  PROVE  Good(NextTick(s, m), n, stk)
<1>1. s \in RtType(n)
  BY GoodFacts
<1>2. PICK q \in Seq(Nat) : q = Append(s.tq, m)
  BY <1>1, AppendProperties DEF RtType
<1>3. PICK r : r = [s EXCEPT !.tq = q]
  OBVIOUS
<1>4. Alike(s, r, n) /\ Same(s, r)
  BY <1>1, <1>3 DEF Alike, Same, RtType
<1>5. NextTick(s, m) = r
  BY <1>2, <1>3 DEF NextTick
<1> QED BY <1>4, <1>5, GoodAlike

\* The clock's microtask settles nothing and resumes nobody.
LEMMA QueueGood ==
  ASSUME NEW s, NEW n, NEW stk, Good(s, n, stk), NEW m \in Nat
  PROVE  Good(QueueMicrotask(s, m), n, stk)
<1>1. Fine(s, n, Ctx(s), 0) /\ n \in Nat
  BY GoodFacts
<1>2. PICK d \in Closures(n) : d = [fn |-> "queued", n |-> m]
  BY <1>1, MakeClosures
<1>3. Key(d) = NoKey /\ Src(d, Ctx(s)) = 0
  BY <1>2 DEF Key, Src, NoKey
<1>4. Fit(d, Ctx(s))
  BY <1>3 DEF Fit, NoKey
<1>5. Adds(s, Enqueue(s, d), n, Ctx(s), NoKey)
  BY <1>1, <1>3, <1>4, EnqueueAdds
<1> QED BY <1>2, <1>5, GoodAdds DEF QueueMicrotask

\* Words set to what they are.
LEMMA WithItself ==
  ASSUME NEW n, NEW c \in CtxType(n), NEW q \in Ids
  PROVE  /\ WithTask(c, q, c.task[q]) = c /\ WithComb(c, q, c.comb[q]) = c
         /\ c.task[q] \in TaskType /\ c.comb[q] \in CombType
<1>1. c.task \in [Ids -> TaskType] /\ c.comb \in [Ids -> CombType]
  BY DEF CtxType
<1>2. [c.task EXCEPT ![q] = c.task[q]] = c.task /\ [c.comb EXCEPT ![q] = c.comb[q]] = c.comb
  BY <1>1
<1>3. WithTask(c, q, c.task[q]) = [c EXCEPT !.task = c.task] /\ WithComb(c, q, c.comb[q]) = [c EXCEPT !.comb = c.comb]
  BY <1>2 DEF WithTask, WithComb
<1>4. [c EXCEPT !.task = c.task] = c /\ [c EXCEPT !.comb = c.comb] = c
  BY DEF CtxType
<1> QED BY <1>1, <1>3, <1>4

\* A promise more that is no task's and no combinator's, under the same code.
LEMMA NewOwes ==
  ASSUME NEW s, NEW n, NEW stk, Good(s, n, stk), NEW q, q = n + 1, q \in Ids
  PROVE  /\ Owes(s, q, Ctx(s), <<"settle", q>>, 1) /\ Frames(stk, q, Ctx(s), s.cur, s.prev)
         /\ s.task[q].st = "none" /\ s.comb[q].kind = "none" /\ q \in Nat
<1>1. PICK c : c = Ctx(s)
  OBVIOUS
<1>2. /\ Owes(s, n, c, NoKey, 0) /\ c \in CtxType(n) /\ n \in Nat
      /\ Frames(stk, n, c, s.cur, s.prev) /\ c.task = s.task /\ c.comb = s.comb
  BY <1>1, GoodFacts
<1>3. q > n /\ q >= n /\ q \in Nat
  BY <1>2
<1>4. c.task[q].st = "none" /\ c.comb[q].kind = "none"
  BY <1>2, <1>3 DEF Owes, Fresh
<1>5. PICK x \in TaskType, y \in CombType : /\ x = c.task[q] /\ y = c.comb[q]
                                            /\ WithComb(WithTask(c, q, x), q, y) = c
  BY <1>2, WithItself
<1>6. 1 + (IF x.st = "running" THEN 1 ELSE 0) = 1
  BY <1>4, <1>5
<1>7. PICK m \in Nat : m = 1
  OBVIOUS
<1>8. Owes(s, q, WithComb(WithTask(c, q, x), q, y), <<"settle", q>>, m)
  BY <1>2, <1>4, <1>5, <1>6, <1>7, CtxGrow
<1>9. Frames(stk, q, c, s.cur, s.prev)
  BY <1>2, <1>3, FramesSame
<1> QED BY <1>1, <1>2, <1>3, <1>4, <1>5, <1>7, <1>8, <1>9

\* A then, a catch or a finally makes a promise and the closure that settles it.
LEMMA ThenGood ==
  ASSUME NEW s, NEW n, NEW stk, Good(s, n, stk), NEW q, q = n + 1, q \in Ids, NEW p \in 1..n,
         NEW d \in Closures(q), d.fn \in Waiters, d.p = p, d.q = q
  PROVE  Good(Attach(s, p, d), q, stk)
<1>1. PICK c : c = Ctx(s)
  OBVIOUS
<1>2. /\ Owes(s, q, c, <<"settle", q>>, 1) /\ Frames(stk, q, c, s.cur, s.prev)
      /\ c.task[q].st = "none" /\ c.comb[q].kind = "none" /\ p \in Ids
  BY <1>1, NewOwes, GoodFacts
<1>3. Src(d, c) = p /\ Key(d) = <<"settle", q>> /\ d.fn # "comb"
  BY DEF Src, Key, Waiters
<1>4. Fit(d, c)
  BY <1>2, <1>3 DEF Fit
<1>5. PICK r : r = Attach(s, p, d)
  OBVIOUS
<1>6. Adds(s, r, q, c, <<"settle", q>>)
  <2>1. Fine(s, q, c, 0)
    BY <1>2 DEF Owes
  <2> QED BY <1>2, <1>3, <1>4, <1>5, <2>1, AttachAdds
<1>7. PICK m \in Nat : m = 0 /\ m + 1 = 1
  OBVIOUS
<1>8. Owes(r, q, c, <<"settle", q>>, m)
  BY <1>2, <1>6, <1>7, Repay
<1>9. Owes(r, q, c, NoKey, 0)
  BY <1>7, <1>8, NoDebt
<1>10. Ctx(r) = c /\ r.cur = s.cur /\ r.prev = s.prev
  BY <1>1, <1>6 DEF Adds, Same, Ctx
<1> QED BY <1>2, <1>5, <1>9, <1>10 DEF Good

\* A combinator without members settles at once.
LEMMA FinishAdds ==
  ASSUME NEW s, NEW n, NEW c, Fine(s, n, c, 0), NEW q \in Ids
  PROVE  Adds(s, CombFinish(s, q), n, c, NoKey) /\ CombFinish(s, q).prom[q].st # Pending
<1>1. q \in Vals /\ Fulfilled \in Done
  BY PromiseAssumption DEF Ids, Vals, Done
<1> QED BY <1>1, SettleWithAdds DEF CombFinish

StartComb(s, q, y) == [s EXCEPT !.comb[q] = y]
StartTask(s, q, x) == [s EXCEPT !.task[q] = x]

\* The record of a combinator or a task set.
LEMMA StartFacts ==
  ASSUME NEW s, NEW n, s \in RtType(n), NEW q \in Ids
  PROVE  /\ \A y \in CombType : /\ Alike(s, StartComb(s, q, y), n) /\ Ctx(StartComb(s, q, y)) = WithComb(Ctx(s), q, y)
                                /\ StartComb(s, q, y).cur = s.cur /\ StartComb(s, q, y).prev = s.prev
         /\ \A x \in TaskType : /\ Alike(s, StartTask(s, q, x), n) /\ Ctx(StartTask(s, q, x)) = WithTask(Ctx(s), q, x)
                                /\ StartTask(s, q, x).cur = s.cur /\ StartTask(s, q, x).prev = s.prev
<1>1. s.task \in [Ids -> TaskType] /\ s.comb \in [Ids -> CombType]
  BY DEF RtType
<1>2. ASSUME NEW y \in CombType
      PROVE  /\ Alike(s, StartComb(s, q, y), n) /\ Ctx(StartComb(s, q, y)) = WithComb(Ctx(s), q, y)
             /\ StartComb(s, q, y).cur = s.cur /\ StartComb(s, q, y).prev = s.prev
  <2>1. PICK f \in [Ids -> CombType] : f = [s.comb EXCEPT ![q] = y]
    BY <1>1
  <2>2. PICK r : r = [s EXCEPT !.comb = f]
    OBVIOUS
  <2>3. /\ r \in RtType(n) /\ r.prom = s.prom /\ r.mt = s.mt /\ r.comb = f /\ r.task = s.task /\ r.run = s.run
        /\ r.cur = s.cur /\ r.prev = s.prev
    BY <2>2 DEF RtType
  <2>4. StartComb(s, q, y) = r
    BY <2>1, <2>2 DEF StartComb
  <2>5. Ctx(r) = WithComb(Ctx(s), q, y)
    BY <2>1, <2>3 DEF Ctx, WithComb
  <2> QED BY <2>3, <2>4, <2>5 DEF Alike
<1>3. ASSUME NEW x \in TaskType
      PROVE  /\ Alike(s, StartTask(s, q, x), n) /\ Ctx(StartTask(s, q, x)) = WithTask(Ctx(s), q, x)
             /\ StartTask(s, q, x).cur = s.cur /\ StartTask(s, q, x).prev = s.prev
  <2>1. PICK f \in [Ids -> TaskType] : f = [s.task EXCEPT ![q] = x]
    BY <1>1
  <2>2. PICK r : r = [s EXCEPT !.task = f]
    OBVIOUS
  <2>3. /\ r \in RtType(n) /\ r.prom = s.prom /\ r.mt = s.mt /\ r.comb = s.comb /\ r.task = f /\ r.run = s.run
        /\ r.cur = s.cur /\ r.prev = s.prev
    BY <2>2 DEF RtType
  <2>4. StartTask(s, q, x) = r
    BY <2>1, <2>2 DEF StartTask
  <2>5. Ctx(r) = WithTask(Ctx(s), q, x)
    BY <2>1, <2>3 DEF Ctx, WithTask
  <2> QED BY <2>3, <2>4, <2>5 DEF Alike
<1> QED BY <1>2, <1>3

\* A promise more that is a combinator's, and the start of its record.
LEMMA CombOwes ==
  ASSUME NEW s, NEW n, NEW stk, Good(s, n, stk), NEW q, q = n + 1, q \in Ids, NEW y \in CombType,
         NEW r, Owes(r, n, Ctx(s), NoKey, 0), NEW m \in Nat,
         r.prom[q].st = Pending => m >= y.left /\ (y.kind # "race" => y.left >= 1), y.kind # "none"
  PROVE  /\ Owes(r, q, WithComb(Ctx(s), q, y), <<"settle", q>>, m)
         /\ Frames(stk, q, WithComb(Ctx(s), q, y), s.cur, s.prev)
<1>1. PICK c : c = Ctx(s)
  OBVIOUS
<1>2. /\ Owes(r, n, c, NoKey, 0) /\ c \in CtxType(n) /\ n \in Nat /\ Frames(stk, n, c, s.cur, s.prev)
  BY <1>1, GoodFacts
<1>3. q > n /\ q >= n /\ q \in Nat
  BY <1>2
<1>4. c.task[q].st = "none"
  BY <1>2, <1>3 DEF Owes, Fresh
<1>5. PICK x \in TaskType : x = c.task[q] /\ WithTask(c, q, x) = c
  BY <1>2, WithItself
<1>6. PICK c2 : c2 = WithComb(c, q, y)
  OBVIOUS
<1>7. Owes(r, q, WithComb(WithTask(c, q, x), q, y), <<"settle", q>>, m)
  BY <1>2, <1>4, <1>5, CtxGrow
<1>8. c2.task = c.task /\ c2.run = c.run
  BY <1>2, <1>6, WithFacts
<1>9. Frames(stk, q, c2, s.cur, s.prev)
  BY <1>2, <1>3, <1>8, FramesSame
<1> QED BY <1>1, <1>5, <1>6, <1>7, <1>9

JoinTo(s, p, q) == Attach(s, p, [fn |-> "comb", p |-> p, q |-> q])

\* A member joined pays one closure of those that are due.
LEMMA JoinOwes ==
  ASSUME NEW s, NEW n, NEW c, NEW q \in 1..n, NEW p \in 1..n, NEW m \in Nat, NEW o, o = m + 1,
         Owes(s, n, c, <<"settle", q>>, o), c.comb[q].kind # "none"
  PROVE  Owes(JoinTo(s, p, q), n, c, <<"settle", q>>, m) /\ Same(s, JoinTo(s, p, q))
<1>1. Fine(s, n, c, 0) /\ n \in Nat /\ p \in Ids
  BY FineFacts DEF Owes
<1>2. PICK d \in Closures(n) : d = [fn |-> "comb", p |-> p, q |-> q]
  BY <1>1, MakeClosures
<1>3. Key(d) = <<"settle", q>> /\ Src(d, c) = p /\ d.fn = "comb" /\ d.q = q
  BY <1>2 DEF Key, Src
<1>4. Fit(d, c)
  BY <1>3 DEF Fit, Waiters
<1>5. PICK r : r = JoinTo(s, p, q)
  OBVIOUS
<1>6. Adds(s, r, n, c, <<"settle", q>>)
  BY <1>1, <1>2, <1>3, <1>4, <1>5, AttachAdds DEF JoinTo
<1>7. Owes(r, n, c, <<"settle", q>>, m)
  BY <1>6, Repay
<1> QED BY <1>5, <1>6, <1>7 DEF Adds

\* A combinator makes a promise and a closure for each member.
LEMMA CombGood ==
  ASSUME NEW s, NEW n, NEW stk, Good(s, n, stk), NEW q, q = n + 1, q \in Ids,
         NEW kind \in {"all", "allSettled", "any", "race"}, NEW members \in {<<>>} \cup ((1..n) \X (1..n))
  PROVE  Good(Combinator(s, kind, q, members), q, stk)
<1>1. PICK c : c = Ctx(s)
  OBVIOUS
<1>2. /\ Owes(s, n, c, NoKey, 0) /\ Fine(s, n, c, 0) /\ s \in RtType(n) /\ n \in Nat
  BY <1>1, GoodFacts
<1>3. q \in Nat /\ q \in 1..q /\ \A p \in 1..n : p \in 1..q
  BY <1>2
<1>4. s \in RtType(q)
  <2>1. Fine(s, n + 1, c, 0)
    BY <1>2, FineGrow
  <2> QED BY <2>1 DEF Fine
<1>5. CASE members # <<>>
  <2>1. PICK a \in 1..n, b \in 1..n : members = <<a, b>>
    BY <1>5
  <2>2. PICK y \in CombType : y = [kind |-> kind, left |-> 2]
    <3>1. [kind |-> kind, left |-> 2] \in CombType
      BY DEF CombType
    <3> QED BY <3>1
  <2>3. PICK z : z = StartComb(s, q, y)
    OBVIOUS
  <2>4. PICK c2 : c2 = WithComb(c, q, y)
    OBVIOUS
  <2>5. Alike(s, z, q) /\ Ctx(z) = c2 /\ z.cur = s.cur /\ z.prev = s.prev
    BY <1>1, <1>4, <2>3, <2>4, StartFacts
  <2>6. PICK m0 \in Nat, m1 \in Nat, m2 \in Nat : m0 = 0 /\ m1 = 1 /\ m2 = 2 /\ m1 = m0 + 1 /\ m2 = m1 + 1
    OBVIOUS
  <2>7. Owes(s, q, c2, <<"settle", q>>, m2) /\ Frames(stk, q, c2, s.cur, s.prev)
    BY <1>1, <1>2, <2>2, <2>4, <2>6, CombOwes
  <2>8. Owes(z, q, c2, <<"settle", q>>, m2)
    BY <2>5, <2>7, AlikeOwes
  <2>9. c2.comb[q].kind # "none"
    <3>1. c \in CtxType(n)
      BY <1>2 DEF Fine
    <3>2. c2.comb[q] = y
      BY <2>4, <3>1, WithFacts
    <3> QED BY <2>2, <3>2
  <2>10. PICK j1 : j1 = JoinTo(z, a, q)
    OBVIOUS
  <2>11. Owes(j1, q, c2, <<"settle", q>>, m1) /\ Same(z, j1)
    BY <1>3, <2>1, <2>6, <2>8, <2>9, <2>10, JoinOwes
  <2>12. PICK j2 : j2 = JoinTo(j1, b, q)
    OBVIOUS
  <2>13. Owes(j2, q, c2, <<"settle", q>>, m0) /\ Same(j1, j2)
    BY <1>3, <2>1, <2>6, <2>9, <2>11, <2>12, JoinOwes
  <2>14. Owes(j2, q, c2, NoKey, 0)
    BY <2>6, <2>13, NoDebt
  <2>15. Ctx(j2) = c2 /\ j2.cur = s.cur /\ j2.prev = s.prev
    BY <2>5, <2>11, <2>13 DEF Same, Ctx
  <2>16. Combinator(s, kind, q, members) = j2
    <3>1. Len(members) = 2 /\ members[1] = a /\ members[2] = b
      BY <2>1
    <3> QED BY <1>5, <2>2, <2>3, <2>10, <2>12, <3>1 DEF Combinator, JoinTo, StartComb
  <2> QED BY <2>7, <2>14, <2>15, <2>16 DEF Good
<1>6. CASE members = <<>>
  <2>1. PICK y \in CombType : y = [kind |-> kind, left |-> Len(members)] /\ y.left = 0
    <3>1. Len(members) = 0 /\ [kind |-> kind, left |-> 0] \in CombType
      BY <1>6 DEF CombType
    <3> QED BY <3>1
  <2>2. PICK z : z = StartComb(s, q, y)
    OBVIOUS
  <2>3. PICK c2 : c2 = WithComb(c, q, y)
    OBVIOUS
  <2>4. Alike(s, z, q) /\ Alike(s, z, n) /\ Ctx(z) = c2 /\ z.cur = s.cur /\ z.prev = s.prev
    BY <1>1, <1>2, <1>4, <2>2, <2>3, StartFacts
  <2>5. PICK m \in Nat : m = 0
    OBVIOUS
  <2>6. Owes(z, n, c, NoKey, 0)
    BY <1>2, <2>4, AlikeOwes
  <2>7. CASE kind = "race"
    <3>1. Owes(z, q, c2, <<"settle", q>>, m) /\ Frames(stk, q, c2, s.cur, s.prev)
      BY <1>1, <2>1, <2>3, <2>5, <2>6, <2>7, CombOwes
    <3>2. Owes(z, q, c2, NoKey, 0)
      BY <2>5, <3>1, NoDebt
    <3>3. Combinator(s, kind, q, members) = z
      BY <1>6, <2>1, <2>2, <2>7 DEF Combinator, StartComb
    <3> QED BY <2>4, <3>1, <3>2, <3>3 DEF Good
  <2>8. CASE kind # "race"
    <3>1. PICK r : r = CombFinish(z, q)
      OBVIOUS
    <3>2. Adds(z, r, n, c, NoKey) /\ r.prom[q].st # Pending
      BY <2>6, <3>1, FinishAdds DEF Owes
    <3>3. Owes(r, n, c, NoKey, 0)
      BY <2>6, <3>2, OwesAdds
    <3>4. Owes(r, q, c2, <<"settle", q>>, m) /\ Frames(stk, q, c2, s.cur, s.prev)
      BY <1>1, <2>1, <2>3, <3>2, <3>3, CombOwes
    <3>5. Owes(r, q, c2, NoKey, 0)
      BY <2>5, <3>4, NoDebt
    <3>6. Ctx(r) = c2 /\ r.cur = s.cur /\ r.prev = s.prev
      BY <2>4, <3>2 DEF Adds, Same, Ctx
    <3>7. Combinator(s, kind, q, members) = r
      BY <1>6, <2>1, <2>2, <2>8, <3>1 DEF Combinator, StartComb
    <3> QED BY <3>4, <3>5, <3>6, <3>7 DEF Good
  <2> QED BY <2>7, <2>8
<1> QED BY <1>5, <1>6

SetCur(s, cur, prev) == [s EXCEPT !.cur = cur, !.prev = prev]

\* The current task and its spawners are in nobody's way.
LEMMA CurFacts ==
  ASSUME NEW s, NEW n, s \in RtType(n), NEW cur \in Vals, NEW prev \in Seq(Vals)
  PROVE  /\ Alike(s, SetCur(s, cur, prev), n) /\ Ctx(SetCur(s, cur, prev)) = Ctx(s)
         /\ SetCur(s, cur, prev).cur = cur /\ SetCur(s, cur, prev).prev = prev
<1>1. PICK r : r = SetCur(s, cur, prev)
  OBVIOUS
<1>2. /\ r \in RtType(n) /\ r.prom = s.prom /\ r.mt = s.mt /\ r.cur = cur /\ r.prev = prev
      /\ r.task = s.task /\ r.comb = s.comb /\ r.run = s.run
  BY <1>1 DEF RtType, SetCur
<1>3. Ctx(r) = Ctx(s)
  BY <1>2 DEF Ctx
<1> QED BY <1>1, <1>2, <1>3 DEF Alike

\* A call of an async function: the body will settle its promise.
LEMMA SpawnGood ==
  ASSUME NEW s, NEW n, NEW stk, Good(s, n, stk), stk # <<>>, NEW q, q = n + 1, q \in Ids
  PROVE  Good(SpawnTask(s, q), q, Append(stk, [k |-> "task", id |-> q]))
<1>1. PICK c : c = Ctx(s)
  OBVIOUS
<1>2. /\ Owes(s, n, c, NoKey, 0) /\ Fine(s, n, c, 0) /\ s \in RtType(n) /\ c \in CtxType(n) /\ n \in Nat
      /\ Frames(stk, n, c, s.cur, s.prev) /\ c.task = s.task
  BY <1>1, GoodFacts
<1>3. q > n /\ q >= n /\ q \in Nat /\ q \in Vals
  BY <1>2, PromiseAssumption DEF Ids, Vals
<1>4. s \in RtType(q)
  <2>1. Fine(s, n + 1, c, 0)
    BY <1>2, FineGrow
  <2> QED BY <2>1 DEF Fine
<1>5. c.task[q].st = "none" /\ c.comb[q].kind = "none"
  BY <1>2, <1>3 DEF Owes, Fresh
<1>6. PICK x \in TaskType : x = [s.task[q] EXCEPT !.st = "running"] /\ x.st = "running"
  <2>1. s.task[q] \in TaskType
    BY <1>2 DEF RtType
  <2>2. [s.task[q] EXCEPT !.st = "running"] \in TaskType /\ [s.task[q] EXCEPT !.st = "running"].st = "running"
    BY <2>1 DEF TaskType
  <2> QED BY <2>2
<1>7. PICK c2 : c2 = WithTask(c, q, x)
  OBVIOUS
<1>8. /\ c2 \in CtxType(n) /\ c2.comb = c.comb /\ c2.run = c.run /\ c2.task[q] = x
      /\ \A u \in Ids : u # q => c2.task[u] = c.task[u]
  BY <1>2, <1>7, WithFacts
<1>9. PICK y \in CombType : y = c.comb[q] /\ WithComb(c2, q, y) = c2
  <2>1. WithComb(c2, q, c2.comb[q]) = c2 /\ c2.comb[q] \in CombType
    BY <1>8, WithItself
  <2> QED BY <1>8, <2>1
<1>10. PICK m \in Nat : m = 0 /\ m + (IF x.st = "running" THEN 1 ELSE 0) = 1
  BY <1>6
<1>11. Owes(s, q, WithComb(WithTask(c, q, x), q, y), <<"settle", q>>, m)
  BY <1>2, <1>5, <1>6, <1>9, <1>10, CtxGrow
<1>12. Owes(s, q, c2, NoKey, 0)
  <2>1. Owes(s, q, c2, <<"settle", q>>, m)
    BY <1>7, <1>9, <1>11
  <2> QED BY <1>10, <2>1, NoDebt
<1>13. PICK z : z = StartTask(s, q, x)
  OBVIOUS
<1>14. Alike(s, z, q) /\ Ctx(z) = c2 /\ z.cur = s.cur /\ z.prev = s.prev
  BY <1>1, <1>4, <1>7, <1>13, StartFacts
<1>15. s.cur \in Vals /\ s.prev \in Seq(Vals)
  BY <1>2 DEF RtType
<1>16. PICK prev \in Seq(Vals) : prev = Append(s.prev, s.cur)
  BY <1>15, AppendProperties
<1>17. PICK r : r = SetCur(z, q, prev)
  OBVIOUS
<1>18. Alike(z, r, q) /\ Ctx(r) = c2 /\ r.cur = q /\ r.prev = prev
  <2>1. z \in RtType(q)
    BY <1>14 DEF Alike
  <2> QED BY <1>3, <1>14, <1>17, <2>1, CurFacts
<1>19. Owes(r, q, c2, NoKey, 0)
  BY <1>12, <1>14, <1>18, AlikeOwes
<1>20. SpawnTask(s, q) = r
  BY <1>6, <1>13, <1>14, <1>16, <1>17 DEF SpawnTask, SetCur, StartTask
<1>21. PICK f : f = [k |-> "task", id |-> q]
  OBVIOUS
<1>22. \A t \in 1..n : c.task[t].st = "running" => c2.task[t].st = "running"
  <2>1. \A t \in 1..n : t \in Ids /\ t # q
    BY <1>1, <1>3, GoodFacts
  <2> QED BY <1>8, <2>1
<1>23. Frames(Append(stk, f), q, c2, q, Append(s.prev, s.cur))
  <2>1. PICK cur, before : cur \in Vals /\ cur = s.cur /\ before = s.prev
    BY <1>15
  <2>2. Frames(stk, n, c, cur, before) /\ n \in Nat
    BY <1>2, <2>1
  <2>3. c2.run = c.run /\ c2.task[q].st = "running"
    BY <1>6, <1>8
  <2>4. Frames(Append(stk, f), q, c2, q, Append(before, cur))
    BY <1>21, <1>22, <2>1, <2>2, <2>3, FramesPush
  <2> QED BY <2>1, <2>4
<1> QED BY <1>16, <1>18, <1>19, <1>20, <1>21, <1>23 DEF Good

-----------------------------------------------------------------------------
(* How running code ends.                                                  *)

\* A script or a tick: nothing is owed.
LEMMA EndGood ==
  ASSUME NEW s, NEW n, NEW stk, Good(s, n, stk), stk # <<>>, Last(stk).k \notin Waiters \cup {"task"},
         NEW r, Alike(s, r, n), Same(s, r)
  PROVE  Good(r, n, Front(stk))
<1>1. PICK c : c = Ctx(s)
  OBVIOUS
<1>2. n \in Nat /\ Frames(stk, n, c, s.cur, s.prev) /\ Ctx(r) = c /\ r.cur = s.cur /\ r.prev = s.prev
  BY <1>1, GoodFacts DEF Same, Ctx
<1>3. Len(stk) = 1 /\ s.cur = NoTask /\ c.run.fn \notin Waiters
  BY <1>2, FramesTop
<1>4. Frames(Front(stk), n, c, Back(s.prev), Rest(s.prev))
  BY <1>2, <1>3, FramesPop
<1>5. s.prev = <<>>
  <2>1. s.prev \in Seq(Vals) /\ Len(s.prev) = 0
    BY <1>2, <1>3 DEF Frames
  <2> QED BY <2>1, EmptySeq
<1>6. Back(s.prev) = r.cur /\ Rest(s.prev) = r.prev
  BY <1>2, <1>3, <1>5 DEF Back, Rest
<1>7. Owes(r, n, c, NoKey, 0)
  BY <1>1, AlikeOwes DEF Good
<1> QED BY <1>2, <1>4, <1>6, <1>7 DEF Good

\* A callback: what it was to settle has settled or has a closure.
LEMMA CallbackGood ==
  ASSUME NEW s, NEW n, NEW stk, Good(s, n, stk), stk # <<>>, Last(stk).k \in Waiters, NEW r,
         \/ Adds(s, r, n, WithRun(Ctx(s), NoClosure), <<"settle", s.run.q>>)
         \/ Adds(s, r, n, WithRun(Ctx(s), NoClosure), NoKey) /\ r.prom[s.run.q].st # Pending
  PROVE  Good(RtReturned(r), n, Front(stk))
<1>1. PICK c, c2 : c = Ctx(s) /\ c2 = WithRun(c, NoClosure)
  OBVIOUS
<1>2. /\ n \in Nat /\ Frames(stk, n, c, s.cur, s.prev) /\ Owes(s, n, c, NoKey, 0) /\ c \in CtxType(n)
      /\ Fine(s, n, c, 0) /\ RunOk(s, c) /\ c.run = s.run /\ 1..n \subseteq Ids
  BY <1>1, GoodFacts
<1>3. Len(stk) = 1 /\ s.cur = NoTask /\ c.run.fn \in Waiters
  BY <1>2, FramesTop DEF Waiters
<1>4. PICK q \in Ids : q = s.run.q
  BY <1>2, <1>3, RunFacts
<1>5. Owes(s, n, c2, <<"settle", q>>, 1)
  BY <1>1, <1>2, <1>3, <1>4, CtxUnrun
<1>6. Owes(r, n, c2, NoKey, 0)
  <2>1. CASE Adds(s, r, n, c2, <<"settle", q>>)
    <3>1. PICK m \in Nat, o \in Nat : m = 0 /\ o = 1 /\ o = m + 1
      OBVIOUS
    <3>2. Owes(r, n, c2, <<"settle", q>>, m)
      BY <1>5, <2>1, <3>1, Repay
    <3> QED BY <3>1, <3>2, NoDebt
  <2>2. CASE Adds(s, r, n, c2, NoKey) /\ r.prom[q].st # Pending
    <3>1. Owes(r, n, c2, <<"settle", q>>, 1)
      BY <1>5, <2>2, OwesAdds
    <3> QED BY <2>2, <3>1, SettledDebt
  <2> QED BY <1>1, <1>4, <2>1, <2>2
<1>7. Same(s, r) /\ r \in RtType(n)
  BY DEF Adds, Fine
<1>8. PICK f : f = RtReturned(r)
  OBVIOUS
<1>9. Alike(r, f, n) /\ f.cur = r.cur /\ f.prev = r.prev /\ f.task = r.task /\ f.comb = r.comb /\ f.run = NoClosure
  BY <1>7, <1>8 DEF RtReturned, Alike, RtType
<1>10. Ctx(f) = c2
  <2>1. c2 = [task |-> s.task, comb |-> s.comb, run |-> NoClosure]
    BY <1>1 DEF Ctx, WithRun
  <2> QED BY <1>7, <1>9, <2>1 DEF Ctx, Same
<1>11. Owes(f, n, c2, NoKey, 0)
  BY <1>6, <1>9, AlikeOwes
<1>12. c2.task = c.task /\ c2.run = NoClosure /\ NoClosure.fn \notin Waiters
  BY <1>1, <1>2, RunWith DEF NoClosure, Waiters
<1>13. Frames(Front(stk), n, c2, Back(s.prev), Rest(s.prev))
  <2>1. Len(stk) = 1 => c2.run.fn \notin Waiters
    BY <1>12
  <2>2. Len(stk) > 1 => c2.run = c.run
    BY <1>3
  <2>3. \A t \in 1..n : t # s.cur /\ c.task[t].st = "running" => c2.task[t].st = "running"
    BY <1>12
  <2>4. PICK cur, before : cur = s.cur /\ before = s.prev
    OBVIOUS
  <2>5. Frames(stk, n, c, cur, before) /\ n \in Nat
    BY <1>2, <2>4
  <2>6. Frames(Front(stk), n, c2, Back(before), Rest(before))
    BY <2>1, <2>2, <2>3, <2>4, <2>5, FramesPop
  <2> QED BY <2>4, <2>6
<1>14. s.prev = <<>>
  <2>1. s.prev \in Seq(Vals) /\ Len(s.prev) = 0
    BY <1>2, <1>3 DEF Frames
  <2> QED BY <2>1, EmptySeq
<1>15. Back(s.prev) = f.cur /\ Rest(s.prev) = f.prev
  BY <1>3, <1>7, <1>9, <1>14 DEF Back, Rest, Same
<1> QED BY <1>8, <1>10, <1>11, <1>13, <1>15 DEF Good

\* A body: its promise has what settles it, or the body what resumes it.
LEMMA BodyGood ==
  ASSUME NEW s, NEW n, NEW stk, Good(s, n, stk), stk # <<>>, Last(stk).k = "task", NEW x \in TaskType,
         NEW z, Owes(z, n, WithTask(Ctx(s), s.cur, x), NoKey, 0), Ctx(z) = WithTask(Ctx(s), s.cur, x),
         z.cur = s.cur, z.prev = s.prev
  PROVE  Good(SwapOut(z), n, Front(stk))
<1>1. PICK c, c2 : c = Ctx(s) /\ c2 = WithTask(c, s.cur, x)
  OBVIOUS
<1>2. /\ n \in Nat /\ Frames(stk, n, c, s.cur, s.prev) /\ c \in CtxType(n) /\ 1..n \subseteq Ids
  BY <1>1, GoodFacts
<1>3. s.cur \in Ids /\ Last(stk).k \notin Waiters
  BY <1>2, FramesTop DEF Waiters
<1>4. c2.run = c.run /\ \A u \in Ids : u # s.cur => c2.task[u] = c.task[u]
  BY <1>1, <1>2, <1>3, WithFacts
<1>5. Len(stk) = 1 => c2.run.fn \notin Waiters
  BY <1>2, <1>3, <1>4, FramesTop
<1>6. Frames(Front(stk), n, c2, Back(s.prev), Rest(s.prev))
  BY <1>2, <1>4, <1>5, FramesPop
<1>7. z \in RtType(n) /\ s.prev \in Seq(Vals)
  BY <1>2 DEF Owes, Fine, Frames
<1>8. Back(s.prev) \in Vals /\ Rest(s.prev) \in Seq(Vals)
  <2>1. NoTask \in Vals
    BY PromiseAssumption DEF NoTask, Vals
  <2>2. s.prev # <<>> => Last(s.prev) \in Vals /\ Front(s.prev) \in Seq(Vals)
    BY <1>7, FrontFacts
  <2> QED BY <1>7, <2>1, <2>2 DEF Back, Rest
<1>9. PICK r : r = SetCur(z, Back(s.prev), Rest(s.prev))
  OBVIOUS
<1>10. Alike(z, r, n) /\ Ctx(r) = c2 /\ r.cur = Back(s.prev) /\ r.prev = Rest(s.prev)
  BY <1>1, <1>7, <1>8, <1>9, CurFacts
<1>11. SwapOut(z) = r
  <2>1. CASE z.prev = <<>>
    <3>1. r = [z EXCEPT !.cur = NoTask, !.prev = z.prev]
      BY <1>9, <2>1 DEF Back, Rest, SetCur
    <3>2. [z EXCEPT !.cur = NoTask, !.prev = z.prev] = [z EXCEPT !.cur = NoTask]
      BY <1>7 DEF RtType
    <3> QED BY <2>1, <3>1, <3>2 DEF SwapOut
  <2>2. CASE z.prev # <<>>
    BY <1>9, <2>2 DEF Back, Rest, SetCur, SwapOut
  <2> QED BY <2>1, <2>2
<1>12. Owes(r, n, c2, NoKey, 0)
  BY <1>1, <1>10, AlikeOwes
<1> QED BY <1>6, <1>10, <1>11, <1>12 DEF Good

\* The words of a promise.
LEMMA PromWords ==
  ASSUME NEW s, NEW n, s \in RtType(n), NEW p \in Ids
  PROVE  s.prom[p].val \in Vals /\ s.prom[p].st \in {Pending} \cup Done /\ s.prom[p].handled \in BOOLEAN
BY DEF RtType, PromType

\* Closures that settle a promise with no code of the program.
LEMMA PlainFit ==
  ASSUME NEW n \in Nat, NEW c, NEW d \in Closures(n), c.comb[d.q].kind = "none",
         d.fn \in {"adopt_job", "adopt_settle", "defer_step", "finally_step"}
  PROVE  Fit(d, c) /\ Key(d) = <<"settle", d.q>>
<1>1. Key(d) = <<"settle", d.q>>
  BY KeyFacts
<1> QED BY <1>1 DEF Fit, Waiters

\* A settlement put off makes its closure.
LEMMA DeferAdds ==
  ASSUME NEW s, NEW n, NEW c, Fine(s, n, c, 0), NEW q \in 1..n, c.comb[q].kind = "none",
         NEW v \in Vals, NEW st \in Done, NEW hops \in {1, 2}
  PROVE  Adds(s, DeferSettle(StoreValue(s, q, v), q, st, hops), n, c, <<"settle", q>>)
<1>1. n \in Nat /\ q \in Ids /\ s \in RtType(n)
  BY FineFacts
<1>2. PICK a : a = StoreValue(s, q, v)
  OBVIOUS
<1>3. Quiet(s, a, n)
  BY <1>1, <1>2, QuietFacts
<1>4. Fine(a, n, c, 0)
  BY <1>3, QuietFine
<1>5. PICK d \in Closures(n) : d = [fn |-> "defer_step", q |-> q, st |-> st, hops |-> hops]
  BY <1>1, MakeClosures
<1>6. d.q = q /\ d.fn = "defer_step"
  BY <1>5
<1>7. Fit(d, c) /\ Key(d) = <<"settle", q>> /\ Src(d, c) = 0
  BY <1>1, <1>6, PlainFit DEF Src
<1>8. Adds(a, Enqueue(a, d), n, c, <<"settle", q>>)
  BY <1>4, <1>7, EnqueueAdds
<1>9. Adds(s, Enqueue(a, d), n, c, <<"settle", q>>)
  BY <1>3, <1>8, QuietAdds
<1> QED BY <1>2, <1>5, <1>9 DEF DeferSettle

\* The closure whose callback ends, and the context without it.
LEMMA CallbackFacts ==
  ASSUME NEW s, NEW n, NEW stk, Good(s, n, stk), stk # <<>>, Last(stk).k \in Waiters
  PROVE  /\ Fine(s, n, WithRun(Ctx(s), NoClosure), 0) /\ s.run.q \in 1..n /\ s.run.p \in 1..n
         /\ s.run.q \in Ids /\ s.run.p \in Ids
         /\ WithRun(Ctx(s), NoClosure).comb[s.run.q].kind = "none"
         /\ s.prom[s.run.p].st \in Done /\ s.prom[s.run.p].val \in Vals
<1>1. PICK c : c = Ctx(s)
  OBVIOUS
<1>2. /\ Frames(stk, n, c, s.cur, s.prev) /\ Owes(s, n, c, NoKey, 0) /\ c \in CtxType(n) /\ s \in RtType(n)
      /\ Fine(s, n, c, 0) /\ RunOk(s, c) /\ c.run = s.run /\ 1..n \subseteq Ids
  BY <1>1, GoodFacts
<1>3. c.run.fn \in Waiters
  BY <1>2, FramesTop
<1>4. c.run.q \in 1..n /\ c.run.p \in 1..n /\ c.comb[c.run.q].kind = "none"
  BY <1>2, <1>3, RunFacts
<1>5. Owes(s, n, WithRun(c, NoClosure), <<"settle", c.run.q>>, 1)
  BY <1>2, <1>3, CtxUnrun
<1>6. WithRun(c, NoClosure).comb = c.comb
  BY <1>2, RunWith
<1>7. s.prom[c.run.p].st # Pending
  BY <1>2, <1>3 DEF RunOk
<1>8. s.prom[c.run.p].st \in Done /\ s.prom[c.run.p].val \in Vals
  BY <1>2, <1>4, <1>7, PromWords
<1> QED BY <1>1, <1>2, <1>4, <1>5, <1>6, <1>8 DEF Owes

\* A callback returns a plain value, or throws.
LEMMA ReturnsGood ==
  ASSUME NEW s, NEW n, NEW stk, Good(s, n, stk), stk # <<>>, Last(stk).k \in Waiters, NEW v \in Vals
  PROVE  /\ Good(RtReturned(CallbackReturns(s, v)), n, Front(stk))
         /\ Good(RtReturned(CallbackThrows(s, v)), n, Front(stk))
<1>1. PICK c : c = WithRun(Ctx(s), NoClosure)
  OBVIOUS
<1>2. /\ Fine(s, n, c, 0) /\ s.run.q \in 1..n /\ s.run.q \in Ids /\ c.comb[s.run.q].kind = "none"
      /\ s.prom[s.run.p].st \in Done /\ s.prom[s.run.p].val \in Vals
  BY <1>1, CallbackFacts
<1>3. Good(RtReturned(CallbackReturns(s, v)), n, Front(stk))
  <2>1. PICK r : r = CallbackReturns(s, v)
    OBVIOUS
  <2>2. CASE s.run.fn = "finally"
    <3>1. 2 \in {1, 2}
      OBVIOUS
    <3>2. Adds(s, DeferSettle(StoreValue(s, s.run.q, s.prom[s.run.p].val), s.run.q, s.prom[s.run.p].st, 2),
               n, c, <<"settle", s.run.q>>)
      BY <1>2, <3>1, DeferAdds
    <3>3. Adds(s, r, n, c, <<"settle", s.run.q>>)
      BY <2>1, <2>2, <3>2 DEF CallbackReturns
    <3> QED BY <1>1, <2>1, <3>3, CallbackGood
  <2>3. CASE s.run.fn # "finally"
    <3>1. PICK q \in Ids, st \in Done : q = s.run.q /\ st = Fulfilled
      BY <1>2 DEF Done
    <3>2. PICK z : z = Store(s, q, st, v)
      OBVIOUS
    <3>3. Adds(s, DrainReactions(z, q), n, c, NoKey) /\ DrainReactions(z, q).prom[q].st # Pending
      BY <1>2, <3>2, StoreAdds
    <3>4. r = DrainReactions(z, q)
      BY <2>1, <2>3, <3>1, <3>2 DEF CallbackReturns
    <3> QED BY <1>1, <2>1, <3>1, <3>3, <3>4, CallbackGood
  <2> QED BY <2>2, <2>3
<1>4. Good(RtReturned(CallbackThrows(s, v)), n, Front(stk))
  <2>1. PICK r : r = RejectWith(s, s.run.q, v)
    OBVIOUS
  <2>2. Adds(s, r, n, c, NoKey) /\ r.prom[s.run.q].st # Pending
    BY <1>2, <2>1, SettleWithAdds
  <2>3. CallbackThrows(s, v) = r
    BY <2>1 DEF CallbackThrows
  <2> QED BY <1>1, <2>2, <2>3, CallbackGood
<1> QED BY <1>3, <1>4

\* A callback returns a promise, which its own follows.
LEMMA ReturnsPromiseGood ==
  ASSUME NEW s, NEW n, NEW stk, Good(s, n, stk), stk # <<>>, Last(stk).k \in Waiters, NEW h \in 1..n
  PROVE  Good(RtReturned(CallbackReturnsPromise(s, h)), n, Front(stk))
<1>1. PICK c : c = WithRun(Ctx(s), NoClosure)
  OBVIOUS
<1>2. /\ Fine(s, n, c, 0) /\ s.run.q \in 1..n /\ s.run.q \in Ids /\ c.comb[s.run.q].kind = "none"
      /\ s.prom[s.run.p].st \in Done /\ s.prom[s.run.p].val \in Vals
  BY <1>1, CallbackFacts
<1>3. n \in Nat /\ h \in Ids
  BY <1>2, FineFacts
<1>4. PICK q \in 1..n : q = s.run.q /\ c.comb[q].kind = "none"
  BY <1>2
<1>5. PICK r : r = CallbackReturnsPromise(s, h)
  OBVIOUS
<1>6. CASE s.run.fn = "finally"
  <2>1. PICK st \in Done, v \in Vals : st = s.prom[s.run.p].st /\ v = s.prom[s.run.p].val
    BY <1>2
  <2>2. PICK d \in Closures(n) : d = [fn |-> "finally_step", q |-> q, r |-> h, st |-> st, val |-> v]
    BY <1>3, MakeClosures
  <2>3. d.q = q /\ d.fn = "finally_step" /\ d.r = h
    BY <2>2
  <2>4. Fit(d, c) /\ Key(d) = <<"settle", q>> /\ Src(d, c) = h
    BY <1>3, <1>4, <2>3, PlainFit DEF Src
  <2>5. Adds(s, Attach(s, h, d), n, c, <<"settle", q>>)
    BY <1>2, <1>3, <2>4, AttachAdds
  <2>6. r = Attach(s, h, d)
    BY <1>4, <1>5, <1>6, <2>1, <2>2 DEF CallbackReturnsPromise
  <2> QED BY <1>1, <1>4, <1>5, <2>5, <2>6, CallbackGood
<1>7. CASE s.run.fn # "finally"
  <2>1. PICK d \in Closures(n) : d = [fn |-> "adopt_job", q |-> q, h |-> h]
    BY <1>3, MakeClosures
  <2>2. d.q = q /\ d.fn = "adopt_job"
    BY <2>1
  <2>3. Fit(d, c) /\ Key(d) = <<"settle", q>> /\ Src(d, c) = 0
    BY <1>3, <1>4, <2>2, PlainFit DEF Src
  <2>4. Adds(s, Enqueue(s, d), n, c, <<"settle", q>>)
    BY <1>2, <2>3, EnqueueAdds
  <2>5. r = Enqueue(s, d)
    BY <1>4, <1>5, <1>7, <2>1 DEF CallbackReturnsPromise, Adopt
  <2> QED BY <1>1, <1>4, <1>5, <2>4, <2>5, CallbackGood
<1> QED BY <1>5, <1>6, <1>7

\* The task whose body is on top of the stack.
LEMMA BodyFacts ==
  ASSUME NEW s, NEW n, NEW stk, Good(s, n, stk), stk # <<>>, Last(stk).k = "task"
  PROVE  /\ s.cur \in 1..n /\ s.cur \in Ids /\ s.cur = Last(stk).id
         /\ Ctx(s).task[s.cur].st = "running" /\ Ctx(s).comb[s.cur].kind = "none"
         /\ \E x \in TaskType : /\ x = [s.task[s.cur] EXCEPT !.st = "done"]
                                /\ Owes(s, n, WithTask(Ctx(s), s.cur, x), <<"settle", s.cur>>, 1)
<1>1. PICK c : c = Ctx(s)
  OBVIOUS
<1>2. /\ Frames(stk, n, c, s.cur, s.prev) /\ Owes(s, n, c, NoKey, 0) /\ c.task = s.task /\ s \in RtType(n)
      /\ 1..n \subseteq Ids
  BY <1>1, GoodFacts
<1>3. s.cur \in 1..n /\ s.cur \in Ids /\ s.cur = Last(stk).id /\ c.task[s.cur].st = "running"
  BY <1>2, FramesTop
<1>4. c.comb[s.cur].kind = "none"
  BY <1>2, <1>3 DEF Owes, Fresh
<1>5. PICK x \in TaskType : x = [s.task[s.cur] EXCEPT !.st = "done"] /\ x.st = "done" /\ x.on = s.task[s.cur].on
  <2>1. s.task[s.cur] \in TaskType
    BY <1>2, <1>3 DEF RtType
  <2>2. [s.task[s.cur] EXCEPT !.st = "done"] \in TaskType
    BY <2>1 DEF TaskType
  <2> QED BY <2>1, <2>2 DEF TaskType
<1>6. Owes(s, n, WithTask(c, s.cur, x), <<"settle", s.cur>>, 1)
  BY <1>2, <1>3, <1>5, CtxDone
<1> QED BY <1>1, <1>3, <1>4, <1>5, <1>6

\* The body's record is set and the switch made.
LEMMA BodyWith ==
  ASSUME NEW s, NEW n, NEW stk, Good(s, n, stk), stk # <<>>, Last(stk).k = "task", NEW x \in TaskType,
         NEW r, Owes(r, n, WithTask(Ctx(s), s.cur, x), NoKey, 0), Same(s, r)
  PROVE  Good(SwapOut(StartTask(r, s.cur, x)), n, Front(stk))
<1>1. PICK c2 : c2 = WithTask(Ctx(s), s.cur, x)
  OBVIOUS
<1>2. r \in RtType(n) /\ s.cur \in Ids
  BY BodyFacts DEF Owes, Fine
<1>3. PICK z : z = StartTask(r, s.cur, x)
  OBVIOUS
<1>4. Alike(r, z, n) /\ Ctx(z) = WithTask(Ctx(r), s.cur, x) /\ z.cur = r.cur /\ z.prev = r.prev
  BY <1>2, <1>3, StartFacts
<1>5. Ctx(r) = Ctx(s) /\ r.cur = s.cur /\ r.prev = s.prev
  BY DEF Same, Ctx
<1>6. Owes(z, n, c2, NoKey, 0)
  BY <1>1, <1>4, AlikeOwes
<1> QED BY <1>1, <1>3, <1>4, <1>5, <1>6, BodyGood

\* A body returns a plain value, or throws.
LEMMA TaskEndGood ==
  ASSUME NEW s, NEW n, NEW stk, Good(s, n, stk), stk # <<>>, Last(stk).k = "task", NEW v \in Vals
  PROVE  Good(TaskFinish(s, v), n, Front(stk)) /\ Good(TaskReject(s, v), n, Front(stk))
<1>1. PICK t \in 1..n : t = s.cur /\ t \in Ids
  BY BodyFacts
<1>2. PICK x \in TaskType : /\ x = [s.task[t] EXCEPT !.st = "done"]
                            /\ Owes(s, n, WithTask(Ctx(s), t, x), <<"settle", t>>, 1)
  BY <1>1, BodyFacts
<1>3. PICK a, c : a = StartTask(s, t, x) /\ c = WithTask(Ctx(s), t, x)
  OBVIOUS
<1>4. s \in RtType(n)
  BY GoodFacts
<1>5. Alike(s, a, n) /\ Ctx(a) = c /\ a.cur = s.cur /\ a.prev = s.prev
  BY <1>1, <1>3, <1>4, StartFacts
<1>6. Owes(a, n, c, <<"settle", t>>, 1) /\ Fine(a, n, c, 0)
  <2>1. Owes(a, n, c, <<"settle", t>>, 1)
    BY <1>2, <1>3, <1>5, AlikeOwes
  <2> QED BY <2>1 DEF Owes
<1>7. [s EXCEPT !.task[t].st = "done"] = a
  BY <1>2, <1>3 DEF StartTask
<1>8. ASSUME NEW st \in Done, NEW z \in {Store(a, t, st, v), NoteRejected(Store(a, t, st, v), t)}
      PROVE  Good(SwapOut(DrainReactions(z, t)), n, Front(stk))
  <2>1. PICK r : r = DrainReactions(z, t)
    OBVIOUS
  <2>2. Adds(a, r, n, c, NoKey) /\ r.prom[t].st # Pending
    <3>1. PICK b : b = Store(a, t, st, v)
      OBVIOUS
    <3>2. \A y \in {b, NoteRejected(b, t)} :
             Adds(a, DrainReactions(y, t), n, c, NoKey) /\ DrainReactions(y, t).prom[t].st # Pending
      BY <1>1, <1>6, <3>1, StoreAdds
    <3> QED BY <2>1, <3>1, <3>2
  <2>3. Owes(r, n, c, <<"settle", t>>, 1)
    BY <1>6, <2>2, OwesAdds
  <2>4. Owes(r, n, c, NoKey, 0)
    BY <1>1, <2>2, <2>3, SettledDebt
  <2>5. Ctx(r) = c /\ r.cur = s.cur /\ r.prev = s.prev
    BY <1>5, <2>2 DEF Adds, Same, Ctx
  <2>6. Good(SwapOut(r), n, Front(stk))
    BY <1>1, <1>3, <2>4, <2>5, BodyGood
  <2> QED BY <2>1, <2>6
<1>9. Fulfilled \in Done /\ Rejected \in Done
  BY DEF Done
<1>10. TaskFinish(s, v) = SwapOut(DrainReactions(Store(a, t, Fulfilled, v), t))
  BY <1>1, <1>7 DEF TaskFinish
<1>11. TaskReject(s, v) = SwapOut(DrainReactions(NoteRejected(Store(a, t, Rejected, v), t), t))
  BY <1>1, <1>7 DEF TaskReject
<1> QED BY <1>8, <1>9, <1>10, <1>11

\* A body returns a promise, which the task's own follows.
LEMMA TaskAdoptedGood ==
  ASSUME NEW s, NEW n, NEW stk, Good(s, n, stk), stk # <<>>, Last(stk).k = "task", NEW h \in 1..n
  PROVE  Good(TaskAdopted(s, h), n, Front(stk))
<1>1. PICK t \in 1..n : t = s.cur /\ t \in Ids
  BY BodyFacts
<1>2. PICK x \in TaskType : /\ x = [s.task[t] EXCEPT !.st = "done"]
                            /\ Owes(s, n, WithTask(Ctx(s), t, x), <<"settle", t>>, 1)
  BY <1>1, BodyFacts
<1>3. PICK c : c = WithTask(Ctx(s), t, x)
  OBVIOUS
<1>4. n \in Nat /\ Ctx(s) \in CtxType(n) /\ Ctx(s).comb[t].kind = "none"
  BY <1>1, BodyFacts, GoodFacts
<1>5. c.comb[t].kind = "none"
  BY <1>1, <1>3, <1>4, WithFacts
<1>6. PICK d \in Closures(n) : d = [fn |-> "adopt_job", q |-> t, h |-> h]
  BY <1>4, MakeClosures
<1>7. d.q = t /\ d.fn = "adopt_job"
  BY <1>6
<1>8. Fit(d, c) /\ Key(d) = <<"settle", t>> /\ Src(d, c) = 0
  BY <1>4, <1>5, <1>7, PlainFit DEF Src
<1>9. PICK r : r = Enqueue(s, d)
  OBVIOUS
<1>10. Adds(s, r, n, c, <<"settle", t>>)
  <2>1. Fine(s, n, c, 0)
    BY <1>2, <1>3 DEF Owes
  <2> QED BY <1>8, <1>9, <2>1, EnqueueAdds
<1>11. Owes(r, n, c, NoKey, 0)
  <2>1. PICK m \in Nat, o \in Nat : m = 0 /\ o = 1 /\ o = m + 1
    OBVIOUS
  <2>2. Owes(r, n, c, <<"settle", t>>, m)
    BY <1>2, <1>3, <1>10, <2>1, Repay
  <2> QED BY <2>1, <2>2, NoDebt
<1>12. Same(s, r)
  BY <1>10 DEF Adds
<1>13. Good(SwapOut(StartTask(r, t, x)), n, Front(stk))
  BY <1>1, <1>3, <1>11, <1>12, BodyWith
<1>14. StartTask(r, t, x) = [r EXCEPT !.task[t].st = "done"]
  BY <1>2, <1>12 DEF StartTask, Same
<1> QED BY <1>1, <1>6, <1>9, <1>13, <1>14 DEF TaskAdopted, Adopt

\* A body awaits a promise or a plain value.
LEMMA AwaitGood ==
  ASSUME NEW s, NEW n, NEW stk, Good(s, n, stk), stk # <<>>, Last(stk).k = "task"
  PROVE  Good(AwaitPlain(s), n, Front(stk)) /\ \A p \in 1..n : Good(AwaitReady(s, p), n, Front(stk))
<1>1. PICK t \in 1..n : t = s.cur /\ t \in Ids /\ Ctx(s).task[t].st = "running"
  BY BodyFacts
<1>2. /\ n \in Nat /\ Ctx(s) \in CtxType(n) /\ 1..n \subseteq Ids /\ 1..n \subseteq Vals /\ 0 \in Vals
      /\ Owes(s, n, Ctx(s), NoKey, 0)
  BY GoodFacts, PromiseAssumption DEF Vals
<1>3. PICK d \in Closures(n) : d = [fn |-> "resume", t |-> t]
  BY <1>2, MakeClosures
<1>4. d.fn = "resume" /\ d.t = t /\ Key(d) = <<"resume", t>>
  BY <1>2, <1>3, KeyFacts
<1>5. ASSUME NEW on \in Vals, NEW r, NEW x \in TaskType, x = [st |-> "parked", on |-> on],
             \/ on = 0 /\ r = Enqueue(s, d)
             \/ on \in Ids /\ r = Attach(s, on, d)
      PROVE  Good(SwapOut(StartTask(r, t, x)), n, Front(stk))
  <2>1. PICK c : c = WithTask(Ctx(s), t, x)
    OBVIOUS
  <2>2. x.st = "parked" /\ x.on = on
    BY <1>5
  <2>3. Owes(s, n, c, <<"resume", t>>, 1)
    BY <1>1, <1>2, <2>1, <2>2, CtxParked
  <2>4. c.task[t] = x
    BY <1>1, <1>2, <2>1, WithFacts
  <2>5. Fit(d, c) /\ Src(d, c) = on
    BY <1>4, <2>2, <2>4 DEF Fit, Src
  <2>6. Fine(s, n, c, 0)
    BY <2>3 DEF Owes
  <2>7. Adds(s, r, n, c, <<"resume", t>>)
    <3>1. CASE on = 0 /\ r = Enqueue(s, d)
      BY <1>4, <2>5, <2>6, <3>1, EnqueueAdds
    <3>2. CASE on \in Ids /\ r = Attach(s, on, d)
      BY <1>4, <2>5, <2>6, <3>2, AttachAdds
    <3> QED BY <1>5, <3>1, <3>2
  <2>8. Owes(r, n, c, NoKey, 0)
    <3>1. PICK m \in Nat, o \in Nat : m = 0 /\ o = 1 /\ o = m + 1
      OBVIOUS
    <3>2. Owes(r, n, c, <<"resume", t>>, m)
      BY <2>3, <2>7, <3>1, Repay
    <3> QED BY <3>1, <3>2, NoDebt
  <2>9. Same(s, r)
    BY <2>7 DEF Adds
  <2> QED BY <1>1, <2>1, <2>8, <2>9, BodyWith
<1>6. ASSUME NEW on \in Vals PROVE \E x \in TaskType : x = [st |-> "parked", on |-> on]
  BY DEF TaskType
<1>7. Good(AwaitPlain(s), n, Front(stk))
  <2>1. PICK x \in TaskType, on \in Vals : x = [st |-> "parked", on |-> on] /\ on = 0
    BY <1>2, <1>6
  <2>2. PICK r : r = Enqueue(s, d)
    OBVIOUS
  <2>3. Good(SwapOut(StartTask(r, t, x)), n, Front(stk))
    BY <1>5, <2>1, <2>2
  <2> QED BY <1>1, <1>3, <2>1, <2>2, <2>3 DEF AwaitPlain, StartTask
<1>8. ASSUME NEW p \in 1..n PROVE Good(AwaitReady(s, p), n, Front(stk))
  <2>1. p \in Ids /\ p \in Vals
    BY <1>2
  <2>2. PICK x \in TaskType : x = [st |-> "parked", on |-> p]
    BY <1>6, <2>1
  <2>3. PICK r : r = Attach(s, p, d)
    OBVIOUS
  <2>4. Good(SwapOut(StartTask(r, t, x)), n, Front(stk))
    BY <1>5, <2>1, <2>2, <2>3
  <2> QED BY <1>1, <1>3, <2>2, <2>3, <2>4 DEF AwaitReady, StartTask
<1> QED BY <1>7, <1>8

-----------------------------------------------------------------------------
(* The job queue.                                                          *)

Taken(s) == [s EXCEPT !.mt = Tail(@)]

\* The head of the queue taken: what it was for is owed.
LEMMA HeadFacts ==
  ASSUME NEW s, NEW n, NEW stk, Good(s, n, stk), s.mt # <<>>, NEW r, r = Taken(s), NEW d, d = Head(s.mt)
  PROVE  /\ Owes(r, n, Ctx(s), Key(d), 1) /\ Fine(r, n, Ctx(s), 0) /\ Same(s, r) /\ Ctx(r) = Ctx(s)
         /\ r \in RtType(n) /\ r.prom = s.prom /\ n \in Nat /\ 1..n \subseteq Ids
         /\ d \in Closures(n) /\ Fit(d, Ctx(s))
         /\ Src(d, Ctx(s)) # 0 => s.prom[Src(d, Ctx(s))].st # Pending
<1>1. PICK c : c = Ctx(s)
  OBVIOUS
<1>2. Owes(s, n, c, NoKey, 0) /\ Fine(s, n, c, 0) /\ n \in Nat /\ 1..n \subseteq Ids
  BY <1>1, GoodFacts
<1>3. r = [s EXCEPT !.mt = Tail(@)]
  BY DEF Taken
<1>4. /\ Fine(r, n, c, 0) /\ Same(s, r) /\ r.prom = s.prom /\ d \in Closures(n) /\ Fit(d, c)
      /\ Src(d, c) # 0 => s.prom[Src(d, c)].st # Pending
  BY <1>2, <1>3, PopFine
<1>5. Owes(r, n, c, Key(d), 1)
  BY <1>2, <1>3, PopOwes
<1>6. Ctx(r) = Ctx(s)
  BY <1>4 DEF Same, Ctx
<1> QED BY <1>1, <1>2, <1>4, <1>5, <1>6 DEF Fine

\* All is paid and nothing else has changed.
LEMMA PaidGood ==
  ASSUME NEW s, NEW n, NEW stk, Good(s, n, stk), NEW r, Same(s, r), Owes(r, n, Ctx(s), NoKey, 0)
  PROVE  Good(r, n, stk)
<1>1. Ctx(r) = Ctx(s) /\ r.cur = s.cur /\ r.prev = s.prev
  BY DEF Same, Ctx
<1> QED BY <1>1 DEF Good

\* A closure that settles promise q has run: q has settled, or has another one.
LEMMA SilentGood ==
  ASSUME NEW s, NEW n, NEW stk, Good(s, n, stk), s.mt # <<>>, NEW r, r = Taken(s),
         NEW q \in Ids, Key(Head(s.mt)) = <<"settle", q>>, NEW z,
         Adds(r, z, n, Ctx(s), <<"settle", q>>) \/ (Adds(r, z, n, Ctx(s), NoKey) /\ z.prom[q].st # Pending)
  PROVE  Good(z, n, stk)
<1>1. PICK c : c = Ctx(s)
  OBVIOUS
<1>2. Owes(r, n, c, <<"settle", q>>, 1) /\ Same(s, r)
  BY <1>1, HeadFacts
<1>3. Same(r, z)
  BY DEF Adds
<1>4. Same(s, z)
  BY <1>2, <1>3 DEF Same
<1>5. Owes(z, n, c, NoKey, 0)
  <2>1. CASE Adds(r, z, n, c, <<"settle", q>>)
    <3>1. PICK m \in Nat, o \in Nat : m = 0 /\ o = 1 /\ o = m + 1
      OBVIOUS
    <3>2. Owes(z, n, c, <<"settle", q>>, m)
      BY <1>2, <2>1, <3>1, Repay
    <3> QED BY <3>1, <3>2, NoDebt
  <2>2. CASE Adds(r, z, n, c, NoKey) /\ z.prom[q].st # Pending
    <3>1. Owes(z, n, c, <<"settle", q>>, 1)
      BY <1>2, <2>2, OwesAdds
    <3> QED BY <2>2, <3>1, SettledDebt
  <2> QED BY <1>1, <2>1, <2>2
<1> QED BY <1>1, <1>4, <1>5, PaidGood

\* A reaction without a callback for the outcome, and an adoption's: q settles
\* the way its source did.
LEMMA FollowGood ==
  ASSUME NEW s, NEW n, NEW stk, Good(s, n, stk), s.mt # <<>>, NEW r, r = Taken(s), NEW d, d = Head(s.mt)
  PROVE  /\ d.fn = "then" => Good(PassThrough(r, d), n, stk)
         /\ d.fn = "adopt_settle" => Good(AdoptSettle(r, d), n, stk)
<1>1. PICK c : c = Ctx(s)
  OBVIOUS
<1>2. /\ Fine(r, n, c, 0) /\ r \in RtType(n) /\ r.prom = s.prom /\ n \in Nat /\ 1..n \subseteq Ids
      /\ d \in Closures(n)
      /\ Src(d, c) # 0 => s.prom[Src(d, c)].st # Pending
  BY <1>1, HeadFacts
<1>3. ASSUME d.fn \in {"then", "adopt_settle"}
      PROVE  d.q \in Ids /\ Key(d) = <<"settle", d.q>>
  BY <1>2, <1>3, KeyFacts
<1>4. ASSUME NEW p \in Ids, Src(d, c) = p PROVE r.prom[p].st \in Done /\ r.prom[p].val \in Vals
  <2>1. p # 0
    BY DEF Ids
  <2> QED BY <1>2, <1>4, <2>1, PromWords
<1>5. ASSUME d.fn = "then" PROVE Good(PassThrough(r, d), n, stk)
  <2>1. PICK q \in Ids : q = d.q /\ Key(d) = <<"settle", q>>
    BY <1>3, <1>5
  <2>2. d.p \in Ids /\ Src(d, c) = d.p
    BY <1>2, <1>5, ClosureFacts DEF Src
  <2>3. PICK st \in Done, v \in Vals : st = r.prom[d.p].st /\ v = r.prom[d.p].val
    BY <1>4, <2>2
  <2>4. PICK b : b = Store(r, q, st, v)
    OBVIOUS
  <2>5. PICK z : z = DrainReactions(b, q)
    OBVIOUS
  <2>6. Adds(r, z, n, c, NoKey) /\ z.prom[q].st # Pending
    BY <1>2, <2>4, <2>5, StoreAdds
  <2>7. Good(z, n, stk)
    BY <1>1, <2>1, <2>6, SilentGood
  <2> QED BY <2>1, <2>3, <2>4, <2>5, <2>7 DEF PassThrough
<1>6. ASSUME d.fn = "adopt_settle" PROVE Good(AdoptSettle(r, d), n, stk)
  <2>1. PICK q \in Ids : q = d.q /\ Key(d) = <<"settle", q>>
    BY <1>3, <1>6
  <2>2. d.h \in Ids /\ Src(d, c) = d.h
    BY <1>2, <1>6, ClosureFacts DEF Src
  <2>3. PICK st \in Done, v \in Vals : st = r.prom[d.h].st /\ v = r.prom[d.h].val
    BY <1>4, <2>2
  <2>4. PICK z : z = Settle(StoreValue(r, q, v), q, st)
    OBVIOUS
  <2>5. Adds(r, z, n, c, NoKey) /\ z.prom[q].st # Pending
    BY <1>2, <2>4, SettleWithAdds
  <2>6. Good(z, n, stk)
    BY <1>1, <2>1, <2>5, SilentGood
  <2> QED BY <2>1, <2>3, <2>4, <2>6 DEF AdoptSettle
<1> QED BY <1>5, <1>6

\* Closures that hand on to another one: a settlement put off, the end of a
\* finally and the start of an adoption.
LEMMA HandOnGood ==
  ASSUME NEW s, NEW n, NEW stk, Good(s, n, stk), s.mt # <<>>, NEW r, r = Taken(s), NEW d, d = Head(s.mt)
  PROVE  /\ d.fn = "defer_step" => Good(DeferStep(r, d), n, stk)
         /\ d.fn = "finally_step" => Good(FinallyStep(r, d), n, stk)
         /\ d.fn = "adopt_job" => Good(AdoptJob(r, d), n, stk)
<1>1. PICK c : c = Ctx(s)
  OBVIOUS
<1>2. /\ Fine(r, n, c, 0) /\ r \in RtType(n) /\ r.prom = s.prom /\ n \in Nat /\ 1..n \subseteq Ids
      /\ d \in Closures(n) /\ Fit(d, c)
  BY <1>1, HeadFacts
<1>3. ASSUME d.fn \in {"defer_step", "finally_step", "adopt_job"}
      PROVE  d.q \in 1..n /\ d.q \in Ids /\ Key(d) = <<"settle", d.q>> /\ c.comb[d.q].kind = "none"
  <2>1. d.q \in 1..n /\ Key(d) = <<"settle", d.q>>
    BY <1>2, <1>3, KeyFacts
  <2>2. d.fn # "comb"
    BY <1>3
  <2> QED BY <1>2, <2>1, <2>2 DEF Fit
<1>4. ASSUME d.fn = "defer_step" PROVE Good(DeferStep(r, d), n, stk)
  <2>1. PICK q \in 1..n : q = d.q /\ q \in Ids /\ Key(d) = <<"settle", q>> /\ c.comb[q].kind = "none"
    BY <1>3, <1>4
  <2>2. d.st \in Done /\ d.hops \in {1, 2}
    BY <1>2, <1>4, ClosureFacts
  <2>3. CASE d.hops = 2
    <3>1. PICK d2 : d2 = [d EXCEPT !.hops = @ - 1]
      OBVIOUS
    <3>2. d = [fn |-> "defer_step", q |-> q, st |-> d.st, hops |-> d.hops]
      BY <1>2, <1>4, <2>1 DEF Closures
    <3>3. PICK st, m : st = d.st /\ m = 1 /\ st \in Done /\ m \in {1, 2}
      BY <2>2
    <3>4. d2 = [fn |-> "defer_step", q |-> q, st |-> st, hops |-> m]
      BY <2>3, <3>1, <3>2, <3>3
    <3>5. d2 \in Closures(n) /\ d2.fn = "defer_step" /\ d2.q = q
      BY <1>2, <2>1, <3>3, <3>4, MakeClosures
    <3>6. Fit(d2, c) /\ Key(d2) = <<"settle", q>> /\ Src(d2, c) = 0
      BY <1>2, <2>1, <3>5, PlainFit DEF Src
    <3>7. Adds(r, Enqueue(r, d2), n, c, <<"settle", q>>)
      BY <1>2, <3>5, <3>6, EnqueueAdds
    <3>8. Good(Enqueue(r, d2), n, stk)
      BY <1>1, <2>1, <3>7, SilentGood
    <3> QED BY <2>3, <3>1, <3>8 DEF DeferStep
  <2>4. CASE d.hops = 1
    <3>1. PICK z, st : st \in Done /\ st = d.st /\ z = Settle(r, q, st)
      BY <2>2
    <3>2. Adds(r, z, n, c, NoKey) /\ z.prom[q].st # Pending
      BY <1>2, <2>1, <3>1, SettleAdds
    <3>3. Good(z, n, stk)
      BY <1>1, <2>1, <3>2, SilentGood
    <3> QED BY <2>1, <2>4, <3>1, <3>3 DEF DeferStep
  <2> QED BY <2>2, <2>3, <2>4
<1>5. ASSUME d.fn = "finally_step" PROVE Good(FinallyStep(r, d), n, stk)
  <2>1. PICK q \in 1..n : q = d.q /\ q \in Ids /\ Key(d) = <<"settle", q>> /\ c.comb[q].kind = "none"
    BY <1>3, <1>5
  <2>2. d.st \in Done /\ d.val \in Vals /\ d.r \in Ids
    BY <1>2, <1>5, ClosureFacts
  <2>3. r.prom[d.r].val \in Vals /\ Rejected \in Done /\ 1 \in {1, 2}
    BY <1>2, <2>2, PromWords DEF Done
  <2>4. ASSUME NEW v \in Vals, NEW st \in Done PROVE Good(DeferSettle(StoreValue(r, q, v), q, st, 1), n, stk)
    <3>1. Adds(r, DeferSettle(StoreValue(r, q, v), q, st, 1), n, c, <<"settle", q>>)
      BY <1>2, <2>1, <2>3, DeferAdds
    <3> QED BY <1>1, <2>1, <3>1, SilentGood
  <2> QED BY <2>1, <2>2, <2>3, <2>4 DEF FinallyStep
<1>6. ASSUME d.fn = "adopt_job" PROVE Good(AdoptJob(r, d), n, stk)
  <2>1. PICK q \in 1..n : q = d.q /\ q \in Ids /\ Key(d) = <<"settle", q>> /\ c.comb[q].kind = "none"
    BY <1>3, <1>6
  <2>2. PICK h \in 1..n : h = d.h /\ h \in Ids
    BY <1>2, <1>6, ClosureFacts
  <2>3. PICK d2 \in Closures(n) : d2 = [fn |-> "adopt_settle", q |-> q, h |-> h]
    BY <1>2, MakeClosures
  <2>4. d2.fn = "adopt_settle" /\ d2.q = q /\ d2.h = h
    BY <2>3
  <2>5. Fit(d2, c) /\ Key(d2) = <<"settle", q>> /\ Src(d2, c) = h
    BY <1>2, <2>1, <2>4, PlainFit DEF Src
  <2>6. Adds(r, Attach(r, h, d2), n, c, <<"settle", q>>)
    BY <1>2, <2>2, <2>5, AttachAdds
  <2>7. Good(Attach(r, h, d2), n, stk)
    BY <1>1, <2>1, <2>6, SilentGood
  <2> QED BY <2>1, <2>2, <2>3, <2>7 DEF AdoptJob
<1> QED BY <1>4, <1>5, <1>6

\* A combinator's count goes down: it settles, or as many are to come.
LEMMA CountDownGood ==
  ASSUME NEW s, NEW n, NEW stk, Good(s, n, stk), s.mt # <<>>, NEW r, r = Taken(s),
         NEW q \in 1..n, Key(Head(s.mt)) = <<"settle", q>>, s.prom[q].st = Pending,
         s.comb[q].kind \in {"all", "allSettled", "any"}
  PROVE  Good(CountDown(r, q), n, stk)
<1>1. PICK c, e : c = Ctx(s) /\ e = <<"settle", q>>
  OBVIOUS
<1>2. /\ Owes(r, n, c, e, 1) /\ Fine(r, n, c, 0) /\ Same(s, r) /\ Ctx(r) = c /\ r \in RtType(n)
      /\ r.prom = s.prom /\ n \in Nat /\ 1..n \subseteq Ids /\ c \in CtxType(n)
      /\ c.task = s.task /\ c.comb = s.comb /\ c.run = s.run
      /\ Frames(stk, n, c, s.cur, s.prev)
  BY <1>1, HeadFacts, GoodFacts
<1>3. q \in Ids /\ r.prom[q].st = Pending /\ r.comb = s.comb
  BY <1>2 DEF Same
<1>4. c.comb[q] \in CombType /\ c.comb[q].left \in 0..2 /\ c.comb[q].left >= 1
  <2>1. c.comb[q] \in CombType
    BY <1>2, <1>3 DEF CtxType
  <2>2. c.comb[q].left >= 1
    BY <1>2, <1>3 DEF Owes, Left
  <2> QED BY <2>1, <2>2 DEF CombType
<1>5. PICK x \in CombType : /\ x = [r.comb[q] EXCEPT !.left = @ - 1] /\ x.kind = c.comb[q].kind
                            /\ x.left = c.comb[q].left - 1
  <2>1. PICK y \in CombType : y = c.comb[q] /\ y.left \in 0..2 /\ y.left >= 1
    BY <1>4
  <2>2. y.left - 1 \in 0..2
    BY <2>1
  <2>3. [y EXCEPT !.left = @ - 1] \in CombType
    BY <2>1, <2>2 DEF CombType
  <2>4. [y EXCEPT !.left = @ - 1].kind = y.kind /\ [y EXCEPT !.left = @ - 1].left = y.left - 1
    BY <2>1 DEF CombType
  <2>5. r.comb[q] = y
    BY <1>2, <1>3, <2>1
  <2> QED BY <2>1, <2>3, <2>4, <2>5
<1>6. PICK a, c2 : a = StartComb(r, q, x) /\ c2 = WithComb(c, q, x)
  OBVIOUS
<1>7. Alike(r, a, n) /\ Ctx(a) = c2 /\ a.cur = r.cur /\ a.prev = r.prev
  BY <1>2, <1>3, <1>6, StartFacts
<1>8. c2.task = c.task /\ c2.run = c.run /\ c2.comb[q] = x
  BY <1>2, <1>3, <1>6, WithFacts
<1>9. Frames(stk, n, c2, s.cur, s.prev)
  <2>1. n >= n
    BY <1>2
  <2> QED BY <1>2, <1>8, <2>1, FramesSame
<1>10. r.cur = s.cur /\ r.prev = s.prev
  BY <1>2 DEF Same
<1>11. a.comb[q] = x
  BY <1>7, <1>8 DEF Ctx
<1>12. CASE x.left >= 1
  <2>1. q > Deferred => Count(r, e) >= x.left
    <3> SUFFICES ASSUME q > Deferred PROVE Count(r, e) >= x.left
      OBVIOUS
    <3>1. q \in (Deferred + 1)..n
      BY <1>2, PromiseAssumption
    <3>2. Settler(r, c, q, Due(r, e, e, 1))
      BY <1>1, <1>2, <3>1 DEF Owes, Settlers
    <3>3. c.comb[q].kind # "none"
      BY <1>2
    <3>4. Due(r, e, e, 1) >= c.comb[q].left
      BY <1>3, <3>2, <3>3 DEF Settler
    <3>5. Due(r, e, e, 1) = Count(r, e) + 1 /\ Count(r, e) \in Nat
      BY <1>1, <1>2, <1>3, DueFacts
    <3> QED BY <1>4, <1>5, <3>4, <3>5
  <2>2. PICK m \in Nat : m = 1
    OBVIOUS
  <2>3. Owes(r, n, c, e, m) /\ c.comb[q].kind # "none" /\ e \in {NoKey, <<"settle", q>>}
    BY <1>1, <1>2, <2>2
  <2>4. Owes(r, n, c2, NoKey, 0)
    BY <1>1, <1>5, <1>6, <1>12, <2>1, <2>3, CtxLeft
  <2>5. Owes(a, n, c2, NoKey, 0)
    BY <1>7, <2>4, AlikeOwes
  <2>6. Good(a, n, stk)
    BY <1>7, <1>9, <1>10, <2>5 DEF Good
  <2>7. x.left # 0
    BY <1>4, <1>5, <1>12
  <2>8. CountDown(r, q) = a
    <3>1. [r EXCEPT !.comb[q].left = @ - 1] = a
      BY <1>5, <1>6 DEF StartComb
    <3> QED BY <1>11, <2>7, <3>1 DEF CountDown
  <2> QED BY <2>6, <2>8
<1>13. CASE x.left = 0
  <2>1. PICK z : z = CombFinish(a, q)
    OBVIOUS
  <2>2. Owes(a, n, c, e, 1) /\ Fine(a, n, c, 0)
    <3>1. Owes(a, n, c, e, 1)
      BY <1>2, <1>7, AlikeOwes
    <3> QED BY <3>1 DEF Owes
  <2>3. Adds(a, z, n, c, NoKey) /\ z.prom[q].st # Pending
    BY <1>3, <2>1, <2>2, FinishAdds
  <2>4. Owes(z, n, c, e, 1)
    BY <2>2, <2>3, OwesAdds
  <2>5. PICK m \in Nat : m = 0 /\ Owes(z, n, c, NoKey, m)
    BY <1>1, <1>3, <2>3, <2>4, SettledDebt
  <2>6. c.comb[q].kind # "none" /\ NoKey \in {NoKey, <<"settle", q>>}
    BY <1>2
  <2>7. Owes(z, n, c2, NoKey, 0)
    BY <1>5, <1>6, <2>3, <2>5, <2>6, CtxLeft
  <2>8. Ctx(z) = c2 /\ z.cur = s.cur /\ z.prev = s.prev
    BY <1>7, <1>10, <2>3 DEF Adds, Same, Ctx
  <2>9. Good(z, n, stk)
    BY <1>9, <2>7, <2>8 DEF Good
  <2>10. CountDown(r, q) = z
    <3>1. [r EXCEPT !.comb[q].left = @ - 1] = a
      BY <1>5, <1>6 DEF StartComb
    <3> QED BY <1>11, <1>13, <2>1, <3>1 DEF CountDown
  <2> QED BY <2>9, <2>10
<1>14. x.left >= 1 \/ x.left = 0
  <2>1. PICK y \in 0..2 : y = c.comb[q].left /\ y >= 1
    BY <1>4
  <2>2. x.left = y - 1
    BY <1>5, <2>1
  <2> QED BY <2>1, <2>2
<1> QED BY <1>12, <1>13, <1>14

\* A member of a combinator has settled.
LEMMA MemberGood ==
  ASSUME NEW s, NEW n, NEW stk, Good(s, n, stk), s.mt # <<>>, NEW r, r = Taken(s), NEW d, d = Head(s.mt),
         d.fn = "comb"
  PROVE  Good(CombRunner(r, d), n, stk)
<1>1. PICK c : c = Ctx(s)
  OBVIOUS
<1>2. /\ Fine(r, n, c, 0) /\ r \in RtType(n) /\ r.prom = s.prom /\ n \in Nat /\ 1..n \subseteq Ids
      /\ d \in Closures(n) /\ Fit(d, c) /\ c.comb = s.comb /\ c \in CtxType(n) /\ Same(s, r)
  BY <1>1, HeadFacts, GoodFacts
<1>3. PICK q \in 1..n : q = d.q /\ q \in Ids /\ Key(d) = <<"settle", q>>
  BY <1>2, KeyFacts
<1>4. PICK p \in Ids : p = d.p
  BY <1>2, ClosureFacts
<1>5. r.prom[p].val \in Vals /\ Fulfilled \in Done
  BY <1>2, PromWords DEF Done
<1>6. r.comb[q].kind \in {"all", "allSettled", "any", "race"} /\ r.comb[q].kind = s.comb[q].kind
  <2>1. c.comb[q].kind # "none"
    BY <1>2, <1>3 DEF Fit
  <2>2. c.comb[q] \in CombType
    BY <1>2, <1>3 DEF CtxType
  <2> QED BY <1>2, <2>1, <2>2 DEF CombType, Same
<1>7. ASSUME NEW z, Adds(r, z, n, c, NoKey), z.prom[q].st # Pending PROVE Good(z, n, stk)
  BY <1>1, <1>3, <1>7, SilentGood
<1>8. CASE r.prom[q].st # Pending
  <2>1. Quiet(r, r, n)
    BY <1>2, <1>4, <1>5, QuietFacts
  <2>2. Adds(r, r, n, c, NoKey)
    BY <1>2, <2>1, QuietAdds
  <2>3. Good(r, n, stk)
    BY <1>7, <1>8, <2>2
  <2> QED BY <1>3, <1>8, <2>3 DEF CombRunner
<1>9. CASE r.prom[q].st = Pending
  <2>1. PICK v \in Vals : v = r.prom[p].val
    BY <1>5
  <2>2. Good(RejectWith(r, q, v), n, stk)
    <3>1. Adds(r, RejectWith(r, q, v), n, c, NoKey) /\ RejectWith(r, q, v).prom[q].st # Pending
      BY <1>2, <1>3, SettleWithAdds
    <3> QED BY <1>7, <3>1
  <2>3. Good(Settle(StoreValue(r, q, v), q, Fulfilled), n, stk)
    <3>1. PICK z : z = Settle(StoreValue(r, q, v), q, Fulfilled)
      OBVIOUS
    <3>2. Adds(r, z, n, c, NoKey) /\ z.prom[q].st # Pending
      BY <1>2, <1>3, <1>5, <3>1, SettleWithAdds
    <3> QED BY <1>7, <3>1, <3>2
  <2>4. ASSUME r.comb[q].kind # "race" PROVE Good(CountDown(r, q), n, stk)
    <3>1. s.prom[q].st = Pending /\ s.comb[q].kind \in {"all", "allSettled", "any"}
      BY <1>2, <1>6, <1>9, <2>4
    <3> QED BY <1>3, <3>1, CountDownGood
  <2>5. CASE r.prom[p].st = Rejected
    <3>1. r.comb[q].kind \in {"all", "race"} => CombRunner(r, d) = RejectWith(r, q, v)
      BY <1>3, <1>4, <1>9, <2>1, <2>5 DEF CombRunner
    <3>2. r.comb[q].kind \notin {"all", "race"} => CombRunner(r, d) = CountDown(r, q)
      BY <1>3, <1>4, <1>9, <2>1, <2>5 DEF CombRunner
    <3> QED BY <2>2, <2>4, <3>1, <3>2
  <2>6. CASE r.prom[p].st # Rejected
    <3>1. r.comb[q].kind \in {"all", "allSettled"} => CombRunner(r, d) = CountDown(r, q)
      BY <1>3, <1>4, <1>9, <2>1, <2>6 DEF CombRunner
    <3>2. r.comb[q].kind \notin {"all", "allSettled"}
            => CombRunner(r, d) = Settle(StoreValue(r, q, v), q, Fulfilled)
      BY <1>3, <1>4, <1>9, <2>1, <2>6 DEF CombRunner
    <3> QED BY <2>3, <2>4, <3>1, <3>2
  <2> QED BY <2>5, <2>6
<1> QED BY <1>8, <1>9

\* What the program sees of the queue's head.
LEMMA EventFacts ==
  ASSUME NEW s, NEW n \in Nat, s \in RtType(n), Draining(s)
  PROVE  LET d == Head(s.mt) IN
         /\ s.mt # <<>> /\ s.ph \in {"jobs", "mt"} /\ d \in Closures(n)
         /\ RtEvent(s).k = "none" =>
              d.fn \in {"then", "defer_step", "finally_step", "adopt_job", "adopt_settle", "comb"}
         /\ RtEvent(s).k \in {"then", "finally"} => d.fn = RtEvent(s).k /\ d.q = RtEvent(s).id
         /\ RtEvent(s).k = "task" => d.fn = "resume" /\ d.t = RtEvent(s).id
         /\ RtEvent(s).k = "queued" => d.fn = "queued" /\ d.n = RtEvent(s).id
         /\ RtEvent(s).k \in {"none", "then", "finally", "task", "queued"}
<1>1. PICK d : d = Head(s.mt)
  OBVIOUS
<1>2. s.mt # <<>> /\ s.ph \in {"jobs", "mt"} /\ s.mt \in Seq(Closures(n))
  BY DEF Draining, RtType
<1>3. d \in Closures(n)
  BY <1>1, <1>2, RangeFacts
<1>4. d.fn \in {"then", "finally", "comb", "adopt_job", "adopt_settle", "defer_step", "finally_step", "resume", "queued"}
  BY <1>3, ClosureFacts
<1>5. CASE IsSilent(s, d)
  <2>1. RtEvent(s).k = "none"
    BY <1>1, <1>2, <1>5 DEF RtEvent, NoEvent, Event
  <2>2. d.fn \notin {"finally", "resume", "queued"}
    BY <1>5 DEF IsSilent
  <2> QED BY <1>1, <1>2, <1>3, <1>4, <2>1, <2>2
<1>6. CASE ~IsSilent(s, d)
  <2>1. RtEvent(s) = JobEvent(s, d)
    BY <1>1, <1>2, <1>6 DEF RtEvent
  <2>2. d.fn \in {"then", "finally", "resume", "queued"}
    BY <1>4, <1>6 DEF IsSilent
  <2>3. d.fn = "then" => JobEvent(s, d).k = "then" /\ JobEvent(s, d).id = d.q
    BY DEF JobEvent, Event
  <2>4. d.fn = "finally" => JobEvent(s, d).k = "finally" /\ JobEvent(s, d).id = d.q
    BY DEF JobEvent, Event
  <2>5. d.fn = "queued" => JobEvent(s, d).k = "queued" /\ JobEvent(s, d).id = d.n
    BY DEF JobEvent, Event
  <2>6. d.fn = "resume" => JobEvent(s, d).k = "task" /\ JobEvent(s, d).id = d.t
    BY DEF JobEvent, Event
  <2> QED BY <1>1, <1>2, <1>3, <2>1, <2>2, <2>3, <2>4, <2>5, <2>6
<1> QED BY <1>5, <1>6

\* The other queues and the phase of the drain.
LEMMA DrainWords ==
  ASSUME NEW s, NEW n, s \in RtType(n)
  PROVE  /\ LET r == [s EXCEPT !.ph = NextPhase(s)] IN Alike(s, r, n) /\ Same(s, r)
         /\ s.unh # <<>> => LET r == [s EXCEPT !.unh = Tail(@)] IN Alike(s, r, n) /\ Same(s, r)
         /\ s.tq # <<>> => LET r == [s EXCEPT !.tq = Tail(@)] IN Alike(s, r, n) /\ Same(s, r)
         /\ LET r == AfterModule(s) IN Alike(s, r, n) /\ Same(s, r)
         /\ LET r == AfterMacrotask(s) IN Alike(s, r, n) /\ Same(s, r)
<1>1. s.ph \in {"jobs", "ticks", "mt", "unh", "idle"} /\ s.unh \in Seq(Ids) /\ s.tq \in Seq(Nat)
  BY DEF RtType
<1>2. ASSUME NEW ph \in {"jobs", "ticks", "mt", "unh", "idle"}
      PROVE  LET r == [s EXCEPT !.ph = ph] IN Alike(s, r, n) /\ Same(s, r)
  BY DEF RtType, Alike, Same
<1>3. ASSUME NEW u \in Seq(Ids) PROVE LET r == [s EXCEPT !.unh = u] IN Alike(s, r, n) /\ Same(s, r)
  BY DEF RtType, Alike, Same
<1>4. ASSUME NEW u \in Seq(Nat) PROVE LET r == [s EXCEPT !.tq = u] IN Alike(s, r, n) /\ Same(s, r)
  BY DEF RtType, Alike, Same
<1>5. NextPhase(s) \in {"jobs", "ticks", "mt", "unh", "idle"}
  BY DEF NextPhase
<1>6. s.unh # <<>> => Tail(s.unh) \in Seq(Ids)
  BY <1>1, HeadTailProperties
<1>7. s.tq # <<>> => Tail(s.tq) \in Seq(Nat)
  BY <1>1, HeadTailProperties
<1> QED BY <1>2, <1>3, <1>4, <1>5, <1>6, <1>7 DEF AfterModule, AfterMacrotask

\* A silent step of the drain.
LEMMA RtSilentGood ==
  ASSUME NEW s, NEW n, NEW stk, Good(s, n, stk), RtEvent(s).k = "none"
  PROVE  Good(RtSilent(s), n, stk)
<1>1. s \in RtType(n) /\ n \in Nat
  BY GoodFacts
<1>2. CASE Draining(s)
  <2>1. PICK d, r : d = Head(s.mt) /\ r = Taken(s)
    OBVIOUS
  <2>2. /\ s.mt # <<>> /\ s.ph \in {"jobs", "mt"}
        /\ d.fn \in {"then", "defer_step", "finally_step", "adopt_job", "adopt_settle", "comb"}
    BY <1>1, <1>2, <2>1, EventFacts
  <2>3. RtSilent(s) = RunSilent(r, d)
    BY <1>2, <2>1, <2>2 DEF RtSilent, Taken
  <2>4. CASE d.fn = "then"
    BY <2>1, <2>2, <2>3, <2>4, FollowGood DEF RunSilent
  <2>5. CASE d.fn = "adopt_settle"
    BY <2>1, <2>2, <2>3, <2>5, FollowGood DEF RunSilent
  <2>6. CASE d.fn = "defer_step"
    BY <2>1, <2>2, <2>3, <2>6, HandOnGood DEF RunSilent
  <2>7. CASE d.fn = "finally_step"
    BY <2>1, <2>2, <2>3, <2>7, HandOnGood DEF RunSilent
  <2>8. CASE d.fn = "adopt_job"
    BY <2>1, <2>2, <2>3, <2>8, HandOnGood DEF RunSilent
  <2>9. CASE d.fn = "comb"
    BY <2>1, <2>2, <2>3, <2>9, MemberGood DEF RunSilent
  <2> QED BY <2>2, <2>4, <2>5, <2>6, <2>7, <2>8, <2>9
<1>3. CASE ~Draining(s)
  <2>1. PICK r : r = RtSilent(s)
    OBVIOUS
  <2>2. Alike(s, r, n) /\ Same(s, r)
    <3>1. CASE s.ph = "unh" /\ s.unh # <<>>
      BY <1>1, <1>3, <2>1, <3>1, DrainWords DEF RtSilent
    <3>2. CASE ~(s.ph = "unh" /\ s.unh # <<>>)
      BY <1>1, <1>3, <2>1, <3>2, DrainWords DEF RtSilent
    <3> QED BY <3>1, <3>2
  <2> QED BY <2>1, <2>2, GoodAlike
<1> QED BY <1>2, <1>3

\* Where the drain stands when it comes to code of the program.
LEMMA EventPlace ==
  ASSUME NEW s
  PROVE  /\ RtEvent(s).k \in {"then", "finally", "task", "queued"} => Draining(s)
         /\ RtEvent(s).k = "tick" => s.ph = "ticks" /\ s.tq # <<>> /\ RtEvent(s).id = Head(s.tq)
<1>1. CASE Draining(s)
  <2>1. s.ph # "ticks" /\ s.ph # "unh" /\ s.ph # "idle"
    BY <1>1 DEF Draining
  <2>2. PICK d : d = Head(s.mt)
    OBVIOUS
  <2>3. RtEvent(s) = IF IsSilent(s, d) THEN NoEvent ELSE JobEvent(s, d)
    BY <1>1, <2>1, <2>2 DEF RtEvent
  <2>4. RtEvent(s).k # "tick"
    <3>1. NoEvent.k # "tick"
      BY DEF NoEvent, Event
    <3>2. ASSUME ~IsSilent(s, d) PROVE JobEvent(s, d).k # "tick"
      <4>1. d.fn \in {"then", "finally", "resume", "queued"}
        BY <3>2 DEF IsSilent
      <4> QED BY <4>1 DEF JobEvent, Event
    <3> QED BY <2>3, <3>1, <3>2
  <2> QED BY <1>1, <2>4
<1>2. CASE ~Draining(s) /\ s.ph = "ticks" /\ s.tq # <<>>
  BY <1>2 DEF RtEvent, Event
<1>3. CASE ~Draining(s) /\ s.ph = "unh" /\ s.unh # <<>>
  BY <1>3 DEF RtEvent, ReportEvent, NoEvent, Event
<1>4. CASE ~Draining(s) /\ ~(s.ph = "ticks" /\ s.tq # <<>>) /\ ~(s.ph = "unh" /\ s.unh # <<>>)
  BY <1>4 DEF RtEvent, NoEvent, Event
<1> QED BY <1>1, <1>2, <1>3, <1>4

\* No code is on the stack.
LEMMA EmptyFacts ==
  ASSUME NEW s, NEW n, Good(s, n, <<>>)
  PROVE  s.run.fn \notin Waiters /\ s.cur = NoTask /\ s.prev = <<>>
<1>1. PICK stk : stk = <<>>
  OBVIOUS
<1>2. Frames(stk, n, Ctx(s), s.cur, s.prev) /\ Ctx(s).run = s.run
  BY <1>1, GoodFacts
<1>3. s.prev \in Seq(Vals) /\ Len(s.prev) = 0
  BY <1>1, <1>2 DEF Frames
<1>4. s.prev = <<>>
  BY <1>3, EmptySeq
<1> QED BY <1>1, <1>2, <1>4 DEF Frames

\* The drain calls a tick.
LEMMA EnterTick ==
  ASSUME NEW s, NEW n, Good(s, n, <<>>), RtEvent(s).k = "tick"
  PROVE  Good(RtCall(s), n, <<[k |-> "tick", id |-> RtEvent(s).id]>>)
<1>1. s.ph = "ticks" /\ s.tq # <<>> /\ RtEvent(s).id = Head(s.tq)
  BY EventPlace
<1>2. s \in RtType(n) /\ Ctx(s).run = s.run
  BY GoodFacts
<1>3. PICK m \in Nat : m = RtEvent(s).id
  <2>1. s.tq \in Seq(Nat)
    BY <1>2 DEF RtType
  <2> QED BY <1>1, <2>1, HeadTailProperties
<1>4. PICK r : r = [s EXCEPT !.tq = Tail(@)]
  OBVIOUS
<1>5. Alike(s, r, n) /\ Same(s, r)
  BY <1>1, <1>2, <1>4, DrainWords
<1>6. s.run.fn \notin Waiters /\ s.cur = NoTask /\ s.prev = <<>>
  BY EmptyFacts
<1>7. Owes(r, n, Ctx(s), NoKey, 0)
  BY <1>5, AlikeOwes DEF Good
<1>8. Ctx(r) = Ctx(s) /\ r.cur = s.cur /\ r.prev = s.prev
  BY <1>5 DEF Same, Ctx
<1>9. PICK f \in FrameType : f = [k |-> "tick", id |-> m]
  BY DEF FrameType
<1>10. f.k = "tick" /\ TaskOf(f) = NoTask /\ "tick" \notin Waiters
  BY <1>9 DEF TaskOf, Waiters
<1>11. Frames(<<f>>, n, Ctx(s), TaskOf(f), <<>>)
  BY <1>2, <1>6, <1>10, FramesOne
<1>12. Good(r, n, <<f>>)
  BY <1>6, <1>7, <1>8, <1>10, <1>11 DEF Good
<1> QED BY <1>1, <1>3, <1>4, <1>9, <1>12 DEF RtCall

\* The drain calls a then or finally callback.
LEMMA EnterCallback ==
  ASSUME NEW s, NEW n, Good(s, n, <<>>), RtEvent(s).k \in Waiters
  PROVE  Good(RtCall(s), n, <<[k |-> RtEvent(s).k, id |-> RtEvent(s).id]>>)
<1>1. PICK c, d, r : c = Ctx(s) /\ d = Head(s.mt) /\ r = Taken(s)
  OBVIOUS
<1>2. s \in RtType(n) /\ n \in Nat
  BY GoodFacts
<1>3. Draining(s)
  BY EventPlace DEF Waiters
<1>4. /\ s.mt # <<>> /\ s.ph \in {"jobs", "mt"} /\ d.fn = RtEvent(s).k /\ d.q = RtEvent(s).id
      /\ d.fn \in Waiters
  BY <1>1, <1>2, <1>3, EventFacts DEF Waiters
<1>5. /\ Owes(r, n, c, Key(d), 1) /\ Same(s, r) /\ Ctx(r) = c /\ r \in RtType(n) /\ r.prom = s.prom
      /\ 1..n \subseteq Ids /\ d \in Closures(n) /\ Fit(d, c)
      /\ Src(d, c) # 0 => s.prom[Src(d, c)].st # Pending
  BY <1>1, <1>4, HeadFacts
<1>6. Key(d) = <<"settle", d.q>> /\ d.q \in 1..n /\ d.p \in 1..n /\ Src(d, c) = d.p
  <2>1. d.fn \in {"then", "finally"}
    BY <1>4 DEF Waiters
  <2> QED BY <1>2, <1>5, <2>1, KeyFacts, ClosureFacts DEF Src
<1>7. r.prom[d.p].st # Pending
  BY <1>5, <1>6
<1>8. s.run.fn \notin Waiters /\ s.cur = NoTask /\ s.prev = <<>> /\ c.run = s.run
  BY <1>1, EmptyFacts, GoodFacts
<1>9. PICK c2 : c2 = WithRun(c, d)
  OBVIOUS
<1>10. Owes(r, n, c2, NoKey, 0)
  BY <1>4, <1>5, <1>6, <1>7, <1>8, <1>9, CtxEnter
<1>11. PICK z : z = [r EXCEPT !.run = d]
  OBVIOUS
<1>12. /\ Alike(r, z, n) /\ z.run = d /\ z.task = r.task /\ z.comb = r.comb /\ z.cur = r.cur /\ z.prev = r.prev
  BY <1>5, <1>11 DEF RtType, Alike
<1>13. Ctx(z) = c2
  BY <1>5, <1>9, <1>12 DEF Ctx, WithRun
<1>14. Owes(z, n, c2, NoKey, 0)
  BY <1>10, <1>12, AlikeOwes
<1>15. PICK f \in FrameType : f = [k |-> d.fn, id |-> d.q]
  <2>1. d.q \in Nat
    BY <1>2, <1>6
  <2> QED BY <1>4, <2>1 DEF FrameType, Waiters
<1>16. f.k = d.fn /\ f.id = d.q /\ f.k # "task" /\ TaskOf(f) = NoTask
  BY <1>4, <1>15 DEF TaskOf, Waiters
<1>17. c2.run = d
  BY <1>12, <1>13 DEF Ctx
<1>18. Frames(<<f>>, n, c2, TaskOf(f), <<>>)
  BY <1>4, <1>16, <1>17, FramesOne
<1>19. z.cur = NoTask /\ z.prev = <<>>
  BY <1>5, <1>8, <1>12 DEF Same
<1>20. Good(z, n, <<f>>)
  BY <1>13, <1>14, <1>16, <1>18, <1>19 DEF Good
<1>21. RtCall(s) = z
  <2>1. s.ph # "ticks" /\ d.fn # "resume"
    BY <1>4 DEF Waiters
  <2>2. z = [s EXCEPT !.mt = Tail(@), !.run = d]
    BY <1>1, <1>11 DEF Taken
  <2> QED BY <1>1, <2>1, <2>2 DEF RtCall
<1> QED BY <1>4, <1>15, <1>20, <1>21

\* The drain resumes a body.
LEMMA EnterBody ==
  ASSUME NEW s, NEW n, Good(s, n, <<>>), RtEvent(s).k = "task"
  PROVE  Good(RtCall(s), n, <<[k |-> "task", id |-> RtEvent(s).id]>>)
<1>1. PICK c, d, r : c = Ctx(s) /\ d = Head(s.mt) /\ r = Taken(s)
  OBVIOUS
<1>2. s \in RtType(n) /\ n \in Nat
  BY GoodFacts
<1>3. Draining(s)
  BY EventPlace
<1>4. s.mt # <<>> /\ s.ph \in {"jobs", "mt"} /\ d.fn = "resume" /\ d.t = RtEvent(s).id
  BY <1>1, <1>2, <1>3, EventFacts
<1>5. /\ Owes(r, n, c, Key(d), 1) /\ Same(s, r) /\ Ctx(r) = c /\ r \in RtType(n)
      /\ 1..n \subseteq Ids /\ d \in Closures(n)
  BY <1>1, <1>4, HeadFacts
<1>6. PICK t \in 1..n : t = d.t /\ Key(d) = <<"resume", t>> /\ t \in Ids
  BY <1>2, <1>4, <1>5, KeyFacts
<1>7. s.run.fn \notin Waiters /\ s.cur = NoTask /\ s.prev = <<>> /\ c.run = s.run /\ c \in CtxType(n)
  BY <1>1, EmptyFacts, GoodFacts
<1>8. PICK x \in TaskType : x = [r.task[t] EXCEPT !.st = "running"] /\ x.st = "running" /\ x.on = c.task[t].on
  <2>1. r.task[t] \in TaskType
    BY <1>5, <1>6 DEF RtType
  <2>2. [r.task[t] EXCEPT !.st = "running"] \in TaskType
    BY <2>1 DEF TaskType
  <2>3. c.task = r.task
    BY <1>5 DEF Ctx
  <2> QED BY <2>1, <2>2, <2>3 DEF TaskType
<1>9. PICK c1, c2 : c1 = WithTask(c, t, x) /\ c2 = WithRun(c1, d)
  OBVIOUS
<1>10. c1 \in CtxType(n) /\ c1.run = c.run /\ c1.task[t] = x
  BY <1>6, <1>7, <1>9, WithFacts
<1>11. Owes(r, n, c2, NoKey, 0)
  <2>1. Owes(r, n, c1, NoKey, 0)
    BY <1>5, <1>6, <1>8, <1>9, CtxResumed
  <2>2. c1.run.fn \notin Waiters
    BY <1>7, <1>10
  <2>3. d \in Closures(n) \cup {NoClosure} /\ d.fn \in {"none", "resume", "queued"}
    BY <1>4, <1>5
  <2> QED BY <1>9, <2>1, <2>2, <2>3, CtxRunOther
<1>12. c2.run = d /\ c2.task = c1.task
  BY <1>9, <1>10, RunWith
<1>13. PICK a : a = StartTask(r, t, x)
  OBVIOUS
<1>14. Alike(r, a, n) /\ Ctx(a) = c1 /\ a.cur = r.cur /\ a.prev = r.prev
  BY <1>5, <1>6, <1>9, <1>13, StartFacts
<1>15. PICK b : b = [a EXCEPT !.run = d]
  OBVIOUS
<1>16. Alike(a, b, n) /\ b.run = d /\ b.task = a.task /\ b.comb = a.comb /\ b.cur = a.cur /\ b.prev = a.prev
  BY <1>5, <1>14, <1>15 DEF RtType, Alike
<1>17. Ctx(b) = c2
  BY <1>9, <1>14, <1>16 DEF Ctx, WithRun
<1>18. PICK z : z = SetCur(b, t, <<>>)
  OBVIOUS
<1>19. Alike(b, z, n) /\ Ctx(z) = c2 /\ z.cur = t /\ z.prev = <<>>
  <2>1. t \in Vals /\ <<>> \in Seq(Vals)
    BY <1>6, EmptySeq DEF Ids, Vals
  <2>2. b \in RtType(n)
    BY <1>16 DEF Alike
  <2>3. PICK none \in Seq(Vals) : none = <<>>
    BY <2>1
  <2>4. PICK now \in Vals : now = t
    BY <2>1
  <2>5. /\ Alike(b, SetCur(b, now, none), n) /\ Ctx(SetCur(b, now, none)) = Ctx(b)
        /\ SetCur(b, now, none).cur = now /\ SetCur(b, now, none).prev = none
    BY <2>2, CurFacts
  <2> QED BY <1>17, <1>18, <2>3, <2>4, <2>5
<1>20. Owes(z, n, c2, NoKey, 0)
  BY <1>11, <1>14, <1>16, <1>19, AlikeOwes
<1>21. PICK f \in FrameType : f = [k |-> "task", id |-> t]
  <2>1. t \in Nat
    BY <1>2, <1>6
  <2> QED BY <2>1 DEF FrameType
<1>22. f.k = "task" /\ f.id = t /\ TaskOf(f) = t
  BY <1>21 DEF TaskOf
<1>23. Frames(<<f>>, n, c2, TaskOf(f), <<>>)
  <2>1. c2.task[f.id].st = "running" /\ c2.run.fn \notin Waiters /\ f.k \notin Waiters
    <3>1. c2.task[f.id] = x
      BY <1>10, <1>12, <1>22
    <3> QED BY <1>4, <1>8, <1>12, <1>22, <3>1 DEF Waiters
  <2> QED BY <1>22, <2>1, FramesOne
<1>24. Good(z, n, <<f>>)
  BY <1>19, <1>20, <1>22, <1>23 DEF Good
<1>25. RtCall(s) = z
  <2>1. s.ph # "ticks"
    BY <1>4
  <2>2. b.prev = <<>> /\ b \in RtType(n)
    BY <1>5, <1>7, <1>14, <1>16 DEF Same, Alike
  <2>3. z = [b EXCEPT !.cur = t]
    BY <1>18, <2>2 DEF SetCur, RtType
  <2>4. z = TaskResume([s EXCEPT !.mt = Tail(@), !.run = d], t)
    BY <1>1, <1>8, <1>13, <1>15, <2>3 DEF TaskResume, StartTask, Taken
  <2> QED BY <1>1, <1>4, <1>6, <2>1, <2>4 DEF RtCall
<1> QED BY <1>4, <1>6, <1>21, <1>24, <1>25

\* The clock's microtask runs.
LEMMA ClockGood ==
  ASSUME NEW s, NEW n, Good(s, n, <<>>), RtEvent(s).k = "queued"
  PROVE  RtEvent(s).id \in Nat /\ Good(RtReturned(RtCall(s)), n, <<>>)
<1>1. PICK c, d, r : c = Ctx(s) /\ d = Head(s.mt) /\ r = Taken(s)
  OBVIOUS
<1>2. s \in RtType(n) /\ n \in Nat
  BY GoodFacts
<1>3. Draining(s)
  BY EventPlace
<1>4. s.mt # <<>> /\ s.ph \in {"jobs", "mt"} /\ d.fn = "queued" /\ d.n = RtEvent(s).id
  BY <1>1, <1>2, <1>3, EventFacts
<1>5. /\ Owes(r, n, c, Key(d), 1) /\ Same(s, r) /\ Ctx(r) = c /\ r \in RtType(n) /\ d \in Closures(n)
  BY <1>1, <1>4, HeadFacts
<1>6. Key(d) = NoKey /\ d.n \in Nat
  BY <1>2, <1>4, <1>5, KeyFacts, ClosureFacts
<1>7. s.run.fn \notin Waiters /\ s.cur = NoTask /\ s.prev = <<>> /\ c.run = s.run /\ c \in CtxType(n)
  BY <1>1, EmptyFacts, GoodFacts
<1>8. PICK c2 : c2 = WithRun(c, NoClosure)
  OBVIOUS
<1>9. Owes(r, n, c2, NoKey, 0)
  <2>1. Owes(r, n, c, NoKey, 0)
    BY <1>5, <1>6, NoDebt
  <2>2. NoClosure \in Closures(n) \cup {NoClosure} /\ NoClosure.fn \in {"none", "resume", "queued"}
    BY DEF NoClosure
  <2> QED BY <1>7, <1>8, <2>1, <2>2, CtxRunOther
<1>10. PICK z : z = [r EXCEPT !.run = NoClosure]
  OBVIOUS
<1>11. Alike(r, z, n) /\ z.run = NoClosure /\ z.task = r.task /\ z.comb = r.comb /\ z.cur = r.cur /\ z.prev = r.prev
  BY <1>5, <1>10 DEF RtType, Alike
<1>12. Ctx(z) = c2
  BY <1>5, <1>8, <1>11 DEF Ctx, WithRun
<1>13. Owes(z, n, c2, NoKey, 0)
  BY <1>9, <1>11, AlikeOwes
<1>14. Frames(<<>>, n, c2, NoTask, <<>>)
  <2>1. c2.run.fn \notin Waiters
    BY <1>11, <1>12 DEF Ctx, NoClosure, Waiters
  <2> QED BY <2>1, FramesNone
<1>15. z.cur = NoTask /\ z.prev = <<>>
  BY <1>5, <1>7, <1>11 DEF Same
<1>16. Good(z, n, <<>>)
  BY <1>12, <1>13, <1>14, <1>15 DEF Good
<1>17. RtReturned(RtCall(s)) = z
  <2>1. RtCall(s) = [s EXCEPT !.mt = Tail(@), !.run = d]
    BY <1>1, <1>4 DEF RtCall
  <2> QED BY <1>1, <1>10, <2>1 DEF RtReturned, Taken
<1> QED BY <1>4, <1>6, <1>16, <1>17

\* The event loop calls back.
LEMMA MacrotaskGood ==
  ASSUME NEW s, NEW n, Good(s, n, <<>>), NEW m \in Nat
  PROVE  Good(QueueMicrotask(s, m), n, <<Script>>)
<1>1. PICK r : r = QueueMicrotask(s, m)
  OBVIOUS
<1>2. Good(r, n, <<>>)
  BY <1>1, QueueGood
<1>3. r.run.fn \notin Waiters /\ r.cur = NoTask /\ r.prev = <<>>
  BY <1>2, EmptyFacts
<1>4. Ctx(r).run = r.run
  BY <1>2, GoodFacts
<1>5. PICK f \in FrameType : f = Script /\ f.k = "script" /\ TaskOf(f) = NoTask
  <2>1. Script \in FrameType
    BY DEF FrameType, Script
  <2> QED BY <2>1 DEF Script, TaskOf
<1>6. Frames(<<f>>, n, Ctx(r), TaskOf(f), <<>>)
  <2>1. f.k \notin Waiters /\ f.k # "task"
    BY <1>5 DEF Waiters
  <2> QED BY <1>3, <1>4, <2>1, FramesOne
<1> QED BY <1>1, <1>2, <1>3, <1>5, <1>6 DEF Good

-----------------------------------------------------------------------------
(* The invariant holds at first and is kept.                               *)

\* At first there are no closures.
LEMMA InitOwes ==
  /\ Owes(InitRt, Deferred, Ctx(InitRt), NoKey, 0)
  /\ InitRt.cur = NoTask /\ InitRt.prev = <<>> /\ InitRt.run = NoClosure
<1>1. PICK s, c, n : s = InitRt /\ c = Ctx(s) /\ n = Deferred
  OBVIOUS
<1>2. n \in Nat /\ MaxProms \in Nat /\ n \in Ids \cup {0} /\ Ids \subseteq Nat /\ 0 \in Vals /\ 0 \notin Ids
  BY <1>1, PromiseAssumption DEF Ids, Vals
<1>3. PICK none \in Seq(Closures(n)) : none = <<>> /\ Len(none) = 0
  BY EmptySeq
<1>4. /\ s.prom \in [Ids -> PromType(n)] /\ \A p \in Ids : s.prom[p].rx = none
  <2>1. NewPromise \in PromType(n)
    BY <1>2, <1>3 DEF NewPromise, PromType, Vals, Pending
  <2>2. s.prom = [p \in Ids |-> NewPromise]
    BY <1>1 DEF InitRt
  <2> QED BY <1>3, <2>1, <2>2 DEF NewPromise
<1>5. /\ s.task \in [Ids -> TaskType] /\ \A t \in Ids : s.task[t].st = "none"
      /\ s.comb \in [Ids -> CombType] /\ \A q \in Ids : s.comb[q].kind = "none"
  BY <1>1, <1>2 DEF InitRt, TaskType, CombType
<1>6. /\ s.mt = none /\ s.run = NoClosure /\ s.cur = NoTask /\ s.prev = <<>>
  BY <1>1, <1>3 DEF InitRt
<1>7. s \in RtType(n)
  <2>1. <<>> \in Seq(Nat) /\ <<>> \in Seq(Ids) /\ <<>> \in Seq(Vals)
    BY EmptySeq
  <2>2. s = [prom |-> s.prom, mt |-> none, tq |-> <<>>, unh |-> <<>>, ph |-> "jobs", run |-> NoClosure,
             task |-> s.task, comb |-> s.comb, cur |-> 0, prev |-> <<>>]
    BY <1>1, <1>3 DEF InitRt, NoTask
  <2>3. ASSUME NEW P \in [Ids -> PromType(n)], NEW m \in Seq(Closures(n)), NEW t \in Seq(Nat),
               NEW u \in Seq(Ids), NEW R \in Closures(n) \cup {NoClosure}, NEW T \in [Ids -> TaskType],
               NEW C \in [Ids -> CombType], NEW v \in Vals, NEW b \in Seq(Vals)
        PROVE  [prom |-> P, mt |-> m, tq |-> t, unh |-> u, ph |-> "jobs", run |-> R,
                task |-> T, comb |-> C, cur |-> v, prev |-> b] \in RtType(n)
    BY DEF RtType
  <2>4. PICK P \in [Ids -> PromType(n)], T \in [Ids -> TaskType], C \in [Ids -> CombType] :
           P = s.prom /\ T = s.task /\ C = s.comb
    BY <1>4, <1>5
  <2>5. NoClosure \in Closures(n) \cup {NoClosure}
    OBVIOUS
  <2>6. [prom |-> P, mt |-> none, tq |-> <<>>, unh |-> <<>>, ph |-> "jobs", run |-> NoClosure,
         task |-> T, comb |-> C, cur |-> 0, prev |-> <<>>] \in RtType(n)
    BY <1>2, <2>1, <2>3, <2>5
  <2> QED BY <2>2, <2>4, <2>6
<1>8. c = [task |-> s.task, comb |-> s.comb, run |-> NoClosure] /\ c \in CtxType(n)
  BY <1>1, <1>5, <1>6 DEF Ctx, CtxType
<1>9. ASSUME NEW p \in 0..MaxProms PROVE Lists(s)[p] = <<>>
  <2>1. CASE p = 0
    BY <1>3, <1>6, <2>1 DEF Lists
  <2>2. CASE p # 0
    <3>1. p \in Ids
      BY <1>2, <2>2 DEF Ids
    <3>2. Reverse(none) \in Seq(Closures(n)) /\ Len(Reverse(none)) = 0
      BY <1>3, ReverseFacts
    <3>3. Lists(s)[p] = Reverse(none)
      BY <1>4, <2>2, <3>1 DEF Lists
    <3> QED BY <3>2, <3>3, EmptySeq
  <2> QED BY <2>1, <2>2
<1>10. ASSUME NEW p \in 0..MaxProms PROVE Range(Lists(s)[p]) = {}
  BY <1>9 DEF Range
<1>11. ASSUME NEW k PROVE Spots(Lists(s), k) = {}
  <2> SUFFICES ASSUME NEW x \in Spots(Lists(s), k) PROVE FALSE
    OBVIOUS
  <2>1. PICK p, i : x = <<p, i>> /\ At(Lists(s), k, p, i)
    BY SpotIs
  <2>2. p \in 0..MaxProms /\ Lists(s)[p][i] \in Range(Lists(s)[p])
    BY <2>1 DEF At, Range
  <2> QED BY <1>10, <2>2
<1>12. Counted(s) /\ \A k : Count(s, k) = 0
  BY <1>11, FS_EmptySet DEF Counted, Count
<1>13. Fine(s, n, c, 0)
  <2>1. Ids \subseteq 0..MaxProms /\ 0 \in 0..MaxProms
    BY <1>2 DEF Ids
  <2>2. Waits(Lists(s), s.prom, c, 0)
    BY <1>10, <2>1 DEF Waits
  <2> QED BY <1>2, <1>7, <1>8, <1>12, <2>2 DEF Fine
<1>14. Resumes(s, c, NoKey, 0)
  <2> SUFFICES ASSUME NEW t \in Ids PROVE Due(s, <<"resume", t>>, NoKey, 0) = 0
    BY <1>5, <1>8 DEF Resumes
  <2>1. Plus(<<"resume", t>>, NoKey, 0) = 0
    BY DEF Plus
  <2> QED BY <1>12, <2>1 DEF Due
<1>15. Settlers(s, n, c, NoKey, 0)
  BY <1>1, <1>2 DEF Settlers
<1>16. Left(s, c) /\ Fresh(n, c)
  BY <1>5, <1>8 DEF Left, Fresh
<1>17. RunOk(s, c)
  BY <1>8 DEF RunOk, NoClosure, Waiters
<1> QED BY <1>1, <1>6, <1>13, <1>14, <1>15, <1>16, <1>17 DEF Owes

\* The initial states.
LEMMA InitHolds ==
  Init => RunInv
<1> SUFFICES ASSUME Init PROVE RunInv
  OBVIOUS
<1>1. PICK s, n, f : s = InitRt /\ n = Deferred /\ f = Script
  OBVIOUS
<1>2. n \in Nat /\ MaxOps \in Nat /\ Rounds \in Nat /\ (n > 0 => 1 \in Ids)
  BY <1>1, PromiseAssumption DEF Ids
<1>3. Owes(s, n, Ctx(s), NoKey, 0) /\ s.cur = NoTask /\ s.prev = <<>> /\ s.run = NoClosure
  BY <1>1, InitOwes
<1>4. Good(s, n, <<f>>)
  <2>1. f \in FrameType /\ f.k = "script" /\ TaskOf(f) = NoTask /\ f.k \notin Waiters
    BY <1>1 DEF FrameType, Script, TaskOf, Waiters
  <2>2. Ctx(s).run.fn \notin Waiters
    BY <1>3 DEF Ctx, NoClosure, Waiters
  <2>3. Frames(<<f>>, n, Ctx(s), TaskOf(f), <<>>)
    BY <2>1, <2>2, FramesOne
  <2> QED BY <1>3, <2>1, <2>3 DEF Good
<1>5. CASE rt = QueueMicrotask(InitRt, Rounds)
  <2>1. Good(QueueMicrotask(s, Rounds), n, <<f>>)
    BY <1>2, <1>4, QueueGood
  <2>2. Good(rt, made, stack)
    BY <1>1, <1>5, <2>1 DEF Init
  <2> QED BY <1>1, <1>2, <2>2 DEF Init, RunInv
<1>6. CASE Deferred > 0 /\ rt = QueueMicrotask(ResolveThunk(InitRt, 1, 1), Rounds)
  <2>1. PICK p \in Ids : p = 1
    BY <1>1, <1>2, <1>6
  <2>2. Good(ResolveThunk(s, p, p), n, <<f>>)
    BY <1>4, ResolveGood
  <2>3. Good(QueueMicrotask(ResolveThunk(s, p, p), Rounds), n, <<f>>)
    BY <1>2, <2>2, QueueGood
  <2>4. Good(rt, made, stack)
    BY <1>1, <1>6, <2>1, <2>3 DEF Init
  <2> QED BY <1>1, <1>2, <2>4 DEF Init, RunInv
<1> QED BY <1>5, <1>6 DEF Init

\* The operations of the running code.
LEMMA OpsHold ==
  ASSUME RunInv, Running, ops > 0
  PROVE  /\ \A p \in Known : \A st \in {Fulfilled, Rejected} : CallThen(p, {st}) => RunInv'
         /\ \A p \in Known : CallFinally(p) => RunInv'
         /\ \A p \in 1..Deferred : (CallResolve(p) => RunInv') /\ (CallReject(p) => RunInv')
         /\ \A kind \in Kinds, members \in Members : CallCombinator(kind, members) => RunInv'
         /\ CallNextTick => RunInv'
         /\ CallAsync => RunInv'
<1>1. PICK q : q = New
  OBVIOUS
<1>2. /\ Good(rt, made, stack) /\ ops \in Nat /\ made \in Nat /\ Deferred \in Nat /\ q = made + 1 /\ q \in Ids
      /\ 1..Deferred \subseteq Ids /\ q \in Nat /\ stack # <<>> /\ MaxOps \in Nat
  BY <1>1, PromiseAssumption DEF RunInv, New, Ids, Running
<1>3. ASSUME Good(rt', made', stack'), ops' = ops - 1, made' = made \/ made' = q PROVE RunInv'
  <2>1. ops' \in 0..MaxOps /\ made' \in Nat /\ made' >= Deferred /\ made' + ops' <= Deferred + MaxOps
    BY <1>2, <1>3 DEF RunInv
  <2> QED BY <1>3, <2>1 DEF RunInv
<1>4. ASSUME NEW js, NEW r, \/ Do(js, r, 0) /\ Good(r, made, stack)
                            \/ Do(js, r, 1) /\ Good(r, q, stack)
      PROVE  RunInv'
  <2>1. CASE Do(js, r, 0) /\ Good(r, made, stack)
    <3>1. rt' = r /\ made' = made /\ ops' = ops - 1 /\ stack' = stack
      BY <1>2, <2>1 DEF Do
    <3>2. Good(rt', made', stack')
      BY <2>1, <3>1
    <3> QED BY <1>3, <3>1, <3>2
  <2>2. CASE Do(js, r, 1) /\ Good(r, q, stack)
    <3>1. rt' = r /\ made' = q /\ ops' = ops - 1 /\ stack' = stack
      BY <1>2, <2>2 DEF Do
    <3>2. Good(rt', made', stack')
      BY <2>2, <3>1
    <3> QED BY <1>3, <3>1, <3>2
  <2> QED BY <1>4, <2>1, <2>2
<1>5. \A p \in Known : p \in 1..made /\ p \in 1..q /\ q \in 1..q
  BY <1>2 DEF Known
<1>6. ASSUME NEW p \in Known, NEW st \in {Fulfilled, Rejected}, CallThen(p, {st}) PROVE RunInv'
  <2>1. PICK on \in SUBSET Done : on = {st}
    BY DEF Done
  <2>2. PICK d \in Closures(q) : d = [fn |-> "then", p |-> p, q |-> q, on |-> on]
    BY <1>2, <1>5, MakeClosures
  <2>3. d.fn \in Waiters /\ d.p = p /\ d.q = q
    BY <2>2 DEF Waiters
  <2>4. PICK r : r = Attach(rt, p, d)
    OBVIOUS
  <2>5. Good(r, q, stack)
    BY <1>2, <1>5, <2>3, <2>4, ThenGood
  <2>6. r = Then(rt, p, New, {st})
    BY <1>1, <2>1, <2>2, <2>4 DEF Then
  <2> QED BY <1>4, <1>6, <2>5, <2>6 DEF CallThen
<1>7. ASSUME NEW p \in Known, CallFinally(p) PROVE RunInv'
  <2>1. PICK d \in Closures(q) : d = [fn |-> "finally", p |-> p, q |-> q]
    BY <1>2, <1>5, MakeClosures
  <2>2. d.fn \in Waiters /\ d.p = p /\ d.q = q
    BY <2>1 DEF Waiters
  <2>3. PICK r : r = Attach(rt, p, d)
    OBVIOUS
  <2>4. Good(r, q, stack)
    BY <1>2, <1>5, <2>2, <2>3, ThenGood
  <2>5. r = Finally(rt, p, New)
    BY <1>1, <2>1, <2>3 DEF Finally
  <2> QED BY <1>4, <1>7, <2>4, <2>5 DEF CallFinally
<1>8. ASSUME NEW p \in 1..Deferred PROVE (CallResolve(p) => RunInv') /\ (CallReject(p) => RunInv')
  <2>1. Good(ResolveThunk(rt, p, p), made, stack) /\ Good(RejectWith(rt, p, p), made, stack)
    BY <1>2, ResolveGood
  <2> QED BY <1>4, <2>1 DEF CallResolve, CallReject
<1>9. ASSUME NEW kind \in Kinds, NEW members \in Members, CallCombinator(kind, members) PROVE RunInv'
  <2>1. kind \in {"all", "allSettled", "any", "race"} /\ members \in {<<>>} \cup ((1..made) \X (1..made))
    BY PromiseAssumption DEF Members, Known
  <2>2. PICK r : r = Combinator(rt, kind, q, members)
    OBVIOUS
  <2>3. Good(r, q, stack)
    BY <1>2, <2>1, <2>2, CombGood
  <2> QED BY <1>1, <1>4, <1>9, <2>2, <2>3 DEF CallCombinator
<1>10. ASSUME CallNextTick PROVE RunInv'
  <2>1. Good(NextTick(rt, ops), made, stack)
    BY <1>2, TickGood
  <2> QED BY <1>4, <1>10, <2>1 DEF CallNextTick
<1>11. ASSUME CallAsync PROVE RunInv'
  <2>1. Good(SpawnTask(rt, q), q, Append(stack, [k |-> "task", id |-> q]))
    BY <1>2, SpawnGood
  <2>2. rt' = SpawnTask(rt, q) /\ stack' = Append(stack, [k |-> "task", id |-> q]) /\ made' = q /\ ops' = ops - 1
    BY <1>1, <1>11 DEF CallAsync
  <2>3. Good(rt', made', stack')
    BY <2>1, <2>2
  <2> QED BY <1>3, <2>2, <2>3
<1> QED BY <1>6, <1>7, <1>8, <1>9, <1>10, <1>11

\* How running code ends.
LEMMA EndsHold ==
  ASSUME RunInv, Running
  PROVE  /\ EndScript \/ EndTick \/ CallbackReturn \/ CallbackThrow \/ AsyncReturn \/ AsyncThrow \/ AwaitValue
              => RunInv'
         /\ \A p \in Known : CallbackReturnPromise(p) \/ AsyncReturnPromise(p) \/ Await(p) => RunInv'
<1>1. /\ Good(rt, made, stack) /\ ops \in Nat /\ made \in Nat /\ Deferred \in Nat
      /\ stack # <<>> /\ MaxOps \in Nat /\ rt \in RtType(made)
  BY PromiseAssumption, GoodFacts DEF RunInv, Running
<1>2. PICK s, n, stk : s = rt /\ n = made /\ stk = stack
  OBVIOUS
<1>3. Good(s, n, stk) /\ stk # <<>> /\ s \in RtType(n) /\ Top = Last(stk)
  BY <1>1, <1>2 DEF Top
<1>4. ASSUME NEW js, NEW r, Leave(js, r), Good(r, n, Front(stk)), ops' = ops \/ (ops > 0 /\ ops' = ops - 1)
      PROVE  RunInv'
  <2>1. rt' = r /\ stack' = Front(stk) /\ made' = n
    BY <1>2, <1>4 DEF Leave
  <2>2. Good(rt', made', stack')
    BY <1>4, <2>1
  <2>3. ops' \in 0..MaxOps /\ made' \in Nat /\ made' >= Deferred /\ made' + ops' <= Deferred + MaxOps
    BY <1>1, <1>2, <1>4, <2>1 DEF RunInv
  <2> QED BY <2>2, <2>3 DEF RunInv
<1>5. ASSUME EndScript \/ EndTick PROVE RunInv'
  <2>1. Last(stk).k \notin Waiters \cup {"task"} /\ ops' = ops
    BY <1>3, <1>5 DEF EndScript, EndTick, Waiters
  <2>2. PICK js, r : Leave(js, r) /\ Alike(s, r, n) /\ Same(s, r)
    <3>1. CASE EndScript
      <4>1. Leave(es, IF turned THEN AfterMacrotask(s) ELSE AfterModule(s))
        BY <1>2, <3>1 DEF EndScript
      <4>2. \A r \in {AfterMacrotask(s), AfterModule(s)} : Alike(s, r, n) /\ Same(s, r)
        BY <1>3, DrainWords
      <4> QED BY <4>1, <4>2
    <3>2. CASE EndTick
      <4>1. Leave(es, s) /\ Alike(s, s, n) /\ Same(s, s)
        BY <1>2, <1>3, <3>2 DEF EndTick, Alike, Same
      <4> QED BY <4>1
    <3> QED BY <1>5, <3>1, <3>2
  <2>3. Good(r, n, Front(stk))
    BY <1>3, <2>1, <2>2, EndGood
  <2> QED BY <1>4, <2>1, <2>2, <2>3
<1>6. ASSUME InCallback PROVE Last(stk).k \in Waiters /\ Top.id \in Vals
  <2>1. Last(stk).k \in Waiters
    BY <1>3, <1>6 DEF InCallback, Waiters
  <2>2. Frames(stk, n, Ctx(s), s.cur, s.prev) /\ Ctx(s).run = s.run
    BY <1>3, GoodFacts
  <2>3. s.run.q = Last(stk).id
    BY <1>3, <2>1, <2>2, FramesTop
  <2>4. s.run.q \in Ids
    BY <1>3, <2>1, CallbackFacts
  <2> QED BY <1>3, <2>1, <2>3, <2>4 DEF Ids, Vals
<1>7. ASSUME InTask PROVE Last(stk).k = "task" /\ Top.id \in Vals
  <2>1. Last(stk).k = "task"
    BY <1>3, <1>7 DEF InTask
  <2>2. Frames(stk, n, Ctx(s), s.cur, s.prev) /\ 1..n \subseteq Vals
    BY <1>3, GoodFacts
  <2>3. Last(stk).id \in 1..n
    BY <1>3, <2>1, <2>2, FramesTop
  <2> QED BY <1>3, <2>1, <2>2, <2>3
<1>8. ASSUME CallbackReturn \/ CallbackThrow PROVE RunInv'
  <2>1. Last(stk).k \in Waiters /\ Top.id \in Vals /\ ops' = ops
    BY <1>6, <1>8 DEF CallbackReturn, CallbackThrow
  <2>2. PICK v \in Vals : v = Top.id
    BY <2>1
  <2>3. Good(RtReturned(CallbackReturns(s, v)), n, Front(stk)) /\ Good(RtReturned(CallbackThrows(s, v)), n, Front(stk))
    BY <1>3, <2>1, ReturnsGood
  <2> QED BY <1>2, <1>4, <1>8, <2>1, <2>2, <2>3 DEF CallbackReturn, CallbackThrow
<1>9. ASSUME AsyncReturn \/ AsyncThrow PROVE RunInv'
  <2>1. Last(stk).k = "task" /\ Top.id \in Vals /\ ops' = ops
    BY <1>7, <1>9 DEF AsyncReturn, AsyncThrow
  <2>2. PICK v \in Vals : v = Top.id
    BY <2>1
  <2>3. Good(TaskFinish(s, v), n, Front(stk)) /\ Good(TaskReject(s, v), n, Front(stk))
    BY <1>3, <2>1, TaskEndGood
  <2> QED BY <1>2, <1>4, <1>9, <2>1, <2>2, <2>3 DEF AsyncReturn, AsyncThrow
<1>10. ASSUME AwaitValue PROVE RunInv'
  <2>1. Last(stk).k = "task" /\ ops > 0 /\ ops' = ops - 1
    BY <1>7, <1>10 DEF AwaitValue
  <2>2. Good(AwaitPlain(s), n, Front(stk))
    BY <1>3, <2>1, AwaitGood
  <2> QED BY <1>2, <1>4, <1>10, <2>1, <2>2 DEF AwaitValue
<1>11. ASSUME NEW p \in Known, CallbackReturnPromise(p) PROVE RunInv'
  <2>1. Last(stk).k \in Waiters /\ ops' = ops
    BY <1>6, <1>11 DEF CallbackReturnPromise
  <2>2. PICK h \in 1..n : h = p
    BY <1>2 DEF Known
  <2>3. Good(RtReturned(CallbackReturnsPromise(s, h)), n, Front(stk))
    BY <1>3, <2>1, ReturnsPromiseGood
  <2> QED BY <1>2, <1>4, <1>11, <2>1, <2>2, <2>3 DEF CallbackReturnPromise
<1>12. ASSUME NEW p \in Known, AsyncReturnPromise(p) PROVE RunInv'
  <2>1. Last(stk).k = "task" /\ ops' = ops
    BY <1>7, <1>12 DEF AsyncReturnPromise
  <2>2. PICK h \in 1..n : h = p
    BY <1>2 DEF Known
  <2>3. Good(TaskAdopted(s, h), n, Front(stk))
    BY <1>3, <2>1, TaskAdoptedGood
  <2> QED BY <1>2, <1>4, <1>12, <2>1, <2>2, <2>3 DEF AsyncReturnPromise
<1>13. ASSUME NEW p \in Known, Await(p) PROVE RunInv'
  <2>1. Last(stk).k = "task" /\ ops > 0 /\ ops' = ops - 1
    BY <1>7, <1>13 DEF Await
  <2>2. PICK h \in 1..n : h = p
    BY <1>2 DEF Known
  <2>3. Good(AwaitReady(s, h), n, Front(stk))
    BY <1>3, <2>1, AwaitGood
  <2> QED BY <1>2, <1>4, <1>13, <2>1, <2>2, <2>3 DEF Await
<1> QED BY <1>5, <1>8, <1>9, <1>10, <1>11, <1>12, <1>13

\* The drain of the queues and the event loop.
LEMMA QueuesHold ==
  ASSUME RunInv
  PROVE  QueueStep \/ Enter \/ ClockRound \/ Macrotask => RunInv'
<1>1. PICK s, n, none : s = rt /\ n = made /\ none = <<>>
  OBVIOUS
<1>2. Good(s, n, stack) /\ Rounds \in Nat
  BY <1>1, PromiseAssumption DEF RunInv
<1>3. ASSUME NEW stk, Good(rt', n, stk), stack' = stk, made' = made, ops' = ops PROVE RunInv'
  <2>1. Good(rt', made', stack')
    BY <1>1, <1>3
  <2> QED BY <1>3, <2>1 DEF RunInv
<1>4. ASSUME QueueStep PROVE RunInv'
  <2>1. stack' = stack /\ made' = made /\ ops' = ops
    BY <1>4 DEF QueueStep
  <2>2. CASE RtBusy
    <3>1. Good(RtSilent(s), n, stack)
      BY <1>1, <1>2, <2>2, RtSilentGood DEF RtBusy
    <3>2. rt' = RtSilent(s)
      BY <1>1, <1>4, <2>2 DEF QueueStep
    <3> QED BY <1>3, <2>1, <3>1, <3>2
  <2>3. CASE ~RtBusy
    <3>1. rt' = s
      BY <1>1, <1>4, <2>3 DEF QueueStep
    <3> QED BY <1>2, <1>3, <2>1, <3>1
  <2> QED BY <2>2, <2>3
<1>5. ASSUME AtRest PROVE Good(s, n, <<>>)
  BY <1>2, <1>5 DEF AtRest, Running
<1>6. ASSUME Enter PROVE RunInv'
  <2>1. Good(s, n, <<>>)
    BY <1>5, <1>6 DEF Enter
  <2>2. PICK e : e = RtEvent(s)
    OBVIOUS
  <2>3. /\ e.k \in {"then", "finally", "task", "tick"} /\ rt' = RtCall(s)
        /\ stack' = <<[k |-> e.k, id |-> e.id]>> /\ made' = made /\ ops' = ops
    BY <1>1, <1>6, <2>2 DEF Enter
  <2>4. PICK r, stk : r = RtCall(s) /\ stk = <<[k |-> e.k, id |-> e.id]>>
    OBVIOUS
  <2>5. CASE e.k \in Waiters
    <3>1. Good(r, n, stk)
      BY <2>1, <2>2, <2>4, <2>5, EnterCallback
    <3> QED BY <1>3, <2>3, <2>4, <3>1
  <2>6. CASE e.k = "task"
    <3>1. Good(r, n, stk)
      BY <2>1, <2>2, <2>4, <2>6, EnterBody
    <3> QED BY <1>3, <2>3, <2>4, <3>1
  <2>7. CASE e.k = "tick"
    <3>1. Good(r, n, stk)
      BY <2>1, <2>2, <2>4, <2>7, EnterTick
    <3> QED BY <1>3, <2>3, <2>4, <3>1
  <2> QED BY <2>3, <2>5, <2>6, <2>7 DEF Waiters
<1>7. ASSUME ClockRound PROVE RunInv'
  <2>1. Good(s, n, <<>>) /\ RtEvent(s).k = "queued" /\ stack = <<>>
    BY <1>1, <1>5, <1>7 DEF ClockRound, AtRest, Running
  <2>2. PICK m, r : m = RtEvent(s).id /\ r = RtReturned(RtCall(s))
    OBVIOUS
  <2>3. m \in Nat /\ Good(r, n, <<>>)
    BY <2>1, <2>2, ClockGood
  <2>4. /\ rt' = IF m > 1 THEN QueueMicrotask(r, m - 1) ELSE r
        /\ stack' = stack /\ made' = made /\ ops' = ops
    BY <1>1, <1>7, <2>2 DEF ClockRound
  <2>5. Good(rt', n, <<>>)
    <3>1. CASE m > 1
      <4>1. m - 1 \in Nat
        BY <2>3, <3>1
      <4>2. Good(QueueMicrotask(r, m - 1), n, <<>>)
        BY <2>3, <4>1, QueueGood
      <4> QED BY <2>4, <3>1, <4>2
    <3>2. CASE ~(m > 1)
      BY <2>3, <2>4, <3>2
    <3> QED BY <3>1, <3>2
  <2> QED BY <1>3, <2>1, <2>4, <2>5
<1>8. ASSUME Macrotask PROVE RunInv'
  <2>1. Good(s, n, <<>>)
    BY <1>5, <1>8 DEF Macrotask
  <2>2. Good(QueueMicrotask(s, Rounds), n, <<Script>>)
    BY <1>2, <2>1, MacrotaskGood
  <2>3. rt' = QueueMicrotask(s, Rounds) /\ stack' = <<Script>> /\ made' = made /\ ops' = ops
    BY <1>1, <1>8 DEF Macrotask
  <2> QED BY <1>3, <2>2, <2>3
<1> QED BY <1>4, <1>6, <1>7, <1>8

\* Every step keeps the invariant.
LEMMA InvHolds ==
  Spec => []RunInv
<1>1. Init => RunInv
  BY InitHolds
<1>2. RunInv /\ [Next]_vars => RunInv'
  <2> SUFFICES ASSUME RunInv, [Next]_vars PROVE RunInv'
    OBVIOUS
  <2>1. CASE Next
    <3>1. ASSUME NEW p \in Known, \/ \E st \in {Fulfilled, Rejected} : CallThen(p, {st})
                                  \/ CallFinally(p)
          PROVE  RunInv'
      <4>1. Running /\ ops > 0
        BY <3>1 DEF CallThen, CallFinally, Do
      <4> QED BY <3>1, <4>1, OpsHold
    <3>2. ASSUME NEW p \in Known, CallbackReturnPromise(p) \/ AsyncReturnPromise(p) \/ Await(p) PROVE RunInv'
      <4>1. Running
        BY <3>2 DEF CallbackReturnPromise, AsyncReturnPromise, Await, InCallback, InTask
      <4> QED BY <3>2, <4>1, EndsHold
    <3>3. ASSUME NEW p \in 1..Deferred, CallResolve(p) \/ CallReject(p) PROVE RunInv'
      <4>1. Running /\ ops > 0
        BY <3>3 DEF CallResolve, CallReject, Do
      <4> QED BY <3>3, <4>1, OpsHold
    <3>4. ASSUME NEW kind \in Kinds, NEW members \in Members, CallCombinator(kind, members) PROVE RunInv'
      <4>1. Running /\ ops > 0
        BY <3>4 DEF CallCombinator, Do
      <4> QED BY <3>4, <4>1, OpsHold
    <3>5. ASSUME CallNextTick \/ CallAsync PROVE RunInv'
      <4>1. Running /\ ops > 0
        BY <3>5 DEF CallNextTick, CallAsync, Do
      <4> QED BY <3>5, <4>1, OpsHold
    <3>6. ASSUME EndScript \/ EndTick \/ CallbackReturn \/ CallbackThrow \/ AsyncReturn \/ AsyncThrow \/ AwaitValue
          PROVE  RunInv'
      <4>1. Running
        BY <3>6 DEF EndScript, EndTick, CallbackReturn, CallbackThrow, AsyncReturn, AsyncThrow, AwaitValue,
                    InCallback, InTask
      <4> QED BY <3>6, <4>1, EndsHold
    <3>7. QueueStep \/ Enter \/ ClockRound \/ Macrotask => RunInv'
      BY QueuesHold
    <3> QED BY <2>1, <3>1, <3>2, <3>3, <3>4, <3>5, <3>6, <3>7 DEF Next
  <2>2. CASE UNCHANGED vars
    BY <2>2 DEF vars, RunInv
  <2> QED BY <2>1, <2>2
<1> QED BY <1>1, <1>2, PTL DEF Spec

-----------------------------------------------------------------------------
(* What it says of the properties.                                         *)

\* The runtime's words and the queues stay what they are: the STATE words of
\* settle.c, the current task and its spawners (task.c), unhandled rejections.
THEOREM PromiseTypeCorrect ==
  Spec => []TypeOK
<1>1. RunInv => TypeOK
  <2> SUFFICES ASSUME RunInv PROVE TypeOK
    OBVIOUS
  <2>1. /\ Good(rt, made, stack) /\ rt \in RtType(made) /\ Ctx(rt).task = rt.task
        /\ Frames(stack, made, Ctx(rt), rt.cur, rt.prev)
    BY GoodFacts DEF RunInv
  <2>2. ASSUME NEW p \in Ids
        PROVE  /\ rt.prom[p].st \in {Pending, Fulfilled, Rejected}
               /\ rt.prom[p].val \in 0..MaxProms
               /\ rt.prom[p].handled \in BOOLEAN
               /\ rt.task[p].st \in {"none", "running", "parked", "done"}
               /\ rt.comb[p].left \in 0..2
    <3>1. rt.prom[p].val \in Vals /\ rt.prom[p].st \in {Pending} \cup Done /\ rt.prom[p].handled \in BOOLEAN
      BY <2>1, PromWords
    <3>2. rt.task[p] \in TaskType /\ rt.comb[p] \in CombType
      BY <2>1 DEF RtType
    <3> QED BY <3>1, <3>2 DEF Vals, Done, TaskType, CombType
  <2>3. rt.cur # NoTask => rt.task[rt.cur].st = "running"
    <3>1. CASE stack = <<>>
      BY <2>1, <3>1 DEF Frames
    <3>2. CASE stack # <<>>
      BY <2>1, <3>2, FramesTop
    <3> QED BY <3>1, <3>2
  <2>4. rt.unh \in Seq(Ids)
    BY <2>1 DEF RtType
  <2>5. made \in 0..MaxProms /\ ops \in 0..MaxOps
    BY PromiseAssumption DEF RunInv
  <2> QED BY <2>2, <2>3, <2>4, <2>5 DEF TypeOK
<1> QED BY <1>1, InvHolds, PTL

\* The spots of the properties are those that the invariant counts.
LEMMA HeldSpots ==
  ASSUME NEW n, Fine(rt, n, Ctx(rt), 0)
  PROVE  /\ \A t \in Ids : {x \in Held : Closure(x).fn = "resume" /\ Closure(x).t = t}
                             = Spots(Lists(rt), <<"resume", t>>)
         /\ \A q \in Ids : {x \in Held : Settles(Closure(x), q)} = Spots(Lists(rt), <<"settle", q>>)
<1>1. PICK L \in [0..MaxProms -> Seq(Closures(n))] : L = Lists(rt)
  BY FineFacts
<1>2. n \in Nat
  BY FineFacts
<1>3. \A p \in 0..MaxProms : List(p) = L[p]
  BY <1>1 DEF List, Lists
<1>4. Held = UNION {{<<p, i>> : i \in DOMAIN L[p]} : p \in 0..MaxProms}
  BY <1>3 DEF Held
<1>5. ASSUME NEW x \in Held PROVE Closure(x) = L[x[1]][x[2]] /\ Closure(x) \in Closures(n)
  <2>1. PICK p \in 0..MaxProms : x \in {<<p, i>> : i \in DOMAIN L[p]}
    BY <1>4
  <2>2. PICK i \in DOMAIN L[p] : x = <<p, i>>
    BY <2>1
  <2>3. x[1] = p /\ x[2] = i
    BY <2>2
  <2>4. L[p] \in Seq(Closures(n))
    OBVIOUS
  <2>5. L[p][i] \in Closures(n)
    BY <2>2, <2>4
  <2> QED BY <1>3, <2>3, <2>5 DEF Closure
<1>6. ASSUME NEW k PROVE Spots(L, k) = {x \in Held : Key(L[x[1]][x[2]]) = k}
  BY <1>4 DEF Spots
<1>7. ASSUME NEW t \in Ids, NEW x \in Held
      PROVE  Closure(x).fn = "resume" /\ Closure(x).t = t <=> Key(L[x[1]][x[2]]) = <<"resume", t>>
  BY <1>2, <1>5, KeyFacts
<1>8. ASSUME NEW q \in Ids, NEW x \in Held PROVE Settles(Closure(x), q) <=> Key(L[x[1]][x[2]]) = <<"settle", q>>
  BY <1>2, <1>5, KeyFacts
<1>9. ASSUME NEW t \in Ids
      PROVE  {x \in Held : Closure(x).fn = "resume" /\ Closure(x).t = t} = Spots(L, <<"resume", t>>)
  <2>1. Spots(L, <<"resume", t>>) = {x \in Held : Key(L[x[1]][x[2]]) = <<"resume", t>>}
    BY <1>6
  <2> QED BY <1>7, <2>1
<1>10. ASSUME NEW q \in Ids PROVE {x \in Held : Settles(Closure(x), q)} = Spots(L, <<"settle", q>>)
  <2>1. Spots(L, <<"settle", q>>) = {x \in Held : Key(L[x[1]][x[2]]) = <<"settle", q>>}
    BY <1>6
  <2> QED BY <1>8, <2>1
<1> QED BY <1>1, <1>9, <1>10

\* A list waits for its promise, which is pending, and a job's source has
\* settled, as the generated runners take for granted.
LEMMA SourcesFollow ==
  ASSUME NEW n, Fine(rt, n, Ctx(rt), 0)
  PROVE  SourcesReady
<1>1. PICK c : c = Ctx(rt) /\ c.task = rt.task
  BY DEF Ctx
<1>2. n \in Nat /\ rt \in RtType(n) /\ Waits(Lists(rt), rt.prom, c, 0)
  BY <1>1, FineFacts DEF Fine
<1>3. \A d : Source(d) = Src(d, c)
  BY <1>1 DEF Source, Src
<1>4. ASSUME NEW p \in Ids, NEW i \in 1..Len(rt.prom[p].rx)
      PROVE  Source(rt.prom[p].rx[i]) = p /\ rt.prom[p].st = Pending
  <2>1. PICK l \in Seq(Closures(n)) : l = rt.prom[p].rx
    BY <1>2 DEF RtType, PromType
  <2>2. l[i] \in Range(l)
    BY <2>1 DEF Range
  <2>3. Lists(rt)[p] = Reverse(l) /\ p # 0
    BY <1>2, <2>1, ListsFacts
  <2>4. l[i] \in Range(Lists(rt)[p])
    BY <2>2, <2>3, RangeFacts
  <2> QED BY <1>2, <1>3, <2>1, <2>3, <2>4 DEF Waits
<1>5. ASSUME NEW i \in 1..Len(rt.mt), Source(rt.mt[i]) # 0 PROVE rt.prom[Source(rt.mt[i])].st # Pending
  <2>1. Lists(rt)[0] = rt.mt /\ rt.mt \in Seq(Closures(n))
    BY <1>2, ListsFacts DEF RtType
  <2>2. rt.mt[i] \in Range(Lists(rt)[0])
    BY <2>1 DEF Range
  <2> QED BY <1>2, <1>3, <1>5, <2>2 DEF Waits
<1> QED BY <1>4, <1>5 DEF SourcesReady

\* Every closure lies where it will run, every suspended body has one closure
\* that resumes it, and every pending promise of a chain, of an async function
\* or of a combinator what settles it (settle.c, adopt.c, defer.c, finally.c,
\* task.c and the generated runners together).
THEOREM NothingIsForgotten ==
  Spec => []NothingForgotten
<1>1. RunInv => NothingForgotten
  <2> SUFFICES ASSUME RunInv PROVE NothingForgotten
    OBVIOUS
  <2>1. PICK c, n : c = Ctx(rt) /\ n = made
    OBVIOUS
  <2>2. Fine(rt, n, c, 0) /\ Resumes(rt, c, NoKey, 0) /\ Settlers(rt, n, c, NoKey, 0)
    BY <2>1 DEF RunInv, Good, Owes
  <2>3. SourcesReady /\ c.task = rt.task /\ c.comb = rt.comb /\ c.run = rt.run
    BY <2>1, <2>2, SourcesFollow DEF Ctx
  <2>4. /\ \A t \in Ids : {x \in Held : Closure(x).fn = "resume" /\ Closure(x).t = t}
                            = Spots(Lists(rt), <<"resume", t>>)
        /\ \A q \in Ids : {x \in Held : Settles(Closure(x), q)} = Spots(Lists(rt), <<"settle", q>>)
    BY <2>1, <2>2, HeldSpots
  <2>5. ResumedOnce
    <3> SUFFICES ASSUME NEW t \in Ids
                 PROVE  Cardinality({x \in Held : Closure(x).fn = "resume" /\ Closure(x).t = t})
                          = (IF rt.task[t].st = "parked" THEN 1 ELSE 0)
      BY DEF ResumedOnce
    <3>1. Due(rt, <<"resume", t>>, NoKey, 0) = Count(rt, <<"resume", t>>)
      BY <2>2, DueFacts
    <3>2. Count(rt, <<"resume", t>>) = (IF rt.task[t].st = "parked" THEN 1 ELSE 0)
      BY <2>2, <2>3, <3>1 DEF Resumes
    <3> QED BY <2>4, <3>2 DEF Count
  <2>6. OneSettler
    <3> SUFFICES ASSUME NEW q \in (Deferred + 1)..made, rt.prom[q].st = Pending
                 PROVE  LET closures == {x \in Held : Settles(Closure(x), q)}
                            running == Settles(rt.run, q) \/ rt.task[q].st \in {"running", "parked"}
                        IN  IF rt.comb[q].kind # "none"
                            THEN Cardinality(closures) >= rt.comb[q].left
                            ELSE Cardinality(closures) + (IF running THEN 1 ELSE 0) = 1
      BY DEF OneSettler
    <3>1. q \in Ids /\ q \in (Deferred + 1)..n
      BY <2>1, <2>2, KeyMade
    <3>2. Due(rt, <<"settle", q>>, NoKey, 0) = Count(rt, <<"settle", q>>)
      BY <2>2, <3>1, DueFacts
    <3>3. Settler(rt, c, q, Count(rt, <<"settle", q>>))
      BY <2>2, <3>1, <3>2 DEF Settlers
    <3>4. Cardinality({x \in Held : Settles(Closure(x), q)}) = Count(rt, <<"settle", q>>)
      BY <2>4, <3>1 DEF Count
    <3> QED BY <2>3, <3>3, <3>4 DEF Settler
  <2> QED BY <2>3, <2>5, <2>6 DEF NothingForgotten
<1> QED BY <1>1, InvHolds, PTL

=============================================================================

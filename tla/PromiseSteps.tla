---------------------------- MODULE PromiseSteps ----------------------------
(***************************************************************************)
(* The simulation of PromiseSim, kept by what the machines do: the heads   *)
(* of their queues run, the program's code calls an operation, or ends.    *)
(***************************************************************************)
EXTENDS PromiseSim

-----------------------------------------------------------------------------
(* The heads of the queues.                                                *)

\* The job at the head stands for the closure at the head.
Matched(e, s, c, f) == e.jobs # <<>> /\ s.mt # <<>> /\ Fired(e.jobs, Inners(e), Head(s.mt), Out(s), c, f, 1)

\* Both are taken; what they were about is in mid-step.
LEMMA PopMatched ==
  ASSUME NEW e, NEW e2, NEW s, NEW s2, NEW n, NEW c, NEW f, NEW x, NEW y,
         SimBy(e, s, n, c, 0, 0, f), Fine(s, n, c, 0), e.jobs # <<>>, ~Free(f, 1),
         JsMovesTo(e, e2, Tail(e.jobs)), MovesTo(s, s2, Tail(s.mt)), CallSim(e2.call, Out(s), c),
         Head(s.mt).fn \in Steps => x = Head(s.mt).q, Late(e.jobs[1]) => y = e.jobs[1].d
  PROVE  /\ Sim(e2, s2, n, c, x, y) /\ Matched(e, s, c, f)
         /\ \A d : InLists(s, d) <=> InLists(s2, d) \/ d = Head(s.mt)
         /\ Late(e.jobs[1]) => ~LateFor(e2.jobs, e.jobs[1].d)
<1>1. /\ e \in JsType /\ s \in RtType(n) /\ n \in Nat /\ 1..n \subseteq Ids /\ RestSim(e, s, n, c)
      /\ QueuesSim(e, s, c, f) /\ InnerSim(e.jobs, Inners(e), s, 0, 0)
  <2>1. PICK z : z = 0
    OBVIOUS
  <2>2. Sim(e, s, n, c, z, z)
    BY <2>1 DEF Sim
  <2> QED BY <2>2, SimFacts DEF SimBy
<1>2. /\ e2.prom = e.prom /\ e2.jobs = Tail(e.jobs) /\ e2.unh = e.unh /\ e2.ticks = e.ticks
      /\ e2.comb = e.comb /\ e2 \in JsType
  BY DEF JsMovesTo
<1>3. s2.prom = s.prom /\ s2.mt = Tail(s.mt) /\ s2.unh = s.unh /\ s2.tq = s.tq
  BY DEF MovesTo
<1>4. PICK J, M, I, o, g : J = e.jobs /\ M = s.mt /\ I = Inners(e) /\ o = Out(s) /\ g = Less(f, Len(M))
  OBVIOUS
<1>5. Inners(e2) = I /\ Out(s2) = o
  BY <1>2, <1>3, <1>4 DEF Inners, Out
<1>6. Typed(J, M, n) /\ QueueSim(J, I, M, o, c, f) /\ J # <<>> /\ J \in Seq(JobType)
  BY <1>1, <1>4, PairTyped DEF QueuesSim, Typed
<1>7. /\ M # <<>> /\ Fired(J, I, Head(M), o, c, f, 1) /\ Typed(Tail(J), Tail(M), n)
      /\ QueueSim(Tail(J), I, Tail(M), o, c, g) /\ Shifted(J, f, Tail(J), g, 1)
  BY <1>4, <1>6, QueuePops
<1>8. Matched(e, s, c, f)
  BY <1>4, <1>7 DEF Matched
<1>9. (\A q \in Ids : Lists(s2)[q] = Lists(s)[q]) /\ \A d : InLists(s, d) <=> InLists(s2, d) \/ d = Head(s.mt)
  <2>1. \A q \in Ids : s2.prom[q].rx = s.prom[q].rx
    BY <1>3
  <2>2. QueueChanges(s, s2, n)
    BY <1>1, <2>1, QueueLists
  <2> QED BY <1>3, <1>4, <1>7, <2>2 DEF QueueChanges
<1>10. /\ Len(J) \in Nat /\ Len(Tail(J)) = Len(J) - 1
       /\ \A i \in 1..(Len(J) - 1) : Tail(J)[i] = J[i + 1]
       /\ \A i \in 1..Len(J) : i > 1 => i - 1 \in 1..Len(Tail(J)) /\ Tail(J)[i - 1] = J[i]
  BY <1>6, TailFacts
<1>11. Late(J[1]) => ~LateFor(Tail(J), J[1].d)
  BY <1>6, OnceTail DEF QueueSim
<1>12. \A d : /\ LateFor(Tail(J), d) => LateFor(J, d)
              /\ LateFor(J, d) => LateFor(Tail(J), d) \/ (Late(J[1]) /\ J[1].d = d)
  <2>1. TAKE d
  <2>2. ASSUME LateFor(Tail(J), d) PROVE LateFor(J, d)
    <3>1. PICK i \in 1..Len(Tail(J)) : Late(Tail(J)[i]) /\ Tail(J)[i].d = d
      BY <2>2 DEF LateFor
    <3>2. i \in 1..(Len(J) - 1) /\ i + 1 \in 1..Len(J)
      BY <1>10
    <3>3. Tail(J)[i] = J[i + 1]
      BY <1>10, <3>2
    <3> QED BY <3>1, <3>2, <3>3 DEF LateFor
  <2>3. ASSUME LateFor(J, d) PROVE LateFor(Tail(J), d) \/ (Late(J[1]) /\ J[1].d = d)
    <3>1. PICK i \in 1..Len(J) : Late(J[i]) /\ J[i].d = d
      BY <2>3 DEF LateFor
    <3>2. CASE i = 1
      BY <3>1, <3>2
    <3>3. CASE i # 1
      <4>1. i > 1
        BY <3>3
      <4> QED BY <1>10, <3>1, <4>1 DEF LateFor
    <3> QED BY <3>2, <3>3
  <2> QED BY <2>2, <2>3
<1>13. \A q \in Ids : ListSim(e2.prom[q].rx, Lists(s2)[q], Tail(J), I, g)
  <2>1. TAKE q \in Ids
  <2>2. PICK X, l : X = e.prom[q].rx /\ l = Lists(s)[q]
    OBVIOUS
  <2>3. ListSim(X, l, J, I, f)
    BY <1>1, <1>4, <2>2 DEF QueuesSim
  <2>4. ASSUME NEW i \in 1..Len(l), l[i].fn = "finally_step" PROVE Hook(Tail(J), I, g, l[i].q, Len(Tail(J)) + 1)
    <3>1. PICK d, b, b2, k : d = l[i].q /\ b = Len(J) + 1 /\ b2 = Len(Tail(J)) + 1 /\ k = 1
      OBVIOUS
    <3>2. Hook(J, I, f, d, b)
      BY <2>3, <2>4, <3>1 DEF ListSim
    <3>3. HookKept(J, I, f, Tail(J), I, g, k, d, b, b2)
      BY <1>7, <1>10, <3>1 DEF HookKept, Spared
    <3>4. Hook(Tail(J), I, g, d, b2)
      BY <3>2, <3>3, HookMoves
    <3> QED BY <3>1, <3>4
  <2>5. ListSim(X, l, Tail(J), I, g)
    BY <2>3, <2>4 DEF ListSim
  <2> QED BY <1>2, <1>9, <2>2, <2>5
<1>14. QueuesSim(e2, s2, c, g)
  BY <1>2, <1>3, <1>4, <1>5, <1>7, <1>13 DEF QueuesSim
<1>15. InnerSim(Tail(J), I, s2, x, y)
  <2>1. ASSUME NEW d \in Ids, d # x, s2.prom[d].st = Pending, ~Deferring(s2, d) PROVE Blank(I[d]) /\ ~LateFor(Tail(J), d)
    <3>1. ~Deferring(s, d)
      BY <1>9, <2>1 DEF Deferring, Steps
    <3>2. d # 0
      BY <1>1, ListsFacts
    <3>3. Blank(I[d]) /\ ~LateFor(J, d)
      BY <1>1, <1>3, <1>4, <2>1, <3>1, <3>2 DEF InnerSim
    <3> QED BY <1>12, <3>3
  <2>2. ASSUME NEW d \in Ids, d # y, I[d].st # 0, ~I[d].handled PROVE LateFor(Tail(J), d)
    <3>1. d # 0
      BY <1>1, ListsFacts
    <3>2. LateFor(J, d)
      BY <1>1, <1>4, <2>2, <3>1 DEF InnerSim
    <3> QED BY <1>4, <1>12, <2>2, <3>2
  <2> QED BY <2>1, <2>2 DEF InnerSim
<1>16. RestSim(e2, s2, n, c)
  <2>1. Owners(s2, c)
    BY <1>1, <1>3, <1>9 DEF RestSim, Owners
  <2>2. CombSim(e2.comb, s2, c)
    BY <1>1, <1>2, <1>3 DEF RestSim, CombSim
  <2> QED BY <1>1, <1>2, <1>3, <1>4, <1>5, <2>1, <2>2 DEF RestSim
<1> QED BY <1>2, <1>4, <1>5, <1>8, <1>9, <1>11, <1>14, <1>15, <1>16 DEF Sim, SimBy

\* Only d's inner promise changes.
LEMMA InnerChanges ==
  ASSUME NEW e, NEW e2, NEW d \in Ids, \A q \in Js!JsIds : q # Inner(d) => e2.prom[q] = e.prom[q]
  PROVE  /\ \A q \in Ids : e2.prom[q] = e.prom[q]
         /\ Inners(e2)[d] = e2.prom[Inner(d)] /\ Inners(e)[d] = e.prom[Inner(d)]
         /\ \A q \in Ids : q # d => Inners(e2)[q] = Inners(e)[q]
<1>1. PICK i : i = Inner(d) /\ i \in Js!JsIds /\ i \notin Ids
  BY InnerFacts
<1>2. \A q \in Ids : q \in Js!JsIds /\ q # i
  BY <1>1, InnerFacts
<1>3. \A q \in Ids : Inner(q) \in Js!JsIds /\ (q # d => Inner(q) # i)
  BY <1>1, InnerFacts
<1> QED BY <1>1, <1>2, <1>3 DEF Inners

\* finally's inner promise has settled and its reaction is a job; the runtime
\* keeps the outcome on q and queues its last closure.
StepsOn(e, e2, s, s2, q, j, st, v) ==
    /\ \E E : JsPuts(e, e2, Inner(q), E, <<j>>, e.unh) /\ E.st # 0 /\ E.handled
    /\ j.k = "adopt" /\ j.d = q /\ j.st = st /\ j.val = v
    /\ ~Blank(Inners(e)[q])
    /\ \E r : StoresTo(s, r, q, v) /\ MovesTo(r, s2, Append(r.mt, [fn |-> "defer_step", q |-> q, st |-> st, hops |-> 1]))

\* Then both wait for that job.
LEMMA InnerStep ==
  ASSUME NEW e, NEW e2, NEW s, NEW s2, NEW n, NEW c, NEW x, NEW y, NEW q \in 1..n, NEW j, NEW st \in Done, NEW v \in Vals,
         Sim(e, s, n, c, x, y), Fine(s, n, c, 0), RunOk(s, c), s.prom[q].st = Pending, q > Deferred,
         \A d : InLists(s, d) => Key(d) # <<"settle", q>>, x \in {0, q}, y \in {0, q}, StepsOn(e, e2, s, s2, q, j, st, v)
  PROVE  Sim(e2, s2, n, c, 0, 0)
<1>1. PICK f : SimBy(e, s, n, c, x, y, f)
  BY DEF Sim
<1>2. /\ e \in JsType /\ s \in RtType(n) /\ n \in Nat /\ 1..n \subseteq Ids /\ RestSim(e, s, n, c) /\ q \in Ids
      /\ QueuesSim(e, s, c, f) /\ InnerSim(e.jobs, Inners(e), s, x, y)
  BY <1>1, SimFacts DEF SimBy
<1>3. PICK i, E, d, one, K, N, D : /\ i = Inner(q) /\ one = 1 /\ d = [fn |-> "defer_step", q |-> q, st |-> st, hops |-> one]
                        /\ K = <<j>> /\ N = <<d>> /\ D = {d}
                        /\ JsPuts(e, e2, i, E, K, e.unh) /\ E.st # 0 /\ E.handled
  BY DEF StepsOn
<1>4. PICK r : StoresTo(s, r, q, v) /\ MovesTo(r, s2, Append(r.mt, d))
  BY <1>3 DEF StepsOn
<1>5. PICK X : /\ Puts(s, r, q, X, s.mt, s.unh)
               /\ X.st = s.prom[q].st /\ X.val = v /\ X.rx = s.prom[q].rx
               /\ X.handled = s.prom[q].handled /\ X.queued = s.prom[q].queued
  BY <1>4 DEF StoresTo
<1>6. /\ s2.prom[q] = X /\ (\A p \in Ids : p # q => s2.prom[p] = s.prom[p])
      /\ s2.mt = Append(s.mt, d) /\ s2.unh = s.unh /\ s2.tq = s.tq
  BY <1>4, <1>5 DEF Puts, MovesTo
<1>7. /\ e2.prom[i] = E /\ e2.jobs = e.jobs \o K /\ e2.unh = e.unh /\ e2 \in JsType /\ K \in Seq(JobType)
      /\ e2.ticks = e.ticks /\ e2.call = e.call /\ e2.comb = e.comb
      /\ \A p \in Js!JsIds : p # i => e2.prom[p] = e.prom[p]
  BY <1>3 DEF JsPuts, JsSame
<1>8. i \in Js!JsIds /\ i \notin Ids
  BY <1>2, <1>3, InnerFacts
<1>9. /\ \A p \in Ids : e2.prom[p] = e.prom[p]
      /\ Inners(e2)[q] = E /\ \A p \in Ids : p # q => Inners(e2)[p] = Inners(e)[p]
  <2>1. \A p \in Ids : p \in Js!JsIds /\ p # i
    BY <1>8, InnerFacts
  <2>2. \A p \in Ids : Inner(p) \in Js!JsIds /\ (p # q => Inner(p) # i)
    BY <1>2, <1>3, InnerFacts
  <2> QED BY <1>2, <1>3, <1>7, <2>1, <2>2 DEF Inners
<1>10. d \in Closures(n) /\ Key(d) = <<"settle", q>> /\ d.fn = "defer_step" /\ d.q = q /\ d.st = st /\ d.hops = one
  <2>1. d \in Closures(n)
    BY <1>2, <1>3, MakeClosures
  <2>2. d.fn = "defer_step" /\ d.q = q /\ d.st = st /\ d.hops = one
    BY <1>3
  <2> QED BY <1>2, <2>1, <2>2, KeyFacts
<1>11. /\ N \in Seq(Closures(n)) /\ Len(K) = 1 /\ Len(N) = 1 /\ K[1] = j /\ N[1] = d
       /\ s2.mt = s.mt \o N /\ Range(N) = D
  <2>1. s.mt \in Seq(Closures(n))
    BY <1>2 DEF RtType
  <2>2. Len(K) = 1 /\ K[1] = j
    BY <1>3
  <2>3. N \in Seq(Closures(n)) /\ Len(N) = 1 /\ N[1] = d /\ Append(s.mt, d) = s.mt \o N
    BY <1>3, <1>10, <2>1, AppendOne
  <2>4. Range(N) = D
    BY <1>3, <1>10, <2>1, RangeJoin
  <2> QED BY <1>6, <2>2, <2>3, <2>4
<1>12. (\A p \in Ids : Lists(s2)[p] = Lists(s)[p]) /\ Gains(s, s2, D)
  <2>1. \A p \in Ids : s2.prom[p].rx = s.prom[p].rx
    BY <1>5, <1>6
  <2>2. QueueChanges(s, s2, n)
    BY <1>2, <2>1, QueueLists
  <2> QED BY <1>11, <2>2 DEF QueueChanges
<1>13. j \in JobType /\ j.k = "adopt" /\ j.d = q /\ j.st = st /\ j.val = v /\ ~Late(j)
  <2>1. 1 \in 1..Len(K)
    BY <1>11
  <2>2. j \in JobType
    BY <1>7, <1>11, <2>1, ElementOfSeq
  <2> QED BY <2>2 DEF StepsOn, Late
<1>14. PICK g, z : z = 0 /\ g = More(f, Len(s.mt), Len(e.jobs), z, Len(N))
  OBVIOUS
<1>15. Typed(e.jobs, s.mt, n) /\ Typed(K, N, n) /\ Len(N) \in Nat
  BY <1>2, <1>7, <1>11, PairTyped DEF Typed
<1>16. Grown(e.jobs, e2.jobs, s.mt, s2.mt, f, g, K, N, z)
  BY <1>7, <1>11, <1>14 DEF Grown
<1>17. Once(e.jobs) /\ Embeds(f, Len(s.mt), Len(e.jobs))
  BY <1>2 DEF QueuesSim, QueueSim
<1>18. Once(e2.jobs) /\ \A p : LateFor(e2.jobs, p) <=> LateFor(e.jobs, p)
  <2>1. \A k \in 1..Len(K) : K[k].k # "thenable" \/ ~Late(K[k])
    BY <1>11, <1>13
  <2> QED BY <1>7, <1>15, <1>17, <2>1, NoLate DEF Typed
<1>19. Aside(e, e2, s, s2, f, q)
  <2>1. \A p \in Ids : p # q => Out(s2)[p] = Out(s)[p] /\ Inners(e2)[p] = Inners(e)[p]
    BY <1>6, <1>9 DEF Out
  <2>2. \A k : InLists(s, k) => ~(k.fn \in Steps /\ k.q = q)
    <3>1. TAKE k
    <3>2. SUFFICES ASSUME InLists(s, k), k.fn \in Steps, k.q = q PROVE FALSE
      OBVIOUS
    <3>3. k \in Closures(n)
      BY <3>2, WaitingFacts
    <3>4. Key(k) = <<"settle", q>>
      BY <1>2, <3>2, <3>3, KeyFacts DEF Steps
    <3> QED BY <3>2, <3>4
  <2>3. \A k \in 1..Len(e.jobs) : Free(f, k) /\ Late(e.jobs[k]) => e.jobs[k].d # q
    <3>1. \A k \in 1..Len(e.jobs) : Free(f, k) => Extra(e.jobs, Inners(e), f, k)
      BY <1>2 DEF QueuesSim, QueueSim
    <3> QED BY <3>1 DEF Extra, Late, StepsOn
  <2> QED BY <1>2, <2>1, <2>2, <2>3 DEF Aside
<1>20. Out(s2)[q] = <<s.prom[q].st, v>>
  BY <1>2, <1>5, <1>6 DEF Out
<1>21. \A k \in 1..Len(N) : Fired(e2.jobs, Inners(e2), N[k], Out(s2), c, g, Len(e.jobs) + z + k)
  <2>1. e2.jobs[Len(e.jobs) + 1] = j
    <3>1. PICK J, J2, M, M2 : J = e.jobs /\ J2 = e2.jobs /\ M = s.mt /\ M2 = s2.mt
      OBVIOUS
    <3>2. Typed(J, M, n) /\ Typed(K, N, n) /\ Grown(J, J2, M, M2, f, g, K, N, z) /\ Embeds(f, Len(M), Len(J))
      BY <1>15, <1>16, <1>17, <3>1
    <3>3. \A k \in 1..Len(K) : J2[Len(J) + k] = K[k]
      BY <3>2, GrownFacts
    <3>4. 1 \in 1..Len(K)
      BY <1>11
    <3> QED BY <1>11, <3>1, <3>3, <3>4
  <2>2. FiredPlain(j, d, Out(s2), c)
    BY <1>3, <1>10, <1>13, <1>20 DEF FiredPlain
  <2>3. \A k \in 1..Len(N) : k = 1 /\ Len(e.jobs) + z + k = Len(e.jobs) + 1
    BY <1>11, <1>14, <1>15 DEF Typed
  <2> QED BY <1>11, <2>1, <2>2, <2>3 DEF Fired
<1>22. \A k \in 1..z : Extra(e2.jobs, Inners(e2), g, Len(e.jobs) + k)
  BY <1>14
<1>23. \A p \in Ids : ListStep(e, e2, s, s2, n, g, p)
  BY <1>9, <1>12 DEF ListStep
<1>24. QueuesSim(e2, s2, c, g)
  BY <1>2, <1>7, <1>15, <1>16, <1>18, <1>19, <1>21, <1>22, <1>23, QueuesGrow
<1>25. InnerSim(e2.jobs, Inners(e2), s2, 0, 0)
  <2>1. InLists(s2, d) /\ \A k : InLists(s, k) => InLists(s2, k)
    BY <1>3, <1>12 DEF Gains
  <2>2. Deferring(s2, q) /\ \A p : Deferring(s, p) => Deferring(s2, p)
    BY <1>10, <2>1 DEF Deferring
  <2>3. ASSUME NEW p \in Ids, s2.prom[p].st = Pending, ~Deferring(s2, p) PROVE Blank(Inners(e2)[p]) /\ ~LateFor(e2.jobs, p)
    <3>1. p # q /\ p # x /\ s.prom[p].st = Pending /\ ~Deferring(s, p)
      <4>1. p # 0
        BY <1>2, ListsFacts
      <4> QED BY <1>6, <2>2, <2>3, <4>1
    <3> QED BY <1>2, <1>9, <1>18, <3>1 DEF InnerSim
  <2>4. ASSUME NEW p \in Ids, Inners(e2)[p].st # 0, ~Inners(e2)[p].handled PROVE LateFor(e2.jobs, p)
    <3>1. p # q /\ p # 0
      BY <1>2, <1>3, <1>9, <2>4, ListsFacts
    <3> QED BY <1>2, <1>9, <1>18, <2>4, <3>1 DEF InnerSim
  <2> QED BY <2>3, <2>4 DEF InnerSim
<1>26. RestSim(e2, s2, n, c)
  <2>1. PromSim(e2.prom[q], s2.prom[q])
    <3>1. PromSim(e.prom[q], s.prom[q])
      BY <1>2, SimFacts
    <3> QED BY <1>2, <1>5, <1>6, <1>9, <3>1 DEF PromSim
  <2>2. PromStep(e, e2, s, s2, n, c, q)
    BY <1>5, <1>6, <1>9, <2>1 DEF PromStep
  <2>3. UnhSim(e2.unh, s2.unh, e2.prom)
    <3>1. UnhSim(e.unh, s.unh, e.prom) /\ e.unh \in Seq(Js!JsIds) /\ s.unh \in Seq(Ids)
      BY <1>2 DEF RestSim, JsType, RtType
    <3>2. \A p \in Js!JsIds : e.prom[p].st # 0 => e2.prom[p].st # 0
      BY <1>3, <1>7
    <3>4. \A p \in Ids : e.prom[p].st = 2 => e2.prom[p].st = 2
      BY <1>9
    <3>3. UnhSim(e.unh, s.unh, e2.prom)
      BY <3>1, <3>2, <3>4, UnhGrows
    <3> QED BY <1>6, <1>7, <3>3
  <2>4. \A k \in D : Allowed(s2, k)
    BY <1>3, <1>5, <1>6, <1>10 DEF Allowed
  <2>5. RestStep(e, e2, s, s2, n, c, q, D)
    BY <1>6, <1>7, <1>12, <2>2, <2>3, <2>4 DEF RestStep
  <2> QED BY <1>2, <2>5, RestGoes
<1> QED BY <1>7, <1>24, <1>25, <1>26 DEF Sim, SimBy

\* The queues of matched machines, the heads of both taken.
Heads(s, n, stk, e, f, c, j, d, e1, s1) ==
    /\ Good(s, n, stk) /\ c = Ctx(s) /\ SimBy(e, s, n, c, 0, 0, f) /\ e.jobs # <<>> /\ ~Free(f, 1)
    /\ j = Head(e.jobs) /\ d = Head(s.mt) /\ e1 = JsPop(e) /\ s1 = Taken(s)

\* What is known of the heads and of the rest.
LEMMA HeadPair ==
  ASSUME NEW s, NEW n, NEW stk, NEW e, NEW f, NEW c, NEW j, NEW d, NEW e1, NEW s1, Heads(s, n, stk, e, f, c, j, d, e1, s1)
  PROVE  /\ s.mt # <<>> /\ d \in Closures(n) /\ j \in JobType /\ j = e.jobs[1]
         /\ Fired(e.jobs, Inners(e), d, Out(s), c, f, 1)
         /\ \A x, y : (d.fn \in Steps => x = d.q) /\ (Late(j) => y = j.d) => Sim(e1, s1, n, c, x, y)
         /\ Owes(s1, n, c, Key(d), 1) /\ Fine(s1, n, c, 0) /\ RunOk(s1, c) /\ Fit(d, c)
         /\ s1 \in RtType(n) /\ n \in Nat /\ 1..n \subseteq Ids
         /\ s1.prom = s.prom /\ e1.prom = e.prom /\ Inners(e1) = Inners(e) /\ Out(s1) = Out(s) /\ e1 \in JsType
         /\ Same(s, s1) /\ e1.call = e.call /\ e1.comb = e.comb /\ RestSim(e, s, n, c)
         /\ Src(d, c) # 0 => Src(d, c) \in Ids /\ s.prom[Src(d, c)].st \in Done
         /\ Key(d)[1] = "settle" /\ d.fn # "comb" =>
               /\ d.q \in 1..n /\ s.prom[d.q].st = Pending /\ d.q > Deferred /\ Lone(s1, c, d.q)
               /\ \A k : InLists(s1, k) => Key(k) # <<"settle", d.q>>
<1>1. /\ Good(s, n, stk) /\ c = Ctx(s) /\ SimBy(e, s, n, c, 0, 0, f) /\ e.jobs # <<>> /\ ~Free(f, 1)
      /\ j = Head(e.jobs) /\ d = Head(s.mt) /\ e1 = JsPop(e) /\ s1 = Taken(s)
  BY DEF Heads
<1>2. /\ Fine(s, n, c, 0) /\ RunOk(s, c) /\ s \in RtType(n) /\ n \in Nat /\ 1..n \subseteq Ids
  BY <1>1, GoodFacts
<1>3. e \in JsType /\ RestSim(e, s, n, c) /\ e.jobs \in Seq(JobType)
  BY <1>1 DEF SimBy, JsType
<1>4. /\ JsMovesTo(e, e1, Tail(e.jobs)) /\ e1.call = e.call
      /\ MovesTo(s, s1, Tail(s.mt))
  BY <1>1, <1>2, <1>3, JsMoveForms, MoveForms
<1>5. CallSim(e1.call, Out(s), c)
  BY <1>3, <1>4 DEF RestSim
<1>6. e.jobs[1] = j /\ j \in JobType
  BY <1>1, <1>3, TailFacts
<1>7. ASSUME NEW x, NEW y, d.fn \in Steps => x = d.q, Late(j) => y = j.d
      PROVE  /\ Sim(e1, s1, n, c, x, y) /\ Matched(e, s, c, f)
             /\ \A k : InLists(s, k) <=> InLists(s1, k) \/ k = d
  <2>1. (Head(s.mt).fn \in Steps => x = Head(s.mt).q) /\ (Late(e.jobs[1]) => y = e.jobs[1].d)
    BY <1>1, <1>6, <1>7
  <2>2. /\ Sim(e1, s1, n, c, x, y) /\ Matched(e, s, c, f)
        /\ \A k : InLists(s, k) <=> InLists(s1, k) \/ k = Head(s.mt)
    BY <1>1, <1>2, <1>4, <1>5, <2>1, PopMatched
  <2> QED BY <1>1, <2>2
<1>8. Matched(e, s, c, f) /\ \A k : InLists(s, k) <=> InLists(s1, k) \/ k = d
  <2>1. PICK x, y : x = d.q /\ y = j.d
    OBVIOUS
  <2> QED BY <1>7, <2>1
<1>9. s.mt # <<>> /\ Fired(e.jobs, Inners(e), d, Out(s), c, f, 1)
  BY <1>1, <1>8 DEF Matched
<1>10. /\ Owes(s1, n, c, Key(d), 1) /\ Fine(s1, n, c, 0) /\ Same(s, s1) /\ Ctx(s1) = c
       /\ s1 \in RtType(n) /\ s1.prom = s.prom
       /\ d \in Closures(n) /\ Fit(d, c)
       /\ Src(d, c) # 0 => s.prom[Src(d, c)].st # Pending
  BY <1>1, <1>9, HeadFacts
<1>11. RunOk(s1, c)
  BY <1>10 DEF Owes
<1>12. e1.prom = e.prom /\ Inners(e1) = Inners(e) /\ Out(s1) = Out(s) /\ e1 \in JsType /\ e1.comb = e.comb
  BY <1>4, <1>10 DEF JsMovesTo, Inners, Out
<1>13. Src(d, c) # 0 => Src(d, c) \in Ids /\ s.prom[Src(d, c)].st \in Done
  BY <1>2, <1>10, FineFacts, PromWords
<1>14. ASSUME Key(d)[1] = "settle", d.fn # "comb"
       PROVE  /\ d.q \in 1..n /\ s.prom[d.q].st = Pending /\ d.q > Deferred /\ Lone(s1, c, d.q)
              /\ \A k : InLists(s1, k) => Key(k) # <<"settle", d.q>>
  <2>1. s.prom[d.q].st = Pending /\ d.q > Deferred
    BY <1>3, <1>8, <1>14 DEF RestSim, Owners
  <2>2. d.q \in 1..n /\ Key(d) = <<"settle", d.q>>
    BY <1>2, <1>10, <1>14, KeyFacts DEF NoKey
  <2>3. c.comb[d.q].kind = "none"
    BY <1>10, <1>14 DEF Fit
  <2>4. d.q \in Ids /\ s1.prom[d.q].st = Pending
    BY <1>2, <1>10, <2>1, <2>2
  <2>5. PICK k, m, q : k = Key(d) /\ m = 1 /\ q = d.q
    OBVIOUS
  <2>6. Owes(s1, n, c, k, m) /\ q \in Ids
    BY <1>10, <2>4, <2>5
  <2>7. Lone(s1, c, q) /\ \A i : InLists(s1, i) => Key(i) # <<"settle", q>>
    BY <2>1, <2>2, <2>3, <2>4, <2>5, <2>6, LoneFacts
  <2> QED BY <2>1, <2>2, <2>5, <2>7
<1> QED BY <1>2, <1>3, <1>4, <1>6, <1>7, <1>9, <1>10, <1>11, <1>12, <1>13, <1>14

\* A reaction as it is made.
LEMMA ReactionFacts ==
  ASSUME NEW k \in JobKinds, NEW d \in Nat, NEW on \in SUBSET Done, NEW keep \in Nat \X Nat,
         NEW r, r = Js!Reaction(k, d, on, keep)
  PROVE  /\ r \in JobType /\ r.k = k /\ r.d = d /\ r.on = on /\ r.keep = keep /\ r.st = 0 /\ r.val = 0
         /\ Js!Plain \in Nat \X Nat /\ {} \in SUBSET Done
BY DEF Js!Reaction, Js!Plain, JobType

\* Both machines do the same to a pending promise q that nothing else settles.
LEMMA SettleBoth ==
  ASSUME NEW e, NEW s, NEW s2, NEW n, NEW c, NEW x, NEW y, NEW q \in 1..n, NEW st \in Done, NEW v \in Vals,
         Sim(e, s, n, c, x, y), Fine(s, n, c, 0), RunOk(s, c), Lone(s, c, q), s.prom[q].st = Pending, x \in {0, q},
         \/ s2 = DrainReactions(Store(s, q, st, v), q)
         \/ st = Rejected /\ s2 = DrainReactions(NoteRejected(Store(s, q, st, v), q), q)
         \/ s2 = Settle(StoreValue(s, q, v), q, st)
         \/ v = s.prom[q].val /\ s2 = Settle(s, q, st)
         \/ st = Rejected /\ s2 = RejectWith(s, q, v)
         \/ st = Fulfilled /\ s2 = ResolveThunk(s, q, v)
  PROVE  Sim(Js!JsSettle(e, q, st, v), s2, n, c, 0, y) /\ Same(s, s2)
<1>1. /\ e \in JsType /\ s \in RtType(n) /\ n \in Nat /\ 1..n \subseteq Ids /\ q \in Ids /\ q \in Js!JsIds
      /\ e.prom[q].st = s.prom[q].st /\ Settleable(s, q)
  BY SimFacts
<1>2. v \in Nat /\ e.prom[q].st = 0
  BY <1>1, InnerFacts DEF Vals, Pending
<1>3. JsSettlesTo(e, Js!JsSettle(e, q, st, v), q, st, v)
  BY <1>1, <1>2, JsSettleForm
<1>4. SettlesTo(s, s2, q, st, v)
  BY <1>1, SettleForms
<1>5. Same(s, s2)
  BY <1>4 DEF SettlesTo, Puts
<1> QED BY <1>3, <1>4, <1>5, BothSettle

\* A reaction that calls no code of the program.
LEMMA Follows ==
  ASSUME NEW s, NEW n, NEW stk, NEW e, NEW f, NEW c, NEW j, NEW d, NEW e1, NEW s1, Heads(s, n, stk, e, f, c, j, d, e1, s1)
  PROVE  /\ d.fn = "then" /\ s.prom[d.p].st \notin d.on =>
               Sim(Js!JsRun(e1, j), PassThrough(s1, d), n, c, 0, 0) /\ Js!JsSilentJob(j) /\ Same(s1, PassThrough(s1, d))
         /\ d.fn = "adopt_settle" => Sim(Js!JsRun(e1, j), AdoptSettle(s1, d), n, c, 0, 0) /\ Js!JsSilentJob(j) /\ Same(s1, AdoptSettle(s1, d))
         /\ d.fn = "adopt_job" => Sim(Js!JsRun(e1, j), AdoptJob(s1, d), n, c, 0, 0) /\ Js!JsSilentJob(j) /\ Same(s1, AdoptJob(s1, d))
         /\ d.fn = "defer_step" /\ d.hops = 1 => Sim(Js!JsRun(e1, j), DeferStep(s1, d), n, c, 0, 0) /\ Js!JsSilentJob(j) /\ Same(s1, DeferStep(s1, d))
<1>1. /\ d \in Closures(n) /\ j \in JobType /\ Fired(e.jobs, Inners(e), d, Out(s), c, f, 1) /\ j = e.jobs[1]
      /\ \A x, y : (d.fn \in Steps => x = d.q) /\ (Late(j) => y = j.d) => Sim(e1, s1, n, c, x, y)
      /\ Fine(s1, n, c, 0) /\ RunOk(s1, c) /\ s1 \in RtType(n) /\ n \in Nat /\ 1..n \subseteq Ids
      /\ s1.prom = s.prom /\ e1.prom = e.prom /\ e1 \in JsType
      /\ Src(d, c) # 0 => Src(d, c) \in Ids /\ s.prom[Src(d, c)].st \in Done
      /\ Key(d)[1] = "settle" /\ d.fn # "comb" =>
            d.q \in 1..n /\ s.prom[d.q].st = Pending /\ d.q > Deferred /\ Lone(s1, c, d.q)
  BY HeadPair
<1>2. d.fn \in {"then", "adopt_settle", "adopt_job"} \/ (d.fn = "defer_step" /\ d.hops = 1) => FiredPlain(j, d, Out(s), c)
  BY <1>1 DEF Fired, FiredLate, FiredThunk
<1>3. d.fn \in {"then", "adopt_settle", "adopt_job", "defer_step"} =>
        d.q \in 1..n /\ s1.prom[d.q].st = Pending /\ d.q > Deferred /\ Lone(s1, c, d.q) /\ d.q \in Ids
  BY <1>1, KeyFacts
<1>4. \A p \in Ids : Out(s)[p][1] = s1.prom[p].st /\ Out(s)[p][2] = s1.prom[p].val /\ s1.prom[p].val \in Vals
  BY <1>1, PromWords DEF Out
<1>5. PICK z : z = 0
  OBVIOUS
<1>6. ~Late(j) /\ d.fn \notin Steps => Sim(e1, s1, n, c, z, z)
  BY <1>1
<1>7. ASSUME d.fn = "then", s.prom[d.p].st \notin d.on
      PROVE  Sim(Js!JsRun(e1, j), PassThrough(s1, d), n, c, 0, 0) /\ Js!JsSilentJob(j) /\ Same(s1, PassThrough(s1, d))
  <2>1. Src(d, c) = d.p /\ d.p \in 1..n /\ d.p # 0
    BY <1>1, <1>7, ClosureFacts DEF Src
  <2>2. d.p \in Ids /\ s.prom[d.p].st \in Done
    BY <1>1, <2>1
  <2>3. j.k = "then" /\ j.d = d.q /\ j.on = d.on /\ j.st = s1.prom[d.p].st /\ j.val = s1.prom[d.p].val
    BY <1>2, <1>4, <1>7, <2>1, <2>2 DEF FiredPlain, Pair, Gets
  <2>4. Sim(e1, s1, n, c, z, z)
    BY <1>6, <1>7, <2>3 DEF Late, Steps
  <2>5. Js!JsRun(e1, j) = Js!JsSettle(e1, d.q, s1.prom[d.p].st, s1.prom[d.p].val)
    BY <2>3 DEF Js!JsRun
  <2>6. PassThrough(s1, d) = DrainReactions(Store(s1, d.q, s1.prom[d.p].st, s1.prom[d.p].val), d.q)
    BY DEF PassThrough
  <2>7. PICK q, st, v : q = d.q /\ st = s1.prom[d.p].st /\ v = s1.prom[d.p].val
    OBVIOUS
  <2>8. q \in 1..n /\ st \in Done /\ v \in Vals /\ Lone(s1, c, q) /\ s1.prom[q].st = Pending /\ z \in {0, q}
    BY <1>1, <1>3, <1>4, <1>5, <1>7, <2>2, <2>7
  <2>9. Sim(Js!JsSettle(e1, q, st, v), PassThrough(s1, d), n, c, 0, z) /\ Same(s1, PassThrough(s1, d))
    <3>1. PassThrough(s1, d) = DrainReactions(Store(s1, q, st, v), q)
      BY <2>6, <2>7
    <3> QED BY <1>1, <2>4, <2>8, <3>1, SettleBoth
  <2> QED BY <1>1, <1>5, <1>7, <2>3, <2>5, <2>7, <2>9 DEF Js!JsSilentJob
<1>8. ASSUME d.fn = "adopt_settle"
      PROVE  Sim(Js!JsRun(e1, j), AdoptSettle(s1, d), n, c, 0, 0) /\ Js!JsSilentJob(j) /\ Same(s1, AdoptSettle(s1, d))
  <2>1. Src(d, c) = d.h /\ d.h \in 1..n /\ d.h # 0
    BY <1>1, <1>8, ClosureFacts DEF Src
  <2>2. d.h \in Ids /\ s.prom[d.h].st \in Done
    BY <1>1, <2>1
  <2>3. j.k = "adopt" /\ j.d = d.q /\ j.st = s1.prom[d.h].st /\ j.val = s1.prom[d.h].val
    BY <1>2, <1>4, <1>8, <2>1, <2>2 DEF FiredPlain, Pair, Gets
  <2>4. Sim(e1, s1, n, c, z, z)
    BY <1>6, <1>8, <2>3 DEF Late, Steps
  <2>5. Js!JsRun(e1, j) = Js!JsSettle(e1, d.q, s1.prom[d.h].st, s1.prom[d.h].val)
    BY <2>3 DEF Js!JsRun
  <2>6. AdoptSettle(s1, d) = Settle(StoreValue(s1, d.q, s1.prom[d.h].val), d.q, s1.prom[d.h].st)
    BY DEF AdoptSettle
  <2>7. PICK q, st, v : q = d.q /\ st = s1.prom[d.h].st /\ v = s1.prom[d.h].val
    OBVIOUS
  <2>8. q \in 1..n /\ st \in Done /\ v \in Vals /\ Lone(s1, c, q) /\ s1.prom[q].st = Pending /\ z \in {0, q}
    BY <1>1, <1>3, <1>4, <1>5, <1>8, <2>2, <2>7
  <2>9. Sim(Js!JsSettle(e1, q, st, v), AdoptSettle(s1, d), n, c, 0, z) /\ Same(s1, AdoptSettle(s1, d))
    <3>1. AdoptSettle(s1, d) = Settle(StoreValue(s1, q, v), q, st)
      BY <2>6, <2>7
    <3> QED BY <1>1, <2>4, <2>8, <3>1, SettleBoth
  <2> QED BY <1>5, <1>8, <2>3, <2>5, <2>7, <2>9 DEF Js!JsSilentJob
<1>9. ASSUME d.fn = "defer_step", d.hops = 1
      PROVE  Sim(Js!JsRun(e1, j), DeferStep(s1, d), n, c, 0, 0) /\ Js!JsSilentJob(j) /\ Same(s1, DeferStep(s1, d))
  <2>1. d.st \in Done
    BY <1>1, <1>9, ClosureFacts
  <2>2. PICK q, st, v : q = d.q /\ st = d.st /\ v = s1.prom[d.q].val
    OBVIOUS
  <2>3. q \in 1..n /\ st \in Done /\ v \in Vals /\ Lone(s1, c, q) /\ s1.prom[q].st = Pending
    BY <1>3, <1>4, <1>9, <2>1, <2>2
  <2>4. j.k = "adopt" /\ j.d = q /\ j.st = st /\ j.val = v
    BY <1>2, <1>3, <1>4, <1>9, <2>2 DEF FiredPlain, Src
  <2>5. Sim(e1, s1, n, c, q, z)
    BY <1>1, <1>9, <2>2, <2>4 DEF Late, Steps
  <2>6. Js!JsRun(e1, j) = Js!JsSettle(e1, q, st, v)
    BY <2>4 DEF Js!JsRun
  <2>7. DeferStep(s1, d) = Settle(s1, q, st)
    BY <1>9, <2>2 DEF DeferStep
  <2>8. Sim(Js!JsSettle(e1, q, st, v), DeferStep(s1, d), n, c, 0, z) /\ Same(s1, DeferStep(s1, d))
    BY <1>1, <2>2, <2>3, <2>5, <2>7, SettleBoth
  <2> QED BY <1>5, <1>9, <2>4, <2>6, <2>8 DEF Js!JsSilentJob
<1>10. ASSUME d.fn = "adopt_job"
       PROVE  Sim(Js!JsRun(e1, j), AdoptJob(s1, d), n, c, 0, 0) /\ Js!JsSilentJob(j) /\ Same(s1, AdoptJob(s1, d))
  <2>1. Src(d, c) = 0 /\ d.h \in 1..n /\ d.q \in 1..n /\ d.q \in Nat
    BY <1>1, <1>10, ClosureFacts DEF Src
  <2>2. j.k = "thenable" /\ j.d = d.q /\ j.val = d.h
    BY <1>2, <1>10, <2>1 DEF FiredPlain
  <2>3. ~Late(j)
    <3>1. j.val <= MaxProms /\ j.val \in Nat /\ j.val \in Ids
      BY <1>1, <2>1, <2>2, InnerFacts
    <3>2. j.d \in Ids
      BY <1>1, <2>1, <2>2
    <3> QED BY <3>1, <3>2, InnerFacts DEF Late
  <2>4. Sim(e1, s1, n, c, z, z)
    BY <1>6, <1>10, <2>3 DEF Steps
  <2>5. PICK r, p, k, ek, none : r = Js!Reaction("adopt", d.q, {}, Js!Plain) /\ p = d.h /\ k = [fn |-> "adopt_settle", q |-> d.q, h |-> d.h]
                      /\ ek = "adopt" /\ none = {}
    OBVIOUS
  <2>6. r \in JobType /\ r.k = "adopt" /\ r.d = d.q
    <3>1. ek \in JobKinds /\ none \in SUBSET Done /\ r = Js!Reaction(ek, d.q, none, Js!Plain) /\ Js!Plain \in Nat \X Nat
      BY <2>5 DEF JobKinds, Js!Plain
    <3> QED BY <2>1, <2>5, <3>1, ReactionFacts
  <2>7. k \in Closures(n) /\ k.fn = "adopt_settle" /\ k.q = d.q /\ k.h = p
    BY <1>1, <2>1, <2>5, MakeClosures
  <2>8. Js!JsRun(e1, j) = Js!JsAttach(e1, p, r)
    BY <2>2, <2>5 DEF Js!JsRun
  <2>9. AdoptJob(s1, d) = Attach(s1, p, k)
    BY <2>5 DEF AdoptJob
  <2>10. p \in Ids /\ p \in Js!JsIds
    BY <1>1, <2>1, <2>5, InnerFacts
  <2>11. JsAttachesTo(e1, Js!JsAttach(e1, p, r), p, r) /\ AttachesTo(s1, Attach(s1, p, k), p, k)
    BY <1>1, <2>6, <2>10, JsAttachForm, AttachForms
  <2>12. Pair(r, k) /\ k.fn \notin Steps /\ Src(k, c) = p /\ Allowed(s1, k)
    BY <1>3, <1>10, <2>6, <2>7 DEF Pair, Steps, Src, Allowed
  <2>14. Same(s1, Attach(s1, p, k))
    BY <2>11 DEF AttachesTo, Puts
  <2>13. Sim(Js!JsAttach(e1, p, r), Attach(s1, p, k), n, c, z, z)
    BY <1>1, <2>4, <2>6, <2>7, <2>10, <2>11, <2>12, BothAttach
  <2> QED BY <1>5, <2>2, <2>8, <2>9, <2>13, <2>14 DEF Js!JsSilentJob
<1> QED BY <1>7, <1>8, <1>9, <1>10

\* The words of a triggered reaction.
LEMMA TriggeredIs ==
  ASSUME NEW j \in JobType, NEW st \in Nat, NEW v \in Nat, NEW t, t = Triggered(j, st, v)
  PROVE  t \in JobType /\ t.k = j.k /\ t.d = j.d /\ t.keep = j.keep /\ t.st = st /\ t.val = v
BY TriggeredFacts

\* finally's inner promise has settled, or does now.
InnerTurns(e, e2, q, r, E, st, v) ==
    \/ E.st # 0 /\ E.st = st /\ E.val = v /\ e2 = Js!JsAttach(e, Inner(q), r)
    \/ Hung(E, q) /\ e2 = Js!JsSettle(e, Inner(q), st, v)
\* Its reaction is a job.
InnerTurned(e, e2, q, E, st, v, t) ==
    /\ \E X : JsPuts(e, e2, Inner(q), X, <<t>>, e.unh) /\ X.st # 0 /\ X.handled
    /\ t \in JobType /\ t.k = "adopt" /\ t.d = q /\ t.st = st /\ t.val = v /\ ~Blank(E)

\* Either way the reaction on the inner promise becomes a job with its outcome.
LEMMA InnerReacts ==
  ASSUME NEW e \in JsType, NEW q \in Ids, NEW st \in Done, NEW v \in Vals,
         NEW E, E = Inners(e)[q], NEW r, r = Js!Reaction("adopt", q, {}, Js!Plain), NEW e2, InnerTurns(e, e2, q, r, E, st, v)
  PROVE  \E t : InnerTurned(e, e2, q, E, st, v, t)
<1>1. PICK i : i = Inner(q) /\ i \in Js!JsIds
  BY InnerFacts
<1>2. E = e.prom[i] /\ q \in Nat /\ v \in Nat /\ st \in Nat /\ st # 0
  BY <1>1, InnerFacts DEF Inners, Vals, Done, Fulfilled, Rejected
<1>3. /\ E \in JsPromType /\ E.st \in {0, 1, 2} /\ E.val \in Nat /\ E.rx \in Seq(JobType) /\ E.handled \in BOOLEAN
  BY <1>1, <1>2, JsWords
<1>4. CASE E.st # 0 /\ E.st = st /\ E.val = v /\ e2 = Js!JsAttach(e, Inner(q), r)
  <2>1. r \in JobType /\ r.k = "adopt" /\ r.d = q
    <3>1. PICK ek, none : ek = "adopt" /\ none = {}
      OBVIOUS
    <3>2. ek \in JobKinds /\ none \in SUBSET Done /\ r = Js!Reaction(ek, q, none, Js!Plain) /\ Js!Plain \in Nat \X Nat
      BY <3>1 DEF JobKinds, Js!Plain
    <3> QED BY <1>2, <3>1, <3>2, ReactionFacts
  <2>2. JsAttachesTo(e, e2, i, r)
    BY <1>1, <1>4, <2>1, JsAttachForm
  <2>3. PICK t, yes, X : t = Triggered(r, st, v) /\ yes = TRUE /\ X = JsProm(st, v, E.rx, yes)
    OBVIOUS
  <2>4. JsPuts(e, e2, i, X, <<t>>, e.unh)
    BY <1>2, <1>4, <2>2, <2>3 DEF JsAttachesTo
  <2>5. t \in JobType /\ t.k = "adopt" /\ t.d = q /\ t.st = st /\ t.val = v
    <3>1. PICK a, b : a = st /\ b = v /\ a \in Nat /\ b \in Nat
      BY <1>2
    <3>2. t = Triggered(r, a, b) /\ r \in JobType
      BY <2>1, <2>3, <3>1
    <3>3. t \in JobType /\ t.k = r.k /\ t.d = r.d /\ t.st = a /\ t.val = b
      BY <3>1, <3>2, TriggeredIs
    <3> QED BY <2>1, <3>1, <3>3
  <2>6. X.st # 0 /\ X.handled
    BY <1>2, <2>3 DEF JsProm
  <2>7. ~Blank(E)
    BY <1>4 DEF Blank
  <2> QED BY <1>1, <2>4, <2>5, <2>6, <2>7 DEF InnerTurned
<1>5. CASE Hung(E, q) /\ e2 = Js!JsSettle(e, Inner(q), st, v)
  <2>1. E.st = 0 /\ E.handled /\ Len(E.rx) = 1 /\ E.rx[1].k = "adopt" /\ E.rx[1].d = q
    BY <1>5 DEF Hung
  <2>2. JsSettlesTo(e, e2, i, st, v)
    BY <1>1, <1>2, <1>5, <2>1, JsSettleForm
  <2>3. PICK t, X : t = Triggered(E.rx[1], st, v) /\ X = JsProm(st, v, <<>>, E.handled)
    OBVIOUS
  <2>4. Trig(E.rx, st, v) = <<t>>
    <3>1. PICK l : l = E.rx
      OBVIOUS
    <3>2. Len(l) = 1 /\ t = Triggered(l[1], st, v)
      BY <2>1, <2>3, <3>1
    <3>3. Trig(l, st, v) = <<t>>
      BY <3>2 DEF Trig
    <3> QED BY <3>1, <3>3
  <2>5. JsPuts(e, e2, i, X, <<t>>, e.unh)
    BY <1>2, <2>1, <2>2, <2>3, <2>4 DEF JsSettlesTo
  <2>6. E.rx[1] \in JobType
    BY <1>3, <2>1, ElementOfSeq
  <2>7. t \in JobType /\ t.k = "adopt" /\ t.d = q /\ t.st = st /\ t.val = v
    <3>1. PICK l \in JobType : l.k = "adopt" /\ l.d = q /\ t = Triggered(l, st, v)
      BY <2>1, <2>3, <2>6
    <3>2. st \in Nat /\ v \in Nat
      BY <1>2
    <3>3. t \in JobType /\ t.k = l.k /\ t.d = l.d /\ t.st = st /\ t.val = v
      BY <3>1, <3>2, TriggeredIs
    <3> QED BY <3>1, <3>3
  <2>8. X.st # 0 /\ X.handled
    BY <1>2, <2>1, <2>3 DEF JsProm
  <2>9. ~Blank(E)
    BY <2>1 DEF Blank
  <2> QED BY <1>1, <2>5, <2>7, <2>8, <2>9 DEF InnerTurned
<1> QED BY <1>4, <1>5 DEF InnerTurns

\* A closure of finally's: the runtime takes it one job further, and
\* ECMAScript leaves the inner promise for the promise itself.
LEMMA StepsMove ==
  ASSUME NEW s, NEW n, NEW stk, NEW e, NEW f, NEW c, NEW j, NEW d, NEW e1, NEW s1, Heads(s, n, stk, e, f, c, j, d, e1, s1),
         NEW s2, \/ d.fn = "defer_step" /\ d.hops = 2 /\ s2 = DeferStep(s1, d)
                 \/ d.fn = "finally_step" /\ s2 = FinallyStep(s1, d)
  PROVE  Sim(Js!JsRun(e1, j), s2, n, c, 0, 0) /\ Js!JsSilentJob(j) /\ Same(s1, s2)
<1>1. /\ d \in Closures(n) /\ j \in JobType /\ Fired(e.jobs, Inners(e), d, Out(s), c, f, 1) /\ j = e.jobs[1]
      /\ \A x, y : (d.fn \in Steps => x = d.q) /\ (Late(j) => y = j.d) => Sim(e1, s1, n, c, x, y)
      /\ Fine(s1, n, c, 0) /\ RunOk(s1, c) /\ s1 \in RtType(n) /\ n \in Nat /\ 1..n \subseteq Ids
      /\ s1.prom = s.prom /\ e1.prom = e.prom /\ e1 \in JsType /\ Inners(e1) = Inners(e)
      /\ Src(d, c) # 0 => Src(d, c) \in Ids /\ s.prom[Src(d, c)].st \in Done
      /\ Key(d)[1] = "settle" /\ d.fn # "comb" =>
            /\ d.q \in 1..n /\ s.prom[d.q].st = Pending /\ d.q > Deferred
            /\ \A k : InLists(s1, k) => Key(k) # <<"settle", d.q>>
  BY HeadPair
<1>2. PICK q : q = d.q
  OBVIOUS
<1>3. /\ q \in 1..n /\ q \in Ids /\ s1.prom[q].st = Pending /\ q > Deferred
      /\ \A k : InLists(s1, k) => Key(k) # <<"settle", q>>
      /\ d.fn \in Steps
  BY <1>1, <1>2, KeyFacts DEF Steps
<1>4. \A p \in Ids : Out(s)[p] = <<s1.prom[p].st, s1.prom[p].val>> /\ s1.prom[p].val \in Vals
  BY <1>1, PromWords DEF Out
<1>5. d.fn = "finally_step" => /\ d.r \in Ids /\ s1.prom[d.r].st \in Done /\ Src(d, c) = d.r
                               /\ d.st \in Done /\ d.val \in Vals
  <2>1. SUFFICES ASSUME d.fn = "finally_step" PROVE d.r \in Ids /\ s1.prom[d.r].st \in Done /\ Src(d, c) = d.r
                               /\ d.st \in Done /\ d.val \in Vals
    OBVIOUS
  <2>2. d.r \in 1..n /\ d.st \in Done /\ d.val \in Vals /\ Src(d, c) = d.r /\ d.r # 0
    BY <1>1, <2>1, ClosureFacts DEF Src
  <2> QED BY <1>1, <2>2
<1>6. PICK st, v : st = Owed(d, Out(s))[1] /\ v = Owed(d, Out(s))[2]
  OBVIOUS
<1>7. PICK k : k = [fn |-> "defer_step", q |-> q, st |-> st, hops |-> 1]
  OBVIOUS
<1>8. /\ Owed(d, Out(s)) = <<st, v>> /\ st \in Done /\ v \in Vals
      /\ \E r : StoresTo(s1, r, q, v) /\ MovesTo(r, s2, Append(r.mt, k))
  <2>1. CASE d.fn = "defer_step" /\ d.hops = 2 /\ s2 = DeferStep(s1, d)
    <3>1. st = d.st /\ v = s1.prom[q].val /\ Owed(d, Out(s)) = <<st, v>>
      BY <1>2, <1>3, <1>4, <1>6, <2>1 DEF Owed
    <3>2. st \in Done /\ v \in Vals
      BY <1>1, <1>3, <1>4, <2>1, <3>1, ClosureFacts
    <3>3. s2 = Enqueue(s1, k)
      <4>1. d = [fn |-> "defer_step", q |-> d.q, st |-> d.st, hops |-> d.hops]
        BY <1>1, <2>1 DEF Closures
      <4>2. [d EXCEPT !.hops = @ - 1] = k
        BY <1>2, <1>7, <2>1, <3>1, <4>1
      <4> QED BY <2>1, <4>2 DEF DeferStep
    <3>4. MovesTo(s1, s2, Append(s1.mt, k))
      BY <1>1, <3>3, MoveForms
    <3>5. StoresTo(s1, s1, q, v)
      <4>1. PICK X : X = s1.prom[q]
        OBVIOUS
      <4>2. Puts(s1, s1, q, X, s1.mt, s1.unh)
        BY <4>1 DEF Puts, Same
      <4> QED BY <3>1, <4>1, <4>2 DEF StoresTo
    <3> QED BY <3>1, <3>2, <3>4, <3>5
  <2>2. CASE d.fn = "finally_step" /\ s2 = FinallyStep(s1, d)
    <3>1. Owed(d, Out(s)) = <<st, v>> /\ st \in Done /\ v \in Vals
      BY <1>4, <1>5, <1>6, <2>2 DEF Owed, Done
    <3>2. s2 = Enqueue(StoreValue(s1, q, v), k)
      <4>1. CASE s1.prom[d.r].st = Rejected
        <5>1. st = Rejected /\ v = s1.prom[d.r].val
          BY <1>4, <1>5, <1>6, <2>2, <4>1 DEF Owed
        <5> QED BY <1>2, <1>7, <2>2, <4>1, <5>1 DEF FinallyStep, DeferSettle
      <4>2. CASE s1.prom[d.r].st # Rejected
        <5>1. st = d.st /\ v = d.val
          BY <1>4, <1>5, <1>6, <2>2, <4>2 DEF Owed
        <5> QED BY <1>2, <1>7, <2>2, <4>2, <5>1 DEF FinallyStep, DeferSettle
      <4> QED BY <4>1, <4>2
    <3>3. PICK r : r = StoreValue(s1, q, v)
      OBVIOUS
    <3>4. StoresTo(s1, r, q, v) /\ r \in RtType(n)
      BY <1>1, <1>3, <3>1, <3>3, AttachForms, QuietFacts DEF Quiet
    <3>5. MovesTo(r, s2, Append(r.mt, k))
      BY <3>2, <3>3, <3>4, MoveForms
    <3> QED BY <3>1, <3>4, <3>5
  <2> QED BY <2>1, <2>2
<1>9. PICK i, E, r, e2 : /\ i = Inner(q) /\ E = Inners(e1)[q] /\ r = Js!Reaction("adopt", q, {}, Js!Plain)
                         /\ e2 = Js!JsRun(e1, j)
  OBVIOUS
<1>10. FiredLate(e.jobs, Inners(e), d, Out(s), f, 1) \/ FiredThunk(e.jobs, Inners(e), d, Out(s), f, 1)
  BY <1>1, <1>3 DEF Fired, FiredPlain, Steps, Src
<1>11. /\ \/ E.st # 0 /\ E.st = st /\ E.val = v /\ e2 = Js!JsAttach(e1, Inner(q), r)
          \/ Hung(E, q) /\ e2 = Js!JsSettle(e1, Inner(q), st, v)
       /\ Js!JsSilentJob(j) /\ (Late(j) => j.d = q)
  <2>1. CASE FiredLate(e.jobs, Inners(e), d, Out(s), f, 1)
    <3>1. Late(j) /\ j.d = q /\ E.st # 0 /\ <<E.st, E.val>> = <<st, v>>
      BY <1>1, <1>2, <1>8, <1>9, <2>1 DEF FiredLate
    <3>2. e2 = Js!JsAttach(e1, Inner(q), r)
      BY <1>9, <3>1 DEF Late, Js!JsRun
    <3> QED BY <3>1, <3>2 DEF Js!JsSilentJob, Late
  <2>2. CASE FiredThunk(e.jobs, Inners(e), d, Out(s), f, 1)
    <3>1. d.fn = "finally_step" /\ Pair(j, d) /\ Gets(j, Out(s)[d.r]) /\ Hook(e.jobs, Inners(e), f, q, 1)
      BY <1>1, <1>2, <2>2 DEF FiredThunk
    <3>2. Hung(E, q)
      BY <1>1, <1>9, <3>1 DEF Hook
    <3>3. /\ j.k = "thunk" /\ j.d = i /\ j.keep = <<d.st, d.val>>
          /\ j.st = s1.prom[d.r].st /\ j.val = s1.prom[d.r].val
      BY <1>2, <1>4, <1>5, <1>9, <3>1 DEF Pair, Gets
    <3>4. e2 = Js!JsSettle(e1, i, st, v)
      <4>1. CASE s1.prom[d.r].st = Rejected
        <5>1. st = 2 /\ v = j.val
          BY <1>4, <1>5, <1>6, <3>1, <3>3, <4>1 DEF Owed, Rejected
        <5>2. j.st = 2
          BY <3>3, <4>1 DEF Rejected
        <5> QED BY <1>9, <3>3, <5>1, <5>2 DEF Js!JsRun
      <4>2. CASE s1.prom[d.r].st # Rejected
        <5>1. st = d.st /\ v = d.val
          BY <1>4, <1>5, <1>6, <3>1, <4>2 DEF Owed
        <5>2. j.st = 1 /\ j.keep[1] = st /\ j.keep[2] = v
          BY <1>5, <3>1, <3>3, <4>2, <5>1 DEF Done, Fulfilled
        <5> QED BY <1>9, <3>3, <5>2 DEF Js!JsRun
      <4> QED BY <4>1, <4>2
    <3> QED BY <1>9, <3>2, <3>3, <3>4 DEF Js!JsSilentJob, Late
  <2> QED BY <1>10, <2>1, <2>2
<1>12. PICK t : InnerTurned(e1, e2, q, E, st, v, t)
  <2>1. /\ e1 \in JsType /\ q \in Ids /\ st \in Done /\ v \in Vals /\ E = Inners(e1)[q]
        /\ r = Js!Reaction("adopt", q, {}, Js!Plain)
    BY <1>1, <1>3, <1>8, <1>9
  <2>2. InnerTurns(e1, e2, q, r, E, st, v)
    BY <1>11 DEF InnerTurns
  <2> QED BY <2>1, <2>2, InnerReacts
<1>13. StepsOn(e1, e2, s1, s2, q, t, st, v)
  BY <1>7, <1>8, <1>9, <1>12 DEF StepsOn, InnerTurned
<1>14. Sim(e1, s1, n, c, q, q)
  BY <1>1, <1>2, <1>11
<1>15. q \in {0, q}
  OBVIOUS
<1>16. Sim(e2, s2, n, c, 0, 0)
  BY <1>1, <1>3, <1>8, <1>13, <1>14, <1>15, InnerStep
<1>17. Same(s1, s2)
  BY <1>8 DEF StoresTo, Puts, MovesTo, Same
<1> QED BY <1>9, <1>11, <1>16, <1>17

-----------------------------------------------------------------------------
(* What the relation needs of the tasks, the combinators and the running   *)
(* reaction.                                                               *)

\* These may change where no closure's source does.
LEMMA SimContext ==
  ASSUME NEW e, NEW e2, NEW s, NEW s2, NEW n, NEW n2, NEW c, NEW c2, NEW x, NEW y, Sim(e, s, n, c, x, y),
         e2 \in JsType, e2.prom = e.prom, e2.jobs = e.jobs, s2.prom = s.prom, s2.mt = s.mt, Fine(s, n, c, 0),
         \A d : InLists(s, d) => Src(d, c2) = Src(d, c), RestSim(e2, s2, n2, c2)
  PROVE  Sim(e2, s2, n2, c2, x, y) /\ Lists(s2) = Lists(s)
<1>1. PICK f : SimBy(e, s, n, c, x, y, f)
  BY DEF Sim
<1>2. e \in JsType /\ QueuesSim(e, s, c, f) /\ InnerSim(e.jobs, Inners(e), s, x, y)
  BY <1>1 DEF SimBy
<1>3. Lists(s2) = Lists(s) /\ Inners(e2) = Inners(e) /\ Out(s2) = Out(s)
  BY DEF Lists, Inners, Out
<1>4. \A d : InLists(s2, d) <=> InLists(s, d)
  BY <1>3 DEF InLists
<1>5. \A m \in 1..Len(s.mt) : InLists(s, s.mt[m])
  BY <1>2, PairTyped
<1>6. ASSUME NEW J, NEW I, NEW d, NEW o, NEW b, Fired(J, I, d, o, c, f, b), Src(d, c2) = Src(d, c)
      PROVE  Fired(J, I, d, o, c2, f, b)
  BY <1>6 DEF Fired, FiredPlain, FiredLate, FiredThunk
<1>7. QueueSim(e.jobs, Inners(e), s.mt, Out(s), c2, f)
  <2>1. \A m \in 1..Len(s.mt) : Fired(e.jobs, Inners(e), s.mt[m], Out(s), c, f, f[m])
    BY <1>2 DEF QueuesSim, QueueSim
  <2>2. \A m \in 1..Len(s.mt) : Fired(e.jobs, Inners(e), s.mt[m], Out(s), c2, f, f[m])
    BY <1>5, <1>6, <2>1
  <2> QED BY <1>2, <2>2 DEF QueuesSim, QueueSim
<1>8. QueuesSim(e2, s2, c2, f)
  BY <1>2, <1>3, <1>7 DEF QueuesSim
<1>9. InnerSim(e2.jobs, Inners(e2), s2, x, y)
  BY <1>2, <1>3, <1>4 DEF InnerSim, Deferring
<1> QED BY <1>3, <1>8, <1>9 DEF Sim, SimBy

\* Only what the combinators still wait for changes.
CombStep(e, e2, s, s2, n, c, c2) ==
    /\ e2 \in JsType /\ e2.prom = e.prom /\ e2.jobs = e.jobs /\ e2.unh = e.unh /\ e2.ticks = e.ticks /\ e2.call = e.call
    /\ Alike(s, s2, n) /\ s2.unh = s.unh /\ s2.tq = s.tq
    /\ c2 \in CtxType(n) /\ c2.task = c.task /\ c2.run = c.run
    /\ \A q \in Ids : c2.comb[q].kind = c.comb[q].kind
    /\ CombSim(e2.comb, s2, c2)

\* The correspondence holds in the new context.
LEMMA CombCounts ==
  ASSUME NEW e, NEW e2, NEW s, NEW s2, NEW n, NEW c, NEW c2, NEW x, NEW y, Sim(e, s, n, c, x, y),
         Fine(s, n, c, 0), RunOk(s, c), CombStep(e, e2, s, s2, n, c, c2)
  PROVE  /\ Sim(e2, s2, n, c2, x, y) /\ Fine(s2, n, c2, 0) /\ RunOk(s2, c2)
         /\ \A q \in Ids : Lone(s, c, q) => Lone(s2, c2, q)
<1>1. /\ e2 \in JsType /\ e2.prom = e.prom /\ e2.jobs = e.jobs /\ e2.unh = e.unh /\ e2.ticks = e.ticks /\ e2.call = e.call
      /\ s2 \in RtType(n) /\ s2.prom = s.prom /\ s2.mt = s.mt /\ s2.unh = s.unh /\ s2.tq = s.tq
      /\ c2 \in CtxType(n) /\ c2.task = c.task /\ c2.run = c.run /\ CombSim(e2.comb, s2, c2)
      /\ \A q \in Ids : c2.comb[q].kind = c.comb[q].kind
  BY DEF CombStep, Alike
<1>2. /\ n \in Nat /\ 1..n \subseteq Ids /\ RestSim(e, s, n, c)
  BY SimFacts
<1>3. Lists(s2) = Lists(s) /\ Out(s2) = Out(s)
  BY <1>1 DEF Lists, Out
<1>4. \A d : InLists(s2, d) <=> InLists(s, d)
  BY <1>3 DEF InLists
<1>5. \A d \in Closures(n) : Src(d, c2) = Src(d, c) /\ (Fit(d, c) => Fit(d, c2))
  <2>1. TAKE d \in Closures(n)
  <2>2. Src(d, c2) = Src(d, c)
    BY <1>1 DEF Src
  <2>3. Key(d)[1] = "settle" => d.q \in Ids
    BY <1>2, KeyFacts DEF NoKey
  <2> QED BY <1>1, <2>2, <2>3 DEF Fit
<1>6. \A d : InLists(s, d) => d \in Closures(n) /\ Fit(d, c)
  BY WaitingFacts
<1>7. Fine(s2, n, c2, 0)
  <2>1. Fine(s, n, c2, 0)
    BY <1>1, <1>5, <1>6, CtxFine
  <2>2. Stays(s, s2, n, 0)
    BY <1>1 DEF Stays
  <2> QED BY <2>1, <2>2, StillFine
<1>8. RunOk(s2, c2)
  <2>1. c.run.fn \in Waiters => c.run \in Closures(n)
    BY RunFacts
  <2> QED BY <1>1, <1>5, <2>1 DEF RunOk
<1>9. RestSim(e2, s2, n, c2)
  <2>1. Owners(s2, c2)
    BY <1>1, <1>2, <1>4 DEF RestSim, Owners
  <2>2. CallSim(e2.call, Out(s2), c2)
    BY <1>1, <1>2, <1>3 DEF RestSim, CallSim
  <2> QED BY <1>1, <1>2, <2>1, <2>2 DEF RestSim
<1>10. Sim(e2, s2, n, c2, x, y)
  <2>1. \A d : InLists(s, d) => Src(d, c2) = Src(d, c)
    BY <1>5, <1>6
  <2> QED BY <1>1, <1>9, <2>1, SimContext
<1>11. \A q \in Ids : Lone(s, c, q) => Lone(s2, c2, q)
  BY <1>1, <1>4 DEF Lone
<1> QED BY <1>7, <1>8, <1>10, <1>11

\* A member is counted.
JsCounts(e, q) == [e EXCEPT !.comb[q].left = @ - 1]
JsCounted(e, e2, q) ==
    /\ e2 \in JsType /\ e2.prom = e.prom /\ e2.jobs = e.jobs /\ e2.unh = e.unh /\ e2.ticks = e.ticks /\ e2.call = e.call
    /\ e2.comb[q].kind = e.comb[q].kind /\ e2.comb[q].left = e.comb[q].left - 1 /\ e.comb[q].left \in Int
    /\ \A i \in Ids : i # q => e2.comb[i] = e.comb[i]

\* Counting a member changes one combinator's count.
LEMMA CountedFacts ==
  ASSUME NEW e \in JsType, NEW q \in Ids, NEW e2, e2 = JsCounts(e, q)
  PROVE  JsCounted(e, e2, q)
<1>1. PICK y : y = [e.comb[q] EXCEPT !.left = @ - 1]
  OBVIOUS
<1>2. e.comb \in [Ids -> JsCombType]
  BY DEF JsType
<1>3. e.comb[q] \in JsCombType
  BY <1>2
<1>4. y \in JsCombType /\ y.kind = e.comb[q].kind /\ y.left = e.comb[q].left - 1 /\ e.comb[q].left \in Int
  BY <1>1, <1>3 DEF JsCombType
<1>5. PICK w : w = [e.comb EXCEPT ![q] = y]
  OBVIOUS
<1>6. w \in [Ids -> JsCombType] /\ w[q] = y /\ \A i \in Ids : i # q => w[i] = e.comb[i]
  BY <1>2, <1>4, <1>5
<1>7. e2 = [e EXCEPT !.comb = w]
  BY <1>1, <1>5 DEF JsCounts
<1>8. /\ e2 \in JsType /\ e2.comb = w
      /\ e2.prom = e.prom /\ e2.jobs = e.jobs /\ e2.unh = e.unh /\ e2.ticks = e.ticks /\ e2.call = e.call
  BY <1>6, <1>7 DEF JsType
<1> QED BY <1>4, <1>6, <1>8 DEF JsCounted

\* A member of a combinator has settled.
LEMMA MemberMoves ==
  ASSUME NEW s, NEW n, NEW stk, NEW e, NEW f, NEW c, NEW j, NEW d, NEW e1, NEW s1, Heads(s, n, stk, e, f, c, j, d, e1, s1),
         d.fn = "comb"
  PROVE  Sim(Js!JsRun(e1, j), CombRunner(s1, d), n, Ctx(CombRunner(s1, d)), 0, 0) /\ Js!JsSilentJob(j)
<1>1. /\ d \in Closures(n) /\ j \in JobType /\ Fired(e.jobs, Inners(e), d, Out(s), c, f, 1) /\ j = e.jobs[1]
      /\ \A x, y : (d.fn \in Steps => x = d.q) /\ (Late(j) => y = j.d) => Sim(e1, s1, n, c, x, y)
      /\ Owes(s1, n, c, Key(d), 1) /\ Fine(s1, n, c, 0) /\ RunOk(s1, c) /\ s1 \in RtType(n) /\ n \in Nat /\ 1..n \subseteq Ids
      /\ s1.prom = s.prom /\ e1.prom = e.prom /\ e1 \in JsType /\ e1.comb = e.comb /\ RestSim(e, s, n, c) /\ Fit(d, c) /\ Same(s, s1)
      /\ Src(d, c) # 0 => Src(d, c) \in Ids /\ s.prom[Src(d, c)].st \in Done
  BY HeadPair
<1>2. PICK p, q : p = d.p /\ q = d.q /\ p \in 1..n /\ q \in 1..n /\ Key(d) = <<"settle", q>> /\ Src(d, c) = p
  BY <1>1, KeyFacts, ClosureFacts DEF Src
<1>3. p \in Ids /\ q \in Ids /\ s1.prom[p].st \in Done /\ p # 0 /\ c = Ctx(s1) /\ q \in Vals
  BY <1>1, <1>2 DEF Heads, Ctx, Same, Ids, Vals
<1>4. PICK z, st, v : z = 0 /\ st = s1.prom[p].st /\ v = s1.prom[p].val
  OBVIOUS
<1>5. st \in Done /\ v \in Vals
  BY <1>1, <1>3, <1>4, PromWords
<1>6. j.k = "member" /\ j.d = q /\ j.st = st /\ j.val = v
  <2>1. FiredPlain(j, d, Out(s), c)
    BY <1>1, Zenon DEF Fired, FiredLate, FiredThunk
  <2>2. Out(s)[p] = <<st, v>>
    BY <1>1, <1>3, <1>4 DEF Out
  <2> QED BY <1>2, <1>3, <2>1, <2>2 DEF FiredPlain, Pair, Gets
<1>7. Sim(e1, s1, n, c, z, z)
  BY <1>1, <1>6 DEF Steps, Late
<1>8. PICK kind, left : kind = c.comb[q].kind /\ left = c.comb[q].left
  OBVIOUS
<1>9. c.comb[q] \in CombType /\ kind \in {"all", "allSettled", "any", "race"} /\ left \in 0..2
  <2>1. c.comb[q].kind # "none"
    BY <1>1, <1>2 DEF Fit
  <2>2. c.comb[q] \in CombType
    BY <1>1, <1>3 DEF Fine, CtxType
  <2> QED BY <1>8, <2>1, <2>2 DEF CombType
<1>10. /\ e1.comb[q].kind = kind
       /\ s1.prom[q].st = Pending => e1.comb[q].left = left
       /\ s1.prom[q].st = Pending /\ kind # "race" => left >= 1
       /\ CombSim(e1.comb, s1, c) /\ e1.prom[q].st = s1.prom[q].st
  <2>1. CombSim(e1.comb, s1, c)
    BY <1>1 DEF RestSim, CombSim
  <2>2. s1.prom[q].st = Pending /\ kind # "race" => left >= 1
    BY <1>1, <1>3, <1>8, <1>9 DEF Owes, Left
  <2>3. e1.prom[q].st = s1.prom[q].st
    BY <1>1, <1>3 DEF RestSim, PromSim
  <2> QED BY <1>3, <1>8, <2>1, <2>2, <2>3 DEF CombSim
<1>11. Lone(s1, c, q)
  <2>1. PICK k, m : k = Key(d) /\ m = 1
    OBVIOUS
  <2>2. Owes(s1, n, c, k, m) /\ c.comb[q].kind # "none"
    BY <1>1, <1>8, <1>9, <2>1
  <2> QED BY <1>3, <2>2, LoneFacts
<1>12. PICK a, w : a = JsCounts(e1, q) /\ w = (IF kind = "any" THEN 2 ELSE 1)
  OBVIOUS
<1>13. /\ a \in JsType /\ a.prom = e1.prom /\ a.jobs = e1.jobs /\ a.unh = e1.unh /\ a.ticks = e1.ticks /\ a.call = e1.call
       /\ a.comb[q].kind = e1.comb[q].kind /\ a.comb[q].left = e1.comb[q].left - 1 /\ e1.comb[q].left \in Int
       /\ \A i \in Ids : i # q => a.comb[i] = e1.comb[i]
  <2>1. e1 \in JsType /\ q \in Ids /\ a = JsCounts(e1, q)
    BY <1>1, <1>3, <1>12
  <2>2. JsCounted(e1, a, q)
    BY <2>1, CountedFacts
  <2> QED BY <2>2 DEF JsCounted
<1>14. /\ st \in Js!Decides(kind) => Js!JsRun(e1, j) = Js!JsSettle(e1, q, st, v)
       /\ st \notin Js!Decides(kind) /\ e1.comb[q].left > 1 => Js!JsRun(e1, j) = a
       /\ st \notin Js!Decides(kind) /\ ~(e1.comb[q].left > 1) => Js!JsRun(e1, j) = Js!JsSettle(a, q, w, q)
  <2>1. Js!JsRun(e1, j) = Js!JsMember(e1, j)
    BY <1>6 DEF Js!JsRun
  <2>2. /\ st \in Js!Decides(kind) => Js!JsMember(e1, j) = Js!JsSettle(e1, q, st, v)
        /\ st \notin Js!Decides(kind) /\ e1.comb[q].left > 1 => Js!JsMember(e1, j) = a
        /\ st \notin Js!Decides(kind) /\ ~(e1.comb[q].left > 1) => Js!JsMember(e1, j) = Js!JsSettle(a, q, w, q)
    BY <1>6, <1>10, <1>12 DEF Js!JsMember, JsCounts
  <2> QED BY <2>1, <2>2
<1>15. /\ kind = "all" => (st \in Js!Decides(kind) <=> st = Rejected)
       /\ kind = "any" => (st \in Js!Decides(kind) <=> st # Rejected)
       /\ kind = "race" => st \in Js!Decides(kind)
       /\ kind = "allSettled" => st \notin Js!Decides(kind)
       /\ st = 1 \/ st = 2
  BY <1>5 DEF Js!Decides, Done, Fulfilled, Rejected
<1>16. Js!JsSilentJob(j)
  BY <1>6 DEF Js!JsSilentJob
<1>17. CASE s1.prom[q].st # Pending
  <2>1. CombRunner(s1, d) = s1
    BY <1>2, <1>17 DEF CombRunner
  <2>2. Js!JsRun(e1, j) \in {e1, a}
    <3>1. Js!JsSettle(e1, q, st, v) = e1 /\ Js!JsSettle(a, q, w, q) = a
      BY <1>10, <1>13, <1>17 DEF Js!JsSettle, Pending
    <3> QED BY <1>14, <3>1
  <2>3. Sim(a, s1, n, c, z, z)
    <3>1. CombSim(a.comb, s1, c)
      BY <1>10, <1>13, <1>17 DEF CombSim
    <3>2. Alike(s1, s1, n) /\ c \in CtxType(n)
      BY <1>1 DEF Alike, Fine
    <3>3. CombStep(e1, a, s1, s1, n, c, c)
      BY <1>13, <3>1, <3>2 DEF CombStep
    <3> QED BY <1>1, <1>7, <3>3, CombCounts
  <2> QED BY <1>3, <1>4, <1>7, <1>16, <2>1, <2>2, <2>3
<1>18. CASE s1.prom[q].st = Pending /\ st \in Js!Decides(kind)
  <2>1. \/ st = Rejected /\ CombRunner(s1, d) = RejectWith(s1, q, v)
        \/ CombRunner(s1, d) = Settle(StoreValue(s1, q, v), q, st)
    <3>1. CASE st = Rejected
      <4>1. kind \in {"all", "race"}
        BY <1>9, <1>15, <1>18, <3>1
      <4>2. s1.comb[q].kind = kind
        BY <1>3, <1>8 DEF Ctx
      <4> QED BY <1>2, <1>4, <1>18, <3>1, <4>1, <4>2 DEF CombRunner
    <3>2. CASE st # Rejected
      <4>1. kind \notin {"all", "allSettled"} /\ st = Fulfilled
        BY <1>9, <1>15, <1>18, <3>2 DEF Fulfilled, Rejected
      <4>2. s1.comb[q].kind = kind
        BY <1>3, <1>8 DEF Ctx
      <4> QED BY <1>2, <1>4, <1>18, <3>2, <4>1, <4>2 DEF CombRunner
    <3> QED BY <3>1, <3>2
  <2>2. PICK t : t = CombRunner(s1, d)
    OBVIOUS
  <2>3. z \in {0, q}
    BY <1>4
  <2>4. Sim(Js!JsSettle(e1, q, st, v), t, n, c, 0, z) /\ Same(s1, t)
    BY <1>1, <1>2, <1>5, <1>7, <1>11, <1>18, <2>1, <2>2, <2>3, SettleBoth
  <2>5. Ctx(t) = c
    BY <1>3, <2>4 DEF Ctx, Same
  <2> QED BY <1>4, <1>14, <1>16, <1>18, <2>2, <2>4, <2>5
<1>19. CASE s1.prom[q].st = Pending /\ st \notin Js!Decides(kind)
  <2>1. CombRunner(s1, d) = CountDown(s1, q)
    <3>1. s1.comb[q].kind = kind
      BY <1>3, <1>8 DEF Ctx
    <3>2. st = Rejected => kind \notin {"all", "race"}
      BY <1>9, <1>15, <1>19
    <3>3. st # Rejected => kind \in {"all", "allSettled"}
      BY <1>9, <1>15, <1>19
    <3> QED BY <1>2, <1>4, <1>19, <3>1, <3>2, <3>3 DEF CombRunner
  <2>2. left \in 1..2 /\ e1.comb[q].left = left
    <3>1. kind # "race"
      BY <1>15, <1>19
    <3> QED BY <1>9, <1>10, <1>19, <3>1
  <2>3. PICK x \in CombType : /\ x = [s1.comb[q] EXCEPT !.left = @ - 1] /\ x.kind = kind /\ x.left = left - 1
    <3>1. PICK y \in CombType : y = c.comb[q]
      BY <1>9
    <3>2. y.left = left /\ y.kind = kind /\ left - 1 \in 0..2
      BY <1>8, <2>2, <3>1
    <3>3. PICK x : x = [y EXCEPT !.left = @ - 1]
      OBVIOUS
    <3>4. x \in CombType /\ x.kind = kind /\ x.left = left - 1
      BY <3>1, <3>2, <3>3 DEF CombType
    <3>5. s1.comb[q] = y
      BY <1>3, <3>1 DEF Ctx
    <3> QED BY <3>3, <3>4, <3>5
  <2>4. PICK b, c2 : b = StartComb(s1, q, x) /\ c2 = WithComb(c, q, x)
    OBVIOUS
  <2>5. Alike(s1, b, n) /\ Ctx(b) = c2
    BY <1>1, <1>3, <2>4, StartFacts
  <2>6. /\ c2 \in CtxType(n) /\ c2.task = c.task /\ c2.run = c.run /\ c2.comb[q] = x
        /\ \A i \in Ids : i # q => c2.comb[i] = c.comb[i]
    <3>1. c \in CtxType(n) /\ q \in Ids /\ x \in CombType
      BY <1>1, <1>3 DEF Fine
    <3> QED BY <2>4, <3>1, WithFacts
  <2>7. b.unh = s1.unh /\ b.tq = s1.tq /\ b.prom = s1.prom
    BY <1>1, <2>4 DEF StartComb, RtType
  <2>8. CombSim(a.comb, b, c2)
    <3>1. \A i \in Ids : i # q => a.comb[i].kind = c2.comb[i].kind /\ (b.prom[i].st = Pending => a.comb[i].left = c2.comb[i].left)
      BY <1>10, <1>13, <2>6, <2>7 DEF CombSim
    <3>2. a.comb[q].kind = c2.comb[q].kind /\ a.comb[q].left = c2.comb[q].left
      BY <1>10, <1>13, <2>2, <2>3, <2>6
    <3> QED BY <3>1, <3>2 DEF CombSim
  <2>9. CombStep(e1, a, s1, b, n, c, c2)
    <3>1. \A i \in Ids : c2.comb[i].kind = c.comb[i].kind
      BY <1>8, <2>3, <2>6
    <3> QED BY <1>13, <2>5, <2>6, <2>7, <2>8, <3>1 DEF CombStep
  <2>10. /\ Sim(a, b, n, c2, z, z) /\ Fine(b, n, c2, 0) /\ RunOk(b, c2) /\ Lone(b, c2, q)
    BY <1>1, <1>3, <1>7, <1>11, <2>9, CombCounts
  <2>11. CountDown(s1, q) = IF x.left = 0 THEN CombFinish(b, q) ELSE b
    <3>1. [s1 EXCEPT !.comb[q].left = @ - 1] = b
      BY <2>3, <2>4 DEF StartComb
    <3>2. b.comb[q] = x
      BY <2>5, <2>6 DEF Ctx
    <3> QED BY <3>1, <3>2 DEF CountDown
  <2>12. CASE left = 2
    <3>1. x.left # 0 /\ e1.comb[q].left > 1
      BY <2>2, <2>3, <2>12
    <3> QED BY <1>4, <1>14, <1>16, <1>19, <2>1, <2>5, <2>10, <2>11, <3>1
  <2>13. CASE left = 1
    <3>1. x.left = 0 /\ ~(e1.comb[q].left > 1)
      BY <2>2, <2>3, <2>13
    <3>2. PICK t, st2 : t = CombFinish(b, q) /\ st2 = w
      OBVIOUS
    <3>3. b.comb[q].kind = kind
      BY <2>3, <2>5, <2>6 DEF Ctx
    <3>4. \/ st2 = Rejected /\ t = RejectWith(b, q, q)
          \/ t = Settle(StoreValue(b, q, q), q, st2)
      BY <1>12, <3>2, <3>3 DEF CombFinish, Rejected, Fulfilled
    <3>5. st2 \in Done /\ b.prom[q].st = Pending /\ z \in {0, q}
      BY <1>4, <1>12, <1>19, <2>7, <3>2 DEF Done, Rejected, Fulfilled
    <3>6. Sim(Js!JsSettle(a, q, st2, q), t, n, c2, 0, z) /\ Same(b, t)
      BY <1>2, <1>3, <2>10, <3>4, <3>5, SettleBoth
    <3>7. Ctx(t) = c2
      BY <2>5, <3>6 DEF Ctx, Same
    <3> QED BY <1>4, <1>14, <1>16, <1>19, <2>1, <2>11, <3>1, <3>2, <3>6, <3>7
  <2> QED BY <2>2, <2>12, <2>13
<1> QED BY <1>17, <1>18, <1>19

\* A silent head of the runtime's queue, whose job is at the head of
\* ECMAScript's.
LEMMA BothSilent ==
  ASSUME NEW s, NEW n, NEW stk, NEW e, NEW f, NEW c, Good(s, n, stk), c = Ctx(s), SimBy(e, s, n, c, 0, 0, f),
         e.jobs # <<>>, ~Free(f, 1), IsSilent(s, Head(s.mt)), NEW t, t = RunSilent(Taken(s), Head(s.mt))
  PROVE  Sim(Js!JsSilent(e), t, n, Ctx(t), 0, 0) /\ Js!JsSilentJob(Head(e.jobs)) /\ s.mt # <<>>
<1>1. PICK j, d, e1, s1 : j = Head(e.jobs) /\ d = Head(s.mt) /\ e1 = JsPop(e) /\ s1 = Taken(s)
  OBVIOUS
<1>2. Heads(s, n, stk, e, f, c, j, d, e1, s1)
  BY <1>1 DEF Heads
<1>3. d \in Closures(n) /\ n \in Nat /\ s1.prom = s.prom /\ s.mt # <<>> /\ Same(s, s1)
  BY <1>2, HeadPair
<1>4. Js!JsSilent(e) = Js!JsRun(e1, j)
  BY <1>1 DEF Js!JsSilent, JsPop
<1>5. d.fn \in {"then", "comb", "adopt_job", "adopt_settle", "defer_step", "finally_step"}
  BY <1>1, <1>3, ClosureFacts DEF IsSilent
<1>6. ASSUME Same(s1, t) PROVE Ctx(t) = c
  BY <1>3, <1>6 DEF Same, Ctx
<1>7. CASE d.fn = "then"
  <2>1. s.prom[d.p].st \notin d.on
    BY <1>1, <1>7 DEF IsSilent
  <2>2. t = PassThrough(s1, d)
    BY <1>1, <1>7 DEF RunSilent
  <2> QED BY <1>1, <1>2, <1>3, <1>4, <1>6, <1>7, <2>1, <2>2, Follows
<1>8. CASE d.fn = "adopt_settle"
  <2>1. t = AdoptSettle(s1, d)
    BY <1>1, <1>8 DEF RunSilent
  <2> QED BY <1>1, <1>2, <1>3, <1>4, <1>6, <1>8, <2>1, Follows
<1>9. CASE d.fn = "adopt_job"
  <2>1. t = AdoptJob(s1, d)
    BY <1>1, <1>9 DEF RunSilent
  <2> QED BY <1>1, <1>2, <1>3, <1>4, <1>6, <1>9, <2>1, Follows
<1>10. CASE d.fn = "comb"
  <2>1. t = CombRunner(s1, d)
    BY <1>1, <1>10 DEF RunSilent
  <2> QED BY <1>1, <1>2, <1>3, <1>4, <1>10, <2>1, MemberMoves
<1>11. CASE d.fn = "finally_step"
  <2>1. t = FinallyStep(s1, d)
    BY <1>1, <1>11 DEF RunSilent
  <2>2. Sim(Js!JsRun(e1, j), t, n, c, 0, 0) /\ Js!JsSilentJob(j) /\ Same(s1, t)
    BY <1>2, <1>11, <2>1, StepsMove
  <2> QED BY <1>1, <1>3, <1>4, <1>6, <2>2
<1>12. CASE d.fn = "defer_step"
  <2>1. t = DeferStep(s1, d)
    BY <1>1, <1>12 DEF RunSilent
  <2>2. d.hops \in {1, 2}
    BY <1>3, <1>12, ClosureFacts
  <2>3. CASE d.hops = 1
    BY <1>1, <1>2, <1>3, <1>4, <1>6, <1>12, <2>1, <2>3, Follows
  <2>4. CASE d.hops = 2
    <3>1. Sim(Js!JsRun(e1, j), t, n, c, 0, 0) /\ Js!JsSilentJob(j) /\ Same(s1, t)
      BY <1>2, <1>12, <2>1, <2>4, StepsMove
    <3> QED BY <1>1, <1>3, <1>4, <1>6, <3>1
  <2> QED BY <2>2, <2>3, <2>4
<1> QED BY <1>5, <1>7, <1>8, <1>9, <1>10, <1>11, <1>12

-----------------------------------------------------------------------------
(* Jobs no closure stands for.                                             *)

\* A queue without its first job.
LEMMA LateTail ==
  ASSUME NEW J \in Seq(JobType), J # <<>>, NEW d, ~(Late(J[1]) /\ J[1].d = d)
  PROVE  LateFor(Tail(J), d) <=> LateFor(J, d)
<1>1. PICK T, b : T = Tail(J) /\ b = Len(J)
  OBVIOUS
<1>2. /\ b \in Nat /\ b >= 1 /\ Len(T) = b - 1
      /\ \A i \in 1..(b - 1) : T[i] = J[i + 1]
      /\ \A i \in 1..b : i > 1 => i - 1 \in 1..Len(T) /\ T[i - 1] = J[i]
  BY <1>1, TailFacts
<1>3. ASSUME LateFor(T, d) PROVE LateFor(J, d)
  <2>1. PICK i \in 1..Len(T) : Late(T[i]) /\ T[i].d = d
    BY <1>3 DEF LateFor
  <2>2. i + 1 \in 1..Len(J) /\ T[i] = J[i + 1]
    BY <1>1, <1>2, <2>1
  <2> QED BY <2>1, <2>2 DEF LateFor
<1>4. ASSUME LateFor(J, d) PROVE LateFor(T, d)
  <2>1. PICK i \in 1..Len(J) : Late(J[i]) /\ J[i].d = d
    BY <1>4 DEF LateFor
  <2>2. i > 1
    BY <1>1, <1>2, <2>1
  <2>3. i - 1 \in 1..Len(T) /\ T[i - 1] = J[i]
    BY <1>1, <1>2, <2>2
  <2> QED BY <2>1, <2>3 DEF LateFor
<1> QED BY <1>1, <1>3, <1>4

\* The inner promises after a job about d's alone.
LEMMA AloneInner ==
  ASSUME NEW J \in Seq(JobType), J # <<>>, NEW I, NEW I2, NEW s, NEW d \in Ids, InnerSim(J, I, s, 0, 0), LateFor(J, d),
         Late(J[1]) => J[1].d = d, \A q \in Ids : q # d => I2[q] = I[q],
         I2[d].st # 0 /\ ~I2[d].handled => LateFor(Tail(J), d)
  PROVE  InnerSim(Tail(J), I2, s, 0, 0)
<1>1. \A q \in Ids : q # d => I2[q] = I[q] /\ (LateFor(Tail(J), q) <=> LateFor(J, q))
  BY LateTail
<1>2. /\ \A q \in Ids : q # 0 /\ s.prom[q].st = Pending /\ ~Deferring(s, q) => Blank(I[q]) /\ ~LateFor(J, q)
      /\ \A q \in Ids : q # 0 /\ I[q].st # 0 /\ ~I[q].handled => LateFor(J, q)
  BY DEF InnerSim
<1>3. \A q \in Ids : q # 0 /\ s.prom[q].st = Pending /\ ~Deferring(s, q) => Blank(I2[q]) /\ ~LateFor(Tail(J), q)
  BY <1>1, <1>2
<1>4. \A q \in Ids : q # 0 /\ I2[q].st # 0 /\ ~I2[q].handled => LateFor(Tail(J), q)
  BY <1>1, <1>2
<1> QED BY <1>3, <1>4 DEF InnerSim

\* ECMAScript takes a job about d's inner promise, alone.
Alone(e, e2, s, f, d) ==
    /\ e2 \in JsType /\ e2.jobs = Tail(e.jobs) /\ e2.comb = e.comb /\ e2.call = e.call /\ e2.ticks = e.ticks
    /\ \A q \in Js!JsIds : q # Inner(d) => e2.prom[q] = e.prom[q]
    /\ UnhSim(e2.unh, s.unh, e2.prom)
    /\ e.jobs[1].k = "thunk" => e.jobs[1].d = Inner(d)
    /\ Late(e.jobs[1]) => e.jobs[1].d = d
    /\ \A i \in 1..Len(e.jobs) : i > 1 /\ Free(f, i) /\ Late(e.jobs[i]) => e.jobs[i].d # d

\* The correspondence holds without that job, the runtime standing still.
LEMMA SkipSim ==
  ASSUME NEW e, NEW e2, NEW s, NEW n, NEW c, NEW f, NEW g, NEW d \in Ids, SimBy(e, s, n, c, 0, 0, f), Fine(s, n, c, 0),
         e.jobs # <<>>, Free(f, 1), Alone(e, e2, s, f, d), g = Skip(f, Len(s.mt)), InnerSim(e2.jobs, Inners(e2), s, 0, 0),
         \A m \in 1..Len(s.mt) : s.mt[m].fn \in Steps /\ s.mt[m].q = d
             => Fired(e2.jobs, Inners(e2), s.mt[m], Out(s), c, g, f[m] - 1),
         \A p \in Ids : \A i \in 1..Len(Lists(s)[p]) :
             Lists(s)[p][i].fn = "finally_step" /\ Lists(s)[p][i].q = d => Hung(Inners(e2)[d], d)
  PROVE  Sim(e2, s, n, c, 0, 0)
<1>1. /\ e \in JsType /\ s \in RtType(n) /\ n \in Nat /\ 1..n \subseteq Ids /\ RestSim(e, s, n, c)
      /\ QueuesSim(e, s, c, f)
  <2>1. PICK z : z = 0
    OBVIOUS
  <2>2. Sim(e, s, n, c, z, z)
    BY <2>1 DEF Sim
  <2> QED BY <2>2, SimFacts DEF SimBy
<1>2. /\ e2 \in JsType /\ e2.jobs = Tail(e.jobs) /\ e2.comb = e.comb /\ e2.call = e.call /\ e2.ticks = e.ticks
      /\ \A q \in Js!JsIds : q # Inner(d) => e2.prom[q] = e.prom[q]
  BY DEF Alone
<1>3. /\ \A q \in Ids : e2.prom[q] = e.prom[q]
      /\ \A q \in Ids : q # d => Inners(e2)[q] = Inners(e)[q]
  <2>1. \A q \in Js!JsIds : q # Inner(d) => e2.prom[q] = e.prom[q]
    BY <1>2
  <2>2. /\ \A q \in Ids : e2.prom[q] = e.prom[q]
        /\ Inners(e2)[d] = e2.prom[Inner(d)] /\ Inners(e)[d] = e.prom[Inner(d)]
        /\ \A q \in Ids : q # d => Inners(e2)[q] = Inners(e)[q]
    BY <2>1, InnerChanges
  <2> QED BY <2>2
<1>4. PICK J, J2, M, I, I2, o : J = e.jobs /\ J2 = Tail(J) /\ M = s.mt /\ I = Inners(e) /\ I2 = Inners(e2) /\ o = Out(s)
  OBVIOUS
<1>5. Typed(J, M, n) /\ QueueSim(J, I, M, o, c, f) /\ J # <<>> /\ J \in Seq(JobType)
  BY <1>1, <1>4, PairTyped DEF QueuesSim, Typed
<1>6. /\ (J[1].k = "thunk" => J[1].d = Inner(d)) /\ (Late(J[1]) => J[1].d = d)
      /\ \A i \in 1..Len(J) : i > 1 /\ Free(f, i) /\ Late(J[i]) => J[i].d # d
  BY <1>4 DEF Alone
<1>7. \A q \in Ids : q # d => I2[q] = I[q]
  BY <1>3, <1>4
<1>8. \A m \in 1..Len(M) : M[m].fn \in Steps /\ M[m].q = d => Fired(J2, I2, M[m], o, c, g, f[m] - 1)
  BY <1>2, <1>4
<1>9. g = Skip(f, Len(M))
  BY <1>4
<1>10. QueueSim(J2, I2, M, o, c, g) /\ Shifted(J, f, J2, g, 1)
  <2>1. \A m \in 1..Len(M) : M[m].fn \in Steps /\ M[m].q = d => Fired(Tail(J), I2, M[m], o, c, g, f[m] - 1)
    BY <1>4, <1>8
  <2>2. /\ J[1].k = "thunk" => J[1].d = Inner(d)
        /\ Late(J[1]) => J[1].d = d
    BY <1>6
  <2>3. \A i \in 1..Len(J) : i > 1 /\ Free(f, i) /\ Late(J[i]) => J[i].d # d
    BY <1>6
  <2>4. Free(f, 1) /\ d \in Ids /\ (J[1].k = "thunk" => J[1].d = Inner(d)) /\ (Late(J[1]) => J[1].d = d)
    BY <2>2
  <2>5. Typed(J, M, n) /\ QueueSim(J, I, M, o, c, f) /\ J # <<>>
    BY <1>5
  <2>6. /\ Typed(Tail(J), M, n) /\ QueueSim(Tail(J), I2, M, o, c, g)
        /\ Shifted(J, f, Tail(J), g, 1)
    <3>1. SkipsOver(J, M, f, I, I2, o, c, d, g)
      BY <1>7, <1>9, <2>1, <2>3, <2>4, <2>5 DEF SkipsOver
    <3> QED BY <2>5, <3>1, QueueSkips
  <2> QED BY <1>4, <2>6
<1>11. Len(J) \in Nat /\ Len(J2) = Len(J) - 1 /\ Len(J) >= 1
  BY <1>4, <1>5, TailFacts
<1>12. \A q \in Ids : ListSim(e2.prom[q].rx, Lists(s)[q], J2, I2, g)
  <2>1. TAKE q \in Ids
  <2>2. PICK X, l : X = e.prom[q].rx /\ l = Lists(s)[q]
    OBVIOUS
  <2>3. ListSim(X, l, J, I, f)
    BY <1>1, <1>4, <2>2 DEF QueuesSim
  <2>4. \A i \in 1..Len(l) : InLists(s, l[i]) /\ l[i] \in Closures(n)
    BY <1>1, <2>2, PairTyped
  <2>5. ASSUME NEW i \in 1..Len(l), l[i].fn = "finally_step" PROVE Hook(J2, I2, g, l[i].q, Len(J2) + 1)
    <3>1. CASE l[i].q = d
      <4>1. Hung(I2[d], d)
        BY <1>4, <2>1, <2>2, <2>5, <3>1
      <4> QED BY <3>1, <4>1 DEF Hook
    <3>2. CASE l[i].q # d
      <4>1. PICK h, b, b2, k : h = l[i].q /\ b = Len(J) + 1 /\ b2 = Len(J2) + 1 /\ k = 1
        OBVIOUS
      <4>2. Hook(J, I, f, h, b) /\ h \in Ids /\ h # d
        <5>1. h \in 1..n
          BY <1>1, <2>4, <2>5, <4>1, ClosureFacts
        <5> QED BY <1>1, <2>3, <2>5, <3>2, <4>1, <5>1 DEF ListSim
      <4>3. Spared(J, f, k, h)
        <5>1. Inner(d) # Inner(h)
          BY <4>2, InnerFacts
        <5> QED BY <1>6, <4>2, <5>1 DEF Spared
      <4>4. HookKept(J, I, f, J2, I2, g, k, h, b, b2)
        BY <1>7, <1>10, <1>11, <4>1, <4>2, <4>3 DEF HookKept
      <4>5. Hook(J2, I2, g, h, b2)
        BY <4>2, <4>4, HookMoves
      <4> QED BY <4>1, <4>5
    <3> QED BY <3>1, <3>2
  <2>6. ListSim(X, l, J2, I2, g)
    BY <2>3, <2>5 DEF ListSim
  <2> QED BY <1>3, <2>1, <2>2, <2>6
<1>13. QueuesSim(e2, s, c, g)
  BY <1>2, <1>4, <1>10, <1>12 DEF QueuesSim
<1>14. RestSim(e2, s, n, c)
  BY <1>1, <1>2, <1>3 DEF RestSim, Alone
<1> QED BY <1>2, <1>13, <1>14 DEF Sim, SimBy

\* ECMAScript's next job is no closure's.
FreeHead(e, s, n, c, f, j, e1) ==
    /\ SimBy(e, s, n, c, 0, 0, f) /\ Fine(s, n, c, 0) /\ e.jobs # <<>> /\ Free(f, 1)
    /\ j = Head(e.jobs) /\ e1 = JsPop(e)

\* What is known of that job and of the rest.
LEMMA FreeHeadFacts ==
  ASSUME NEW e, NEW s, NEW n, NEW c, NEW f, NEW j, NEW e1, FreeHead(e, s, n, c, f, j, e1)
  PROVE  /\ e \in JsType /\ e.jobs \in Seq(JobType) /\ e.jobs # <<>> /\ j = e.jobs[1] /\ j \in JobType
         /\ e1 \in JsType /\ e1.prom = e.prom /\ e1.jobs = Tail(e.jobs) /\ e1.unh = e.unh /\ e1.ticks = e.ticks
         /\ e1.comb = e.comb /\ e1.call = e.call /\ e1.jobs \in Seq(JobType)
         /\ s \in RtType(n) /\ n \in Nat /\ 1..n \subseteq Ids /\ Typed(e.jobs, s.mt, n)
         /\ QueueSim(e.jobs, Inners(e), s.mt, Out(s), c, f) /\ Once(e.jobs) /\ Extra(e.jobs, Inners(e), f, 1)
         /\ InnerSim(e.jobs, Inners(e), s, 0, 0) /\ UnhSim(e.unh, s.unh, e.prom) /\ s.unh \in Seq(Ids)
         /\ e.unh \in Seq(Js!JsIds) /\ Embeds(f, Len(s.mt), Len(e.jobs))
         /\ \A p \in Ids : ListSim(e.prom[p].rx, Lists(s)[p], e.jobs, Inners(e), f)
<1>1. SimBy(e, s, n, c, 0, 0, f) /\ Fine(s, n, c, 0) /\ e.jobs # <<>> /\ Free(f, 1) /\ j = Head(e.jobs) /\ e1 = JsPop(e)
  BY DEF FreeHead
<1>2. e \in JsType /\ QueuesSim(e, s, c, f) /\ InnerSim(e.jobs, Inners(e), s, 0, 0) /\ RestSim(e, s, n, c)
  BY <1>1 DEF SimBy
<1>3. e.jobs \in Seq(JobType) /\ e.unh \in Seq(Js!JsIds) /\ s \in RtType(n) /\ n \in Nat /\ 1..n \subseteq Ids
  <2>1. PICK z : z = 0
    OBVIOUS
  <2>2. Sim(e, s, n, c, z, z)
    BY <1>1, <2>1 DEF Sim
  <2> QED BY <1>1, <2>2, SimFacts
<1>4. /\ e1 \in JsType /\ e1.prom = e.prom /\ e1.jobs = Tail(e.jobs) /\ e1.unh = e.unh /\ e1.ticks = e.ticks
      /\ e1.comb = e.comb /\ e1.call = e.call
  BY <1>1, <1>2, JsMoveForms DEF JsMovesTo
<1>5. /\ QueueSim(e.jobs, Inners(e), s.mt, Out(s), c, f)
      /\ \A p \in Ids : ListSim(e.prom[p].rx, Lists(s)[p], e.jobs, Inners(e), f)
  BY <1>2 DEF QueuesSim
<1>6. /\ j = e.jobs[1] /\ j \in JobType /\ e1.jobs \in Seq(JobType) /\ 1 \in 1..Len(e.jobs)
  BY <1>1, <1>3, <1>4, TailFacts
<1>7. Once(e.jobs) /\ Extra(e.jobs, Inners(e), f, 1) /\ Embeds(f, Len(s.mt), Len(e.jobs))
  BY <1>1, <1>5, <1>6 DEF QueueSim
<1>8. Typed(e.jobs, s.mt, n)
  BY <1>1, <1>2, PairTyped
<1>9. UnhSim(e.unh, s.unh, e.prom)
  BY <1>2 DEF RestSim
<1>10. s.unh \in Seq(Ids)
  BY <1>3 DEF RtType
<1> QED BY <1>1, <1>2, <1>3, <1>4, <1>5, <1>6, <1>7, <1>8, <1>9, <1>10

\* ECMAScript makes d wait for its inner promise.
LEMMA LateAlone ==
  ASSUME NEW e, NEW s, NEW n, NEW c, NEW f, NEW j, NEW e1, FreeHead(e, s, n, c, f, j, e1), Late(j), j.d \in Ids,
         Blank(Inners(e)[j.d])
  PROVE  Sim(Js!JsRun(e1, j), s, n, c, 0, 0) /\ Js!JsSilentJob(j)
<1>1. /\ e \in JsType /\ e.jobs \in Seq(JobType) /\ e.jobs # <<>> /\ j = e.jobs[1] /\ j \in JobType
      /\ e1 \in JsType /\ e1.prom = e.prom /\ e1.jobs = Tail(e.jobs) /\ e1.unh = e.unh /\ e1.ticks = e.ticks
      /\ e1.comb = e.comb /\ e1.call = e.call /\ e1.jobs \in Seq(JobType)
      /\ Typed(e.jobs, s.mt, n) /\ QueueSim(e.jobs, Inners(e), s.mt, Out(s), c, f) /\ Once(e.jobs)
      /\ InnerSim(e.jobs, Inners(e), s, 0, 0) /\ UnhSim(e.unh, s.unh, e.prom) /\ s.unh \in Seq(Ids)
      /\ e.unh \in Seq(Js!JsIds) /\ Embeds(f, Len(s.mt), Len(e.jobs))
  BY FreeHeadFacts
<1>2. Fine(s, n, c, 0) /\ Free(f, 1) /\ SimBy(e, s, n, c, 0, 0, f)
  BY DEF FreeHead
<1>3. PICK d, i, r, e2 : d = j.d /\ i = Inner(d) /\ r = Js!Reaction("adopt", d, {}, Js!Plain) /\ e2 = Js!JsRun(e1, j)
  OBVIOUS
<1>4. d \in Ids /\ i \in Js!JsIds /\ d \in Nat /\ Blank(Inners(e)[d]) /\ Inners(e)[d] = e1.prom[i]
  BY <1>1, <1>3, InnerFacts DEF Inners
<1>5. e2 = Js!JsAttach(e1, i, r) /\ Js!JsSilentJob(j) /\ j.k = "thenable" /\ 1 \in 1..Len(e.jobs)
  <2>1. 1 \in 1..Len(e.jobs)
    BY <1>1, TailFacts
  <2> QED BY <1>3, <2>1 DEF Late, Js!JsRun, Js!JsSilentJob
<1>6. r \in JobType /\ r.k = "adopt" /\ r.d = d
  <2>1. PICK ek, none : ek = "adopt" /\ none = {}
    OBVIOUS
  <2>2. ek \in JobKinds /\ none \in SUBSET Done /\ r = Js!Reaction(ek, d, none, Js!Plain) /\ Js!Plain \in Nat \X Nat
    BY <1>3, <2>1 DEF JobKinds, Js!Plain
  <2> QED BY <1>4, <2>1, <2>2, ReactionFacts
<1>7. PICK X, E, yes : E = e1.prom[i] /\ yes = TRUE /\ X = JsProm(E.st, E.val, Append(E.rx, r), yes)
  OBVIOUS
<1>8. E.st = 0 /\ E.rx = <<>>
  BY <1>4, <1>7 DEF Blank
<1>9. JsPuts(e1, e2, i, X, <<>>, e1.unh)
  <2>1. JsAttachesTo(e1, e2, i, r)
    BY <1>1, <1>4, <1>5, <1>6, JsAttachForm
  <2> QED BY <1>7, <1>8, <2>1 DEF JsAttachesTo
<1>10. /\ e2 \in JsType /\ e2.prom[i] = X /\ (\A q \in Js!JsIds : q # i => e2.prom[q] = e.prom[q])
       /\ e2.jobs = Tail(e.jobs) /\ e2.unh = e.unh /\ e2.ticks = e.ticks /\ e2.comb = e.comb /\ e2.call = e.call
  <2>1. e1.jobs \o <<>> = e1.jobs
    BY <1>1, AppendOne
  <2> QED BY <1>1, <1>9, <2>1 DEF JsPuts, JsSame
<1>11. Hung(Inners(e2)[d], d)
  <2>1. Inners(e2)[d] = X
    BY <1>3, <1>4, <1>10 DEF Inners
  <2>2. X.rx = <<r>> /\ X.st = 0 /\ X.handled
    BY <1>7, <1>8 DEF JsProm
  <2>3. PICK l : l = <<r>>
    OBVIOUS
  <2>4. Len(l) = 1 /\ l[1] = r
    BY <2>3
  <2> QED BY <1>6, <2>1, <2>2, <2>3, <2>4 DEF Hung
<1>12. \A q \in Ids : q # d => Inners(e2)[q] = Inners(e)[q]
  <2>1. TAKE q \in Ids
  <2>2. SUFFICES ASSUME q # d PROVE Inners(e2)[q] = Inners(e)[q]
    OBVIOUS
  <2>3. Inner(q) \in Js!JsIds /\ Inner(q) # i
    BY <1>3, <1>4, <2>2, InnerFacts
  <2>4. e2.prom[Inner(q)] = e.prom[Inner(q)]
    BY <1>10, <2>3
  <2> QED BY <2>4 DEF Inners
<1>13. UnhSim(e2.unh, s.unh, e2.prom)
  <2>1. \A q \in Js!JsIds : e.prom[q].st # 0 => e2.prom[q].st # 0
    BY <1>1, <1>7, <1>8, <1>10
  <2>2. \A q \in Ids : e.prom[q].st = 2 => e2.prom[q].st = 2
    <3>1. TAKE q \in Ids
    <3>2. q \in Js!JsIds /\ q # i
      BY <1>3, <1>4, InnerFacts
    <3> QED BY <1>1, <1>10, <3>2
  <2> QED BY <1>1, <1>10, <2>1, <2>2, UnhGrows
<1>14. Alone(e, e2, s, f, d)
  <2>1. \A m \in 1..Len(e.jobs) : m > 1 /\ Free(f, m) /\ Late(e.jobs[m]) => e.jobs[m].d # d
    <3>1. TAKE m \in 1..Len(e.jobs)
    <3>2. SUFFICES ASSUME m > 1, Late(e.jobs[m]), e.jobs[m].d = d PROVE FALSE
      OBVIOUS
    <3>3. m = 1
      BY <1>1, <1>3, <1>5, <3>2 DEF Once
    <3> QED BY <3>2, <3>3
  <2>2. e.jobs[1].k # "thunk" /\ e.jobs[1].d = d
    BY <1>1, <1>3, <1>5
  <2> QED BY <1>3, <1>10, <1>13, <2>1, <2>2 DEF Alone
<1>15. InnerSim(e2.jobs, Inners(e2), s, 0, 0)
  <2>1. LateFor(e.jobs, d)
    BY <1>1, <1>3, <1>5 DEF LateFor
  <2>2. Inners(e2)[d].st = 0 /\ e.jobs[1].d = d
    BY <1>1, <1>3, <1>11 DEF Hung
  <2>3. PICK J, I, I2 : J = e.jobs /\ I = Inners(e) /\ I2 = Inners(e2)
    OBVIOUS
  <2>4. /\ J \in Seq(JobType) /\ J # <<>> /\ d \in Ids /\ InnerSim(J, I, s, 0, 0) /\ LateFor(J, d)
        /\ (Late(J[1]) => J[1].d = d)
    BY <1>1, <1>4, <2>1, <2>2, <2>3
  <2>5. /\ \A q \in Ids : q # d => I2[q] = I[q]
        /\ I2[d].st # 0 /\ ~I2[d].handled => LateFor(Tail(J), d)
    BY <1>12, <2>2, <2>3
  <2>6. InnerSim(Tail(J), I2, s, 0, 0)
    BY <2>4, <2>5, AloneInner
  <2> QED BY <1>10, <2>3, <2>6
<1>16. PICK g : g = Skip(f, Len(s.mt))
  OBVIOUS
<1>17. ASSUME NEW m \in 1..Len(s.mt), s.mt[m].fn \in Steps, s.mt[m].q = d
       PROVE  Fired(e2.jobs, Inners(e2), s.mt[m], Out(s), c, g, f[m] - 1)
  <2>1. PICK k, b : k = s.mt[m] /\ b = f[m]
    OBVIOUS
  <2>2. Fired(e.jobs, Inners(e), k, Out(s), c, f, b) /\ b \in 1..Len(e.jobs) /\ b # 1 /\ k.q = d
    BY <1>1, <1>2, <1>17, <2>1 DEF QueueSim, Embeds, Free
  <2>3. e2.jobs[b - 1] = e.jobs[b]
    BY <1>1, <1>10, <2>2, TailFacts
  <2>4. CASE FiredPlain(e.jobs[b], k, Out(s), c)
    BY <2>1, <2>3, <2>4 DEF Fired
  <2>5. CASE FiredLate(e.jobs, Inners(e), k, Out(s), f, b)
    <3>1. Late(e.jobs[b]) /\ e.jobs[b].d = d
      BY <2>2, <2>5 DEF FiredLate
    <3>2. b = 1
      BY <1>1, <1>3, <1>5, <2>2, <3>1 DEF Once
    <3> QED BY <2>2, <3>2
  <2>6. CASE FiredThunk(e.jobs, Inners(e), k, Out(s), f, b)
    <3>1. k.fn = "finally_step" /\ Pair(e.jobs[b], k) /\ Gets(e.jobs[b], Out(s)[k.r])
      BY <2>6 DEF FiredThunk
    <3>2. Hook(e2.jobs, Inners(e2), g, k.q, b - 1)
      BY <1>11, <2>2 DEF Hook
    <3>3. FiredThunk(e2.jobs, Inners(e2), k, Out(s), g, b - 1)
      BY <2>3, <3>1, <3>2 DEF FiredThunk
    <3> QED BY <2>1, <3>3 DEF Fired
  <2> QED BY <2>2, <2>4, <2>5, <2>6 DEF Fired
<1>18. Sim(e2, s, n, c, 0, 0)
  <2>1. \A m \in 1..Len(s.mt) : s.mt[m].fn \in Steps /\ s.mt[m].q = d
             => Fired(e2.jobs, Inners(e2), s.mt[m], Out(s), c, g, f[m] - 1)
    BY <1>17
  <2>2. \A p \in Ids : \A k \in 1..Len(Lists(s)[p]) :
             Lists(s)[p][k].fn = "finally_step" /\ Lists(s)[p][k].q = d => Hung(Inners(e2)[d], d)
    BY <1>11
  <2> QED BY <1>1, <1>2, <1>4, <1>14, <1>15, <1>16, <2>1, <2>2, SkipSim
<1> QED BY <1>3, <1>5, <1>18

\* What finally's promise will be settled with is an outcome.
LEMMA OwedFacts ==
  ASSUME NEW n \in Nat, 1..n \subseteq Ids, NEW s \in RtType(n), NEW d \in Closures(n), d.fn \in Steps,
         NEW w, w = Owed(d, Out(s))
  PROVE  w[1] \in Done /\ w[2] \in Vals /\ w = <<w[1], w[2]>>
<1>1. \A p \in Ids : Out(s)[p] = <<s.prom[p].st, s.prom[p].val>> /\ s.prom[p].val \in Vals
  BY PromWords DEF Out
<1>2. d.q \in Ids /\ d.st \in Done /\ (d.fn = "finally_step" => d.r \in Ids /\ d.val \in Vals)
  <2>1. d.q \in 1..n /\ d.st \in Done /\ (d.fn = "finally_step" => d.r \in 1..n /\ d.val \in Vals)
    BY ClosureFacts DEF Steps
  <2> QED BY <2>1
<1>3. CASE d.fn = "defer_step"
  <2>1. PICK a, b : a = d.st /\ b = Out(s)[d.q][2]
    OBVIOUS
  <2>2. w = <<a, b>>
    BY <1>3, <2>1 DEF Owed
  <2>3. b \in Vals
    BY <1>1, <1>2, <2>1
  <2> QED BY <1>2, <2>1, <2>2, <2>3
<1>4. CASE d.fn = "finally_step" /\ Out(s)[d.r][1] = Rejected
  <2>1. PICK b : b = Out(s)[d.r][2]
    OBVIOUS
  <2>2. w = <<Rejected, b>>
    BY <1>4, <2>1 DEF Owed
  <2>3. b \in Vals
    BY <1>1, <1>2, <1>4, <2>1
  <2> QED BY <2>2, <2>3 DEF Done
<1>5. CASE d.fn = "finally_step" /\ Out(s)[d.r][1] # Rejected
  <2>1. w = <<d.st, d.val>>
    BY <1>5 DEF Owed
  <2> QED BY <1>2, <1>5, <2>1
<1> QED BY <1>3, <1>4, <1>5 DEF Steps

\* Whose inner promise the job before its own settles.
LEMMA ThunkOwner ==
  ASSUME NEW e, NEW s, NEW n, NEW c, NEW f, NEW j, NEW e1, FreeHead(e, s, n, c, f, j, e1),
         2 \in 1..Len(e.jobs), ~Free(f, 2), Late(e.jobs[2])
  PROVE  \E m \in 1..Len(s.mt) : /\ f[m] = 2 /\ s.mt[m] \in Closures(n) /\ s.mt[m].fn \in Steps
                                 /\ s.mt[m].q = e.jobs[2].d /\ s.mt[m].q \in Ids
                                 /\ FiredLate(e.jobs, Inners(e), s.mt[m], Out(s), f, 2)
<1>1. /\ Typed(e.jobs, s.mt, n) /\ QueueSim(e.jobs, Inners(e), s.mt, Out(s), c, f)
      /\ Embeds(f, Len(s.mt), Len(e.jobs)) /\ s \in RtType(n) /\ n \in Nat /\ 1..n \subseteq Ids
  BY FreeHeadFacts
<1>2. PICK m \in DOMAIN f : f[m] = 2
  BY DEF Free
<1>3. PICK d : d = s.mt[m]
  OBVIOUS
<1>4. m \in 1..Len(s.mt) /\ d \in Closures(n) /\ Fired(e.jobs, Inners(e), d, Out(s), c, f, 2)
  BY <1>1, <1>2, <1>3 DEF Embeds, Typed, QueueSim
<1>5. PICK j2 : j2 = e.jobs[2] /\ j2.k = "thenable" /\ j2.val = Inner(j2.d)
  BY DEF Late
<1>6. ~FiredPlain(e.jobs[2], d, Out(s), c)
  <2>1. ~Pair(j2, d)
    BY <1>5 DEF Pair
  <2>2. ASSUME d.fn = "adopt_job", j2.d = d.q, j2.val = d.h PROVE FALSE
    <3>1. d.q \in 1..n /\ d.h \in 1..n
      BY <1>1, <1>4, <2>2, ClosureFacts
    <3>2. d.h <= MaxProms /\ Inner(d.q) > MaxProms /\ d.h \in Nat /\ Inner(d.q) \in Nat /\ MaxProms \in Nat
      BY <1>1, <3>1, InnerFacts
    <3> QED BY <1>5, <2>2, <3>2
  <2> QED BY <1>5, <2>1, <2>2 DEF FiredPlain
<1>7. ~FiredThunk(e.jobs, Inners(e), d, Out(s), f, 2)
  BY <1>5 DEF FiredThunk, Pair
<1>8. FiredLate(e.jobs, Inners(e), d, Out(s), f, 2)
  BY <1>4, <1>6, <1>7 DEF Fired
<1>9. d.fn \in Steps /\ d.q = e.jobs[2].d
  BY <1>8 DEF FiredLate, Steps
<1>10. d.q \in Ids
  <2>1. d.q \in 1..n
    BY <1>1, <1>4, <1>9, ClosureFacts DEF Steps
  <2> QED BY <1>1, <2>1
<1> QED BY <1>2, <1>3, <1>4, <1>8, <1>9, <1>10

\* What the job does to the inner promise, and to nothing else.
ThunkRuns(e, e2, d, w) ==
    /\ e2 \in JsType /\ e2.jobs = Tail(e.jobs) /\ e2.comb = e.comb /\ e2.call = e.call /\ e2.ticks = e.ticks
    /\ \A q \in Js!JsIds : q # Inner(d) => e2.prom[q] = e.prom[q]
    /\ Inners(e2)[d].st # 0
    /\ \/ Inners(e)[d].st # 0 /\ Inners(e2)[d] = Inners(e)[d] /\ e2.unh = e.unh
       \/ /\ Blank(Inners(e)[d]) /\ <<Inners(e2)[d].st, Inners(e2)[d].val>> = w
          /\ e2.unh = e.unh \/ e2.unh = Append(e.unh, Inner(d))

\* A thunk settles the inner promise unless it has settled.
LEMMA ThunkSettles ==
  ASSUME NEW e \in JsType, NEW e1 \in JsType, e1.prom = e.prom, e1.unh = e.unh, e1.jobs = Tail(e.jobs), e1.comb = e.comb,
         e1.call = e.call, e1.ticks = e.ticks, NEW d \in Ids, NEW st \in Done, NEW v \in Vals, NEW w,
         \/ Inners(e)[d].st # 0
         \/ Blank(Inners(e)[d]) /\ w = <<st, v>>,
         NEW e2, e2 = Js!JsSettle(e1, Inner(d), st, v)
  PROVE  ThunkRuns(e, e2, d, w)
<1>1. PICK i, E : i = Inner(d) /\ E = Inners(e)[d]
  OBVIOUS
<1>2. i \in Js!JsIds /\ E = e1.prom[i] /\ e1.jobs \in Seq(JobType) /\ v \in Nat
  <2>1. i \in Js!JsIds /\ E = e1.prom[i]
    BY <1>1, InnerFacts DEF Inners
  <2>2. e1.jobs \in Seq(JobType)
    BY <2>1, JsWords
  <2> QED BY <2>1, <2>2 DEF Vals
<1>3. CASE E.st # 0
  <2>1. e2 = e1
    BY <1>1, <1>2, <1>3 DEF Js!JsSettle
  <2> QED BY <1>1, <1>3, <2>1 DEF ThunkRuns, Inners
<1>4. CASE E.st = 0
  <2>1. Blank(E) /\ w = <<st, v>> /\ E.rx = <<>>
    BY <1>1, <1>4 DEF Blank
  <2>2. JsSettlesTo(e1, e2, i, st, v)
    BY <1>1, <1>2, <1>4, JsSettleForm
  <2>3. PICK X, u : /\ X = JsProm(st, v, <<>>, E.handled)
                    /\ u = IF st = 2 /\ ~E.handled THEN Append(e1.unh, i) ELSE e1.unh
    OBVIOUS
  <2>4. Trig(E.rx, st, v) = <<>>
    BY <2>1 DEF Trig
  <2>5. JsPuts(e1, e2, i, X, <<>>, u)
    BY <1>2, <2>2, <2>3, <2>4 DEF JsSettlesTo
  <2>6. e1.jobs \o <<>> = e1.jobs
    BY <1>2, AppendOne
  <2>7. X.st = st /\ X.val = v /\ st # 0
    BY <2>3 DEF JsProm, Done, Fulfilled, Rejected
  <2>8. Inners(e2)[d] = X
    BY <1>1, <2>5 DEF JsPuts, Inners
  <2> QED BY <1>1, <2>1, <2>3, <2>5, <2>6, <2>7, <2>8 DEF JsPuts, JsSame, ThunkRuns
<1> QED BY <1>3, <1>4

\* ECMAScript settles the inner promise the next job makes d wait for.
LEMMA ThunkAlone ==
  ASSUME NEW e, NEW s, NEW n, NEW c, NEW f, NEW j, NEW e1, FreeHead(e, s, n, c, f, j, e1), j.k = "thunk",
         2 \in 1..Len(e.jobs), ~Free(f, 2), Late(e.jobs[2]), j.d = Inner(e.jobs[2].d)
  PROVE  Sim(Js!JsRun(e1, j), s, n, c, 0, 0) /\ Js!JsSilentJob(j)
<1>1. /\ e \in JsType /\ e.jobs \in Seq(JobType) /\ e.jobs # <<>> /\ j = e.jobs[1] /\ j \in JobType
      /\ e1 \in JsType /\ e1.prom = e.prom /\ e1.jobs = Tail(e.jobs) /\ e1.unh = e.unh /\ e1.ticks = e.ticks
      /\ e1.comb = e.comb /\ e1.call = e.call /\ e1.jobs \in Seq(JobType)
      /\ Typed(e.jobs, s.mt, n) /\ QueueSim(e.jobs, Inners(e), s.mt, Out(s), c, f) /\ Once(e.jobs)
      /\ InnerSim(e.jobs, Inners(e), s, 0, 0) /\ UnhSim(e.unh, s.unh, e.prom) /\ s.unh \in Seq(Ids)
      /\ s \in RtType(n) /\ n \in Nat /\ 1..n \subseteq Ids
      /\ e.unh \in Seq(Js!JsIds) /\ Embeds(f, Len(s.mt), Len(e.jobs))
  BY FreeHeadFacts
<1>2. Fine(s, n, c, 0) /\ Free(f, 1) /\ SimBy(e, s, n, c, 0, 0, f)
  BY DEF FreeHead
<1>3. PICK m \in 1..Len(s.mt) : /\ f[m] = 2 /\ s.mt[m] \in Closures(n) /\ s.mt[m].fn \in Steps
                                /\ s.mt[m].q = e.jobs[2].d /\ s.mt[m].q \in Ids
                                /\ FiredLate(e.jobs, Inners(e), s.mt[m], Out(s), f, 2)
  BY ThunkOwner
<1>4. PICK d, a, w, E, e2 : /\ a = s.mt[m] /\ d = a.q /\ w = Owed(a, Out(s)) /\ E = Inners(e)[d]
                            /\ e2 = Js!JsRun(e1, j)
  OBVIOUS
<1>5. w[1] \in Done /\ w[2] \in Vals /\ w = <<w[1], w[2]>>
  BY <1>1, <1>3, <1>4, OwedFacts
<1>6. d \in Ids /\ j.d = Inner(d) /\ e.jobs[2].d = d
  BY <1>3, <1>4
<1>7. \/ E.st # 0 /\ <<E.st, E.val>> = w
      \/ Blank(E) /\ Gives(j) = w
  <2>1. PICK J, I, o, b : J = e.jobs /\ I = Inners(e) /\ o = Out(s) /\ b = 2
    OBVIOUS
  <2>2. FiredLate(J, I, a, o, f, b) /\ b - 1 = 1
    BY <1>3, <1>4, <2>1
  <2>3. \/ I[d].st # 0 /\ <<I[d].st, I[d].val>> = Owed(a, o)
        \/ Blank(I[d]) /\ Gives(J[1]) = Owed(a, o)
    BY <1>4, <2>2 DEF FiredLate
  <2>4. J[1] = j /\ I[d] = E /\ Owed(a, o) = w
    BY <1>1, <1>4, <2>1
  <2> QED BY <2>3, <2>4
<1>8. Js!JsSilentJob(j) /\ ~Late(j)
  BY DEF Js!JsSilentJob, Late
<1>9. \E st \in Done, v \in Vals : /\ e2 = Js!JsSettle(e1, Inner(d), st, v)
                                   /\ E.st # 0 \/ (Blank(E) /\ w = <<st, v>>)
  <2>1. CASE Blank(E) /\ Gives(j) = w
    <3>1. CASE j.st = 1
      <4>1. w = j.keep
        BY <2>1, <3>1 DEF Gives
      <4>2. e2 = Js!JsSettle(e1, Inner(d), w[1], w[2])
        BY <1>4, <1>6, <3>1, <4>1 DEF Js!JsRun
      <4> QED BY <1>5, <2>1, <4>2
    <3>2. CASE j.st # 1
      <4>1. w = <<2, j.val>>
        BY <2>1, <3>2 DEF Gives
      <4>2. w[1] = 2 /\ w[2] = j.val
        BY <4>1
      <4>3. e2 = Js!JsSettle(e1, Inner(d), w[1], w[2])
        BY <1>4, <1>6, <3>2, <4>2 DEF Js!JsRun
      <4> QED BY <1>5, <2>1, <4>3
    <3> QED BY <3>1, <3>2
  <2>2. CASE E.st # 0
    <3>1. PICK st, v : st \in Done /\ v \in Vals
      BY <1>5
    <3>2. \A i, b : Js!JsSettle(e1, Inner(d), i, b) = e1
      BY <1>1, <1>4, <1>6, <2>2, InnerFacts DEF Js!JsSettle, Inners
    <3>3. e2 = e1
      BY <1>4, <1>6, <3>2 DEF Js!JsRun
    <3> QED BY <2>2, <3>1, <3>2, <3>3
  <2> QED BY <1>7, <2>1, <2>2
<1>10. ThunkRuns(e, e2, d, w)
  <2>1. PICK st \in Done, v \in Vals : e2 = Js!JsSettle(e1, Inner(d), st, v) /\ (E.st # 0 \/ (Blank(E) /\ w = <<st, v>>))
    BY <1>9
  <2>2. Inners(e)[d].st # 0 \/ (Blank(Inners(e)[d]) /\ w = <<st, v>>)
    BY <1>4, <2>1
  <2> QED BY <1>1, <1>6, <2>1, <2>2, ThunkSettles
<1>11. /\ e2 \in JsType /\ e2.jobs = Tail(e.jobs) /\ e2.comb = e.comb /\ e2.call = e.call /\ e2.ticks = e.ticks
       /\ \A q \in Js!JsIds : q # Inner(d) => e2.prom[q] = e.prom[q]
       /\ Inners(e2)[d].st # 0
       /\ \/ E.st # 0 /\ Inners(e2)[d] = E /\ e2.unh = e.unh
          \/ /\ Blank(E) /\ <<Inners(e2)[d].st, Inners(e2)[d].val>> = w
             /\ e2.unh = e.unh \/ e2.unh = Append(e.unh, Inner(d))
  BY <1>4, <1>10 DEF ThunkRuns
<1>12. /\ \A q \in Ids : q # d => Inners(e2)[q] = Inners(e)[q]
       /\ Inners(e2)[d] = e2.prom[Inner(d)] /\ E = e.prom[Inner(d)]
  <2>1. ASSUME NEW q \in Ids, q # d PROVE Inners(e2)[q] = Inners(e)[q]
    <3>1. Inner(q) \in Js!JsIds /\ Inner(q) # Inner(d)
      BY <1>6, <2>1, InnerFacts
    <3>2. e2.prom[Inner(q)] = e.prom[Inner(q)]
      BY <1>11, <3>1
    <3> QED BY <3>2 DEF Inners
  <2> QED BY <1>4, <1>6, <2>1 DEF Inners
<1>13. UnhSim(e2.unh, s.unh, e2.prom)
  <2>1. \A q \in Js!JsIds : e.prom[q].st # 0 => e2.prom[q].st # 0
    BY <1>11, <1>12
  <2>2. UnhSim(e.unh, s.unh, e2.prom) /\ UnhSim(Append(e.unh, Inner(d)), s.unh, e2.prom)
    <3>1. e2.prom[Inner(d)].st # 0
      BY <1>11, <1>12
    <3>2. \A q \in Ids : e.prom[q].st = 2 => e2.prom[q].st = 2
      <4>1. TAKE q \in Ids
      <4>2. q \in Js!JsIds /\ q # Inner(d)
        BY <1>6, InnerFacts
      <4> QED BY <1>11, <4>2
    <3> QED BY <1>1, <1>6, <2>1, <3>1, <3>2, UnhGrows
  <2> QED BY <1>11, <2>2
<1>14. \A i \in 1..Len(e.jobs) : Late(e.jobs[i]) /\ e.jobs[i].d = d => i = 2
  BY <1>1, <1>3, <1>6 DEF Once
<1>15. Alone(e, e2, s, f, d)
  <2>1. \A i \in 1..Len(e.jobs) : i > 1 /\ Free(f, i) /\ Late(e.jobs[i]) => e.jobs[i].d # d
    BY <1>14
  <2>2. e.jobs[1].d = Inner(d) /\ ~Late(e.jobs[1])
    BY <1>1, <1>6, <1>8
  <2> QED BY <1>11, <1>13, <2>1, <2>2 DEF Alone
<1>16. LateFor(e.jobs, d) /\ LateFor(Tail(e.jobs), d)
  <2>1. LateFor(e.jobs, d)
    BY <1>6 DEF LateFor
  <2> QED BY <1>1, <1>8, <2>1, LateTail
<1>17. InnerSim(e2.jobs, Inners(e2), s, 0, 0)
  <2>1. PICK J, I, I2 : J = e.jobs /\ I = Inners(e) /\ I2 = Inners(e2)
    OBVIOUS
  <2>2. /\ J \in Seq(JobType) /\ J # <<>> /\ d \in Ids /\ InnerSim(J, I, s, 0, 0) /\ LateFor(J, d)
        /\ (Late(J[1]) => J[1].d = d)
    BY <1>1, <1>6, <1>8, <1>16, <2>1
  <2>3. /\ \A q \in Ids : q # d => I2[q] = I[q]
        /\ I2[d].st # 0 /\ ~I2[d].handled => LateFor(Tail(J), d)
    BY <1>12, <1>16, <2>1
  <2>4. InnerSim(Tail(J), I2, s, 0, 0)
    BY <2>2, <2>3, AloneInner
  <2> QED BY <1>11, <2>1, <2>4
<1>18. \A b : ~Hook(e.jobs, Inners(e), f, d, b)
  <2>1. SUFFICES ASSUME NEW b, Hook(e.jobs, Inners(e), f, d, b) PROVE FALSE
    OBVIOUS
  <2>2. ~Hung(E, d)
    <3>1. SUFFICES ASSUME Hung(E, d) PROVE FALSE
      OBVIOUS
    <3>2. PICK l : l = E.rx
      OBVIOUS
    <3>3. E.st = 0 /\ Len(l) = 1
      BY <3>1, <3>2 DEF Hung
    <3>4. l = <<>>
      BY <1>7, <3>2, <3>3 DEF Blank
    <3> QED BY <3>3, <3>4
  <2>3. PICK i \in 1..Len(e.jobs) : Free(f, i) /\ Late(e.jobs[i]) /\ e.jobs[i].d = d
    BY <1>4, <2>1, <2>2 DEF Hook
  <2> QED BY <1>14, <2>3
<1>19. PICK g : g = Skip(f, Len(s.mt))
  OBVIOUS
<1>20. ASSUME NEW l \in 1..Len(s.mt), s.mt[l].fn \in Steps, s.mt[l].q = d
       PROVE  Fired(e2.jobs, Inners(e2), s.mt[l], Out(s), c, g, f[l] - 1)
  <2>1. PICK k, b : k = s.mt[l] /\ b = f[l]
    OBVIOUS
  <2>2. Fired(e.jobs, Inners(e), k, Out(s), c, f, b) /\ b \in 1..Len(e.jobs) /\ b # 1 /\ k.q = d
    BY <1>1, <1>2, <1>20, <2>1 DEF QueueSim, Embeds, Free
  <2>3. e2.jobs[b - 1] = e.jobs[b]
    BY <1>1, <1>11, <2>2, TailFacts
  <2>4. CASE FiredPlain(e.jobs[b], k, Out(s), c)
    BY <2>1, <2>3, <2>4 DEF Fired
  <2>5. CASE FiredLate(e.jobs, Inners(e), k, Out(s), f, b)
    <3>1. Late(e.jobs[b]) /\ e.jobs[b].d = d /\ (k.fn = "finally_step" \/ (k.fn = "defer_step" /\ k.hops = 2))
      BY <2>2, <2>5 DEF FiredLate
    <3>2. b = 2
      BY <1>14, <2>2, <3>1
    <3>3. <<Inners(e2)[d].st, Inners(e2)[d].val>> = Owed(k, Out(s))
      <4>1. \/ E.st # 0 /\ <<E.st, E.val>> = Owed(k, Out(s))
            \/ Blank(E) /\ Gives(j) = Owed(k, Out(s))
        BY <1>1, <1>4, <2>2, <2>5, <3>2 DEF FiredLate
      <4>2. CASE E.st # 0 /\ <<E.st, E.val>> = Owed(k, Out(s))
        <5>1. ~Blank(E)
          BY <4>2 DEF Blank
        <5> QED BY <1>11, <4>2, <5>1
      <4>3. CASE Blank(E) /\ Gives(j) = Owed(k, Out(s))
        <5>1. E.st = 0
          BY <4>3 DEF Blank
        <5>2. Gives(j) = w
          BY <1>7, <5>1
        <5> QED BY <1>11, <4>3, <5>1, <5>2
      <4> QED BY <4>1, <4>2, <4>3
    <3>4. FiredLate(e2.jobs, Inners(e2), k, Out(s), g, b - 1)
      BY <1>11, <2>2, <2>3, <3>1, <3>3 DEF FiredLate
    <3> QED BY <2>1, <3>4 DEF Fired
  <2>6. CASE FiredThunk(e.jobs, Inners(e), k, Out(s), f, b)
    BY <1>18, <2>2, <2>6 DEF FiredThunk
  <2> QED BY <2>2, <2>4, <2>5, <2>6 DEF Fired
<1>21. ASSUME NEW p \in Ids, NEW i \in 1..Len(Lists(s)[p]), Lists(s)[p][i].fn = "finally_step", Lists(s)[p][i].q = d
       PROVE  Hung(Inners(e2)[d], d)
  <2>1. ListSim(e.prom[p].rx, Lists(s)[p], e.jobs, Inners(e), f)
    BY FreeHeadFacts
  <2>2. Hook(e.jobs, Inners(e), f, d, Len(e.jobs) + 1)
    BY <1>21, <2>1 DEF ListSim
  <2> QED BY <1>18, <2>2
<1>22. Sim(e2, s, n, c, 0, 0)
  <2>1. \A l \in 1..Len(s.mt) : s.mt[l].fn \in Steps /\ s.mt[l].q = d
             => Fired(e2.jobs, Inners(e2), s.mt[l], Out(s), c, g, f[l] - 1)
    BY <1>20
  <2>2. \A p \in Ids : \A k \in 1..Len(Lists(s)[p]) :
             Lists(s)[p][k].fn = "finally_step" /\ Lists(s)[p][k].q = d => Hung(Inners(e2)[d], d)
    BY <1>21
  <2> QED BY <1>1, <1>2, <1>6, <1>15, <1>17, <1>19, <2>1, <2>2, SkipSim
<1> QED BY <1>4, <1>8, <1>22

\* A job of ECMAScript's no closure stands for changes nothing for the
\* runtime.
LEMMA JsAlone ==
  ASSUME NEW e, NEW s, NEW n, NEW c, NEW f, SimBy(e, s, n, c, 0, 0, f), Fine(s, n, c, 0), e.jobs # <<>>, Free(f, 1)
  PROVE  Sim(Js!JsSilent(e), s, n, c, 0, 0) /\ Js!JsSilentJob(Head(e.jobs))
<1>1. PICK j, e1 : j = Head(e.jobs) /\ e1 = JsPop(e)
  OBVIOUS
<1>2. FreeHead(e, s, n, c, f, j, e1)
  BY <1>1 DEF FreeHead
<1>3. Js!JsSilent(e) = Js!JsRun(e1, j)
  BY <1>1 DEF Js!JsSilent, JsPop
<1>4. Extra(e.jobs, Inners(e), f, 1) /\ j = e.jobs[1]
  BY <1>2, FreeHeadFacts
<1>5. CASE Late(j) /\ j.d \in Ids /\ Blank(Inners(e)[j.d])
  BY <1>1, <1>2, <1>3, <1>5, LateAlone
<1>6. CASE /\ j.k = "thunk" /\ 2 \in 1..Len(e.jobs) /\ ~Free(f, 2)
           /\ Late(e.jobs[2]) /\ j.d = Inner(e.jobs[2].d)
  BY <1>1, <1>2, <1>3, <1>6, ThunkAlone
<1>7. 1 + 1 = 2
  OBVIOUS
<1> QED BY <1>4, <1>5, <1>6, <1>7 DEF Extra

-----------------------------------------------------------------------------
(* finally's callback returns.                                             *)

\* finally's closure d is queued, and before its job the one that settles
\* the inner promise.
FinallyNow(e, e2, s, s2, q, d, K, N) ==
    /\ N = <<d>> /\ (d.fn = "finally_step" \/ (d.fn = "defer_step" /\ d.hops = 2))
    /\ K[1].k = "thunk" /\ K[1].d = Inner(q) /\ Gives(K[1]) = Owed(d, Out(s2))
    /\ \A p \in Ids : e2.prom[p].rx = e.prom[p].rx /\ Lists(s2)[p] = Lists(s)[p]

\* Or d waits for the promise the callback returned, the inner one with it.
FinallyLater(e, e2, s, s2, d, N, h, j) ==
    /\ N = <<>> /\ d.fn = "finally_step" /\ h \in Ids /\ j \in JobType /\ Pair(j, d)
    /\ e2.prom[h].rx = Append(e.prom[h].rx, j) /\ Lists(s2)[h] = Append(Lists(s)[h], d)
    /\ \A p \in Ids : p # h => e2.prom[p].rx = e.prom[p].rx /\ Lists(s2)[p] = Lists(s)[p]

FinallyTurns(e, e2, s, s2, n, q, d, K, N) ==
    /\ e2 \in JsType /\ Inners(e2) = Inners(e) /\ e2.jobs = e.jobs \o K /\ s2.mt = s.mt \o N
    /\ K \in Seq(JobType) /\ N \in Seq(Closures(n)) /\ Len(K) = 1 + Len(N) /\ Gains(s, s2, {d})
    /\ \A p \in Ids : (p # q => Out(s2)[p] = Out(s)[p]) /\ s2.prom[p].st = s.prom[p].st
    /\ Late(K[Len(K)]) /\ K[Len(K)].d = q /\ d \in Closures(n) /\ d.q = q
    /\ \/ FinallyNow(e, e2, s, s2, q, d, K, N)
       \/ \E h, j : FinallyLater(e, e2, s, s2, d, N, h, j)

\* Its inner promise is left to a job that no closure stands for.
LEMMA FinallyGrows ==
  ASSUME NEW e, NEW e2, NEW s, NEW s2, NEW n, NEW c, NEW q \in Ids, NEW d, NEW K, NEW N, Sim(e, s, n, c, 0, 0),
         Fine(s, n, c, 0), s.prom[q].st = Pending, \A k : InLists(s, k) => Key(k) # <<"settle", q>>,
         FinallyTurns(e, e2, s, s2, n, q, d, K, N), RestSim(e2, s2, n, c)
  PROVE  Sim(e2, s2, n, c, 0, 0)
<1>1. PICK f : SimBy(e, s, n, c, 0, 0, f)
  BY DEF Sim
<1>2. /\ e \in JsType /\ QueuesSim(e, s, c, f) /\ InnerSim(e.jobs, Inners(e), s, 0, 0) /\ n \in Nat
  <2>1. n \in Nat
    BY FineFacts
  <2> QED BY <1>1, <2>1 DEF SimBy
<1>3. /\ e2 \in JsType /\ Inners(e2) = Inners(e) /\ e2.jobs = e.jobs \o K /\ s2.mt = s.mt \o N
      /\ K \in Seq(JobType) /\ N \in Seq(Closures(n)) /\ Len(K) = 1 + Len(N) /\ Gains(s, s2, {d})
      /\ \A p \in Ids : (p # q => Out(s2)[p] = Out(s)[p]) /\ s2.prom[p].st = s.prom[p].st
      /\ Late(K[Len(K)]) /\ K[Len(K)].d = q /\ d \in Closures(n) /\ d.q = q
      /\ \/ FinallyNow(e, e2, s, s2, q, d, K, N)
         \/ \E h, j : FinallyLater(e, e2, s, s2, d, N, h, j)
  BY DEF FinallyTurns
<1>4. \A k : InLists(s, k) => ~(k.fn \in Steps /\ k.q = q)
  <2>1. TAKE k
  <2>2. SUFFICES ASSUME InLists(s, k), k.fn \in Steps, k.q = q PROVE FALSE
    OBVIOUS
  <2>3. k \in Closures(n)
    BY <2>2, WaitingFacts
  <2>4. Key(k) = <<"settle", q>>
    BY <1>2, <2>2, <2>3, KeyFacts DEF Steps
  <2> QED BY <2>2, <2>4
<1>5. Blank(Inners(e)[q]) /\ ~LateFor(e.jobs, q)
  <2>1. ~Deferring(s, q)
    BY <1>4 DEF Deferring, Steps
  <2>2. q # 0
    BY PromiseAssumption DEF Ids
  <2> QED BY <1>2, <2>1, <2>2 DEF InnerSim
<1>6. PICK g, z, J, J2, M, M2 : /\ z = 1 /\ J = e.jobs /\ J2 = e2.jobs /\ M = s.mt /\ M2 = s2.mt
                                /\ g = More(f, Len(M), Len(J), z, Len(N))
  OBVIOUS
<1>7. Typed(J, M, n) /\ Typed(K, N, n) /\ Len(N) \in Nat
  <2>1. Typed(J, M, n)
    BY <1>2, <1>6, PairTyped
  <2>2. Len(N) \in Nat
    BY <1>3
  <2> QED BY <1>3, <2>1, <2>2 DEF Typed
<1>8. Grown(J, J2, M, M2, f, g, K, N, z)
  BY <1>3, <1>6 DEF Grown
<1>9. Once(J) /\ Embeds(f, Len(M), Len(J))
  BY <1>2, <1>6 DEF QueuesSim, QueueSim
<1>10. /\ Typed(J2, M2, n) /\ Shifted(J, f, J2, g, 0) /\ Embeds(g, Len(M2), Len(J2))
       /\ Len(J2) = Len(J) + z + Len(N)
       /\ \A i \in 1..Len(K) : J2[Len(J) + i] = K[i]
       /\ \A i \in 1..Len(J2) : i > Len(J) => (Free(g, i) <=> i <= Len(J) + z)
  BY <1>7, <1>8, <1>9, GrownFacts
<1>11. PICK b : b = Len(J) /\ b \in Nat
  BY <1>7 DEF Typed
<1>12. \/ Len(N) = 0 /\ Len(K) = 1 /\ \E h, j : FinallyLater(e, e2, s, s2, d, N, h, j)
       \/ Len(N) = 1 /\ Len(K) = 2 /\ FinallyNow(e, e2, s, s2, q, d, K, N)
  <2>1. ASSUME NEW h, NEW j, FinallyLater(e, e2, s, s2, d, N, h, j) PROVE Len(N) = 0 /\ Len(K) = 1
    <3>1. N = <<>>
      BY <2>1 DEF FinallyLater
    <3>2. Len(N) = 0
      BY <3>1
    <3> QED BY <1>3, <3>2
  <2>2. ASSUME FinallyNow(e, e2, s, s2, q, d, K, N) PROVE Len(N) = 1 /\ Len(K) = 2
    <3>1. N = <<d>>
      BY <2>2 DEF FinallyNow
    <3>2. Len(N) = 1
      BY <3>1
    <3> QED BY <1>3, <3>2
  <2> QED BY <1>3, <2>1, <2>2
<1>13. \A i \in 1..Len(K) : Late(K[i]) => i = Len(K)
  <2>1. CASE Len(K) = 1
    BY <2>1
  <2>2. CASE Len(K) = 2 /\ FinallyNow(e, e2, s, s2, q, d, K, N)
    <3>1. ~Late(K[1])
      BY <2>2 DEF FinallyNow, Late
    <3> QED BY <2>2, <3>1
  <2> QED BY <1>12, <2>1, <2>2
<1>14. Once(J2) /\ \A i : LateFor(J2, i) <=> LateFor(J, i) \/ i = q
  <2>1. Once(K)
    BY <1>13 DEF Once
  <2>2. \A i \in 1..Len(K) : Late(K[i]) => ~LateFor(J, K[i].d)
    BY <1>3, <1>5, <1>6, <1>13
  <2>3. Len(K) \in 1..Len(K)
    BY <1>12
  <2>4. \A i : LateFor(K, i) <=> i = q
    BY <1>3, <1>13, <2>3 DEF LateFor
  <2>5. J \in Seq(JobType) /\ K \in Seq(JobType) /\ Once(J)
    BY <1>3, <1>7, <1>9 DEF Typed
  <2>6. Once(J \o K) /\ \A i : LateFor(J \o K, i) <=> LateFor(J, i) \/ LateFor(K, i)
    BY <2>1, <2>2, <2>5, LateGrows
  <2>7. J2 = J \o K
    BY <1>3, <1>6
  <2> QED BY <2>4, <2>6, <2>7
<1>15. Aside(e, e2, s, s2, f, q)
  BY <1>3, <1>4 DEF Aside
<1>16. ASSUME Len(N) = 1, Len(K) = 2, FinallyNow(e, e2, s, s2, q, d, K, N)
       PROVE  /\ J2[b + 1] = K[1] /\ J2[b + 2] = K[2] /\ Late(K[2]) /\ K[2].d = q /\ Len(J2) = b + 2
              /\ Free(g, b + 1) /\ ~Free(g, b + 2) /\ b + 1 \in 1..Len(J2) /\ b + 2 \in 1..Len(J2)
              /\ K[1].k = "thunk" /\ K[1].d = Inner(q) /\ Gives(K[1]) = Owed(d, Out(s2)) /\ N[1] = d
  <2>1. 1 \in 1..Len(K) /\ 2 \in 1..Len(K) /\ Len(J2) = b + 2
    BY <1>6, <1>10, <1>11, <1>16
  <2>2. J2[b + 1] = K[1] /\ J2[b + 2] = K[2]
    BY <1>10, <1>11, <2>1
  <2>3. b + 1 \in 1..Len(J2) /\ b + 2 \in 1..Len(J2) /\ b + 1 > b /\ b + 2 > b /\ b + 1 <= b + z /\ ~(b + 2 <= b + z)
    BY <1>6, <1>11, <2>1
  <2>4. Free(g, b + 1) /\ ~Free(g, b + 2)
    BY <1>10, <1>11, <2>3
  <2>5. N[1] = d
    BY <1>16 DEF FinallyNow
  <2> QED BY <1>3, <1>16, <2>1, <2>2, <2>3, <2>4, <2>5 DEF FinallyNow
<1>17. ASSUME Len(N) = 0, Len(K) = 1
       PROVE  /\ J2[b + 1] = K[1] /\ Late(K[1]) /\ K[1].d = q /\ Len(J2) = b + 1 /\ Free(g, b + 1) /\ b + 1 \in 1..Len(J2)
  <2>1. 1 \in 1..Len(K) /\ Len(J2) = b + 1
    BY <1>6, <1>10, <1>11, <1>17
  <2>2. J2[b + 1] = K[1]
    BY <1>10, <1>11, <2>1
  <2>3. b + 1 \in 1..Len(J2) /\ b + 1 > b /\ b + 1 <= b + z
    BY <1>6, <1>11, <2>1
  <2>4. Free(g, b + 1)
    BY <1>10, <1>11, <2>3
  <2> QED BY <1>3, <1>17, <2>1, <2>2, <2>3, <2>4
<1>18. PICK I : I = Inners(e2) /\ Blank(I[q])
  BY <1>3, <1>5
<1>19. \A i \in 1..Len(N) : Fired(J2, I, N[i], Out(s2), c, g, b + z + i)
  <2>1. CASE Len(N) = 0
    BY <2>1
  <2>2. CASE Len(N) = 1 /\ Len(K) = 2 /\ FinallyNow(e, e2, s, s2, q, d, K, N)
    <3>1. /\ J2[b + 1] = K[1] /\ J2[b + 2] = K[2] /\ Late(K[2]) /\ K[2].d = q /\ Len(J2) = b + 2
          /\ Free(g, b + 1) /\ ~Free(g, b + 2) /\ b + 1 \in 1..Len(J2) /\ b + 2 \in 1..Len(J2)
          /\ K[1].k = "thunk" /\ K[1].d = Inner(q) /\ Gives(K[1]) = Owed(d, Out(s2)) /\ N[1] = d
      BY <1>16, <2>2
    <3>2. PICK l, p : l = b + 2 /\ p = b + 1 /\ p = l - 1 /\ l > 1
      BY <1>11
    <3>3. d.fn = "finally_step" \/ (d.fn = "defer_step" /\ d.hops = 2)
      BY <2>2 DEF FinallyNow
    <3>4. FiredLate(J2, I, d, Out(s2), g, l)
      BY <1>3, <1>18, <3>1, <3>2, <3>3 DEF FiredLate
    <3>5. b + z + 1 = l
      BY <1>6, <1>11, <3>2
    <3>6. \A i \in 1..Len(N) : i = 1
      BY <2>2
    <3> QED BY <3>1, <3>4, <3>5, <3>6 DEF Fired
  <2> QED BY <1>12, <2>1, <2>2
<1>20. \A i \in 1..z : Extra(J2, I, g, b + i)
  <2>1. CASE Len(N) = 0 /\ Len(K) = 1
    <3>1. Late(J2[b + 1]) /\ J2[b + 1].d = q
      BY <1>17, <2>1
    <3>2. Extra(J2, I, g, b + 1)
      BY <1>18, <3>1 DEF Extra
    <3> QED BY <1>6, <3>2
  <2>2. CASE Len(N) = 1 /\ Len(K) = 2 /\ FinallyNow(e, e2, s, s2, q, d, K, N)
    <3>1. /\ J2[b + 1] = K[1] /\ J2[b + 2] = K[2] /\ Late(K[2]) /\ K[2].d = q /\ Len(J2) = b + 2
          /\ Free(g, b + 1) /\ ~Free(g, b + 2) /\ b + 1 \in 1..Len(J2) /\ b + 2 \in 1..Len(J2)
          /\ K[1].k = "thunk" /\ K[1].d = Inner(q) /\ Gives(K[1]) = Owed(d, Out(s2)) /\ N[1] = d
      BY <1>16, <2>2
    <3>2. PICK l, p : l = b + 2 /\ p = b + 1 /\ l = p + 1
      BY <1>11
    <3>3. Extra(J2, I, g, p)
      BY <3>1, <3>2 DEF Extra
    <3> QED BY <1>6, <3>2, <3>3
  <2> QED BY <1>12, <2>1, <2>2
<1>21. ASSUME NEW p \in Ids PROVE ListStep(e, e2, s, s2, n, g, p)
  <2>1. CASE FinallyNow(e, e2, s, s2, q, d, K, N)
    BY <2>1 DEF FinallyNow, ListStep
  <2>2. ASSUME Len(N) = 0, Len(K) = 1, NEW h, NEW j, FinallyLater(e, e2, s, s2, d, N, h, j)
        PROVE  ListStep(e, e2, s, s2, n, g, p)
    <3>1. CASE p # h
      BY <2>2, <3>1 DEF FinallyLater, ListStep
    <3>2. CASE p = h
      <4>1. /\ j \in JobType /\ Pair(j, d)
            /\ e2.prom[p].rx = Append(e.prom[p].rx, j) /\ Lists(s2)[p] = Append(Lists(s)[p], d)
        BY <2>2, <3>2 DEF FinallyLater
      <4>2. PICK l, i : l = Len(J2) + 1 /\ i = b + 1 /\ i \in 1..Len(J2) /\ i < l /\ Free(g, i) /\ Late(J2[i]) /\ J2[i].d = q
        <5>1. /\ J2[b + 1] = K[1] /\ Late(K[1]) /\ K[1].d = q /\ Len(J2) = b + 1 /\ Free(g, b + 1) /\ b + 1 \in 1..Len(J2)
          BY <1>17, <2>2
        <5> QED BY <1>11, <5>1
      <4>3. Hook(J2, I, g, q, l)
        BY <1>18, <4>2 DEF Hook
      <4>4. Hook(e2.jobs, Inners(e2), g, d.q, Len(e2.jobs) + 1)
        BY <1>3, <1>6, <1>18, <4>2, <4>3
      <4> QED BY <1>3, <4>1, <4>4 DEF ListStep
    <3> QED BY <3>1, <3>2
  <2> QED BY <1>12, <2>1, <2>2
<1>22. QueuesSim(e2, s2, c, g)
  <2>1. \A i \in 1..Len(N) : Fired(e2.jobs, Inners(e2), N[i], Out(s2), c, g, Len(e.jobs) + z + i)
    BY <1>6, <1>11, <1>18, <1>19
  <2>2. \A i \in 1..z : Extra(e2.jobs, Inners(e2), g, Len(e.jobs) + i)
    BY <1>6, <1>11, <1>18, <1>20
  <2>3. Grown(e.jobs, e2.jobs, s.mt, s2.mt, f, g, K, N, z) /\ Once(e2.jobs) /\ Typed(K, N, n)
    BY <1>6, <1>7, <1>8, <1>14
  <2>4. \A p \in Ids : ListStep(e, e2, s, s2, n, g, p)
    BY <1>21
  <2>5. e \in JsType /\ e2 \in JsType /\ QueuesSim(e, s, c, f)
    BY <1>2, <1>3
  <2> QED BY <1>15, <2>1, <2>2, <2>3, <2>4, <2>5, QueuesGrow
<1>23. InnerSim(e2.jobs, Inners(e2), s2, 0, 0)
  <2>1. \A i : Deferring(s, i) => Deferring(s2, i)
    BY <1>3 DEF Deferring, Gains
  <2>2. Deferring(s2, q)
    <3>1. d.fn \in {"finally_step", "defer_step"} /\ InLists(s2, d)
      BY <1>3 DEF FinallyNow, FinallyLater, Gains
    <3> QED BY <1>3, <3>1 DEF Deferring
  <2>3. ASSUME NEW i \in Ids, s2.prom[i].st = Pending, ~Deferring(s2, i) PROVE Blank(Inners(e2)[i]) /\ ~LateFor(e2.jobs, i)
    <3>1. i # q /\ ~Deferring(s, i) /\ s.prom[i].st = Pending /\ i # 0
      <4>1. i # 0
        BY PromiseAssumption DEF Ids
      <4> QED BY <1>3, <2>1, <2>2, <2>3, <4>1
    <3>2. Blank(Inners(e)[i]) /\ ~LateFor(e.jobs, i)
      BY <1>2, <3>1 DEF InnerSim
    <3> QED BY <1>3, <1>6, <1>14, <3>1, <3>2
  <2>4. ASSUME NEW i \in Ids, Inners(e2)[i].st # 0, ~Inners(e2)[i].handled PROVE LateFor(e2.jobs, i)
    <3>1. i # 0
      BY PromiseAssumption DEF Ids
    <3>2. LateFor(e.jobs, i)
      BY <1>2, <1>3, <2>4, <3>1 DEF InnerSim
    <3> QED BY <1>6, <1>14, <3>2
  <2> QED BY <2>3, <2>4 DEF InnerSim
<1> QED BY <1>3, <1>22, <1>23 DEF Sim, SimBy

-----------------------------------------------------------------------------
(* The operations of the running code.                                     *)

\* A promise more may be created: it is pending.
LEMMA GrowSim ==
  ASSUME NEW e, NEW s, NEW n \in Nat, NEW c, NEW x, NEW y, Sim(e, s, n, c, x, y), NEW q, q = n + 1
  PROVE  Sim(e, s, q, c, x, y) /\ (q \in Ids => s.prom[q].st = Pending)
<1>1. PICK f : SimBy(e, s, n, c, x, y, f)
  BY DEF Sim
<1>2. \A p \in Ids : p > q => p > n
  BY PromiseAssumption DEF Ids
<1>3. RestSim(e, s, q, c)
  BY <1>1, <1>2 DEF SimBy, RestSim
<1>4. SimBy(e, s, q, c, x, y, f)
  BY <1>1, <1>3 DEF SimBy
<1>5. q \in Ids => s.prom[q].st = Pending
  BY <1>1 DEF SimBy, RestSim
<1>6. QED
  BY <1>4, <1>5 DEF Sim

\* The same where nothing but the words that no queue depends on changes.
LEMMA SameSim ==
  ASSUME NEW e, NEW e2 \in JsType, NEW s, NEW s2, NEW n, NEW c, NEW x, NEW y, Sim(e, s, n, c, x, y), Fine(s, n, c, 0),
         e2.prom = e.prom, e2.jobs = e.jobs, e2.unh = e.unh, e2.ticks = e.ticks, e2.comb = e.comb,
         c.run.fn \in Waiters => e2.call = e.call, s2.prom = s.prom, s2.mt = s.mt, s2.unh = s.unh, s2.tq = s.tq
  PROVE  Sim(e2, s2, n, c, x, y)
<1>1. RestSim(e, s, n, c)
  BY SimFacts
<1>2. Out(s2) = Out(s)
  BY DEF Out
<1>3. \A d : InLists(s2, d) <=> InLists(s, d)
  BY DEF InLists, Lists
<1>4. Owners(s2, c)
  BY <1>1, <1>3 DEF RestSim, Owners
<1>5. CombSim(e2.comb, s2, c) /\ CallSim(e2.call, Out(s2), c) /\ UnhSim(e2.unh, s2.unh, e2.prom)
  BY <1>1, <1>2 DEF RestSim, CombSim, CallSim
<1>6. RestSim(e2, s2, n, c)
  BY <1>1, <1>4, <1>5 DEF RestSim
<1>7. QED
  BY <1>6, SimContext

\* PerformPromiseThen and the runtime's attach.
LEMMA AttachBoth ==
  ASSUME NEW e, NEW s, NEW n, NEW c, NEW x, NEW y, NEW p \in Ids, NEW j \in JobType, NEW d \in Closures(n),
         Sim(e, s, n, c, x, y), Fine(s, n, c, 0), RunOk(s, c), Pair(j, d), d.fn \notin Steps, Src(d, c) = p, Allowed(s, d)
  PROVE  Sim(Js!JsAttach(e, p, j), Attach(s, p, d), n, c, x, y) /\ Same(s, Attach(s, p, d))
<1>1. e \in JsType /\ s \in RtType(n) /\ p \in Js!JsIds
  BY SimFacts
<1>2. PICK e2 : e2 = Js!JsAttach(e, p, j)
  OBVIOUS
<1>3. PICK s2 : s2 = Attach(s, p, d)
  OBVIOUS
<1>4. JsAttachesTo(e, e2, p, j)
  BY <1>1, <1>2, JsAttachForm
<1>5. AttachesTo(s, s2, p, d)
  BY <1>1, <1>3, AttachForms
<1>6. Sim(e2, s2, n, c, x, y)
  BY <1>4, <1>5, BothAttach
<1>7. Same(s, s2)
  BY <1>5 DEF AttachesTo, Puts
<1>8. QED
  BY <1>2, <1>3, <1>6, <1>7

\* A job and a closure that are queued at once.
LEMMA EnqueueBoth ==
  ASSUME NEW e, NEW s, NEW n, NEW c, NEW x, NEW y, NEW j \in JobType, NEW d \in Closures(n),
         Sim(e, s, n, c, x, y), Fine(s, n, c, 0), RunOk(s, c), FiredPlain(j, d, Out(s), c), ~Late(j), Allowed(s, d)
  PROVE  /\ Sim([e EXCEPT !.jobs = Append(@, j)], Enqueue(s, d), n, c, x, y) /\ Same(s, Enqueue(s, d))
         /\ [e EXCEPT !.jobs = Append(@, j)] \in JsType
<1>1. e \in JsType /\ s \in RtType(n)
  BY SimFacts
<1>2. PICK e2 : e2 = [e EXCEPT !.jobs = Append(@, j)]
  OBVIOUS
<1>3. PICK s2 : s2 = Enqueue(s, d)
  OBVIOUS
<1>4. JsMovesTo(e, e2, e.jobs \o <<j>>) /\ e2.call = e.call
  BY <1>1, <1>2, JsMoveForms
<1>5. MovesTo(s, s2, Append(s.mt, d))
  BY <1>1, <1>3, MoveForms
<1>6. Sim(e2, s2, n, c, x, y)
  BY <1>4, <1>5, BothEnqueue
<1>7. Same(s, s2) /\ e2 \in JsType
  BY <1>4, <1>5 DEF MovesTo, JsMovesTo
<1>8. QED
  BY <1>2, <1>3, <1>6, <1>7

\* The two machines between two operations of the running code.
Beside(e, s, n, stk) == Good(s, n, stk) /\ n >= Deferred /\ Sim(e, s, n, Ctx(s), 0, 0)

\* p.then and p.finally.
LEMMA ThenSim ==
  ASSUME NEW e, NEW s, NEW n, NEW stk, Beside(e, s, n, stk), NEW q, q = n + 1, q \in Ids, NEW p \in 1..n
  PROVE  /\ \A on \in SUBSET Done : Sim(Js!JsThen(e, p, q, on), Then(s, p, q, on), q, Ctx(Then(s, p, q, on)), 0, 0)
         /\ Sim(Js!JsFinally(e, p, q), Finally(s, p, q), q, Ctx(Finally(s, p, q)), 0, 0)
<1>0. Good(s, n, stk) /\ n >= Deferred /\ Sim(e, s, n, Ctx(s), 0, 0)
  BY DEF Beside
<1>1. n \in Nat /\ Deferred \in Nat /\ q > Deferred
  BY <1>0, GoodFacts, PromiseAssumption
<1>2. PICK c : c = Ctx(s)
  OBVIOUS
<1>3. Sim(e, s, q, c, 0, 0) /\ s.prom[q].st = Pending
  BY <1>0, <1>1, <1>2, GrowSim
<1>4. Owes(s, q, c, <<"settle", q>>, 1) /\ q \in Nat
  BY <1>0, <1>2, NewOwes
<1>5. Fine(s, q, c, 0) /\ RunOk(s, c)
  BY <1>4 DEF Owes
<1>6. p \in 1..q /\ q \in 1..q /\ p \in Ids
  BY <1>1, <1>5, FineFacts
<1>7. ASSUME NEW k \in Waiters, NEW on \in SUBSET Done, NEW d \in Closures(q), d.fn = k, d.p = p, d.q = q,
             k = "then" => d.on = on
      PROVE  LET j == Js!Reaction(k, q, on, Js!Plain) IN
             Sim(Js!JsAttach(e, p, j), Attach(s, p, d), q, Ctx(Attach(s, p, d)), 0, 0)
  <2>1. PICK j : j = Js!Reaction(k, q, on, Js!Plain)
    OBVIOUS
  <2>2. k \in JobKinds /\ k \in {"then", "finally"}
    BY DEF Waiters, JobKinds
  <2>3. Js!Plain \in Nat \X Nat
    BY DEF Js!Plain
  <2>4. j \in JobType /\ j.k = k /\ j.d = q /\ j.on = on
    BY <1>4, <2>1, <2>2, <2>3, ReactionFacts
  <2>5. Pair(j, d) /\ d.fn \notin Steps
    BY <1>7, <2>2, <2>4 DEF Pair, Steps
  <2>6. Src(d, c) = p
    BY <1>7, <2>2 DEF Src
  <2>7. Allowed(s, d)
    BY <1>1, <1>3, <1>7 DEF Allowed
  <2>8. Sim(Js!JsAttach(e, p, j), Attach(s, p, d), q, c, 0, 0) /\ Same(s, Attach(s, p, d))
    BY <1>3, <1>5, <1>6, <2>4, <2>5, <2>6, <2>7, AttachBoth
  <2>9. Ctx(Attach(s, p, d)) = c
    BY <1>2, <2>8 DEF Same, Ctx
  <2>10. QED
    BY <2>1, <2>8, <2>9
<1>8. ASSUME NEW on \in SUBSET Done
      PROVE  Sim(Js!JsThen(e, p, q, on), Then(s, p, q, on), q, Ctx(Then(s, p, q, on)), 0, 0)
  <2>1. PICK d : d = [fn |-> "then", p |-> p, q |-> q, on |-> on]
    OBVIOUS
  <2>2. d \in Closures(q)
    BY <1>4, <1>6, <2>1, MakeClosures
  <2>3. d.fn = "then" /\ d.p = p /\ d.q = q /\ d.on = on /\ "then" \in Waiters
    BY <2>1 DEF Waiters
  <2>4. Then(s, p, q, on) = Attach(s, p, d)
    BY <2>1 DEF Then
  <2>5. Js!JsThen(e, p, q, on) = Js!JsAttach(e, p, Js!Reaction("then", q, on, Js!Plain))
    BY DEF Js!JsThen
  <2>6. QED
    BY <1>7, <2>2, <2>3, <2>4, <2>5
<1>9. Sim(Js!JsFinally(e, p, q), Finally(s, p, q), q, Ctx(Finally(s, p, q)), 0, 0)
  <2>1. PICK d : d = [fn |-> "finally", p |-> p, q |-> q]
    OBVIOUS
  <2>2. d \in Closures(q)
    BY <1>4, <1>6, <2>1, MakeClosures
  <2>3. d.fn = "finally" /\ d.p = p /\ d.q = q /\ "finally" \in Waiters /\ {} \in SUBSET Done
    BY <2>1 DEF Waiters
  <2>4. Finally(s, p, q) = Attach(s, p, d)
    BY <2>1 DEF Finally
  <2>5. Js!JsFinally(e, p, q) = Js!JsAttach(e, p, Js!Reaction("finally", q, {}, Js!Plain))
    BY DEF Js!JsFinally
  <2>6. QED
    BY <1>7, <2>2, <2>3, <2>4, <2>5
<1>10. QED
  BY <1>8, <1>9

\* What the program's own words are changed to.
LEMMA CtxSim ==
  ASSUME NEW e, NEW e2 \in JsType, NEW s, NEW s2, NEW n, NEW c, NEW c2, NEW x, NEW y, Sim(e, s, n, c, x, y), Fine(s, n, c, 0),
         e2.prom = e.prom, e2.jobs = e.jobs, e2.unh = e.unh, s2.prom = s.prom, s2.mt = s.mt, s2.unh = s.unh, e2.ticks = s2.tq,
         \A d : InLists(s, d) => Src(d, c2) = Src(d, c),
         Owners(s, c2), CombSim(e2.comb, s, c2), CallSim(e2.call, Out(s), c2)
  PROVE  Sim(e2, s2, n, c2, x, y)
<1>1. RestSim(e, s, n, c)
  BY SimFacts
<1>2. Out(s2) = Out(s)
  BY DEF Out
<1>3. \A d : InLists(s2, d) <=> InLists(s, d)
  BY DEF InLists, Lists
<1>4. Owners(s2, c2)
  BY <1>3 DEF Owners
<1>5. CombSim(e2.comb, s2, c2) /\ CallSim(e2.call, Out(s2), c2) /\ UnhSim(e2.unh, s2.unh, e2.prom)
  BY <1>1, <1>2 DEF RestSim, CombSim
<1>6. RestSim(e2, s2, n, c2)
  BY <1>1, <1>4, <1>5 DEF RestSim
<1>7. QED
  BY <1>6, SimContext

\* The program's resolve and reject, of promises new Promise made.
LEMMA ResolveSim ==
  ASSUME NEW e, NEW s, NEW n, NEW stk, Beside(e, s, n, stk), NEW p \in 1..Deferred
  PROVE  /\ Sim(Js!JsSettle(e, p, 1, p), ResolveThunk(s, p, p), n, Ctx(ResolveThunk(s, p, p)), 0, 0)
         /\ Sim(Js!JsSettle(e, p, 2, p), RejectWith(s, p, p), n, Ctx(RejectWith(s, p, p)), 0, 0)
<1>0. Good(s, n, stk) /\ n >= Deferred /\ Sim(e, s, n, Ctx(s), 0, 0)
  BY DEF Beside
<1>1. PICK c : c = Ctx(s)
  OBVIOUS
<1>2. /\ Owes(s, n, c, NoKey, 0) /\ Fine(s, n, c, 0) /\ RunOk(s, c) /\ n \in Nat /\ 1..n \subseteq Ids
      /\ 1..n \subseteq Vals
  BY <1>0, <1>1, GoodFacts
<1>3. p \in 1..n /\ p \in Ids /\ p \in Vals /\ ~(p > Deferred)
  BY <1>0, <1>2, PromiseAssumption
<1>4. /\ RestSim(e, s, n, c) /\ Owners(s, c) /\ e.prom[p].st = s.prom[p].st
  BY <1>0, <1>1, <1>2, <1>3, SimFacts
<1>5. Lone(s, c, p)
  BY <1>2, <1>3, <1>4, LoneFacts
<1>6. ASSUME NEW st \in Done, NEW r, \/ st = Rejected /\ r = RejectWith(s, p, p)
                                     \/ st = Fulfilled /\ r = ResolveThunk(s, p, p)
      PROVE  Sim(Js!JsSettle(e, p, st, p), r, n, Ctx(r), 0, 0)
  <2>1. CASE s.prom[p].st = Pending
    <3>1. Sim(e, s, n, c, 0, 0)
      BY <1>0, <1>1
    <3>2. PICK x, y : x = 0 /\ y = 0
      OBVIOUS
    <3>3. Sim(e, s, n, c, x, y) /\ x \in {0, p}
      BY <3>1, <3>2
    <3>4. Sim(Js!JsSettle(e, p, st, p), r, n, c, 0, y) /\ Same(s, r)
      BY <1>2, <1>3, <1>5, <1>6, <2>1, <3>3, SettleBoth
    <3>5. Ctx(r) = c
      BY <1>1, <3>4 DEF Same, Ctx
    <3> QED BY <3>2, <3>4, <3>5
  <2>2. CASE s.prom[p].st # Pending
    <3>1. r = s
      BY <1>6, <2>2 DEF RejectWith, ResolveThunk
    <3>2. Js!JsSettle(e, p, st, p) = e
      BY <1>4, <2>2 DEF Js!JsSettle, Pending
    <3> QED BY <1>0, <3>1, <3>2
  <2> QED BY <2>1, <2>2
<1>7. 1 \in Done /\ 2 \in Done /\ Fulfilled = 1 /\ Rejected = 2
  BY DEF Done, Fulfilled, Rejected
<1> QED BY <1>6, <1>7

\* process.nextTick.
LEMMA TickSim ==
  ASSUME NEW e, NEW s, NEW n, NEW stk, Beside(e, s, n, stk), NEW m \in Nat
  PROVE  Sim(Js!JsTick(e, m), NextTick(s, m), n, Ctx(NextTick(s, m)), 0, 0)
<1>0. Good(s, n, stk) /\ n >= Deferred /\ Sim(e, s, n, Ctx(s), 0, 0)
  BY DEF Beside
<1>1. PICK c : c = Ctx(s)
  OBVIOUS
<1>2. Fine(s, n, c, 0) /\ Sim(e, s, n, c, 0, 0) /\ s \in RtType(n)
  BY <1>0, <1>1, GoodFacts
<1>3. e \in JsType /\ RestSim(e, s, n, c) /\ e.ticks = s.tq
  BY <1>2, SimFacts
<1>4. PICK e2 : e2 = Js!JsTick(e, m)
  OBVIOUS
<1>5. PICK s2 : s2 = NextTick(s, m)
  OBVIOUS
<1>6. /\ e2 \in JsType /\ e2.prom = e.prom /\ e2.jobs = e.jobs /\ e2.unh = e.unh /\ e2.comb = e.comb /\ e2.call = e.call
      /\ e2.ticks = Append(e.ticks, m)
  <2>1. e.ticks \in Seq(Nat)
    BY <1>3 DEF JsType
  <2>2. Append(e.ticks, m) \in Seq(Nat)
    BY <2>1
  <2> QED BY <1>3, <1>4, <2>2 DEF JsType, Js!JsTick
<1>7. s2.prom = s.prom /\ s2.mt = s.mt /\ s2.unh = s.unh /\ s2.tq = Append(s.tq, m) /\ Ctx(s2) = c
  BY <1>1, <1>2, <1>5 DEF RtType, NextTick, Ctx
<1>8. Owners(s, c) /\ CombSim(e2.comb, s, c) /\ CallSim(e2.call, Out(s), c) /\ e2.ticks = s2.tq
  BY <1>3, <1>6, <1>7 DEF RestSim
<1>9. \A d : InLists(s, d) => Src(d, c) = Src(d, c)
  OBVIOUS
<1>10. Sim(e2, s2, n, c, 0, 0)
  BY <1>2, <1>6, <1>7, <1>8, <1>9, CtxSim
<1> QED BY <1>4, <1>5, <1>7, <1>10

\* What a closure waits for depends on what its task waits for.
LEMMA SourceStays ==
  ASSUME NEW d, NEW c, NEW c2, d.fn = "resume" => c2.task[d.t].on = c.task[d.t].on
  PROVE  Src(d, c2) = Src(d, c)
BY DEF Src

\* A call of an async function.
LEMMA AsyncSim ==
  ASSUME NEW e, NEW s, NEW n, NEW stk, Beside(e, s, n, stk), stk # <<>>, NEW q, q = n + 1, q \in Ids
  PROVE  Sim(e, SpawnTask(s, q), q, Ctx(SpawnTask(s, q)), 0, 0)
<1>0. Good(s, n, stk) /\ n >= Deferred /\ Sim(e, s, n, Ctx(s), 0, 0)
  BY DEF Beside
<1>1. PICK c : c = Ctx(s)
  OBVIOUS
<1>2. n \in Nat /\ Deferred \in Nat /\ q > Deferred /\ s \in RtType(n) /\ c \in CtxType(n) /\ Fine(s, n, c, 0)
  BY <1>0, <1>1, GoodFacts, PromiseAssumption
<1>3. Sim(e, s, q, c, 0, 0) /\ s.prom[q].st = Pending
  BY <1>0, <1>1, <1>2, GrowSim
<1>4. Fine(s, q, c, 0)
  BY <1>2, FineGrow
<1>5. e \in JsType /\ RestSim(e, s, q, c) /\ e.ticks = s.tq
  BY <1>3, <1>4, SimFacts
<1>6. PICK s2 : s2 = SpawnTask(s, q)
  OBVIOUS
<1>7. PICK c2 : c2 = Ctx(s2)
  OBVIOUS
<1>8. /\ s2.prom = s.prom /\ s2.mt = s.mt /\ s2.unh = s.unh /\ s2.tq = s.tq /\ s2.comb = s.comb /\ s2.run = s.run
      /\ s2.task = [s.task EXCEPT ![q].st = "running"]
  BY <1>2, <1>6 DEF RtType, SpawnTask
<1>9. s.task \in [Ids -> TaskType]
  BY <1>2 DEF RtType
<1>10. \A t \in Ids : c2.task[t].on = c.task[t].on /\ (t # q => c2.task[t].st = c.task[t].st)
  BY <1>1, <1>7, <1>8, <1>9 DEF Ctx, TaskType
<1>11. c2.comb = c.comb /\ c2.run = c.run
  BY <1>1, <1>7, <1>8 DEF Ctx
<1>12. ASSUME NEW d, InLists(s, d)
       PROVE  Src(d, c2) = Src(d, c)
  <2>1. d \in Closures(n) /\ 1..n \subseteq Ids
    BY <1>2, <1>12, WaitingFacts, FineFacts
  <2>2. d.fn = "resume" => d.t \in Ids
    BY <1>2, <2>1, ClosureFacts
  <2> QED BY <1>10, <2>2, SourceStays
<1>13. Owners(s, c2)
  BY <1>2, <1>3, <1>5, <1>10, <1>11 DEF Owners, RestSim
<1>14. CombSim(e.comb, s, c2) /\ CallSim(e.call, Out(s), c2)
  BY <1>5, <1>11 DEF CombSim, CallSim, RestSim
<1>15. Sim(e, s2, q, c2, 0, 0)
  BY <1>3, <1>4, <1>5, <1>8, <1>12, <1>13, <1>14, CtxSim
<1> QED BY <1>6, <1>7, <1>15

\* A combinator's record begins.
CombBegins(e, s, n, e1, z, q, c2, y) ==
    /\ Sim(e1, z, q, c2, 0, 0) /\ Fine(z, q, c2, 0) /\ RunOk(z, c2) /\ Lone(z, c2, q)
    /\ z.prom[q].st = Pending /\ c2.comb[q] = y /\ z.comb[q] = y /\ q \in Nat /\ q \in 1..q /\ 1..n \subseteq 1..q
CombStarts(e, s, e1, z, q, c2, y) == e1 = [e EXCEPT !.comb[q] = y] /\ z = StartComb(s, q, y) /\ c2 = Ctx(z)

\* ECMAScript's record and the runtime's begin alike, with a promise that waits.
LEMMA StartSim ==
  ASSUME NEW e, NEW s, NEW n, NEW stk, Beside(e, s, n, stk), NEW q, q = n + 1, q \in Ids, NEW y \in CombType, y.kind # "none",
         NEW e1, NEW z, NEW c2, CombStarts(e, s, e1, z, q, c2, y)
  PROVE  CombBegins(e, s, n, e1, z, q, c2, y)
<1>a. e1 = [e EXCEPT !.comb[q] = y] /\ z = StartComb(s, q, y) /\ c2 = Ctx(z)
  BY DEF CombStarts
<1>0. Good(s, n, stk) /\ n >= Deferred /\ Sim(e, s, n, Ctx(s), 0, 0)
  BY DEF Beside
<1>1. PICK c : c = Ctx(s)
  OBVIOUS
<1>2. /\ n \in Nat /\ Deferred \in Nat /\ q > Deferred /\ s \in RtType(n) /\ c \in CtxType(n) /\ Fine(s, n, c, 0)
      /\ Owes(s, n, c, NoKey, 0) /\ RunOk(s, c) /\ 1..n \subseteq Ids
  BY <1>0, <1>1, GoodFacts, PromiseAssumption
<1>3. Sim(e, s, q, c, 0, 0) /\ s.prom[q].st = Pending
  BY <1>0, <1>1, <1>2, GrowSim
<1>4. Fine(s, q, c, 0)
  BY <1>2, FineGrow
<1>5. e \in JsType /\ RestSim(e, s, q, c) /\ e.ticks = s.tq /\ s \in RtType(q)
  BY <1>3, <1>4, SimFacts
<1>6. Alike(s, z, q) /\ Ctx(z) = WithComb(c, q, y)
  BY <1>a, <1>1, <1>5, StartFacts
<1>7. c2 \in CtxType(q) /\ c2.task = c.task /\ c2.run = c.run /\ c2.comb[q] = y
      /\ \A i \in Ids : i # q => c2.comb[i] = c.comb[i]
  <2>1. c \in CtxType(q)
    BY <1>4 DEF Fine
  <2> QED BY <1>a, <1>6, <2>1, WithFacts
<1>8. /\ e1 \in JsType /\ e1.prom = e.prom /\ e1.jobs = e.jobs /\ e1.unh = e.unh /\ e1.ticks = e.ticks /\ e1.call = e.call
      /\ e1.comb[q] = y /\ \A i \in Ids : i # q => e1.comb[i] = e.comb[i]
  <2>1. e.comb \in [Ids -> JsCombType]
    BY <1>5 DEF JsType
  <2>2. y \in JsCombType
    BY DEF CombType, JsCombType
  <2> QED BY <1>a, <1>5, <2>1, <2>2 DEF JsType
<1>9. z.unh = s.unh /\ z.tq = s.tq /\ z.prom = s.prom /\ z.mt = s.mt /\ z.comb[q] = y
  <2>1. z.unh = s.unh /\ z.tq = s.tq
    BY <1>a, <1>2 DEF RtType, StartComb
  <2>2. z.comb[q] = y
    BY <1>a, <1>6, <1>7 DEF Ctx
  <2> QED BY <1>6, <2>1, <2>2 DEF Alike
<1>10. ASSUME NEW d, InLists(s, d)
       PROVE  Src(d, c2) = Src(d, c) /\ Key(d) # <<"settle", q>> /\ Fit(d, c2)
  <2>1. d \in Closures(n) /\ Fit(d, c)
    BY <1>2, <1>10, WaitingFacts
  <2>2. Src(d, c2) = Src(d, c)
    BY <1>7, SourceStays
  <2>3. Key(d)[1] = "settle" => d.q \in 1..n /\ Key(d) = <<"settle", d.q>>
    BY <1>2, <2>1, KeyFacts DEF NoKey
  <2>4. Key(d)[1] = "settle" => d.q # q /\ d.q \in Ids
    BY <1>2, <2>3
  <2>5. Key(d) # <<"settle", q>>
    BY <2>3, <2>4
  <2>6. Fit(d, c2)
    BY <1>7, <2>1, <2>4 DEF Fit
  <2> QED BY <2>2, <2>5, <2>6
<1>11. Owners(s, c2)
  BY <1>2, <1>5, <1>7 DEF Owners, RestSim
<1>12. CombSim(e1.comb, s, c2) /\ CallSim(e1.call, Out(s), c2)
  BY <1>5, <1>7, <1>8 DEF CombSim, CallSim, RestSim
<1>13. Sim(e1, z, q, c2, 0, 0)
  <2>1. \A d : InLists(s, d) => Src(d, c2) = Src(d, c)
    BY <1>10
  <2>2. e1.ticks = z.tq
    BY <1>5, <1>8, <1>9
  <2> QED BY <1>3, <1>4, <1>8, <1>9, <1>11, <1>12, <2>1, <2>2, CtxSim
<1>14. Fine(z, q, c2, 0)
  <2>1. Fine(s, q, c2, 0)
    BY <1>4, <1>7, <1>10, CtxFine
  <2>2. Lists(z) = Lists(s)
    BY <1>9 DEF Lists
  <2> QED BY <1>6, <1>9, <2>1, <2>2 DEF Fine, Alike, Counted, Count, Waits
<1>15. c.run.fn \in Waiters => c.run.q \in 1..n /\ c.run.q \in Ids /\ c.run.q # q /\ Key(c.run) = <<"settle", c.run.q>>
  <2>1. c.run.fn \in Waiters => c.run \in Closures(n) /\ c.run.q \in 1..n
    BY <1>2, RunFacts
  <2> QED BY <1>2, <2>1, KeyFacts DEF Waiters
<1>16. RunOk(z, c2)
  BY <1>2, <1>7, <1>9, <1>15 DEF RunOk, Fit
<1>17. Lone(z, c2, q)
  <2>1. \A d : InLists(z, d) => Key(d) # <<"settle", q>>
    BY <1>9, <1>10 DEF InLists, Lists
  <2>2. c.task[q].st = "none"
    BY <1>2 DEF Owes, Fresh
  <2> QED BY <1>7, <1>15, <2>1, <2>2 DEF Lone
<1>18. q \in Nat /\ q \in 1..q /\ 1..n \subseteq 1..q
  BY <1>2
<1> QED BY <1>3, <1>7, <1>9, <1>13, <1>14, <1>16, <1>17, <1>18 DEF CombBegins

\* A member is joined.
LEMMA JoinSim ==
  ASSUME NEW e, NEW s, NEW n, NEW c, Sim(e, s, n, c, 0, 0), Fine(s, n, c, 0), RunOk(s, c), NEW q \in 1..n, NEW p \in 1..n,
         c.comb[q].kind # "none", NEW s2, s2 = JoinTo(s, p, q),
         NEW e2, e2 = Js!JsAttach(e, p, Js!Reaction("member", q, {}, Js!Plain))
  PROVE  Sim(e2, s2, n, c, 0, 0) /\ Fine(s2, n, c, 0) /\ RunOk(s2, c) /\ Same(s, s2)
<1>1. n \in Nat /\ p \in Ids /\ q \in Nat
  BY FineFacts
<1>2. PICK d \in Closures(n) : d = [fn |-> "comb", p |-> p, q |-> q]
  BY <1>1, MakeClosures
<1>3. Key(d) = <<"settle", q>> /\ Src(d, c) = p /\ d.fn = "comb" /\ d.q = q
  BY <1>2 DEF Key, Src
<1>4. Fit(d, c)
  BY <1>3 DEF Fit, Waiters
<1>5. s2 = Attach(s, p, d)
  BY <1>2 DEF JoinTo
<1>6. Adds(s, s2, n, c, <<"settle", q>>)
  BY <1>1, <1>3, <1>4, <1>5, AttachAdds
<1>7. PICK j : j = Js!Reaction("member", q, {}, Js!Plain)
  OBVIOUS
<1>8. j \in JobType /\ j.k = "member" /\ j.d = q
  <2>1. "member" \in JobKinds /\ Js!Plain \in Nat \X Nat /\ {} \in SUBSET Done
    BY DEF JobKinds, Js!Plain
  <2> QED BY <1>1, <1>7, <2>1, ReactionFacts
<1>9. Pair(j, d) /\ d.fn \notin Steps /\ Allowed(s, d)
  BY <1>3, <1>8 DEF Pair, Steps, Allowed
<1>10. Sim(Js!JsAttach(e, p, j), Attach(s, p, d), n, c, 0, 0)
  BY <1>1, <1>3, <1>8, <1>9, AttachBoth
<1>11. Fine(s2, n, c, 0) /\ Same(s, s2) /\ \A r \in Ids : s.prom[r].st # Pending => s2.prom[r].st # Pending
  BY <1>6 DEF Adds
<1>12. RunOk(s2, c)
  <2>1. c.run.fn \in Waiters => c.run.p \in Ids
    BY RunFacts, FineFacts
  <2> QED BY <1>11, <2>1 DEF RunOk
<1> QED BY <1>5, <1>7, <1>10, <1>11, <1>12

\* Promise.all and the others.
LEMMA CombinatorSim ==
  ASSUME NEW e, NEW s, NEW n, NEW stk, Beside(e, s, n, stk), NEW q, q = n + 1, q \in Ids,
         NEW kind \in {"all", "allSettled", "any", "race"}, NEW members \in {<<>>} \cup ((1..n) \X (1..n))
  PROVE  Sim(Js!JsCombinator(e, kind, q, members), Combinator(s, kind, q, members), q, Ctx(Combinator(s, kind, q, members)), 0, 0)
<1>1. PICK y \in CombType : y = [kind |-> kind, left |-> Len(members)] /\ y.kind = kind
  <2>1. Len(members) \in 0..2
    OBVIOUS
  <2>2. [kind |-> kind, left |-> Len(members)] \in CombType
    BY <2>1 DEF CombType
  <2> QED BY <2>2
<1>2. PICK e1 : e1 = [e EXCEPT !.comb[q] = y]
  OBVIOUS
<1>3. PICK z : z = StartComb(s, q, y)
  OBVIOUS
<1>4. PICK c2 : c2 = Ctx(z)
  OBVIOUS
<1>5. CombBegins(e, s, n, e1, z, q, c2, y)
  <2>1. CombStarts(e, s, e1, z, q, c2, y)
    BY <1>2, <1>3, <1>4 DEF CombStarts
  <2>2. y.kind # "none"
    BY <1>1
  <2> QED BY <2>1, <2>2, StartSim
<1>6. /\ Sim(e1, z, q, c2, 0, 0) /\ Fine(z, q, c2, 0) /\ RunOk(z, c2) /\ Lone(z, c2, q)
      /\ z.prom[q].st = Pending /\ c2.comb[q] = y /\ z.comb[q] = y /\ q \in Nat /\ q \in 1..q /\ 1..n \subseteq 1..q
  BY <1>5 DEF CombBegins
<1>7. CASE members # <<>>
  <2>1. PICK a \in 1..q, b \in 1..q : members[1] = a /\ members[2] = b
    BY <1>6, <1>7
  <2>2. PICK j1 : j1 = JoinTo(z, a, q)
    OBVIOUS
  <2>3. PICK j2 : j2 = JoinTo(j1, b, q)
    OBVIOUS
  <2>4. PICK e2 : e2 = Js!JsAttach(e1, a, Js!Reaction("member", q, {}, Js!Plain))
    OBVIOUS
  <2>5. PICK e3 : e3 = Js!JsAttach(e2, b, Js!Reaction("member", q, {}, Js!Plain))
    OBVIOUS
  <2>6. c2.comb[q].kind # "none"
    BY <1>1, <1>6
  <2>7. Sim(e2, j1, q, c2, 0, 0) /\ Fine(j1, q, c2, 0) /\ RunOk(j1, c2) /\ Same(z, j1)
    BY <1>6, <2>2, <2>4, <2>6, JoinSim
  <2>8. Sim(e3, j2, q, c2, 0, 0) /\ Same(j1, j2)
    BY <1>6, <2>3, <2>5, <2>6, <2>7, JoinSim
  <2>9. Ctx(j2) = c2
    BY <1>4, <2>7, <2>8 DEF Same, Ctx
  <2>10. Combinator(s, kind, q, members) = j2
    BY <1>1, <1>3, <1>7, <2>1, <2>2, <2>3 DEF Combinator, JoinTo, StartComb
  <2>11. Js!JsCombinator(e, kind, q, members) = e3
    BY <1>1, <1>2, <1>7, <2>1, <2>4, <2>5 DEF Js!JsCombinator
  <2> QED BY <2>8, <2>9, <2>10, <2>11
<1>8. CASE members = <<>>
  <2>1. CASE kind = "race"
    <3>1. Combinator(s, kind, q, members) = z
      BY <1>1, <1>3, <1>8, <2>1 DEF Combinator, StartComb
    <3>2. Js!JsCombinator(e, kind, q, members) = e1
      BY <1>1, <1>2, <1>8, <2>1 DEF Js!JsCombinator
    <3> QED BY <1>4, <1>6, <3>1, <3>2
  <2>2. CASE kind # "race"
    <3>1. PICK r : r = CombFinish(z, q)
      OBVIOUS
    <3>2. PICK st \in Done : st = IF kind = "any" THEN 2 ELSE 1
      BY DEF Done, Fulfilled, Rejected
    <3>3. \/ st = Rejected /\ r = RejectWith(z, q, q)
          \/ r = Settle(StoreValue(z, q, q), q, st)
      BY <1>1, <1>6, <3>1, <3>2 DEF CombFinish, Fulfilled, Rejected
    <3>4. q \in Vals
      BY PromiseAssumption DEF Vals, Ids
    <3>5. PICK x, w : x = 0 /\ w = 0
      OBVIOUS
    <3>6. Sim(e1, z, q, c2, x, w) /\ x \in {0, q}
      BY <1>6, <3>5
    <3>7. Sim(Js!JsSettle(e1, q, st, q), r, q, c2, 0, w) /\ Same(z, r)
      BY <1>6, <3>3, <3>4, <3>6, SettleBoth
    <3>8. Ctx(r) = c2
      BY <1>4, <3>7 DEF Same, Ctx
    <3>9. Combinator(s, kind, q, members) = r
      BY <1>1, <1>3, <1>8, <2>2, <3>1 DEF Combinator, StartComb
    <3>10. Js!JsCombinator(e, kind, q, members) = Js!JsSettle(e1, q, st, q)
      BY <1>1, <1>2, <1>8, <2>2, <3>2 DEF Js!JsCombinator
    <3> QED BY <3>5, <3>7, <3>8, <3>9, <3>10
  <2> QED BY <2>1, <2>2
<1> QED BY <1>7, <1>8

-----------------------------------------------------------------------------
(* How running code ends.                                                  *)

\* The top level of a script: the runtime turns to a queue.
LEMMA EndSim ==
  ASSUME NEW e, NEW s, NEW n, NEW stk, Beside(e, s, n, stk), NEW s2, s2 \in {AfterModule(s), AfterMacrotask(s)}
  PROVE  Sim(e, s2, n, Ctx(s2), 0, 0)
<1>0. Good(s, n, stk) /\ Sim(e, s, n, Ctx(s), 0, 0)
  BY DEF Beside
<1>1. PICK c : c = Ctx(s)
  OBVIOUS
<1>2. Fine(s, n, c, 0) /\ Sim(e, s, n, c, 0, 0) /\ s \in RtType(n)
  BY <1>0, <1>1, GoodFacts
<1>3. e \in JsType
  BY <1>2, SimFacts
<1>4. PICK r : r = s2
  OBVIOUS
<1>5. r.prom = s.prom /\ r.mt = s.mt /\ r.unh = s.unh /\ r.tq = s.tq /\ Ctx(r) = c
  BY <1>1, <1>2, <1>4 DEF RtType, AfterModule, AfterMacrotask, Ctx
<1>6. Sim(e, r, n, c, 0, 0)
  BY <1>2, <1>3, <1>5, SameSim
<1> QED BY <1>4, <1>5, <1>6

\* The callback on the stack: nothing else will settle its promise q.
Ready(e, s, n, c, q, p, j) ==
    /\ c = WithRun(Ctx(s), NoClosure) /\ c \in CtxType(n) /\ Ctx(s) \in CtxType(n) /\ q = s.run.q /\ p = s.run.p /\ j = e.call
    /\ Sim(e, s, n, c, 0, 0) /\ Fine(s, n, c, 0) /\ RunOk(s, c) /\ n \in Nat
    /\ q \in 1..n /\ q \in Ids /\ p \in 1..n /\ p \in Ids /\ q > Deferred /\ s.prom[q].st = Pending
    /\ Lone(s, c, q) /\ (\A k : InLists(s, k) => Key(k) # <<"settle", q>>) /\ c.comb[q].kind = "none"
    /\ s.run.fn \in Waiters /\ s.run \in Closures(n)
    /\ s.prom[p].st \in Done /\ s.prom[p].val \in Vals
    /\ j \in JobType /\ Pair(j, s.run) /\ Gets(j, Out(s)[p])

\* The callback on top of the stack is such a one.
LEMMA CallbackReady ==
  ASSUME NEW e, NEW s, NEW n, NEW stk, Beside(e, s, n, stk), stk # <<>>, Last(stk).k \in Waiters
  PROVE  Ready(e, s, n, WithRun(Ctx(s), NoClosure), s.run.q, s.run.p, e.call)
<1>0. Good(s, n, stk) /\ Sim(e, s, n, Ctx(s), 0, 0)
  BY DEF Beside
<1>1. PICK c1 : c1 = Ctx(s)
  OBVIOUS
<1>2. PICK c : c = WithRun(c1, NoClosure)
  OBVIOUS
<1>3. /\ Frames(stk, n, c1, s.cur, s.prev) /\ Owes(s, n, c1, NoKey, 0) /\ c1 \in CtxType(n) /\ s \in RtType(n)
      /\ Fine(s, n, c1, 0) /\ RunOk(s, c1) /\ c1.run = s.run /\ 1..n \subseteq Ids /\ n \in Nat
  BY <1>0, <1>1, GoodFacts
<1>4. c1.run.fn \in Waiters
  BY <1>3, FramesTop
<1>5. PICK q, p : q = s.run.q /\ p = s.run.p
  OBVIOUS
<1>6. q \in 1..n /\ p \in 1..n /\ q \in Ids /\ p \in Ids /\ c1.run \in Closures(n)
  BY <1>3, <1>4, <1>5, RunFacts
<1>7. Owes(s, n, c, <<"settle", q>>, 1)
  BY <1>2, <1>3, <1>4, <1>5, CtxUnrun
<1>8. /\ Fine(s, n, c, 0) /\ c.comb[q].kind = "none" /\ s.prom[p].st \in Done /\ s.prom[p].val \in Vals
  BY <1>0, <1>1, <1>2, <1>5, CallbackFacts
<1>9. c.run = NoClosure /\ c.task = c1.task /\ c.comb = c1.comb /\ c \in CtxType(n)
  <2>1. c \in CtxType(n)
    BY <1>8 DEF Fine
  <2> QED BY <1>2, <1>3, <2>1, RunWith
<1>10. Sim(e, s, n, c1, 0, 0)
  BY <1>0, <1>1
<1>11. e \in JsType /\ RestSim(e, s, n, c1) /\ Owners(s, c1) /\ e.ticks = s.tq
  BY <1>3, <1>10, SimFacts
<1>12. s.prom[q].st = Pending /\ q > Deferred
  BY <1>3, <1>4, <1>5, <1>11 DEF Owners
<1>13. e.call \in JobType /\ Pair(e.call, s.run) /\ Gets(e.call, Out(s)[p])
  <2>1. CallSim(e.call, Out(s), c1)
    BY <1>11 DEF RestSim
  <2> QED BY <1>3, <1>4, <1>5, <2>1 DEF CallSim
<1>14. NoClosure.fn \notin Waiters
  BY DEF NoClosure, Waiters
<1>15. Owners(s, c)
  BY <1>9, <1>11, <1>14 DEF Owners
<1>16. CombSim(e.comb, s, c) /\ CallSim(e.call, Out(s), c)
  BY <1>9, <1>11, <1>14 DEF CombSim, CallSim, RestSim
<1>17. \A d : InLists(s, d) => Src(d, c) = Src(d, c1)
  BY <1>9, SourceStays
<1>18. Sim(e, s, n, c, 0, 0)
  BY <1>3, <1>10, <1>11, <1>15, <1>16, <1>17, CtxSim
<1>19. RunOk(s, c)
  BY <1>7 DEF Owes
<1>20. Lone(s, c, q) /\ \A k : InLists(s, k) => Key(k) # <<"settle", q>>
  <2>1. PICK k, m : k = <<"settle", q>> /\ m = 1
    OBVIOUS
  <2>2. Owes(s, n, c, k, m)
    BY <1>7, <2>1
  <2> QED BY <1>6, <1>8, <1>12, <2>1, <2>2, LoneFacts
<1> QED
  BY <1>1, <1>2, <1>3, <1>4, <1>5, <1>6, <1>8, <1>9, <1>12, <1>13, <1>18, <1>19, <1>20 DEF Ready

\* It has returned.
LEMMA CallbackDone ==
  ASSUME NEW e, NEW s, NEW n, NEW c, c = WithRun(Ctx(s), NoClosure), Ctx(s) \in CtxType(n), NEW r, NEW k,
         Sim(e, r, n, c, 0, 0), Adds(s, r, n, c, k)
  PROVE  Sim(Js!JsReturned(e), RtReturned(r), n, Ctx(RtReturned(r)), 0, 0)
<1>1. Fine(r, n, c, 0) /\ Same(s, r) /\ r \in RtType(n)
  BY DEF Adds, Fine
<1>2. e \in JsType
  BY <1>1, SimFacts
<1>3. PICK e2 : e2 = Js!JsReturned(e)
  OBVIOUS
<1>4. /\ e2 \in JsType /\ e2.prom = e.prom /\ e2.jobs = e.jobs /\ e2.unh = e.unh /\ e2.ticks = e.ticks /\ e2.comb = e.comb
  BY <1>2, <1>3 DEF JsType, Js!JsReturned, NoCall
<1>5. PICK t : t = RtReturned(r)
  OBVIOUS
<1>6. t.prom = r.prom /\ t.mt = r.mt /\ t.unh = r.unh /\ t.tq = r.tq /\ t.run = NoClosure /\ t.task = r.task /\ t.comb = r.comb
  BY <1>1, <1>5 DEF RtType, RtReturned
<1>7. c.run = NoClosure /\ Ctx(t) = c
  <2>1. Ctx(t) = [task |-> s.task, comb |-> s.comb, run |-> NoClosure]
    BY <1>1, <1>6 DEF Same, Ctx
  <2>2. WithRun(Ctx(s), NoClosure) = [task |-> s.task, comb |-> s.comb, run |-> NoClosure]
    BY DEF WithRun, Ctx
  <2> QED BY <2>1, <2>2
<1>8. c.run.fn \notin Waiters
  BY <1>7 DEF NoClosure, Waiters
<1>9. Sim(e2, t, n, c, 0, 0)
  BY <1>1, <1>4, <1>6, <1>8, SameSim
<1> QED BY <1>3, <1>5, <1>7, <1>9

\* The job of a resolve function called with a promise.
Thenable(q, w) == [Js!Reaction("thenable", q, {}, Js!Plain) EXCEPT !.val = w]

\* It is a job with promise w for q.
LEMMA ThenableIs ==
  ASSUME NEW q \in Ids, NEW w \in Nat, NEW j, j = Thenable(q, w)
  PROVE  j \in JobType /\ j.k = "thenable" /\ j.d = q /\ j.val = w
<1>1. PICK r : r = Js!Reaction("thenable", q, {}, Js!Plain)
  OBVIOUS
<1>2. q \in Nat
  BY InnerFacts
<1>3. r \in JobType /\ r.k = "thenable" /\ r.d = q
  <2>1. "thenable" \in JobKinds /\ Js!Plain \in Nat \X Nat /\ {} \in SUBSET Done
    BY DEF JobKinds, Js!Plain
  <2> QED BY <1>1, <1>2, <2>1, ReactionFacts
<1>4. [r EXCEPT !.val = w] \in JobType /\ [r EXCEPT !.val = w].k = "thenable" /\ [r EXCEPT !.val = w].d = q
      /\ [r EXCEPT !.val = w].val = w
  BY <1>3 DEF JobType
<1> QED BY <1>1, <1>4 DEF Thenable

\* The reaction of finally's wrapper to the promise its callback returned.
LEMMA GivesBackIs ==
  ASSUME NEW j \in JobType, NEW q \in Ids, j.d = q, NEW g, g = Js!GivesBack(j)
  PROVE  g \in JobType /\ g.k = "thunk" /\ g.d = Inner(q) /\ g.keep = <<j.st, j.val>>
<1>1. Inner(q) \in Nat /\ Js!Inner(q) = Inner(q)
  BY InnerFacts
<1>2. <<j.st, j.val>> \in Nat \X Nat /\ "thunk" \in JobKinds /\ {} \in SUBSET Done
  BY DEF JobType, JobKinds
<1>3. PICK i, keep : i = Inner(q) /\ keep = <<j.st, j.val>>
  OBVIOUS
<1>4. g = Js!Reaction("thunk", i, {}, keep)
  BY <1>1, <1>3 DEF Js!GivesBack
<1> QED BY <1>1, <1>2, <1>3, <1>4, ReactionFacts

\* A callback's plain value, or what it throws, settles a then's promise.
LEMMA OutcomeSim ==
  ASSUME NEW e, NEW s, NEW n, NEW c, NEW q, NEW p, NEW j, Ready(e, s, n, c, q, p, j), NEW v \in Vals
  PROVE  /\ Sim(Js!JsReturned(Js!JsCallThrows(e, v)), RtReturned(CallbackThrows(s, v)), n, Ctx(RtReturned(CallbackThrows(s, v))), 0, 0)
         /\ s.run.fn = "then" =>
              Sim(Js!JsReturned(Js!JsCallReturns(e, v)), RtReturned(CallbackReturns(s, v)), n, Ctx(RtReturned(CallbackReturns(s, v))), 0, 0)
<1>1. /\ c = WithRun(Ctx(s), NoClosure) /\ Ctx(s) \in CtxType(n) /\ q = s.run.q /\ j = e.call
      /\ Sim(e, s, n, c, 0, 0) /\ Fine(s, n, c, 0) /\ RunOk(s, c)
      /\ q \in 1..n /\ q \in Ids /\ s.prom[q].st = Pending /\ Lone(s, c, q)
      /\ s.run.fn \in Waiters /\ Pair(j, s.run)
  BY DEF Ready
<1>2. PICK x, y : x = 0 /\ y = 0
  OBVIOUS
<1>3. Sim(e, s, n, c, x, y) /\ x \in {0, q}
  BY <1>1, <1>2
<1>4. j.d = q /\ (s.run.fn = "then" => j.k = "then")
  BY <1>1 DEF Pair, Waiters
<1>5. Sim(Js!JsReturned(Js!JsCallThrows(e, v)), RtReturned(CallbackThrows(s, v)), n, Ctx(RtReturned(CallbackThrows(s, v))), 0, 0)
  <2>1. PICK r : r = RejectWith(s, q, v)
    OBVIOUS
  <2>2. PICK st \in Done : st = 2 /\ st = Rejected
    BY DEF Done, Rejected
  <2>3. Sim(Js!JsSettle(e, q, st, v), r, n, c, 0, y)
    BY <1>1, <1>3, <2>1, <2>2, SettleBoth
  <2>4. Adds(s, r, n, c, NoKey)
    BY <1>1, <2>1, SettleWithAdds
  <2>5. PICK e2 : e2 = Js!JsSettle(e, q, st, v)
    OBVIOUS
  <2>6. Sim(e2, r, n, c, 0, 0)
    BY <1>2, <2>3, <2>5
  <2>7. Sim(Js!JsReturned(e2), RtReturned(r), n, Ctx(RtReturned(r)), 0, 0)
    BY <1>1, <2>4, <2>6, CallbackDone
  <2>8. Js!JsCallThrows(e, v) = e2 /\ CallbackThrows(s, v) = r
    BY <1>1, <1>4, <2>1, <2>2, <2>5 DEF Js!JsCallThrows, CallbackThrows
  <2> QED BY <2>7, <2>8
<1>6. ASSUME s.run.fn = "then"
      PROVE  Sim(Js!JsReturned(Js!JsCallReturns(e, v)), RtReturned(CallbackReturns(s, v)), n, Ctx(RtReturned(CallbackReturns(s, v))), 0, 0)
  <2>1. PICK st \in Done : st = 1 /\ st = Fulfilled
    BY DEF Done, Fulfilled
  <2>2. PICK r, a : r = DrainReactions(a, q) /\ a = Store(s, q, st, v)
    OBVIOUS
  <2>3. Sim(Js!JsSettle(e, q, st, v), r, n, c, 0, y)
    <3>1. r = DrainReactions(Store(s, q, st, v), q)
      BY <2>2
    <3> QED BY <1>1, <1>3, <3>1, SettleBoth
  <2>4. Adds(s, r, n, c, NoKey)
    BY <1>1, <2>2, StoreAdds
  <2>5. PICK e2 : e2 = Js!JsSettle(e, q, st, v)
    OBVIOUS
  <2>6. Sim(e2, r, n, c, 0, 0)
    BY <1>2, <2>3, <2>5
  <2>7. Sim(Js!JsReturned(e2), RtReturned(r), n, Ctx(RtReturned(r)), 0, 0)
    BY <1>1, <2>4, <2>6, CallbackDone
  <2>8. Js!JsCallReturns(e, v) = e2
    BY <1>1, <1>4, <1>6, <2>1, <2>5 DEF Js!JsCallReturns
  <2>9. CallbackReturns(s, v) = r
    BY <1>1, <1>6, <2>1, <2>2 DEF CallbackReturns
  <2> QED BY <2>7, <2>8, <2>9
<1> QED BY <1>5, <1>6

\* A finally's callback that returns a plain value.
LEMMA FinallySim ==
  ASSUME NEW e, NEW s, NEW n, NEW c, NEW q, NEW p, NEW j, Ready(e, s, n, c, q, p, j), NEW v \in Vals, s.run.fn = "finally"
  PROVE  Sim(Js!JsReturned(Js!JsCallReturns(e, v)), RtReturned(CallbackReturns(s, v)), n, Ctx(RtReturned(CallbackReturns(s, v))), 0, 0)
<1>1. /\ c = WithRun(Ctx(s), NoClosure) /\ Ctx(s) \in CtxType(n) /\ q = s.run.q /\ p = s.run.p /\ j = e.call
      /\ Sim(e, s, n, c, 0, 0) /\ Fine(s, n, c, 0) /\ RunOk(s, c) /\ n \in Nat
      /\ q \in 1..n /\ q \in Ids /\ p \in Ids /\ q > Deferred /\ s.prom[q].st = Pending
      /\ (\A k : InLists(s, k) => Key(k) # <<"settle", q>>) /\ c.comb[q].kind = "none"
      /\ s.prom[p].st \in Done /\ s.prom[p].val \in Vals
      /\ j \in JobType /\ Pair(j, s.run) /\ Gets(j, Out(s)[p])
  BY DEF Ready
<1>2. e \in JsType /\ RestSim(e, s, n, c) /\ s \in RtType(n)
  BY <1>1, SimFacts
<1>3. PICK st \in Done, w \in Vals, two \in {1, 2} : st = s.prom[p].st /\ w = s.prom[p].val /\ two = 2
  BY <1>1
<1>4. j.k = "finally" /\ j.d = q /\ j.st = st /\ j.val = w
  BY <1>1, <1>3 DEF Pair, Gets, Out
\* The runtime: the outcome, and a closure that hands it on.
<1>5. PICK a, d, r : /\ a = StoreValue(s, q, w) /\ d = [fn |-> "defer_step", q |-> q, st |-> st, hops |-> two]
                     /\ r = Enqueue(a, d)
  OBVIOUS
<1>6. r = DeferSettle(StoreValue(s, q, w), q, st, two) /\ CallbackReturns(s, v) = r
  BY <1>1, <1>3, <1>5 DEF DeferSettle, CallbackReturns
<1>7. Adds(s, r, n, c, <<"settle", q>>)
  BY <1>1, <1>6, DeferAdds
<1>8. d \in Closures(n) /\ d.fn = "defer_step" /\ d.q = q /\ d.st = st /\ d.hops = 2
  BY <1>1, <1>3, <1>5, MakeClosures
<1>9. StoresTo(s, a, q, w)
  BY <1>1, <1>2, <1>5, AttachForms
<1>10. /\ a.mt = s.mt /\ a.unh = s.unh /\ a.tq = s.tq /\ (\A i \in Ids : i # q => a.prom[i] = s.prom[i])
       /\ a.prom[q].st = s.prom[q].st /\ a.prom[q].val = w /\ a.prom[q].rx = s.prom[q].rx
       /\ a.prom[q].handled = s.prom[q].handled /\ a.prom[q].queued = s.prom[q].queued
  BY <1>9 DEF StoresTo, Puts
<1>11. MovesTo(a, r, Append(a.mt, d))
  <2>1. Quiet(s, a, n)
    BY <1>1, <1>2, <1>5, QuietFacts
  <2>2. a \in RtType(n)
    BY <2>1 DEF Quiet
  <2> QED BY <1>5, <2>2, MoveForms
<1>12. r.prom = a.prom /\ r.mt = s.mt \o <<d>> /\ r.unh = s.unh /\ r.tq = s.tq
  <2>1. s.mt \in Seq(Closures(n))
    BY <1>2 DEF RtType
  <2>2. Append(s.mt, d) = s.mt \o <<d>>
    BY <1>8, <2>1, AppendOne
  <2> QED BY <1>10, <1>11, <2>2 DEF MovesTo
\* ECMAScript: the inner promise's job, and the one that follows it.
<1>13. PICK g : g = Js!GivesBack(j)
  OBVIOUS
<1>14. g \in JobType /\ g.k = "thunk" /\ g.d = Inner(q) /\ g.keep = <<st, w>>
  BY <1>1, <1>4, <1>13, GivesBackIs
<1>15. PICK g1 : g1 = [g EXCEPT !.st = 1]
  OBVIOUS
<1>16. g1 \in JobType /\ g1.k = "thunk" /\ g1.d = Inner(q) /\ g1.keep = <<st, w>> /\ g1.st = 1
  BY <1>14, <1>15 DEF JobType
<1>17. PICK l : l = Thenable(q, Inner(q))
  OBVIOUS
<1>18. l \in JobType /\ Late(l) /\ l.d = q
  <2>1. Inner(q) \in Nat
    BY <1>1, InnerFacts
  <2>2. l \in JobType /\ l.k = "thenable" /\ l.d = q /\ l.val = Inner(q)
    BY <1>1, <1>17, <2>1, ThenableIs
  <2> QED BY <2>2 DEF Late
<1>19. PICK e1 : e1 = [e EXCEPT !.jobs = Append(@, g1)]
  OBVIOUS
<1>20. PICK e2 : e2 = [e1 EXCEPT !.jobs = Append(@, l)]
  OBVIOUS
<1>21. JsMovesTo(e, e1, e.jobs \o <<g1>>) /\ e1.call = e.call
  BY <1>2, <1>16, <1>19, JsMoveForms
<1>22. JsMovesTo(e1, e2, e1.jobs \o <<l>>) /\ e2.call = e1.call
  <2>1. e1 \in JsType
    BY <1>21 DEF JsMovesTo
  <2> QED BY <1>18, <1>20, <2>1, JsMoveForms
<1>23. Js!JsCallReturns(e, v) = e2
  <2>1. Js!Inner(q) = Inner(q)
    BY <1>1, InnerFacts
  <2> QED BY <1>1, <1>4, <1>13, <1>15, <1>17, <1>19, <1>20, <2>1 DEF Js!JsCallReturns, Js!JsResolveWith, Thenable
<1>24. PICK K, N : K = <<g1, l>> /\ N = <<d>>
  OBVIOUS
<1>25. /\ K \in Seq(JobType) /\ N \in Seq(Closures(n)) /\ Len(K) = 1 + Len(N) /\ K[1] = g1 /\ K[Len(K)] = l /\ N = <<d>>
  BY <1>8, <1>16, <1>18, <1>24
<1>26. /\ e2 \in JsType /\ e2.prom = e.prom /\ e2.unh = e.unh /\ e2.ticks = e.ticks /\ e2.comb = e.comb /\ e2.call = e.call
       /\ e2.jobs = e.jobs \o K
  <2>1. e.jobs \in Seq(JobType)
    BY <1>2 DEF JsType
  <2>2. (e.jobs \o <<g1>>) \o <<l>> = e.jobs \o <<g1, l>>
    BY <1>16, <1>18, <2>1
  <2> QED BY <1>21, <1>22, <1>24, <2>2 DEF JsMovesTo
<1>27. (\A i \in Ids : r.prom[i].rx = s.prom[i].rx) /\ (\A i \in Ids : Lists(r)[i] = Lists(s)[i]) /\ Gains(s, r, {d})
  <2>1. \A i \in Ids : r.prom[i].rx = s.prom[i].rx
    BY <1>10, <1>12
  <2>2. QueueChanges(s, r, n)
    BY <1>2, <2>1, QueueLists
  <2>3. Range(N) = {d}
    <3>1. PICK S : S = Closures(n)
      OBVIOUS
    <3>2. N \in Seq(S) /\ d \in S
      BY <1>8, <1>25, <3>1
    <3> QED BY <1>24, <3>2, RangeJoin
  <2>4. Gains(s, r, Range(N))
    BY <1>12, <1>24, <1>25, <2>2 DEF QueueChanges
  <2> QED BY <2>1, <2>2, <2>3, <2>4 DEF QueueChanges
<1>28. Owed(d, Out(r)) = <<st, w>> /\ Gives(g1) = <<st, w>>
  <2>1. Out(r)[q][2] = w
    BY <1>1, <1>10, <1>12 DEF Out
  <2> QED BY <1>8, <1>16, <2>1 DEF Owed, Gives
<1>29. FinallyNow(e, e2, s, r, q, d, K, N)
  BY <1>8, <1>16, <1>25, <1>26, <1>27, <1>28 DEF FinallyNow
<1>30. FinallyTurns(e, e2, s, r, n, q, d, K, N)
  <2>1. Inners(e2) = Inners(e)
    BY <1>26 DEF Inners
  <2>2. \A i \in Ids : (i # q => Out(r)[i] = Out(s)[i]) /\ r.prom[i].st = s.prom[i].st
    BY <1>10, <1>12 DEF Out
  <2>3. r.mt = s.mt \o N
    BY <1>12, <1>25
  <2> QED BY <1>8, <1>18, <1>25, <1>26, <1>27, <1>29, <2>1, <2>2, <2>3 DEF FinallyTurns
<1>31. RestSim(e2, r, n, c)
  <2>1. PromSim(e.prom[q], s.prom[q])
    BY <1>1, <1>2 DEF RestSim
  <2>2. PromSim(e2.prom[q], r.prom[q])
    BY <1>1, <1>10, <1>12, <1>26, <2>1 DEF PromSim
  <2>3. PromStep(e, e2, s, r, n, c, q)
    BY <1>1, <1>10, <1>12, <1>26, <2>2 DEF PromStep
  <2>4. Allowed(r, d)
    BY <1>1, <1>8, <1>10, <1>12 DEF Allowed
  <2>5. UnhSim(e2.unh, r.unh, e2.prom)
    BY <1>2, <1>12, <1>26 DEF RestSim
  <2>6. PICK D : D = {d}
    OBVIOUS
  <2>7. RestStep(e, e2, s, r, n, c, q, D)
    BY <1>12, <1>26, <1>27, <2>3, <2>4, <2>5, <2>6 DEF RestStep
  <2> QED BY <1>1, <1>2, <2>7, RestGoes
<1>32. Sim(e2, r, n, c, 0, 0)
  BY <1>1, <1>30, <1>31, FinallyGrows
<1>33. Sim(Js!JsReturned(e2), RtReturned(r), n, Ctx(RtReturned(r)), 0, 0)
  BY <1>1, <1>7, <1>32, CallbackDone
<1> QED BY <1>6, <1>23, <1>33

\* A promise that follows one of the program's.
LEMMA AdoptSim ==
  ASSUME NEW e, NEW s, NEW n, NEW c, Sim(e, s, n, c, 0, 0), Fine(s, n, c, 0), RunOk(s, c), NEW q \in 1..n, NEW h \in 1..n,
         s.prom[q].st = Pending, q > Deferred, c.comb[q].kind = "none"
  PROVE  /\ Sim(Js!JsResolveWith(e, q, h), Adopt(s, q, h), n, c, 0, 0) /\ Same(s, Adopt(s, q, h))
         /\ Adds(s, Adopt(s, q, h), n, c, <<"settle", q>>)
<1>1. n \in Nat /\ q \in Ids /\ h \in Ids
  BY FineFacts
<1>2. PICK d \in Closures(n) : d = [fn |-> "adopt_job", q |-> q, h |-> h]
  BY <1>1, MakeClosures
<1>3. d.q = q /\ d.fn = "adopt_job" /\ d.h = h
  BY <1>2
<1>4. Fit(d, c) /\ Key(d) = <<"settle", q>> /\ Src(d, c) = 0
  BY <1>1, <1>3, PlainFit DEF Src
<1>5. PICK j : j = Thenable(q, h)
  OBVIOUS
<1>6. h \in Nat /\ h <= MaxProms
  BY <1>1, InnerFacts
<1>7. j \in JobType /\ j.k = "thenable" /\ j.d = q /\ j.val = h
  BY <1>1, <1>5, <1>6, ThenableIs
<1>8. FiredPlain(j, d, Out(s), c)
  BY <1>3, <1>7 DEF FiredPlain
<1>9. ~Late(j)
  <2>1. Inner(q) > MaxProms /\ Inner(q) \in Nat /\ MaxProms \in Nat
    BY <1>1, InnerFacts
  <2> QED BY <1>6, <1>7, <2>1 DEF Late
<1>10. Allowed(s, d)
  BY <1>3 DEF Allowed
<1>11. Sim([e EXCEPT !.jobs = Append(@, j)], Enqueue(s, d), n, c, 0, 0) /\ Same(s, Enqueue(s, d))
  BY <1>7, <1>8, <1>9, <1>10, EnqueueBoth
<1>12. Adds(s, Enqueue(s, d), n, c, <<"settle", q>>)
  BY <1>4, EnqueueAdds
<1>13. Adopt(s, q, h) = Enqueue(s, d)
  BY <1>2 DEF Adopt
<1>14. Js!JsResolveWith(e, q, h) = [e EXCEPT !.jobs = Append(@, j)]
  BY <1>5 DEF Js!JsResolveWith, Thenable
<1> QED BY <1>11, <1>12, <1>13, <1>14

\* A then's callback that returns a promise.
LEMMA FollowSim ==
  ASSUME NEW e, NEW s, NEW n, NEW c, NEW q, NEW p, NEW j, Ready(e, s, n, c, q, p, j), NEW h \in 1..n, s.run.fn = "then"
  PROVE  Sim(Js!JsReturned(Js!JsCallReturnsPromise(e, h)), RtReturned(CallbackReturnsPromise(s, h)), n,
             Ctx(RtReturned(CallbackReturnsPromise(s, h))), 0, 0)
<1>1. /\ c = WithRun(Ctx(s), NoClosure) /\ Ctx(s) \in CtxType(n) /\ q = s.run.q /\ j = e.call
      /\ Sim(e, s, n, c, 0, 0) /\ Fine(s, n, c, 0) /\ RunOk(s, c)
      /\ q \in 1..n /\ q > Deferred /\ s.prom[q].st = Pending /\ c.comb[q].kind = "none" /\ Pair(j, s.run)
  BY DEF Ready
<1>2. j.d = q /\ j.k = "then"
  BY <1>1 DEF Pair
<1>3. PICK e2, r : e2 = Js!JsResolveWith(e, q, h) /\ r = Adopt(s, q, h)
  OBVIOUS
<1>4. Sim(e2, r, n, c, 0, 0) /\ Adds(s, r, n, c, <<"settle", q>>)
  BY <1>1, <1>3, AdoptSim
<1>5. Js!JsCallReturnsPromise(e, h) = e2
  BY <1>1, <1>2, <1>3 DEF Js!JsCallReturnsPromise
<1>6. CallbackReturnsPromise(s, h) = r
  BY <1>1, <1>3 DEF CallbackReturnsPromise
<1>7. Sim(Js!JsReturned(e2), RtReturned(r), n, Ctx(RtReturned(r)), 0, 0)
  BY <1>1, <1>4, CallbackDone
<1> QED BY <1>5, <1>6, <1>7

\* A finally's callback that returns a promise.
LEMMA FinallyFollowSim ==
  ASSUME NEW e, NEW s, NEW n, NEW c, NEW q, NEW p, NEW j, Ready(e, s, n, c, q, p, j), NEW h \in 1..n, s.run.fn = "finally"
  PROVE  Sim(Js!JsReturned(Js!JsCallReturnsPromise(e, h)), RtReturned(CallbackReturnsPromise(s, h)), n,
             Ctx(RtReturned(CallbackReturnsPromise(s, h))), 0, 0)
<1>1. /\ c = WithRun(Ctx(s), NoClosure) /\ Ctx(s) \in CtxType(n) /\ q = s.run.q /\ p = s.run.p /\ j = e.call
      /\ Sim(e, s, n, c, 0, 0) /\ Fine(s, n, c, 0) /\ RunOk(s, c) /\ n \in Nat
      /\ q \in 1..n /\ q \in Ids /\ p \in Ids /\ q > Deferred /\ s.prom[q].st = Pending
      /\ (\A k : InLists(s, k) => Key(k) # <<"settle", q>>) /\ c.comb[q].kind = "none"
      /\ s.prom[p].st \in Done /\ s.prom[p].val \in Vals
      /\ j \in JobType /\ Pair(j, s.run) /\ Gets(j, Out(s)[p])
  BY DEF Ready
<1>2. /\ e \in JsType /\ RestSim(e, s, n, c) /\ s \in RtType(n) /\ h \in Ids /\ h \in Js!JsIds
      /\ PromSim(e.prom[h], s.prom[h]) /\ s.prom[h].st \in {0, 1, 2}
  <2>1. h \in Ids
    BY <1>1, FineFacts
  <2> QED BY <1>1, <2>1, SimFacts
<1>3. PICK st \in Done, w \in Vals : st = s.prom[p].st /\ w = s.prom[p].val
  BY <1>1
<1>4. j.k = "finally" /\ j.d = q /\ j.st = st /\ j.val = w
  BY <1>1, <1>3 DEF Pair, Gets, Out
<1>5. PICK d : d = [fn |-> "finally_step", q |-> q, r |-> h, st |-> st, val |-> w]
  OBVIOUS
<1>6. d \in Closures(n) /\ d.fn = "finally_step" /\ d.q = q /\ d.r = h /\ d.st = st /\ d.val = w
  BY <1>1, <1>5, MakeClosures
<1>7. PICK r : r = Attach(s, h, d)
  OBVIOUS
<1>8. CallbackReturnsPromise(s, h) = r
  BY <1>1, <1>3, <1>5, <1>7 DEF CallbackReturnsPromise
<1>9. Adds(s, r, n, c, <<"settle", q>>)
  <2>1. Fit(d, c) /\ Key(d) = <<"settle", q>> /\ Src(d, c) = h
    BY <1>1, <1>6, PlainFit DEF Src
  <2> QED BY <1>1, <1>2, <1>6, <1>7, <2>1, AttachAdds
<1>10. AttachesTo(s, r, h, d)
  BY <1>2, <1>7, AttachForms
<1>11. AttachMoves(s, r, h, d)
  BY <1>2, <1>6, <1>10, AttachLists
<1>12. /\ r.unh = s.unh /\ r.tq = s.tq /\ (\A i \in Ids : i # h => r.prom[i] = s.prom[i])
       /\ r.prom[h].st = s.prom[h].st /\ r.prom[h].val = s.prom[h].val /\ r.prom[h].handled = TRUE
       /\ r.prom[h].queued = s.prom[h].queued
  BY <1>10 DEF AttachesTo, Puts
<1>13. PICK g : g = Js!GivesBack(j)
  OBVIOUS
<1>14. g \in JobType /\ g.k = "thunk" /\ g.d = Inner(q) /\ g.keep = <<st, w>>
  BY <1>1, <1>4, <1>13, GivesBackIs
<1>15. Pair(g, d)
  BY <1>6, <1>14 DEF Pair
<1>16. PICK l : l = Thenable(q, Inner(q))
  OBVIOUS
<1>17. l \in JobType /\ Late(l) /\ l.d = q
  <2>1. Inner(q) \in Nat
    BY <1>1, InnerFacts
  <2>2. l \in JobType /\ l.k = "thenable" /\ l.d = q /\ l.val = Inner(q)
    BY <1>1, <1>16, <2>1, ThenableIs
  <2> QED BY <2>2 DEF Late
<1>18. PICK e1 : e1 = Js!JsAttach(e, h, g)
  OBVIOUS
<1>19. PICK e2 : e2 = [e1 EXCEPT !.jobs = Append(@, l)]
  OBVIOUS
<1>20. Js!JsCallReturnsPromise(e, h) = e2
  <2>1. Js!Inner(q) = Inner(q)
    BY <1>1, InnerFacts
  <2> QED BY <1>1, <1>4, <1>13, <1>16, <1>18, <1>19, <2>1 DEF Js!JsCallReturnsPromise, Js!JsResolveWith, Thenable
<1>21. JsAttachesTo(e, e1, h, g)
  BY <1>2, <1>14, <1>18, JsAttachForm
<1>22. /\ e1 \in JsType /\ e1.unh = e.unh /\ e1.ticks = e.ticks /\ e1.comb = e.comb /\ e1.call = e.call
       /\ \A i \in Js!JsIds : i # h => e1.prom[i] = e.prom[i]
       /\ e1.prom[h].st = e.prom[h].st /\ e1.prom[h].val = e.prom[h].val /\ e1.prom[h].handled = TRUE
  BY <1>21 DEF JsAttachesTo, JsPuts, JsSame, JsProm
<1>23. JsMovesTo(e1, e2, e1.jobs \o <<l>>) /\ e2.call = e1.call
  BY <1>17, <1>19, <1>22, JsMoveForms
<1>24. /\ e2 \in JsType /\ e2.prom = e1.prom /\ e2.unh = e.unh /\ e2.ticks = e.ticks /\ e2.comb = e.comb /\ e2.call = e.call
       /\ e2.jobs = e1.jobs \o <<l>>
  BY <1>22, <1>23 DEF JsMovesTo
<1>25. Inners(e2) = Inners(e) /\ \A i \in Ids : i # h => e2.prom[i] = e.prom[i]
  <2>1. \A i \in Js!JsIds : i # h => e2.prom[i] = e.prom[i]
    BY <1>22, <1>24
  <2> QED BY <1>2, <2>1, InnersFacts
<1>26. RestSim(e2, r, n, c)
  <2>1. PromSim(e2.prom[h], r.prom[h])
    BY <1>2, <1>12, <1>22, <1>24 DEF PromSim
  <2>2. PromStep(e, e2, s, r, n, c, h)
    BY <1>12, <1>25, <2>1 DEF PromStep
  <2>3. Allowed(r, d)
    BY <1>1, <1>6, <1>12 DEF Allowed
  <2>4. UnhSim(e2.unh, r.unh, e2.prom)
    <3>1. \A i \in Js!JsIds : e.prom[i].st # 0 => e2.prom[i].st # 0
      BY <1>22, <1>24
    <3>4. \A i \in Ids : e.prom[i].st = 2 => e2.prom[i].st = 2
      BY <1>22, <1>24, InnerFacts
    <3>2. e.unh \in Seq(Js!JsIds) /\ s.unh \in Seq(Ids) /\ UnhSim(e.unh, s.unh, e.prom)
      BY <1>2 DEF JsType, RtType, RestSim
    <3>3. UnhSim(e.unh, s.unh, e2.prom)
      BY <3>1, <3>2, <3>4, UnhGrows
    <3> QED BY <1>12, <1>24, <3>3
  <2>5. Gains(s, r, {d})
    BY <1>11 DEF AttachMoves
  <2>6. PICK D : D = {d}
    OBVIOUS
  <2>7. RestStep(e, e2, s, r, n, c, h, D)
    BY <1>12, <1>24, <2>2, <2>3, <2>4, <2>5, <2>6 DEF RestStep
  <2> QED BY <1>1, <1>2, <2>7, RestGoes
<1>27. \E K, N : FinallyTurns(e, e2, s, r, n, q, d, K, N)
  <2>0. e.jobs \in Seq(JobType) /\ s.mt \in Seq(Closures(n))
    BY <1>2 DEF JsType, RtType
  <2>a. Gains(s, r, {d}) /\ \A i \in Ids : (i # q => Out(r)[i] = Out(s)[i]) /\ r.prom[i].st = s.prom[i].st
    BY <1>11, <1>12 DEF AttachMoves, Out
  <2>1. CASE s.prom[h].st = Pending
    <3>1. PICK K, N : K = <<l>> /\ N = <<>>
      OBVIOUS
    <3>2. K \in Seq(JobType) /\ N \in Seq(Closures(n)) /\ Len(K) = 1 + Len(N) /\ K[Len(K)] = l
      BY <1>17, <3>1
    <3>3. e.prom[h].st = 0
      BY <1>2, <2>1 DEF PromSim, Pending
    <3>4. e1.jobs = e.jobs \o <<>> /\ e1.prom[h].rx = Append(e.prom[h].rx, g)
      BY <1>21, <3>3 DEF JsAttachesTo, JsPuts, JsProm
    <3>5. e2.jobs = e.jobs \o K
      BY <1>24, <2>0, <3>1, <3>4
    <3>6. r.mt = s.mt /\ Lists(r)[h] = Append(Lists(s)[h], d) /\ \A i \in Ids : i # h => Lists(r)[i] = Lists(s)[i]
      BY <1>11, <2>1 DEF AttachMoves
    <3>7. r.mt = s.mt \o N
      BY <2>0, <3>1, <3>6
    <3>8. FinallyLater(e, e2, s, r, d, N, h, g)
      BY <1>2, <1>6, <1>14, <1>15, <1>24, <1>25, <3>1, <3>4, <3>6 DEF FinallyLater
    <3>9. FinallyTurns(e, e2, s, r, n, q, d, K, N)
      BY <1>6, <1>17, <1>24, <1>25, <2>a, <3>2, <3>5, <3>7, <3>8 DEF FinallyTurns
    <3> QED BY <3>9
  <2>2. CASE s.prom[h].st # Pending
    <3>1. PICK t : t = Triggered(g, e.prom[h].st, e.prom[h].val)
      OBVIOUS
    <3>2. e.prom[h].st = s.prom[h].st /\ e.prom[h].val = s.prom[h].val /\ e.prom[h].st \in Done
          /\ e.prom[h].st \in Nat /\ e.prom[h].val \in Nat
      <4>1. e.prom[h].st \in Nat /\ e.prom[h].val \in Nat
        BY <1>2, JsWords
      <4> QED BY <1>2, <2>2, <4>1 DEF PromSim, Pending, Done, Fulfilled, Rejected
    <3>3. t \in JobType /\ t.k = "thunk" /\ t.d = Inner(q) /\ t.keep = <<st, w>> /\ t.st = e.prom[h].st /\ t.val = e.prom[h].val
      <4>1. PICK x, y : x = e.prom[h].st /\ y = e.prom[h].val
        OBVIOUS
      <4>2. x \in Nat /\ y \in Nat /\ g \in JobType /\ t = Triggered(g, x, y)
        BY <1>14, <3>1, <3>2, <4>1
      <4>3. t \in JobType /\ t.k = g.k /\ t.d = g.d /\ t.keep = g.keep /\ t.st = x /\ t.val = y
        BY <4>2 DEF Triggered, JobType
      <4> QED BY <1>14, <4>1, <4>3
    <3>4. PICK K, N : K = <<t, l>> /\ N = <<d>>
      OBVIOUS
    <3>5. K \in Seq(JobType) /\ N \in Seq(Closures(n)) /\ Len(K) = 1 + Len(N) /\ K[Len(K)] = l /\ K[1] = t
      BY <1>6, <1>17, <3>3, <3>4
    <3>6. e.prom[h].st # 0
      BY <3>2 DEF Done, Fulfilled, Rejected
    <3>7. e1.jobs = e.jobs \o <<t>> /\ e1.prom[h].rx = e.prom[h].rx
      BY <1>21, <3>1, <3>6 DEF JsAttachesTo, JsPuts, JsProm
    <3>8. e2.jobs = e.jobs \o K
      <4>1. (e.jobs \o <<t>>) \o <<l>> = e.jobs \o <<t, l>>
        BY <1>17, <2>0, <3>3
      <4> QED BY <1>24, <3>4, <3>7, <4>1
    <3>9. r.mt = s.mt \o <<d>> /\ \A i \in Ids : Lists(r)[i] = Lists(s)[i]
      BY <1>11, <2>2 DEF AttachMoves
    <3>10. \A i \in Ids : e2.prom[i].rx = e.prom[i].rx
      BY <1>24, <1>25, <3>7
    <3>11. Gives(t) = Owed(d, Out(r))
      <4>1. Out(r)[h] = <<e.prom[h].st, e.prom[h].val>>
        BY <1>2, <1>12, <3>2 DEF Out
      <4>2. Owed(d, Out(r)) = IF e.prom[h].st = Rejected THEN <<Rejected, e.prom[h].val>> ELSE <<st, w>>
        BY <1>6, <4>1 DEF Owed
      <4>3. Gives(t) = IF e.prom[h].st = 1 THEN <<st, w>> ELSE <<2, e.prom[h].val>>
        BY <3>3 DEF Gives
      <4>4. e.prom[h].st = 1 \/ e.prom[h].st = 2
        BY <3>2 DEF Done, Fulfilled, Rejected
      <4> QED BY <4>2, <4>3, <4>4 DEF Rejected
    <3>12. FinallyNow(e, e2, s, r, q, d, K, N)
      BY <1>6, <3>3, <3>4, <3>5, <3>9, <3>10, <3>11 DEF FinallyNow
    <3>13. FinallyTurns(e, e2, s, r, n, q, d, K, N)
      <4>1. r.mt = s.mt \o N
        BY <3>4, <3>9
      <4> QED BY <1>6, <1>17, <1>24, <1>25, <2>a, <3>5, <3>8, <3>12, <4>1 DEF FinallyTurns
    <3> QED BY <3>13
  <2> QED BY <2>1, <2>2
<1>28. PICK K, N : FinallyTurns(e, e2, s, r, n, q, d, K, N)
  BY <1>27
<1>29. Sim(e2, r, n, c, 0, 0)
  BY <1>1, <1>26, <1>28, FinallyGrows
<1>30. Sim(Js!JsReturned(e2), RtReturned(r), n, Ctx(RtReturned(r)), 0, 0)
  BY <1>1, <1>9, <1>29, CallbackDone
<1> QED BY <1>8, <1>20, <1>30

\* The switch back from a body changes no queue.
LEMMA SwapSim ==
  ASSUME NEW e, NEW z, NEW n, NEW c, Sim(e, z, n, c, 0, 0), Fine(z, n, c, 0), Ctx(z) = c
  PROVE  Sim(e, SwapOut(z), n, Ctx(SwapOut(z)), 0, 0)
<1>1. e \in JsType /\ z \in RtType(n)
  BY SimFacts
<1>2. PICK t : t = SwapOut(z)
  OBVIOUS
<1>3. \E cur, prev : t = SetCur(z, cur, prev)
  <2>1. CASE z.prev = <<>>
    <3>1. t = [z EXCEPT !.cur = NoTask]
      BY <1>2, <2>1 DEF SwapOut
    <3>2. SetCur(z, NoTask, z.prev) = [z EXCEPT !.cur = NoTask]
      BY <1>1 DEF RtType, SetCur
    <3> QED BY <3>1, <3>2
  <2>2. CASE z.prev # <<>>
    BY <1>2, <2>2 DEF SwapOut, SetCur
  <2> QED BY <2>1, <2>2
<1>4. t.prom = z.prom /\ t.mt = z.mt /\ t.unh = z.unh /\ t.tq = z.tq /\ t.task = z.task /\ t.comb = z.comb /\ t.run = z.run
  BY <1>1, <1>3 DEF RtType, SetCur
<1>5. Ctx(t) = c
  BY <1>4 DEF Ctx
<1>6. Sim(e, t, n, c, 0, 0)
  BY <1>1, <1>4, SameSim
<1> QED BY <1>2, <1>5, <1>6

\* A body's record is set, and the switch made.
LEMMA BodyLeaves ==
  ASSUME NEW e, NEW s, NEW r, NEW n, NEW c, NEW t \in Ids, NEW x \in TaskType, c = WithTask(Ctx(s), t, x), NEW k,
         Sim(e, r, n, c, 0, 0), Adds(s, r, n, c, k)
  PROVE  Sim(e, SwapOut(StartTask(r, t, x)), n, Ctx(SwapOut(StartTask(r, t, x))), 0, 0)
<1>1. Fine(r, n, c, 0) /\ Same(s, r) /\ r \in RtType(n)
  BY DEF Adds, Fine
<1>2. PICK z : z = StartTask(r, t, x)
  OBVIOUS
<1>3. Alike(r, z, n) /\ Ctx(z) = WithTask(Ctx(r), t, x)
  BY <1>1, <1>2, StartFacts
<1>4. Ctx(r) = Ctx(s)
  BY <1>1 DEF Same, Ctx
<1>5. Ctx(z) = c
  BY <1>3, <1>4
<1>6. e \in JsType
  BY <1>1, SimFacts
<1>7. z.prom = r.prom /\ z.mt = r.mt /\ z.unh = r.unh /\ z.tq = r.tq
  BY <1>1, <1>2 DEF RtType, StartTask
<1>8. Sim(e, z, n, c, 0, 0)
  BY <1>1, <1>6, <1>7, SameSim
<1>9. Fine(z, n, c, 0)
  <2>1. Lists(z) = Lists(r)
    BY <1>7 DEF Lists
  <2> QED BY <1>1, <1>3, <1>7, <2>1 DEF Fine, Alike, Counted, Count, Waits
<1>10. Sim(e, SwapOut(z), n, Ctx(SwapOut(z)), 0, 0)
  BY <1>5, <1>8, <1>9, SwapSim
<1> QED BY <1>2, <1>10

\* The record of a body on top of the stack may change: what its promise
\* and the other closures wait for stays.
LEMMA BodySim ==
  ASSUME NEW e, NEW s, NEW n, NEW stk, Beside(e, s, n, stk), stk # <<>>, Last(stk).k = "task", NEW x \in TaskType,
         NEW t, t = s.cur, NEW c, c = WithTask(Ctx(s), t, x)
  PROVE  Sim(e, s, n, c, 0, 0) /\ t \in 1..n /\ t \in Ids /\ s.prom[t].st = Pending /\ t > Deferred
<1>0. Good(s, n, stk) /\ Sim(e, s, n, Ctx(s), 0, 0)
  BY DEF Beside
<1>1. PICK c1 : c1 = Ctx(s)
  OBVIOUS
<1>2. /\ Owes(s, n, c1, NoKey, 0) /\ Fine(s, n, c1, 0) /\ c1 \in CtxType(n) /\ Sim(e, s, n, c1, 0, 0) /\ n \in Nat
  BY <1>0, <1>1, GoodFacts
<1>3. t \in 1..n /\ t \in Ids /\ c1.task[t].st = "running"
  BY <1>0, <1>1, BodyFacts
<1>4. e \in JsType /\ RestSim(e, s, n, c1) /\ Owners(s, c1) /\ e.ticks = s.tq
  BY <1>2, SimFacts
<1>5. s.prom[t].st = Pending /\ t > Deferred
  BY <1>3, <1>4 DEF Owners
<1>6. c.comb = c1.comb /\ c.run = c1.run /\ c.task[t] = x /\ \A i \in Ids : i # t => c.task[i] = c1.task[i]
  BY <1>1, <1>2, <1>3, WithFacts
<1>7. Owners(s, c)
  <2>1. \A i \in Ids : c.task[i].st \in {"running", "parked"} => s.prom[i].st = Pending /\ i > Deferred
    BY <1>4, <1>5, <1>6 DEF Owners
  <2> QED BY <1>4, <1>6, <2>1 DEF Owners
<1>8. CombSim(e.comb, s, c) /\ CallSim(e.call, Out(s), c)
  BY <1>4, <1>6 DEF CombSim, CallSim, RestSim
<1>9. Count(s, <<"resume", t>>) = 0
  <2>1. PICK k : k = <<"resume", t>>
    OBVIOUS
  <2>2. k \in Keys /\ k # NoKey
    BY <1>2, <1>3, <2>1, DueFacts
  <2>3. Due(s, k, NoKey, 0) = 0
    BY <1>2, <1>3, <2>1 DEF Owes, Resumes
  <2>4. Due(s, k, NoKey, 0) = Count(s, k)
    <3>1. PICK no, m : no = NoKey /\ m = 0
      OBVIOUS
    <3>2. Due(s, k, no, m) = Count(s, k)
      BY <1>2, <1>3, <2>2, <3>1, DueFacts
    <3> QED BY <3>1, <3>2
  <2> QED BY <2>1, <2>3, <2>4
<1>10. ASSUME NEW d, InLists(s, d)
       PROVE  Src(d, c) = Src(d, c1)
  <2>1. d \in Closures(n)
    BY <1>2, <1>10, WaitingFacts
  <2>2. PICK k : k = <<"resume", t>>
    OBVIOUS
  <2>3. k \in Keys /\ Count(s, k) = 0
    <3>1. k \in Keys
      BY <1>2, <1>3, <2>2, DueFacts
    <3> QED BY <1>9, <2>2, <3>1
  <2>4. Key(d) # k
    BY <1>2, <1>10, <2>3, WaitingFacts
  <2>5. d.fn = "resume" => d.t \in 1..n /\ Key(d) = <<"resume", d.t>>
    BY <1>2, <2>1, KeyFacts
  <2>6. d.fn = "resume" => d.t \in Ids /\ d.t # t
    BY <1>2, <2>2, <2>4, <2>5, FineFacts
  <2>7. d.fn = "resume" => c.task[d.t].on = c1.task[d.t].on
    BY <1>6, <2>6
  <2> QED BY <2>7, SourceStays
<1>11. Sim(e, s, n, c, 0, 0)
  <2>1. \A d : InLists(s, d) => Src(d, c) = Src(d, c1)
    BY <1>10
  <2>2. /\ e \in JsType /\ e.prom = e.prom /\ e.jobs = e.jobs /\ e.unh = e.unh /\ s.prom = s.prom /\ s.mt = s.mt
        /\ s.unh = s.unh /\ e.ticks = s.tq
    BY <1>4
  <2> QED BY <1>2, <1>7, <1>8, <2>1, <2>2, CtxSim
<1> QED BY <1>3, <1>5, <1>11

\* A body that is done: its promise is nobody else's.
LEMMA BodyEnds ==
  ASSUME NEW e, NEW s, NEW n, NEW stk, Beside(e, s, n, stk), stk # <<>>, Last(stk).k = "task", NEW t, t = s.cur
  PROVE  \E x, c : /\ x \in TaskType /\ x = [s.task[t] EXCEPT !.st = "done"] /\ c = WithTask(Ctx(s), t, x)
                   /\ Sim(e, s, n, c, 0, 0) /\ Fine(s, n, c, 0) /\ RunOk(s, c) /\ Lone(s, c, t)
                   /\ c.comb[t].kind = "none"
<1>0. Good(s, n, stk) /\ Sim(e, s, n, Ctx(s), 0, 0)
  BY DEF Beside
<1>1. PICK x \in TaskType : /\ x = [s.task[t] EXCEPT !.st = "done"]
                            /\ Owes(s, n, WithTask(Ctx(s), t, x), <<"settle", t>>, 1)
  BY <1>0, BodyFacts
<1>2. PICK c : c = WithTask(Ctx(s), t, x)
  OBVIOUS
<1>3. Sim(e, s, n, c, 0, 0) /\ t \in 1..n /\ t \in Ids /\ s.prom[t].st = Pending /\ t > Deferred
  BY <1>2, BodySim
<1>4. PICK k, m : k = <<"settle", t>> /\ m = 1
  OBVIOUS
<1>5. Owes(s, n, c, k, m)
  BY <1>1, <1>2, <1>4
<1>6. Fine(s, n, c, 0) /\ RunOk(s, c)
  BY <1>5 DEF Owes
<1>7. c.comb[t].kind = "none"
  <2>1. Ctx(s) \in CtxType(n) /\ Ctx(s).comb[t].kind = "none"
    BY <1>0, GoodFacts, BodyFacts
  <2> QED BY <1>2, <1>3, <2>1, WithFacts
<1>8. Lone(s, c, t)
  BY <1>3, <1>4, <1>5, <1>7, LoneFacts
<1> QED BY <1>1, <1>2, <1>3, <1>6, <1>7, <1>8

\* A body returns a plain value, or throws.
LEMMA TaskEndSim ==
  ASSUME NEW e, NEW s, NEW n, NEW stk, Beside(e, s, n, stk), stk # <<>>, Last(stk).k = "task", NEW t, t = s.cur, NEW v \in Vals
  PROVE  /\ Sim(Js!JsSettle(e, t, 1, v), TaskFinish(s, v), n, Ctx(TaskFinish(s, v)), 0, 0)
         /\ Sim(Js!JsSettle(e, t, 2, v), TaskReject(s, v), n, Ctx(TaskReject(s, v)), 0, 0)
<1>0. Good(s, n, stk) /\ Sim(e, s, n, Ctx(s), 0, 0)
  BY DEF Beside
<1>1. PICK x, c : /\ x \in TaskType /\ x = [s.task[t] EXCEPT !.st = "done"] /\ c = WithTask(Ctx(s), t, x)
                  /\ Sim(e, s, n, c, 0, 0) /\ Fine(s, n, c, 0) /\ RunOk(s, c) /\ Lone(s, c, t)
                  /\ c.comb[t].kind = "none"
  BY BodyEnds
<1>2. t \in 1..n /\ t \in Ids /\ s.prom[t].st = Pending /\ s \in RtType(n) /\ e \in JsType
  BY <1>0, <1>1, BodySim, SimFacts
<1>3. PICK a : a = StartTask(s, t, x)
  OBVIOUS
<1>4. Alike(s, a, n) /\ Ctx(a) = c
  BY <1>1, <1>2, <1>3, StartFacts
<1>5. a.prom = s.prom /\ a.mt = s.mt /\ a.unh = s.unh /\ a.tq = s.tq /\ a \in RtType(n)
  BY <1>2, <1>3, <1>4 DEF RtType, StartTask, Alike
<1>6. Sim(e, a, n, c, 0, 0)
  BY <1>1, <1>2, <1>5, SameSim
<1>7. Fine(a, n, c, 0) /\ RunOk(a, c) /\ Lone(a, c, t) /\ a.prom[t].st = Pending
  <2>1. Lists(a) = Lists(s)
    BY <1>5 DEF Lists
  <2>2. Fine(a, n, c, 0)
    BY <1>1, <1>5, <2>1 DEF Fine, Counted, Count, Waits
  <2>3. RunOk(a, c)
    BY <1>1, <1>5 DEF RunOk
  <2>4. Lone(a, c, t)
    BY <1>1, <2>1 DEF Lone, InLists
  <2> QED BY <1>2, <1>5, <2>2, <2>3, <2>4
<1>8. [s EXCEPT !.task[t].st = "done"] = a
  BY <1>1, <1>3 DEF StartTask
<1>9. ASSUME NEW st \in Done, NEW b, b = Store(a, t, st, v), NEW z, z = b \/ (st = Rejected /\ z = NoteRejected(b, t)),
             NEW r, r = DrainReactions(z, t)
      PROVE  Sim(Js!JsSettle(e, t, st, v), SwapOut(r), n, Ctx(SwapOut(r)), 0, 0)
  <2>1. PICK y, w : y = 0 /\ w = 0
    OBVIOUS
  <2>2. Sim(e, a, n, c, y, w) /\ y \in {0, t}
    BY <1>6, <2>1
  <2>3. \/ r = DrainReactions(Store(a, t, st, v), t)
        \/ st = Rejected /\ r = DrainReactions(NoteRejected(Store(a, t, st, v), t), t)
    BY <1>9
  <2>4. PICK e2 : e2 = Js!JsSettle(e, t, st, v)
    OBVIOUS
  <2>5. Sim(Js!JsSettle(e, t, st, v), r, n, c, 0, w) /\ Same(a, r)
    BY <1>2, <1>7, <2>2, <2>3, SettleBoth
  <2>6. Sim(e2, r, n, c, 0, 0)
    BY <2>1, <2>4, <2>5
  <2>7. Fine(r, n, c, 0)
    <3>1. \A u \in {b, NoteRejected(b, t)} : Adds(a, DrainReactions(u, t), n, c, NoKey)
      BY <1>2, <1>7, <1>9, StoreAdds
    <3>2. Adds(a, r, n, c, NoKey)
      BY <1>9, <3>1
    <3> QED BY <3>2 DEF Adds
  <2>8. Ctx(r) = c
    BY <1>4, <2>5 DEF Same, Ctx
  <2>9. Sim(e2, SwapOut(r), n, Ctx(SwapOut(r)), 0, 0)
    BY <2>6, <2>7, <2>8, SwapSim
  <2> QED BY <2>4, <2>9
<1>10. Sim(Js!JsSettle(e, t, 1, v), TaskFinish(s, v), n, Ctx(TaskFinish(s, v)), 0, 0)
  <2>1. PICK st, b, r : st = 1 /\ b = Store(a, t, st, v) /\ r = DrainReactions(b, t)
    OBVIOUS
  <2>2. st \in Done /\ st = Fulfilled
    BY <2>1 DEF Done, Fulfilled, Rejected
  <2>3. Sim(Js!JsSettle(e, t, st, v), SwapOut(r), n, Ctx(SwapOut(r)), 0, 0)
    BY <1>9, <2>1, <2>2
  <2>4. TaskFinish(s, v) = SwapOut(r)
    BY <1>8, <2>1, <2>2 DEF TaskFinish
  <2> QED BY <2>1, <2>3, <2>4
<1>11. Sim(Js!JsSettle(e, t, 2, v), TaskReject(s, v), n, Ctx(TaskReject(s, v)), 0, 0)
  <2>1. PICK st, b, z, r : st = 2 /\ b = Store(a, t, st, v) /\ z = NoteRejected(b, t) /\ r = DrainReactions(z, t)
    OBVIOUS
  <2>2. st \in Done /\ st = Rejected
    BY <2>1 DEF Done, Fulfilled, Rejected
  <2>3. Sim(Js!JsSettle(e, t, st, v), SwapOut(r), n, Ctx(SwapOut(r)), 0, 0)
    BY <1>9, <2>1, <2>2
  <2>4. TaskReject(s, v) = SwapOut(r)
    BY <1>8, <2>1, <2>2 DEF TaskReject
  <2> QED BY <2>1, <2>3, <2>4
<1> QED BY <1>10, <1>11

\* A body returns a promise, which the task's own follows.
LEMMA TaskAdoptedSim ==
  ASSUME NEW e, NEW s, NEW n, NEW stk, Beside(e, s, n, stk), stk # <<>>, Last(stk).k = "task", NEW t, t = s.cur, NEW h \in 1..n
  PROVE  Sim(Js!JsResolveWith(e, t, h), TaskAdopted(s, h), n, Ctx(TaskAdopted(s, h)), 0, 0)
<1>0. Good(s, n, stk) /\ Sim(e, s, n, Ctx(s), 0, 0)
  BY DEF Beside
<1>1. PICK x, c : /\ x \in TaskType /\ x = [s.task[t] EXCEPT !.st = "done"] /\ c = WithTask(Ctx(s), t, x)
                  /\ Sim(e, s, n, c, 0, 0) /\ Fine(s, n, c, 0) /\ RunOk(s, c) /\ Lone(s, c, t)
                  /\ c.comb[t].kind = "none"
  BY BodyEnds
<1>2. t \in 1..n /\ t \in Ids /\ s.prom[t].st = Pending /\ t > Deferred
  BY <1>1, BodySim
<1>3. PICK e2, r, k : e2 = Js!JsResolveWith(e, t, h) /\ r = Adopt(s, t, h) /\ k = <<"settle", t>>
  OBVIOUS
<1>4. Sim(e2, r, n, c, 0, 0) /\ Adds(s, r, n, c, k)
  BY <1>1, <1>2, <1>3, AdoptSim
<1>5. Sim(e2, SwapOut(StartTask(r, t, x)), n, Ctx(SwapOut(StartTask(r, t, x))), 0, 0)
  BY <1>1, <1>2, <1>4, BodyLeaves
<1>6. StartTask(r, t, x) = [r EXCEPT !.task[t].st = "done"]
  BY <1>1, <1>4 DEF StartTask, Adds, Same
<1>7. TaskAdopted(s, h) = SwapOut(StartTask(r, t, x))
  BY <1>3, <1>6 DEF TaskAdopted
<1> QED BY <1>3, <1>5, <1>7

\* A body awaits a promise or a plain value.
LEMMA AwaitSim ==
  ASSUME NEW e, NEW s, NEW n, NEW stk, Beside(e, s, n, stk), stk # <<>>, Last(stk).k = "task", NEW t, t = s.cur
  PROVE  /\ Sim(Js!JsAwaitPlain(e, t), AwaitPlain(s), n, Ctx(AwaitPlain(s)), 0, 0)
         /\ \A p \in 1..n : Sim(Js!JsAwait(e, t, p), AwaitReady(s, p), n, Ctx(AwaitReady(s, p)), 0, 0)
<1>0. Good(s, n, stk) /\ Sim(e, s, n, Ctx(s), 0, 0)
  BY DEF Beside
<1>1. t \in 1..n /\ t \in Ids /\ Ctx(s).task[t].st = "running"
  BY <1>0, BodyFacts
<1>2. /\ n \in Nat /\ Ctx(s) \in CtxType(n) /\ 1..n \subseteq Ids /\ 1..n \subseteq Vals /\ 0 \in Vals /\ t \in Nat
      /\ Owes(s, n, Ctx(s), NoKey, 0)
  BY <1>0, <1>1, GoodFacts, PromiseAssumption DEF Vals
<1>3. PICK d \in Closures(n) : d = [fn |-> "resume", t |-> t]
  BY <1>1, <1>2, MakeClosures
<1>4. d.fn = "resume" /\ d.t = t /\ Key(d) = <<"resume", t>>
  BY <1>2, <1>3, KeyFacts
<1>5. PICK j : j = Js!Reaction("task", t, {}, Js!Plain)
  OBVIOUS
<1>6. j \in JobType /\ j.k = "task" /\ j.d = t /\ j.st = 0 /\ j.val = 0
  <2>1. PICK k, no, keep : k = "task" /\ no = {} /\ keep = Js!Plain
    OBVIOUS
  <2>2. k \in JobKinds /\ no \in SUBSET Done /\ keep \in Nat \X Nat
    BY <2>1 DEF JobKinds, Js!Plain
  <2>3. j = Js!Reaction(k, t, no, keep)
    BY <1>5, <2>1
  <2>4. j \in JobType /\ j.k = k /\ j.d = t /\ j.st = 0 /\ j.val = 0
    BY <1>2, <2>2, <2>3, ReactionFacts
  <2> QED BY <2>1, <2>4
<1>7. ASSUME NEW on \in Vals, NEW x \in TaskType, x = [st |-> "parked", on |-> on], NEW c, c = WithTask(Ctx(s), t, x)
      PROVE  /\ Sim(e, s, n, c, 0, 0) /\ Fine(s, n, c, 0) /\ RunOk(s, c) /\ Fit(d, c) /\ Src(d, c) = on /\ Allowed(s, d)
  <2>1. x.st = "parked" /\ x.on = on
    BY <1>7
  <2>2. PICK cc, k, m : cc = Ctx(s) /\ k = <<"resume", t>> /\ m = 1
    OBVIOUS
  <2>3. Owes(s, n, WithTask(cc, t, x), <<"resume", t>>, 1)
    BY <1>1, <1>2, <2>1, <2>2, CtxParked
  <2>4. Owes(s, n, c, k, m)
    BY <1>7, <2>2, <2>3
  <2>5. Fine(s, n, c, 0) /\ RunOk(s, c)
    BY <2>4 DEF Owes
  <2>6. c.task[t] = x
    BY <1>1, <1>2, <1>7, WithFacts
  <2>7. Fit(d, c) /\ Src(d, c) = on /\ Allowed(s, d)
    BY <1>4, <2>1, <2>6 DEF Fit, Src, Allowed
  <2>8. Sim(e, s, n, c, 0, 0)
    BY <1>7, BodySim
  <2> QED BY <2>5, <2>7, <2>8
<1>8. ASSUME NEW on \in Vals PROVE \E x, c : x \in TaskType /\ x = [st |-> "parked", on |-> on] /\ c = WithTask(Ctx(s), t, x)
  <2>1. PICK x \in TaskType : x = [st |-> "parked", on |-> on]
    BY DEF TaskType
  <2> QED BY <2>1
<1>9. Sim(Js!JsAwaitPlain(e, t), AwaitPlain(s), n, Ctx(AwaitPlain(s)), 0, 0)
  <2>1. PICK on \in Vals : on = 0
    BY <1>2
  <2>2. PICK x, c : x \in TaskType /\ x = [st |-> "parked", on |-> on] /\ c = WithTask(Ctx(s), t, x)
    BY <1>8
  <2>3. Sim(e, s, n, c, 0, 0) /\ Fine(s, n, c, 0) /\ RunOk(s, c) /\ Fit(d, c) /\ Src(d, c) = 0 /\ Allowed(s, d)
    BY <1>7, <2>1, <2>2
  <2>4. PICK g : g = [j EXCEPT !.st = 1]
    OBVIOUS
  <2>5. g \in JobType /\ g.k = "task" /\ g.d = t /\ g.st = 1 /\ g.val = 0
    BY <1>6, <2>4 DEF JobType
  <2>6. FiredPlain(g, d, Out(s), c)
    BY <1>4, <2>3, <2>5 DEF FiredPlain, Pair
  <2>7. ~Late(g)
    BY <2>5 DEF Late
  <2>8. PICK e2, r : e2 = [e EXCEPT !.jobs = Append(@, g)] /\ r = Enqueue(s, d)
    OBVIOUS
  <2>9. Sim(e2, r, n, c, 0, 0) /\ Same(s, r)
    BY <2>3, <2>5, <2>6, <2>7, <2>8, EnqueueBoth
  <2>10. Adds(s, r, n, c, Key(d))
    BY <2>3, <2>8, EnqueueAdds
  <2>11. Sim(e2, SwapOut(StartTask(r, t, x)), n, Ctx(SwapOut(StartTask(r, t, x))), 0, 0)
    BY <1>1, <2>2, <2>9, <2>10, BodyLeaves
  <2>12. Js!JsAwaitPlain(e, t) = e2
    BY <1>5, <2>4, <2>8 DEF Js!JsAwaitPlain
  <2>13. AwaitPlain(s) = SwapOut(StartTask(r, t, x))
    BY <1>3, <2>1, <2>2, <2>8 DEF AwaitPlain, StartTask
  <2> QED BY <2>11, <2>12, <2>13
<1>10. ASSUME NEW p \in 1..n PROVE Sim(Js!JsAwait(e, t, p), AwaitReady(s, p), n, Ctx(AwaitReady(s, p)), 0, 0)
  <2>1. PICK on \in Vals : on = p /\ on \in Ids
    BY <1>2
  <2>2. PICK x, c : x \in TaskType /\ x = [st |-> "parked", on |-> on] /\ c = WithTask(Ctx(s), t, x)
    BY <1>8
  <2>3. Sim(e, s, n, c, 0, 0) /\ Fine(s, n, c, 0) /\ RunOk(s, c) /\ Fit(d, c) /\ Src(d, c) = on /\ Allowed(s, d)
    BY <1>7, <2>2
  <2>4. Pair(j, d) /\ d.fn \notin Steps
    BY <1>4, <1>6 DEF Pair, Steps
  <2>5. PICK e2, r : e2 = Js!JsAttach(e, on, j) /\ r = Attach(s, on, d)
    OBVIOUS
  <2>6. Sim(e2, r, n, c, 0, 0) /\ Same(s, r)
    BY <1>6, <2>1, <2>3, <2>4, <2>5, AttachBoth
  <2>7. Adds(s, r, n, c, Key(d))
    BY <2>1, <2>3, <2>5, AttachAdds
  <2>8. Sim(e2, SwapOut(StartTask(r, t, x)), n, Ctx(SwapOut(StartTask(r, t, x))), 0, 0)
    BY <1>1, <2>2, <2>6, <2>7, BodyLeaves
  <2>9. Js!JsAwait(e, t, p) = e2
    BY <1>5, <2>1, <2>5 DEF Js!JsAwait
  <2>10. AwaitReady(s, p) = SwapOut(StartTask(r, t, x))
    BY <1>3, <2>1, <2>2, <2>5 DEF AwaitReady, StartTask
  <2> QED BY <2>8, <2>9, <2>10
<1> QED BY <1>9, <1>10

=============================================================================

----------------------------- MODULE PromiseSim -----------------------------
(***************************************************************************)
(* ECMAScript's machine and the compiled program's runtime, related: a     *)
(* simulation for every number of promises and operations, and what one    *)
(* operation of each does to it.                                           *)
(*                                                                         *)
(* Sim relates a state e of ECMAScript's machine to a state s of the       *)
(* runtime's.  Each closure of the runtime stands for one reaction or job, *)
(* and finally's result takes ECMAScript two jobs more than the runtime,   *)
(* on a promise of its own (Inner): jobs no closure stands for.  So the    *)
(* two queues are compared along f, which gives the place of each closure  *)
(* among the jobs.                                                         *)
(***************************************************************************)
EXTENDS PromiseProofs

JobKinds == {"then", "finally", "thenable", "adopt", "thunk", "member", "task", "queued"}
JobType == [k : JobKinds, d : Nat, on : SUBSET Done, keep : Nat \X Nat, st : Nat, val : Nat]
JsPromType == [st : {0, 1, 2}, val : Nat, rx : Seq(JobType), handled : BOOLEAN]
JsCombType == [kind : {"none", "all", "allSettled", "any", "race"}, left : Int]
NoCall == [k |-> "none"]
JsType ==
    [prom : [Js!JsIds -> JsPromType], jobs : Seq(JobType), ticks : Seq(Nat), unh : Seq(Js!JsIds),
     mode : {"jobs", "ticks"}, call : JobType \cup {NoCall}, comb : [Ids -> JsCombType]]

-----------------------------------------------------------------------------
(* The two machines seen apart from their queues.                          *)

Inner(d) == MaxProms + d
Inners(e) == [d \in Ids |-> e.prom[Inner(d)]]
Out(s) == [p \in Ids |-> <<s.prom[p].st, s.prom[p].val>>]

-----------------------------------------------------------------------------
(* What stands for what.                                                   *)

\* Reaction j and closure d wait for the same and do the same.
Pair(j, d) ==
    \/ d.fn = "then" /\ j.k = "then" /\ j.d = d.q /\ j.on = d.on
    \/ d.fn = "finally" /\ j.k = "finally" /\ j.d = d.q
    \/ d.fn = "comb" /\ j.k = "member" /\ j.d = d.q
    \/ d.fn = "adopt_settle" /\ j.k = "adopt" /\ j.d = d.q
    \/ d.fn = "finally_step" /\ j.k = "thunk" /\ j.d = Inner(d.q) /\ j.keep = <<d.st, d.val>>
    \/ d.fn = "resume" /\ j.k = "task" /\ j.d = d.t

Gets(j, o) == j.st = o[1] /\ j.val = o[2]

\* The job that makes d follow finally's inner promise.
Late(j) == j.k = "thenable" /\ j.val = Inner(j.d)

\* That promise with nothing done to it, and with only d waiting for it.
Blank(i) == i.st = 0 /\ i.rx = <<>>
Hung(i, d) == i.st = 0 /\ i.handled /\ Len(i.rx) = 1 /\ i.rx[1].k = "adopt" /\ i.rx[1].d = d

\* What finally's promise will be settled with: by the runtime's closure d,
\* and by ECMAScript's job j.
Owed(d, o) ==
    IF d.fn = "defer_step" THEN <<d.st, o[d.q][2]>>
    ELSE IF o[d.r][1] = Rejected THEN <<Rejected, o[d.r][2]>> ELSE <<d.st, d.val>>
Gives(j) == IF j.st = 1 THEN j.keep ELSE <<2, j.val>>

\* No closure stands for the job at i.
Free(f, i) == \A m \in DOMAIN f : f[m] # i

\* finally's d waits for its inner promise, or a job before b will make it.
Hook(J, I, f, d, b) ==
    \/ Hung(I[d], d)
    \/ Blank(I[d]) /\ \E i \in 1..Len(J) : i < b /\ Free(f, i) /\ Late(J[i]) /\ J[i].d = d

\* Job b stands for closure d.
FiredPlain(j, d, o, c) ==
    \/ d.fn # "finally_step" /\ Src(d, c) # 0 /\ Pair(j, d) /\ Gets(j, o[Src(d, c)])
    \/ d.fn = "resume" /\ Src(d, c) = 0 /\ Pair(j, d) /\ j.st = 1 /\ j.val = 0
    \/ d.fn = "queued" /\ j.k = "queued" /\ j.d = d.n /\ j.st = 0 /\ j.val = 0
    \/ d.fn = "adopt_job" /\ j.k = "thenable" /\ j.d = d.q /\ j.val = d.h
    \/ d.fn = "defer_step" /\ d.hops = 1 /\ j.k = "adopt" /\ j.d = d.q /\ j.st = d.st /\ j.val = o[d.q][2]
FiredLate(J, I, d, o, f, b) ==
    /\ d.fn = "finally_step" \/ (d.fn = "defer_step" /\ d.hops = 2)
    /\ Late(J[b]) /\ J[b].d = d.q
    /\ \/ I[d.q].st # 0 /\ <<I[d.q].st, I[d.q].val>> = Owed(d, o)
       \/ /\ Blank(I[d.q]) /\ b > 1 /\ Free(f, b - 1)
          /\ J[b - 1].k = "thunk" /\ J[b - 1].d = Inner(d.q) /\ Gives(J[b - 1]) = Owed(d, o)
FiredThunk(J, I, d, o, f, b) ==
    /\ d.fn = "finally_step" /\ Pair(J[b], d) /\ Gets(J[b], o[d.r])
    /\ Hook(J, I, f, d.q, b)
Fired(J, I, d, o, c, f, b) ==
    FiredPlain(J[b], d, o, c) \/ FiredLate(J, I, d, o, f, b) \/ FiredThunk(J, I, d, o, f, b)

\* A job no closure stands for: it makes d wait for its inner promise, or
\* settles the inner promise the next job makes d wait for.
Extra(J, I, f, i) ==
    \/ Late(J[i]) /\ J[i].d \in Ids /\ Blank(I[J[i].d])
    \/ /\ J[i].k = "thunk" /\ i + 1 \in 1..Len(J) /\ ~Free(f, i + 1)
       /\ Late(J[i + 1]) /\ J[i].d = Inner(J[i + 1].d)

\* f gives each of m a place of n, in order.
Embeds(f, m, n) ==
    /\ f \in [1..m -> 1..n]
    /\ \A a, b \in 1..m : a < b => f[a] < f[b]

-----------------------------------------------------------------------------
(* The relation.                                                           *)

Once(J) == \A i, k \in 1..Len(J) : Late(J[i]) /\ Late(J[k]) /\ J[i].d = J[k].d => i = k

QueueSim(J, I, M, o, c, f) ==
    /\ Embeds(f, Len(M), Len(J)) /\ Once(J)
    /\ \A m \in 1..Len(M) : Fired(J, I, M[m], o, c, f, f[m])
    /\ \A i \in 1..Len(J) : Free(f, i) => Extra(J, I, f, i)

\* A promise's reactions, oldest first.
ListSim(X, l, J, I, f) ==
    /\ Len(X) = Len(l)
    /\ \A i \in 1..Len(l) : /\ Pair(X[i], l[i])
                            /\ l[i].fn = "finally_step" => Hook(J, I, f, l[i].q, Len(J) + 1)

PromSim(E, P) ==
    /\ E.st = P.st /\ E.handled = P.handled
    /\ P.st # Pending => E.val = P.val
    /\ P.rx # <<>> => P.handled
    /\ P.queued => P.st = Rejected

\* finally's result is under way for d.
Deferring(s, d) ==
    \E x : InLists(s, x) /\ x.fn \in {"finally_step", "defer_step"} /\ x.q = d
LateFor(J, d) == \E i \in 1..Len(J) : Late(J[i]) /\ J[i].d = d

\* An inner promise is untouched until then, and its rejection is handled
\* when no job remains that would (but for x and y, in mid-step).
InnerSim(J, I, s, x, y) ==
    /\ \A d \in Ids : d # x /\ s.prom[d].st = Pending /\ ~Deferring(s, d) => Blank(I[d]) /\ ~LateFor(J, d)
    /\ \A d \in Ids : d # y /\ I[d].st # 0 /\ ~I[d].handled => LateFor(J, d)

\* Whatever will settle a promise, other than the program's own resolve and
\* reject, will settle one that is pending and not theirs.
Owners(s, c) ==
    /\ \A d : InLists(s, d) /\ Key(d)[1] = "settle" /\ d.fn # "comb" => s.prom[d.q].st = Pending /\ d.q > Deferred
    /\ \A t \in Ids : c.task[t].st \in {"running", "parked"} => s.prom[t].st = Pending /\ t > Deferred
    /\ \A q \in Ids : c.comb[q].kind # "none" => q > Deferred
    /\ c.run.fn \in Waiters => s.prom[c.run.q].st = Pending /\ c.run.q > Deferred

CombSim(ec, s, c) ==
    \A q \in Ids : /\ ec[q].kind = c.comb[q].kind
                   /\ s.prom[q].st = Pending => ec[q].left = c.comb[q].left

CallSim(j, o, c) == c.run.fn \in Waiters => j \in JobType /\ Pair(j, c.run) /\ Gets(j, o[c.run.p])

\* The rejections nobody handled; the runtime has no inner promises.
UnhSim(u, v, E) ==
    /\ \A i \in 1..Len(u) : E[u[i]].st # 0
    /\ \A m \in 1..Len(v) : E[v[m]].st = 2
    /\ \E g : /\ Embeds(g, Len(v), Len(u))
              /\ \A m \in 1..Len(v) : u[g[m]] = v[m]
              /\ \A i \in 1..Len(u) : Free(g, i) => u[i] > MaxProms

QueuesSim(e, s, c, f) ==
    /\ QueueSim(e.jobs, Inners(e), s.mt, Out(s), c, f)
    /\ \A p \in Ids : ListSim(e.prom[p].rx, Lists(s)[p], e.jobs, Inners(e), f)

RestSim(e, s, n, c) ==
    /\ \A p \in Ids : PromSim(e.prom[p], s.prom[p]) /\ (p > n => s.prom[p].st = Pending)
    /\ Owners(s, c) /\ CombSim(e.comb, s, c) /\ CallSim(e.call, Out(s), c)
    /\ UnhSim(e.unh, s.unh, e.prom) /\ e.ticks = s.tq

SimBy(e, s, n, c, x, y, f) ==
    /\ e \in JsType /\ QueuesSim(e, s, c, f)
    /\ InnerSim(e.jobs, Inners(e), s, x, y) /\ RestSim(e, s, n, c)
Sim(e, s, n, c, x, y) == \E f : SimBy(e, s, n, c, x, y, f)

-----------------------------------------------------------------------------
(* Places.                                                                 *)

\* Inner promises are none of the program's, and each has its own number.
LEMMA InnerFacts ==
  /\ \A d \in Ids : /\ Inner(d) \in Js!JsIds /\ Inner(d) \notin Ids /\ Inner(d) > MaxProms
                    /\ Js!Inner(d) = Inner(d) /\ Inner(d) \in Nat
  /\ \A d, i \in Ids : Inner(d) = Inner(i) => d = i
  /\ \A p \in Ids : p \in Js!JsIds /\ p <= MaxProms /\ p \in Nat
  /\ \A p \in Js!JsIds : p \notin Ids => \E d \in Ids : p = Inner(d)
  /\ MaxProms \in Nat
<1>1. MaxProms \in Nat
  BY PromiseAssumption
<1>2. ASSUME NEW p \in Js!JsIds, p \notin Ids PROVE \E d \in Ids : p = Inner(d)
  <2>1. p - MaxProms \in Ids /\ p = Inner(p - MaxProms)
    BY <1>1, <1>2 DEF Ids, Inner, Js!JsIds
  <2> QED BY <2>1
<1>3. \A d \in Ids : /\ Inner(d) \in Js!JsIds /\ Inner(d) \notin Ids /\ Inner(d) > MaxProms
                     /\ Js!Inner(d) = Inner(d) /\ Inner(d) \in Nat
  BY <1>1 DEF Ids, Inner, Js!JsIds, Js!Inner
<1>4. \A d, i \in Ids : Inner(d) = Inner(i) => d = i
  BY <1>1 DEF Ids, Inner
<1>5. \A p \in Ids : p \in Js!JsIds /\ p <= MaxProms /\ p \in Nat
  BY <1>1 DEF Ids, Js!JsIds
<1> QED BY <1>1, <1>2, <1>3, <1>4, <1>5

\* h more after the first z new places.
More(f, m, n, z, h) == [i \in 1..(m + h) |-> IF i <= m THEN f[i] ELSE n + z + i - m]
Less(f, m) == [i \in 1..(m - 1) |-> f[i + 1] - 1]
Skip(f, m) == [i \in 1..m |-> f[i] - 1]
Spread(f, g, m, n, z, h) ==
    /\ Embeds(g, m + h, n + z + h)
    /\ \A i \in 1..m : g[i] = f[i]
    /\ \A i \in 1..h : g[m + i] = n + z + i
    /\ \A i \in 1..n : Free(g, i) <=> Free(f, i)
    /\ \A i \in 1..(n + z + h) : i > n => (Free(g, i) <=> i <= n + z)

\* Both sequences grow.
LEMMA EmbedsMore ==
  ASSUME NEW m \in Nat, NEW n \in Nat, NEW f, Embeds(f, m, n), NEW z \in Nat, NEW h \in Nat,
         NEW g, g = More(f, m, n, z, h)
  PROVE  Spread(f, g, m, n, z, h)
<1>1. DOMAIN g = 1..(m + h) /\ DOMAIN f = 1..m /\ \A i \in 1..m : f[i] \in 1..n
  BY DEF More, Embeds
<1>2. ASSUME NEW i \in 1..m PROVE g[i] = f[i] /\ i \in 1..(m + h)
  BY <1>1 DEF More
<1>3. ASSUME NEW i \in 1..h PROVE g[m + i] = n + z + i /\ m + i \in 1..(m + h)
  <2>1. m + i \in 1..(m + h) /\ ~(m + i <= m)
    OBVIOUS
  <2> QED BY <2>1 DEF More
<1>4. ASSUME NEW i \in 1..(m + h) PROVE i \in 1..m \/ (i > m /\ i - m \in 1..h /\ g[i] = n + z + (i - m))
  <2>1. CASE i <= m
    BY <2>1
  <2>2. CASE i > m
    BY <2>2 DEF More
  <2> QED BY <2>1, <2>2
<1>5. g \in [1..(m + h) -> 1..(n + z + h)]
  <2>1. \A i \in 1..(m + h) : g[i] \in 1..(n + z + h)
    <3> SUFFICES ASSUME NEW i \in 1..(m + h) PROVE g[i] \in 1..(n + z + h)
      OBVIOUS
    <3>1. CASE i \in 1..m
      <4>1. g[i] \in 1..n
        BY <1>1, <1>2, <3>1
      <4> QED BY <4>1
    <3>2. CASE i > m /\ i - m \in 1..h /\ g[i] = n + z + (i - m)
      BY <3>2
    <3> QED BY <1>4, <3>1, <3>2
  <2> QED BY <2>1 DEF More
<1>6. ASSUME NEW a \in 1..(m + h), NEW b \in 1..(m + h), a < b PROVE g[a] < g[b]
  <2>1. CASE b \in 1..m
    <3>1. a \in 1..m
      BY <1>6, <2>1
    <3> QED BY <1>2, <1>6, <2>1, <3>1 DEF Embeds
  <2>2. CASE a \in 1..m /\ b > m /\ b - m \in 1..h /\ g[b] = n + z + (b - m)
    <3>1. g[a] \in 1..n
      BY <1>1, <1>2, <2>2
    <3> QED BY <2>2, <3>1
  <2>3. CASE ~(a \in 1..m) /\ b > m
    <3>1. g[a] = n + z + (a - m) /\ g[b] = n + z + (b - m)
      BY <1>4, <2>3
    <3> QED BY <1>6, <3>1
  <2> QED BY <1>4, <2>1, <2>2, <2>3
<1>7. ASSUME NEW i \in 1..n PROVE Free(g, i) <=> Free(f, i)
  <2>1. ASSUME Free(g, i) PROVE Free(f, i)
    BY <1>1, <1>2, <2>1 DEF Free
  <2>2. ASSUME Free(f, i) PROVE Free(g, i)
    <3> SUFFICES ASSUME NEW a \in 1..(m + h), g[a] = i PROVE FALSE
      BY <1>1 DEF Free
    <3>1. CASE a \in 1..m
      BY <1>1, <1>2, <2>2, <3>1 DEF Free
    <3>2. CASE a > m /\ a - m \in 1..h /\ g[a] = n + z + (a - m)
      BY <3>2
    <3> QED BY <1>4, <3>1, <3>2
  <2> QED BY <2>1, <2>2
<1>8. ASSUME NEW i \in 1..(n + z + h), i > n PROVE Free(g, i) <=> i <= n + z
  <2>1. ASSUME i > n + z PROVE ~Free(g, i)
    <3>1. i - n - z \in 1..h
      BY <2>1
    <3>2. PICK a \in 1..h : a = i - n - z
      BY <3>1
    <3>3. g[m + a] = i /\ m + a \in 1..(m + h)
      BY <1>3, <3>2
    <3> QED BY <1>1, <3>3 DEF Free
  <2>2. ASSUME i <= n + z PROVE Free(g, i)
    <3> SUFFICES ASSUME NEW a \in 1..(m + h), g[a] = i PROVE FALSE
      BY <1>1 DEF Free
    <3>1. CASE a \in 1..m
      <4>1. g[a] \in 1..n
        BY <1>1, <1>2, <3>1
      <4> QED BY <1>8, <4>1
    <3>2. CASE a > m /\ a - m \in 1..h /\ g[a] = n + z + (a - m)
      BY <2>2, <3>2
    <3> QED BY <1>4, <3>1, <3>2
  <2> QED BY <2>1, <2>2
<1> QED BY <1>2, <1>3, <1>5, <1>6, <1>7, <1>8 DEF Embeds, Spread

\* Only the first place can be that of the first closure; both go.
LEMMA EmbedsLess ==
  ASSUME NEW m \in Nat, NEW n \in Nat, NEW f, Embeds(f, m, n), n >= 1, ~Free(f, 1), NEW g, g = Less(f, m)
  PROVE  /\ m >= 1 /\ f[1] = 1 /\ Embeds(g, m - 1, n - 1)
         /\ \A i \in 1..(m - 1) : g[i] = f[i + 1] - 1 /\ f[i + 1] > 1 /\ i + 1 \in 1..m
         /\ \A i \in 1..n : i > 1 => (Free(g, i - 1) <=> Free(f, i))
<1>1. DOMAIN f = 1..m /\ (\A i \in 1..m : f[i] \in 1..n) /\ (\A a, b \in 1..m : a < b => f[a] < f[b])
  BY DEF Embeds
<1>2. PICK a \in 1..m : f[a] = 1
  BY <1>1 DEF Free
<1>3. a = 1
  <2> SUFFICES ASSUME a # 1 PROVE FALSE
    OBVIOUS
  <2>1. 1 \in 1..m /\ 1 < a
    OBVIOUS
  <2>2. f[1] < f[a] /\ f[1] \in 1..n
    BY <1>1, <2>1
  <2> QED BY <1>2, <2>2
<1>4. ASSUME NEW i \in 1..(m - 1) PROVE i + 1 \in 1..m /\ f[i + 1] \in 1..n /\ f[i + 1] > 1 /\ g[i] = f[i + 1] - 1
  <2>1. i + 1 \in 1..m /\ 1 \in 1..m /\ 1 < i + 1
    OBVIOUS
  <2>2. f[i + 1] \in 1..n /\ f[1] < f[i + 1]
    BY <1>1, <2>1
  <2> QED BY <1>2, <1>3, <2>1, <2>2 DEF Less
<1>5. g \in [1..(m - 1) -> 1..(n - 1)]
  <2>1. \A i \in 1..(m - 1) : g[i] \in 1..(n - 1)
    BY <1>4
  <2> QED BY <2>1 DEF Less
<1>6. ASSUME NEW x \in 1..(m - 1), NEW y \in 1..(m - 1), x < y PROVE g[x] < g[y]
  <2>1. x + 1 < y + 1 /\ x + 1 \in 1..m /\ y + 1 \in 1..m
    BY <1>6
  <2>2. f[x + 1] < f[y + 1]
    BY <1>1, <2>1
  <2> QED BY <1>4, <2>2
<1>7. ASSUME NEW i \in 1..n, i > 1 PROVE Free(g, i - 1) <=> Free(f, i)
  <2>1. ASSUME Free(f, i) PROVE Free(g, i - 1)
    <3> SUFFICES ASSUME NEW x \in 1..(m - 1), g[x] = i - 1 PROVE FALSE
      BY <1>5 DEF Free
    <3>1. f[x + 1] = i /\ x + 1 \in 1..m
      BY <1>4
    <3> QED BY <1>1, <2>1, <3>1 DEF Free
  <2>2. ASSUME Free(g, i - 1) PROVE Free(f, i)
    <3> SUFFICES ASSUME NEW x \in 1..m, f[x] = i PROVE FALSE
      BY <1>1 DEF Free
    <3>1. x # 1
      BY <1>2, <1>3, <1>7
    <3>2. x - 1 \in 1..(m - 1) /\ (x - 1) + 1 = x
      BY <3>1
    <3>3. g[x - 1] = i - 1
      BY <1>4, <3>2
    <3> QED BY <1>5, <2>2, <3>2, <3>3 DEF Free
  <2> QED BY <2>1, <2>2
<1> QED BY <1>2, <1>3, <1>4, <1>5, <1>6, <1>7 DEF Embeds

\* The first place is no closure's, and goes.
LEMMA EmbedsSkip ==
  ASSUME NEW m \in Nat, NEW n \in Nat, NEW f, Embeds(f, m, n), n >= 1, Free(f, 1), NEW g, g = Skip(f, m)
  PROVE  /\ Embeds(g, m, n - 1)
         /\ \A i \in 1..m : g[i] = f[i] - 1 /\ f[i] > 1
         /\ \A i \in 1..n : i > 1 => (Free(g, i - 1) <=> Free(f, i))
<1>1. DOMAIN f = 1..m /\ (\A i \in 1..m : f[i] \in 1..n) /\ (\A a, b \in 1..m : a < b => f[a] < f[b])
  BY DEF Embeds
<1>2. \A i \in 1..m : f[i] # 1
  BY <1>1 DEF Free
<1>3. \A i \in 1..m : g[i] = f[i] - 1 /\ f[i] > 1 /\ g[i] \in 1..(n - 1)
  BY <1>1, <1>2 DEF Skip
<1>4. g \in [1..m -> 1..(n - 1)]
  BY <1>3 DEF Skip
<1>5. \A a, b \in 1..m : a < b => g[a] < g[b]
  BY <1>1, <1>3
<1>6. ASSUME NEW i \in 1..n, i > 1 PROVE Free(g, i - 1) <=> Free(f, i)
  <2>1. \A a \in 1..m : g[a] = i - 1 <=> f[a] = i
    BY <1>1, <1>3
  <2>2. DOMAIN g = 1..m
    BY <1>4
  <2> QED BY <1>1, <2>1, <2>2 DEF Free
<1> QED BY <1>3, <1>4, <1>5, <1>6 DEF Embeds

-----------------------------------------------------------------------------
(* The queues grow and shrink, and what stands for what stays.             *)

\* The k first jobs are gone, the others have moved up.
Shifted(J, f, J2, f2, k) ==
    /\ k \in {0, 1} /\ Len(J) \in Nat /\ Len(J2) \in Nat
    /\ \A i \in 1..Len(J) : i > k => /\ i - k \in 1..Len(J2) /\ J2[i - k] = J[i]
                                     /\ Free(f2, i - k) <=> Free(f, i)

\* The first job, if it goes and is no closure's, is not about d's inner promise.
Spared(J, f, k, d) ==
    k # 0 /\ Free(f, 1) => /\ J[1].k = "thunk" => J[1].d # Inner(d)
                           /\ Late(J[1]) => J[1].d # d

\* What closure d reads has not changed.
Keeps(d, o, o2, c, c2) ==
    /\ Src(d, c2) = Src(d, c)
    /\ Src(d, c) # 0 => o2[Src(d, c)] = o[Src(d, c)]
    /\ d.fn = "defer_step" => o2[d.q] = o[d.q]

Steps == {"finally_step", "defer_step"}

\* What must stay for d's inner promise.
HookKept(J, I, f, J2, I2, f2, k, d, b, b2) ==
    /\ Shifted(J, f, J2, f2, k) /\ Spared(J, f, k, d) /\ I2[d] = I[d]
    /\ b \in Nat /\ b2 \in Nat /\ b2 >= b - k
FiredKept(J, I, f, J2, I2, f2, k, d, o, o2, c, c2, b) ==
    /\ Shifted(J, f, J2, f2, k) /\ Keeps(d, o, o2, c, c2) /\ b \in 1..Len(J) /\ b > k
    /\ d.fn \in Steps => Spared(J, f, k, d.q) /\ I2[d.q] = I[d.q]

\* finally's promise still waits.
LEMMA HookMoves ==
  ASSUME NEW J, NEW I, NEW f, NEW J2, NEW I2, NEW f2, NEW k, NEW d, NEW b, NEW b2,
         HookKept(J, I, f, J2, I2, f2, k, d, b, b2), Hook(J, I, f, d, b)
  PROVE  Hook(J2, I2, f2, d, b2)
<1> USE DEF HookKept
<1>1. CASE Hung(I[d], d)
  BY <1>1 DEF Hook
<1>2. CASE Blank(I[d]) /\ \E i \in 1..Len(J) : i < b /\ Free(f, i) /\ Late(J[i]) /\ J[i].d = d
  <2>1. PICK i \in 1..Len(J) : i < b /\ Free(f, i) /\ Late(J[i]) /\ J[i].d = d
    BY <1>2
  <2>2. i > k
    <3> SUFFICES ASSUME k = 1, i = 1 PROVE FALSE
      BY DEF Shifted
    <3> QED BY <2>1 DEF Spared
  <2>3. i - k \in 1..Len(J2) /\ J2[i - k] = J[i] /\ Free(f2, i - k)
    BY <2>1, <2>2 DEF Shifted
  <2>4. i - k < b2
    BY <2>1 DEF Shifted
  <2> QED BY <1>2, <2>1, <2>3, <2>4 DEF Hook
<1> QED BY <1>1, <1>2 DEF Hook

\* A job still stands for its closure.
LEMMA FiredMoves ==
  ASSUME NEW J, NEW I, NEW f, NEW J2, NEW I2, NEW f2, NEW k, NEW d, NEW o, NEW o2, NEW c, NEW c2, NEW b,
         NEW n \in Nat, d \in Closures(n),
         FiredKept(J, I, f, J2, I2, f2, k, d, o, o2, c, c2, b), Fired(J, I, d, o, c, f, b)
  PROVE  Fired(J2, I2, d, o2, c2, f2, b - k)
<1> USE DEF FiredKept
<1>0. k \in {0, 1} /\ Len(J) \in Nat /\ Len(J2) \in Nat /\ b \in 1..Len(J) /\ b > k /\ Keeps(d, o, o2, c, c2)
  BY DEF Shifted
<1>1. PICK a : a = b - k
  OBVIOUS
<1>2. a \in 1..Len(J2) /\ J2[a] = J[b] /\ a \in Nat /\ b \in Nat
  BY <1>0, <1>1 DEF Shifted
<1>3. d.fn = "finally_step" => Src(d, c) = d.r /\ d.r # 0
  BY ClosureFacts DEF Src
<1>4. Owed(d, o2) = Owed(d, o) \/ d.fn \notin Steps
  BY <1>0, <1>3 DEF Owed, Keeps, Steps
<1>5. CASE FiredPlain(J[b], d, o, c)
  <2>1. FiredPlain(J2[a], d, o2, c2)
    BY <1>0, <1>2, <1>5 DEF FiredPlain, Keeps
  <2> QED BY <1>1, <2>1 DEF Fired
<1>6. CASE FiredLate(J, I, d, o, f, b)
  <2>1. d.fn \in Steps /\ Late(J2[a]) /\ J2[a].d = d.q /\ I2[d.q] = I[d.q] /\ Spared(J, f, k, d.q)
    BY <1>0, <1>2, <1>6 DEF FiredLate, Steps
  <2>2. CASE I[d.q].st # 0 /\ <<I[d.q].st, I[d.q].val>> = Owed(d, o)
    <3>1. FiredLate(J2, I2, d, o2, f2, a)
      BY <1>4, <1>6, <2>1, <2>2 DEF FiredLate
    <3> QED BY <1>1, <3>1 DEF Fired
  <2>3. CASE /\ Blank(I[d.q]) /\ b > 1 /\ Free(f, b - 1)
             /\ J[b - 1].k = "thunk" /\ J[b - 1].d = Inner(d.q) /\ Gives(J[b - 1]) = Owed(d, o)
    <3>1. b - 1 > k
      <4> SUFFICES ASSUME k = 1, b - 1 = 1 PROVE FALSE
        BY <1>0, <2>3
      <4> QED BY <2>1, <2>3 DEF Spared
    <3>2. b - 1 \in 1..Len(J) /\ (b - 1) - k = a - 1
      BY <1>0, <1>1, <1>2, <2>3, <3>1
    <3>3. J2[a - 1] = J[b - 1] /\ Free(f2, a - 1) /\ a - 1 \in 1..Len(J2)
      BY <2>3, <3>1, <3>2 DEF Shifted
    <3>4. a > 1
      BY <1>2, <3>3
    <3>5. FiredLate(J2, I2, d, o2, f2, a)
      BY <1>4, <1>6, <2>1, <2>3, <3>3, <3>4 DEF FiredLate
    <3> QED BY <1>1, <3>5 DEF Fired
  <2> QED BY <1>6, <2>2, <2>3 DEF FiredLate
<1>7. CASE FiredThunk(J, I, d, o, f, b)
  <2>1. d.fn = "finally_step" /\ Pair(J2[a], d) /\ Gets(J2[a], o2[d.r]) /\ Hook(J, I, f, d.q, b)
    BY <1>0, <1>2, <1>3, <1>7 DEF FiredThunk, Keeps
  <2>2. Hook(J2, I2, f2, d.q, a)
    <3>1. PICK q : q = d.q
      OBVIOUS
    <3>2. HookKept(J, I, f, J2, I2, f2, k, q, b, a) /\ Hook(J, I, f, q, b)
      BY <1>0, <1>1, <1>2, <2>1, <3>1 DEF Steps, HookKept
    <3>3. Hook(J2, I2, f2, q, a)
      BY <3>2, HookMoves
    <3> QED BY <3>1, <3>3
  <2> QED BY <1>1, <2>1, <2>2 DEF Fired, FiredThunk
<1> QED BY <1>5, <1>6, <1>7 DEF Fired

\* A job no closure stands for stays one.
LEMMA ExtraMoves ==
  ASSUME NEW J, NEW I, NEW f, NEW J2, NEW I2, NEW f2, NEW k, NEW i, Shifted(J, f, J2, f2, k),
         i \in 1..Len(J), i > k, Extra(J, I, f, i), Late(J[i]) => I2[J[i].d] = I[J[i].d]
  PROVE  Extra(J2, I2, f2, i - k)
<1>0. k \in {0, 1} /\ Len(J) \in Nat /\ Len(J2) \in Nat
  BY DEF Shifted
<1>1. PICK a : a = i - k
  OBVIOUS
<1>2. a \in 1..Len(J2) /\ J2[a] = J[i]
  BY <1>0, <1>1 DEF Shifted
<1>3. CASE Late(J[i]) /\ J[i].d \in Ids /\ Blank(I[J[i].d])
  BY <1>1, <1>2, <1>3 DEF Extra
<1>4. CASE /\ J[i].k = "thunk" /\ i + 1 \in 1..Len(J) /\ ~Free(f, i + 1)
           /\ Late(J[i + 1]) /\ J[i].d = Inner(J[i + 1].d)
  <2>1. (i + 1) - k = a + 1 /\ i + 1 > k
    BY <1>0, <1>1
  <2>2. a + 1 \in 1..Len(J2) /\ J2[a + 1] = J[i + 1] /\ ~Free(f2, a + 1)
    BY <1>0, <1>4, <2>1 DEF Shifted
  <2> QED BY <1>1, <1>2, <1>4, <2>2 DEF Extra
<1> QED BY <1>3, <1>4 DEF Extra

\* What the waiting closures read, and the inner promises of theirs and of the
\* jobs of no closure, have not changed.
Untouched(J, M, f, I, I2, o, o2, c, c2) ==
    /\ \A m \in 1..Len(M) : Keeps(M[m], o, o2, c, c2) /\ (M[m].fn \in Steps => I2[M[m].q] = I[M[m].q])
    /\ \A i \in 1..Len(J) : Free(f, i) /\ Late(J[i]) => I2[J[i].d] = I[J[i].d]

Typed(J, M, n) == n \in Nat /\ 1..n \subseteq Ids /\ J \in Seq(JobType) /\ M \in Seq(Closures(n))

\* K and N are new, z of the jobs K first and no closure's.
Grown(J, J2, M, M2, f, g, K, N, z) ==
    /\ J2 = J \o K /\ M2 = M \o N /\ z \in Nat /\ Len(K) = z + Len(N)
    /\ g = More(f, Len(M), Len(J), z, Len(N))

\* The old jobs are where they were.
LEMMA GrownFacts ==
  ASSUME NEW J, NEW J2, NEW M, NEW M2, NEW f, NEW g, NEW K, NEW N, NEW z, NEW n,
         Typed(J, M, n), Typed(K, N, n), Grown(J, J2, M, M2, f, g, K, N, z), Embeds(f, Len(M), Len(J))
  PROVE  /\ Typed(J2, M2, n) /\ Shifted(J, f, J2, g, 0) /\ Embeds(g, Len(M2), Len(J2))
         /\ Len(J2) = Len(J) + z + Len(N) /\ Len(M2) = Len(M) + Len(N)
         /\ \A i \in 1..Len(J) : J2[i] = J[i] /\ i \in 1..Len(J2)
         /\ \A i \in 1..Len(K) : J2[Len(J) + i] = K[i]
         /\ \A i \in 1..Len(M) : M2[i] = M[i] /\ g[i] = f[i] /\ f[i] \in 1..Len(J)
         /\ \A i \in 1..Len(N) : M2[Len(M) + i] = N[i] /\ g[Len(M) + i] = Len(J) + z + i
         /\ \A i \in 1..Len(J2) : i > Len(J) => (Free(g, i) <=> i <= Len(J) + z)
<1>1. PICK a, b, h, w : a = Len(M) /\ b = Len(J) /\ h = Len(N) /\ w = Len(K)
  OBVIOUS
<1>2. a \in Nat /\ b \in Nat /\ h \in Nat /\ z \in Nat /\ w = z + h /\ n \in Nat
  BY <1>1 DEF Typed, Grown
<1>3. /\ J2 \in Seq(JobType) /\ Len(J2) = b + w
      /\ \A i \in 1..b : J2[i] = J[i]
      /\ \A i \in 1..w : J2[b + i] = K[i]
  <2>1. J \in Seq(JobType) /\ K \in Seq(JobType) /\ J2 = J \o K
    BY DEF Typed, Grown
  <2>2. J2 \in Seq(JobType) /\ Len(J2) = b + w /\ \A i \in 1..(b + w) : J2[i] = IF i <= b THEN J[i] ELSE K[i - b]
    BY <1>1, <2>1, ConcatProperties
  <2>3. \A i \in 1..b : i \in 1..(b + w) /\ i <= b
    BY <1>2
  <2>4. \A i \in 1..w : b + i \in 1..(b + w) /\ ~(b + i <= b) /\ (b + i) - b = i
    BY <1>2
  <2> QED BY <2>2, <2>3, <2>4
<1>4. /\ M2 \in Seq(Closures(n)) /\ Len(M2) = a + h
      /\ \A i \in 1..a : M2[i] = M[i]
      /\ \A i \in 1..h : M2[a + i] = N[i]
  <2>0. PICK S : S = Closures(n)
    OBVIOUS
  <2>1. M \in Seq(S) /\ N \in Seq(S) /\ M2 = M \o N
    BY <2>0 DEF Typed, Grown
  <2>2. M2 \in Seq(S) /\ Len(M2) = a + h /\ \A i \in 1..(a + h) : M2[i] = IF i <= a THEN M[i] ELSE N[i - a]
    BY <1>1, <2>1, ConcatProperties
  <2>3. \A i \in 1..a : i \in 1..(a + h) /\ i <= a
    BY <1>2
  <2>4. \A i \in 1..h : a + i \in 1..(a + h) /\ ~(a + i <= a) /\ (a + i) - a = i
    BY <1>2
  <2> QED BY <2>0, <2>2, <2>3, <2>4
<1>5. /\ Embeds(g, a + h, b + z + h)
      /\ \A i \in 1..a : g[i] = f[i]
      /\ \A i \in 1..h : g[a + i] = b + z + i
      /\ \A i \in 1..b : Free(g, i) <=> Free(f, i)
      /\ \A i \in 1..(b + z + h) : i > b => (Free(g, i) <=> i <= b + z)
  <2>1. Embeds(f, a, b) /\ g = More(f, a, b, z, h)
    BY <1>1 DEF Grown
  <2>2. a \in Nat /\ b \in Nat /\ z \in Nat /\ h \in Nat
    BY <1>2
  <2>3. Spread(f, g, a, b, z, h)
    BY <2>1, <2>2, EmbedsMore
  <2> QED BY <2>3 DEF Spread
<1>6. \A i \in 1..a : f[i] \in 1..b
  BY <1>1 DEF Embeds
<1>7. b + w = b + z + h
  BY <1>2
<1>8. \A i \in 1..b : i \in 1..(b + w)
  BY <1>2
<1>9. Shifted(J, f, J2, g, 0)
  <2>1. Len(J2) \in Nat /\ Len(J) \in Nat
    BY <1>1, <1>2, <1>3
  <2>2. ASSUME NEW i \in 1..Len(J) PROVE i - 0 \in 1..Len(J2) /\ J2[i - 0] = J[i] /\ (Free(g, i - 0) <=> Free(f, i))
    <3>1. i - 0 = i /\ i \in 1..b /\ i \in 1..Len(J2)
      BY <1>1, <1>3, <1>8
    <3> QED BY <1>3, <1>5, <3>1
  <2> QED BY <2>1, <2>2 DEF Shifted
<1> QED BY <1>1, <1>2, <1>3, <1>4, <1>5, <1>6, <1>7, <1>8, <1>9 DEF Typed

\* The queues grow: what holds of the new ones is all there is to show.
LEMMA QueueGrows ==
  ASSUME NEW J, NEW J2, NEW M, NEW M2, NEW f, NEW g, NEW K, NEW N, NEW z, NEW n,
         NEW I, NEW I2, NEW o, NEW o2, NEW c, NEW c2,
         Typed(J, M, n), Typed(K, N, n), Grown(J, J2, M, M2, f, g, K, N, z),
         QueueSim(J, I, M, o, c, f), Untouched(J, M, f, I, I2, o, o2, c, c2), Once(J2),
         \A i \in 1..Len(N) : Fired(J2, I2, N[i], o2, c2, g, Len(J) + z + i),
         \A i \in 1..z : Extra(J2, I2, g, Len(J) + i)
  PROVE  QueueSim(J2, I2, M2, o2, c2, g)
<1>1. PICK a, b, h : a = Len(M) /\ b = Len(J) /\ h = Len(N)
  OBVIOUS
<1>2. a \in Nat /\ b \in Nat /\ h \in Nat /\ z \in Nat /\ n \in Nat
  BY <1>1 DEF Typed, Grown
<1>3. /\ Typed(J2, M2, n) /\ Shifted(J, f, J2, g, 0) /\ Embeds(g, Len(M2), Len(J2))
      /\ Len(J2) = b + z + h /\ Len(M2) = a + h
      /\ \A i \in 1..b : J2[i] = J[i]
      /\ \A i \in 1..a : M2[i] = M[i] /\ g[i] = f[i] /\ f[i] \in 1..b
      /\ \A i \in 1..h : M2[a + i] = N[i] /\ g[a + i] = b + z + i
      /\ \A i \in 1..Len(J2) : i > b => (Free(g, i) <=> i <= b + z)
  BY <1>1, GrownFacts DEF QueueSim
<1>4. ASSUME NEW m \in 1..Len(M2) PROVE Fired(J2, I2, M2[m], o2, c2, g, g[m])
  <2>1. CASE m <= a
    <3>1. m \in 1..a
      BY <1>3, <2>1
    <3>2. PICK d, p : d = M[m] /\ p = f[m]
      OBVIOUS
    <3>3. d \in Closures(n) /\ Fired(J, I, d, o, c, f, p) /\ p \in 1..b
      BY <1>1, <1>3, <3>1, <3>2 DEF Typed, QueueSim
    <3>4. Keeps(d, o, o2, c, c2) /\ (d.fn \in Steps => I2[d.q] = I[d.q])
      BY <1>1, <3>1, <3>2 DEF Untouched
    <3>5. FiredKept(J, I, f, J2, I2, g, 0, d, o, o2, c, c2, p)
      BY <1>1, <1>3, <3>3, <3>4 DEF FiredKept, Spared
    <3>6. Fired(J2, I2, d, o2, c2, g, p - 0)
      BY <1>2, <3>3, <3>5, FiredMoves
    <3>7. p - 0 = p /\ M2[m] = d /\ g[m] = p
      BY <1>2, <1>3, <3>1, <3>2, <3>3
    <3> QED BY <3>6, <3>7
  <2>2. CASE m > a
    <3>1. PICK i \in 1..h : m = a + i
      <4>1. m - a \in 1..h /\ m = a + (m - a)
        BY <1>2, <1>3, <2>2
      <4> QED BY <4>1
    <3>2. M2[m] = N[i] /\ g[m] = b + z + i
      BY <1>3, <3>1
    <3> QED BY <1>1, <3>1, <3>2
  <2> QED BY <1>2, <1>3, <2>1, <2>2
<1>5. ASSUME NEW i \in 1..Len(J2), Free(g, i) PROVE Extra(J2, I2, g, i)
  <2>1. CASE i <= b
    <3>1. i \in 1..Len(J) /\ i > 0 /\ i - 0 = i
      BY <1>1, <1>2, <2>1
    <3>2. Free(f, i)
      BY <1>3, <1>5, <3>1 DEF Shifted
    <3>3. Extra(J, I, f, i) /\ (Late(J[i]) => I2[J[i].d] = I[J[i].d])
      BY <3>1, <3>2 DEF QueueSim, Untouched
    <3>4. Extra(J2, I2, g, i - 0)
      BY <1>3, <3>1, <3>3, ExtraMoves
    <3> QED BY <3>1, <3>4
  <2>2. CASE i > b
    <3>1. i <= b + z
      BY <1>3, <1>5, <2>2
    <3>2. PICK x \in 1..z : i = b + x
      <4>1. i - b \in 1..z /\ i = b + (i - b)
        BY <1>2, <1>3, <2>2, <3>1
      <4> QED BY <4>1
    <3> QED BY <1>1, <3>2
  <2> QED BY <1>2, <1>3, <2>1, <2>2
<1> QED BY <1>3, <1>4, <1>5 DEF QueueSim

\* A list's closures still wait for the same.
LEMMA HookGrows ==
  ASSUME NEW J, NEW J2, NEW f, NEW g, NEW I, NEW I2, NEW d, NEW b, Shifted(J, f, J2, g, 0), I2[d] = I[d],
         Hook(J, I, f, d, Len(J) + 1), b \in Nat, b >= Len(J) + 1
  PROVE  Hook(J2, I2, g, d, b)
<1>1. HookKept(J, I, f, J2, I2, g, 0, d, Len(J) + 1, b)
  BY DEF HookKept, Shifted, Spared
<1> QED BY <1>1, HookMoves

\* A queue without its first.
LEMMA TailFacts ==
  ASSUME NEW S, NEW l \in Seq(S), l # <<>>
  PROVE  /\ Len(l) \in Nat /\ Len(l) >= 1 /\ Tail(l) \in Seq(S) /\ Len(Tail(l)) = Len(l) - 1
         /\ Head(l) = l[1] /\ Head(l) \in S
         /\ \A i \in 1..(Len(l) - 1) : Tail(l)[i] = l[i + 1]
         /\ \A i \in 1..Len(l) : i > 1 => i - 1 \in 1..Len(Tail(l)) /\ Tail(l)[i - 1] = l[i]
<1>1. Len(l) \in Nat /\ Len(l) >= 1
  BY EmptySeq
<1>2. /\ Tail(l) \in Seq(S) /\ Len(Tail(l)) = Len(l) - 1 /\ Head(l) = l[1] /\ Head(l) \in S
      /\ \A i \in 1..(Len(l) - 1) : Tail(l)[i] = l[i + 1]
  BY HeadTailProperties
<1>3. ASSUME NEW i \in 1..Len(l), i > 1 PROVE i - 1 \in 1..Len(Tail(l)) /\ Tail(l)[i - 1] = l[i]
  <2>1. i - 1 \in 1..(Len(l) - 1) /\ (i - 1) + 1 = i
    BY <1>1, <1>3
  <2> QED BY <1>2, <2>1
<1> QED BY <1>1, <1>2, <1>3

\* finally's job is still the only one for d.
LEMMA OnceTail ==
  ASSUME NEW J \in Seq(JobType), J # <<>>, Once(J)
  PROVE  /\ Once(Tail(J))
         /\ Late(J[1]) => ~LateFor(Tail(J), J[1].d)
<1>1. /\ Len(J) \in Nat /\ Len(J) >= 1 /\ Len(Tail(J)) = Len(J) - 1
      /\ \A i \in 1..(Len(J) - 1) : Tail(J)[i] = J[i + 1]
  BY TailFacts
<1>2. \A i \in 1..Len(Tail(J)) : i + 1 \in 1..Len(J) /\ i + 1 # 1 /\ Tail(J)[i] = J[i + 1]
  BY <1>1
<1>3. 1 \in 1..Len(J)
  BY <1>1
<1>4. ASSUME NEW i \in 1..Len(Tail(J)), NEW k \in 1..Len(Tail(J)),
             Late(Tail(J)[i]) /\ Late(Tail(J)[k]) /\ Tail(J)[i].d = Tail(J)[k].d
      PROVE  i = k
  <2>1. i + 1 = k + 1
    BY <1>2, <1>4 DEF Once
  <2> QED BY <2>1
<1>5. ASSUME Late(J[1]), NEW i \in 1..Len(Tail(J)), Late(Tail(J)[i]), Tail(J)[i].d = J[1].d PROVE FALSE
  BY <1>2, <1>3, <1>5 DEF Once
<1> QED BY <1>4, <1>5 DEF Once, LateFor

\* A job stands for its closure, and both go.
LEMMA QueuePops ==
  ASSUME NEW J, NEW M, NEW f, NEW n, NEW I, NEW o, NEW c, Typed(J, M, n), QueueSim(J, I, M, o, c, f),
         J # <<>>, ~Free(f, 1), NEW g, g = Less(f, Len(M))
  PROVE  /\ M # <<>> /\ f[1] = 1 /\ Fired(J, I, Head(M), o, c, f, 1) /\ Typed(Tail(J), Tail(M), n)
         /\ QueueSim(Tail(J), I, Tail(M), o, c, g)
         /\ Shifted(J, f, Tail(J), g, 1)
<1>1. PICK a, b : a = Len(M) /\ b = Len(J)
  OBVIOUS
<1>2. /\ J \in Seq(JobType) /\ M \in Seq(Closures(n)) /\ n \in Nat /\ Embeds(f, a, b) /\ a \in Nat
  BY <1>1 DEF Typed, QueueSim
<1>3. /\ b \in Nat /\ b >= 1 /\ Tail(J) \in Seq(JobType) /\ Len(Tail(J)) = b - 1
      /\ \A i \in 1..b : i > 1 => i - 1 \in 1..Len(Tail(J)) /\ Tail(J)[i - 1] = J[i]
  BY <1>1, <1>2, TailFacts
<1>4. /\ a >= 1 /\ f[1] = 1 /\ Embeds(g, a - 1, b - 1)
      /\ \A i \in 1..(a - 1) : g[i] = f[i + 1] - 1 /\ f[i + 1] > 1 /\ i + 1 \in 1..a
      /\ \A i \in 1..b : i > 1 => (Free(g, i - 1) <=> Free(f, i))
  BY <1>1, <1>2, <1>3, EmbedsLess
<1>5. M # <<>>
  BY <1>1, <1>4
<1>6. /\ Tail(M) \in Seq(Closures(n)) /\ Len(Tail(M)) = a - 1 /\ Head(M) = M[1]
      /\ \A i \in 1..(a - 1) : Tail(M)[i] = M[i + 1]
  BY <1>1, <1>2, <1>5, TailFacts
<1>7. Shifted(J, f, Tail(J), g, 1)
  BY <1>1, <1>3, <1>4 DEF Shifted
<1>8. Fired(J, I, Head(M), o, c, f, 1)
  <2>1. 1 \in 1..Len(M)
    BY <1>1, <1>2, <1>4
  <2> QED BY <1>4, <1>6, <2>1 DEF QueueSim
<1>9. ASSUME NEW m \in 1..Len(Tail(M)) PROVE Fired(Tail(J), I, Tail(M)[m], o, c, g, g[m])
  <2>1. m \in 1..(a - 1) /\ m + 1 \in 1..Len(M)
    BY <1>1, <1>2, <1>6
  <2>2. PICK d, p : d = M[m + 1] /\ p = f[m + 1]
    OBVIOUS
  <2>3. d \in Closures(n) /\ Fired(J, I, d, o, c, f, p) /\ p \in 1..Len(J) /\ p > 1
    BY <1>1, <1>2, <1>4, <2>1, <2>2 DEF QueueSim, Embeds
  <2>4. FiredKept(J, I, f, Tail(J), I, g, 1, d, o, o, c, c, p)
    BY <1>7, <2>3 DEF FiredKept, Spared, Keeps
  <2>5. Fired(Tail(J), I, d, o, c, g, p - 1)
    BY <1>2, <2>3, <2>4, FiredMoves
  <2> QED BY <1>4, <1>6, <2>1, <2>2, <2>5
<1>10. ASSUME NEW i \in 1..Len(Tail(J)), Free(g, i) PROVE Extra(Tail(J), I, g, i)
  <2>1. i + 1 \in 1..Len(J) /\ i + 1 > 1 /\ (i + 1) - 1 = i
    BY <1>1, <1>3
  <2>2. Free(f, i + 1)
    BY <1>7, <1>10, <2>1 DEF Shifted
  <2>3. Extra(J, I, f, i + 1)
    BY <2>1, <2>2 DEF QueueSim
  <2>4. Extra(Tail(J), I, g, (i + 1) - 1)
    BY <1>7, <2>1, <2>3, ExtraMoves
  <2> QED BY <2>1, <2>4
<1>11. Once(Tail(J))
  BY <1>2, OnceTail DEF QueueSim
<1> QED BY <1>2, <1>3, <1>4, <1>5, <1>6, <1>7, <1>8, <1>9, <1>10, <1>11 DEF QueueSim, Typed

\* The queue without a first job that is no closure's, about d's inner promise.
SkipsOver(J, M, f, I, I2, o, c, d, g) ==
    /\ J # <<>> /\ Free(f, 1) /\ g = Skip(f, Len(M)) /\ d \in Ids
    /\ (J[1].k = "thunk" => J[1].d = Inner(d)) /\ (Late(J[1]) => J[1].d = d)
    /\ \A q \in Ids : q # d => I2[q] = I[q]
    /\ \A i \in 1..Len(J) : i > 1 /\ Free(f, i) /\ Late(J[i]) => J[i].d # d
    /\ \A m \in 1..Len(M) : M[m].fn \in Steps /\ M[m].q = d => Fired(Tail(J), I2, M[m], o, c, g, f[m] - 1)

\* A job that is no closure's goes; it was about d's inner promise.
LEMMA QueueSkips ==
  ASSUME NEW J, NEW M, NEW f, NEW n, NEW I, NEW I2, NEW o, NEW c, NEW d, Typed(J, M, n), QueueSim(J, I, M, o, c, f),
         NEW g, SkipsOver(J, M, f, I, I2, o, c, d, g)
  PROVE  /\ Typed(Tail(J), M, n) /\ QueueSim(Tail(J), I2, M, o, c, g)
         /\ Shifted(J, f, Tail(J), g, 1)
<1>0. /\ J # <<>> /\ Free(f, 1) /\ g = Skip(f, Len(M)) /\ d \in Ids
      /\ (J[1].k = "thunk" => J[1].d = Inner(d)) /\ (Late(J[1]) => J[1].d = d)
      /\ \A q \in Ids : q # d => I2[q] = I[q]
      /\ \A i \in 1..Len(J) : i > 1 /\ Free(f, i) /\ Late(J[i]) => J[i].d # d
      /\ \A m \in 1..Len(M) : M[m].fn \in Steps /\ M[m].q = d => Fired(Tail(J), I2, M[m], o, c, g, f[m] - 1)
  BY DEF SkipsOver
<1>1. PICK a, b : a = Len(M) /\ b = Len(J)
  OBVIOUS
<1>2. /\ J \in Seq(JobType) /\ M \in Seq(Closures(n)) /\ n \in Nat /\ Embeds(f, a, b) /\ a \in Nat
  BY <1>1 DEF Typed, QueueSim
<1>3. /\ b \in Nat /\ b >= 1 /\ Tail(J) \in Seq(JobType) /\ Len(Tail(J)) = b - 1
      /\ \A i \in 1..b : i > 1 => i - 1 \in 1..Len(Tail(J)) /\ Tail(J)[i - 1] = J[i]
  BY <1>0, <1>1, <1>2, TailFacts
<1>4. /\ Embeds(g, a, b - 1)
      /\ \A i \in 1..a : g[i] = f[i] - 1 /\ f[i] > 1
      /\ \A i \in 1..b : i > 1 => (Free(g, i - 1) <=> Free(f, i))
  BY <1>0, <1>1, <1>2, <1>3, EmbedsSkip
<1>5. Shifted(J, f, Tail(J), g, 1)
  BY <1>1, <1>3, <1>4 DEF Shifted
<1>6. ASSUME NEW m \in 1..Len(M) PROVE Fired(Tail(J), I2, M[m], o, c, g, g[m])
  <2>1. PICK e, p : e = M[m] /\ p = f[m]
    OBVIOUS
  <2>2. /\ e \in Closures(n) /\ Fired(J, I, e, o, c, f, p) /\ p \in 1..Len(J) /\ p > 1 /\ g[m] = p - 1
    <3>1. Fired(J, I, M[m], o, c, f, f[m])
      BY DEF QueueSim
    <3>2. M[m] \in Closures(n)
      BY <1>2
    <3>3. m \in 1..a /\ f[m] \in 1..b
      BY <1>1, <1>2 DEF Embeds
    <3> QED BY <1>1, <1>4, <2>1, <3>1, <3>2, <3>3
  <2>3. CASE e.fn \in Steps /\ e.q = d
    BY <1>0, <2>1, <2>2, <2>3
  <2>4. CASE ~(e.fn \in Steps /\ e.q = d)
    <3>1. e.fn \in Steps => Spared(J, f, 1, e.q) /\ I2[e.q] = I[e.q]
      <4> SUFFICES ASSUME e.fn \in Steps PROVE Spared(J, f, 1, e.q) /\ I2[e.q] = I[e.q]
        OBVIOUS
      <4>1. e.q \in Ids /\ e.q # d
        <5>1. e.q \in 1..n
          BY <1>2, <2>2, ClosureFacts DEF Steps
        <5> QED BY <1>0, <2>4, <5>1 DEF Typed
      <4>2. Inner(e.q) # Inner(d)
        BY <1>0, <4>1, InnerFacts
      <4> QED BY <1>0, <4>1, <4>2 DEF Spared
    <3>2. FiredKept(J, I, f, Tail(J), I2, g, 1, e, o, o, c, c, p)
      BY <1>5, <2>2, <3>1 DEF FiredKept, Keeps
    <3>3. Fired(Tail(J), I2, e, o, c, g, p - 1)
      BY <1>2, <2>2, <3>2, FiredMoves
    <3> QED BY <2>1, <2>2, <3>3
  <2> QED BY <2>3, <2>4
<1>7. ASSUME NEW i \in 1..Len(Tail(J)), Free(g, i) PROVE Extra(Tail(J), I2, g, i)
  <2>1. i + 1 \in 1..Len(J) /\ i + 1 > 1 /\ (i + 1) - 1 = i
    BY <1>1, <1>3
  <2>2. Free(f, i + 1)
    BY <1>5, <1>7, <2>1 DEF Shifted
  <2>3. Extra(J, I, f, i + 1)
    BY <2>1, <2>2 DEF QueueSim
  <2>4. ASSUME Late(J[i + 1]) PROVE I2[J[i + 1].d] = I[J[i + 1].d]
    <3>1. J[i + 1].k = "thenable" /\ J[i + 1].d # d
      BY <1>0, <2>1, <2>2, <2>4 DEF Late
    <3>2. J[i + 1].d \in Ids
      BY <2>3, <3>1 DEF Extra
    <3> QED BY <1>0, <3>1, <3>2
  <2>5. Extra(Tail(J), I2, g, (i + 1) - 1)
    BY <1>5, <2>1, <2>3, <2>4, ExtraMoves
  <2> QED BY <2>1, <2>5
<1>8. Once(Tail(J))
  BY <1>2, OnceTail, <1>0 DEF QueueSim
<1> QED BY <1>0, <1>1, <1>2, <1>3, <1>4, <1>5, <1>6, <1>7, <1>8 DEF QueueSim, Typed

-----------------------------------------------------------------------------
(* What the runtime's operations come to.                                  *)

Prom(st, v, l, h, b) == [st |-> st, val |-> v, rx |-> l, handled |-> h, queued |-> b]

\* s with another promise p, queue and rejections to report.
Put(s, p, x, m, u) == [s EXCEPT !.prom = [@ EXCEPT ![p] = x], !.mt = m, !.unh = u]

\* A promise written out.
LEMMA PromForm ==
  ASSUME NEW n, NEW o \in PromType(n)
  PROVE  o = Prom(o.st, o.val, o.rx, o.handled, o.queued)
BY DEF PromType, Prom

\* r is s with another promise p, queue and rejections.
Puts(s, r, p, x, m, u) ==
    /\ r.prom[p] = x /\ (\A q \in Ids : q # p => r.prom[q] = s.prom[q])
    /\ r.mt = m /\ r.unh = u /\ r.tq = s.tq /\ r.ph = s.ph /\ Same(s, r)

\* What is put is there.
LEMMA PutFacts ==
  ASSUME NEW n, NEW s \in RtType(n), NEW p \in Ids, NEW x, NEW m, NEW u, NEW r, r = Put(s, p, x, m, u)
  PROVE  Puts(s, r, p, x, m, u)
<1>1. PICK pr : pr = [s.prom EXCEPT ![p] = x]
  OBVIOUS
<1>2. s.prom \in [Ids -> PromType(n)]
  BY DEF RtType
<1>3. pr[p] = x /\ \A q \in Ids : q # p => pr[q] = s.prom[q]
  BY <1>1, <1>2
<1>4. r = [s EXCEPT !.prom = pr, !.mt = m, !.unh = u]
  BY <1>1 DEF Put
<1>5. r.prom = pr /\ r.mt = m /\ r.unh = u /\ r.tq = s.tq /\ r.ph = s.ph /\ Same(s, r)
  BY <1>4 DEF RtType, Same
<1> QED BY <1>3, <1>5 DEF Puts

\* The words of settle.c, put, where p is Prom(st, v, l, h, b).
Words(s, p, st, v, l, h, b) ==
    /\ \A w : StoreValue(s, p, w) = Put(s, p, Prom(st, w, l, h, b), s.mt, s.unh)
    /\ \A x : SetState(s, p, x) = Put(s, p, Prom(x, v, l, h, b), s.mt, s.unh)
    /\ MarkHandled(s, p) = Put(s, p, Prom(st, v, l, TRUE, b), s.mt, s.unh)
    /\ \A d : PushOn(s, p, d) = Put(s, p, Prom(st, v, <<d>> \o l, h, b), s.mt, s.unh)
    /\ Emptied(s, p) = Put(s, p, Prom(st, v, <<>>, h, b), s.mt \o Reverse(l), s.unh)
    /\ NoteRejected(s, p) = IF h \/ b \/ l # <<>> THEN s
                            ELSE Put(s, p, Prom(st, v, l, h, TRUE), s.mt, Append(s.unh, p))

\* So each of them is one assignment of p and the queues.
LEMMA WordsPut ==
  ASSUME NEW n, NEW s \in RtType(n), NEW p \in Ids, NEW st, NEW v, NEW l, NEW h, NEW b,
         s.prom[p] = Prom(st, v, l, h, b)
  PROVE  Words(s, p, st, v, l, h, b)
<1>1. PICK o : o = Prom(st, v, l, h, b)
  OBVIOUS
<1>2. s.prom \in [Ids -> PromType(n)] /\ s.prom[p] = o
  BY <1>1 DEF RtType
<1>3. /\ \A w : [o EXCEPT !.val = w] = Prom(st, w, l, h, b)
      /\ \A x : [o EXCEPT !.st = x] = Prom(x, v, l, h, b)
      /\ [o EXCEPT !.handled = TRUE] = Prom(st, v, l, TRUE, b)
      /\ [o EXCEPT !.queued = TRUE] = Prom(st, v, l, h, TRUE)
      /\ \A x : [o EXCEPT !.rx = x] = Prom(st, v, x, h, b)
      /\ o.rx = l /\ o.handled = h /\ o.queued = b
  <2>1. ASSUME NEW w PROVE [o EXCEPT !.val = w] = Prom(st, w, l, h, b)
    BY <1>1 DEF Prom
  <2>2. ASSUME NEW x PROVE [o EXCEPT !.st = x] = Prom(x, v, l, h, b)
    BY <1>1 DEF Prom
  <2>3. ASSUME NEW x PROVE [o EXCEPT !.handled = x] = Prom(st, v, l, x, b) /\ [o EXCEPT !.queued = x] = Prom(st, v, l, h, x)
    BY <1>1 DEF Prom
  <2>4. PICK t : t = TRUE
    OBVIOUS
  <2>5. ASSUME NEW x PROVE [o EXCEPT !.rx = x] = Prom(st, v, x, h, b)
    BY <1>1 DEF Prom
  <2>6. o.rx = l /\ o.handled = h /\ o.queued = b
    BY <1>1 DEF Prom
  <2>7. [o EXCEPT !.handled = t] = Prom(st, v, l, t, b) /\ [o EXCEPT !.queued = t] = Prom(st, v, l, h, t)
    BY <2>3
  <2> QED BY <2>1, <2>2, <2>4, <2>5, <2>6, <2>7
<1>4. \A x : [s EXCEPT !.prom[p] = x] = Put(s, p, x, s.mt, s.unh)
  <2>1. TAKE x
  <2>2. PICK pr : pr = [s.prom EXCEPT ![p] = x]
    OBVIOUS
  <2>3. [s EXCEPT !.prom = pr] = [s EXCEPT !.prom = pr, !.mt = s.mt, !.unh = s.unh]
    BY DEF RtType
  <2> QED BY <2>2, <2>3 DEF Put
<1>6. \A w : StoreValue(s, p, w) = Put(s, p, Prom(st, w, l, h, b), s.mt, s.unh)
  BY <1>2, <1>3, <1>4 DEF StoreValue
<1>7. \A x : SetState(s, p, x) = Put(s, p, Prom(x, v, l, h, b), s.mt, s.unh)
  BY <1>2, <1>3, <1>4 DEF SetState
<1>8. MarkHandled(s, p) = Put(s, p, Prom(st, v, l, TRUE, b), s.mt, s.unh)
  BY <1>2, <1>3, <1>4 DEF MarkHandled
<1>9. \A d : PushOn(s, p, d) = Put(s, p, Prom(st, v, <<d>> \o l, h, b), s.mt, s.unh)
  <2>1. TAKE d
  <2>2. PICK k : k = <<d>> \o l
    OBVIOUS
  <2>3. PushOn(s, p, d) = [s EXCEPT !.prom[p] = [o EXCEPT !.rx = k]]
    BY <1>2, <1>3, <2>2 DEF PushOn
  <2> QED BY <1>3, <1>4, <2>2, <2>3
<1>10. Emptied(s, p) = Put(s, p, Prom(st, v, <<>>, h, b), s.mt \o Reverse(l), s.unh)
  <2>1. PICK k, m : k = <<>> /\ m = s.mt \o Reverse(l)
    OBVIOUS
  <2>2. PICK pr : pr = [s.prom EXCEPT ![p] = Prom(st, v, k, h, b)]
    OBVIOUS
  <2>3. Emptied(s, p) = [s EXCEPT !.prom = pr, !.mt = m]
    BY <1>2, <1>3, <2>1, <2>2 DEF Emptied
  <2>4. [s EXCEPT !.prom = pr, !.mt = m] = [s EXCEPT !.prom = pr, !.mt = m, !.unh = s.unh]
    BY DEF RtType
  <2> QED BY <2>1, <2>2, <2>3, <2>4 DEF Put
<1>11. NoteRejected(s, p) = IF h \/ b \/ l # <<>> THEN s
                            ELSE Put(s, p, Prom(st, v, l, h, TRUE), s.mt, Append(s.unh, p))
  <2>1. PICK u : u = Append(s.unh, p)
    OBVIOUS
  <2>2. PICK pr : pr = [s.prom EXCEPT ![p] = Prom(st, v, l, h, TRUE)]
    OBVIOUS
  <2>3. NoteRejected(s, p) = IF h \/ b \/ l # <<>> THEN s ELSE [s EXCEPT !.prom = pr, !.unh = u]
    BY <1>2, <1>3, <2>1, <2>2 DEF NoteRejected
  <2>4. [s EXCEPT !.prom = pr, !.unh = u] = [s EXCEPT !.prom = pr, !.mt = s.mt, !.unh = u]
    BY DEF RtType
  <2> QED BY <2>1, <2>2, <2>3, <2>4 DEF Put
<1> QED BY <1>6, <1>7, <1>8, <1>9, <1>10, <1>11 DEF Words

\* What settling a pending promise p comes to, however it is done.
SettlesTo(s, r, p, st, v) ==
    \E b \in BOOLEAN :
       /\ b => st = Rejected
       /\ Puts(s, r, p, Prom(st, v, <<>>, s.prom[p].handled, b), Joined(s, p),
               IF st = Rejected /\ ~s.prom[p].handled THEN Append(s.unh, p) ELSE s.unh)

\* What PromSim says of a pending promise by itself.
Settleable(s, p) ==
    /\ s.prom[p].st = Pending /\ ~s.prom[p].queued /\ (s.prom[p].rx # <<>> => s.prom[p].handled)

\* One put after another.
LEMMA PutsTwice ==
  ASSUME NEW s, NEW r, NEW t, NEW p, NEW x, NEW y, NEW m, NEW k, NEW u, NEW w,
         Puts(s, r, p, x, m, u), Puts(r, t, p, y, k, w)
  PROVE  Puts(s, t, p, y, k, w)
BY DEF Puts, Same

\* Once the outcome is stored the list is drained, and a rejection is noted,
\* once or twice.
LEMMA DrainForm ==
  ASSUME NEW n, NEW s \in RtType(n), NEW p \in Ids, NEW st \in Done, NEW v, NEW a \in RtType(n), Settleable(s, p),
         NEW l, NEW h, NEW no, l = s.prom[p].rx, h = s.prom[p].handled, no = FALSE,
         Puts(s, a, p, Prom(st, v, l, h, no), s.mt, s.unh)
  PROVE  /\ SettlesTo(s, DrainReactions(a, p), p, st, v)
         /\ st = Rejected => SettlesTo(s, DrainReactions(NoteRejected(a, p), p), p, st, v)
<1>1. PICK m, u, yes : m = s.mt \o Reverse(l) /\ u = Append(s.unh, p) /\ yes = TRUE
  OBVIOUS
<1>2. a.prom[p] = Prom(st, v, l, h, no) /\ a.mt = s.mt /\ a.unh = s.unh /\ h \in BOOLEAN /\ (l # <<>> => h)
  BY <1>1 DEF Puts, Settleable, RtType, PromType
<1>3. NoteRejected(a, p) = IF h THEN a ELSE Put(a, p, Prom(st, v, l, h, yes), a.mt, u)
  <2>1. NoteRejected(a, p) = IF h \/ no \/ l # <<>> THEN a ELSE Put(a, p, Prom(st, v, l, h, TRUE), a.mt, Append(a.unh, p))
    <3>1. Words(a, p, st, v, l, h, no)
      BY <1>2, WordsPut
    <3> QED BY <1>2, <3>1 DEF Words
  <2> QED BY <1>1, <1>2, <2>1
<1>4. ASSUME NEW b \in BOOLEAN, NEW z \in RtType(n), NEW w, Puts(s, z, p, Prom(st, v, l, h, b), s.mt, w)
      PROVE  Puts(s, Emptied(z, p), p, Prom(st, v, <<>>, h, b), m, w)
  <2>1. z.prom[p] = Prom(st, v, l, h, b) /\ z.mt = s.mt /\ z.unh = w
    BY <1>4 DEF Puts
  <2>2. Emptied(z, p) = Put(z, p, Prom(st, v, <<>>, h, b), z.mt \o Reverse(l), z.unh)
    <3>1. Words(z, p, st, v, l, h, b)
      BY <2>1, WordsPut
    <3> QED BY <2>1, <3>1 DEF Words
  <2>3. Puts(z, Emptied(z, p), p, Prom(st, v, <<>>, h, b), m, w)
    BY <1>1, <2>1, <2>2, PutFacts
  <2> QED BY <1>4, <2>3, PutsTwice
<1>5. \A z : DrainReactions(z, p) = Emptied(IF z.prom[p].st = Rejected THEN NoteRejected(z, p) ELSE z, p)
  BY DEF DrainReactions, Emptied
<1>6. Joined(s, p) = m
  BY <1>1 DEF Joined
<1>7. a.prom[p].st = st
  BY <1>2 DEF Prom
<1>8. CASE st # Rejected
  <2>1. Puts(s, Emptied(a, p), p, Prom(st, v, <<>>, h, no), m, s.unh)
    BY <1>1, <1>4, <1>7
  <2>2. SettlesTo(s, Emptied(a, p), p, st, v)
    BY <1>1, <1>6, <1>8, <2>1 DEF SettlesTo
  <2> QED BY <1>5, <1>7, <1>8, <2>2
<1>9. CASE st = Rejected /\ h
  <2>1. NoteRejected(a, p) = a
    BY <1>3, <1>9
  <2>2. Puts(s, Emptied(a, p), p, Prom(st, v, <<>>, h, no), m, s.unh)
    BY <1>1, <1>4, <1>7
  <2>3. SettlesTo(s, Emptied(a, p), p, st, v)
    BY <1>1, <1>6, <1>9, <2>2 DEF SettlesTo
  <2> QED BY <1>5, <1>7, <1>9, <2>1, <2>3
<1>10. CASE st = Rejected /\ ~h
  <2>1. PICK r : r = NoteRejected(a, p)
    OBVIOUS
  <2>2. r = Put(a, p, Prom(st, v, l, h, yes), a.mt, u)
    BY <1>3, <1>10, <2>1
  <2>3. Puts(a, r, p, Prom(st, v, l, h, yes), a.mt, u)
    BY <2>2, PutFacts
  <2>4. Puts(s, r, p, Prom(st, v, l, h, yes), s.mt, u)
    BY <1>2, <1>7, <2>3, PutsTwice
  <2>5. r \in RtType(n)
    <3>1. PICK x \in Vals : x = 0
      BY PromiseAssumption DEF Vals
    <3> QED BY <2>1, <3>1, QuietFacts DEF Quiet
  <2>6. r.prom[p] = Prom(st, v, l, h, yes) /\ r.prom[p].st = st
    BY <2>4 DEF Puts, Prom
  <2>7. NoteRejected(r, p) = r
    <3>1. NoteRejected(r, p) = IF h \/ yes \/ l # <<>> THEN r ELSE Put(r, p, Prom(st, v, l, h, TRUE), r.mt, Append(r.unh, p))
      <4>1. Words(r, p, st, v, l, h, yes)
        BY <2>5, <2>6, WordsPut
      <4> QED BY <4>1 DEF Words
    <3> QED BY <1>1, <3>1
  <2>8. Puts(s, Emptied(r, p), p, Prom(st, v, <<>>, h, yes), m, u)
    BY <1>1, <1>4, <2>4, <2>5
  <2>9. SettlesTo(s, Emptied(r, p), p, st, v)
    BY <1>1, <1>6, <1>10, <2>8 DEF SettlesTo
  <2> QED BY <1>5, <1>7, <1>10, <2>1, <2>6, <2>7, <2>9
<1> QED BY <1>8, <1>9, <1>10

\* The ways a pending promise is settled.
LEMMA SettleForms ==
  ASSUME NEW n, NEW s \in RtType(n), NEW p \in Ids, NEW st \in Done, NEW v \in Vals, Settleable(s, p)
  PROVE  /\ SettlesTo(s, DrainReactions(Store(s, p, st, v), p), p, st, v)
         /\ st = Rejected => SettlesTo(s, DrainReactions(NoteRejected(Store(s, p, st, v), p), p), p, st, v)
         /\ SettlesTo(s, Settle(StoreValue(s, p, v), p, st), p, st, v)
         /\ SettlesTo(s, Settle(s, p, st), p, st, s.prom[p].val)
         /\ st = Rejected => SettlesTo(s, RejectWith(s, p, v), p, st, v)
         /\ st = Fulfilled => SettlesTo(s, ResolveThunk(s, p, v), p, st, v)
<1>1. PICK l, h, no, w : l = s.prom[p].rx /\ h = s.prom[p].handled /\ no = FALSE /\ w = s.prom[p].val
  OBVIOUS
<1>2. s.prom[p] \in PromType(n) /\ w \in Vals /\ s.prom[p].queued = no
  BY <1>1 DEF RtType, PromType, Settleable
<1>3. s.prom[p] = Prom(Pending, w, l, h, no)
  BY <1>1, <1>2, PromForm DEF Settleable
<1>4. ASSUME NEW x \in Vals, NEW a \in RtType(n), a.prom[p] = Prom(Pending, x, l, h, no),
             Puts(s, a, p, Prom(Pending, x, l, h, no), s.mt, s.unh)
      PROVE  SettlesTo(s, Settle(a, p, st), p, st, x)
  <2>1. PICK z : z = SetState(a, p, st)
    OBVIOUS
  <2>2. z \in RtType(n)
    BY <1>2, <2>1, StoreFacts
  <2>3. z = Put(a, p, Prom(st, x, l, h, no), s.mt, s.unh)
    <3>1. Words(a, p, Pending, x, l, h, no)
      BY <1>4, WordsPut
    <3> QED BY <1>4, <2>1, <3>1 DEF Words, Puts
  <2>4. Puts(a, z, p, Prom(st, x, l, h, no), s.mt, s.unh)
    BY <2>3, PutFacts
  <2>5. Puts(s, z, p, Prom(st, x, l, h, no), s.mt, s.unh)
    BY <1>4, <2>4, PutsTwice
  <2>6. /\ SettlesTo(s, DrainReactions(z, p), p, st, x)
        /\ st = Rejected => SettlesTo(s, DrainReactions(NoteRejected(z, p), p), p, st, x)
    BY <1>1, <2>2, <2>5, DrainForm
  <2>7. Settle(a, p, st) = DrainReactions(IF st = Rejected THEN NoteRejected(z, p) ELSE z, p)
    <3>1. a.prom[p].st = Pending
      BY <1>4 DEF Prom
    <3> QED BY <2>1, <3>1 DEF Settle, SetState
  <2> QED BY <2>6, <2>7
<1>5. SettlesTo(s, Settle(s, p, st), p, st, w)
  <2>1. Puts(s, s, p, Prom(Pending, w, l, h, no), s.mt, s.unh)
    BY <1>3 DEF Puts, Same
  <2> QED BY <1>2, <1>3, <1>4, <2>1
<1>6. SettlesTo(s, Settle(StoreValue(s, p, v), p, st), p, st, v)
  <2>1. PICK a : a = StoreValue(s, p, v)
    OBVIOUS
  <2>2. a \in RtType(n)
    BY <2>1, QuietFacts DEF Quiet
  <2>3. a = Put(s, p, Prom(Pending, v, l, h, no), s.mt, s.unh)
    <3>1. Words(s, p, Pending, w, l, h, no)
      BY <1>3, WordsPut
    <3> QED BY <2>1, <3>1 DEF Words
  <2>4. Puts(s, a, p, Prom(Pending, v, l, h, no), s.mt, s.unh)
    BY <2>3, PutFacts
  <2>5. a.prom[p] = Prom(Pending, v, l, h, no)
    BY <2>4 DEF Puts
  <2> QED BY <1>4, <2>1, <2>2, <2>4, <2>5
<1>7. /\ SettlesTo(s, DrainReactions(Store(s, p, st, v), p), p, st, v)
      /\ st = Rejected => SettlesTo(s, DrainReactions(NoteRejected(Store(s, p, st, v), p), p), p, st, v)
  <2>1. PICK a, z : a = SetState(s, p, st) /\ z = StoreValue(a, p, v)
    OBVIOUS
  <2>2. Store(s, p, st, v) = z
    BY <2>1 DEF Store, StoreValue, SetState
  <2>3. a \in RtType(n) /\ z \in RtType(n)
    BY <2>1, <2>2, StoreFacts
  <2>4. a = Put(s, p, Prom(st, w, l, h, no), s.mt, s.unh)
    <3>1. Words(s, p, Pending, w, l, h, no)
      BY <1>3, WordsPut
    <3> QED BY <2>1, <3>1 DEF Words
  <2>5. Puts(s, a, p, Prom(st, w, l, h, no), s.mt, s.unh)
    BY <2>4, PutFacts
  <2>6. a.prom[p] = Prom(st, w, l, h, no) /\ a.mt = s.mt /\ a.unh = s.unh
    BY <2>5 DEF Puts
  <2>7. z = Put(a, p, Prom(st, v, l, h, no), s.mt, s.unh)
    <3>1. Words(a, p, st, w, l, h, no)
      BY <2>3, <2>6, WordsPut
    <3> QED BY <2>1, <2>6, <3>1 DEF Words
  <2>8. Puts(a, z, p, Prom(st, v, l, h, no), s.mt, s.unh)
    BY <2>3, <2>7, PutFacts
  <2>9. Puts(s, z, p, Prom(st, v, l, h, no), s.mt, s.unh)
    BY <2>5, <2>8, PutsTwice
  <2> QED BY <1>1, <2>2, <2>3, <2>9, DrainForm
<1> QED BY <1>1, <1>5, <1>6, <1>7 DEF RejectWith, ResolveThunk, Settleable

\* What a reaction more comes to, and a job more, and a value more.
AttachesTo(s, r, p, d) ==
    \E x, m : /\ Puts(s, r, p, x, m, s.unh)
              /\ x.st = s.prom[p].st /\ x.val = s.prom[p].val /\ x.handled = TRUE /\ x.queued = s.prom[p].queued
              /\ IF s.prom[p].st = Pending THEN x.rx = Pushed(s, p, d) /\ m = s.mt
                                           ELSE x.rx = s.prom[p].rx /\ m = Append(s.mt, d)
MovesTo(s, r, m) ==
    /\ r.prom = s.prom /\ r.mt = m /\ r.unh = s.unh /\ r.tq = s.tq /\ r.ph = s.ph /\ Same(s, r)
StoresTo(s, r, p, v) ==
    \E x : /\ Puts(s, r, p, x, s.mt, s.unh)
           /\ x.st = s.prom[p].st /\ x.val = v /\ x.rx = s.prom[p].rx
           /\ x.handled = s.prom[p].handled /\ x.queued = s.prom[p].queued

\* The queue alone.
LEMMA MoveForms ==
  ASSUME NEW n, NEW s \in RtType(n)
  PROVE  /\ \A d : MovesTo(s, Enqueue(s, d), Append(s.mt, d))
         /\ MovesTo(s, Taken(s), Tail(s.mt))
<1>1. ASSUME NEW m, NEW r, r = [s EXCEPT !.mt = m] PROVE MovesTo(s, r, m)
  BY <1>1 DEF MovesTo, RtType, Same
<1>2. ASSUME NEW d PROVE MovesTo(s, Enqueue(s, d), Append(s.mt, d))
  <2>1. PICK m : m = Append(s.mt, d)
    OBVIOUS
  <2>2. Enqueue(s, d) = [s EXCEPT !.mt = m]
    BY <2>1 DEF Enqueue
  <2> QED BY <1>1, <2>1, <2>2
<1>3. MovesTo(s, Taken(s), Tail(s.mt))
  <2>1. PICK m : m = Tail(s.mt)
    OBVIOUS
  <2>2. Taken(s) = [s EXCEPT !.mt = m]
    BY <2>1 DEF Taken
  <2> QED BY <1>1, <2>1, <2>2
<1> QED BY <1>2, <1>3

\* A value and a reaction.
LEMMA AttachForms ==
  ASSUME NEW n, NEW s \in RtType(n), NEW p \in Ids
  PROVE  /\ \A v : StoresTo(s, StoreValue(s, p, v), p, v)
         /\ \A d : AttachesTo(s, Attach(s, p, d), p, d)
<1>1. PICK st, w, l, h, b : st = s.prom[p].st /\ w = s.prom[p].val /\ l = s.prom[p].rx
                            /\ h = s.prom[p].handled /\ b = s.prom[p].queued
  OBVIOUS
<1>2. s.prom[p] \in PromType(n)
  BY DEF RtType
<1>3. s.prom[p] = Prom(st, w, l, h, b)
  BY <1>1, <1>2, PromForm
<1>4. Words(s, p, st, w, l, h, b)
  BY <1>3, WordsPut
<1>5. ASSUME NEW v PROVE StoresTo(s, StoreValue(s, p, v), p, v)
  <2>1. PICK x : x = Prom(st, v, l, h, b)
    OBVIOUS
  <2>2. Puts(s, StoreValue(s, p, v), p, x, s.mt, s.unh)
    BY <1>4, <2>1, PutFacts DEF Words
  <2>3. x.st = st /\ x.val = v /\ x.rx = l /\ x.handled = h /\ x.queued = b
    BY <2>1 DEF Prom
  <2> QED BY <1>1, <2>2, <2>3 DEF StoresTo
<1>6. ASSUME NEW d PROVE AttachesTo(s, Attach(s, p, d), p, d)
  <2>1. PICK yes : yes = TRUE
    OBVIOUS
  <2>2. PICK a, x : a = MarkHandled(s, p) /\ x = Prom(st, w, l, yes, b)
    OBVIOUS
  <2>3. a = Put(s, p, x, s.mt, s.unh)
    BY <1>4, <2>1, <2>2 DEF Words
  <2>4. Puts(s, a, p, x, s.mt, s.unh)
    BY <2>3, PutFacts
  <2>5. a \in RtType(n)
    <3>1. PICK v \in Vals : v = 0
      BY PromiseAssumption DEF Vals
    <3> QED BY <2>2, <3>1, QuietFacts DEF Quiet
  <2>6. x.st = st /\ x.val = w /\ x.rx = l /\ x.handled = yes /\ x.queued = b
    BY <2>2 DEF Prom
  <2>7. CASE st = Pending
    <3>1. PICK k, y, r : k = <<d>> \o l /\ y = Prom(st, w, k, yes, b) /\ r = PushOn(a, p, d)
      OBVIOUS
    <3>2. Words(a, p, st, w, l, yes, b)
      BY <2>2, <2>4, <2>5, WordsPut DEF Puts
    <3>3. r = Put(a, p, y, a.mt, a.unh)
      BY <3>1, <3>2 DEF Words
    <3>4. Puts(a, r, p, y, a.mt, a.unh) /\ a.mt = s.mt /\ a.unh = s.unh
      BY <2>4, <2>5, <3>3, PutFacts DEF Puts
    <3>5. Puts(s, r, p, y, s.mt, s.unh)
      BY <2>4, <3>4, PutsTwice
    <3>6. y.st = st /\ y.val = w /\ y.rx = k /\ y.handled = yes /\ y.queued = b
      BY <3>1 DEF Prom
    <3>7. Attach(s, p, d) = r /\ k = Pushed(s, p, d)
      BY <1>1, <2>2, <2>7, <3>1 DEF Attach, PushOn, Pushed
    <3> QED BY <1>1, <2>1, <2>7, <3>5, <3>6, <3>7 DEF AttachesTo
  <2>8. CASE st # Pending
    <3>1. PICK r, m : r = Enqueue(a, d) /\ m = Append(s.mt, d)
      OBVIOUS
    <3>2. MovesTo(a, r, m)
      BY <2>4, <2>5, <3>1, MoveForms DEF Puts
    <3>3. Puts(s, r, p, x, m, s.unh)
      BY <2>4, <3>2 DEF Puts, MovesTo, Same
    <3>4. Attach(s, p, d) = r
      BY <1>1, <2>2, <2>8, <3>1 DEF Attach
    <3> QED BY <1>1, <2>1, <2>6, <2>8, <3>1, <3>3, <3>4 DEF AttachesTo
  <2> QED BY <2>7, <2>8
<1> QED BY <1>5, <1>6

-----------------------------------------------------------------------------
(* What ECMAScript's operations come to.                                   *)

JsProm(st, v, l, h) == [st |-> st, val |-> v, rx |-> l, handled |-> h]
Triggered(j, st, v) == [j EXCEPT !.st = st, !.val = v]
Trig(l, st, v) == [i \in 1..Len(l) |-> Triggered(l[i], st, v)]
JsPut(e, p, x, K, u) == [e EXCEPT !.prom = [@ EXCEPT ![p] = x], !.jobs = @ \o K, !.unh = u]

\* e2 is e with jobs, rejections and the words of promise p.
JsSame(e, e2) == e2.ticks = e.ticks /\ e2.mode = e.mode /\ e2.call = e.call /\ e2.comb = e.comb
JsPuts(e, e2, p, x, K, u) ==
    /\ e2.prom[p] = x /\ (\A q \in Js!JsIds : q # p => e2.prom[q] = e.prom[q])
    /\ e2.jobs = e.jobs \o K /\ e2.unh = u /\ JsSame(e, e2) /\ e2 \in JsType
    /\ K \in Seq(JobType)

\* The words of a reaction that is triggered.
LEMMA TriggeredFacts ==
  ASSUME NEW j \in JobType, NEW st \in Nat, NEW v \in Nat
  PROVE  LET t == Triggered(j, st, v) IN
         t \in JobType /\ t.k = j.k /\ t.d = j.d /\ t.on = j.on /\ t.keep = j.keep /\ t.st = st /\ t.val = v
BY DEF JobType, Triggered

\* The jobs of a list.
LEMMA TrigFacts ==
  ASSUME NEW l \in Seq(JobType), NEW st \in Nat, NEW v \in Nat
  PROVE  /\ Trig(l, st, v) \in Seq(JobType) /\ Len(Trig(l, st, v)) = Len(l)
         /\ \A i \in 1..Len(l) : Trig(l, st, v)[i] = Triggered(l[i], st, v) /\ l[i] \in JobType
<1>1. PICK m \in Nat : m = Len(l)
  OBVIOUS
<1>2. \A i \in 1..m : l[i] \in JobType /\ Triggered(l[i], st, v) \in JobType
  BY <1>1, ElementOfSeq, TriggeredFacts
<1>3. Trig(l, st, v) \in [1..m -> JobType]
  BY <1>1, <1>2 DEF Trig
<1>4. Trig(l, st, v) \in Seq(JobType) /\ Len(Trig(l, st, v)) = m
  BY <1>3, SeqDef
<1> QED BY <1>1, <1>2, <1>4 DEF Trig

\* What is put is there.
LEMMA JsPutFacts ==
  ASSUME NEW e \in JsType, NEW p \in Js!JsIds, NEW x \in JsPromType, NEW K \in Seq(JobType), NEW u \in Seq(Js!JsIds),
         NEW e2, e2 = JsPut(e, p, x, K, u)
  PROVE  JsPuts(e, e2, p, x, K, u)
<1>1. PICK pr, jb : pr = [e.prom EXCEPT ![p] = x] /\ jb = e.jobs \o K
  OBVIOUS
<1>2. e.prom \in [Js!JsIds -> JsPromType] /\ e.jobs \in Seq(JobType)
  BY DEF JsType
<1>3. pr \in [Js!JsIds -> JsPromType] /\ pr[p] = x /\ \A q \in Js!JsIds : q # p => pr[q] = e.prom[q]
  BY <1>1, <1>2
<1>4. jb \in Seq(JobType)
  BY <1>1, <1>2, ConcatProperties
<1>5. e2 = [e EXCEPT !.prom = pr, !.jobs = jb, !.unh = u]
  BY <1>1 DEF JsPut
<1>6. e2.prom = pr /\ e2.jobs = jb /\ e2.unh = u /\ JsSame(e, e2) /\ e2 \in JsType
  BY <1>3, <1>4, <1>5 DEF JsType, JsSame
<1> QED BY <1>1, <1>3, <1>6 DEF JsPuts

\* The words of a promise.
LEMMA JsWords ==
  ASSUME NEW e \in JsType, NEW p \in Js!JsIds
  PROVE  /\ e.prom[p] \in JsPromType /\ e.jobs \in Seq(JobType) /\ e.unh \in Seq(Js!JsIds)
         /\ e.prom[p].st \in {0, 1, 2} /\ e.prom[p].val \in Nat /\ e.prom[p].rx \in Seq(JobType)
         /\ e.prom[p].handled \in BOOLEAN
         /\ e.prom[p] = JsProm(e.prom[p].st, e.prom[p].val, e.prom[p].rx, e.prom[p].handled)
<1>1. e.prom[p] \in JsPromType /\ e.jobs \in Seq(JobType) /\ e.unh \in Seq(Js!JsIds)
  BY DEF JsType
<1>2. PICK x : x = e.prom[p]
  OBVIOUS
<1>3. /\ x.st \in {0, 1, 2} /\ x.val \in Nat /\ x.rx \in Seq(JobType) /\ x.handled \in BOOLEAN
      /\ x = JsProm(x.st, x.val, x.rx, x.handled)
  BY <1>1, <1>2 DEF JsPromType, JsProm
<1> QED BY <1>1, <1>2, <1>3

\* A pending promise settles.
JsSettlesTo(e, e2, p, st, v) ==
    LET o == e.prom[p] IN
    JsPuts(e, e2, p, JsProm(st, v, <<>>, o.handled), Trig(o.rx, st, v),
           IF st = 2 /\ ~o.handled THEN Append(e.unh, p) ELSE e.unh)

\* FulfillPromise and RejectPromise do that.
LEMMA JsSettleForm ==
  ASSUME NEW e \in JsType, NEW p \in Js!JsIds, e.prom[p].st = 0, NEW st \in Done, NEW v \in Nat
  PROVE  JsSettlesTo(e, Js!JsSettle(e, p, st, v), p, st, v)
<1>1. PICK o, K, u, z : o = e.prom[p] /\ K = Trig(o.rx, st, v) /\ z = <<>>
                        /\ u = IF st = 2 /\ ~o.handled THEN Append(e.unh, p) ELSE e.unh
  OBVIOUS
<1>2. o \in JsPromType /\ o.rx \in Seq(JobType) /\ o.handled \in BOOLEAN /\ e.unh \in Seq(Js!JsIds)
  BY <1>1, JsWords
<1>3. st \in Nat /\ st \in {0, 1, 2}
  BY DEF Done, Fulfilled, Rejected
<1>4. K \in Seq(JobType)
  BY <1>1, <1>2, <1>3, TrigFacts
<1>5. u \in Seq(Js!JsIds)
  BY <1>1, <1>2, AppendProperties
<1>6. PICK x : x = JsProm(st, v, z, o.handled)
  OBVIOUS
<1>7. x \in JsPromType /\ x = [o EXCEPT !.st = st, !.val = v, !.rx = z]
  <2>1. z \in Seq(JobType)
    BY <1>1
  <2>2. x \in JsPromType
    BY <1>2, <1>3, <1>6, <2>1 DEF JsPromType, JsProm
  <2>3. x = [o EXCEPT !.st = st, !.val = v, !.rx = z]
    <3>1. PICK a, b, l, h : a = o.st /\ b = o.val /\ l = o.rx /\ h = o.handled
      OBVIOUS
    <3>2. o = JsProm(a, b, l, h)
      BY <1>1, <3>1, JsWords
    <3>3. \A i : [JsProm(a, b, l, h) EXCEPT !.st = i] = JsProm(i, b, l, h)
      BY DEF JsProm
    <3>4. \A i, w : [JsProm(i, b, l, h) EXCEPT !.val = w] = JsProm(i, w, l, h)
      BY DEF JsProm
    <3>5. \A i, w, y : [JsProm(i, w, l, h) EXCEPT !.rx = y] = JsProm(i, w, y, h)
      BY DEF JsProm
    <3>6. PICK x1, x2, x3 : x1 = [o EXCEPT !.st = st] /\ x2 = [x1 EXCEPT !.val = v] /\ x3 = [x2 EXCEPT !.rx = z]
      OBVIOUS
    <3>7. x1 = JsProm(st, b, l, h)
      BY <3>2, <3>3, <3>6
    <3>8. x2 = JsProm(st, v, l, h)
      BY <3>4, <3>6, <3>7
    <3>9. x3 = JsProm(st, v, z, h)
      <4>1. x3 = [JsProm(st, v, l, h) EXCEPT !.rx = z]
        BY <3>6, <3>8
      <4>2. [JsProm(st, v, l, h) EXCEPT !.rx = z] = JsProm(st, v, z, h)
        BY <3>5
      <4> QED BY <4>1, <4>2
    <3>10. [o EXCEPT !.st = st, !.val = v, !.rx = z] = x3
      BY <3>6
    <3> QED BY <1>6, <3>1, <3>9, <3>10
  <2> QED BY <2>2, <2>3
<1>8. K = [i \in 1..Len(o.rx) |-> [o.rx[i] EXCEPT !.st = st, !.val = v]]
  BY <1>1 DEF Trig, Triggered
<1>9. Js!JsSettle(e, p, st, v) = [e EXCEPT !.prom[p] = x, !.jobs = @ \o K, !.unh = u]
  BY <1>1, <1>7, <1>8 DEF Js!JsSettle
<1>10. Js!JsSettle(e, p, st, v) = JsPut(e, p, x, K, u)
  BY <1>9 DEF JsPut
<1>11. JsPuts(e, Js!JsSettle(e, p, st, v), p, x, K, u)
  BY <1>4, <1>5, <1>7, <1>10, JsPutFacts
<1> QED BY <1>1, <1>6, <1>11 DEF JsSettlesTo

\* A list appended to with one element, and with none.
LEMMA AppendOne ==
  ASSUME NEW S, NEW l \in Seq(S)
  PROVE  /\ l \o <<>> = l
         /\ \A d \in S : Append(l, d) = l \o <<d>> /\ <<d>> \in Seq(S) /\ Len(<<d>>) = 1 /\ <<d>>[1] = d
         /\ <<>> \in Seq(S) /\ Len(<<>>) = 0
<1>1. l \o <<>> = l
  BY ConcatEmptySeq
<1>2. \A d \in S : Append(l, d) = l \o <<d>>
  BY AppendIsConcat
<1>3. \A d \in S : <<d>> \in Seq(S) /\ Len(<<d>>) = 1 /\ <<d>>[1] = d
  OBVIOUS
<1>4. <<>> \in Seq(S) /\ Len(<<>>) = 0
  BY EmptySeq
<1> QED BY <1>1, <1>2, <1>3, <1>4

\* A promise gets a reaction.
JsAttachesTo(e, e2, p, j) ==
    LET o == e.prom[p]
        yes == TRUE
    IN  IF o.st = 0
        THEN JsPuts(e, e2, p, JsProm(o.st, o.val, Append(o.rx, j), yes), <<>>, e.unh)
        ELSE JsPuts(e, e2, p, JsProm(o.st, o.val, o.rx, yes), <<Triggered(j, o.st, o.val)>>, e.unh)

\* PerformPromiseThen does that.
LEMMA JsAttachForm ==
  ASSUME NEW e \in JsType, NEW p \in Js!JsIds, NEW j \in JobType
  PROVE  JsAttachesTo(e, Js!JsAttach(e, p, j), p, j)
<1>1. PICK st, v, l, h, yes : st = e.prom[p].st /\ v = e.prom[p].val /\ l = e.prom[p].rx /\ h = e.prom[p].handled
                              /\ yes = TRUE
  OBVIOUS
<1>2. /\ e.prom[p] = JsProm(st, v, l, h) /\ st \in {0, 1, 2} /\ v \in Nat /\ l \in Seq(JobType) /\ yes \in BOOLEAN
      /\ e.unh \in Seq(Js!JsIds) /\ e.jobs \in Seq(JobType) /\ e.prom \in [Js!JsIds -> JsPromType]
  BY <1>1, JsWords DEF JsType
<1>3. PICK x : x = JsProm(st, v, l, yes)
  OBVIOUS
<1>4. /\ \A i, w, y, k : [JsProm(i, w, y, k) EXCEPT !.handled = yes] = JsProm(i, w, y, yes)
      /\ \A i, w, y, k, z : [JsProm(i, w, y, k) EXCEPT !.rx = z] = JsProm(i, w, z, k)
      /\ x.rx = l
  BY <1>3 DEF JsProm
<1>5. [e.prom[p] EXCEPT !.handled = yes] = x
  BY <1>2, <1>3, <1>4
<1>6. PICK pr, m : pr = [e.prom EXCEPT ![p] = x] /\ m = [e EXCEPT !.prom[p].handled = TRUE]
  OBVIOUS
<1>7. m = [e EXCEPT !.prom = pr] /\ pr[p] = x
  BY <1>1, <1>2, <1>5, <1>6
<1>8. m.prom = pr /\ m.jobs = e.jobs
  BY <1>7 DEF JsType
<1>9. CASE st = 0
  <2>1. PICK k, y, z : k = Append(l, j) /\ y = JsProm(st, v, k, yes) /\ z = <<>>
    OBVIOUS
  <2>2. k \in Seq(JobType) /\ z \in Seq(JobType) /\ e.jobs \o z = e.jobs
    BY <1>2, <2>1, AppendOne, AppendProperties
  <2>3. y \in JsPromType
    BY <1>2, <2>1, <2>2 DEF JsPromType, JsProm
  <2>4. [x EXCEPT !.rx = k] = y
    <3>1. [JsProm(st, v, l, yes) EXCEPT !.rx = k] = JsProm(st, v, k, yes)
      BY <1>4
    <3> QED BY <1>3, <2>1, <3>1
  <2>5. Js!JsAttach(e, p, j) = [m EXCEPT !.prom[p].rx = Append(@, j)]
    BY <1>1, <1>6, <1>9 DEF Js!JsAttach
  <2>6. PICK pr2 : pr2 = [pr EXCEPT ![p] = y]
    OBVIOUS
  <2>7. Js!JsAttach(e, p, j) = [m EXCEPT !.prom = pr2]
    <3>1. [m EXCEPT !.prom[p].rx = Append(@, j)] = [m EXCEPT !.prom = [pr EXCEPT ![p] = [x EXCEPT !.rx = k]]]
      BY <1>4, <1>7, <1>8, <2>1
    <3> QED BY <2>4, <2>5, <2>6, <3>1
  <2>8. pr2 = [e.prom EXCEPT ![p] = y]
    BY <1>6, <2>6
  <2>9. Js!JsAttach(e, p, j) = [e EXCEPT !.prom = pr2]
    BY <1>7, <2>7
  <2>10. Js!JsAttach(e, p, j) = [e EXCEPT !.prom = pr2, !.jobs = e.jobs \o z, !.unh = e.unh]
    BY <2>2, <2>9 DEF JsType
  <2>11. Js!JsAttach(e, p, j) = JsPut(e, p, y, z, e.unh)
    BY <2>8, <2>10 DEF JsPut
  <2>12. JsPuts(e, Js!JsAttach(e, p, j), p, y, z, e.unh)
    BY <1>2, <2>2, <2>3, <2>11, JsPutFacts
  <2> QED BY <1>1, <1>9, <2>1, <2>12 DEF JsAttachesTo
<1>10. CASE st # 0
  <2>1. PICK t, z : t = Triggered(j, st, v) /\ z = <<t>>
    OBVIOUS
  <2>2. t \in JobType
    BY <1>2, <2>1, TriggeredFacts
  <2>3. z \in Seq(JobType) /\ Append(e.jobs, t) = e.jobs \o z
    BY <1>2, <2>1, <2>2, AppendOne
  <2>4. x \in JsPromType
    BY <1>2, <1>3 DEF JsPromType, JsProm
  <2>5. Js!JsAttach(e, p, j) = [m EXCEPT !.jobs = Append(@, t)]
    BY <1>1, <1>6, <1>10, <2>1 DEF Js!JsAttach, Triggered
  <2>6. Js!JsAttach(e, p, j) = [m EXCEPT !.jobs = e.jobs \o z]
    BY <1>8, <2>3, <2>5
  <2>7. Js!JsAttach(e, p, j) = [e EXCEPT !.prom = pr, !.jobs = e.jobs \o z, !.unh = e.unh]
    BY <1>7, <2>6 DEF JsType
  <2>8. Js!JsAttach(e, p, j) = JsPut(e, p, x, z, e.unh)
    BY <1>6, <2>7 DEF JsPut
  <2>9. JsPuts(e, Js!JsAttach(e, p, j), p, x, z, e.unh)
    BY <1>2, <2>3, <2>4, <2>8, JsPutFacts
  <2> QED BY <1>1, <1>3, <1>10, <2>1, <2>9 DEF JsAttachesTo
<1> QED BY <1>9, <1>10

\* A job more, and the first one run.
JsMovesTo(e, e2, jb) ==
    e2.prom = e.prom /\ e2.jobs = jb /\ e2.unh = e.unh /\ e2.ticks = e.ticks /\ e2.comb = e.comb /\ e2 \in JsType
JsPop(e) == [e EXCEPT !.jobs = Tail(@), !.mode = "jobs"]

\* Both leave everything but the queue alone.
LEMMA JsMoveForms ==
  ASSUME NEW e \in JsType
  PROVE  /\ \A j \in JobType : LET e2 == [e EXCEPT !.jobs = Append(@, j)] IN
                                JsMovesTo(e, e2, e.jobs \o <<j>>) /\ e2.call = e.call /\ e2.mode = e.mode
         /\ e.jobs # <<>> => JsMovesTo(e, JsPop(e), Tail(e.jobs)) /\ JsPop(e).call = e.call
<1>1. e.jobs \in Seq(JobType)
  BY DEF JsType
<1>2. ASSUME NEW j \in JobType, NEW e2, e2 = [e EXCEPT !.jobs = Append(@, j)]
      PROVE  JsMovesTo(e, e2, e.jobs \o <<j>>) /\ e2.call = e.call /\ e2.mode = e.mode
  <2>1. PICK jb : jb = Append(e.jobs, j)
    OBVIOUS
  <2>2. jb \in Seq(JobType) /\ jb = e.jobs \o <<j>>
    BY <1>1, <2>1, AppendOne, AppendProperties
  <2>3. e2 = [e EXCEPT !.jobs = jb]
    BY <1>2, <2>1
  <2>4. JsMovesTo(e, e2, jb) /\ e2.call = e.call /\ e2.mode = e.mode
    BY <2>2, <2>3 DEF JsType, JsMovesTo
  <2> QED BY <2>2, <2>4
<1>3. ASSUME e.jobs # <<>> PROVE JsMovesTo(e, JsPop(e), Tail(e.jobs)) /\ JsPop(e).call = e.call
  <2>1. PICK jb, m : jb = Tail(e.jobs) /\ m = "jobs"
    OBVIOUS
  <2>2. jb \in Seq(JobType)
    BY <1>1, <1>3, <2>1, TailFacts
  <2>3. JsPop(e) = [e EXCEPT !.jobs = jb, !.mode = m]
    BY <2>1 DEF JsPop
  <2>4. JsMovesTo(e, JsPop(e), jb) /\ JsPop(e).call = e.call
    BY <2>1, <2>2, <2>3 DEF JsType, JsMovesTo
  <2> QED BY <2>1, <2>4
<1> QED BY <1>2, <1>3

\* Another promise of e; the inner ones.
LEMMA InnersFacts ==
  ASSUME NEW e, NEW e2, NEW p \in Js!JsIds, \A q \in Js!JsIds : q # p => e2.prom[q] = e.prom[q]
  PROVE  /\ p \in Ids => Inners(e2) = Inners(e) /\ \A q \in Ids : q # p => e2.prom[q] = e.prom[q]
         /\ \A d \in Ids : Inners(e)[d] = e.prom[Inner(d)]
         /\ \A d \in Ids : p = Inner(d) => /\ \A q \in Ids : e2.prom[q] = e.prom[q]
                                           /\ Inners(e2)[d] = e2.prom[p]
                                           /\ \A q \in Ids : q # d => Inners(e2)[q] = Inners(e)[q]
<1>1. \A d \in Ids : Inners(e)[d] = e.prom[Inner(d)] /\ Inners(e2)[d] = e2.prom[Inner(d)]
  BY DEF Inners
<1>2. ASSUME p \in Ids PROVE Inners(e2) = Inners(e) /\ \A q \in Ids : q # p => e2.prom[q] = e.prom[q]
  <2>1. \A d \in Ids : e2.prom[Inner(d)] = e.prom[Inner(d)]
    BY <1>2, InnerFacts
  <2>2. Inners(e2) = Inners(e)
    BY <2>1 DEF Inners
  <2>3. \A q \in Ids : q # p => e2.prom[q] = e.prom[q]
    BY InnerFacts
  <2> QED BY <2>2, <2>3
<1>3. ASSUME NEW d \in Ids, p = Inner(d)
      PROVE  /\ \A q \in Ids : e2.prom[q] = e.prom[q]
             /\ Inners(e2)[d] = e2.prom[p]
             /\ \A q \in Ids : q # d => Inners(e2)[q] = Inners(e)[q]
  <2>1. \A q \in Ids : q # p /\ q \in Js!JsIds
    BY <1>3, InnerFacts
  <2>2. \A q \in Ids : q # d => Inner(q) # p /\ Inner(q) \in Js!JsIds
    BY <1>3, InnerFacts
  <2> QED BY <1>1, <1>3, <2>1, <2>2
<1> QED BY <1>1, <1>2, <1>3

-----------------------------------------------------------------------------
(* One step of both machines: the queues and the lists.                    *)

\* A promise's list stays, is emptied, or gets one more.
ListStep(e, e2, s, s2, n, g, p) ==
    \/ e2.prom[p].rx = e.prom[p].rx /\ Lists(s2)[p] = Lists(s)[p]
    \/ e2.prom[p].rx = <<>> /\ Lists(s2)[p] = <<>>
    \/ \E j \in JobType : \E d \in Closures(n) :
          /\ e2.prom[p].rx = Append(e.prom[p].rx, j) /\ Lists(s2)[p] = Append(Lists(s)[p], d) /\ Pair(j, d)
          /\ d.fn = "finally_step" => Hook(e2.jobs, Inners(e2), g, d.q, Len(e2.jobs) + 1)

\* Only what concerns promise q has changed, and nothing reads that (0: nothing has).
Aside(e, e2, s, s2, f, q) ==
    /\ q = 0 \/ (q \in Ids /\ s.prom[q].st = Pending)
    /\ \A p \in Ids : p # q => Out(s2)[p] = Out(s)[p] /\ Inners(e2)[p] = Inners(e)[p]
    /\ q # 0 => /\ \A d : InLists(s, d) => ~(d.fn \in Steps /\ d.q = q)
                /\ Inners(e2)[q] # Inners(e)[q] =>
                      \A i \in 1..Len(e.jobs) : Free(f, i) /\ Late(e.jobs[i]) => e.jobs[i].d # q

\* What a well-formed pair of states says of its queues.
LEMMA PairTyped ==
  ASSUME NEW e \in JsType, NEW s, NEW n, NEW c, NEW w, Fine(s, n, c, w)
  PROVE  /\ Typed(e.jobs, s.mt, n) /\ Lists(s)[0] = s.mt
         /\ \A d \in Range(s.mt) : InLists(s, d)
         /\ \A m \in 1..Len(s.mt) : s.mt[m] \in Range(s.mt) /\ InLists(s, s.mt[m]) /\ s.mt[m] \in Closures(n)
         /\ \A p \in Ids : /\ Lists(s)[p] \in Seq(Closures(n)) /\ e.prom[p].rx \in Seq(JobType)
                           /\ \A i \in 1..Len(Lists(s)[p]) : /\ Lists(s)[p][i] \in Range(Lists(s)[p])
                                                             /\ InLists(s, Lists(s)[p][i])
                                                             /\ Lists(s)[p][i] \in Closures(n)
<1>1. n \in Nat /\ 1..n \subseteq Ids /\ s \in RtType(n) /\ MaxProms \in Nat /\ 0 \in 0..MaxProms
      /\ Lists(s) \in [0..MaxProms -> Seq(Closures(n))]
  BY FineFacts
<1>2. Lists(s)[0] = s.mt /\ \A p \in Ids : p \in 0..MaxProms
  BY <1>1, ListsFacts
<1>3. e.jobs \in Seq(JobType) /\ s.mt \in Seq(Closures(n))
  BY <1>1, <1>2 DEF JsType
<1>4. ASSUME NEW l \in Seq(Closures(n)), NEW i \in 1..Len(l) PROVE l[i] \in Range(l) /\ l[i] \in Closures(n)
  <2>1. i \in DOMAIN l
    BY <1>4
  <2> QED BY <1>4, <2>1 DEF Range
<1>5. \A p \in Ids : e.prom[p].rx \in Seq(JobType)
  BY JsWords, InnerFacts
<1>6. \A d \in Range(s.mt) : InLists(s, d)
  BY <1>1, <1>2 DEF InLists
<1>7. \A p \in Ids : \A i \in 1..Len(Lists(s)[p]) : InLists(s, Lists(s)[p][i])
  BY <1>1, <1>2, <1>4 DEF InLists
<1> QED BY <1>1, <1>2, <1>3, <1>4, <1>5, <1>6, <1>7 DEF Typed

\* The queues grow, the lists step.
LEMMA QueuesGrow ==
  ASSUME NEW e \in JsType, NEW e2 \in JsType, NEW s, NEW s2, NEW n, NEW c, NEW f, NEW g, NEW K, NEW N, NEW z, NEW q,
         Fine(s, n, c, 0), QueuesSim(e, s, c, f), Typed(K, N, n), Grown(e.jobs, e2.jobs, s.mt, s2.mt, f, g, K, N, z),
         Aside(e, e2, s, s2, f, q), Once(e2.jobs),
         \A i \in 1..Len(N) : Fired(e2.jobs, Inners(e2), N[i], Out(s2), c, g, Len(e.jobs) + z + i),
         \A i \in 1..z : Extra(e2.jobs, Inners(e2), g, Len(e.jobs) + i),
         \A p \in Ids : ListStep(e, e2, s, s2, n, g, p)
  PROVE  QueuesSim(e2, s2, c, g)
<1>1. PICK J, J2, I, I2, o, o2 : /\ J = e.jobs /\ J2 = e2.jobs /\ I = Inners(e) /\ I2 = Inners(e2)
                                 /\ o = Out(s) /\ o2 = Out(s2)
  OBVIOUS
<1>2. /\ Typed(J, s.mt, n) /\ Lists(s)[0] = s.mt
      /\ \A m \in 1..Len(s.mt) : s.mt[m] \in Range(s.mt) /\ InLists(s, s.mt[m]) /\ s.mt[m] \in Closures(n)
      /\ \A p \in Ids : /\ Lists(s)[p] \in Seq(Closures(n)) /\ e.prom[p].rx \in Seq(JobType)
                        /\ \A i \in 1..Len(Lists(s)[p]) : /\ Lists(s)[p][i] \in Range(Lists(s)[p])
                                                          /\ InLists(s, Lists(s)[p][i])
                                                          /\ Lists(s)[p][i] \in Closures(n)
  BY <1>1, PairTyped
<1>3. QueueSim(J, I, s.mt, o, c, f) /\ \A p \in Ids : ListSim(e.prom[p].rx, Lists(s)[p], J, I, f)
  BY <1>1 DEF QueuesSim
<1>4. n \in Nat /\ 1..n \subseteq Ids /\ \A d \in Closures(n) : Src(d, c) = 0 \/ Src(d, c) \in Ids
  BY FineFacts
<1>5. ASSUME NEW d \in Closures(n), d.fn \in Steps, InLists(s, d) PROVE d.q \in Ids /\ d.q # q /\ I2[d.q] = I[d.q]
  <2>1. d.q \in 1..n
    BY <1>4, <1>5, ClosureFacts DEF Steps
  <2>2. d.q \in Ids /\ d.q # 0
    BY <1>4, <2>1
  <2> QED BY <1>1, <1>5, <2>2 DEF Aside
<1>6. Untouched(J, s.mt, f, I, I2, o, o2, c, c)
  <2>1. ASSUME NEW m \in 1..Len(s.mt) PROVE Keeps(s.mt[m], o, o2, c, c) /\ (s.mt[m].fn \in Steps => I2[s.mt[m].q] = I[s.mt[m].q])
    <3>1. PICK d : d = s.mt[m]
      OBVIOUS
    <3>2. d \in Closures(n) /\ d \in Range(s.mt) /\ InLists(s, d)
      BY <1>2, <3>1
    <3>3. ASSUME Src(d, c) # 0 PROVE o2[Src(d, c)] = o[Src(d, c)]
      <4>1. s.prom[Src(d, c)].st # Pending
        BY <1>2, <3>2, <3>3 DEF Fine, Waits
      <4>2. Src(d, c) \in Ids /\ Src(d, c) # q
        BY <1>4, <3>2, <3>3, <4>1 DEF Aside
      <4> QED BY <1>1, <4>2 DEF Aside
    <3>4. ASSUME d.fn = "defer_step" PROVE o2[d.q] = o[d.q]
      <4>1. d.q \in Ids /\ d.q # q
        BY <1>5, <3>2, <3>4 DEF Steps
      <4> QED BY <1>1, <4>1 DEF Aside
    <3>5. Keeps(d, o, o2, c, c) /\ (d.fn \in Steps => I2[d.q] = I[d.q])
      BY <1>5, <3>2, <3>3, <3>4 DEF Keeps
    <3> QED BY <3>1, <3>5
  <2>2. ASSUME NEW i \in 1..Len(J), Free(f, i), Late(J[i]) PROVE I2[J[i].d] = I[J[i].d]
    <3>1. Extra(J, I, f, i)
      BY <1>3, <2>2 DEF QueueSim
    <3>2. J[i].d \in Ids
      BY <2>2, <3>1 DEF Extra, Late
    <3>3. CASE J[i].d # q
      BY <1>1, <3>2, <3>3 DEF Aside
    <3>4. CASE J[i].d = q
      <4>1. q # 0
        BY <3>2, <3>4 DEF Ids
      <4>2. Inners(e2)[q] = Inners(e)[q]
        BY <1>1, <2>2, <3>4, <4>1 DEF Aside
      <4> QED BY <1>1, <3>4, <4>2
    <3> QED BY <3>3, <3>4
  <2> QED BY <2>1, <2>2 DEF Untouched
<1>7. QueueSim(J2, I2, s2.mt, o2, c, g)
  <2>1. /\ \A i \in 1..Len(N) : Fired(J2, I2, N[i], o2, c, g, Len(J) + z + i)
        /\ \A i \in 1..z : Extra(J2, I2, g, Len(J) + i)
    BY <1>1
  <2>2. Grown(J, J2, s.mt, s2.mt, f, g, K, N, z) /\ Once(J2)
    BY <1>1
  <2> QED BY <1>2, <1>3, <1>6, <2>1, <2>2, QueueGrows
<1>8. Shifted(J, f, J2, g, 0) /\ Len(J2) \in Nat /\ Len(J) \in Nat /\ Len(J2) >= Len(J)
  <2>1. Embeds(f, Len(s.mt), Len(J)) /\ Grown(J, J2, s.mt, s2.mt, f, g, K, N, z)
    BY <1>1, <1>3 DEF QueueSim
  <2>2. Shifted(J, f, J2, g, 0) /\ Len(J2) = Len(J) + z + Len(N)
    BY <1>2, <2>1, GrownFacts
  <2>3. Len(J) \in Nat /\ Len(N) \in Nat /\ z \in Nat
    BY <1>2, <2>1 DEF Typed, Grown
  <2> QED BY <2>2, <2>3
<1>9. ASSUME NEW p \in Ids PROVE ListSim(e2.prom[p].rx, Lists(s2)[p], J2, I2, g)
  <2>1. PICK X, l : X = e.prom[p].rx /\ l = Lists(s)[p]
    OBVIOUS
  <2>2. /\ l \in Seq(Closures(n)) /\ X \in Seq(JobType) /\ ListSim(X, l, J, I, f)
        /\ \A i \in 1..Len(l) : InLists(s, l[i]) /\ l[i] \in Closures(n)
    BY <1>2, <1>3, <2>1
  <2>3. ASSUME NEW i \in 1..Len(l), l[i].fn = "finally_step" PROVE Hook(J2, I2, g, l[i].q, Len(J2) + 1)
    <3>1. PICK d, r : d = l[i] /\ r = d.q
      OBVIOUS
    <3>2. d \in Closures(n) /\ d.fn \in Steps /\ InLists(s, d) /\ Hook(J, I, f, r, Len(J) + 1)
      BY <2>2, <2>3, <3>1 DEF ListSim, Steps
    <3>3. I2[r] = I[r]
      BY <1>5, <3>1, <3>2
    <3>4. Hook(J2, I2, g, r, Len(J2) + 1)
      <4>1. Len(J2) + 1 \in Nat /\ Len(J2) + 1 >= Len(J) + 1
        BY <1>8
      <4> QED BY <1>8, <3>2, <3>3, <4>1, HookGrows
    <3> QED BY <3>1, <3>4
  <2>4. CASE e2.prom[p].rx = X /\ Lists(s2)[p] = l
    <3>1. ListSim(X, l, J2, I2, g)
      BY <2>2, <2>3 DEF ListSim
    <3> QED BY <2>4, <3>1
  <2>5. CASE e2.prom[p].rx = <<>> /\ Lists(s2)[p] = <<>>
    BY <2>5, EmptySeq DEF ListSim
  <2>6. ASSUME NEW j \in JobType, NEW d \in Closures(n),
               e2.prom[p].rx = Append(X, j), Lists(s2)[p] = Append(l, d), Pair(j, d),
               d.fn = "finally_step" => Hook(J2, I2, g, d.q, Len(J2) + 1)
        PROVE  ListSim(e2.prom[p].rx, Lists(s2)[p], J2, I2, g)
    <3>1. PICK m \in Nat : m = Len(l) /\ m = Len(X)
      BY <2>2 DEF ListSim
    <3>2. /\ Len(Append(X, j)) = m + 1 /\ Append(X, j)[m + 1] = j /\ \A i \in 1..m : Append(X, j)[i] = X[i]
          /\ Len(Append(l, d)) = m + 1 /\ Append(l, d)[m + 1] = d /\ \A i \in 1..m : Append(l, d)[i] = l[i]
      <4>1. PICK S : S = Closures(n)
        OBVIOUS
      <4>2. l \in Seq(S) /\ d \in S
        BY <2>2, <4>1
      <4>3. /\ Len(Append(l, d)) = m + 1 /\ Append(l, d)[m + 1] = d /\ \A i \in 1..m : Append(l, d)[i] = l[i]
        <5>1. /\ Len(Append(l, d)) = Len(l) + 1 /\ Append(l, d)[Len(l) + 1] = d
              /\ \A i \in 1..Len(l) : Append(l, d)[i] = l[i]
          BY <4>2, AppendProperties
        <5> QED BY <3>1, <5>1
      <4>4. /\ Len(Append(X, j)) = m + 1 /\ Append(X, j)[m + 1] = j /\ \A i \in 1..m : Append(X, j)[i] = X[i]
        BY <2>2, <3>1, AppendProperties
      <4> QED BY <4>3, <4>4
    <3>3. PICK Y, k : Y = Append(X, j) /\ k = Append(l, d)
      OBVIOUS
    <3>4. ASSUME NEW i \in 1..(m + 1)
          PROVE Pair(Y[i], k[i]) /\ (k[i].fn = "finally_step" => Hook(J2, I2, g, k[i].q, Len(J2) + 1))
      <4>1. CASE i = m + 1
        BY <2>6, <3>2, <3>3, <4>1
      <4>2. CASE i # m + 1
        <5>1. i \in 1..m
          BY <4>2
        <5>2. Pair(X[i], l[i])
          BY <2>2, <3>1, <5>1 DEF ListSim
        <5> QED BY <2>3, <3>1, <3>2, <3>3, <5>1, <5>2
      <4> QED BY <4>1, <4>2
    <3>5. ListSim(Y, k, J2, I2, g)
      BY <3>2, <3>3, <3>4 DEF ListSim
    <3> QED BY <2>6, <3>3, <3>5
  <2>7. ListStep(e, e2, s, s2, n, g, p)
    OBVIOUS
  <2> QED BY <1>1, <2>1, <2>4, <2>5, <2>6, <2>7 DEF ListStep
<1> QED BY <1>1, <1>7, <1>9 DEF QueuesSim

\* The closures that wait, before and after.
Gains(s, s2, D) == \A d : InLists(s2, d) <=> InLists(s, d) \/ d \in D

\* They are in the queue or on a list.
LEMMA ListsAre ==
  ASSUME NEW s
  PROVE  /\ Lists(s)[0] = s.mt /\ \A p \in Ids : Lists(s)[p] = Reverse(s.prom[p].rx)
         /\ \A d : InLists(s, d) <=> d \in Range(s.mt) \/ \E p \in Ids : d \in Range(Lists(s)[p])
<1>1. MaxProms \in Nat
  BY PromiseAssumption
<1>2. 0 \in 0..MaxProms /\ (\A p \in Ids : p \in 0..MaxProms /\ p # 0) /\ (\A p \in 0..MaxProms : p = 0 \/ p \in Ids)
  BY <1>1 DEF Ids
<1>3. Lists(s)[0] = s.mt /\ \A p \in Ids : Lists(s)[p] = Reverse(s.prom[p].rx)
  BY <1>2 DEF Lists
<1> QED BY <1>2, <1>3 DEF InLists

\* The empty list, reversed.
LEMMA NoneReversed ==
  Reverse(<<>>) = <<>> /\ Range(<<>>) = {}
<1>1. PICK l : l = <<>>
  OBVIOUS
<1>2. PICK r : r = Reverse(l)
  OBVIOUS
<1>3. r \in Seq(Nat) /\ Len(r) = 0
  <2>1. l \in Seq(Nat) /\ Len(l) = 0
    BY <1>1
  <2> QED BY <1>2, <2>1, ReverseFacts
<1>4. r = <<>>
  BY <1>3, EmptySeq
<1>5. Range(l) = {}
  BY <1>1 DEF Range
<1> QED BY <1>1, <1>2, <1>4, <1>5

\* A list joined to another one, and a list of one.
LEMMA RangeJoin ==
  ASSUME NEW S, NEW l \in Seq(S), NEW m \in Seq(S)
  PROVE  Range(l \o m) = Range(l) \cup Range(m) /\ \A d \in S : Range(<<d>>) = {d}
<1>1. Range(l \o m) = Range(l) \cup Range(m)
  BY RangeConcatenation
<1>2. \A d \in S : Range(<<d>>) = {d}
  BY DEF Range
<1> QED BY <1>1, <1>2

\* Where the closures are when a promise has settled.
SettleMoves(s, s2, p) ==
    /\ s2.mt = s.mt \o Lists(s)[p] /\ Lists(s2)[p] = <<>>
    /\ \A q \in Ids : q # p => Lists(s2)[q] = Lists(s)[q] /\ s2.prom[q] = s.prom[q]
    /\ Gains(s, s2, {})

\* A settlement moves the list of p behind the queue, oldest first.
LEMMA SettleLists ==
  ASSUME NEW n, NEW s \in RtType(n), NEW p \in Ids, NEW s2, NEW st, NEW v, SettlesTo(s, s2, p, st, v)
  PROVE  SettleMoves(s, s2, p)
<1>1. PICK b \in BOOLEAN : Puts(s, s2, p, Prom(st, v, <<>>, s.prom[p].handled, b), Joined(s, p),
               IF st = Rejected /\ ~s.prom[p].handled THEN Append(s.unh, p) ELSE s.unh)
  BY DEF SettlesTo
<1>0. \A q \in Ids : Lists(s)[q] = Reverse(s.prom[q].rx) /\ Lists(s2)[q] = Reverse(s2.prom[q].rx)
  BY ListsAre
<1>2. /\ s2.prom[p].rx = <<>> /\ s2.mt = s.mt \o Lists(s)[p]
      /\ \A q \in Ids : q # p => s2.prom[q] = s.prom[q]
  <2>1. s2.prom[p].rx = <<>>
    BY <1>1 DEF Puts, Prom
  <2>2. s2.mt = s.mt \o Reverse(s.prom[p].rx) /\ \A q \in Ids : q # p => s2.prom[q] = s.prom[q]
    BY <1>1 DEF Puts, Joined
  <2> QED BY <1>0, <2>1, <2>2
<1>3. Lists(s2)[p] = <<>> /\ \A q \in Ids : q # p => Lists(s2)[q] = Lists(s)[q]
  <2>1. Lists(s2)[p] = <<>>
    BY <1>0, <1>2, NoneReversed
  <2>2. \A q \in Ids : q # p => Lists(s2)[q] = Lists(s)[q]
    BY <1>0, <1>2
  <2> QED BY <2>1, <2>2
<1>4. s.mt \in Seq(Closures(n)) /\ Lists(s)[p] \in Seq(Closures(n))
  <2>1. s.mt \in Seq(Closures(n))
    BY DEF RtType
  <2>2. p \in 0..MaxProms /\ Lists(s) \in [0..MaxProms -> Seq(Closures(n))]
    BY ListsFacts
  <2> QED BY <2>1, <2>2
<1>5. Range(s2.mt) = Range(s.mt) \cup Range(Lists(s)[p])
  BY <1>2, <1>4, RangeJoin
<1>6. ASSUME NEW d PROVE InLists(s2, d) <=> InLists(s, d)
  <2>1. \A q \in Ids : d \in Range(Lists(s2)[q]) <=> q # p /\ d \in Range(Lists(s)[q])
    BY <1>3, NoneReversed
  <2>2. InLists(s2, d) <=> d \in Range(s2.mt) \/ \E q \in Ids : d \in Range(Lists(s2)[q])
    BY ListsAre
  <2>3. InLists(s, d) <=> d \in Range(s.mt) \/ \E q \in Ids : d \in Range(Lists(s)[q])
    BY ListsAre
  <2> QED BY <1>5, <2>1, <2>2, <2>3
<1> QED BY <1>2, <1>3, <1>6 DEF SettleMoves, Gains

\* Where they are when p has one more.
AttachMoves(s, s2, p, d) ==
    /\ IF s.prom[p].st = Pending THEN s2.mt = s.mt /\ Lists(s2)[p] = Append(Lists(s)[p], d)
                                 ELSE s2.mt = s.mt \o <<d>> /\ Lists(s2)[p] = Lists(s)[p]
    /\ \A q \in Ids : q # p => Lists(s2)[q] = Lists(s)[q] /\ s2.prom[q] = s.prom[q]
    /\ Gains(s, s2, {d})

\* An attachment puts the closure on p's list or behind the queue.
LEMMA AttachLists ==
  ASSUME NEW n, NEW s \in RtType(n), NEW p \in Ids, NEW d \in Closures(n), NEW s2, AttachesTo(s, s2, p, d)
  PROVE  AttachMoves(s, s2, p, d)
<1>1. PICK x, m : /\ Puts(s, s2, p, x, m, s.unh)
                  /\ IF s.prom[p].st = Pending THEN x.rx = Pushed(s, p, d) /\ m = s.mt
                                               ELSE x.rx = s.prom[p].rx /\ m = Append(s.mt, d)
  BY DEF AttachesTo
<1>2. /\ s2.prom[p] = x /\ s2.mt = m /\ \A q \in Ids : q # p => s2.prom[q] = s.prom[q]
  BY <1>1 DEF Puts
<1>0. \A q \in Ids : Lists(s)[q] = Reverse(s.prom[q].rx) /\ Lists(s2)[q] = Reverse(s2.prom[q].rx)
  BY ListsAre
<1>3. \A q \in Ids : q # p => Lists(s2)[q] = Lists(s)[q]
  BY <1>0, <1>2
<1>4. PICK S : S = Closures(n)
  OBVIOUS
<1>5. s.mt \in Seq(S) /\ Lists(s)[p] \in Seq(S) /\ s.prom[p].rx \in Seq(S) /\ d \in S
  <2>1. s.mt \in Seq(S) /\ s.prom[p].rx \in Seq(S)
    BY <1>4 DEF RtType, PromType
  <2>2. p \in 0..MaxProms /\ Lists(s) \in [0..MaxProms -> Seq(S)]
    BY <1>4, ListsFacts
  <2> QED BY <1>4, <2>1, <2>2
<1>6. /\ Append(s.mt, d) = s.mt \o <<d>> /\ Range(Append(s.mt, d)) = Range(s.mt) \cup {d}
      /\ Range(Append(Lists(s)[p], d)) = Range(Lists(s)[p]) \cup {d}
      /\ Reverse(Pushed(s, p, d)) = Append(Lists(s)[p], d)
  <2>1. Append(s.mt, d) = s.mt \o <<d>>
    BY <1>5, AppendOne
  <2>2. Range(Append(s.mt, d)) = Range(s.mt) \cup {d}
    BY <1>5, RangeFacts
  <2>3. Range(Append(Lists(s)[p], d)) = Range(Lists(s)[p]) \cup {d}
    BY <1>5, RangeFacts
  <2>4. Reverse(<<d>> \o s.prom[p].rx) = Append(Reverse(s.prom[p].rx), d)
    BY <1>5, ReverseFacts
  <2> QED BY <2>1, <2>2, <2>3, <2>4, ListsAre DEF Pushed
<1>7. ASSUME NEW y PROVE InLists(s2, y) <=> InLists(s, y) \/ y = d
  <2>1. InLists(s2, y) <=> y \in Range(s2.mt) \/ \E q \in Ids : y \in Range(Lists(s2)[q])
    BY ListsAre
  <2>2. InLists(s, y) <=> y \in Range(s.mt) \/ \E q \in Ids : y \in Range(Lists(s)[q])
    BY ListsAre
  <2>3. CASE s.prom[p].st = Pending
    <3>1. s2.mt = s.mt /\ Lists(s2)[p] = Append(Lists(s)[p], d)
      BY <1>0, <1>1, <1>2, <1>6, <2>3
    <3> QED BY <1>3, <1>6, <2>1, <2>2, <3>1
  <2>4. CASE s.prom[p].st # Pending
    <3>1. s2.mt = Append(s.mt, d) /\ Lists(s2)[p] = Lists(s)[p]
      BY <1>0, <1>1, <1>2, <2>4
    <3> QED BY <1>3, <1>6, <2>1, <2>2, <3>1
  <2> QED BY <2>3, <2>4
<1>8. IF s.prom[p].st = Pending THEN s2.mt = s.mt /\ Lists(s2)[p] = Append(Lists(s)[p], d)
                                 ELSE s2.mt = s.mt \o <<d>> /\ Lists(s2)[p] = Lists(s)[p]
  BY <1>0, <1>1, <1>2, <1>6
<1> QED BY <1>2, <1>3, <1>7, <1>8 DEF AttachMoves, Gains

QueueChanges(s, s2, n) ==
    /\ \A p \in Ids : Lists(s2)[p] = Lists(s)[p]
    /\ \A N \in Seq(Closures(n)) : s2.mt = s.mt \o N => Gains(s, s2, Range(N))
    /\ s.mt # <<>> /\ s2.mt = Tail(s.mt) => \A d : InLists(s, d) <=> InLists(s2, d) \/ d = Head(s.mt)

\* Lists that stay, under a queue that grows, or loses its head.
LEMMA QueueLists ==
  ASSUME NEW n, NEW s \in RtType(n), NEW s2, \A p \in Ids : s2.prom[p].rx = s.prom[p].rx
  PROVE  QueueChanges(s, s2, n)
<1>1. \A p \in Ids : Lists(s2)[p] = Lists(s)[p]
  BY ListsAre
<1>2. s.mt \in Seq(Closures(n))
  BY DEF RtType
<1>3. \A d : InLists(s2, d) <=> d \in Range(s2.mt) \/ \E q \in Ids : d \in Range(Lists(s)[q])
  BY <1>1, ListsAre
<1>4. \A d : InLists(s, d) <=> d \in Range(s.mt) \/ \E q \in Ids : d \in Range(Lists(s)[q])
  BY ListsAre
<1>5. ASSUME NEW N \in Seq(Closures(n)), s2.mt = s.mt \o N PROVE Gains(s, s2, Range(N))
  <2>1. Range(s2.mt) = Range(s.mt) \cup Range(N)
    BY <1>2, <1>5, RangeJoin
  <2> QED BY <1>3, <1>4, <2>1 DEF Gains
<1>6. ASSUME s.mt # <<>>, s2.mt = Tail(s.mt) PROVE Range(s.mt) = Range(s2.mt) \cup {Head(s.mt)}
  <2>1. PICK l, t : l = s.mt /\ t = Tail(l)
    OBVIOUS
  <2>2. /\ Len(l) \in Nat /\ Len(l) >= 1 /\ t \in Seq(Closures(n)) /\ Len(t) = Len(l) - 1 /\ Head(l) = l[1]
        /\ \A i \in 1..(Len(l) - 1) : t[i] = l[i + 1]
        /\ \A i \in 1..Len(l) : i > 1 => i - 1 \in 1..Len(t) /\ t[i - 1] = l[i]
    BY <1>2, <1>6, <2>1, TailFacts
  <2>3. DOMAIN l = 1..Len(l) /\ DOMAIN t = 1..Len(t)
    BY <1>2, <2>1, <2>2
  <2>4. ASSUME NEW y \in Range(l) PROVE y \in Range(t) \/ y = Head(l)
    <3>1. PICK i \in 1..Len(l) : y = l[i]
      BY <2>3, <2>4 DEF Range
    <3>2. CASE i = 1
      BY <2>2, <3>1, <3>2
    <3>3. CASE i # 1
      <4>1. i > 1
        BY <3>3
      <4>2. i - 1 \in DOMAIN t /\ t[i - 1] = y
        BY <2>2, <2>3, <3>1, <4>1
      <4> QED BY <4>2 DEF Range
    <3> QED BY <3>2, <3>3
  <2>5. ASSUME NEW y \in Range(t) PROVE y \in Range(l)
    <3>1. PICK i \in 1..Len(t) : y = t[i]
      BY <2>3, <2>5 DEF Range
    <3>2. i \in 1..(Len(l) - 1) /\ i + 1 \in DOMAIN l
      BY <2>2, <2>3
    <3> QED BY <2>2, <3>1, <3>2 DEF Range
  <2>6. Head(l) \in Range(l)
    <3>1. 1 \in DOMAIN l
      BY <2>2, <2>3
    <3> QED BY <2>2, <3>1 DEF Range
  <2> QED BY <1>6, <2>1, <2>4, <2>5, <2>6
<1> QED BY <1>1, <1>3, <1>4, <1>5, <1>6 DEF QueueChanges

\* finally's jobs for the promises, when the queue grows.
LEMMA LateGrows ==
  ASSUME NEW J \in Seq(JobType), NEW K \in Seq(JobType), Once(J), Once(K),
         \A i \in 1..Len(K) : Late(K[i]) => ~LateFor(J, K[i].d)
  PROVE  Once(J \o K) /\ \A d : LateFor(J \o K, d) <=> LateFor(J, d) \/ LateFor(K, d)
<1>0. Len(J) \in Nat /\ Len(K) \in Nat
  OBVIOUS
<1>1. PICK a \in Nat, b \in Nat : a = Len(J) /\ b = Len(K) 
  BY <1>0
<1>11. PICK L : L = J \o K
  OBVIOUS
<1>2. Len(L) = a + b /\ \A i \in 1..(a + b) : L[i] = IF i <= a THEN J[i] ELSE K[i - a]
  BY <1>1, <1>11, ConcatProperties
<1>3. ASSUME NEW i \in 1..(a + b) PROVE (i \in 1..a /\ L[i] = J[i]) \/ (i > a /\ i - a \in 1..b /\ L[i] = K[i - a])
  BY <1>2
<1>4. ASSUME NEW i \in 1..b PROVE a + i \in 1..(a + b) /\ L[a + i] = K[i]
  <2>1. a + i \in 1..(a + b) /\ ~(a + i <= a) /\ (a + i) - a = i
    OBVIOUS
  <2> QED BY <1>2, <2>1
<1>5. ASSUME NEW i \in 1..a PROVE i \in 1..(a + b) /\ L[i] = J[i]
  BY <1>2
<1>6. ASSUME NEW i \in 1..(a + b), NEW k \in 1..(a + b), Late(L[i]), Late(L[k]), L[i].d = L[k].d PROVE i = k
  <2>1. CASE i <= a /\ k <= a
    BY <1>1, <1>3, <1>6, <2>1 DEF Once
  <2>2. CASE i <= a /\ ~(k <= a)
    <3>1. i \in 1..a /\ L[i] = J[i] /\ k - a \in 1..b /\ L[k] = K[k - a]
      BY <1>3, <2>2
    <3>2. LateFor(J, J[i].d) /\ Late(K[k - a]) /\ K[k - a].d = J[i].d
      BY <1>1, <1>6, <3>1 DEF LateFor
    <3> QED BY <1>1, <3>1, <3>2
  <2>3. CASE ~(i <= a) /\ k <= a
    <3>1. k \in 1..a /\ L[k] = J[k] /\ i - a \in 1..b /\ L[i] = K[i - a]
      BY <1>3, <2>3
    <3>2. LateFor(J, J[k].d) /\ Late(K[i - a]) /\ K[i - a].d = J[k].d
      BY <1>1, <1>6, <3>1 DEF LateFor
    <3> QED BY <1>1, <3>1, <3>2
  <2>4. CASE ~(i <= a) /\ ~(k <= a)
    <3>1. i - a \in 1..b /\ k - a \in 1..b /\ L[i] = K[i - a] /\ L[k] = K[k - a]
      BY <1>3, <2>4
    <3>2. i - a = k - a
      BY <1>1, <1>6, <3>1 DEF Once
    <3> QED BY <3>2
  <2> QED BY <2>1, <2>2, <2>3, <2>4
<1>7. ASSUME NEW d PROVE LateFor(L, d) <=> LateFor(J, d) \/ LateFor(K, d)
  <2>1. ASSUME LateFor(L, d) PROVE LateFor(J, d) \/ LateFor(K, d)
    BY <1>1, <1>2, <1>3, <2>1 DEF LateFor
  <2>2. ASSUME LateFor(J, d) PROVE LateFor(L, d)
    BY <1>1, <1>2, <1>5, <2>2 DEF LateFor
  <2>3. ASSUME LateFor(K, d) PROVE LateFor(L, d)
    BY <1>1, <1>2, <1>4, <2>3 DEF LateFor
  <2> QED BY <2>1, <2>2, <2>3
<1> QED BY <1>1, <1>11, <1>2, <1>6, <1>7 DEF Once

\* No job of K is finally's.
LEMMA NoLate ==
  ASSUME NEW J \in Seq(JobType), NEW K \in Seq(JobType), Once(J), \A i \in 1..Len(K) : K[i].k # "thenable" \/ ~Late(K[i])
  PROVE  Once(J \o K) /\ \A d : LateFor(J \o K, d) <=> LateFor(J, d)
<1>1. \A i \in 1..Len(K) : ~Late(K[i])
  BY DEF Late
<1>2. Once(K) /\ \A d : ~LateFor(K, d)
  BY <1>1 DEF Once, LateFor
<1> QED BY <1>1, <1>2, LateGrows

\* A reaction that is triggered stands for the same closure.
LEMMA PairTriggered ==
  ASSUME NEW j \in JobType, NEW d, Pair(j, d), NEW st \in Nat, NEW v \in Nat, NEW t, t = Triggered(j, st, v)
  PROVE  Pair(t, d) /\ Gets(t, <<st, v>>) /\ t.k # "thenable" /\ ~Late(t) /\ t \in JobType /\ j.k # "thenable"
<1>1. t \in JobType /\ t.k = j.k /\ t.d = j.d /\ t.on = j.on /\ t.keep = j.keep /\ t.st = st /\ t.val = v
  BY TriggeredFacts
<1>2. j.k # "thenable" /\ Pair(t, d)
  BY <1>1 DEF Pair
<1> QED BY <1>1, <1>2 DEF Gets, Late

\* A closure whose source has settled, and its job.
LEMMA FiredByPair ==
  ASSUME NEW J, NEW I, NEW d, NEW o, NEW c, NEW f, NEW b, NEW n \in Nat, d \in Closures(n),
         Src(d, c) # 0, Pair(J[b], d), Gets(J[b], o[Src(d, c)]), d.fn = "finally_step" => Hook(J, I, f, d.q, b)
  PROVE  Fired(J, I, d, o, c, f, b)
<1>1. CASE d.fn # "finally_step"
  BY <1>1 DEF Fired, FiredPlain
<1>2. CASE d.fn = "finally_step"
  <2>1. Src(d, c) = d.r
    BY <1>2 DEF Src
  <2> QED BY <1>2, <2>1 DEF Fired, FiredThunk
<1> QED BY <1>1, <1>2

-----------------------------------------------------------------------------
(* One step of both machines: the rest.                                    *)

\* The rejections: the same, or p's on both sides, or an inner promise's.
LEMMA UnhGrows ==
  ASSUME NEW u \in Seq(Js!JsIds), NEW v, NEW E, NEW E2, UnhSim(u, v, E),
         \A q \in Js!JsIds : E[q].st # 0 => E2[q].st # 0, v \in Seq(Ids),
         \A q \in Ids : E[q].st = 2 => E2[q].st = 2
  PROVE  /\ UnhSim(u, v, E2)
         /\ \A p \in Ids : E2[p].st = 2 => UnhSim(Append(u, p), Append(v, p), E2)
         /\ \A d \in Ids : E2[Inner(d)].st # 0 => UnhSim(Append(u, Inner(d)), v, E2)
<1>1. PICK g : /\ Embeds(g, Len(v), Len(u))
               /\ \A m \in 1..Len(v) : u[g[m]] = v[m]
               /\ \A i \in 1..Len(u) : Free(g, i) => u[i] > MaxProms
  BY DEF UnhSim
<1>2. PICK m \in Nat, n \in Nat : m = Len(v) /\ n = Len(u)
  OBVIOUS
<1>3. \A i \in 1..n : E2[u[i]].st # 0
  <2>1. \A i \in 1..n : u[i] \in Js!JsIds /\ E[u[i]].st # 0
    BY <1>2, ElementOfSeq DEF UnhSim
  <2> QED BY <2>1
<1>8. \A i \in 1..m : E2[v[i]].st = 2
  <2>1. \A i \in 1..m : v[i] \in Ids /\ E[v[i]].st = 2
    BY <1>2, ElementOfSeq DEF UnhSim
  <2> QED BY <2>1
<1>4. UnhSim(u, v, E2)
  BY <1>1, <1>2, <1>3, <1>8 DEF UnhSim
<1>5. \A i \in 1..m : g[i] \in 1..n
  BY <1>1, <1>2 DEF Embeds
<1>6. ASSUME NEW p \in Ids, E2[p].st = 2 PROVE UnhSim(Append(u, p), Append(v, p), E2)
  <2>1. PICK a, b, x, y, h : a = Append(u, p) /\ b = Append(v, p) /\ x = 0 /\ y = 1 /\ h = More(g, m, n, x, y)
    OBVIOUS
  <2>2. p \in Js!JsIds
    BY InnerFacts
  <2>3. Len(a) = n + 1 /\ a[n + 1] = p /\ \A i \in 1..n : a[i] = u[i]
    BY <1>2, <2>1, <2>2, AppendProperties
  <2>4. Len(b) = m + 1 /\ b[m + 1] = p /\ \A i \in 1..m : b[i] = v[i]
    BY <1>2, <2>1, AppendProperties
  <2>5. Spread(g, h, m, n, x, y)
    <3>1. x \in Nat /\ y \in Nat
      BY <2>1
    <3> QED BY <1>1, <1>2, <2>1, <3>1, EmbedsMore
  <2>6. /\ Embeds(h, m + 1, n + 1) /\ (\A i \in 1..m : h[i] = g[i]) /\ h[m + 1] = n + 1
        /\ (\A i \in 1..n : Free(h, i) <=> Free(g, i)) /\ ~Free(h, n + 1)
    <3>1. m + y = m + 1 /\ n + x + y = n + 1 /\ 1 \in 1..y /\ n + 1 \in 1..(n + x + y) /\ n + 1 > n /\ ~(n + 1 <= n + x)
      BY <2>1
    <3>2. h[m + 1] = n + x + 1
      BY <2>5, <3>1 DEF Spread
    <3> QED BY <2>1, <2>5, <3>1, <3>2 DEF Spread
  <2>7. \A i \in 1..(m + 1) : a[h[i]] = b[i]
    <3>1. ASSUME NEW i \in 1..m PROVE a[h[i]] = b[i]
      BY <1>1, <1>2, <1>5, <2>3, <2>4, <2>6
    <3>2. a[h[m + 1]] = b[m + 1]
      BY <2>3, <2>4, <2>6
    <3>3. \A i \in 1..(m + 1) : i \in 1..m \/ i = m + 1
      OBVIOUS
    <3> QED BY <3>1, <3>2, <3>3
  <2>8. \A i \in 1..(n + 1) : (Free(h, i) => a[i] > MaxProms) /\ E2[a[i]].st # 0
    <3>1. ASSUME NEW i \in 1..n PROVE (Free(h, i) => a[i] > MaxProms) /\ E2[a[i]].st # 0
      BY <1>1, <1>2, <1>3, <2>3, <2>6
    <3>2. (Free(h, n + 1) => a[n + 1] > MaxProms) /\ E2[a[n + 1]].st # 0
      BY <1>6, <2>3, <2>6
    <3>3. \A i \in 1..(n + 1) : i \in 1..n \/ i = n + 1
      OBVIOUS
    <3> QED BY <3>1, <3>2, <3>3
  <2>10. \A i \in 1..(m + 1) : E2[b[i]].st = 2
    <3>1. ASSUME NEW i \in 1..m PROVE E2[b[i]].st = 2
      BY <1>8, <2>4
    <3>2. E2[b[m + 1]].st = 2
      BY <1>6, <2>4
    <3>3. \A i \in 1..(m + 1) : i \in 1..m \/ i = m + 1
      OBVIOUS
    <3> QED BY <3>1, <3>2, <3>3
  <2>9. UnhSim(a, b, E2)
    BY <2>3, <2>4, <2>6, <2>7, <2>8, <2>10 DEF UnhSim
  <2> QED BY <2>1, <2>9
<1>7. ASSUME NEW d \in Ids, E2[Inner(d)].st # 0 PROVE UnhSim(Append(u, Inner(d)), v, E2)
  <2>1. PICK p, a, x, y, h : p = Inner(d) /\ a = Append(u, p) /\ x = 1 /\ y = 0 /\ h = More(g, m, n, x, y)
    OBVIOUS
  <2>2. p \in Js!JsIds /\ p > MaxProms
    BY <2>1, InnerFacts
  <2>3. Len(a) = n + 1 /\ a[n + 1] = p /\ \A i \in 1..n : a[i] = u[i]
    BY <1>2, <2>1, <2>2, AppendProperties
  <2>5. Spread(g, h, m, n, x, y)
    <3>1. x \in Nat /\ y \in Nat
      BY <2>1
    <3> QED BY <1>1, <1>2, <2>1, <3>1, EmbedsMore
  <2>6. /\ Embeds(h, m, n + 1) /\ (\A i \in 1..m : h[i] = g[i])
        /\ (\A i \in 1..n : Free(h, i) <=> Free(g, i))
    <3>1. m + y = m /\ n + x + y = n + 1
      BY <2>1
    <3> QED BY <2>1, <2>5, <3>1 DEF Spread
  <2>7. \A i \in 1..m : a[h[i]] = v[i]
    BY <1>1, <1>2, <1>5, <2>3, <2>6
  <2>8. \A i \in 1..(n + 1) : (Free(h, i) => a[i] > MaxProms) /\ E2[a[i]].st # 0
    <3>1. ASSUME NEW i \in 1..n PROVE (Free(h, i) => a[i] > MaxProms) /\ E2[a[i]].st # 0
      BY <1>1, <1>2, <1>3, <2>3, <2>6
    <3>2. (Free(h, n + 1) => a[n + 1] > MaxProms) /\ E2[a[n + 1]].st # 0
      BY <1>7, <2>1, <2>2, <2>3
    <3>3. \A i \in 1..(n + 1) : i \in 1..n \/ i = n + 1
      OBVIOUS
    <3> QED BY <3>1, <3>2, <3>3
  <2>9. UnhSim(a, v, E2)
    BY <1>2, <1>8, <2>3, <2>6, <2>7, <2>8 DEF UnhSim
  <2> QED BY <2>1, <2>9
<1> QED BY <1>4, <1>6, <1>7

\* Nothing but the running code's own step will settle q (a combinator's
\* closures look before they do).
Lone(s, c, q) ==
    /\ \A d : InLists(s, d) /\ Key(d) = <<"settle", q>> => d.fn = "comb"
    /\ c.task[q].st \notin {"running", "parked"}
    /\ ~(c.run.fn \in Waiters /\ c.run.q = q)

\* A closure may wait: what it will settle is pending and not the program's.
Allowed(s, d) == Key(d)[1] = "settle" /\ d.fn # "comb" => s.prom[d.q].st = Pending /\ d.q > Deferred

\* Only p may change; it settles when nothing else will settle it.
PromStep(e, e2, s, s2, n, c, p) ==
    /\ \A q \in Ids : q # p => e2.prom[q] = e.prom[q] /\ s2.prom[q] = s.prom[q]
    /\ p \in Ids => /\ s.prom[p].st # Pending => s2.prom[p].st = s.prom[p].st /\ s2.prom[p].val = s.prom[p].val
                    /\ s2.prom[p].st = s.prom[p].st \/ (p \in 1..n /\ Lone(s, c, p))
                    /\ PromSim(e2.prom[p], s2.prom[p])
RestStep(e, e2, s, s2, n, c, p, D) ==
    /\ PromStep(e, e2, s, s2, n, c, p)
    /\ Gains(s, s2, D) /\ \A d \in D : Allowed(s2, d)
    /\ e2.comb = e.comb /\ e2.call = e.call /\ e2.ticks = e.ticks /\ s2.tq = s.tq
    /\ UnhSim(e2.unh, s2.unh, e2.prom)

\* The rest of the relation holds after such a step.
LEMMA RestGoes ==
  ASSUME NEW e, NEW e2, NEW s, NEW s2, NEW n, NEW c, NEW p, NEW D, Fine(s, n, c, 0), RunOk(s, c),
         RestSim(e, s, n, c), RestStep(e, e2, s, s2, n, c, p, D)
  PROVE  RestSim(e2, s2, n, c)
<1>0. n \in Nat /\ 1..n \subseteq Ids /\ c \in CtxType(n)
  BY FineFacts
<1>1. \A q \in Ids : /\ s.prom[q].st # Pending => s2.prom[q].st = s.prom[q].st /\ s2.prom[q].val = s.prom[q].val
                     /\ s2.prom[q].st = s.prom[q].st \/ (q = p /\ q \in 1..n /\ Lone(s, c, q))
  BY DEF RestStep, PromStep
<1>2. \A q \in Ids : PromSim(e2.prom[q], s2.prom[q]) /\ (q > n => s2.prom[q].st = Pending)
  <2>1. TAKE q \in Ids
  <2>2. PromSim(e2.prom[q], s2.prom[q])
    BY DEF RestStep, PromStep, RestSim
  <2>3. q > n => s2.prom[q].st = s.prom[q].st /\ s.prom[q].st = Pending
    <3>1. q \in 1..n => ~(q > n)
      BY <1>0
    <3> QED BY <1>1, <3>1 DEF RestSim
  <2> QED BY <2>2, <2>3
<1>3. Owners(s2, c)
  <2>1. ASSUME NEW d, InLists(s2, d), Key(d)[1] = "settle", d.fn # "comb" PROVE s2.prom[d.q].st = Pending /\ d.q > Deferred
    <3>1. CASE d \in D
      BY <2>1, <3>1 DEF RestStep, Allowed
    <3>2. CASE d \notin D
      <4>1. InLists(s, d)
        BY <2>1, <3>2 DEF RestStep, Gains
      <4>2. s.prom[d.q].st = Pending /\ d.q > Deferred
        BY <2>1, <4>1 DEF RestSim, Owners
      <4>3. d \in Closures(n)
        BY <4>1, WaitingFacts
      <4>4. d.q \in Ids /\ Key(d) = <<"settle", d.q>>
        <5>1. d.fn \notin {"resume", "queued"}
          BY <1>0, <2>1, <4>3, KeyFacts DEF NoKey
        <5> QED BY <1>0, <4>3, <5>1, KeyFacts
      <4>5. ~Lone(s, c, d.q)
        BY <2>1, <4>1, <4>4 DEF Lone
      <4> QED BY <1>1, <4>2, <4>4, <4>5
    <3> QED BY <3>1, <3>2
  <2>2. ASSUME NEW t \in Ids, c.task[t].st \in {"running", "parked"} PROVE s2.prom[t].st = Pending /\ t > Deferred
    <3>1. s.prom[t].st = Pending /\ t > Deferred /\ ~Lone(s, c, t)
      BY <2>2 DEF RestSim, Owners, Lone
    <3> QED BY <1>1, <3>1
  <2>3. \A q \in Ids : c.comb[q].kind # "none" => q > Deferred
    BY DEF RestSim, Owners
  <2>4. ASSUME c.run.fn \in Waiters PROVE s2.prom[c.run.q].st = Pending /\ c.run.q > Deferred
    <3>1. s.prom[c.run.q].st = Pending /\ c.run.q > Deferred /\ ~Lone(s, c, c.run.q)
      BY <2>4 DEF RestSim, Owners, Lone
    <3>2. c.run.q \in Ids
      BY <1>0, <2>4, RunFacts
    <3> QED BY <1>1, <3>1, <3>2
  <2> QED BY <2>1, <2>2, <2>3, <2>4 DEF Owners
<1>4. CombSim(e2.comb, s2, c)
  <2>1. \A q \in Ids : s2.prom[q].st = Pending => s.prom[q].st = Pending
    BY <1>1
  <2> QED BY <2>1 DEF RestSim, RestStep, CombSim
<1>5. CallSim(e2.call, Out(s2), c)
  <2>1. ASSUME c.run.fn \in Waiters PROVE Out(s2)[c.run.p] = Out(s)[c.run.p]
    <3>1. c.run.p \in Ids /\ s.prom[c.run.p].st # Pending
      BY <1>0, <2>1, RunFacts DEF RunOk
    <3> QED BY <1>1, <3>1 DEF Out
  <2> QED BY <2>1 DEF RestSim, RestStep, CallSim
<1> QED BY <1>2, <1>3, <1>4, <1>5 DEF RestSim, RestStep

\* One closure is owed for q, or q is a combinator's, or the program's own.
LEMMA LoneFacts ==
  ASSUME NEW s, NEW n, NEW c, NEW e, NEW m, Owes(s, n, c, e, m), NEW q \in Ids
  PROVE  /\ q \in 1..n /\ q > Deferred /\ e = <<"settle", q>> /\ m = 1 /\ s.prom[q].st = Pending /\ c.comb[q].kind = "none"
              => Lone(s, c, q) /\ \A d : InLists(s, d) => Key(d) # <<"settle", q>>
         /\ c.comb[q].kind # "none" => Lone(s, c, q)
         /\ Owners(s, c) /\ ~(q > Deferred) => Lone(s, c, q)
<1>1. Fine(s, n, c, 0) /\ RunOk(s, c) /\ Fresh(n, c) /\ Settlers(s, n, c, e, m)
  BY DEF Owes
<1>2. n \in Nat /\ \A d : InLists(s, d) => d \in Closures(n) /\ Fit(d, c)
  BY <1>1, FineFacts, WaitingFacts
<1>3. /\ \A r : Settles(c.run, r) <=> c.run.fn \in Waiters /\ c.run.q = r
      /\ c.run.fn \in Waiters => c.comb[c.run.q].kind = "none"
  BY <1>1, RunFacts
<1>4. ASSUME NEW d, InLists(s, d), Key(d) = <<"settle", q>> PROVE (d.fn = "comb" <=> c.comb[q].kind # "none") /\ d.q = q
  <2>1. d.fn \notin {"resume", "queued"} /\ Key(d) = <<"settle", d.q>>
    BY <1>2, <1>4, KeyFacts DEF NoKey
  <2>2. d.q = q
    BY <1>4, <2>1
  <2> QED BY <1>2, <1>4, <2>1, <2>2 DEF Fit
<1>5. ASSUME q \in 1..n, q > Deferred, e = <<"settle", q>>, m = 1, s.prom[q].st = Pending, c.comb[q].kind = "none"
      PROVE  Lone(s, c, q) /\ \A d : InLists(s, d) => Key(d) # <<"settle", q>>
  <2>1. PICK k : k = <<"settle", q>>
    OBVIOUS
  <2>2. k \in Keys /\ Due(s, k, k, 1) = Count(s, k) + 1 /\ Count(s, k) \in Nat
    BY <1>1, <2>1, DueFacts
  <2>3. q \in (Deferred + 1)..n
    <3>1. Deferred \in Nat
      BY PromiseAssumption
    <3> QED BY <1>2, <1>5, <3>1
  <2>4. Settler(s, c, q, Count(s, k) + 1)
    BY <1>1, <1>5, <2>1, <2>2, <2>3 DEF Settlers
  <2>5. Count(s, k) = 0 /\ ~Settles(c.run, q) /\ c.task[q].st \notin {"running", "parked"}
    BY <1>5, <2>2, <2>4 DEF Settler
  <2>6. \A d : InLists(s, d) => Key(d) # k
    BY <1>1, <2>2, <2>5, WaitingFacts
  <2> QED BY <1>3, <2>1, <2>5, <2>6 DEF Lone
<1>6. ASSUME c.comb[q].kind # "none" PROVE Lone(s, c, q)
  <2>1. c.task[q].st = "none"
    BY <1>1, <1>6 DEF Fresh
  <2> QED BY <1>3, <1>4, <1>6, <2>1 DEF Lone
<1>7. ASSUME Owners(s, c), ~(q > Deferred) PROVE Lone(s, c, q)
  <2>1. \A d : InLists(s, d) /\ Key(d) = <<"settle", q>> => d.fn = "comb"
    <3>1. TAKE d
    <3>2. HAVE InLists(s, d) /\ Key(d) = <<"settle", q>>
    <3>3. d.q = q /\ Key(d)[1] = "settle"
      BY <1>4, <3>2
    <3> QED BY <1>7, <3>2, <3>3 DEF Owners
  <2> QED BY <1>7, <2>1 DEF Lone, Owners
<1> QED BY <1>5, <1>6, <1>7

\* The relation's promises: settled alike, ready to be settled alike.
LEMMA SimFacts ==
  ASSUME NEW e, NEW s, NEW n, NEW c, NEW x, NEW y, Sim(e, s, n, c, x, y), Fine(s, n, c, 0)
  PROVE  /\ e \in JsType /\ e.jobs \in Seq(JobType) /\ e.unh \in Seq(Js!JsIds) /\ s \in RtType(n)
         /\ n \in Nat /\ 1..n \subseteq Ids /\ RestSim(e, s, n, c) /\ Owners(s, c) /\ e.ticks = s.tq
         /\ \A p \in Ids : /\ p \in Js!JsIds /\ PromSim(e.prom[p], s.prom[p]) /\ e.prom[p].st = s.prom[p].st
                           /\ s.prom[p].st = Pending => Settleable(s, p)
                           /\ s.prom[p].st \in {0, 1, 2} /\ s.prom[p].val \in Vals /\ s.prom[p].val \in Nat
<1>1. e \in JsType /\ RestSim(e, s, n, c)
  BY DEF Sim, SimBy
<1>2. s \in RtType(n) /\ n \in Nat /\ 1..n \subseteq Ids /\ MaxProms \in Nat
  BY FineFacts
<1>3. ASSUME NEW p \in Ids PROVE /\ p \in Js!JsIds /\ PromSim(e.prom[p], s.prom[p]) /\ e.prom[p].st = s.prom[p].st
                                 /\ s.prom[p].st = Pending => Settleable(s, p)
                                 /\ s.prom[p].st \in {0, 1, 2} /\ s.prom[p].val \in Vals /\ s.prom[p].val \in Nat
  <2>1. p \in Js!JsIds /\ PromSim(e.prom[p], s.prom[p])
    BY <1>1, InnerFacts DEF RestSim
  <2>2. s.prom[p] \in PromType(n)
    BY <1>2 DEF RtType
  <2>3. s.prom[p].st \in {Pending} \cup Done /\ s.prom[p].val \in Vals /\ s.prom[p].queued \in BOOLEAN
    BY <2>2 DEF PromType
  <2>4. s.prom[p].val \in Nat
    BY <1>2, <2>3 DEF Vals
  <2> QED BY <2>1, <2>3, <2>4 DEF PromSim, Settleable, Pending, Done, Fulfilled, Rejected
<1> QED BY <1>1, <1>2, <1>3 DEF JsType, RestSim

\* No inner promise is touched and none of finally's jobs comes or goes.
LEMMA InnerGoes ==
  ASSUME NEW J, NEW J2, NEW I, NEW s, NEW s2, NEW x, NEW x2, NEW y, NEW D, InnerSim(J, I, s, x, y), Gains(s, s2, D),
         \A d : LateFor(J2, d) <=> LateFor(J, d), \A q \in Ids : s2.prom[q].st = Pending => s.prom[q].st = Pending,
         \A d \in Ids : d = x /\ d # x2 => s2.prom[d].st # Pending \/ Deferring(s2, d)
  PROVE  InnerSim(J2, I, s2, x2, y)
<1>1. \A d : Deferring(s, d) => Deferring(s2, d)
  BY DEF Deferring, Gains
<1>2. ASSUME NEW d \in Ids, d # x2, s2.prom[d].st = Pending, ~Deferring(s2, d) PROVE Blank(I[d]) /\ ~LateFor(J2, d)
  <2>1. d # x /\ s.prom[d].st = Pending /\ ~Deferring(s, d)
    BY <1>1, <1>2
  <2> QED BY <2>1 DEF InnerSim
<1>3. ASSUME NEW d \in Ids, d # y, I[d].st # 0, ~I[d].handled PROVE LateFor(J2, d)
  BY <1>3 DEF InnerSim
<1> QED BY <1>2, <1>3 DEF InnerSim

\* The jobs K that the closures N become when their promise p settles with o.
Fires(J, I, N, K, c, f, p, o, n) ==
    /\ K \in Seq(JobType) /\ N \in Seq(Closures(n)) /\ Len(K) = Len(N)
    /\ \A i \in 1..Len(K) : K[i].k # "thenable" \/ ~Late(K[i])
    /\ \A J2, g, o2 : /\ Shifted(J, f, J2, g, 0) /\ o2[p] = o
                      /\ \A i \in 1..Len(K) : J2[Len(J) + i] = K[i]
          => \A i \in 1..Len(N) : Fired(J2, I, N[i], o2, c, g, Len(J) + i)

\* A list's closures become jobs in both machines when their promise settles.
LEMMA ListFires ==
  ASSUME NEW e \in JsType, NEW s, NEW n, NEW c, NEW f, Fine(s, n, c, 0), QueuesSim(e, s, c, f), NEW p \in Ids,
         NEW st \in Nat, NEW v \in Nat
  PROVE  Fires(e.jobs, Inners(e), Lists(s)[p], Trig(e.prom[p].rx, st, v), c, f, p, <<st, v>>, n)
<1>0. PICK K, N : K = Trig(e.prom[p].rx, st, v) /\ N = Lists(s)[p]
  OBVIOUS
<1>1. PICK l : l = e.prom[p].rx
  OBVIOUS
<1>2. l \in Seq(JobType) /\ N \in Seq(Closures(n)) /\ \A i \in 1..Len(N) : N[i] \in Range(N) /\ N[i] \in Closures(n)
  BY <1>0, <1>1, PairTyped
<1>3. /\ Len(l) = Len(N)
      /\ \A i \in 1..Len(N) : /\ Pair(l[i], N[i])
                              /\ N[i].fn = "finally_step" => Hook(e.jobs, Inners(e), f, N[i].q, Len(e.jobs) + 1)
  BY <1>0, <1>1 DEF QueuesSim, ListSim
<1>4. K \in Seq(JobType) /\ Len(K) = Len(l) /\ \A i \in 1..Len(l) : K[i] = Triggered(l[i], st, v) /\ l[i] \in JobType
  BY <1>0, <1>1, <1>2, TrigFacts
<1>5. \A i \in 1..Len(N) : Pair(K[i], N[i]) /\ Gets(K[i], <<st, v>>) /\ K[i].k # "thenable"
  <2>1. TAKE i \in 1..Len(N)
  <2>2. i \in 1..Len(l) /\ l[i] \in JobType /\ Pair(l[i], N[i]) /\ K[i] = Triggered(l[i], st, v)
    BY <1>3, <1>4
  <2> QED BY <2>2, PairTriggered
<1>6. n \in Nat /\ Len(e.jobs) \in Nat /\ Len(N) \in Nat
  BY <1>2, FineFacts DEF JsType
<1>7. \A i \in 1..Len(N) : Src(N[i], c) = p /\ p # 0 /\ (N[i].fn = "finally_step" => N[i].q \in Ids)
  <2>1. TAKE i \in 1..Len(N)
  <2>2. Src(N[i], c) = p
    BY <1>0, <1>2 DEF Fine, Waits
  <2>3. N[i].fn = "finally_step" => N[i].q \in Ids
    <3>1. N[i].fn = "finally_step" => N[i].q \in 1..n
      BY <1>2, <1>6, ClosureFacts
    <3> QED BY <3>1, FineFacts
  <2>4. p # 0
    BY ListsFacts, FineFacts
  <2> QED BY <2>2, <2>3, <2>4
<1>8. ASSUME NEW J2, NEW g, NEW o2, Shifted(e.jobs, f, J2, g, 0), o2[p] = <<st, v>>,
             \A i \in 1..Len(K) : J2[Len(e.jobs) + i] = K[i], NEW i \in 1..Len(N)
      PROVE  Fired(J2, Inners(e), N[i], o2, c, g, Len(e.jobs) + i)
  <2>1. PICK b, d, I : b = Len(e.jobs) + i /\ d = N[i] /\ I = Inners(e)
    OBVIOUS
  <2>2. b \in Nat /\ b >= Len(e.jobs) + 1
    BY <1>6, <2>1
  <2>3. Pair(J2[b], d) /\ Gets(J2[b], o2[Src(d, c)]) /\ Src(d, c) # 0 /\ d \in Closures(n)
    <3>1. J2[b] = K[i]
      BY <1>3, <1>4, <1>8, <2>1
    <3>2. o2[Src(d, c)] = <<st, v>>
      BY <1>7, <1>8, <2>1
    <3> QED BY <1>2, <1>5, <1>7, <2>1, <3>1, <3>2
  <2>4. d.fn = "finally_step" => Hook(J2, I, g, d.q, b)
    BY <1>3, <1>8, <2>1, <2>2, HookGrows
  <2>5. Fired(J2, I, d, o2, c, g, b)
    BY <1>6, <2>3, <2>4, FiredByPair
  <2> QED BY <2>1, <2>5
<1>9. Fires(e.jobs, Inners(e), N, K, c, f, p, <<st, v>>, n)
  BY <1>2, <1>3, <1>4, <1>5, <1>8 DEF Fires
<1> QED BY <1>0, <1>9

-----------------------------------------------------------------------------
(* One step of both machines.                                              *)

\* A settled promise has the same words in both machines.
LEMMA SettledWords ==
  ASSUME NEW s2, NEW p, NEW st \in Done, NEW v, NEW h, NEW b \in BOOLEAN, b => st = Rejected,
         NEW P, P = Prom(st, v, <<>>, h, b), NEW E, E = JsProm(st, v, <<>>, h)
  PROVE  /\ P.st = st /\ P.val = v /\ P.rx = <<>> /\ P.handled = h
         /\ E.st = st /\ E.val = v /\ E.rx = <<>> /\ E.handled = h /\ PromSim(E, P)
<1>1. PICK z : z = <<>>
  OBVIOUS
<1>2. P.st = st /\ P.val = v /\ P.rx = z /\ P.handled = h /\ P.queued = b
  BY <1>1 DEF Prom
<1>3. E.st = st /\ E.val = v /\ E.rx = z /\ E.handled = h
  BY <1>1 DEF JsProm
<1> QED BY <1>1, <1>2, <1>3 DEF PromSim

\* Both settle promise p alike.
LEMMA BothSettle ==
  ASSUME NEW e, NEW e2, NEW s, NEW s2, NEW n, NEW c, NEW x, NEW y, NEW p \in 1..n, NEW st \in Done, NEW v \in Vals,
         Sim(e, s, n, c, x, y), Fine(s, n, c, 0), RunOk(s, c), Lone(s, c, p), s.prom[p].st = Pending, x \in {0, p},
         JsSettlesTo(e, e2, p, st, v), SettlesTo(s, s2, p, st, v)
  PROVE  Sim(e2, s2, n, c, 0, y)
<1>1. PICK f : SimBy(e, s, n, c, x, y, f)
  BY DEF Sim
<1>2. /\ e \in JsType /\ s \in RtType(n) /\ n \in Nat /\ 1..n \subseteq Ids /\ RestSim(e, s, n, c)
      /\ QueuesSim(e, s, c, f) /\ InnerSim(e.jobs, Inners(e), s, x, y)
  BY <1>1, SimFacts DEF SimBy
<1>3. p \in Ids /\ p \in Js!JsIds /\ e.prom[p].st = 0 /\ e.prom[p].handled = s.prom[p].handled /\ st \in Nat /\ v \in Nat
  <2>1. p \in Ids
    BY <1>2
  <2>2. p \in Js!JsIds /\ PromSim(e.prom[p], s.prom[p])
    BY <2>1, SimFacts
  <2>3. st \in Nat /\ v \in Nat
    BY FineFacts DEF Done, Fulfilled, Rejected, Vals
  <2> QED BY <2>1, <2>2, <2>3 DEF PromSim, Pending
<1>4. PICK o, h, u, K, N, g, z : /\ o = e.prom[p] /\ h = s.prom[p].handled /\ K = Trig(o.rx, st, v) /\ N = Lists(s)[p]
                                 /\ u = (IF st = 2 /\ ~h THEN Append(e.unh, p) ELSE e.unh)
                                 /\ z = 0 /\ g = More(f, Len(s.mt), Len(e.jobs), z, Len(N))
  OBVIOUS
<1>5. JsPuts(e, e2, p, JsProm(st, v, <<>>, h), K, u)
  BY <1>3, <1>4 DEF JsSettlesTo
<1>6. PICK b \in BOOLEAN : /\ b => st = Rejected
                           /\ Puts(s, s2, p, Prom(st, v, <<>>, h, b), Joined(s, p),
                                   IF st = Rejected /\ ~h THEN Append(s.unh, p) ELSE s.unh)
  BY <1>4 DEF SettlesTo
<1>7. SettleMoves(s, s2, p)
  BY <1>2, <1>3, SettleLists
<1>8. /\ e2.prom[p] = JsProm(st, v, <<>>, h) /\ e2.jobs = e.jobs \o K /\ e2.unh = u /\ e2 \in JsType
      /\ e2.ticks = e.ticks /\ e2.call = e.call /\ e2.comb = e.comb
      /\ \A q \in Js!JsIds : q # p => e2.prom[q] = e.prom[q]
  BY <1>5 DEF JsPuts, JsSame
<1>9. /\ s2.prom[p] = Prom(st, v, <<>>, h, b) /\ s2.tq = s.tq
      /\ s2.unh = (IF st = Rejected /\ ~h THEN Append(s.unh, p) ELSE s.unh)
  BY <1>6 DEF Puts
<1>10. /\ s2.prom[p].st = st /\ s2.prom[p].val = v /\ e2.prom[p].st = st /\ e2.prom[p].rx = <<>>
       /\ PromSim(e2.prom[p], s2.prom[p])
  BY <1>6, <1>8, <1>9, SettledWords
<1>11. /\ s2.mt = s.mt \o N /\ Lists(s2)[p] = <<>> /\ Gains(s, s2, {})
       /\ \A q \in Ids : q # p => Lists(s2)[q] = Lists(s)[q] /\ s2.prom[q] = s.prom[q]
  BY <1>4, <1>7 DEF SettleMoves
<1>12. Inners(e2) = Inners(e) /\ \A q \in Ids : q # p => e2.prom[q] = e.prom[q]
  <2>1. \A q \in Js!JsIds : q # p => e2.prom[q] = e.prom[q]
    BY <1>8
  <2> QED BY <1>3, <2>1, InnersFacts
<1>30. Fires(e.jobs, Inners(e), N, K, c, f, p, <<st, v>>, n)
  <2>1. Fires(e.jobs, Inners(e), Lists(s)[p], Trig(e.prom[p].rx, st, v), c, f, p, <<st, v>>, n)
    BY <1>2, <1>3, ListFires
  <2> QED BY <1>4, <2>1
<1>13. /\ K \in Seq(JobType) /\ N \in Seq(Closures(n)) /\ Len(K) = Len(N)
       /\ \A i \in 1..Len(K) : K[i].k # "thenable" \/ ~Late(K[i])
  BY <1>30 DEF Fires
<1>14. Typed(e.jobs, s.mt, n) /\ Typed(K, N, n)
  BY <1>2, <1>13, PairTyped DEF Typed
<1>15. Grown(e.jobs, e2.jobs, s.mt, s2.mt, f, g, K, N, z)
  BY <1>4, <1>8, <1>11, <1>13 DEF Grown
<1>16. Once(e.jobs) /\ Embeds(f, Len(s.mt), Len(e.jobs))
  BY <1>2 DEF QueuesSim, QueueSim
<1>17. Once(e2.jobs) /\ \A d : LateFor(e2.jobs, d) <=> LateFor(e.jobs, d)
  BY <1>8, <1>13, <1>14, <1>16, NoLate DEF Typed
<1>18. Aside(e, e2, s, s2, f, p)
  <2>1. \A q \in Ids : q # p => Out(s2)[q] = Out(s)[q] /\ Inners(e2)[q] = Inners(e)[q]
    BY <1>11, <1>12 DEF Out
  <2>2. \A d : InLists(s, d) => ~(d.fn \in Steps /\ d.q = p)
    <3>1. TAKE d
    <3>2. SUFFICES ASSUME InLists(s, d), d.fn \in Steps, d.q = p PROVE FALSE
      OBVIOUS
    <3>3. d \in Closures(n)
      BY <3>2, WaitingFacts
    <3>4. Key(d) = <<"settle", p>>
      BY <1>2, <3>2, <3>3, KeyFacts DEF Steps
    <3> QED BY <3>2, <3>4 DEF Lone, Steps
  <2> QED BY <1>3, <1>12, <2>1, <2>2 DEF Aside
<1>19. Out(s2)[p] = <<st, v>>
  BY <1>3, <1>10 DEF Out
<1>20. \A i \in 1..Len(N) : Fired(e2.jobs, Inners(e2), N[i], Out(s2), c, g, Len(e.jobs) + z + i)
  <2>1. Shifted(e.jobs, f, e2.jobs, g, 0) /\ \A i \in 1..Len(K) : e2.jobs[Len(e.jobs) + i] = K[i]
    <3>1. PICK J, J2, M, M2 : J = e.jobs /\ J2 = e2.jobs /\ M = s.mt /\ M2 = s2.mt
      OBVIOUS
    <3>2. Typed(J, M, n) /\ Typed(K, N, n) /\ Grown(J, J2, M, M2, f, g, K, N, z) /\ Embeds(f, Len(M), Len(J))
      BY <1>14, <1>15, <1>16, <3>1
    <3>3. Shifted(J, f, J2, g, 0) /\ \A i \in 1..Len(K) : J2[Len(J) + i] = K[i]
      BY <3>2, GrownFacts
    <3> QED BY <3>1, <3>3
  <2>2. \A i \in 1..Len(N) : Fired(e2.jobs, Inners(e), N[i], Out(s2), c, g, Len(e.jobs) + i)
    BY <1>19, <1>30, <2>1 DEF Fires
  <2>3. \A i \in 1..Len(N) : Len(e.jobs) + z + i = Len(e.jobs) + i
    BY <1>4, <1>14 DEF Typed
  <2> QED BY <1>12, <2>2, <2>3
<1>21. \A i \in 1..z : Extra(e2.jobs, Inners(e2), g, Len(e.jobs) + i)
  BY <1>4
<1>22. \A q \in Ids : ListStep(e, e2, s, s2, n, g, q)
  BY <1>10, <1>11, <1>12 DEF ListStep
<1>23. QueuesSim(e2, s2, c, g)
  BY <1>2, <1>8, <1>14, <1>15, <1>17, <1>18, <1>20, <1>21, <1>22, QueuesGrow
<1>24. InnerSim(e2.jobs, Inners(e2), s2, 0, y)
  <2>1. PICK D, x2 : D = {} /\ x2 = 0
    OBVIOUS
  <2>2. \A q \in Ids : s2.prom[q].st = Pending => s.prom[q].st = Pending
    BY <1>11, <1>10
  <2>3. \A d \in Ids : d = x /\ d # x2 => s2.prom[d].st # Pending \/ Deferring(s2, d)
    BY <1>10, <2>1 DEF Done, Pending, Fulfilled, Rejected
  <2>4. InnerSim(e2.jobs, Inners(e), s2, x2, y)
    BY <1>2, <1>11, <1>17, <2>1, <2>2, <2>3, InnerGoes
  <2> QED BY <1>12, <2>1, <2>4
<1>25. UnhSim(e2.unh, s2.unh, e2.prom)
  <2>1. UnhSim(e.unh, s.unh, e.prom) /\ e.unh \in Seq(Js!JsIds) /\ s.unh \in Seq(Ids)
    BY <1>2 DEF RestSim, JsType, RtType
  <2>2. e2.prom[p].st # 0 /\ \A q \in Js!JsIds : e.prom[q].st # 0 => e2.prom[q].st # 0
    BY <1>3, <1>8, <1>10 DEF Done, Fulfilled, Rejected
  <2>3. \A q \in Ids : e.prom[q].st = 2 => e2.prom[q].st = 2
    BY <1>3, <1>8, <1>10, InnerFacts
  <2>4. UnhSim(e.unh, s.unh, e2.prom) /\ (e2.prom[p].st = 2 => UnhSim(Append(e.unh, p), Append(s.unh, p), e2.prom))
    BY <1>3, <2>1, <2>2, <2>3, UnhGrows
  <2> QED BY <1>4, <1>8, <1>9, <1>10, <2>4 DEF Rejected
<1>26. RestSim(e2, s2, n, c)
  <2>1. PICK D : D = {}
    OBVIOUS
  <2>2. PromStep(e, e2, s, s2, n, c, p)
    BY <1>10, <1>11, <1>12 DEF PromStep
  <2>3. RestStep(e, e2, s, s2, n, c, p, D)
    BY <1>8, <1>9, <1>11, <1>25, <2>1, <2>2 DEF RestStep
  <2> QED BY <1>2, <2>3, RestGoes
<1> QED BY <1>8, <1>23, <1>24, <1>26 DEF Sim, SimBy

\* Both make jobs K for closures N, or keep a closure on a list.
PlainGrows(e, e2, s, s2, n, c, K, N, D) ==
    /\ e2 \in JsType /\ Inners(e2) = Inners(e) /\ Out(s2) = Out(s)
    /\ K \in Seq(JobType) /\ N \in Seq(Closures(n)) /\ Len(K) = Len(N)
    /\ e2.jobs = e.jobs \o K /\ s2.mt = s.mt \o N
    /\ \A i \in 1..Len(K) : FiredPlain(K[i], N[i], Out(s), c) /\ (K[i].k # "thenable" \/ ~Late(K[i]))
    /\ \A q \in Ids : \A g : ListStep(e, e2, s, s2, n, g, q)
    /\ Gains(s, s2, D) /\ RestSim(e2, s2, n, c)

\* Then they are alike as before.
LEMMA BothGrow ==
  ASSUME NEW e, NEW e2, NEW s, NEW s2, NEW n, NEW c, NEW x, NEW y, NEW K, NEW N, NEW D, Sim(e, s, n, c, x, y),
         Fine(s, n, c, 0), PlainGrows(e, e2, s, s2, n, c, K, N, D)
  PROVE  Sim(e2, s2, n, c, x, y)
<1>1. PICK f : SimBy(e, s, n, c, x, y, f)
  BY DEF Sim
<1>2. /\ e \in JsType /\ s \in RtType(n) /\ n \in Nat /\ 1..n \subseteq Ids /\ RestSim(e, s, n, c)
      /\ QueuesSim(e, s, c, f) /\ InnerSim(e.jobs, Inners(e), s, x, y)
  BY <1>1, SimFacts DEF SimBy
<1>3. PICK g, z, q0 : z = 0 /\ q0 = 0 /\ g = More(f, Len(s.mt), Len(e.jobs), z, Len(N))
  OBVIOUS
<1>4. Typed(e.jobs, s.mt, n) /\ Typed(K, N, n) /\ Len(N) \in Nat
  BY <1>2, PairTyped DEF Typed, PlainGrows
<1>5. Grown(e.jobs, e2.jobs, s.mt, s2.mt, f, g, K, N, z)
  BY <1>3, <1>4 DEF Grown, PlainGrows
<1>6. Once(e.jobs) /\ Embeds(f, Len(s.mt), Len(e.jobs))
  BY <1>2 DEF QueuesSim, QueueSim
<1>7. Once(e2.jobs) /\ \A d : LateFor(e2.jobs, d) <=> LateFor(e.jobs, d)
  BY <1>4, <1>6, NoLate DEF Typed, PlainGrows
<1>8. Aside(e, e2, s, s2, f, q0)
  BY <1>3 DEF Aside, PlainGrows
<1>9. \A i \in 1..Len(N) : Fired(e2.jobs, Inners(e2), N[i], Out(s2), c, g, Len(e.jobs) + z + i)
  <2>1. TAKE i \in 1..Len(N)
  <2>2. e2.jobs[Len(e.jobs) + i] = K[i]
    <3>1. PICK J, J2, M, M2 : J = e.jobs /\ J2 = e2.jobs /\ M = s.mt /\ M2 = s2.mt
      OBVIOUS
    <3>2. Typed(J, M, n) /\ Typed(K, N, n) /\ Grown(J, J2, M, M2, f, g, K, N, z) /\ Embeds(f, Len(M), Len(J))
      BY <1>4, <1>5, <1>6, <3>1
    <3>3. \A k \in 1..Len(K) : J2[Len(J) + k] = K[k]
      BY <3>2, GrownFacts
    <3> QED BY <3>1, <3>3 DEF PlainGrows
  <2>3. Len(e.jobs) + z + i = Len(e.jobs) + i
    BY <1>3, <1>4 DEF Typed
  <2>4. FiredPlain(K[i], N[i], Out(s2), c)
    BY DEF PlainGrows
  <2> QED BY <2>2, <2>3, <2>4 DEF Fired
<1>10. \A i \in 1..z : Extra(e2.jobs, Inners(e2), g, Len(e.jobs) + i)
  BY <1>3
<1>11. \A p \in Ids : ListStep(e, e2, s, s2, n, g, p)
  BY DEF PlainGrows
<1>12. QueuesSim(e2, s2, c, g)
  BY <1>2, <1>4, <1>5, <1>7, <1>8, <1>9, <1>10, <1>11, QueuesGrow DEF PlainGrows
<1>13. InnerSim(e2.jobs, Inners(e2), s2, x, y)
  <2>1. \A q \in Ids : s2.prom[q].st = s.prom[q].st
    <3>1. \A q \in Ids : Out(s2)[q] = Out(s)[q]
      BY DEF PlainGrows
    <3> QED BY <3>1 DEF Out
  <2>2. InnerSim(e2.jobs, Inners(e), s2, x, y)
    BY <1>2, <1>7, <2>1, InnerGoes DEF PlainGrows
  <2> QED BY <2>2 DEF PlainGrows
<1> QED BY <1>12, <1>13 DEF Sim, SimBy, PlainGrows

\* Both give promise p a reaction, which is none of finally's.
LEMMA BothAttach ==
  ASSUME NEW e, NEW e2, NEW s, NEW s2, NEW n, NEW c, NEW x, NEW y, NEW p \in Ids, NEW j \in JobType, NEW d \in Closures(n),
         Sim(e, s, n, c, x, y), Fine(s, n, c, 0), RunOk(s, c), Pair(j, d), d.fn \notin Steps, Src(d, c) = p, Allowed(s, d),
         JsAttachesTo(e, e2, p, j), AttachesTo(s, s2, p, d)
  PROVE  Sim(e2, s2, n, c, x, y)
<1>1. /\ e \in JsType /\ s \in RtType(n) /\ n \in Nat /\ 1..n \subseteq Ids /\ RestSim(e, s, n, c)
      /\ p \in Js!JsIds /\ PromSim(e.prom[p], s.prom[p]) /\ p # 0
      /\ s.prom[p].st \in Nat /\ s.prom[p].val \in Nat /\ e.prom[p].st \in Nat /\ e.prom[p].val \in Nat
  <2>1. p # 0
    BY ListsFacts, FineFacts
  <2>2. e.prom[p].st \in Nat /\ e.prom[p].val \in Nat
    BY SimFacts, JsWords
  <2> QED BY <2>1, <2>2, SimFacts
<1>2. PICK o, yes : o = e.prom[p] /\ yes = TRUE
  OBVIOUS
<1>3. PICK E, k, K, N : /\ JsPuts(e, e2, p, E, K, e.unh) /\ E = JsProm(o.st, o.val, k, yes)
                        /\ IF o.st = 0 THEN k = Append(o.rx, j) /\ K = <<>> /\ N = <<>>
                                       ELSE k = o.rx /\ K = <<Triggered(j, o.st, o.val)>> /\ N = <<d>>
  <2>1. CASE o.st = 0
    BY <1>2, <2>1 DEF JsAttachesTo
  <2>2. CASE o.st # 0
    BY <1>2, <2>2 DEF JsAttachesTo
  <2> QED BY <2>1, <2>2
<1>4. E.st = o.st /\ E.val = o.val /\ E.rx = k /\ E.handled = yes
  BY <1>3 DEF JsProm
<1>5. PICK X, m : /\ Puts(s, s2, p, X, m, s.unh)
                  /\ X.st = s.prom[p].st /\ X.val = s.prom[p].val /\ X.handled = yes /\ X.queued = s.prom[p].queued
  BY <1>2 DEF AttachesTo
<1>6. /\ e2.prom[p] = E /\ e2.jobs = e.jobs \o K /\ e2.unh = e.unh /\ e2 \in JsType /\ K \in Seq(JobType)
      /\ e2.ticks = e.ticks /\ e2.call = e.call /\ e2.comb = e.comb
      /\ \A q \in Js!JsIds : q # p => e2.prom[q] = e.prom[q]
  BY <1>3 DEF JsPuts, JsSame
<1>7. s2.prom[p] = X /\ s2.tq = s.tq /\ s2.unh = s.unh
  BY <1>5 DEF Puts
<1>8. AttachMoves(s, s2, p, d)
  BY <1>1, AttachLists
<1>9. /\ \A q \in Ids : q # p => Lists(s2)[q] = Lists(s)[q] /\ s2.prom[q] = s.prom[q]
      /\ Gains(s, s2, {d})
      /\ IF s.prom[p].st = Pending THEN s2.mt = s.mt /\ Lists(s2)[p] = Append(Lists(s)[p], d)
                                   ELSE s2.mt = s.mt \o <<d>> /\ Lists(s2)[p] = Lists(s)[p]
  BY <1>8 DEF AttachMoves
<1>10. Inners(e2) = Inners(e) /\ \A q \in Ids : q # p => e2.prom[q] = e.prom[q]
  <2>1. \A q \in Js!JsIds : q # p => e2.prom[q] = e.prom[q]
    BY <1>6
  <2> QED BY <1>1, <2>1, InnersFacts
<1>11. o.st = s.prom[p].st /\ (o.st # 0 => o.val = s.prom[p].val) /\ (o.st = 0 <=> s.prom[p].st = Pending)
  BY <1>1, <1>2 DEF PromSim, Pending
<1>12. PromSim(E, X)
  BY <1>1, <1>2, <1>4, <1>5, <1>11 DEF PromSim, Pending
<1>13. N \in Seq(Closures(n)) /\ Len(K) = Len(N) /\ s2.mt = s.mt \o N
  <2>1. s.mt \in Seq(Closures(n)) /\ e.jobs \in Seq(JobType)
    BY <1>1 DEF RtType, JsType
  <2>2. CASE o.st = 0
    BY <1>3, <1>9, <1>11, <2>1, <2>2, AppendOne
  <2>3. CASE o.st # 0
    <3>1. Len(K) = 1 /\ Len(N) = 1 /\ N \in Seq(Closures(n))
      <4>1. PICK t : t = Triggered(j, o.st, o.val)
        OBVIOUS
      <4>2. K = <<t>> /\ N = <<d>>
        BY <1>3, <2>3, <4>1
      <4>3. <<d>> \in Seq(Closures(n)) /\ Len(<<d>>) = 1 /\ Len(<<t>>) = 1
        OBVIOUS
      <4> QED BY <4>2, <4>3
    <3> QED BY <1>3, <1>9, <1>11, <2>3, <3>1
  <2> QED BY <2>2, <2>3
<1>14. \A i \in 1..Len(K) : FiredPlain(K[i], N[i], Out(s), c) /\ (K[i].k # "thenable" \/ ~Late(K[i]))
  <2>1. CASE o.st = 0
    BY <1>3, <2>1
  <2>2. CASE o.st # 0
    <3>1. PICK t : t = Triggered(j, o.st, o.val)
      OBVIOUS
    <3>2. Pair(t, d) /\ Gets(t, <<o.st, o.val>>) /\ t.k # "thenable"
      BY <1>1, <1>2, <3>1, PairTriggered
    <3>3. Out(s)[Src(d, c)] = <<o.st, o.val>>
      BY <1>11, <2>2 DEF Out
    <3>4. FiredPlain(t, d, Out(s), c)
      BY <1>1, <3>2, <3>3 DEF FiredPlain, Steps
    <3>5. Len(K) = 1 /\ K[1] = t /\ N[1] = d
      BY <1>3, <2>2, <3>1
    <3>6. \A i \in 1..Len(K) : i = 1
      BY <3>5
    <3> QED BY <3>2, <3>4, <3>5, <3>6
  <2> QED BY <2>1, <2>2
<1>15. \A q \in Ids : \A g : ListStep(e, e2, s, s2, n, g, q)
  <2>1. TAKE q \in Ids
  <2>2. TAKE g
  <2>3. CASE q # p
    BY <1>9, <1>10, <2>3 DEF ListStep
  <2>4. CASE q = p /\ o.st = 0
    BY <1>2, <1>3, <1>4, <1>6, <1>9, <1>11, <2>4 DEF ListStep, Steps
  <2>5. CASE q = p /\ o.st # 0
    BY <1>2, <1>3, <1>4, <1>6, <1>9, <1>11, <2>5 DEF ListStep
  <2> QED BY <2>3, <2>4, <2>5
<1>16. Out(s2) = Out(s)
  BY <1>5, <1>7, <1>9 DEF Out
<1>17. RestSim(e2, s2, n, c)
  <2>1. PICK D : D = {d}
    OBVIOUS
  <2>2. PromStep(e, e2, s, s2, n, c, p)
    BY <1>5, <1>6, <1>7, <1>9, <1>10, <1>12 DEF PromStep
  <2>3. UnhSim(e2.unh, s2.unh, e2.prom)
    <3>1. UnhSim(e.unh, s.unh, e.prom) /\ e.unh \in Seq(Js!JsIds) /\ s.unh \in Seq(Ids)
      BY <1>1 DEF RestSim, JsType, RtType
    <3>2. \A q \in Js!JsIds : e2.prom[q].st = e.prom[q].st
      BY <1>2, <1>4, <1>6
    <3>4. \A q \in Ids : e2.prom[q].st = e.prom[q].st
      BY <3>2, InnerFacts
    <3>3. UnhSim(e.unh, s.unh, e2.prom)
      BY <3>1, <3>2, <3>4, UnhGrows
    <3> QED BY <1>6, <1>7, <3>3
  <2>4. \A i \in D : Allowed(s2, i)
    <3>1. \A q \in Ids : s2.prom[q].st = s.prom[q].st
      BY <1>5, <1>7, <1>9
    <3>2. Key(d)[1] = "settle" => d.q \in Ids
      BY <1>1, KeyFacts DEF NoKey
    <3> QED BY <2>1, <3>1, <3>2 DEF Allowed
  <2>5. RestStep(e, e2, s, s2, n, c, p, D)
    BY <1>6, <1>7, <1>9, <2>1, <2>2, <2>3, <2>4 DEF RestStep
  <2> QED BY <1>1, <2>5, RestGoes
<1>18. PICK D : D = {d}
  OBVIOUS
<1>19. PlainGrows(e, e2, s, s2, n, c, K, N, D)
  BY <1>6, <1>9, <1>10, <1>13, <1>14, <1>15, <1>16, <1>17, <1>18 DEF PlainGrows
<1> QED BY <1>19, BothGrow

\* Both make a job that waits for nothing.
LEMMA BothEnqueue ==
  ASSUME NEW e, NEW e2, NEW s, NEW s2, NEW n, NEW c, NEW x, NEW y, NEW j \in JobType, NEW d \in Closures(n),
         Sim(e, s, n, c, x, y), Fine(s, n, c, 0), RunOk(s, c), FiredPlain(j, d, Out(s), c), ~Late(j), Allowed(s, d),
         JsMovesTo(e, e2, e.jobs \o <<j>>), e2.call = e.call, MovesTo(s, s2, Append(s.mt, d))
  PROVE  Sim(e2, s2, n, c, x, y)
<1>1. e \in JsType /\ s \in RtType(n) /\ n \in Nat /\ 1..n \subseteq Ids /\ RestSim(e, s, n, c)
  BY SimFacts
<1>2. /\ e2.prom = e.prom /\ e2.jobs = e.jobs \o <<j>> /\ e2.unh = e.unh /\ e2.ticks = e.ticks
      /\ e2.comb = e.comb /\ e2 \in JsType
  BY DEF JsMovesTo
<1>3. s2.prom = s.prom /\ s2.mt = Append(s.mt, d) /\ s2.unh = s.unh /\ s2.tq = s.tq
  BY DEF MovesTo
<1>4. PICK K, N, D, p : K = <<j>> /\ N = <<d>> /\ D = {d} /\ p = 0
  OBVIOUS
<1>5. /\ K \in Seq(JobType) /\ N \in Seq(Closures(n)) /\ Len(K) = 1 /\ Len(N) = 1 /\ K[1] = j /\ N[1] = d
      /\ s2.mt = s.mt \o N /\ Range(N) = D
  <2>1. s.mt \in Seq(Closures(n)) /\ e.jobs \in Seq(JobType)
    BY <1>1 DEF RtType, JsType
  <2>2. K \in Seq(JobType) /\ Len(K) = 1 /\ K[1] = j
    BY <1>4, <2>1, AppendOne
  <2>3. N \in Seq(Closures(n)) /\ Len(N) = 1 /\ N[1] = d /\ Append(s.mt, d) = s.mt \o N
    BY <1>4, <2>1, AppendOne
  <2>4. Range(N) = D
    BY <1>4, <2>1, RangeJoin
  <2> QED BY <1>3, <2>2, <2>3, <2>4
<1>6. (\A q \in Ids : Lists(s2)[q] = Lists(s)[q]) /\ Gains(s, s2, D)
  <2>1. \A q \in Ids : s2.prom[q].rx = s.prom[q].rx
    BY <1>3
  <2>4. QueueChanges(s, s2, n)
    BY <1>1, <2>1, QueueLists
  <2>2. /\ \A q \in Ids : Lists(s2)[q] = Lists(s)[q]
        /\ \A l \in Seq(Closures(n)) : s2.mt = s.mt \o l => Gains(s, s2, Range(l))
    BY <2>4 DEF QueueChanges
  <2>3. Gains(s, s2, Range(N))
    BY <1>5, <2>2
  <2> QED BY <1>5, <2>2, <2>3
<1>7. Inners(e2) = Inners(e) /\ Out(s2) = Out(s)
  BY <1>2, <1>3 DEF Inners, Out
<1>8. RestSim(e2, s2, n, c)
  <2>1. p \notin Ids
    BY <1>1, <1>4, ListsFacts
  <2>2. PromStep(e, e2, s, s2, n, c, p)
    BY <1>2, <1>3, <2>1 DEF PromStep
  <2>3. UnhSim(e2.unh, s2.unh, e2.prom)
    BY <1>1, <1>2, <1>3 DEF RestSim
  <2>4. \A i \in D : Allowed(s2, i)
    BY <1>3, <1>4 DEF Allowed
  <2>5. RestStep(e, e2, s, s2, n, c, p, D)
    BY <1>2, <1>3, <1>6, <2>2, <2>3, <2>4 DEF RestStep
  <2> QED BY <1>1, <2>5, RestGoes
<1>9. \A q \in Ids : \A g : ListStep(e, e2, s, s2, n, g, q)
  BY <1>2, <1>6 DEF ListStep
<1>10. \A i \in 1..Len(K) : FiredPlain(K[i], N[i], Out(s), c) /\ (K[i].k # "thenable" \/ ~Late(K[i]))
  <2>1. \A i \in 1..Len(K) : i = 1
    BY <1>5
  <2> QED BY <1>5, <2>1
<1>11. PlainGrows(e, e2, s, s2, n, c, K, N, D)
  BY <1>2, <1>4, <1>5, <1>6, <1>7, <1>8, <1>9, <1>10 DEF PlainGrows
<1> QED BY <1>11, BothGrow

=============================================================================

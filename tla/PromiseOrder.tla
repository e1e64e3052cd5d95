---------------------------- MODULE PromiseOrder ----------------------------
(***************************************************************************)
(* The order of a program's callbacks, proved of PromiseRun for every      *)
(* number of promises and operations: the compiled program calls the same  *)
(* code next as ECMAScript and Node do (SameOrder).                        *)
(*                                                                         *)
(* The runtime goes first to what the program sees next, so ECMAScript's   *)
(* machine corresponds to a state the runtime has left (Behind) until both *)
(* are at rest.                                                            *)
(***************************************************************************)
EXTENDS PromiseSteps

-----------------------------------------------------------------------------
(* The queues call the program's code.                                     *)

\* A microtask is queued.
LEMMA MicrotaskSim ==
  ASSUME NEW e, NEW s, NEW n, NEW stk, Beside(e, s, n, stk), NEW m \in Nat
  PROVE  Sim(Js!JsQueueMicrotask(e, m), QueueMicrotask(s, m), n, Ctx(QueueMicrotask(s, m)), 0, 0)
<1>0. Good(s, n, stk) /\ Sim(e, s, n, Ctx(s), 0, 0)
  BY DEF Beside
<1>1. PICK c : c = Ctx(s)
  OBVIOUS
<1>2. Fine(s, n, c, 0) /\ RunOk(s, c) /\ n \in Nat /\ Sim(e, s, n, c, 0, 0)
  BY <1>0, <1>1, GoodFacts
<1>3. PICK d \in Closures(n) : d = [fn |-> "queued", n |-> m]
  BY <1>2, MakeClosures
<1>4. d.fn = "queued" /\ d.n = m
  BY <1>3
<1>5. PICK j : j = Js!Reaction("queued", m, {}, Js!Plain)
  OBVIOUS
<1>6. j \in JobType /\ j.k = "queued" /\ j.d = m /\ j.st = 0 /\ j.val = 0
  <2>1. PICK k, no, keep : k = "queued" /\ no = {} /\ keep = Js!Plain
    OBVIOUS
  <2>2. k \in JobKinds /\ no \in SUBSET Done /\ keep \in Nat \X Nat
    BY <2>1 DEF JobKinds, Js!Plain
  <2>3. j = Js!Reaction(k, m, no, keep)
    BY <1>5, <2>1
  <2>4. j \in JobType /\ j.k = k /\ j.d = m /\ j.st = 0 /\ j.val = 0
    BY <2>2, <2>3, ReactionFacts
  <2> QED BY <2>1, <2>4
<1>7. FiredPlain(j, d, Out(s), c)
  BY <1>4, <1>6 DEF FiredPlain
<1>8. ~Late(j)
  BY <1>6 DEF Late
<1>9. Allowed(s, d)
  BY <1>4 DEF Allowed, Key
<1>10. PICK e2, r : e2 = [e EXCEPT !.jobs = Append(@, j)] /\ r = Enqueue(s, d)
  OBVIOUS
<1>11. Sim(e2, r, n, c, 0, 0) /\ Same(s, r)
  BY <1>2, <1>6, <1>7, <1>8, <1>9, <1>10, EnqueueBoth
<1>12. Ctx(r) = c
  BY <1>1, <1>11 DEF Same, Ctx
<1>13. Js!JsQueueMicrotask(e, m) = e2
  BY <1>5, <1>10 DEF Js!JsQueueMicrotask
<1>14. QueueMicrotask(s, m) = r
  BY <1>3, <1>10 DEF QueueMicrotask
<1> QED BY <1>11, <1>12, <1>13, <1>14

\* The job and the closure that call a callback, resume a body or are the
\* clock's.
LEMMA LoudPair ==
  ASSUME NEW s, NEW n, NEW stk, NEW e, NEW f, NEW c, NEW j, NEW d, NEW e1, NEW s1, Heads(s, n, stk, e, f, c, j, d, e1, s1),
         d.fn \in {"then", "finally", "resume", "queued"}
  PROVE  /\ FiredPlain(j, d, Out(s), c) /\ j.k \in {"then", "finally", "task", "queued"}
         /\ Sim(e1, s1, n, c, 0, 0)
         /\ d.fn \in Waiters => Pair(j, d) /\ Gets(j, Out(s)[d.p])
<1>1. /\ Fired(e.jobs, Inners(e), d, Out(s), c, f, 1) /\ j = e.jobs[1]
      /\ \A x, y : (d.fn \in Steps => x = d.q) /\ (Late(j) => y = j.d) => Sim(e1, s1, n, c, x, y)
  BY HeadPair
<1>2. d.fn \notin {"finally_step", "defer_step", "adopt_job", "comb", "adopt_settle"}
  OBVIOUS
<1>3. FiredPlain(j, d, Out(s), c)
  BY <1>1, <1>2 DEF Fired, FiredLate, FiredThunk
<1>4. j.k \in {"then", "finally", "task", "queued"}
  BY <1>2, <1>3 DEF FiredPlain, Pair
<1>5. Sim(e1, s1, n, c, 0, 0)
  <2>1. ~Late(j) /\ d.fn \notin Steps
    BY <1>2, <1>4 DEF Late, Steps
  <2>2. PICK x, y : x = 0 /\ y = 0
    OBVIOUS
  <2>3. Sim(e1, s1, n, c, x, y)
    BY <1>1, <2>1
  <2> QED BY <2>2, <2>3
<1>6. ASSUME d.fn \in Waiters PROVE Pair(j, d) /\ Gets(j, Out(s)[d.p])
  <2>1. Src(d, c) = d.p
    BY <1>6 DEF Src, Waiters
  <2>2. d.fn \notin {"resume", "queued"}
    BY <1>6 DEF Waiters
  <2> QED BY <1>2, <1>3, <2>1, <2>2 DEF FiredPlain
<1> QED BY <1>3, <1>4, <1>5, <1>6

JsEnters(e, e2, j) ==
    /\ e2 \in JsType /\ e2.prom = e.prom /\ e2.jobs = Tail(e.jobs) /\ e2.unh = e.unh /\ e2.ticks = e.ticks
    /\ e2.comb = e.comb /\ e2.call = j
\* ECMAScript's machine runs a job that calls code.
LEMMA JsEntersJob ==
  ASSUME NEW e \in JsType, e.jobs # <<>>, Js!Mode(e) # "ticks", NEW j, j = Head(e.jobs), NEW e2, e2 = Js!JsCall(e)
  PROVE  JsEnters(e, e2, j)
<1>1. e2 = [e EXCEPT !.jobs = Tail(@), !.mode = "jobs", !.call = Head(e.jobs)]
  BY DEF Js!JsCall
<1>2. e.jobs \in Seq(JobType)
  BY DEF JsType
<1>3. j \in JobType /\ Tail(e.jobs) \in Seq(JobType)
  BY <1>2, TailFacts
<1>4. e2.prom = e.prom /\ e2.jobs = Tail(e.jobs) /\ e2.unh = e.unh /\ e2.ticks = e.ticks /\ e2.comb = e.comb /\ e2.call = j
  BY <1>1 DEF JsType
<1>5. e2 \in JsType
  <2>1. PICK y, w : y = Tail(e.jobs) /\ w = "jobs" /\ y \in Seq(JobType)
    BY <1>3
  <2>2. PICK a : a = [e EXCEPT !.jobs = y]
    OBVIOUS
  <2>3. a \in JsType
    BY <2>1, <2>2 DEF JsType
  <2>4. PICK b : b = [a EXCEPT !.mode = w]
    OBVIOUS
  <2>5. b \in JsType
    BY <2>1, <2>3, <2>4 DEF JsType
  <2>6. [b EXCEPT !.call = j] \in JsType
    BY <1>3, <2>5 DEF JsType
  <2>7. e2 = [b EXCEPT !.call = j]
    BY <1>1, <2>1, <2>2, <2>4
  <2> QED BY <2>6, <2>7
<1> QED BY <1>4, <1>5 DEF JsEnters

\* The two machines enter the code of a job: z is the runtime after it, c2
\* what its closures are seen from.
LEMMA EnterSim ==
  ASSUME NEW s, NEW n, NEW stk, NEW e, NEW f, NEW c, NEW j, NEW d, NEW e1, NEW s1, Heads(s, n, stk, e, f, c, j, d, e1, s1),
         d.fn \in {"then", "finally", "resume", "queued"}, NEW e2, JsEnters(e, e2, j),
         NEW z, z.prom = s.prom, z.mt = s1.mt, z.unh = s.unh, z.tq = s.tq,
         NEW c2, c2.comb = c.comb, \A k \in Closures(n) : Src(k, c2) = Src(k, c),
         \A t \in Ids : c2.task[t].st \in {"running", "parked"} => c.task[t].st \in {"running", "parked"},
         c2.run.fn \in Waiters => c2.run = d /\ d.fn \in Waiters
  PROVE  Sim(e2, z, n, c2, 0, 0)
<1>1. /\ s1.prom = s.prom /\ e1.prom = e.prom /\ Out(s1) = Out(s) /\ j \in JobType
      /\ Fine(s1, n, c, 0) /\ n \in Nat /\ s1 \in RtType(n) /\ d \in Closures(n)
      /\ Key(d)[1] = "settle" /\ d.fn # "comb" => s.prom[d.q].st = Pending /\ d.q > Deferred
  BY HeadPair
<1>2. Sim(e1, s1, n, c, 0, 0) /\ (d.fn \in Waiters => Pair(j, d) /\ Gets(j, Out(s)[d.p]))
  BY LoudPair
<1>3. Good(s, n, stk) /\ SimBy(e, s, n, c, 0, 0, f) /\ e1 = JsPop(e) /\ s1 = Taken(s) /\ e.jobs # <<>>
  BY DEF Heads
<1>4. e \in JsType /\ s \in RtType(n)
  BY <1>3, GoodFacts DEF SimBy
<1>5. e1.jobs = Tail(e.jobs) /\ e1.unh = e.unh /\ e1.ticks = e.ticks /\ e1.comb = e.comb
  BY <1>3, <1>4, JsMoveForms DEF JsMovesTo
<1>6. s1.unh = s.unh /\ s1.tq = s.tq
  BY <1>3, <1>4 DEF Taken, RtType
<1>7. e2 \in JsType /\ e2.prom = e1.prom /\ e2.jobs = e1.jobs /\ e2.unh = e1.unh /\ e2.ticks = e1.ticks /\ e2.comb = e1.comb /\ e2.call = j
  BY <1>1, <1>5 DEF JsEnters
<1>8. Owners(s1, c) /\ CombSim(e1.comb, s1, c) /\ e1.ticks = s1.tq
  <2>1. RestSim(e1, s1, n, c)
    BY <1>1, <1>2, SimFacts
  <2> QED BY <2>1 DEF RestSim
<1>9. Owners(s1, c2)
  <2>1. c2.run.fn \in Waiters => s1.prom[c2.run.q].st = Pending /\ c2.run.q > Deferred
    <3>1. ASSUME c2.run.fn \in Waiters PROVE s1.prom[c2.run.q].st = Pending /\ c2.run.q > Deferred
      <4>1. c2.run = d /\ d.fn \in Waiters
        BY <3>1
      <4>2. Key(d) = <<"settle", d.q>>
        BY <4>1 DEF Key, Waiters
      <4>3. Key(d)[1] = "settle" /\ d.fn # "comb"
        BY <4>1, <4>2 DEF Waiters
      <4> QED BY <1>1, <4>1, <4>3
    <3> QED BY <3>1
  <2> QED BY <1>8, <2>1 DEF Owners
<1>10. CombSim(e2.comb, s1, c2)
  BY <1>7, <1>8 DEF CombSim
<1>11. CallSim(e2.call, Out(s1), c2)
  BY <1>1, <1>2, <1>7 DEF CallSim
<1>12. /\ z.prom = s1.prom /\ z.mt = s1.mt /\ z.unh = s1.unh /\ e2.ticks = z.tq
       /\ \A k : InLists(s1, k) => Src(k, c2) = Src(k, c)
  <2>1. \A k : InLists(s1, k) => k \in Closures(n)
    BY <1>1, WaitingFacts
  <2> QED BY <1>1, <1>6, <1>7, <1>8, <2>1
<1> QED BY <1>1, <1>2, <1>7, <1>9, <1>10, <1>11, <1>12, CtxSim

\* The drain calls a then or finally callback.
LEMMA EnterCallbackSim ==
  ASSUME NEW s, NEW n, NEW stk, NEW e, NEW f, NEW c, NEW j, NEW d, NEW e1, NEW s1, Heads(s, n, stk, e, f, c, j, d, e1, s1),
         d.fn \in Waiters, Js!Mode(e) # "ticks", s.ph # "ticks"
  PROVE  Sim(Js!JsCall(e), RtCall(s), n, Ctx(RtCall(s)), 0, 0)
<1>1. /\ Good(s, n, stk) /\ SimBy(e, s, n, c, 0, 0, f) /\ s1 = Taken(s) /\ e.jobs # <<>> /\ c = Ctx(s)
      /\ j = Head(e.jobs) /\ d = Head(s.mt)
  BY DEF Heads
<1>2. e \in JsType /\ s \in RtType(n)
  BY <1>1, GoodFacts DEF SimBy
<1>3. PICK e2, z : e2 = Js!JsCall(e) /\ z = RtCall(s)
  OBVIOUS
<1>4. JsEnters(e, e2, j)
  BY <1>1, <1>2, <1>3, JsEntersJob
<1>5. z = [s EXCEPT !.mt = Tail(@), !.run = d]
  BY <1>1, <1>3 DEF RtCall, Waiters
<1>6. /\ z.prom = s.prom /\ z.mt = s1.mt /\ z.unh = s.unh /\ z.tq = s.tq
      /\ z.task = s.task /\ z.comb = s.comb /\ z.run = d
  BY <1>1, <1>2, <1>5 DEF RtType, Taken
<1>7. PICK c2 : c2 = Ctx(z)
  OBVIOUS
<1>8. c2.task = c.task /\ c2.comb = c.comb /\ c2.run = d
  BY <1>1, <1>6, <1>7 DEF Ctx
<1>9. \A k \in Closures(n) : Src(k, c2) = Src(k, c)
  BY <1>8, SourceStays
<1>10. d.fn \in {"then", "finally", "resume", "queued"}
  BY DEF Waiters
<1>11. Sim(e2, z, n, c2, 0, 0)
  BY <1>4, <1>6, <1>8, <1>9, <1>10, EnterSim
<1> QED BY <1>3, <1>7, <1>11

\* The drain resumes a body.
LEMMA EnterBodySim ==
  ASSUME NEW s, NEW n, NEW stk, NEW e, NEW f, NEW c, NEW j, NEW d, NEW e1, NEW s1, Heads(s, n, stk, e, f, c, j, d, e1, s1),
         d.fn = "resume", Js!Mode(e) # "ticks", s.ph # "ticks"
  PROVE  Sim(Js!JsCall(e), RtCall(s), n, Ctx(RtCall(s)), 0, 0)
<1>1. /\ Good(s, n, stk) /\ SimBy(e, s, n, c, 0, 0, f) /\ s1 = Taken(s) /\ e.jobs # <<>> /\ c = Ctx(s)
      /\ j = Head(e.jobs) /\ d = Head(s.mt)
  BY DEF Heads
<1>2. e \in JsType /\ s \in RtType(n)
  BY <1>1, GoodFacts DEF SimBy
<1>3. PICK e2, z : e2 = Js!JsCall(e) /\ z = RtCall(s)
  OBVIOUS
<1>4. JsEnters(e, e2, j)
  BY <1>1, <1>2, <1>3, JsEntersJob
<1>5. /\ d \in Closures(n) /\ n \in Nat /\ 1..n \subseteq Ids /\ Owes(s1, n, c, Key(d), 1)
  BY HeadPair
<1>6. PICK t \in 1..n : t = d.t /\ Key(d) = <<"resume", t>> /\ t \in Ids
  BY <1>5, KeyFacts
<1>7. PICK a : a = [s EXCEPT !.mt = Tail(@), !.run = d]
  OBVIOUS
<1>8. z = TaskResume(a, t)
  BY <1>1, <1>3, <1>6, <1>7 DEF RtCall
<1>9. /\ a.prom = s.prom /\ a.mt = s1.mt /\ a.unh = s.unh /\ a.tq = s.tq
      /\ a.task = s.task /\ a.comb = s.comb /\ a.run = d
  BY <1>1, <1>2, <1>7 DEF RtType, Taken
<1>10. PICK x : x = [s.task[t] EXCEPT !.st = "running"]
  OBVIOUS
<1>11. x \in TaskType /\ x.st = "running" /\ x.on = s.task[t].on
  <2>1. s.task[t] \in TaskType
    BY <1>2, <1>6 DEF RtType
  <2> QED BY <1>10, <2>1 DEF TaskType
<1>12. /\ z.prom = s.prom /\ z.mt = s1.mt /\ z.unh = s.unh /\ z.tq = s.tq
       /\ z.task = [s.task EXCEPT ![t] = x] /\ z.comb = s.comb /\ z.run = d
  <2>1. z = [a EXCEPT !.task[t].st = "running", !.cur = t]
    BY <1>8 DEF TaskResume
  <2>2. z.prom = a.prom /\ z.mt = a.mt /\ z.unh = a.unh /\ z.tq = a.tq /\ z.comb = a.comb /\ z.run = a.run
    BY <1>2, <1>7, <2>1 DEF RtType
  <2>3. z.task = [a.task EXCEPT ![t].st = "running"]
    BY <1>2, <1>7, <2>1 DEF RtType
  <2> QED BY <1>9, <1>10, <2>2, <2>3
<1>13. PICK c2 : c2 = Ctx(z)
  OBVIOUS
<1>14. /\ c2.task[t] = x /\ (\A i \in Ids : i # t => c2.task[i] = c.task[i]) /\ c2.comb = c.comb /\ c2.run = d
       /\ c.task[t] = s.task[t]
  <2>1. c2.task = [s.task EXCEPT ![t] = x] /\ c.task = s.task /\ c2.comb = c.comb /\ c2.run = d
    BY <1>1, <1>12, <1>13 DEF Ctx
  <2>2. s.task \in [Ids -> TaskType]
    BY <1>2 DEF RtType
  <2> QED BY <1>6, <2>1, <2>2
<1>15. c.task[t].st = "parked"
  <2>1. PICK w : w = x /\ w.on = c.task[t].on
    BY <1>11, <1>14
  <2>2. Owes(s1, n, c, <<"resume", t>>, 1)
    BY <1>5, <1>6
  <2> QED BY <1>11, <2>1, <2>2, CtxResumed
<1>16. \A k \in Closures(n) : Src(k, c2) = Src(k, c)
  <2>1. ASSUME NEW k \in Closures(n) PROVE Src(k, c2) = Src(k, c)
    <3>1. k.fn = "resume" => k.t \in Ids
      BY <1>5, <2>1, KeyFacts
    <3>2. k.fn = "resume" => c2.task[k.t].on = c.task[k.t].on
      BY <1>11, <1>14, <3>1
    <3> QED BY <3>2, SourceStays
  <2> QED BY <2>1
<1>17. \A i \in Ids : c2.task[i].st \in {"running", "parked"} => c.task[i].st \in {"running", "parked"}
  BY <1>14, <1>15
<1>18. d.fn \in {"then", "finally", "resume", "queued"} /\ c2.run.fn \notin Waiters
  BY <1>14 DEF Waiters
<1>19. Sim(e2, z, n, c2, 0, 0)
  BY <1>4, <1>12, <1>14, <1>16, <1>17, <1>18, EnterSim
<1> QED BY <1>3, <1>13, <1>19

\* The clock's microtask runs.
LEMMA ClockSim ==
  ASSUME NEW s, NEW n, NEW stk, NEW e, NEW f, NEW c, NEW j, NEW d, NEW e1, NEW s1, Heads(s, n, stk, e, f, c, j, d, e1, s1),
         d.fn = "queued", Js!Mode(e) # "ticks", s.ph # "ticks", Good(s, n, <<>>), RtEvent(s).k = "queued"
  PROVE  Sim(Js!JsReturned(Js!JsCall(e)), RtReturned(RtCall(s)), n, Ctx(RtReturned(RtCall(s))), 0, 0)
<1>1. /\ Good(s, n, stk) /\ SimBy(e, s, n, c, 0, 0, f) /\ s1 = Taken(s) /\ e.jobs # <<>> /\ c = Ctx(s)
      /\ j = Head(e.jobs) /\ d = Head(s.mt)
  BY DEF Heads
<1>2. e \in JsType /\ s \in RtType(n)
  BY <1>1, GoodFacts DEF SimBy
<1>3. PICK e2, e3, y, z : e2 = Js!JsCall(e) /\ e3 = Js!JsReturned(e2) /\ y = RtCall(s) /\ z = RtReturned(y)
  OBVIOUS
<1>4. JsEnters(e, e2, j)
  BY <1>1, <1>2, <1>3, JsEntersJob
<1>5. y = [s EXCEPT !.mt = Tail(@), !.run = d]
  BY <1>1, <1>3 DEF RtCall
<1>6. z = [y EXCEPT !.run = NoClosure]
  BY <1>3 DEF RtReturned
<1>7. /\ z.prom = s.prom /\ z.mt = s1.mt /\ z.unh = s.unh /\ z.tq = s.tq
      /\ z.task = s.task /\ z.comb = s.comb /\ z.run = NoClosure
  BY <1>1, <1>2, <1>5, <1>6 DEF RtType, Taken
<1>8. PICK c2 : c2 = Ctx(z)
  OBVIOUS
<1>9. c2.task = c.task /\ c2.comb = c.comb /\ c2.run = NoClosure
  BY <1>1, <1>7, <1>8 DEF Ctx
<1>10. \A k \in Closures(n) : Src(k, c2) = Src(k, c)
  BY <1>9, SourceStays
<1>11. d.fn \in {"then", "finally", "resume", "queued"} /\ c2.run.fn \notin Waiters
  BY <1>9 DEF Waiters, NoClosure
<1>12. Sim(e2, z, n, c2, 0, 0)
  BY <1>4, <1>7, <1>9, <1>10, <1>11, EnterSim
<1>13. Fine(z, n, c2, 0)
  <2>1. PICK none : none = <<>>
    OBVIOUS
  <2>2. Good(z, n, none)
    BY <1>3, <2>1, ClockGood
  <2> QED BY <1>8, <2>2, GoodFacts
<1>14. e2 \in JsType /\ e2.call = j
  BY <1>4 DEF JsEnters
<1>15. e3 = [e2 EXCEPT !.call = NoCall]
  BY <1>3 DEF Js!JsReturned, NoCall
<1>16. e3 \in JsType /\ e3.prom = e2.prom /\ e3.jobs = e2.jobs /\ e3.unh = e2.unh /\ e3.ticks = e2.ticks /\ e3.comb = e2.comb
  BY <1>14, <1>15 DEF JsType
<1>17. Sim(e3, z, n, c2, 0, 0)
  BY <1>11, <1>12, <1>13, <1>16, SameSim
<1> QED BY <1>3, <1>8, <1>17

\* Node and the drain call a tick.
LEMMA EnterTickSim ==
  ASSUME NEW e, NEW s, NEW n, NEW stk, Beside(e, s, n, stk), s.ph = "ticks", Js!Mode(e) = "ticks", s.tq # <<>>
  PROVE  Sim(Js!JsCall(e), RtCall(s), n, Ctx(RtCall(s)), 0, 0)
<1>0. Good(s, n, stk) /\ Sim(e, s, n, Ctx(s), 0, 0)
  BY DEF Beside
<1>1. PICK c : c = Ctx(s)
  OBVIOUS
<1>2. Fine(s, n, c, 0) /\ Sim(e, s, n, c, 0, 0) /\ s \in RtType(n)
  BY <1>0, <1>1, GoodFacts
<1>3. e \in JsType /\ e.ticks = s.tq /\ Owners(s, c) /\ CombSim(e.comb, s, c) /\ CallSim(e.call, Out(s), c)
  BY <1>2, SimFacts DEF RestSim
<1>4. PICK e2, z : e2 = Js!JsCall(e) /\ z = RtCall(s)
  OBVIOUS
<1>5. e2 = [e EXCEPT !.ticks = Tail(@), !.mode = "ticks"] /\ z = [s EXCEPT !.tq = Tail(@)]
  BY <1>4 DEF Js!JsCall, RtCall
<1>6. z.prom = s.prom /\ z.mt = s.mt /\ z.unh = s.unh /\ z.tq = Tail(s.tq) /\ z.task = s.task /\ z.comb = s.comb /\ z.run = s.run
  BY <1>2, <1>5 DEF RtType
<1>7. /\ e2.prom = e.prom /\ e2.jobs = e.jobs /\ e2.unh = e.unh /\ e2.ticks = Tail(e.ticks) /\ e2.comb = e.comb /\ e2.call = e.call
      /\ e2 \in JsType
  <2>1. e.ticks \in Seq(Nat) /\ e.ticks # <<>>
    BY <1>3 DEF JsType
  <2>2. PICK y, w : y = Tail(e.ticks) /\ w = "ticks" /\ y \in Seq(Nat)
    BY <2>1, TailFacts
  <2>3. PICK a : a = [e EXCEPT !.ticks = y]
    OBVIOUS
  <2>4. a \in JsType
    BY <1>3, <2>2, <2>3 DEF JsType
  <2>5. [a EXCEPT !.mode = w] \in JsType
    BY <2>2, <2>4 DEF JsType
  <2>6. e2 = [a EXCEPT !.mode = w]
    BY <1>5, <2>2, <2>3
  <2> QED BY <1>3, <1>5, <2>5, <2>6 DEF JsType
<1>8. Ctx(z) = c
  BY <1>1, <1>6 DEF Ctx
<1>9. e2.ticks = z.tq
  BY <1>3, <1>6, <1>7
<1>10. CombSim(e2.comb, s, c) /\ CallSim(e2.call, Out(s), c)
  BY <1>3, <1>7
<1>11. \A d : InLists(s, d) => Src(d, c) = Src(d, c)
  OBVIOUS
<1>12. Sim(e2, z, n, c, 0, 0)
  BY <1>2, <1>3, <1>6, <1>7, <1>9, <1>10, <1>11, CtxSim
<1> QED BY <1>4, <1>8, <1>12

\* A callback of the event loop begins: the last checkpoint's rejections
\* are settled for good.
LEMMA MacrotaskSim ==
  ASSUME NEW e, NEW s, NEW n, NEW stk, Beside(e, s, n, stk),
         NEW h, NEW r, r = [s EXCEPT !.ph = h, !.unh = <<>>], h \in {"jobs", "ticks", "mt", "unh", "idle"}
  PROVE  Beside(Js!JsMacrotask(e), r, n, stk)
<1>0. Good(s, n, stk) /\ Sim(e, s, n, Ctx(s), 0, 0) /\ n >= Deferred
  BY DEF Beside
<1>1. PICK c : c = Ctx(s)
  OBVIOUS
<1>2. Fine(s, n, c, 0) /\ Sim(e, s, n, c, 0, 0) /\ s \in RtType(n)
  BY <1>0, <1>1, GoodFacts
<1>3. e \in JsType /\ RestSim(e, s, n, c)
  BY <1>2, SimFacts
<1>4. PICK e2 : e2 = Js!JsMacrotask(e)
  OBVIOUS
<1>5. /\ e2.prom = e.prom /\ e2.jobs = e.jobs /\ e2.unh = <<>> /\ e2.ticks = e.ticks /\ e2.comb = e.comb /\ e2.call = e.call
      /\ e2 \in JsType
  <2>1. e2 = [e EXCEPT !.mode = "ticks", !.unh = <<>>]
    BY <1>4 DEF Js!JsMacrotask
  <2>2. PICK y, w : y = <<>> /\ w = "ticks" /\ y \in Seq(Js!JsIds)
    BY EmptySeq
  <2>3. PICK a : a = [e EXCEPT !.mode = w]
    OBVIOUS
  <2>4. a \in JsType
    BY <1>3, <2>2, <2>3 DEF JsType
  <2>5. [a EXCEPT !.unh = y] \in JsType
    BY <2>2, <2>4 DEF JsType
  <2>6. e2 = [a EXCEPT !.unh = y]
    BY <2>1, <2>2, <2>3
  <2> QED BY <1>3, <2>1, <2>5, <2>6 DEF JsType
<1>10. /\ r.prom = s.prom /\ r.mt = s.mt /\ r.tq = s.tq /\ r.unh = <<>> /\ r.task = s.task /\ r.comb = s.comb
       /\ r.run = s.run /\ r.cur = s.cur /\ r.prev = s.prev /\ r \in RtType(n)
  <2>1. PICK y : y = <<>> /\ y \in Seq(Ids)
    BY EmptySeq
  <2>2. PICK a : a = [s EXCEPT !.ph = h]
    OBVIOUS
  <2>3. a \in RtType(n)
    BY <1>2, <2>2 DEF RtType
  <2>4. [a EXCEPT !.unh = y] \in RtType(n)
    BY <2>1, <2>3 DEF RtType
  <2>5. r = [a EXCEPT !.unh = y]
    BY <2>1, <2>2
  <2>6. r \in RtType(n)
    BY <2>4, <2>5
  <2> QED BY <1>2, <2>6 DEF RtType
<1>11. Good(r, n, stk) /\ Ctx(r) = c
  <2>1. Alike(s, r, n) /\ Same(s, r)
    BY <1>10 DEF Alike, Same
  <2>2. Good(r, n, stk)
    BY <1>0, <2>1, GoodAlike
  <2> QED BY <1>1, <1>10, <2>2 DEF Ctx
<1>6. UnhSim(e2.unh, r.unh, e2.prom)
  <2>1. PICK u : u = <<>>
    OBVIOUS
  <2>2. Len(u) = 0
    BY <2>1
  <2>3. 1..Len(u) = {}
    BY <2>2
  <2>4. PICK g : g = [i \in 1..Len(u) |-> i]
    OBVIOUS
  <2>5. Embeds(g, Len(u), Len(u))
    BY <2>3, <2>4 DEF Embeds
  <2>6. UnhSim(u, u, e2.prom)
    BY <2>3, <2>5 DEF UnhSim
  <2> QED BY <1>5, <1>10, <2>1, <2>6
<1>12. \A d : InLists(r, d) <=> InLists(s, d)
  <2>1. Lists(r) = Lists(s)
    BY <1>10 DEF Lists
  <2> QED BY <2>1 DEF InLists
<1>7. RestSim(e2, r, n, c)
  <2>1. \A d : (InLists(r, d) /\ Key(d)[1] = "settle" /\ d.fn # "comb") => (r.prom[d.q].st = Pending /\ d.q > Deferred)
    BY <1>3, <1>10, <1>12 DEF RestSim, Owners
  <2>2. Owners(r, c)
    BY <1>3, <1>10, <2>1 DEF RestSim, Owners
  <2>3. CombSim(e2.comb, r, c) /\ CallSim(e2.call, Out(r), c)
    BY <1>3, <1>5, <1>10 DEF RestSim, CombSim, CallSim, Out
  <2> QED BY <1>3, <1>5, <1>6, <1>10, <2>2, <2>3 DEF RestSim
<1>9. Sim(e2, r, n, c, 0, 0)
  <2>1. e2 \in JsType /\ e2.prom = e.prom /\ e2.jobs = e.jobs /\ r.prom = s.prom /\ r.mt = s.mt
    BY <1>5, <1>10
  <2>2. PICK c2, z : c2 = c /\ z = 0
    OBVIOUS
  <2>3. Sim(e, s, n, c, z, z) /\ Fine(s, n, c, 0)
    BY <1>2, <2>2
  <2>4. \A d : InLists(s, d) => Src(d, c2) = Src(d, c)
    BY <2>2
  <2>5. RestSim(e2, r, n, c2)
    BY <1>7, <2>2
  <2>6. Sim(e2, r, n, c2, z, z)
    BY <2>1, <2>3, <2>4, <2>5, SimContext, ZenonT(60)
  <2> QED BY <2>2, <2>6
<1> QED BY <1>0, <1>4, <1>9, <1>11 DEF Beside

\* At first the two machines have nothing to do.
LEMMA InitSim ==
  Sim(Js!InitJs, InitRt, Deferred, Ctx(InitRt), 0, 0)
<1>1. PICK e, s, c, n : e = Js!InitJs /\ s = InitRt /\ c = Ctx(s) /\ n = Deferred
  OBVIOUS
<1>2. PICK none : none = <<>> /\ Len(none) = 0 /\ 1..Len(none) = {}
  OBVIOUS
<1>3. PICK i0 : i0 = [st |-> 0, val |-> 0, rx |-> none, handled |-> FALSE]
  OBVIOUS
<1>4. /\ e.prom = [p \in Js!JsIds |-> i0] /\ e.jobs = none /\ e.ticks = none /\ e.unh = none /\ e.mode = "jobs"
      /\ e.call = NoCall /\ e.comb = [d \in Ids |-> [kind |-> "none", left |-> 0]]
  BY <1>1, <1>2, <1>3 DEF Js!InitJs, NoCall, Ids
<1>5. /\ s.prom = [p \in Ids |-> NewPromise] /\ s.mt = none /\ s.tq = none /\ s.unh = none /\ s.run = NoClosure
      /\ s.task = [t \in Ids |-> [st |-> "none", on |-> 0]] /\ s.comb = [q \in Ids |-> [kind |-> "none", left |-> 0]]
  BY <1>1, <1>2 DEF InitRt
<1>6. c.task = s.task /\ c.comb = s.comb /\ c.run = s.run
  BY <1>1 DEF Ctx
<1>7. Fine(s, n, c, 0) /\ s \in RtType(n)
  <2>1. Owes(s, n, c, NoKey, 0)
    BY <1>1, InitOwes
  <2> QED BY <2>1 DEF Owes, Fine
<1>8. e \in JsType
  <2>1. i0 \in JsPromType
    <3>1. none \in Seq(JobType)
      BY <1>2, EmptySeq
    <3> QED BY <1>3, <3>1 DEF JsPromType
  <2>2. none \in Seq(JobType) /\ none \in Seq(Nat) /\ none \in Seq(Js!JsIds)
    BY <1>2, EmptySeq
  <2>3. e.comb \in [Ids -> JsCombType]
    BY <1>4 DEF JsCombType
  <2>4. e.prom \in [Js!JsIds -> JsPromType]
    BY <1>4, <2>1
  <2>5. e = [prom |-> e.prom, jobs |-> e.jobs, ticks |-> e.ticks, unh |-> e.unh, mode |-> e.mode, call |-> e.call, comb |-> e.comb]
    BY <1>1 DEF Js!InitJs
  <2> QED BY <1>4, <2>2, <2>3, <2>4, <2>5 DEF JsType
<1>9. \A p \in Ids : /\ Lists(s)[p] = none /\ e.prom[p] = i0 /\ Inners(e)[p] = i0 /\ s.prom[p] = NewPromise
                     /\ c.task[p].st = "none" /\ c.comb[p].kind = "none" /\ e.comb[p].kind = "none" /\ e.comb[p].left = c.comb[p].left
  <2>1. TAKE p \in Ids
  <2>2. p \in Js!JsIds /\ Inner(p) \in Js!JsIds
    BY InnerFacts
  <2>3. s.prom[p].rx = none
    BY <1>2, <1>5 DEF NewPromise
  <2>4. Lists(s)[p] = none
    BY <1>2, <2>3, ListsAre, NoneReversed
  <2> QED BY <1>4, <1>5, <1>6, <2>2, <2>4 DEF Inners
<1>10. \A d : ~InLists(s, d)
  BY <1>2, <1>5, <1>9, ListsAre, NoneReversed
<1>11. PICK f : f = [i \in 1..Len(none) |-> i]
  OBVIOUS
<1>12. Embeds(f, Len(none), Len(none))
  BY <1>2, <1>11 DEF Embeds
<1>13. QueuesSim(e, s, c, f)
  <2>1. QueueSim(none, Inners(e), none, Out(s), c, f)
    BY <1>2, <1>12 DEF QueueSim, Once
  <2>2. \A p \in Ids : ListSim(none, none, e.jobs, Inners(e), f)
    BY <1>2 DEF ListSim
  <2>3. \A p \in Ids : e.prom[p].rx = none
    BY <1>3, <1>9
  <2> QED BY <1>4, <1>5, <1>9, <2>1, <2>2, <2>3 DEF QueuesSim
<1>14. InnerSim(e.jobs, Inners(e), s, 0, 0)
  <2>1. i0.st = 0 /\ Blank(i0)
    BY <1>2, <1>3 DEF Blank
  <2>2. \A d : ~LateFor(e.jobs, d)
    BY <1>2, <1>4 DEF LateFor
  <2> QED BY <1>9, <2>1, <2>2 DEF InnerSim
<1>15. RestSim(e, s, n, c)
  <2>1. \A p \in Ids : PromSim(e.prom[p], s.prom[p]) /\ s.prom[p].st = Pending
    <3>1. PICK P : P = NewPromise
      OBVIOUS
    <3>2. P.st = Pending /\ P.rx = <<>> /\ P.handled = FALSE /\ P.queued = FALSE
      BY <3>1 DEF NewPromise
    <3>3. i0.st = Pending /\ i0.handled = FALSE
      BY <1>3 DEF Pending
    <3>4. PromSim(i0, P)
      BY <3>2, <3>3 DEF PromSim
    <3> QED BY <1>9, <3>1, <3>2, <3>4
  <2>2. c.run.fn \notin Waiters
    BY <1>5, <1>6 DEF NoClosure, Waiters
  <2>3. Owners(s, c) /\ CallSim(e.call, Out(s), c)
    BY <1>9, <1>10, <2>2 DEF Owners, CallSim
  <2>4. CombSim(e.comb, s, c)
    BY <1>9 DEF CombSim
  <2>5. UnhSim(none, none, e.prom)
    BY <1>2, <1>12 DEF UnhSim
  <2> QED BY <1>4, <1>5, <2>1, <2>3, <2>4, <2>5 DEF RestSim
<1>16. Sim(e, s, n, c, 0, 0)
  BY <1>8, <1>13, <1>14, <1>15 DEF Sim, SimBy
<1> QED BY <1>1, <1>16

-----------------------------------------------------------------------------
(* The words the drain turns on.                                           *)

Shaped(s) == {"ph", "tq"} \subseteq DOMAIN s
Kept(s, r) == Shaped(r) /\ r.ph = s.ph /\ r.tq = s.tq

\* Settling and waiting leave the phase and the ticks.
LEMMA PartsKeep ==
  ASSUME NEW s, Shaped(s)
  PROVE  /\ Kept(s, s)
         /\ \A d : Kept(s, Enqueue(s, d))
         /\ \A p, st, v : Kept(s, Store(s, p, st, v))
         /\ \A p, v : Kept(s, StoreValue(s, p, v))
         /\ \A p : Kept(s, DrainReactions(s, p)) /\ Kept(s, NoteRejected(s, p))
         /\ \A p, st : Kept(s, Settle(s, p, st))
         /\ \A p, d : Kept(s, Attach(s, p, d))
         /\ \A t, x : Kept(s, StartTask(s, t, x))
         /\ \A q, y : Kept(s, StartComb(s, q, y))
         /\ Kept(s, SwapOut(s)) /\ Kept(s, RtReturned(s)) /\ Kept(s, Taken(s))
<1>0. Kept(s, s)
  BY DEF Kept
<1>1. \A d : Kept(s, Enqueue(s, d))
  BY DEF Kept, Shaped, Enqueue
<1>2. \A p, st, v : Kept(s, Store(s, p, st, v))
  BY DEF Kept, Shaped, Store
<1>3. \A p, v : Kept(s, StoreValue(s, p, v))
  BY DEF Kept, Shaped, StoreValue
<1>4. ASSUME NEW r, Shaped(r), NEW p PROVE Kept(r, NoteRejected(r, p))
  BY <1>4 DEF Kept, Shaped, NoteRejected
<1>5. ASSUME NEW r, Shaped(r), NEW p PROVE Kept(r, DrainReactions(r, p))
  <2>1. PICK n : n = (IF r.prom[p].st = Rejected THEN NoteRejected(r, p) ELSE r)
    OBVIOUS
  <2>2. Kept(r, n)
    BY <1>4, <1>5, <2>1 DEF Kept
  <2>3. DrainReactions(r, p) = [n EXCEPT !.prom[p].rx = <<>>, !.mt = @ \o Reverse(n.prom[p].rx)]
    BY <2>1 DEF DrainReactions
  <2>4. Kept(n, [n EXCEPT !.prom[p].rx = <<>>, !.mt = @ \o Reverse(n.prom[p].rx)])
    BY <2>2 DEF Kept, Shaped
  <2> QED BY <2>2, <2>3, <2>4 DEF Kept
<1>6. ASSUME NEW p, NEW st PROVE Kept(s, Settle(s, p, st))
  <2>1. CASE s.prom[p].st # Pending
    BY <1>0, <2>1 DEF Settle
  <2>2. CASE s.prom[p].st = Pending
    <3>1. PICK t : t = [s EXCEPT !.prom[p].st = st]
      OBVIOUS
    <3>2. Kept(s, t)
      BY <3>1 DEF Kept, Shaped
    <3>3. PICK u : u = (IF st = Rejected THEN NoteRejected(t, p) ELSE t)
      OBVIOUS
    <3>4. Kept(s, u)
      BY <1>4, <3>2, <3>3 DEF Kept
    <3>5. Settle(s, p, st) = DrainReactions(u, p)
      BY <2>2, <3>1, <3>3 DEF Settle
    <3>6. Kept(u, DrainReactions(u, p))
      BY <1>5, <3>4 DEF Kept
    <3> QED BY <3>4, <3>5, <3>6 DEF Kept
  <2> QED BY <2>1, <2>2
<1>7. ASSUME NEW p, NEW d PROVE Kept(s, Attach(s, p, d))
  <2>1. PICK m : m = MarkHandled(s, p)
    OBVIOUS
  <2>2. Kept(s, m)
    BY <2>1 DEF Kept, Shaped, MarkHandled
  <2>3. Kept(m, Enqueue(m, d)) /\ Kept(m, [m EXCEPT !.prom[p].rx = <<d>> \o @])
    BY <2>2 DEF Kept, Shaped, Enqueue
  <2>4. Attach(s, p, d) = Enqueue(m, d) \/ Attach(s, p, d) = [m EXCEPT !.prom[p].rx = <<d>> \o @]
    BY <2>1 DEF Attach
  <2> QED BY <2>2, <2>3, <2>4 DEF Kept
<1>8. \A t, x : Kept(s, StartTask(s, t, x))
  BY DEF Kept, Shaped, StartTask
<1>9. \A q, y : Kept(s, StartComb(s, q, y))
  BY DEF Kept, Shaped, StartComb
<1>10. Kept(s, SwapOut(s)) /\ Kept(s, RtReturned(s)) /\ Kept(s, Taken(s))
  BY DEF Kept, Shaped, SwapOut, RtReturned, Taken
<1> QED BY <1>0, <1>1, <1>2, <1>3, <1>4, <1>5, <1>6, <1>7, <1>8, <1>9, <1>10

\* So do the program's operations, but for a tick it queues.
LEMMA OpsKeep ==
  ASSUME NEW s, Shaped(s)
  PROVE  /\ \A p, q, on : Kept(s, Then(s, p, q, on))
         /\ \A p, q : Kept(s, Finally(s, p, q))
         /\ \A p, v : Kept(s, ResolveThunk(s, p, v)) /\ Kept(s, RejectWith(s, p, v))
         /\ \A q, h : Kept(s, Adopt(s, q, h))
         /\ \A q, st, hops : Kept(s, DeferSettle(s, q, st, hops))
         /\ \A m : Kept(s, QueueMicrotask(s, m))
         /\ \A t : Kept(s, SpawnTask(s, t))
         /\ \A m : Shaped(NextTick(s, m)) /\ NextTick(s, m).ph = s.ph
<1>1. \A p, q, on : Kept(s, Then(s, p, q, on))
  BY PartsKeep DEF Then
<1>2. \A p, q : Kept(s, Finally(s, p, q))
  BY PartsKeep DEF Finally
<1>3. ASSUME NEW p, NEW v PROVE Kept(s, ResolveThunk(s, p, v)) /\ Kept(s, RejectWith(s, p, v))
  <2>1. PICK r : r = StoreValue(s, p, v)
    OBVIOUS
  <2>2. Kept(s, r) /\ Kept(s, s)
    BY <2>1, PartsKeep
  <2>3. \A st : Kept(r, Settle(r, p, st))
    BY <2>2, PartsKeep DEF Kept
  <2>4. \A st : Kept(s, Settle(r, p, st))
    BY <2>2, <2>3 DEF Kept
  <2> QED BY <2>1, <2>2, <2>4 DEF ResolveThunk, RejectWith
<1>4. \A q, h : Kept(s, Adopt(s, q, h))
  BY PartsKeep DEF Adopt
<1>5. \A q, st, hops : Kept(s, DeferSettle(s, q, st, hops))
  BY PartsKeep DEF DeferSettle
<1>6. \A m : Kept(s, QueueMicrotask(s, m))
  BY PartsKeep DEF QueueMicrotask
<1>7. \A t : Kept(s, SpawnTask(s, t))
  BY DEF Kept, Shaped, SpawnTask
<1>8. \A m : Shaped(NextTick(s, m)) /\ NextTick(s, m).ph = s.ph
  BY DEF Shaped, NextTick
<1> QED BY <1>1, <1>2, <1>3, <1>4, <1>5, <1>6, <1>7, <1>8

\* The combinators too.
LEMMA CombsKeep ==
  ASSUME NEW s, Shaped(s)
  PROVE  /\ \A kind, q, members : Kept(s, Combinator(s, kind, q, members))
         /\ \A q : Kept(s, CountDown(s, q))
         /\ \A d : Kept(s, CombRunner(s, d))
<1>0. ASSUME NEW r, Shaped(r), NEW p, NEW q PROVE Kept(r, JoinTo(r, p, q))
  <2>1. PICK d : d = [fn |-> "comb", p |-> p, q |-> q]
    OBVIOUS
  <2>2. Kept(r, Attach(r, p, d))
    BY <1>0, PartsKeep
  <2> QED BY <2>1, <2>2 DEF JoinTo
<1>1. ASSUME NEW r, Shaped(r), NEW q PROVE Kept(r, CombFinish(r, q))
  <2>1. PICK z : z = StoreValue(r, q, q)
    OBVIOUS
  <2>2. Kept(r, z)
    BY <1>1, <2>1, PartsKeep
  <2>3. Kept(z, Settle(z, q, Fulfilled))
    BY <2>2, PartsKeep DEF Kept
  <2>4. Kept(r, RejectWith(r, q, q)) /\ Kept(r, Settle(z, q, Fulfilled))
    BY <1>1, <2>2, <2>3, OpsKeep DEF Kept
  <2> QED BY <2>1, <2>4 DEF CombFinish
<1>2. ASSUME NEW kind, NEW q, NEW members PROVE Kept(s, Combinator(s, kind, q, members))
  <2>1. PICK y, z : y = [kind |-> kind, left |-> Len(members)] /\ z = StartComb(s, q, y)
    OBVIOUS
  <2>2. Kept(s, z)
    BY <2>1, PartsKeep
  <2>3. PICK a, b : a = JoinTo(z, members[1], q) /\ b = JoinTo(a, members[2], q)
    OBVIOUS
  <2>4. Kept(z, a)
    BY <1>0, <2>2, <2>3 DEF Kept
  <2>5. Kept(a, b)
    BY <1>0, <2>3, <2>4 DEF Kept
  <2>6. Kept(z, CombFinish(z, q))
    BY <1>1, <2>2 DEF Kept
  <2>7. Kept(s, b) /\ Kept(s, CombFinish(z, q))
    BY <2>2, <2>4, <2>5, <2>6 DEF Kept
  <2>8. Combinator(s, kind, q, members) \in {b, CombFinish(z, q), z}
    BY <2>1, <2>3 DEF Combinator, StartComb, JoinTo
  <2> QED BY <2>2, <2>7, <2>8
<1>3. ASSUME NEW q PROVE Kept(s, CountDown(s, q))
  <2>1. PICK d : d = [s EXCEPT !.comb[q].left = @ - 1]
    OBVIOUS
  <2>2. Kept(s, d)
    BY <2>1 DEF Kept, Shaped
  <2>3. Kept(d, CombFinish(d, q))
    BY <1>1, <2>2 DEF Kept
  <2>4. Kept(s, CombFinish(d, q))
    BY <2>2, <2>3 DEF Kept
  <2> QED BY <2>1, <2>2, <2>4 DEF CountDown
<1>4. ASSUME NEW d PROVE Kept(s, CombRunner(s, d))
  <2>1. PICK q, v, z : q = d.q /\ v = s.prom[d.p].val /\ z = StoreValue(s, q, v)
    OBVIOUS
  <2>2. Kept(s, z)
    BY <2>1, PartsKeep
  <2>0. Shaped(z)
    BY <2>2 DEF Kept
  <2>3. Kept(z, Settle(z, q, Fulfilled))
    BY <2>0, PartsKeep
  <2>4. Kept(s, Settle(z, q, Fulfilled)) /\ Kept(s, CountDown(s, q)) /\ Kept(s, RejectWith(s, q, v)) /\ Kept(s, s)
    BY <1>3, <2>2, <2>3, OpsKeep, PartsKeep DEF Kept
  <2>5. CombRunner(s, d) \in {s, RejectWith(s, q, v), CountDown(s, q), Settle(z, q, Fulfilled)}
    BY <2>1 DEF CombRunner
  <2> QED BY <2>4, <2>5
<1> QED BY <1>2, <1>3, <1>4

\* A silent closure's run does too.
LEMMA SilentKeeps ==
  ASSUME NEW s, Shaped(s), NEW d, d.fn \in {"then", "defer_step", "finally_step", "adopt_job", "adopt_settle", "comb"}
  PROVE  Kept(s, RunSilent(s, d))
<1>1. Kept(s, PassThrough(s, d))
  <2>1. PICK r : r = Store(s, d.q, s.prom[d.p].st, s.prom[d.p].val)
    OBVIOUS
  <2>2. Kept(s, r)
    BY <2>1, PartsKeep
  <2>3. Kept(r, DrainReactions(r, d.q))
    BY <2>2, PartsKeep DEF Kept
  <2> QED BY <2>1, <2>2, <2>3 DEF Kept, PassThrough
<1>2. Kept(s, DeferStep(s, d))
  BY PartsKeep DEF DeferStep
<1>3. Kept(s, FinallyStep(s, d))
  <2>1. PICK r, t : r = StoreValue(s, d.q, s.prom[d.r].val) /\ t = StoreValue(s, d.q, d.val)
    OBVIOUS
  <2>2. Kept(s, r) /\ Kept(s, t)
    BY <2>1, PartsKeep
  <2>3. \A st, h : Kept(r, DeferSettle(r, d.q, st, h)) /\ Kept(t, DeferSettle(t, d.q, st, h))
    BY <2>2, OpsKeep DEF Kept
  <2>4. \A st, h : Kept(s, DeferSettle(r, d.q, st, h)) /\ Kept(s, DeferSettle(t, d.q, st, h))
    BY <2>2, <2>3 DEF Kept
  <2> QED BY <2>1, <2>4 DEF FinallyStep
<1>4. Kept(s, AdoptJob(s, d))
  BY PartsKeep DEF AdoptJob
<1>5. Kept(s, AdoptSettle(s, d))
  <2>1. PICK r : r = StoreValue(s, d.q, s.prom[d.h].val)
    OBVIOUS
  <2>2. Kept(s, r)
    BY <2>1, PartsKeep
  <2>4. Shaped(r)
    BY <2>2 DEF Kept
  <2>3. \A st : Kept(r, Settle(r, d.q, st))
    BY <2>4, PartsKeep
  <2> QED BY <2>1, <2>2, <2>3 DEF Kept, AdoptSettle
<1>6. Kept(s, CombRunner(s, d))
  BY CombsKeep
<1> QED BY <1>1, <1>2, <1>3, <1>4, <1>5, <1>6 DEF RunSilent

\* And the way running code ends.
LEMMA LeavesKeep ==
  ASSUME NEW s, Shaped(s)
  PROVE  /\ \A v : Kept(s, RtReturned(CallbackReturns(s, v))) /\ Kept(s, RtReturned(CallbackThrows(s, v)))
         /\ \A h : Kept(s, RtReturned(CallbackReturnsPromise(s, h)))
         /\ \A v : Kept(s, TaskFinish(s, v)) /\ Kept(s, TaskReject(s, v))
         /\ \A h : Kept(s, TaskAdopted(s, h)) /\ Kept(s, AwaitReady(s, h))
         /\ Kept(s, AwaitPlain(s))
<1>1. ASSUME NEW r, Kept(s, r) PROVE Kept(s, RtReturned(r)) /\ Kept(s, SwapOut(r))
  BY <1>1, PartsKeep DEF Kept
<1>2. ASSUME NEW v PROVE Kept(s, CallbackReturns(s, v)) /\ Kept(s, CallbackThrows(s, v))
  <2>1. PICK d, q : d = s.run /\ q = d.q
    OBVIOUS
  <2>2. PICK a, b : a = StoreValue(s, q, s.prom[d.p].val) /\ b = Store(s, q, Fulfilled, v)
    OBVIOUS
  <2>3. Kept(s, a) /\ Kept(s, b)
    BY <2>2, PartsKeep
  <2>8. Shaped(a) /\ Shaped(b)
    BY <2>3 DEF Kept
  <2>9. Kept(a, DeferSettle(a, q, s.prom[d.p].st, 2))
    BY <2>8, OpsKeep
  <2>4. Kept(a, DeferSettle(a, q, s.prom[d.p].st, 2)) /\ Kept(b, DrainReactions(b, q))
    BY <2>8, <2>9, PartsKeep
  <2>5. Kept(s, DeferSettle(a, q, s.prom[d.p].st, 2)) /\ Kept(s, DrainReactions(b, q))
    BY <2>3, <2>4 DEF Kept
  <2>6. CallbackReturns(s, v) \in {DeferSettle(a, q, s.prom[d.p].st, 2), DrainReactions(b, q)}
    BY <2>1, <2>2 DEF CallbackReturns
  <2>7. Kept(s, CallbackThrows(s, v))
    BY OpsKeep DEF CallbackThrows
  <2> QED BY <2>5, <2>6, <2>7
<1>3. ASSUME NEW h PROVE Kept(s, CallbackReturnsPromise(s, h))
  BY PartsKeep, OpsKeep DEF CallbackReturnsPromise
<1>4. ASSUME NEW v PROVE Kept(s, TaskFinish(s, v)) /\ Kept(s, TaskReject(s, v))
  <2>1. PICK t, z : t = s.cur /\ z = [s EXCEPT !.task[t].st = "done"]
    OBVIOUS
  <2>2. Kept(s, z)
    BY <2>1 DEF Kept, Shaped
  <2>3. PICK a, b : a = Store(z, t, Fulfilled, v) /\ b = Store(z, t, Rejected, v)
    OBVIOUS
  <2>10. Shaped(z)
    BY <2>2 DEF Kept
  <2>4. Kept(z, a) /\ Kept(z, b)
    BY <2>3, <2>10, PartsKeep
  <2>5. PICK u : u = NoteRejected(b, t)
    OBVIOUS
  <2>6. Kept(b, u)
    BY <2>4, <2>5, PartsKeep DEF Kept
  <2>7. Kept(a, DrainReactions(a, t)) /\ Kept(u, DrainReactions(u, t))
    BY <2>4, <2>6, PartsKeep DEF Kept
  <2>8. Kept(s, DrainReactions(a, t)) /\ Kept(s, DrainReactions(u, t))
    BY <2>2, <2>4, <2>6, <2>7 DEF Kept
  <2>9. TaskFinish(s, v) = SwapOut(DrainReactions(a, t)) /\ TaskReject(s, v) = SwapOut(DrainReactions(u, t))
    BY <2>1, <2>3, <2>5 DEF TaskFinish, TaskReject
  <2> QED BY <1>1, <2>8, <2>9
<1>5. ASSUME NEW h PROVE Kept(s, TaskAdopted(s, h)) /\ Kept(s, AwaitReady(s, h))
  <2>1. PICK t : t = s.cur
    OBVIOUS
  <2>2. PICK a, b : a = Adopt(s, t, h) /\ b = Attach(s, h, [fn |-> "resume", t |-> t])
    OBVIOUS
  <2>3. Kept(s, a) /\ Kept(s, b)
    BY <2>2, PartsKeep, OpsKeep
  <2>4. Kept(s, [a EXCEPT !.task[t].st = "done"]) /\ Kept(s, [b EXCEPT !.task[t] = [st |-> "parked", on |-> h]])
    BY <2>3 DEF Kept, Shaped
  <2>5. /\ TaskAdopted(s, h) = SwapOut([a EXCEPT !.task[t].st = "done"])
        /\ AwaitReady(s, h) = SwapOut([b EXCEPT !.task[t] = [st |-> "parked", on |-> h]])
    BY <2>1, <2>2 DEF TaskAdopted, AwaitReady
  <2> QED BY <1>1, <2>4, <2>5
<1>6. Kept(s, AwaitPlain(s))
  <2>1. PICK t, a : t = s.cur /\ a = Enqueue(s, [fn |-> "resume", t |-> t])
    OBVIOUS
  <2>2. Kept(s, a)
    BY <2>1, PartsKeep
  <2>3. Kept(s, [a EXCEPT !.task[t] = [st |-> "parked", on |-> 0]])
    BY <2>2 DEF Kept, Shaped
  <2> QED BY <1>1, <2>1, <2>3 DEF AwaitPlain
<1> QED BY <1>1, <1>2, <1>3, <1>4, <1>5, <1>6

\* The code the drain enters: it keeps the phase.
LEMMA CallKeeps ==
  ASSUME NEW s, Shaped(s)
  PROVE  Shaped(RtCall(s)) /\ RtCall(s).ph = s.ph
<1>1. PICK a, p : a = [s EXCEPT !.tq = Tail(@)] /\ p = [s EXCEPT !.mt = Tail(@), !.run = Head(s.mt)]
  OBVIOUS
<1>2. Shaped(a) /\ a.ph = s.ph /\ Shaped(p) /\ p.ph = s.ph
  BY <1>1 DEF Shaped
<1>3. \A t : Shaped(TaskResume(p, t)) /\ TaskResume(p, t).ph = s.ph
  BY <1>2 DEF Shaped, TaskResume
<1>4. RtCall(s) \in {a, p, TaskResume(p, Head(s.mt).t)}
  BY <1>1 DEF RtCall
<1> QED BY <1>2, <1>3, <1>4

JsShaped(e) == "mode" \in DOMAIN e
JsKept(e, e2) == JsShaped(e2) /\ e2.mode = e.mode

\* ECMAScript's operations leave the queue that is being run.
LEMMA JsPartsKeep ==
  ASSUME NEW e, JsShaped(e)
  PROVE  /\ \A p, st, v : JsKept(e, Js!JsSettle(e, p, st, v))
         /\ \A p, r : JsKept(e, Js!JsAttach(e, p, r))
         /\ \A d, h : JsKept(e, Js!JsResolveWith(e, d, h))
         /\ \A t : JsKept(e, Js!JsAwaitPlain(e, t))
         /\ \A m : JsKept(e, Js!JsTick(e, m)) /\ JsKept(e, Js!JsQueueMicrotask(e, m))
         /\ JsKept(e, Js!JsReturned(e)) /\ JsKept(e, e)
<1>1. \A p, st, v : JsKept(e, Js!JsSettle(e, p, st, v))
  BY DEF JsKept, JsShaped, Js!JsSettle
<1>2. ASSUME NEW p, NEW r PROVE JsKept(e, Js!JsAttach(e, p, r))
  <2>1. PICK h, pr : h = [e EXCEPT !.prom[p].handled = TRUE] /\ pr = e.prom[p]
    OBVIOUS
  <2>2. JsKept(e, h)
    BY <2>1 DEF JsKept, JsShaped
  <2>3. /\ JsKept(e, [h EXCEPT !.prom[p].rx = Append(@, r)])
        /\ JsKept(e, [h EXCEPT !.jobs = Append(@, [r EXCEPT !.st = pr.st, !.val = pr.val])])
    BY <2>2 DEF JsKept, JsShaped
  <2>4. Js!JsAttach(e, p, r) \in {[h EXCEPT !.prom[p].rx = Append(@, r)],
                                  [h EXCEPT !.jobs = Append(@, [r EXCEPT !.st = pr.st, !.val = pr.val])]}
    BY <2>1 DEF Js!JsAttach
  <2> QED BY <2>3, <2>4
<1>3. \A d, h : JsKept(e, Js!JsResolveWith(e, d, h))
  BY DEF JsKept, JsShaped, Js!JsResolveWith
<1>4. \A t : JsKept(e, Js!JsAwaitPlain(e, t))
  BY DEF JsKept, JsShaped, Js!JsAwaitPlain
<1>5. \A m : JsKept(e, Js!JsTick(e, m)) /\ JsKept(e, Js!JsQueueMicrotask(e, m))
  BY DEF JsKept, JsShaped, Js!JsTick, Js!JsQueueMicrotask
<1>6. JsKept(e, Js!JsReturned(e)) /\ JsKept(e, e)
  BY DEF JsKept, JsShaped, Js!JsReturned
<1> QED BY <1>1, <1>2, <1>3, <1>4, <1>5, <1>6

\* Those of the running code.
LEMMA JsOpsKeep ==
  ASSUME NEW e, JsShaped(e)
  PROVE  /\ \A p, q, on : JsKept(e, Js!JsThen(e, p, q, on))
         /\ \A p, q : JsKept(e, Js!JsFinally(e, p, q)) /\ JsKept(e, Js!JsAwait(e, q, p))
         /\ \A kind, q, members : JsKept(e, Js!JsCombinator(e, kind, q, members))
         /\ \A v : JsKept(e, Js!JsReturned(Js!JsCallReturns(e, v))) /\ JsKept(e, Js!JsReturned(Js!JsCallThrows(e, v)))
         /\ \A h : JsKept(e, Js!JsReturned(Js!JsCallReturnsPromise(e, h)))
<1>1. \A p, q, on : JsKept(e, Js!JsThen(e, p, q, on))
  BY JsPartsKeep DEF Js!JsThen
<1>2. \A p, q : JsKept(e, Js!JsFinally(e, p, q)) /\ JsKept(e, Js!JsAwait(e, q, p))
  BY JsPartsKeep DEF Js!JsFinally, Js!JsAwait
<1>3. ASSUME NEW kind, NEW q, NEW members PROVE JsKept(e, Js!JsCombinator(e, kind, q, members))
  <2>1. PICK z, r : /\ z = [e EXCEPT !.comb[q] = [kind |-> kind, left |-> Len(members)]]
                    /\ r = Js!Reaction("member", q, {}, Js!Plain)
    OBVIOUS
  <2>2. JsKept(e, z) /\ JsShaped(z)
    BY <2>1 DEF JsKept, JsShaped
  <2>3. PICK a, b : a = Js!JsAttach(z, members[1], r) /\ b = Js!JsAttach(a, members[2], r)
    OBVIOUS
  <2>4. JsKept(z, a) /\ JsShaped(a)
    BY <2>2, <2>3, JsPartsKeep DEF JsKept
  <2>5. JsKept(a, b)
    BY <2>3, <2>4, JsPartsKeep
  <2>6. \A st : JsKept(z, Js!JsSettle(z, q, st, q))
    BY <2>2, JsPartsKeep
  <2>7. JsKept(e, b) /\ \A st : JsKept(e, Js!JsSettle(z, q, st, q))
    BY <2>2, <2>4, <2>5, <2>6 DEF JsKept
  <2>8. Js!JsCombinator(e, kind, q, members) \in {b, z, Js!JsSettle(z, q, 1, q), Js!JsSettle(z, q, 2, q)}
    BY <2>1, <2>3 DEF Js!JsCombinator
  <2> QED BY <2>2, <2>7, <2>8
<1>4. ASSUME NEW r, JsKept(e, r) PROVE JsKept(e, Js!JsReturned(r))
  BY <1>4, JsPartsKeep DEF JsKept
<1>5. ASSUME NEW v PROVE JsKept(e, Js!JsCallReturns(e, v)) /\ JsKept(e, Js!JsCallThrows(e, v))
  <2>1. PICK j, w, z : j = e.call /\ w = [Js!GivesBack(j) EXCEPT !.st = 1] /\ z = [e EXCEPT !.jobs = Append(@, w)]
    OBVIOUS
  <2>2. JsKept(e, z) /\ JsShaped(z)
    BY <2>1 DEF JsKept, JsShaped
  <2>3. \A h : JsKept(z, Js!JsResolveWith(z, j.d, h))
    BY <2>2, JsPartsKeep
  <2>4. \A h : JsKept(e, Js!JsResolveWith(z, j.d, h))
    BY <2>2, <2>3 DEF JsKept
  <2>5. Js!JsCallReturns(e, v) \in {Js!JsResolveWith(z, j.d, Js!Inner(j.d)), Js!JsSettle(e, j.d, 1, v)}
    BY <2>1 DEF Js!JsCallReturns
  <2>6. JsKept(e, Js!JsCallReturns(e, v))
    BY <2>4, <2>5, JsPartsKeep
  <2>7. JsKept(e, Js!JsCallThrows(e, v))
    BY JsPartsKeep DEF Js!JsCallThrows
  <2> QED BY <2>6, <2>7
<1>6. ASSUME NEW h PROVE JsKept(e, Js!JsCallReturnsPromise(e, h))
  <2>1. PICK j, z : j = e.call /\ z = Js!JsAttach(e, h, Js!GivesBack(j))
    OBVIOUS
  <2>2. JsKept(e, z) /\ JsShaped(z)
    BY <2>1, JsPartsKeep DEF JsKept
  <2>3. \A i : JsKept(z, Js!JsResolveWith(z, j.d, i))
    BY <2>2, JsPartsKeep
  <2>4. \A i : JsKept(e, Js!JsResolveWith(z, j.d, i)) /\ JsKept(e, Js!JsResolveWith(e, j.d, i))
    BY <2>2, <2>3, JsPartsKeep DEF JsKept
  <2>5. Js!JsCallReturnsPromise(e, h) \in {Js!JsResolveWith(z, j.d, Js!Inner(j.d)), Js!JsResolveWith(e, j.d, h)}
    BY <2>1 DEF Js!JsCallReturnsPromise
  <2> QED BY <2>4, <2>5
<1> QED BY <1>1, <1>2, <1>3, <1>4, <1>5, <1>6

\* A job that calls no code turns to the jobs, and so does a call of one.
LEMMA JsTurns ==
  ASSUME NEW e, JsShaped(e)
  PROVE  /\ Js!JsSilentJob(Head(e.jobs)) => Js!JsSilent(e).mode = "jobs"
         /\ JsShaped(Js!JsCall(e))
         /\ Js!JsCall(e).mode = (IF Js!Mode(e) = "ticks" THEN "ticks" ELSE "jobs")
<1>1. PICK j, z : j = Head(e.jobs) /\ z = [e EXCEPT !.jobs = Tail(@), !.mode = "jobs"]
  OBVIOUS
<1>2. JsShaped(z) /\ z.mode = "jobs"
  BY <1>1 DEF JsShaped
<1>3. ASSUME Js!JsSilentJob(j) PROVE Js!JsRun(z, j).mode = "jobs"
  <2>1. j.k \in {"then", "thenable", "adopt", "thunk", "member"}
    BY <1>3 DEF Js!JsSilentJob
  <2>2. /\ \A p, st, v : JsKept(z, Js!JsSettle(z, p, st, v))
        /\ \A p, r : JsKept(z, Js!JsAttach(z, p, r))
    BY <1>2, JsPartsKeep
  <2>3. JsKept(z, Js!JsMember(z, j))
    <3>1. PICK y : y = [z EXCEPT !.comb[j.d].left = @ - 1]
      OBVIOUS
    <3>2. JsKept(z, y) /\ JsShaped(y)
      BY <1>2, <3>1 DEF JsKept, JsShaped
    <3>3. \A p, st, v : JsKept(y, Js!JsSettle(y, p, st, v))
      BY <3>2, JsPartsKeep
    <3>4. \A p, st, v : JsKept(z, Js!JsSettle(y, p, st, v))
      BY <3>2, <3>3 DEF JsKept
    <3>5. \/ Js!JsMember(z, j) = Js!JsSettle(z, j.d, j.st, j.val)
          \/ Js!JsMember(z, j) = y
          \/ \E st : Js!JsMember(z, j) = Js!JsSettle(y, j.d, st, j.d)
      BY <3>1 DEF Js!JsMember
    <3> QED BY <2>2, <3>2, <3>4, <3>5
  <2>4. \/ \E p, st, v : Js!JsRun(z, j) = Js!JsSettle(z, p, st, v)
        \/ \E p, r : Js!JsRun(z, j) = Js!JsAttach(z, p, r)
        \/ Js!JsRun(z, j) = Js!JsMember(z, j)
    <3>1. CASE j.k \in {"then", "adopt"}
      BY <3>1 DEF Js!JsRun
    <3>2. CASE j.k = "thenable"
      BY <3>2 DEF Js!JsRun
    <3>3. CASE j.k = "thunk" /\ j.st = 1
      BY <3>3 DEF Js!JsRun
    <3>4. CASE j.k = "thunk" /\ j.st # 1
      BY <3>4 DEF Js!JsRun
    <3>5. CASE j.k = "member"
      BY <3>5 DEF Js!JsRun
    <3> QED BY <2>1, <3>1, <3>2, <3>3, <3>4, <3>5
  <2>5. JsKept(z, Js!JsRun(z, j))
    BY <2>2, <2>3, <2>4
  <2> QED BY <1>2, <2>5 DEF JsKept
<1>4. Js!JsSilent(e) = Js!JsRun(z, j)
  BY <1>1 DEF Js!JsSilent
<1>5. JsShaped(Js!JsCall(e)) /\ Js!JsCall(e).mode = (IF Js!Mode(e) = "ticks" THEN "ticks" ELSE "jobs")
  BY DEF JsShaped, Js!JsCall
<1> QED BY <1>1, <1>3, <1>4, <1>5

-----------------------------------------------------------------------------
(* The same code is called next.                                           *)

\* What the program sees of a job that calls its code.
JobSeen(j) == IF j.k = "finally" THEN Event("finally", j.d, 0, 0) ELSE Event(j.k, j.d, j.st, j.val)

\* Code the runtime calls at the head of its queue, ECMAScript calls too.
LEMMA SameEvent ==
  ASSUME NEW s, NEW n, NEW stk, NEW e, NEW f, NEW c, NEW j, NEW d, NEW e1, NEW s1, Heads(s, n, stk, e, f, c, j, d, e1, s1),
         ~IsSilent(s, d)
  PROVE  ~Js!JsSilentJob(j) /\ JobEvent(s, d) = JobSeen(j) /\ d.fn \in {"then", "finally", "resume", "queued"}
<1>1. /\ Good(s, n, stk) /\ c = Ctx(s) /\ SimBy(e, s, n, c, 0, 0, f) /\ e.jobs # <<>> /\ ~Free(f, 1)
      /\ j = Head(e.jobs) /\ d = Head(s.mt) /\ e1 = JsPop(e) /\ s1 = Taken(s)
  BY DEF Heads
<1>2. s.mt # <<>> /\ d \in Closures(n) /\ Fine(s1, n, c, 0)
  BY HeadPair
<1>3. s \in RtType(n) /\ n \in Nat /\ 1..n \subseteq Ids /\ c.task = s.task
  BY <1>1, GoodFacts DEF Ctx
<1>4. d.fn \in {"then", "finally", "resume", "queued"}
  <2>1. d.fn \in {"then", "finally", "comb", "adopt_job", "adopt_settle", "defer_step", "finally_step", "resume", "queued"}
    BY <1>2 DEF Closures
  <2> QED BY <2>1 DEF IsSilent
<1>5. FiredPlain(j, d, Out(s), c)
  BY <1>4, LoudPair
<1>6. CASE d.fn = "then"
  <2>1. d.p \in 1..n /\ d.p \in Ids
    BY <1>2, <1>3, <1>6 DEF Closures
  <2>2. Src(d, c) = d.p
    BY <1>6 DEF Src
  <2>3. Pair(j, d) /\ Gets(j, Out(s)[d.p])
    BY <1>5, <1>6, <2>2 DEF FiredPlain
  <2>4. j.k = "then" /\ j.d = d.q /\ j.on = d.on
    BY <1>6, <2>3 DEF Pair
  <2>5. j.st = s.prom[d.p].st /\ j.val = s.prom[d.p].val
    BY <2>1, <2>3 DEF Gets, Out
  <2>6. s.prom[d.p].st \in d.on
    BY <1>6 DEF IsSilent
  <2>7. JobEvent(s, d) = Event("then", d.q, s.prom[d.p].st, s.prom[d.p].val)
    BY <1>6 DEF JobEvent
  <2>8. JobSeen(j) = Event("then", j.d, j.st, j.val)
    BY <2>4 DEF JobSeen
  <2>9. ~Js!JsSilentJob(j)
    BY <2>4, <2>5, <2>6 DEF Js!JsSilentJob
  <2> QED BY <1>4, <2>4, <2>5, <2>7, <2>8, <2>9
<1>7. CASE d.fn = "finally"
  <2>1. Pair(j, d)
    BY <1>5, <1>7 DEF FiredPlain
  <2>2. j.k = "finally" /\ j.d = d.q
    BY <1>7, <2>1 DEF Pair
  <2>3. JobEvent(s, d) = Event("finally", d.q, 0, 0)
    BY <1>7 DEF JobEvent
  <2> QED BY <1>4, <2>2, <2>3 DEF JobSeen, Js!JsSilentJob
<1>8. CASE d.fn = "resume"
  <2>1. d.t \in 1..n /\ d.t \in Ids
    BY <1>2, <1>3, <1>8 DEF Closures
  <2>2. PICK p : p = s.task[d.t].on
    OBVIOUS
  <2>3. p \in Vals
    BY <1>3, <2>1, <2>2 DEF RtType, TaskType
  <2>4. Src(d, c) = p
    BY <1>3, <1>8, <2>2 DEF Src
  <2>5. CASE p # 0
    <3>1. p \in Ids
      BY <2>3, <2>5, PromiseAssumption DEF Vals, Ids
    <3>2. Pair(j, d) /\ Gets(j, Out(s)[p])
      BY <1>5, <1>8, <2>4, <2>5 DEF FiredPlain
    <3>3. j.k = "task" /\ j.d = d.t
      BY <1>8, <3>2 DEF Pair
    <3>4. j.st = s.prom[p].st /\ j.val = s.prom[p].val
      BY <3>1, <3>2 DEF Gets, Out
    <3>5. JobEvent(s, d) = Event("task", d.t, s.prom[p].st, s.prom[p].val)
      BY <1>8, <2>2, <2>5 DEF JobEvent
    <3> QED BY <1>4, <3>3, <3>4, <3>5 DEF JobSeen, Js!JsSilentJob
  <2>6. CASE p = 0
    <3>1. Pair(j, d) /\ j.st = 1 /\ j.val = 0
      BY <1>5, <1>8, <2>4, <2>6 DEF FiredPlain
    <3>2. j.k = "task" /\ j.d = d.t
      BY <1>8, <3>1 DEF Pair
    <3>3. JobEvent(s, d) = Event("task", d.t, 1, 0)
      BY <1>8, <2>2, <2>6 DEF JobEvent, Fulfilled
    <3> QED BY <1>4, <3>1, <3>2, <3>3 DEF JobSeen, Js!JsSilentJob
  <2> QED BY <2>5, <2>6
<1>9. CASE d.fn = "queued"
  <2>1. Src(d, c) = 0
    BY <1>9 DEF Src
  <2>2. j.k = "queued" /\ j.d = d.n /\ j.st = 0 /\ j.val = 0
    BY <1>5, <1>9, <2>1 DEF FiredPlain
  <2>3. JobEvent(s, d) = Event("queued", d.n, 0, 0)
    BY <1>9 DEF JobEvent
  <2> QED BY <1>4, <2>2, <2>3 DEF JobSeen, Js!JsSilentJob
<1> QED BY <1>4, <1>6, <1>7, <1>8, <1>9

\* What ECMAScript's machine is at.
LEMMA JsSees ==
  ASSUME NEW e \in JsType
  PROVE  /\ Js!Mode(e) \in {"jobs", "ticks", "rejections"}
         /\ Js!Mode(e) = "jobs" <=> e.jobs # <<>> /\ (e.mode = "jobs" \/ e.ticks = <<>>)
         /\ Js!Mode(e) = "ticks" <=> e.ticks # <<>> /\ (e.mode = "ticks" \/ e.jobs = <<>>)
         /\ Js!Mode(e) = "jobs" /\ ~Js!JsSilentJob(Head(e.jobs)) => Js!JsEvent(e) = JobSeen(Head(e.jobs))
         /\ Js!Mode(e) = "ticks" => Js!JsEvent(e) = Event("tick", Head(e.ticks), 0, 0)
         /\ Js!JsEvent(e).k = "none" <=> Js!Mode(e) = "jobs" /\ Js!JsSilentJob(Head(e.jobs))
<1>1. e.mode \in {"jobs", "ticks"} /\ e.jobs \in Seq(JobType)
  BY DEF JsType
<1>2. PICK queue : queue = [jobs |-> e.jobs, ticks |-> e.ticks]
  OBVIOUS
<1>3. queue["jobs"] = e.jobs /\ queue["ticks"] = e.ticks
  BY <1>2
<1>4. Js!Mode(e) = (IF e.mode = "jobs"
                    THEN IF e.jobs # <<>> THEN "jobs" ELSE IF e.ticks # <<>> THEN "ticks" ELSE "rejections"
                    ELSE IF e.ticks # <<>> THEN "ticks" ELSE IF e.jobs # <<>> THEN "jobs" ELSE "rejections")
  <2>1. CASE e.mode = "jobs"
    BY <1>2, <1>3, <2>1 DEF Js!Mode
  <2>2. CASE e.mode = "ticks"
    BY <1>2, <1>3, <2>2 DEF Js!Mode
  <2> QED BY <1>1, <2>1, <2>2
<1>5. ASSUME Js!Mode(e) = "jobs" PROVE Head(e.jobs) \in JobType /\ Head(e.jobs).k # "none"
  <2>1. e.jobs # <<>>
    BY <1>1, <1>4, <1>5
  <2>2. Head(e.jobs) \in JobType
    BY <1>1, <2>1
  <2> QED BY <2>2 DEF JobType, JobKinds
<1>6. ASSUME Js!Mode(e) = "jobs", ~Js!JsSilentJob(Head(e.jobs))
      PROVE  Js!JsEvent(e) = JobSeen(Head(e.jobs)) /\ Js!JsEvent(e).k # "none"
  <2>1. PICK j : j = Head(e.jobs)
    OBVIOUS
  <2>2. Js!JsEvent(e) = JobSeen(j)
    <3>1. CASE j.k = "finally"
      BY <1>6, <2>1, <3>1 DEF Js!JsEvent, JobSeen, Event
    <3>2. CASE j.k # "finally"
      BY <1>6, <2>1, <3>2 DEF Js!JsEvent, JobSeen, Event
    <3> QED BY <3>1, <3>2
  <2>3. JobSeen(j).k # "none"
    BY <1>5, <1>6, <2>1 DEF JobSeen, Event
  <2> QED BY <2>1, <2>2, <2>3
<1>7. ASSUME Js!Mode(e) = "jobs", Js!JsSilentJob(Head(e.jobs)) PROVE Js!JsEvent(e).k = "none"
  BY <1>7 DEF Js!JsEvent
<1>8. ASSUME Js!Mode(e) = "ticks"
      PROVE  Js!JsEvent(e) = Event("tick", Head(e.ticks), 0, 0) /\ Js!JsEvent(e).k # "none"
  BY <1>8 DEF Js!JsEvent, Event
<1>9. ASSUME Js!Mode(e) = "rejections" PROVE Js!JsEvent(e).k # "none"
  <2>1. PICK U : U = Js!Unreported(e)
    OBVIOUS
  <2>2. CASE U = {}
    BY <1>9, <2>1, <2>2 DEF Js!JsEvent
  <2>3. CASE U # {}
    BY <1>9, <2>1, <2>3 DEF Js!JsEvent
  <2> QED BY <2>2, <2>3
<1>10. Js!Mode(e) \in {"jobs", "ticks", "rejections"}
  BY <1>1, <1>4
<1>11. Js!Mode(e) = "jobs" <=> e.jobs # <<>> /\ (e.mode = "jobs" \/ e.ticks = <<>>)
  BY <1>1, <1>4
<1>12. Js!Mode(e) = "ticks" <=> e.ticks # <<>> /\ (e.mode = "ticks" \/ e.jobs = <<>>)
  BY <1>1, <1>4
<1> QED BY <1>6, <1>7, <1>8, <1>9, <1>10, <1>11, <1>12

-----------------------------------------------------------------------------
(* The runtime goes first: ECMAScript's machine stands where the runtime   *)
(* was, and runs after it the closures the runtime has run since.          *)

Phases == {"jobs", "ticks", "mt", "unh", "idle"}
JobStep(a, b) ==
    /\ a.mt # <<>> /\ IsSilent(a, Head(a.mt))
    /\ \E h \in Phases : b = RunSilent(Taken([a EXCEPT !.ph = h]), Head(a.mt))

\* s is l in another phase, after it has looked at some rejections of l's.
Looked(l, s) ==
    \E k \in 0..Len(l.unh) : /\ Len(s.unh) = Len(l.unh) - k
                             /\ \A i \in 1..Len(s.unh) : s.unh[i] = l.unh[k + i]
                             /\ \A i \in 1..k : l.prom[l.unh[i]].handled
Trims(l, s) ==
    /\ s = [l EXCEPT !.ph = s.ph, !.unh = s.unh]
    /\ s.ph \notin {"unh", "idle"} => s.unh = l.unh
    /\ Looked(l, s)

\* tr: the runtime's states from the one e stands for to s.
Behind(e, tr, s, n) ==
    /\ tr \in Seq(RtType(n)) /\ tr # <<>>
    /\ \A i \in 1..Len(tr) : Good(tr[i], n, <<>>) /\ tr[i].tq = s.tq
    /\ \A i \in 1..(Len(tr) - 1) : JobStep(tr[i], tr[i + 1])
    /\ Sim(e, tr[1], n, Ctx(tr[1]), 0, 0)
    /\ Trims(tr[Len(tr)], s)
    /\ Len(tr) > 1 => e.mode = "jobs" \/ e.ticks = <<>>

\* Where the drain stands when ECMAScript's machine runs one queue or the other.
PhaseFits(e, s) ==
    /\ s.ph \in {"jobs", "mt"} => e.mode = "jobs" \/ e.ticks = <<>>
    /\ s.ph = "ticks" => e.mode = "ticks" \/ s.mt = <<>>
    /\ s.ph \in {"unh", "idle"} => s.mt = <<>> /\ s.tq = <<>>
    /\ s.ph = "idle" => s.unh = <<>>

\* A state is itself, with every rejection still to look at.
LEMMA TrimsItself ==
  ASSUME NEW n, NEW s \in RtType(n)
  PROVE  Trims(s, s) /\ Shaped(s)
<1>1. s = [s EXCEPT !.ph = s.ph, !.unh = s.unh] /\ Shaped(s)
  BY DEF RtType, Shaped
<1>2. s.unh \in Seq(Ids)
  BY DEF RtType
<1>3. PICK k : k = 0
  OBVIOUS
<1>4. /\ k \in 0..Len(s.unh) /\ Len(s.unh) = Len(s.unh) - k
      /\ \A i \in 1..Len(s.unh) : s.unh[i] = s.unh[k + i]
      /\ \A i \in 1..k : s.prom[s.unh[i]].handled
  BY <1>2, <1>3
<1>5. Looked(s, s)
  BY <1>4 DEF Looked
<1> QED BY <1>1, <1>5 DEF Trims

\* When the program's code has ended, nothing has been run since.
LEMMA NowBehind ==
  ASSUME NEW e, NEW s, NEW n, Good(s, n, <<>>), Sim(e, s, n, Ctx(s), 0, 0)
  PROVE  \E tr : Behind(e, tr, s, n)
<1>1. PICK S : S = RtType(n)
  OBVIOUS
<1>2. s \in S
  BY <1>1, GoodFacts
<1>3. PICK tr : tr = <<s>>
  OBVIOUS
<1>4. tr \in Seq(S) /\ tr # <<>> /\ Len(tr) = 1 /\ tr[1] = s
  BY <1>2, <1>3
<1>5. \A i \in 1..Len(tr) : Good(tr[i], n, <<>>) /\ tr[i].tq = s.tq
  <2>1. \A i \in 1..Len(tr) : tr[i] = s
    BY <1>4
  <2> QED BY <2>1
<1>6. \A i \in 1..(Len(tr) - 1) : JobStep(tr[i], tr[i + 1])
  BY <1>4
<1>7. Trims(tr[Len(tr)], s)
  <2>1. s \in RtType(n)
    BY <1>1, <1>2
  <2>2. Trims(s, s)
    BY <2>1, TrimsItself
  <2> QED BY <1>4, <2>2
<1>8. Sim(e, tr[1], n, Ctx(tr[1]), 0, 0)
  BY <1>4
<1>9. tr \in Seq(RtType(n)) /\ (Len(tr) > 1 => e.mode = "jobs" \/ e.ticks = <<>>)
  BY <1>1, <1>4
<1>10. Behind(e, tr, s, n)
  BY <1>4, <1>5, <1>6, <1>7, <1>8, <1>9 DEF Behind
<1> QED BY <1>10

\* The last state of the trace is the runtime's but for its phase and rejections.
LEMMA BehindFacts ==
  ASSUME NEW e, NEW tr, NEW s, NEW n, Behind(e, tr, s, n)
  PROVE  \E l : /\ l = tr[Len(tr)] /\ Good(l, n, <<>>) /\ l \in RtType(n) /\ Trims(l, s) /\ Len(tr) \in Nat /\ Len(tr) >= 1
                /\ s.prom = l.prom /\ s.mt = l.mt /\ s.tq = l.tq /\ s.task = l.task /\ s.comb = l.comb /\ s.run = l.run
                /\ s.cur = l.cur /\ s.prev = l.prev
                /\ Good(tr[1], n, <<>>) /\ e.ticks = s.tq /\ e \in JsType
<1>1. PICK l : l = tr[Len(tr)]
  OBVIOUS
<1>2. Len(tr) \in Nat /\ Len(tr) >= 1 /\ Len(tr) \in 1..Len(tr) /\ 1 \in 1..Len(tr)
  BY DEF Behind
<1>3. Good(l, n, <<>>) /\ Good(tr[1], n, <<>>) /\ tr[1].tq = s.tq /\ l.tq = s.tq
  BY <1>1, <1>2 DEF Behind
<1>4. l \in RtType(n) /\ Fine(tr[1], n, Ctx(tr[1]), 0)
  BY <1>3, GoodFacts
<1>5. Sim(e, tr[1], n, Ctx(tr[1]), 0, 0) /\ Trims(l, s)
  BY <1>1 DEF Behind
<1>6. e.ticks = tr[1].tq /\ e \in JsType
  BY <1>4, <1>5, SimFacts
<1>7. /\ s.prom = l.prom /\ s.mt = l.mt /\ s.task = l.task /\ s.comb = l.comb /\ s.run = l.run
      /\ s.cur = l.cur /\ s.prev = l.prev
  <2>1. s = [l EXCEPT !.ph = s.ph, !.unh = s.unh]
    BY <1>5 DEF Trims
  <2> QED BY <1>4, <2>1 DEF RtType
<1> QED BY <1>1, <1>2, <1>3, <1>4, <1>5, <1>6, <1>7

\* Which closures and phases make the runtime silent.
LEMMA RtQuiet ==
  ASSUME NEW s, NEW n, Good(s, n, <<>>)
  PROVE  /\ Draining(s) => (RtEvent(s).k = "none" <=> IsSilent(s, Head(s.mt)))
         /\ Draining(s) /\ RtEvent(s).k # "none" => RtEvent(s) = JobEvent(s, Head(s.mt))
         /\ ~Draining(s) /\ s.ph \in {"jobs", "mt"} => RtEvent(s).k = "none" /\ s.mt = <<>>
         /\ s.ph = "ticks" => (RtEvent(s).k = "none" <=> s.tq = <<>>)
         /\ s.ph = "ticks" /\ s.tq # <<>> => RtEvent(s) = Event("tick", Head(s.tq), 0, 0)
         /\ s.ph = "unh" /\ s.unh = <<>> => RtEvent(s).k = "none"
         /\ s.ph = "unh" /\ s.unh # <<>> => (RtEvent(s).k = "none" <=> s.prom[Head(s.unh)].handled)
         /\ s.ph = "unh" /\ s.unh # <<>> /\ RtEvent(s).k # "none" =>
              RtEvent(s) = Event("report", Head(s.unh), s.prom[Head(s.unh)].st, s.prom[Head(s.unh)].val)
         /\ s.ph = "idle" => RtEvent(s) = Event("idle", 0, 0, 0) /\ RtEvent(s).k # "none"
<1>1. s \in RtType(n) /\ n \in Nat
  BY GoodFacts
<1>2. s.ph \in {"jobs", "ticks", "mt", "unh", "idle"}
  BY <1>1 DEF RtType
<1>3. NoEvent.k = "none"
  BY DEF NoEvent, Event
<1>4. ASSUME Draining(s)
      PROVE  /\ RtEvent(s).k = "none" <=> IsSilent(s, Head(s.mt))
             /\ RtEvent(s).k # "none" => RtEvent(s) = JobEvent(s, Head(s.mt))
  <2>1. PICK d : d = Head(s.mt)
    OBVIOUS
  <2>2. d \in Closures(n)
    BY <1>1, <1>4, <2>1, EventFacts
  <2>6. s.ph \in {"jobs", "mt"}
    BY <1>4 DEF Draining
  <2>3. RtEvent(s) = (IF IsSilent(s, d) THEN NoEvent ELSE JobEvent(s, d))
    BY <1>4, <2>1, <2>6 DEF RtEvent
  <2>4. CASE IsSilent(s, d)
    BY <1>3, <2>1, <2>3, <2>4
  <2>5. CASE ~IsSilent(s, d)
    <3>1. d.fn \in {"then", "finally", "comb", "adopt_job", "adopt_settle", "defer_step", "finally_step", "resume", "queued"}
      BY <2>2 DEF Closures
    <3>2. d.fn \in {"then", "finally", "resume", "queued"}
      BY <2>5, <3>1 DEF IsSilent
    <3>3. \E k, id, st, v : k # "none" /\ JobEvent(s, d) = Event(k, id, st, v)
      <4>1. CASE d.fn = "then"
        <5>1. JobEvent(s, d) = Event("then", d.q, s.prom[d.p].st, s.prom[d.p].val)
          BY <4>1 DEF JobEvent
        <5> QED BY <5>1
      <4>2. CASE d.fn = "finally"
        <5>1. JobEvent(s, d) = Event("finally", d.q, 0, 0)
          BY <4>2 DEF JobEvent
        <5> QED BY <5>1
      <4>3. CASE d.fn = "queued"
        <5>1. JobEvent(s, d) = Event("queued", d.n, 0, 0)
          BY <4>3 DEF JobEvent
        <5> QED BY <5>1
      <4>4. CASE d.fn = "resume"
        <5>1. PICK p : p = s.task[d.t].on
          OBVIOUS
        <5>2. JobEvent(s, d) = (IF p = 0 THEN Event("task", d.t, 1, 0) ELSE Event("task", d.t, s.prom[p].st, s.prom[p].val))
          BY <4>4, <5>1 DEF JobEvent, Fulfilled
        <5> QED BY <5>2
      <4> QED BY <3>2, <4>1, <4>2, <4>3, <4>4
    <3>4. JobEvent(s, d).k # "none"
      BY <3>3 DEF Event
    <3> QED BY <2>1, <2>3, <2>5, <3>4
  <2> QED BY <2>4, <2>5
<1>5. ASSUME ~Draining(s), s.ph \in {"jobs", "mt"} PROVE RtEvent(s).k = "none" /\ s.mt = <<>>
  <2>1. s.mt = <<>>
    BY <1>5 DEF Draining
  <2>2. RtEvent(s) = NoEvent
    BY <1>5 DEF RtEvent
  <2> QED BY <1>3, <2>1, <2>2
<1>6. ASSUME s.ph = "ticks"
      PROVE  /\ RtEvent(s).k = "none" <=> s.tq = <<>>
             /\ s.tq # <<>> => RtEvent(s) = Event("tick", Head(s.tq), 0, 0)
  <2>1. ~Draining(s)
    BY <1>6 DEF Draining
  <2>2. RtEvent(s) = (IF s.tq # <<>> THEN Event("tick", Head(s.tq), 0, 0) ELSE NoEvent)
    BY <1>6, <2>1 DEF RtEvent
  <2> QED BY <1>3, <2>2 DEF Event
<1>7. ASSUME s.ph = "unh"
      PROVE  /\ s.unh = <<>> => RtEvent(s).k = "none"
             /\ s.unh # <<>> => (RtEvent(s).k = "none" <=> s.prom[Head(s.unh)].handled)
             /\ s.unh # <<>> /\ RtEvent(s).k # "none" =>
                  RtEvent(s) = Event("report", Head(s.unh), s.prom[Head(s.unh)].st, s.prom[Head(s.unh)].val)
  <2>1. ~Draining(s)
    BY <1>7 DEF Draining
  <2>2. RtEvent(s) = (IF s.unh # <<>> THEN ReportEvent(s, Head(s.unh)) ELSE NoEvent)
    BY <1>7, <2>1 DEF RtEvent
  <2>3. PICK p : p = Head(s.unh)
    OBVIOUS
  <2>4. ReportEvent(s, p) = (IF s.prom[p].handled THEN NoEvent ELSE Event("report", p, s.prom[p].st, s.prom[p].val))
    BY DEF ReportEvent
  <2>5. s.prom[p].handled => ReportEvent(s, p).k = "none"
    BY <1>3, <2>4
  <2>6. ~s.prom[p].handled => ReportEvent(s, p).k # "none"
    BY <2>4 DEF Event
  <2> QED BY <1>3, <2>2, <2>3, <2>4, <2>5, <2>6
<1>8. ASSUME s.ph = "idle" PROVE RtEvent(s) = Event("idle", 0, 0, 0) /\ RtEvent(s).k # "none"
  <2>1. ~Draining(s)
    BY <1>8 DEF Draining
  <2>2. RtEvent(s) = Event("idle", 0, 0, 0)
    BY <1>8, <2>1 DEF RtEvent
  <2> QED BY <2>2 DEF Event
<1> QED BY <1>4, <1>5, <1>6, <1>7, <1>8

\* A closure the runtime runs is one more of the trace.
LEMMA TraceGrows ==
  ASSUME NEW e, NEW tr, NEW s, NEW n, NEW t, Behind(e, tr, s, n), Draining(s), IsSilent(s, Head(s.mt)),
         e.mode = "jobs" \/ e.ticks = <<>>, Good(s, n, <<>>), t = RtSilent(s), Good(t, n, <<>>)
  PROVE  t.ph = s.ph /\ t.tq = s.tq /\ \E u : Behind(e, u, t, n)
<1>1. PICK l : /\ l = tr[Len(tr)] /\ Good(l, n, <<>>) /\ l \in RtType(n) /\ Trims(l, s) /\ Len(tr) \in Nat /\ Len(tr) >= 1
               /\ s.prom = l.prom /\ s.mt = l.mt /\ s.tq = l.tq /\ Good(tr[1], n, <<>>)
  BY BehindFacts
<1>2. s \in RtType(n) /\ t \in RtType(n) /\ s.mt # <<>> /\ s.ph \in {"jobs", "mt"}
  BY GoodFacts DEF Draining
<1>3. PICK d : d = Head(s.mt)
  OBVIOUS
<1>4. t = RunSilent(Taken(s), d)
  BY <1>2, <1>3 DEF RtSilent, Draining, Taken
<1>5. s = [l EXCEPT !.ph = s.ph]
  <2>1. s = [l EXCEPT !.ph = s.ph, !.unh = s.unh] /\ s.unh = l.unh
    BY <1>1, <1>2 DEF Trims
  <2> QED BY <1>1, <2>1 DEF RtType
<1>6. JobStep(l, t)
  <2>1. IsSilent(l, d)
    BY <1>1, <1>3 DEF IsSilent
  <2>2. PICK h : h = s.ph
    OBVIOUS
  <2>3. h \in Phases /\ t = RunSilent(Taken([l EXCEPT !.ph = h]), d)
    BY <1>2, <1>4, <1>5, <2>2 DEF Phases
  <2> QED BY <1>1, <1>2, <1>3, <2>1, <2>3 DEF JobStep
<1>7. t.ph = s.ph /\ t.tq = s.tq
  <2>1. Shaped(s)
    BY <1>2, TrimsItself
  <2>2. Kept(s, Taken(s))
    BY <2>1, PartsKeep
  <2>3. d.fn \in {"then", "defer_step", "finally_step", "adopt_job", "adopt_settle", "comb"}
    <3>1. RtEvent(s).k = "none" /\ n \in Nat
      BY RtQuiet, GoodFacts
    <3> QED BY <1>2, <1>3, <3>1, EventFacts
  <2>4. Kept(Taken(s), RunSilent(Taken(s), d))
    BY <2>2, <2>3, SilentKeeps DEF Kept
  <2> QED BY <1>4, <2>2, <2>4 DEF Kept
<1>8. PICK S, u, m : S = RtType(n) /\ u = Append(tr, t) /\ m = Len(tr)
  OBVIOUS
<1>9. tr \in Seq(S) /\ t \in S /\ m \in Nat /\ m >= 1
  BY <1>1, <1>2, <1>8 DEF Behind
<1>10. u \in Seq(S) /\ u # <<>> /\ Len(u) = m + 1 /\ u[m + 1] = t /\ \A i \in 1..m : u[i] = tr[i]
  BY <1>8, <1>9, AppendProperties
<1>11. \A i \in 1..Len(u) : Good(u[i], n, <<>>) /\ u[i].tq = t.tq
  <2>1. ASSUME NEW i \in 1..m PROVE Good(u[i], n, <<>>) /\ u[i].tq = t.tq
    BY <1>7, <1>8, <1>10 DEF Behind
  <2>2. Good(u[m + 1], n, <<>>) /\ u[m + 1].tq = t.tq
    BY <1>10
  <2>3. \A i \in 1..(m + 1) : i \in 1..m \/ i = m + 1
    BY <1>9
  <2> QED BY <1>10, <2>1, <2>2, <2>3
<1>12. \A i \in 1..(Len(u) - 1) : JobStep(u[i], u[i + 1])
  <2>1. ASSUME NEW i \in 1..m PROVE JobStep(u[i], u[i + 1])
    <3>1. CASE i = m
      BY <1>1, <1>6, <1>8, <1>10, <3>1
    <3>2. CASE i # m
      <4>1. i \in 1..(m - 1) /\ i + 1 \in 1..m
        BY <1>9, <3>2
      <4>2. JobStep(tr[i], tr[i + 1])
        BY <1>8, <4>1 DEF Behind
      <4> QED BY <1>10, <4>1, <4>2
    <3> QED BY <3>1, <3>2
  <2>2. Len(u) - 1 = m
    BY <1>9, <1>10
  <2> QED BY <2>1, <2>2
<1>13. u[1] = tr[1] /\ u[Len(u)] = t
  BY <1>9, <1>10
<1>14. Sim(e, u[1], n, Ctx(u[1]), 0, 0)
  BY <1>13 DEF Behind
<1>15. Trims(u[Len(u)], t)
  BY <1>2, <1>13, TrimsItself
<1>16. u \in Seq(RtType(n))
  BY <1>8, <1>10
<1>17. Behind(e, u, t, n)
  BY <1>10, <1>11, <1>12, <1>14, <1>15, <1>16 DEF Behind
<1> QED BY <1>7, <1>17

\* A rejection looked at, or a turn to another phase, is none.
LEMMA TraceStays ==
  ASSUME NEW e, NEW tr, NEW s, NEW n, NEW t, Behind(e, tr, s, n), Trims(tr[Len(tr)], t), t.tq = s.tq
  PROVE  Behind(e, tr, t, n)
BY DEF Behind

\* The runtime takes a silent step: ECMAScript's machine has one more to take.
LEMMA RtMoves ==
  ASSUME NEW e, NEW tr, NEW s, NEW n, Behind(e, tr, s, n), Good(s, n, <<>>), RtEvent(s).k = "none", PhaseFits(e, s),
         NEW t, t = RtSilent(s)
  PROVE  PhaseFits(e, t) /\ \E u : Behind(e, u, t, n)
<1>1. PICK l : /\ l = tr[Len(tr)] /\ Good(l, n, <<>>) /\ l \in RtType(n) /\ Trims(l, s) /\ Len(tr) \in Nat /\ Len(tr) >= 1
               /\ s.prom = l.prom /\ s.mt = l.mt /\ s.tq = l.tq /\ e.ticks = s.tq
  BY BehindFacts
<1>2. s \in RtType(n) /\ Good(t, n, <<>>)
  BY GoodFacts, RtSilentGood
<1>3. t \in RtType(n)
  BY <1>2, GoodFacts
<1>4. s = [l EXCEPT !.ph = s.ph, !.unh = s.unh] /\ (s.ph \notin {"unh", "idle"} => s.unh = l.unh) /\ Looked(l, s)
  BY <1>1 DEF Trims
<1>5. s.ph \in {"jobs", "ticks", "mt", "unh", "idle"}
  BY <1>2 DEF RtType
<1>6. CASE Draining(s)
  <2>1. IsSilent(s, Head(s.mt)) /\ s.ph \in {"jobs", "mt"}
    BY <1>6, RtQuiet DEF Draining
  <2>2. e.mode = "jobs" \/ e.ticks = <<>>
    BY <2>1 DEF PhaseFits
  <2>3. t.ph = s.ph /\ t.tq = s.tq /\ \E u : Behind(e, u, t, n)
    BY <1>2, <1>6, <2>1, <2>2, TraceGrows
  <2>4. PhaseFits(e, t)
    BY <2>1, <2>2, <2>3 DEF PhaseFits
  <2> QED BY <2>3, <2>4
<1>7. CASE ~Draining(s) /\ s.ph = "unh" /\ s.unh # <<>>
  <2>1. t = [s EXCEPT !.unh = Tail(@)] /\ s.prom[Head(s.unh)].handled
    BY <1>7, RtQuiet DEF RtSilent
  <2>2. /\ t.ph = s.ph /\ t.tq = s.tq /\ t.mt = s.mt /\ t.unh = Tail(s.unh)
        /\ s.unh \in Seq(Ids) /\ l.unh \in Seq(Ids)
    BY <1>1, <1>2, <2>1 DEF RtType
  <2>3. t = [l EXCEPT !.ph = t.ph, !.unh = t.unh]
    <3>1. PICK w, h : w = Tail(s.unh) /\ h = s.ph
      OBVIOUS
    <3>2. t = [s EXCEPT !.unh = w] /\ s = [l EXCEPT !.ph = h, !.unh = s.unh]
      BY <1>4, <2>1, <3>1
    <3>3. t = [l EXCEPT !.ph = h, !.unh = w]
      BY <1>1, <3>2 DEF RtType
    <3> QED BY <2>2, <3>1, <3>3
  <2>4. PICK k \in 0..Len(l.unh) : /\ Len(s.unh) = Len(l.unh) - k
                                   /\ \A i \in 1..Len(s.unh) : s.unh[i] = l.unh[k + i]
                                   /\ \A i \in 1..k : l.prom[l.unh[i]].handled
    BY <1>4 DEF Looked
  <2>5. Len(s.unh) \in Nat /\ Len(l.unh) \in Nat /\ Len(s.unh) >= 1 /\ Head(s.unh) = s.unh[1]
    BY <1>7, <2>2
  <2>6. Len(t.unh) = Len(s.unh) - 1 /\ \A i \in 1..Len(t.unh) : t.unh[i] = s.unh[i + 1]
    BY <1>7, <2>2
  <2>7. PICK m : m = k + 1
    OBVIOUS
  <2>8. m \in 0..Len(l.unh) /\ Len(t.unh) = Len(l.unh) - m
    BY <2>4, <2>5, <2>6, <2>7
  <2>9. \A i \in 1..Len(t.unh) : t.unh[i] = l.unh[m + i]
    <3>1. TAKE i \in 1..Len(t.unh)
    <3>2. i + 1 \in 1..Len(s.unh) /\ k + (i + 1) = m + i
      BY <2>5, <2>6, <2>7, <2>4
    <3> QED BY <2>4, <2>6, <3>2
  <2>10. \A i \in 1..m : l.prom[l.unh[i]].handled
    <3>1. TAKE i \in 1..m
    <3>2. CASE i \in 1..k
      BY <2>4, <3>2
    <3>3. CASE i = m
      <4>1. 1 \in 1..Len(s.unh) /\ l.unh[m] = s.unh[1]
        BY <2>4, <2>5, <2>7
      <4> QED BY <1>1, <2>1, <2>5, <3>3, <4>1
    <3> QED BY <2>4, <2>7, <3>2, <3>3
  <2>11. Trims(l, t)
    <3>1. Looked(l, t)
      BY <2>8, <2>9, <2>10 DEF Looked
    <3> QED BY <1>7, <2>2, <2>3, <3>1 DEF Trims
  <2>12. Behind(e, tr, t, n)
    BY <1>1, <2>2, <2>11, TraceStays
  <2>13. PhaseFits(e, t)
    BY <1>7, <2>2 DEF PhaseFits
  <2> QED BY <2>12, <2>13
<1>8. CASE ~Draining(s) /\ ~(s.ph = "unh" /\ s.unh # <<>>)
  <2>1. t = [s EXCEPT !.ph = NextPhase(s)]
    BY <1>8 DEF RtSilent
  <2>2. t.ph = NextPhase(s) /\ t.tq = s.tq /\ t.mt = s.mt /\ t.unh = s.unh
    BY <1>2, <2>1 DEF RtType
  <2>3. t = [l EXCEPT !.ph = t.ph, !.unh = t.unh]
    <3>1. PICK h : h = NextPhase(s)
      OBVIOUS
    <3>2. t = [s EXCEPT !.ph = h] /\ s = [l EXCEPT !.ph = s.ph, !.unh = s.unh]
      BY <1>4, <2>1, <3>1
    <3>3. t = [l EXCEPT !.ph = h, !.unh = s.unh]
      BY <1>1, <3>2 DEF RtType
    <3> QED BY <2>2, <3>1, <3>3
  <2>4. s.ph \in {"unh", "idle"} => t.ph = "idle"
    BY <2>2 DEF NextPhase
  <2>5. Looked(l, t)
    BY <1>4, <2>2 DEF Looked
  <2>6. Trims(l, t)
    BY <1>4, <2>2, <2>3, <2>4, <2>5 DEF Trims
  <2>7. Behind(e, tr, t, n)
    BY <1>1, <2>2, <2>6, TraceStays
  <2>8. PhaseFits(e, t)
    <3>1. CASE s.ph = "jobs"
      <4>1. s.mt = <<>> /\ t.ph = "ticks"
        BY <1>8, <2>2, <3>1 DEF Draining, NextPhase
      <4> QED BY <2>2, <4>1 DEF PhaseFits
    <3>2. CASE s.ph = "ticks"
      <4>1. s.tq = <<>> /\ t.ph = "mt"
        BY <2>2, <3>2, RtQuiet DEF NextPhase
      <4> QED BY <1>1, <4>1 DEF PhaseFits
    <3>3. CASE s.ph = "mt"
      <4>1. s.mt = <<>>
        BY <1>8, <3>3 DEF Draining
      <4>2. t.ph = (IF s.tq # <<>> THEN "ticks" ELSE "unh")
        BY <2>2, <3>3 DEF NextPhase
      <4> QED BY <2>2, <4>1, <4>2 DEF PhaseFits
    <3>4. CASE s.ph = "unh"
      <4>1. s.unh = <<>> /\ t.ph = "idle" /\ s.mt = <<>> /\ s.tq = <<>>
        BY <1>8, <2>2, <3>4 DEF NextPhase, PhaseFits
      <4> QED BY <2>2, <4>1 DEF PhaseFits
    <3>5. CASE s.ph = "idle"
      BY <3>5, RtQuiet
    <3> QED BY <1>5, <3>1, <3>2, <3>3, <3>4, <3>5
  <2> QED BY <2>7, <2>8
<1> QED BY <1>6, <1>7, <1>8

\* The phase is no part of the relation.
LEMMA AnyPhase ==
  ASSUME NEW a, NEW n, NEW stk, Good(a, n, stk), NEW h \in Phases, NEW b, b = [a EXCEPT !.ph = h]
  PROVE  /\ Good(b, n, stk) /\ Ctx(b) = Ctx(a) /\ b.mt = a.mt /\ b.prom = a.prom
         /\ \A e : Sim(e, b, n, Ctx(b), 0, 0) <=> Sim(e, a, n, Ctx(a), 0, 0)
<1>1. a \in RtType(n) /\ Fine(a, n, Ctx(a), 0)
  BY GoodFacts
<1>2. /\ b \in RtType(n) /\ b.prom = a.prom /\ b.mt = a.mt /\ b.tq = a.tq /\ b.unh = a.unh
      /\ b.task = a.task /\ b.comb = a.comb /\ b.run = a.run /\ b.cur = a.cur /\ b.prev = a.prev
  BY <1>1 DEF RtType, Phases
<1>3. Good(b, n, stk) /\ Ctx(b) = Ctx(a)
  <2>1. Alike(a, b, n) /\ Same(a, b)
    BY <1>2 DEF Alike, Same
  <2> QED BY <1>2, <2>1, GoodAlike DEF Ctx
<1>4. Fine(b, n, Ctx(b), 0)
  BY <1>3, GoodFacts
<1>5. PICK c : c = Ctx(a)
  OBVIOUS
<1>6. ASSUME NEW e PROVE Sim(e, b, n, Ctx(b), 0, 0) <=> Sim(e, a, n, Ctx(a), 0, 0)
  <2>1. ASSUME Sim(e, a, n, c, 0, 0) PROVE Sim(e, b, n, c, 0, 0)
    <3>1. e \in JsType /\ Fine(a, n, c, 0)
      BY <1>1, <1>5, <2>1, SimFacts
    <3>2. e.prom = e.prom /\ e.jobs = e.jobs /\ e.unh = e.unh /\ e.ticks = e.ticks /\ e.comb = e.comb /\ e.call = e.call
      OBVIOUS
    <3> QED BY <1>2, <2>1, <3>1, <3>2, SameSim
  <2>2. ASSUME Sim(e, b, n, c, 0, 0) PROVE Sim(e, a, n, c, 0, 0)
    <3>1. Fine(b, n, c, 0)
      BY <1>3, <1>4, <1>5
    <3>2. e \in JsType
      BY <2>2, <3>1, SimFacts
    <3>3. e.prom = e.prom /\ e.jobs = e.jobs /\ e.unh = e.unh /\ e.ticks = e.ticks /\ e.comb = e.comb /\ e.call = e.call
      OBVIOUS
    <3> QED BY <1>2, <2>2, <3>1, <3>2, <3>3, SameSim
  <2> QED BY <1>3, <1>5, <2>1, <2>2
<1> QED BY <1>2, <1>3, <1>6

\* While the runtime is ahead, ECMAScript's next job calls no code; running it
\* leaves the trace or takes its first state away.
LEMMA Catches ==
  ASSUME NEW e, NEW n, NEW a, NEW b, Good(a, n, <<>>), Sim(e, a, n, Ctx(a), 0, 0), JobStep(a, b)
  PROVE  /\ e.jobs # <<>> /\ Js!JsSilentJob(Head(e.jobs))
         /\ \/ Sim(Js!JsSilent(e), a, n, Ctx(a), 0, 0)
            \/ Sim(Js!JsSilent(e), b, n, Ctx(b), 0, 0)
<1>1. PICK h \in Phases : b = RunSilent(Taken([a EXCEPT !.ph = h]), Head(a.mt))
  BY DEF JobStep
<1>2. a.mt # <<>> /\ IsSilent(a, Head(a.mt))
  BY DEF JobStep
<1>3. PICK z : z = [a EXCEPT !.ph = h]
  OBVIOUS
<1>4. /\ Good(z, n, <<>>) /\ Ctx(z) = Ctx(a) /\ z.mt = a.mt /\ z.prom = a.prom
      /\ \A i : Sim(i, z, n, Ctx(z), 0, 0) <=> Sim(i, a, n, Ctx(a), 0, 0)
  BY <1>3, AnyPhase
<1>5. PICK c : c = Ctx(z)
  OBVIOUS
<1>6. Fine(z, n, c, 0) /\ z \in RtType(n)
  BY <1>4, <1>5, GoodFacts
<1>7. Sim(e, z, n, c, 0, 0)
  BY <1>4, <1>5
<1>8. PICK f : SimBy(e, z, n, c, 0, 0, f)
  BY <1>7 DEF Sim
<1>9. IsSilent(z, Head(z.mt)) /\ b = RunSilent(Taken(z), Head(z.mt))
  BY <1>1, <1>2, <1>3, <1>4 DEF IsSilent
<1>10. e.jobs # <<>>
  <2>1. f \in [1..Len(z.mt) -> 1..Len(e.jobs)] /\ z.mt \in Seq(Closures(n)) /\ e.jobs \in Seq(JobType)
    BY <1>6, <1>8 DEF SimBy, QueuesSim, QueueSim, Embeds, RtType, JsType
  <2>2. Len(z.mt) >= 1
    BY <1>2, <1>4, <2>1
  <2>3. f[1] \in 1..Len(e.jobs)
    BY <2>1, <2>2
  <2> QED BY <2>1, <2>3
<1>11. CASE Free(f, 1)
  <2>1. Sim(Js!JsSilent(e), z, n, c, 0, 0) /\ Js!JsSilentJob(Head(e.jobs))
    BY <1>6, <1>8, <1>10, <1>11, JsAlone
  <2> QED BY <1>4, <1>5, <1>10, <2>1
<1>12. CASE ~Free(f, 1)
  <2>1. Sim(Js!JsSilent(e), b, n, Ctx(b), 0, 0) /\ Js!JsSilentJob(Head(e.jobs))
    BY <1>4, <1>5, <1>8, <1>9, <1>10, <1>12, BothSilent
  <2> QED BY <1>10, <2>1
<1> QED BY <1>11, <1>12

\* A trace of more than one state: ECMAScript's machine is not at rest.
LEMMA AheadBusy ==
  ASSUME NEW e, NEW tr, NEW s, NEW n, Behind(e, tr, s, n), Len(tr) > 1
  PROVE  /\ Js!JsEvent(e).k = "none" /\ Good(tr[1], n, <<>>) /\ JobStep(tr[1], tr[2])
         /\ Sim(e, tr[1], n, Ctx(tr[1]), 0, 0) /\ e \in JsType
<1>1. Len(tr) \in Nat /\ e \in JsType /\ Good(tr[1], n, <<>>)
  BY BehindFacts
<1>2. 1 \in 1..(Len(tr) - 1) /\ 1 + 1 = 2
  BY <1>1
<1>3. JobStep(tr[1], tr[2]) /\ Sim(e, tr[1], n, Ctx(tr[1]), 0, 0) /\ (e.mode = "jobs" \/ e.ticks = <<>>)
  BY <1>2 DEF Behind
<1>4. e.jobs # <<>> /\ Js!JsSilentJob(Head(e.jobs))
  BY <1>1, <1>3, Catches
<1>5. Js!Mode(e) = "jobs"
  BY <1>1, <1>3, <1>4, JsSees
<1> QED BY <1>1, <1>3, <1>4, <1>5, JsSees

\* The trace without its first state.
LEMMA TraceTail ==
  ASSUME NEW e, NEW e2, NEW tr, NEW s, NEW n, Behind(e, tr, s, n), Len(tr) > 1, Sim(e2, tr[2], n, Ctx(tr[2]), 0, 0),
         e2.mode = "jobs"
  PROVE  Behind(e2, Tail(tr), s, n)
<1>1. PICK S, u, m : S = RtType(n) /\ u = Tail(tr) /\ m = Len(tr)
  OBVIOUS
<1>2. tr \in Seq(S) /\ m \in Nat /\ m > 1
  BY <1>1 DEF Behind
<1>3. u \in Seq(S) /\ Len(u) = m - 1 /\ \A i \in 1..(m - 1) : u[i] = tr[i + 1]
  BY <1>1, <1>2
<1>4. u # <<>> /\ u[1] = tr[2] /\ u[Len(u)] = tr[m]
  BY <1>2, <1>3
<1>5. \A i \in 1..Len(u) : Good(u[i], n, <<>>) /\ u[i].tq = s.tq
  <2>1. \A i \in 1..m : Good(tr[i], n, <<>>) /\ tr[i].tq = s.tq
    BY <1>1 DEF Behind
  <2>2. \A i \in 1..(m - 1) : i + 1 \in 1..m
    BY <1>2
  <2> QED BY <1>3, <2>1, <2>2
<1>6. \A i \in 1..(Len(u) - 1) : JobStep(u[i], u[i + 1])
  <2>1. \A i \in 1..(m - 1) : JobStep(tr[i], tr[i + 1])
    BY <1>1 DEF Behind
  <2>2. ASSUME NEW i \in 1..(m - 2) PROVE JobStep(u[i], u[i + 1])
    <3>1. i \in 1..(m - 1) /\ i + 1 \in 1..(m - 1)
      BY <1>2
    <3>2. u[i] = tr[i + 1] /\ u[i + 1] = tr[(i + 1) + 1] /\ JobStep(tr[i + 1], tr[(i + 1) + 1])
      BY <1>3, <2>1, <3>1
    <3> QED BY <3>2
  <2>3. Len(u) - 1 = m - 2
    BY <1>2, <1>3
  <2> QED BY <2>2, <2>3
<1>7. Sim(e2, u[1], n, Ctx(u[1]), 0, 0)
  BY <1>4
<1>8. Trims(u[Len(u)], s)
  BY <1>1, <1>4 DEF Behind
<1>9. u \in Seq(RtType(n))
  BY <1>1, <1>3
<1>10. Behind(e2, u, s, n)
  BY <1>4, <1>5, <1>6, <1>7, <1>8, <1>9 DEF Behind
<1> QED BY <1>1, <1>10

\* ECMAScript's machine runs a job that calls no code.
LEMMA JsMoves ==
  ASSUME NEW e, NEW tr, NEW s, NEW n, Behind(e, tr, s, n), Good(s, n, <<>>), RtEvent(s).k # "none",
         Js!JsEvent(e).k = "none", PhaseFits(e, s), NEW e2, e2 = Js!JsSilent(e)
  PROVE  PhaseFits(e2, s) /\ \E u : Behind(e2, u, s, n)
<1>1. PICK l : /\ l = tr[Len(tr)] /\ Good(l, n, <<>>) /\ l \in RtType(n) /\ Trims(l, s) /\ Len(tr) \in Nat /\ Len(tr) >= 1
               /\ s.prom = l.prom /\ s.mt = l.mt /\ s.tq = l.tq /\ Good(tr[1], n, <<>>) /\ e.ticks = s.tq /\ e \in JsType
  BY BehindFacts
<1>2. /\ e.jobs # <<>> /\ (e.mode = "jobs" \/ e.ticks = <<>>) /\ Js!JsSilentJob(Head(e.jobs))
  BY <1>1, JsSees
<1>3. e2.mode = "jobs"
  <2>1. JsShaped(e)
    BY <1>1 DEF JsType, JsShaped
  <2> QED BY <1>2, <2>1, JsTurns
<1>4. s \in RtType(n) /\ s.ph \in {"jobs", "ticks", "mt", "unh", "idle"}
  BY GoodFacts DEF RtType
<1>5. s.ph = "ticks" => s.mt = <<>>
  <2> SUFFICES ASSUME s.ph = "ticks" PROVE s.mt = <<>>
    OBVIOUS
  <2>1. s.tq # <<>>
    BY RtQuiet
  <2>2. e.mode = "jobs"
    BY <1>1, <1>2, <2>1
  <2> QED BY <2>2 DEF PhaseFits
<1>6. PhaseFits(e2, s)
  BY <1>3, <1>5 DEF PhaseFits
<1>7. CASE Len(tr) > 1
  <2>1. Good(tr[1], n, <<>>) /\ JobStep(tr[1], tr[2]) /\ Sim(e, tr[1], n, Ctx(tr[1]), 0, 0)
    BY <1>7, AheadBusy
  <2>2. Sim(e2, tr[1], n, Ctx(tr[1]), 0, 0) \/ Sim(e2, tr[2], n, Ctx(tr[2]), 0, 0)
    BY <2>1, Catches
  <2>3. CASE Sim(e2, tr[1], n, Ctx(tr[1]), 0, 0)
    <3>1. Behind(e2, tr, s, n)
      BY <1>3, <2>3 DEF Behind
    <3> QED BY <1>6, <3>1
  <2>4. CASE Sim(e2, tr[2], n, Ctx(tr[2]), 0, 0)
    <3>1. Behind(e2, Tail(tr), s, n)
      BY <1>3, <1>7, <2>4, TraceTail
    <3> QED BY <1>6, <3>1
  <2> QED BY <2>2, <2>3, <2>4
<1>8. CASE ~(Len(tr) > 1)
  <2>1. Len(tr) = 1 /\ tr[1] = l
    <3>1. PICK m : m = Len(tr)
      OBVIOUS
    <3>2. m \in Nat /\ m >= 1 /\ ~(m > 1) /\ tr[m] = l
      BY <1>1, <1>8, <3>1
    <3>3. m = 1
      BY <3>2
    <3> QED BY <3>1, <3>2, <3>3
  <2>2. PICK c : c = Ctx(l)
    OBVIOUS
  <2>3. Sim(e, l, n, c, 0, 0) /\ Fine(l, n, c, 0)
    <3>1. Sim(e, tr[1], n, Ctx(tr[1]), 0, 0)
      BY DEF Behind
    <3> QED BY <1>1, <2>1, <2>2, <3>1, GoodFacts
  <2>4. PICK f : SimBy(e, l, n, c, 0, 0, f)
    BY <2>3 DEF Sim
  <2>5. Free(f, 1)
    <3> SUFFICES ASSUME ~Free(f, 1) PROVE FALSE
      OBVIOUS
    <3>1. PICK j, d, e1, s1, stk : /\ j = Head(e.jobs) /\ d = Head(l.mt) /\ e1 = JsPop(e) /\ s1 = Taken(l) /\ stk = <<>>
                                   /\ Good(l, n, stk)
      BY <1>1
    <3>2. Heads(l, n, stk, e, f, c, j, d, e1, s1)
      BY <1>2, <2>2, <2>4, <3>1 DEF Heads
    <3>3. l.mt # <<>>
      BY <3>2, HeadPair
    <3>4. IsSilent(l, d)
      <4> SUFFICES ASSUME ~IsSilent(l, d) PROVE FALSE
        OBVIOUS
      <4>1. ~Js!JsSilentJob(j)
        BY <3>2, SameEvent
      <4> QED BY <1>2, <3>1, <4>1
    <3>5. IsSilent(s, Head(s.mt))
      BY <1>1, <3>1, <3>4 DEF IsSilent
    <3>6. s.mt # <<>> /\ s.ph \notin {"ticks", "unh", "idle"}
      BY <1>1, <1>5, <3>3 DEF PhaseFits
    <3>7. Draining(s)
      BY <1>4, <3>6 DEF Draining
    <3> QED BY <3>5, <3>7, RtQuiet
  <2>6. Sim(e2, l, n, c, 0, 0)
    BY <1>2, <2>3, <2>4, <2>5, JsAlone
  <2>7. Sim(e2, tr[1], n, Ctx(tr[1]), 0, 0)
    BY <2>1, <2>2, <2>6
  <2>8. Behind(e2, tr, s, n)
    BY <1>3, <2>7 DEF Behind
  <2> QED BY <1>6, <2>8
<1> QED BY <1>7, <1>8

-----------------------------------------------------------------------------
(* At rest: both machines are about to do what the program can see.        *)

AtRestBoth(e, tr, s, n) ==
    /\ Behind(e, tr, s, n) /\ Good(s, n, <<>>) /\ PhaseFits(e, s)
    /\ RtEvent(s).k # "none" /\ Js!JsEvent(e).k # "none"

\* Then ECMAScript has caught up with the runtime, whose drain has only
\* dropped handled promises from its list since.
LEMMA RestMeets ==
  ASSUME NEW e, NEW tr, NEW s, NEW n, AtRestBoth(e, tr, s, n)
  PROVE  \E l : /\ Good(l, n, <<>>) /\ l \in RtType(n) /\ Trims(l, s) /\ Sim(e, l, n, Ctx(l), 0, 0)
                /\ s.prom = l.prom /\ s.mt = l.mt /\ s.tq = l.tq /\ e.ticks = s.tq /\ e \in JsType
<1>1. Behind(e, tr, s, n) /\ Js!JsEvent(e).k # "none"
  BY DEF AtRestBoth
<1>2. PICK l : /\ l = tr[Len(tr)] /\ Good(l, n, <<>>) /\ l \in RtType(n) /\ Trims(l, s) /\ Len(tr) \in Nat /\ Len(tr) >= 1
               /\ s.prom = l.prom /\ s.mt = l.mt /\ s.tq = l.tq /\ e.ticks = s.tq /\ e \in JsType
  BY <1>1, BehindFacts
<1>3. PICK m : m = Len(tr)
  OBVIOUS
<1>4. ~(m > 1)
  BY <1>1, <1>3, AheadBusy
<1>5. m = 1
  BY <1>2, <1>3, <1>4
<1>6. Sim(e, tr[1], n, Ctx(tr[1]), 0, 0)
  BY <1>1 DEF Behind
<1> QED BY <1>2, <1>3, <1>5, <1>6

\* When it is to run a job, that job has its closure at the head of the
\* runtime's queue.
LEMMA JobHeads ==
  ASSUME NEW e, NEW l, NEW n, Good(l, n, <<>>), Sim(e, l, n, Ctx(l), 0, 0), Js!JsEvent(e).k # "none",
         e.jobs # <<>>, e.mode = "jobs" \/ e.ticks = <<>>
  PROVE  \E f : Heads(l, n, <<>>, e, f, Ctx(l), Head(e.jobs), Head(l.mt), JsPop(e), Taken(l)) /\ l.mt # <<>>
<1>1. PICK c, j, d, e1, s1, stk : c = Ctx(l) /\ j = Head(e.jobs) /\ d = Head(l.mt) /\ e1 = JsPop(e) /\ s1 = Taken(l) /\ stk = <<>>
  OBVIOUS
<1>2. Fine(l, n, c, 0) /\ Sim(e, l, n, c, 0, 0) /\ Good(l, n, stk)
  BY <1>1, GoodFacts
<1>3. PICK f : SimBy(e, l, n, c, 0, 0, f)
  BY <1>2 DEF Sim
<1>4. ~Free(f, 1)
  <2> SUFFICES ASSUME Free(f, 1) PROVE FALSE
    OBVIOUS
  <2>1. Js!JsSilentJob(Head(e.jobs))
    BY <1>2, <1>3, JsAlone
  <2>2. e \in JsType
    BY <1>3 DEF SimBy
  <2> QED BY <2>1, <2>2, JsSees
<1>5. Heads(l, n, stk, e, f, c, j, d, e1, s1)
  BY <1>1, <1>2, <1>3, <1>4 DEF Heads
<1>6. l.mt # <<>>
  BY <1>5, HeadPair
<1> QED BY <1>1, <1>5, <1>6

\* Outside the reports the runtime is where ECMAScript is.
LEMMA RestBeside ==
  ASSUME NEW e, NEW tr, NEW s, NEW n, AtRestBoth(e, tr, s, n), s.ph \notin {"unh", "idle"}
  PROVE  Sim(e, s, n, Ctx(s), 0, 0)
<1>1. PICK l : /\ Good(l, n, <<>>) /\ l \in RtType(n) /\ Trims(l, s) /\ Sim(e, l, n, Ctx(l), 0, 0)
  BY RestMeets
<1>2. PICK h, w : h = s.ph /\ w = s.unh
  OBVIOUS
<1>3. Good(s, n, <<>>)
  BY DEF AtRestBoth
<1>4. s \in RtType(n)
  BY <1>3, GoodFacts
<1>5. h \in Phases
  BY <1>2, <1>4 DEF RtType, Phases
<1>6. s = [l EXCEPT !.ph = h, !.unh = w] /\ w = l.unh
  BY <1>1, <1>2 DEF Trims
<1>7. s = [l EXCEPT !.ph = h]
  BY <1>1, <1>6 DEF RtType
<1> QED BY <1>1, <1>5, <1>7, AnyPhase

\* Jobs.
LEMMA RestJobs ==
  ASSUME NEW e, NEW tr, NEW s, NEW n, AtRestBoth(e, tr, s, n), Draining(s)
  PROVE  /\ RtEvent(s) = Js!JsEvent(e) /\ Js!Mode(e) = "jobs" /\ s.ph \in {"jobs", "mt"}
         /\ Head(s.mt).fn \in {"then", "finally", "resume", "queued"} /\ RtEvent(s) = JobEvent(s, Head(s.mt))
         /\ \E f : Heads(s, n, <<>>, e, f, Ctx(s), Head(e.jobs), Head(s.mt), JsPop(e), Taken(s))
<1>1. s.ph \in {"jobs", "mt"} /\ s.mt # <<>>
  BY DEF Draining
<1>2. Good(s, n, <<>>) /\ PhaseFits(e, s) /\ RtEvent(s).k # "none" /\ Js!JsEvent(e).k # "none"
  BY DEF AtRestBoth
<1>3. Sim(e, s, n, Ctx(s), 0, 0)
  BY <1>1, RestBeside
<1>4. e.mode = "jobs" \/ e.ticks = <<>>
  BY <1>1, <1>2 DEF PhaseFits
<1>5. e.jobs # <<>> /\ e \in JsType
  <2>1. PICK f : SimBy(e, s, n, Ctx(s), 0, 0, f)
    BY <1>3 DEF Sim
  <2>2. s \in RtType(n)
    BY <1>2, GoodFacts
  <2>3. f \in [1..Len(s.mt) -> 1..Len(e.jobs)] /\ s.mt \in Seq(Closures(n)) /\ e.jobs \in Seq(JobType) /\ e \in JsType
    BY <2>1, <2>2 DEF SimBy, QueuesSim, QueueSim, Embeds, RtType, JsType
  <2>4. Len(s.mt) >= 1
    BY <1>1, <2>3
  <2>5. f[1] \in 1..Len(e.jobs)
    BY <2>3, <2>4
  <2> QED BY <2>3, <2>5
<1>6. PICK f : Heads(s, n, <<>>, e, f, Ctx(s), Head(e.jobs), Head(s.mt), JsPop(e), Taken(s))
  BY <1>2, <1>3, <1>4, <1>5, JobHeads
<1>7. ~IsSilent(s, Head(s.mt)) /\ RtEvent(s) = JobEvent(s, Head(s.mt))
  BY <1>2, RtQuiet
<1>8. PICK c, j, d, e1, s1, stk : c = Ctx(s) /\ j = Head(e.jobs) /\ d = Head(s.mt) /\ e1 = JsPop(e) /\ s1 = Taken(s) /\ stk = <<>>
  OBVIOUS
<1>9. Heads(s, n, stk, e, f, c, j, d, e1, s1) /\ ~IsSilent(s, d)
  BY <1>6, <1>7, <1>8
<1>10. ~Js!JsSilentJob(j) /\ JobEvent(s, d) = JobSeen(j) /\ d.fn \in {"then", "finally", "resume", "queued"}
  BY <1>9, SameEvent
<1>11. Js!Mode(e) = "jobs"
  BY <1>4, <1>5, JsSees
<1>12. Js!JsEvent(e) = JobSeen(Head(e.jobs))
  BY <1>5, <1>8, <1>10, <1>11, JsSees
<1> QED BY <1>1, <1>6, <1>7, <1>8, <1>10, <1>11, <1>12

\* Ticks: whatever jobs are left come after them on both sides.
LEMMA RestTicks ==
  ASSUME NEW e, NEW tr, NEW s, NEW n, AtRestBoth(e, tr, s, n), s.ph = "ticks"
  PROVE  /\ RtEvent(s) = Js!JsEvent(e) /\ Js!Mode(e) = "ticks" /\ s.tq # <<>>
         /\ RtEvent(s) = Event("tick", Head(s.tq), 0, 0) /\ Sim(e, s, n, Ctx(s), 0, 0)
<1>1. Good(s, n, <<>>) /\ PhaseFits(e, s) /\ RtEvent(s).k # "none" /\ Js!JsEvent(e).k # "none"
  BY DEF AtRestBoth
<1>2. s.tq # <<>> /\ RtEvent(s) = Event("tick", Head(s.tq), 0, 0)
  BY <1>1, RtQuiet
<1>3. Sim(e, s, n, Ctx(s), 0, 0)
  BY RestBeside
<1>4. e.ticks = s.tq /\ e \in JsType
  BY RestMeets
<1>5. Js!Mode(e) = "ticks"
  <2>1. CASE e.mode = "ticks"
    BY <1>2, <1>4, <2>1, JsSees
  <2>2. CASE e.mode # "ticks"
    <3>1. e.mode = "jobs"
      BY <1>4, <2>2 DEF JsType
    <3>2. s.mt = <<>>
      BY <1>1, <2>2 DEF PhaseFits
    <3>3. e.jobs = <<>>
      BY <1>1, <1>3, <3>1, <3>2, JobHeads
    <3> QED BY <1>2, <1>4, <3>3, JsSees
  <2> QED BY <2>1, <2>2
<1>6. Js!JsEvent(e) = Event("tick", Head(e.ticks), 0, 0)
  BY <1>4, <1>5, JsSees
<1> QED BY <1>2, <1>3, <1>4, <1>5, <1>6

\* Reports: with no job left, the rejections of finally's own promises are all
\* handled, so that those still to report come in the order of the runtime's list.
LEMMA ReportPlaces ==
  ASSUME NEW e, NEW l, NEW s, NEW n, Good(l, n, <<>>), Trims(l, s), Sim(e, l, n, Ctx(l), 0, 0), s.prom = l.prom,
         e.jobs = <<>>, s.unh \in Seq(Ids)
  PROVE  /\ s.unh = <<>> => Js!Unreported(e) = {}
         /\ s.unh # <<>> /\ ~s.prom[Head(s.unh)].handled =>
              \E i \in Js!Unreported(e) : /\ \A y \in Js!Unreported(e) : i <= y
                                          /\ e.unh[i] = Head(s.unh) /\ i \in Nat
                                          /\ e.prom[e.unh[i]].st = 2 /\ e.prom[e.unh[i]].val = s.prom[Head(s.unh)].val
                                          /\ s.prom[Head(s.unh)].st = 2
<1>1. PICK f : SimBy(e, l, n, Ctx(l), 0, 0, f)
  BY DEF Sim
<1>2. /\ e \in JsType /\ InnerSim(e.jobs, Inners(e), l, 0, 0) /\ UnhSim(e.unh, l.unh, e.prom)
      /\ \A p \in Ids : PromSim(e.prom[p], l.prom[p])
  BY <1>1 DEF SimBy, RestSim
<1>3. l \in RtType(n)
  BY GoodFacts
<1>4. PICK u, v, E : u = e.unh /\ v = l.unh /\ E = e.prom
  OBVIOUS
<1>5. u \in Seq(Js!JsIds) /\ v \in Seq(Ids) /\ Len(u) \in Nat /\ Len(v) \in Nat
  BY <1>2, <1>3, <1>4 DEF JsType, RtType
<1>6. PICK g : /\ Embeds(g, Len(v), Len(u))
               /\ \A m \in 1..Len(v) : u[g[m]] = v[m]
               /\ \A i \in 1..Len(u) : Free(g, i) => u[i] > MaxProms
  BY <1>2, <1>4 DEF UnhSim
<1>7. (\A i \in 1..Len(u) : E[u[i]].st # 0) /\ (\A m \in 1..Len(v) : E[v[m]].st = 2)
  BY <1>2, <1>4 DEF UnhSim
<1>8. PICK k \in 0..Len(v) : /\ Len(s.unh) = Len(v) - k
                             /\ \A i \in 1..Len(s.unh) : s.unh[i] = v[k + i]
                             /\ \A i \in 1..k : l.prom[v[i]].handled
  BY <1>4 DEF Trims, Looked
<1>9. ASSUME NEW i \in 1..Len(u), Free(g, i) PROVE E[u[i]].handled
  <2>1. u[i] > MaxProms /\ u[i] \in Js!JsIds /\ E[u[i]].st # 0
    BY <1>5, <1>6, <1>7, <1>9
  <2>2. u[i] \notin Ids
    BY <2>1, PromiseAssumption DEF Ids
  <2>3. PICK d \in Ids : u[i] = Inner(d)
    BY <2>1, <2>2, InnerFacts
  <2>4. Inners(e)[d] = E[u[i]]
    BY <1>4, <2>3 DEF Inners
  <2>5. d # 0
    BY PromiseAssumption DEF Ids
  <2>6. ~LateFor(e.jobs, d)
    BY DEF LateFor
  <2> QED BY <1>2, <2>1, <2>4, <2>5, <2>6 DEF InnerSim
<1>10. ASSUME NEW i \in Js!Unreported(e)
       PROVE  i \in 1..Len(u) /\ ~E[u[i]].handled /\ \E m \in 1..Len(v) : m > k /\ g[m] = i
  <2>1. i \in 1..Len(u) /\ ~E[u[i]].handled
    BY <1>4, <1>10 DEF Js!Unreported
  <2>2. PICK m \in DOMAIN g : g[m] = i
    BY <1>9, <2>1 DEF Free
  <2>3. m \in 1..Len(v)
    BY <1>6, <2>2 DEF Embeds
  <2>4. u[i] = v[m] /\ v[m] \in Ids
    BY <1>5, <1>6, <2>2, <2>3
  <2>5. ~l.prom[v[m]].handled
    BY <1>2, <1>4, <2>1, <2>4 DEF PromSim
  <2>6. m > k
    BY <1>5, <1>8, <2>3, <2>5
  <2> QED BY <2>1, <2>2, <2>3, <2>6
<1>11. ASSUME s.unh = <<>> PROVE Js!Unreported(e) = {}
  <2>1. k = Len(v)
    BY <1>5, <1>8, <1>11
  <2>2. ASSUME NEW i \in Js!Unreported(e) PROVE FALSE
    <3>1. PICK m \in 1..Len(v) : m > k
      BY <1>10
    <3> QED BY <1>5, <2>1, <3>1
  <2> QED BY <2>2
<1>12. ASSUME s.unh # <<>>, ~s.prom[Head(s.unh)].handled
       PROVE  \E i \in Js!Unreported(e) : /\ \A y \in Js!Unreported(e) : i <= y
                                          /\ e.unh[i] = Head(s.unh) /\ i \in Nat
                                          /\ e.prom[e.unh[i]].st = 2 /\ e.prom[e.unh[i]].val = s.prom[Head(s.unh)].val
                                          /\ s.prom[Head(s.unh)].st = 2
  <2>1. Len(s.unh) \in Nat /\ Len(s.unh) >= 1 /\ Head(s.unh) = s.unh[1] /\ Head(s.unh) \in Ids
    BY <1>12
  <2>2. PICK m : m = k + 1
    OBVIOUS
  <2>3. m \in 1..Len(v) /\ Head(s.unh) = v[m]
    <3>1. 1 \in 1..Len(s.unh)
      BY <2>1
    <3>2. s.unh[1] = v[k + 1]
      BY <1>8, <3>1
    <3> QED BY <1>5, <1>8, <2>1, <2>2, <3>2
  <2>4. PICK i : i = g[m]
    OBVIOUS
  <2>5. i \in 1..Len(u) /\ u[i] = v[m]
    BY <1>6, <2>3, <2>4 DEF Embeds
  <2>6. E[u[i]].st = 2 /\ PromSim(E[u[i]], l.prom[v[m]])
    BY <1>2, <1>4, <1>7, <2>1, <2>3, <2>5
  <2>7. ~E[u[i]].handled /\ E[u[i]].val = l.prom[v[m]].val /\ l.prom[v[m]].st = 2
    BY <1>12, <2>3, <2>6 DEF PromSim, Pending
  <2>8. i \in Js!Unreported(e)
    BY <1>4, <2>5, <2>7 DEF Js!Unreported
  <2>9. ASSUME NEW y \in Js!Unreported(e) PROVE i <= y
    <3>1. PICK r \in 1..Len(v) : r > k /\ g[r] = y
      BY <1>10
    <3>2. y \in 1..Len(u)
      BY <1>10
    <3>3. r = m \/ m < r
      BY <1>8, <2>2, <3>1
    <3>4. m < r => i < y
      BY <1>6, <2>3, <2>4, <3>1 DEF Embeds
    <3> QED BY <2>4, <2>5, <3>1, <3>2, <3>3, <3>4
  <2>10. e.unh[i] = Head(s.unh) /\ i \in Nat
    BY <1>4, <1>5, <2>3, <2>5
  <2>11. /\ e.prom[e.unh[i]].st = 2 /\ s.prom[Head(s.unh)].st = 2
         /\ e.prom[e.unh[i]].val = s.prom[Head(s.unh)].val
    BY <1>4, <2>3, <2>5, <2>6, <2>7
  <2> QED BY <2>8, <2>9, <2>10, <2>11
<1> QED BY <1>11, <1>12

\* Reports and rest.
LEMMA RestReports ==
  ASSUME NEW e, NEW tr, NEW s, NEW n, AtRestBoth(e, tr, s, n), s.ph \in {"unh", "idle"}
  PROVE  RtEvent(s) = Js!JsEvent(e) /\ RtEvent(s).k \in {"report", "idle"}
<1>1. Good(s, n, <<>>) /\ PhaseFits(e, s) /\ RtEvent(s).k # "none" /\ Js!JsEvent(e).k # "none"
  BY DEF AtRestBoth
<1>2. PICK l : /\ Good(l, n, <<>>) /\ l \in RtType(n) /\ Trims(l, s) /\ Sim(e, l, n, Ctx(l), 0, 0)
               /\ s.prom = l.prom /\ s.mt = l.mt /\ s.tq = l.tq /\ e.ticks = s.tq /\ e \in JsType
  BY RestMeets
<1>3. s.mt = <<>> /\ s.tq = <<>> /\ (s.ph = "idle" => s.unh = <<>>)
  BY <1>1 DEF PhaseFits
<1>4. e.jobs = <<>>
  BY <1>1, <1>2, <1>3, JobHeads
<1>5. Js!Mode(e) = "rejections"
  BY <1>2, <1>3, <1>4, JsSees
<1>6. s.unh \in Seq(Ids)
  BY <1>1, GoodFacts DEF RtType
<1>7. /\ Js!Unreported(e) = {} => Js!JsEvent(e) = Event("idle", 0, 0, 0)
      /\ Js!Unreported(e) # {} =>
           LET i == CHOOSE x \in Js!Unreported(e) : \A y \in Js!Unreported(e) : x <= y
           IN  Js!JsEvent(e) = Event("report", e.unh[i], 2, e.prom[e.unh[i]].val)
  BY <1>5 DEF Js!JsEvent, Event
<1>8. CASE s.unh = <<>>
  <2>1. Js!JsEvent(e) = Event("idle", 0, 0, 0)
    BY <1>2, <1>4, <1>6, <1>7, <1>8, ReportPlaces
  <2>2. s.ph = "idle"
    BY <1>1, <1>8, RtQuiet
  <2>3. RtEvent(s) = Event("idle", 0, 0, 0)
    BY <1>1, <2>2, RtQuiet
  <2> QED BY <2>1, <2>3 DEF Event
<1>9. CASE s.unh # <<>>
  <2>1. s.ph = "unh"
    BY <1>3, <1>9
  <2>2. /\ ~s.prom[Head(s.unh)].handled
        /\ RtEvent(s) = Event("report", Head(s.unh), s.prom[Head(s.unh)].st, s.prom[Head(s.unh)].val)
    BY <1>1, <1>9, <2>1, RtQuiet
  <2>3. PICK i \in Js!Unreported(e) : /\ \A y \in Js!Unreported(e) : i <= y
                                      /\ e.unh[i] = Head(s.unh) /\ i \in Nat
                                      /\ e.prom[e.unh[i]].st = 2 /\ e.prom[e.unh[i]].val = s.prom[Head(s.unh)].val
                                      /\ s.prom[Head(s.unh)].st = 2
    BY <1>2, <1>4, <1>6, <1>9, <2>2, ReportPlaces
  <2>4. PICK x : x = CHOOSE z \in Js!Unreported(e) : \A y \in Js!Unreported(e) : z <= y
    OBVIOUS
  <2>5. x \in Js!Unreported(e) /\ \A y \in Js!Unreported(e) : x <= y
    BY <2>3, <2>4
  <2>6. Js!Unreported(e) \subseteq 1..Len(e.unh) /\ Len(e.unh) \in Nat
    BY <1>2 DEF Js!Unreported, JsType
  <2>7. x = i
    BY <2>3, <2>5, <2>6
  <2>8. Js!Unreported(e) # {}
    BY <2>3
  <2>9. Js!JsEvent(e) = Event("report", e.unh[x], 2, e.prom[e.unh[x]].val)
    BY <1>7, <2>4, <2>8
  <2>10. RtEvent(s) = Js!JsEvent(e)
    BY <2>2, <2>3, <2>7, <2>9
  <2> QED BY <2>2, <2>10 DEF Event
<1> QED BY <1>8, <1>9

\* So both machines do the same next, and what it is tells where they are.
LEMMA RestAgrees ==
  ASSUME NEW e, NEW tr, NEW s, NEW n, AtRestBoth(e, tr, s, n)
  PROVE  /\ RtEvent(s) = Js!JsEvent(e)
         /\ RtEvent(s).k \in {"then", "finally", "task", "queued"} => Draining(s)
         /\ RtEvent(s).k = "tick" => s.ph = "ticks"
         /\ RtEvent(s).k = "idle" => s.ph = "idle"
<1>1. Good(s, n, <<>>) /\ RtEvent(s).k # "none"
  BY DEF AtRestBoth
<1>2. s.ph \in {"jobs", "ticks", "mt", "unh", "idle"}
  BY <1>1, GoodFacts DEF RtType
<1>3. CASE s.ph \in {"jobs", "mt"}
  <2>1. Draining(s)
    BY <1>1, <1>3, RtQuiet
  <2>2. RtEvent(s) = Js!JsEvent(e) /\ Head(s.mt).fn \in {"then", "finally", "resume", "queued"} /\ RtEvent(s) = JobEvent(s, Head(s.mt))
    BY <2>1, RestJobs
  <2>3. RtEvent(s).k \in {"none", "then", "finally", "task", "queued"}
    BY <1>1, <2>1, GoodFacts, EventFacts
  <2> QED BY <2>1, <2>2, <2>3
<1>4. CASE s.ph = "ticks"
  <2>1. RtEvent(s) = Js!JsEvent(e) /\ RtEvent(s) = Event("tick", Head(s.tq), 0, 0)
    BY <1>4, RestTicks
  <2>2. RtEvent(s).k = "tick"
    BY <2>1 DEF Event
  <2> QED BY <1>4, <2>1, <2>2
<1>5. CASE s.ph \in {"unh", "idle"}
  <2>1. RtEvent(s) = Js!JsEvent(e) /\ RtEvent(s).k \in {"report", "idle"}
    BY <1>5, RestReports
  <2>2. RtEvent(s).k = "idle" => s.ph = "idle"
    <3> SUFFICES ASSUME s.ph = "unh" PROVE RtEvent(s).k # "idle"
      BY <1>5
    <3>1. s.unh # <<>>
      BY <1>1, RtQuiet
    <3>2. RtEvent(s) = Event("report", Head(s.unh), s.prom[Head(s.unh)].st, s.prom[Head(s.unh)].val)
      BY <1>1, <3>1, RtQuiet
    <3> QED BY <3>2 DEF Event
  <2> QED BY <2>1, <2>2
<1> QED BY <1>2, <1>3, <1>4, <1>5

-----------------------------------------------------------------------------
(* The steps of the program.                                               *)

\* Whose turn the queues have while code runs: k is the code at the bottom of the
\* stack, turn tells whether the event loop has run its callback.
TurnFits(m, h, k, turn) ==
    /\ k = "script" => m = (IF turn THEN "ticks" ELSE "jobs")
    /\ k = "tick" => m = "ticks" /\ h = "ticks"
    /\ k \in {"then", "finally", "task"} => m = "jobs" /\ h \in {"jobs", "mt"}

(* The inductive invariant: while the program's code runs the two machines *)
(* correspond; while they work off their queues the runtime is ahead by a  *)
(* trace of silent steps.                                                  *)
OrderInv ==
    /\ Running => Sim(es, rt, made, Ctx(rt), 0, 0) /\ TurnFits(es.mode, rt.ph, stack[1].k, turned)
    /\ ~Running => PhaseFits(es, rt) /\ \E tr : Behind(es, tr, rt, made)

\* What running code finds.
LEMMA RunningFacts ==
  ASSUME RunInv, OrderInv, Running
  PROVE  /\ Beside(es, rt, made, stack) /\ Good(rt, made, stack) /\ stack # <<>> /\ made \in Nat
         /\ Sim(es, rt, made, Ctx(rt), 0, 0) /\ TurnFits(es.mode, rt.ph, stack[1].k, turned)
         /\ es \in JsType /\ JsShaped(es) /\ Shaped(rt)
<1>1. Good(rt, made, stack) /\ made \in Nat /\ made >= Deferred /\ stack # <<>>
  BY DEF RunInv, Running
<1>2. Sim(es, rt, made, Ctx(rt), 0, 0) /\ TurnFits(es.mode, rt.ph, stack[1].k, turned)
  BY DEF OrderInv
<1>3. rt \in RtType(made) /\ Fine(rt, made, Ctx(rt), 0)
  BY <1>1, GoodFacts
<1>4. es \in JsType
  BY <1>2, <1>3, SimFacts
<1>5. JsShaped(es) /\ Shaped(rt)
  BY <1>3, <1>4, TrimsItself DEF JsType, JsShaped
<1> QED BY <1>1, <1>2, <1>4, <1>5 DEF Beside

\* The frames: the innermost is the only one unless it is a body.
LEMMA TopFacts ==
  ASSUME NEW s, NEW n, NEW stk, Good(s, n, stk), stk # <<>>
  PROVE  /\ Last(stk).k # "task" => Front(stk) = <<>>
         /\ Front(stk) = <<>> => stk[1] = Last(stk)
         /\ Front(stk) # <<>> => Front(stk)[1] = stk[1]
         /\ Last(stk).k = "task" => Last(stk).id = s.cur
         /\ Last(stk).k \in Waiters => s.run.fn = Last(stk).k /\ s.run.q = Last(stk).id
         /\ Last(stk).k \in {"script", "then", "finally", "tick", "task"}
         /\ \A x : Append(stk, x)[1] = stk[1] /\ Append(stk, x) # <<>>
<1>1. PICK m : m = Len(stk)
  OBVIOUS
<1>2. /\ Frames(stk, n, Ctx(s), s.cur, s.prev) /\ Ctx(s).run = s.run
  BY GoodFacts
<1>3. stk \in Seq(FrameType) /\ m \in Nat /\ m >= 1 /\ \A i \in 1..m : i > 1 => stk[i].k = "task"
  BY <1>1, <1>2 DEF Frames
<1>4. Last(stk) = stk[m] /\ Front(stk) = SubSeq(stk, 1, m - 1) /\ Last(stk) \in FrameType
  BY <1>1, <1>3 DEF Last, Front
<1>5. Front(stk) = <<>> <=> m = 1
  BY <1>3, <1>4
<1>6. m > 1 => Front(stk)[1] = stk[1]
  BY <1>3, <1>4
<1>7. Last(stk).k # "task" => m = 1
  BY <1>3, <1>4
<1>8. Last(stk).k = "task" => Last(stk).id = s.cur
  BY <1>2, FramesTop
<1>9. Last(stk).k \in Waiters => s.run.fn = Last(stk).k /\ s.run.q = Last(stk).id
  <2> SUFFICES ASSUME Last(stk).k \in Waiters PROVE s.run.fn = Last(stk).k /\ s.run.q = Last(stk).id
    OBVIOUS
  <2>1. m = 1
    BY <1>7 DEF Waiters
  <2>2. stk[1].k \in Waiters
    BY <1>4, <2>1
  <2> QED BY <1>2, <1>4, <2>1, <2>2 DEF Frames
<1>10. \A x : Append(stk, x)[1] = stk[1] /\ Append(stk, x) # <<>>
  BY <1>1, <1>3
<1>11. Last(stk).k \in {"script", "then", "finally", "tick", "task"}
  BY <1>4 DEF FrameType
<1>12. /\ Last(stk).k # "task" => Front(stk) = <<>>
       /\ Front(stk) = <<>> => stk[1] = Last(stk)
       /\ Front(stk) # <<>> => Front(stk)[1] = stk[1]
  <2>1. m # 1 => m > 1
    BY <1>3
  <2>2. Last(stk) = stk[m]
    BY <1>4
  <2> QED BY <1>5, <1>6, <1>7, <2>1, <2>2
<1> QED BY <1>8, <1>9, <1>10, <1>11, <1>12

\* A step that leaves its code running.
LEMMA StaysRunning ==
  ASSUME RunInv, OrderInv, Running, stack' = stack \/ \E x : stack' = Append(stack, x), turned' = turned,
         Sim(es', rt', made', Ctx(rt'), 0, 0), es'.mode = es.mode, rt'.ph = rt.ph
  PROVE  OrderInv'
<1>1. Good(rt, made, stack) /\ stack # <<>> /\ TurnFits(es.mode, rt.ph, stack[1].k, turned)
  BY RunningFacts
<1>2. stack' # <<>> /\ stack'[1] = stack[1]
  BY <1>1, TopFacts
<1>3. TurnFits(es'.mode, rt'.ph, stack'[1].k, turned')
  BY <1>1, <1>2
<1>4. Running'
  BY <1>2 DEF Running
<1> QED BY <1>3, <1>4 DEF OrderInv

\* Running code ends.
LEMMA StopsRunning ==
  ASSUME RunInv, OrderInv, Running, stack' = Front(stack), turned' = turned, made' = made, RunInv',
         Sim(es', rt', made', Ctx(rt'), 0, 0), es'.mode = es.mode,
         Top.k # "script" => rt'.ph = rt.ph, Top.k = "script" => rt'.ph = (IF turned THEN "ticks" ELSE "jobs")
  PROVE  OrderInv'
<1>1. Good(rt, made, stack) /\ stack # <<>> /\ TurnFits(es.mode, rt.ph, stack[1].k, turned) /\ Top = Last(stack)
  BY RunningFacts DEF Top
<1>2. CASE Front(stack) # <<>>
  <2>1. Running' /\ stack'[1] = stack[1] /\ rt'.ph = rt.ph
    <3>1. Last(stack).k = "task" /\ Front(stack)[1] = stack[1]
      BY <1>1, <1>2, TopFacts
    <3> QED BY <1>1, <1>2, <3>1 DEF Running
  <2>2. TurnFits(es'.mode, rt'.ph, stack'[1].k, turned')
    BY <1>1, <2>1
  <2> QED BY <2>1, <2>2 DEF OrderInv
<1>3. CASE Front(stack) = <<>>
  <2>1. ~Running' /\ stack' = <<>>
    BY <1>3 DEF Running
  <2>2. Good(rt', made', <<>>)
    BY <2>1 DEF RunInv
  <2>3. \E tr : Behind(es', tr, rt', made')
    BY <2>2, NowBehind
  <2>4. stack[1] = Last(stack) /\ Last(stack).k \in {"script", "then", "finally", "tick", "task"}
    BY <1>1, <1>3, TopFacts
  <2>5. (es'.mode = "ticks" /\ rt'.ph = "ticks") \/ (es'.mode = "jobs" /\ rt'.ph \in {"jobs", "mt"})
    <3>1. CASE Top.k = "script"
      BY <1>1, <2>4, <3>1 DEF TurnFits
    <3>2. CASE Top.k # "script"
      BY <1>1, <2>4, <3>2 DEF TurnFits
    <3> QED BY <3>1, <3>2
  <2>6. PhaseFits(es', rt')
    BY <2>5 DEF PhaseFits
  <2> QED BY <2>1, <2>3, <2>6 DEF OrderInv
<1> QED BY <1>2, <1>3

\* The operations of the running code keep the correspondence.
LEMMA OpsOrder ==
  ASSUME RunInv, OrderInv, Running, ops > 0
  PROVE  /\ \A p \in Known : \A st \in {Fulfilled, Rejected} : CallThen(p, {st}) => OrderInv'
         /\ \A p \in Known : CallFinally(p) => OrderInv'
         /\ \A p \in 1..Deferred : (CallResolve(p) => OrderInv') /\ (CallReject(p) => OrderInv')
         /\ \A kind \in Kinds, members \in Members : CallCombinator(kind, members) => OrderInv'
         /\ CallNextTick => OrderInv'
         /\ CallAsync => OrderInv'
<1>1. /\ Beside(es, rt, made, stack) /\ stack # <<>> /\ made \in Nat /\ JsShaped(es) /\ Shaped(rt)
  BY RunningFacts
<1>2. PICK q, e, s, n, stk : q = New /\ e = es /\ s = rt /\ n = made /\ stk = stack
  OBVIOUS
<1>3. /\ Beside(e, s, n, stk) /\ stk # <<>> /\ JsShaped(e) /\ Shaped(s) /\ q = n + 1 /\ q \in Ids /\ n \in Nat /\ ops \in Nat
  BY <1>1, <1>2, PromiseAssumption DEF RunInv, New, Ids
<1>4. ASSUME NEW js, NEW r, NEW k, NEW m, Do(js, r, k), m = n + k, n \in Nat, Sim(js, r, m, Ctx(r), 0, 0), JsKept(e, js), r.ph = s.ph
      PROVE  OrderInv'
  <2>1. es' = js /\ rt' = r /\ made' = m /\ stack' = stack /\ turned' = turned
    BY <1>2, <1>4 DEF Do
  <2>2. Sim(es', rt', made', Ctx(rt'), 0, 0)
    BY <1>4, <2>1
  <2>3. es'.mode = es.mode /\ rt'.ph = rt.ph
    BY <1>2, <1>4, <2>1 DEF JsKept
  <2> QED BY <2>1, <2>2, <2>3, StaysRunning
<1>5. q = n + 1 /\ n = n + 0
  BY <1>3
<1>6. ASSUME NEW p \in Known, NEW st \in {Fulfilled, Rejected}, CallThen(p, {st}) PROVE OrderInv'
  <2>1. PICK on \in SUBSET Done : on = {st}
    BY DEF Done
  <2>2. p \in 1..n
    BY <1>2 DEF Known
  <2>3. PICK js, r : js = Js!JsThen(e, p, q, on) /\ r = Then(s, p, q, on)
    OBVIOUS
  <2>4. Sim(js, r, q, Ctx(r), 0, 0)
    BY <1>3, <2>2, <2>3, ThenSim
  <2>5. JsKept(e, js) /\ Kept(s, r)
    BY <1>3, <2>3, JsOpsKeep, OpsKeep
  <2>6. Do(js, r, 1)
    BY <1>2, <1>6, <2>1, <2>3 DEF CallThen
  <2>7. r.ph = s.ph
    BY <2>5 DEF Kept
  <2> QED BY <1>3, <1>4, <1>5, <2>4, <2>5, <2>6, <2>7
<1>7. ASSUME NEW p \in Known, CallFinally(p) PROVE OrderInv'
  <2>1. p \in 1..n
    BY <1>2 DEF Known
  <2>2. PICK js, r : js = Js!JsFinally(e, p, q) /\ r = Finally(s, p, q)
    OBVIOUS
  <2>3. Sim(js, r, q, Ctx(r), 0, 0)
    BY <1>3, <2>1, <2>2, ThenSim
  <2>4. JsKept(e, js) /\ Kept(s, r)
    BY <1>3, <2>2, JsOpsKeep, OpsKeep
  <2>5. Do(js, r, 1)
    BY <1>2, <1>7, <2>2 DEF CallFinally
  <2>6. r.ph = s.ph
    BY <2>4 DEF Kept
  <2> QED BY <1>3, <1>4, <1>5, <2>3, <2>4, <2>5, <2>6
<1>8. ASSUME NEW p \in 1..Deferred PROVE (CallResolve(p) => OrderInv') /\ (CallReject(p) => OrderInv')
  <2>1. PICK js, r, je, re : /\ js = Js!JsSettle(e, p, 1, p) /\ r = ResolveThunk(s, p, p)
                             /\ je = Js!JsSettle(e, p, 2, p) /\ re = RejectWith(s, p, p)
    OBVIOUS
  <2>2. Sim(js, r, n, Ctx(r), 0, 0) /\ Sim(je, re, n, Ctx(re), 0, 0)
    BY <1>3, <2>1, ResolveSim
  <2>3. JsKept(e, js) /\ JsKept(e, je) /\ Kept(s, r) /\ Kept(s, re)
    BY <1>3, <2>1, JsPartsKeep, OpsKeep
  <2>4. r.ph = s.ph /\ re.ph = s.ph
    BY <2>3 DEF Kept
  <2>5. (CallResolve(p) => Do(js, r, 0)) /\ (CallReject(p) => Do(je, re, 0))
    BY <1>2, <2>1 DEF CallResolve, CallReject
  <2> QED BY <1>3, <1>4, <1>5, <2>2, <2>3, <2>4, <2>5
<1>9. ASSUME NEW kind \in Kinds, NEW members \in Members, CallCombinator(kind, members) PROVE OrderInv'
  <2>1. kind \in {"all", "allSettled", "any", "race"} /\ members \in {<<>>} \cup ((1..n) \X (1..n))
    BY <1>2, PromiseAssumption DEF Members, Known
  <2>2. PICK js, r : js = Js!JsCombinator(e, kind, q, members) /\ r = Combinator(s, kind, q, members)
    OBVIOUS
  <2>3. Sim(js, r, q, Ctx(r), 0, 0)
    BY <1>3, <2>1, <2>2, CombinatorSim
  <2>4. JsKept(e, js) /\ Kept(s, r)
    BY <1>3, <2>2, JsOpsKeep, CombsKeep
  <2>5. Do(js, r, 1)
    BY <1>2, <1>9, <2>2 DEF CallCombinator
  <2>6. r.ph = s.ph
    BY <2>4 DEF Kept
  <2> QED BY <1>3, <1>4, <1>5, <2>3, <2>4, <2>5, <2>6
<1>10. ASSUME CallNextTick PROVE OrderInv'
  <2>1. PICK js, r : js = Js!JsTick(e, ops) /\ r = NextTick(s, ops)
    OBVIOUS
  <2>2. Sim(js, r, n, Ctx(r), 0, 0)
    BY <1>3, <2>1, TickSim
  <2>3. JsKept(e, js) /\ r.ph = s.ph
    BY <1>3, <2>1, JsPartsKeep, OpsKeep
  <2>4. Do(js, r, 0)
    BY <1>2, <1>10, <2>1 DEF CallNextTick
  <2> QED BY <1>3, <1>4, <1>5, <2>2, <2>3, <2>4
<1>11. ASSUME CallAsync PROVE OrderInv'
  <2>1. /\ es' = e /\ rt' = SpawnTask(s, q) /\ stack' = Append(stack, [k |-> "task", id |-> q]) /\ made' = q
        /\ turned' = turned
    BY <1>2, <1>11 DEF CallAsync
  <2>2. PICK r : r = SpawnTask(s, q)
    OBVIOUS
  <2>3. Sim(e, r, q, Ctx(r), 0, 0)
    BY <1>3, <2>2, AsyncSim
  <2>4. Kept(s, r)
    BY <1>3, <2>2, OpsKeep
  <2>5. Sim(es', rt', made', Ctx(rt'), 0, 0)
    BY <2>1, <2>2, <2>3
  <2>6. es'.mode = es.mode /\ rt'.ph = rt.ph
    BY <1>2, <2>1, <2>2, <2>4 DEF Kept
  <2> QED BY <2>1, <2>5, <2>6, StaysRunning
<1> QED BY <1>6, <1>7, <1>8, <1>9, <1>10, <1>11

\* The ways running code ends keep it.
LEMMA EndsOrder ==
  ASSUME RunInv, OrderInv, Running, RunInv'
  PROVE  /\ EndScript \/ EndTick \/ CallbackReturn \/ CallbackThrow \/ AsyncReturn \/ AsyncThrow \/ AwaitValue
              => OrderInv'
         /\ \A p \in Known : CallbackReturnPromise(p) \/ AsyncReturnPromise(p) \/ Await(p) => OrderInv'
<1>1. /\ Beside(es, rt, made, stack) /\ Good(rt, made, stack) /\ stack # <<>> /\ made \in Nat /\ JsShaped(es) /\ Shaped(rt)
      /\ Sim(es, rt, made, Ctx(rt), 0, 0)
  BY RunningFacts
<1>2. PICK e, s, n, stk : e = es /\ s = rt /\ n = made /\ stk = stack
  OBVIOUS
<1>3. /\ Beside(e, s, n, stk) /\ Good(s, n, stk) /\ stk # <<>> /\ JsShaped(e) /\ Shaped(s) /\ n \in Nat /\ Top = Last(stk)
      /\ Sim(e, s, n, Ctx(s), 0, 0)
  BY <1>1, <1>2 DEF Top
<1>4. ASSUME NEW js, NEW r, Leave(js, r), Sim(js, r, n, Ctx(r), 0, 0), JsKept(e, js), Top.k # "script" => Kept(s, r),
             Top.k = "script" => r.ph = (IF turned THEN "ticks" ELSE "jobs")
      PROVE  OrderInv'
  <2>1. es' = js /\ rt' = r /\ made' = made /\ stack' = Front(stack) /\ turned' = turned /\ made' = n
    BY <1>2, <1>4 DEF Leave
  <2>2. Sim(es', rt', made', Ctx(rt'), 0, 0)
    BY <1>4, <2>1
  <2>3. es'.mode = es.mode /\ (Top.k # "script" => rt'.ph = rt.ph)
    BY <1>2, <1>4, <2>1 DEF JsKept, Kept
  <2>4. Top.k = "script" => rt'.ph = (IF turned THEN "ticks" ELSE "jobs")
    BY <1>4, <2>1
  <2> QED BY <2>1, <2>2, <2>3, <2>4, StopsRunning
<1>5. JsKept(e, e) /\ Kept(s, s)
  BY <1>3, JsPartsKeep, PartsKeep
<1>6. ASSUME EndScript PROVE OrderInv'
  <2>1. PICK r : r = IF turned THEN AfterMacrotask(s) ELSE AfterModule(s)
    OBVIOUS
  <2>2. Leave(e, r) /\ Top.k = "script"
    BY <1>2, <1>6, <2>1 DEF EndScript
  <2>3. r \in {AfterModule(s), AfterMacrotask(s)}
    BY <2>1
  <2>4. Sim(e, r, n, Ctx(r), 0, 0)
    BY <1>3, <2>3, EndSim
  <2>5. r.ph = (IF turned THEN "ticks" ELSE "jobs")
    BY <1>3, <2>1 DEF AfterMacrotask, AfterModule, Shaped
  <2> QED BY <1>4, <1>5, <2>2, <2>4, <2>5
<1>7. ASSUME EndTick PROVE OrderInv'
  <2>1. Leave(e, s) /\ Top.k # "script"
    BY <1>2, <1>7 DEF EndTick
  <2> QED BY <1>3, <1>4, <1>5, <2>1
<1>8. ASSUME InCallback
      PROVE  /\ \E v \in Vals : v = Top.id
             /\ Ready(e, s, n, WithRun(Ctx(s), NoClosure), s.run.q, s.run.p, e.call)
             /\ s.run.fn \in {"then", "finally"} /\ Top.k # "script"
  <2>1. Last(stk).k \in Waiters
    BY <1>3, <1>8 DEF InCallback, Waiters
  <2>2. s.run.fn = Last(stk).k /\ s.run.q = Last(stk).id
    BY <1>3, <2>1, TopFacts
  <2>3. s.run.q \in Ids
    BY <1>3, <2>1, CallbackFacts
  <2>4. Ready(e, s, n, WithRun(Ctx(s), NoClosure), s.run.q, s.run.p, e.call)
    BY <1>3, <2>1, CallbackReady
  <2>5. Ids \subseteq Vals
    BY PromiseAssumption DEF Ids, Vals
  <2> QED BY <1>3, <2>1, <2>2, <2>3, <2>4, <2>5 DEF Waiters
<1>9. ASSUME CallbackReturn \/ CallbackThrow PROVE OrderInv'
  <2>1. InCallback
    BY <1>9 DEF CallbackReturn, CallbackThrow
  <2>2. PICK v \in Vals : v = Top.id
    BY <1>8, <2>1
  <2>3. PICK c, q, p, j : Ready(e, s, n, c, q, p, j)
    BY <1>8, <2>1
  <2>4. PICK js, r, je, re : /\ js = Js!JsReturned(Js!JsCallReturns(e, v)) /\ r = RtReturned(CallbackReturns(s, v))
                             /\ je = Js!JsReturned(Js!JsCallThrows(e, v)) /\ re = RtReturned(CallbackThrows(s, v))
    OBVIOUS
  <2>5. Sim(je, re, n, Ctx(re), 0, 0)
    BY <2>3, <2>4, OutcomeSim
  <2>6. Sim(js, r, n, Ctx(r), 0, 0)
    <3>1. CASE s.run.fn = "then"
      BY <2>3, <2>4, <3>1, OutcomeSim
    <3>2. CASE s.run.fn = "finally"
      BY <2>3, <2>4, <3>2, FinallySim
    <3> QED BY <1>8, <2>1, <3>1, <3>2
  <2>7. JsKept(e, js) /\ JsKept(e, je) /\ Kept(s, r) /\ Kept(s, re)
    BY <1>3, <2>4, JsOpsKeep, LeavesKeep
  <2>8. Leave(js, r) \/ Leave(je, re)
    BY <1>2, <1>9, <2>2, <2>4 DEF CallbackReturn, CallbackThrow
  <2>9. Top.k # "script"
    BY <1>8, <2>1
  <2> QED BY <1>4, <2>5, <2>6, <2>7, <2>8, <2>9
<1>10. ASSUME NEW p \in Known, CallbackReturnPromise(p) PROVE OrderInv'
  <2>1. InCallback
    BY <1>10 DEF CallbackReturnPromise
  <2>2. PICK h \in 1..n : h = p
    BY <1>2 DEF Known
  <2>3. PICK c, q, o, j : Ready(e, s, n, c, q, o, j)
    BY <1>8, <2>1
  <2>4. PICK js, r : js = Js!JsReturned(Js!JsCallReturnsPromise(e, h)) /\ r = RtReturned(CallbackReturnsPromise(s, h))
    OBVIOUS
  <2>5. Sim(js, r, n, Ctx(r), 0, 0)
    <3>1. CASE s.run.fn = "then"
      BY <2>3, <2>4, <3>1, FollowSim
    <3>2. CASE s.run.fn = "finally"
      BY <2>3, <2>4, <3>2, FinallyFollowSim
    <3> QED BY <1>8, <2>1, <3>1, <3>2
  <2>6. JsKept(e, js) /\ Kept(s, r)
    BY <1>3, <2>4, JsOpsKeep, LeavesKeep
  <2>7. Leave(js, r)
    BY <1>2, <1>10, <2>2, <2>4 DEF CallbackReturnPromise
  <2>8. Top.k # "script"
    BY <1>8, <2>1
  <2> QED BY <1>4, <2>5, <2>6, <2>7, <2>8
<1>11. ASSUME InTask PROVE Last(stk).k = "task" /\ Top.k # "script" /\ (\E v \in Vals : v = Top.id) /\ Top.id = s.cur
  <2>1. Last(stk).k = "task"
    BY <1>3, <1>11 DEF InTask
  <2>2. Last(stk).id = s.cur /\ s.cur \in Ids
    <3>1. Good(s, n, stk) /\ stk # <<>> /\ Last(stk).k = "task"
      BY <1>3, <2>1
    <3>2. Frames(stk, n, Ctx(s), s.cur, s.prev) /\ 1..n \subseteq Ids
      BY <3>1, GoodFacts
    <3> QED BY <3>1, <3>2, FramesTop
  <2>3. Ids \subseteq Vals
    BY PromiseAssumption DEF Ids, Vals
  <2> QED BY <1>3, <2>1, <2>2, <2>3
<1>12. ASSUME AsyncReturn \/ AsyncThrow PROVE OrderInv'
  <2>1. InTask
    BY <1>12 DEF AsyncReturn, AsyncThrow
  <2>2. PICK v \in Vals : v = Top.id
    BY <1>11, <2>1
  <2>3. PICK t : t = s.cur
    OBVIOUS
  <2>4. PICK js, r, je, re : /\ js = Js!JsSettle(e, t, 1, v) /\ r = TaskFinish(s, v)
                             /\ je = Js!JsSettle(e, t, 2, v) /\ re = TaskReject(s, v)
    OBVIOUS
  <2>5. Last(stk).k = "task" /\ Top.k # "script" /\ Top.id = t
    BY <1>11, <2>1, <2>3
  <2>6. Sim(js, r, n, Ctx(r), 0, 0) /\ Sim(je, re, n, Ctx(re), 0, 0)
    BY <1>3, <2>3, <2>4, <2>5, TaskEndSim
  <2>7. JsKept(e, js) /\ JsKept(e, je) /\ Kept(s, r) /\ Kept(s, re)
    BY <1>3, <2>4, JsPartsKeep, LeavesKeep
  <2>8. Leave(js, r) \/ Leave(je, re)
    BY <1>2, <1>12, <2>2, <2>4, <2>5 DEF AsyncReturn, AsyncThrow
  <2> QED BY <1>4, <2>5, <2>6, <2>7, <2>8
<1>13. ASSUME NEW p \in Known, AsyncReturnPromise(p) PROVE OrderInv'
  <2>1. InTask
    BY <1>13 DEF AsyncReturnPromise
  <2>2. PICK h \in 1..n : h = p
    BY <1>2 DEF Known
  <2>3. PICK t : t = s.cur
    OBVIOUS
  <2>4. PICK js, r : js = Js!JsResolveWith(e, t, h) /\ r = TaskAdopted(s, h)
    OBVIOUS
  <2>5. Last(stk).k = "task" /\ Top.k # "script" /\ Top.id = t
    BY <1>11, <2>1, <2>3
  <2>6. Sim(js, r, n, Ctx(r), 0, 0)
    BY <1>3, <2>3, <2>4, <2>5, TaskAdoptedSim
  <2>7. JsKept(e, js) /\ Kept(s, r)
    BY <1>3, <2>4, JsPartsKeep, LeavesKeep
  <2>8. Leave(js, r)
    BY <1>2, <1>13, <2>2, <2>4, <2>5 DEF AsyncReturnPromise
  <2> QED BY <1>4, <2>5, <2>6, <2>7, <2>8
<1>14. ASSUME NEW p \in Known, Await(p) PROVE OrderInv'
  <2>1. InTask
    BY <1>14 DEF Await
  <2>2. PICK h \in 1..n : h = p
    BY <1>2 DEF Known
  <2>3. PICK t : t = s.cur
    OBVIOUS
  <2>4. PICK js, r : js = Js!JsAwait(e, t, h) /\ r = AwaitReady(s, h)
    OBVIOUS
  <2>5. Last(stk).k = "task" /\ Top.k # "script" /\ Top.id = t
    BY <1>11, <2>1, <2>3
  <2>6. Sim(js, r, n, Ctx(r), 0, 0)
    BY <1>3, <2>3, <2>4, <2>5, AwaitSim
  <2>7. JsKept(e, js) /\ Kept(s, r)
    BY <1>3, <2>4, JsOpsKeep, LeavesKeep
  <2>8. Leave(js, r)
    BY <1>2, <1>14, <2>2, <2>4, <2>5 DEF Await
  <2> QED BY <1>4, <2>5, <2>6, <2>7, <2>8
<1>15. ASSUME AwaitValue PROVE OrderInv'
  <2>1. InTask
    BY <1>15 DEF AwaitValue
  <2>2. PICK t : t = s.cur
    OBVIOUS
  <2>3. PICK js, r : js = Js!JsAwaitPlain(e, t) /\ r = AwaitPlain(s)
    OBVIOUS
  <2>4. Last(stk).k = "task" /\ Top.k # "script" /\ Top.id = t
    BY <1>11, <2>1, <2>2
  <2>5. Sim(js, r, n, Ctx(r), 0, 0)
    BY <1>3, <2>2, <2>3, <2>4, AwaitSim
  <2>6. JsKept(e, js) /\ Kept(s, r)
    BY <1>3, <2>3, JsPartsKeep, LeavesKeep
  <2>7. Leave(js, r)
    BY <1>2, <1>15, <2>3, <2>4 DEF AwaitValue
  <2> QED BY <1>4, <2>4, <2>5, <2>6, <2>7
<1> QED BY <1>6, <1>7, <1>9, <1>10, <1>12, <1>13, <1>14, <1>15

\* What the queues find at rest.
LEMMA RestFacts ==
  ASSUME RunInv, OrderInv, AtRest
  PROVE  /\ \E tr : AtRestBoth(es, tr, rt, made)
         /\ Good(rt, made, <<>>) /\ PhaseFits(es, rt) /\ made \in Nat /\ made >= Deferred /\ stack = <<>>
         /\ es \in JsType /\ JsShaped(es) /\ Shaped(rt)
<1>1. stack = <<>> /\ ~Running /\ Js!JsEvent(es).k # "none" /\ RtEvent(rt).k # "none"
  BY DEF AtRest, Running, JsBusy, RtBusy
<1>2. Good(rt, made, <<>>) /\ made \in Nat /\ made >= Deferred
  BY <1>1 DEF RunInv
<1>3. PhaseFits(es, rt) /\ \E tr : Behind(es, tr, rt, made)
  BY <1>1 DEF OrderInv
<1>4. PICK tr : Behind(es, tr, rt, made)
  BY <1>3
<1>5. AtRestBoth(es, tr, rt, made)
  BY <1>1, <1>2, <1>3, <1>4 DEF AtRestBoth
<1>6. es \in JsType
  BY <1>4, BehindFacts
<1>7. rt \in RtType(made)
  BY <1>2, GoodFacts
<1>8. JsShaped(es) /\ Shaped(rt)
  BY <1>6, <1>7, TrimsItself DEF JsType, JsShaped
<1> QED BY <1>1, <1>2, <1>3, <1>5, <1>6, <1>8

\* A silent step of either machine.
LEMMA QueueOrder ==
  ASSUME RunInv, OrderInv, QueueStep
  PROVE  OrderInv'
<1>1. PICK e, s, n : e = es /\ s = rt /\ n = made
  OBVIOUS
<1>2. ~Running /\ stack = <<>> /\ stack' = stack /\ made' = n
  BY <1>1 DEF QueueStep, Running
<1>3. Good(s, n, <<>>) /\ PhaseFits(e, s)
  BY <1>1, <1>2 DEF RunInv, OrderInv
<1>4. PICK tr : Behind(e, tr, s, n)
  BY <1>1, <1>2 DEF OrderInv
<1>5. ~Running'
  BY <1>2 DEF Running
<1>6. ASSUME NEW e2, NEW s2, es' = e2, rt' = s2, PhaseFits(e2, s2), \E u : Behind(e2, u, s2, n) PROVE OrderInv'
  <2>1. PhaseFits(es', rt') /\ \E u : Behind(es', u, rt', made')
    BY <1>2, <1>6
  <2> QED BY <1>5, <2>1 DEF OrderInv
<1>7. CASE RtBusy
  <2>1. PICK t : t = RtSilent(s)
    OBVIOUS
  <2>2. RtEvent(s).k = "none" /\ rt' = t /\ es' = e
    BY <1>1, <1>7, <2>1 DEF RtBusy, QueueStep
  <2>3. PhaseFits(e, t) /\ \E u : Behind(e, u, t, n)
    BY <1>3, <1>4, <2>1, <2>2, RtMoves
  <2> QED BY <1>6, <2>2, <2>3
<1>8. CASE ~RtBusy
  <2>1. PICK e2 : e2 = Js!JsSilent(e)
    OBVIOUS
  <2>2. RtEvent(s).k # "none" /\ Js!JsEvent(e).k = "none" /\ rt' = s /\ es' = e2
    BY <1>1, <1>8, <2>1 DEF RtBusy, JsBusy, QueueStep
  <2>3. PhaseFits(e2, s) /\ \E u : Behind(e2, u, s, n)
    BY <1>3, <1>4, <2>1, <2>2, JsMoves
  <2> QED BY <1>6, <2>2, <2>3
<1> QED BY <1>7, <1>8

\* The drains enter the program's code: the same code.
LEMMA EnterOrder ==
  ASSUME RunInv, OrderInv, Enter
  PROVE  OrderInv'
<1>1. AtRest
  BY DEF Enter
<1>2. PICK e, s, n, ev : e = es /\ s = rt /\ n = made /\ ev = RtEvent(rt)
  OBVIOUS
<1>3. /\ Good(s, n, <<>>) /\ n \in Nat /\ n >= Deferred /\ e \in JsType /\ JsShaped(e) /\ Shaped(s)
      /\ \E tr : AtRestBoth(e, tr, s, n)
  BY <1>1, <1>2, RestFacts
<1>4. PICK tr : AtRestBoth(e, tr, s, n)
  BY <1>3
<1>5. /\ ev.k \in {"then", "finally", "task", "tick"} /\ es' = Js!JsCall(e) /\ rt' = RtCall(s)
      /\ stack' = <<[k |-> ev.k, id |-> ev.id]>> /\ made' = n /\ turned' = turned
  BY <1>2 DEF Enter
<1>6. Running' /\ stack'[1].k = ev.k
  BY <1>5 DEF Running
<1>7. /\ Js!JsCall(e).mode = (IF Js!Mode(e) = "ticks" THEN "ticks" ELSE "jobs")
      /\ RtCall(s).ph = s.ph
  BY <1>3, JsTurns, CallKeeps
<1>8. ASSUME Sim(Js!JsCall(e), RtCall(s), n, Ctx(RtCall(s)), 0, 0), TurnFits(Js!JsCall(e).mode, RtCall(s).ph, ev.k, turned)
      PROVE  OrderInv'
  <2>1. Sim(es', rt', made', Ctx(rt'), 0, 0)
    BY <1>5, <1>8
  <2>2. TurnFits(es'.mode, rt'.ph, stack'[1].k, turned')
    BY <1>5, <1>6, <1>8
  <2> QED BY <1>6, <2>1, <2>2 DEF OrderInv
<1>9. CASE ev.k \in {"then", "finally", "task"}
  <2>1. Draining(s)
    BY <1>2, <1>4, <1>9, RestAgrees
  <2>2. /\ Js!Mode(e) = "jobs" /\ s.ph \in {"jobs", "mt"}
        /\ \E f : Heads(s, n, <<>>, e, f, Ctx(s), Head(e.jobs), Head(s.mt), JsPop(e), Taken(s))
    BY <1>4, <2>1, RestJobs
  <2>3. PICK f : Heads(s, n, <<>>, e, f, Ctx(s), Head(e.jobs), Head(s.mt), JsPop(e), Taken(s))
    BY <2>2
  <2>4. PICK c, j, d, e1, s1, stk : c = Ctx(s) /\ j = Head(e.jobs) /\ d = Head(s.mt) /\ e1 = JsPop(e) /\ s1 = Taken(s) /\ stk = <<>>
    OBVIOUS
  <2>5. Heads(s, n, stk, e, f, c, j, d, e1, s1) /\ Js!Mode(e) # "ticks" /\ s.ph # "ticks"
    BY <2>2, <2>3, <2>4
  <2>6. s \in RtType(n)
    BY <1>3, GoodFacts
  <2>7. (ev.k \in {"then", "finally"} => d.fn = ev.k) /\ (ev.k = "task" => d.fn = "resume")
    BY <1>2, <1>3, <2>1, <2>4, <2>6, EventFacts
  <2>8. Sim(Js!JsCall(e), RtCall(s), n, Ctx(RtCall(s)), 0, 0)
    <3>1. CASE ev.k = "task"
      BY <2>5, <2>7, <3>1, EnterBodySim
    <3>2. CASE ev.k # "task"
      <4>1. d.fn \in Waiters
        BY <1>9, <2>7, <3>2 DEF Waiters
      <4> QED BY <2>5, <4>1, EnterCallbackSim
    <3> QED BY <3>1, <3>2
  <2>9. TurnFits(Js!JsCall(e).mode, RtCall(s).ph, ev.k, turned)
    BY <1>7, <1>9, <2>2 DEF TurnFits
  <2> QED BY <1>8, <2>8, <2>9
<1>10. CASE ev.k = "tick"
  <2>1. s.ph = "ticks"
    BY <1>2, <1>4, <1>10, RestAgrees
  <2>2. Js!Mode(e) = "ticks" /\ s.tq # <<>> /\ Sim(e, s, n, Ctx(s), 0, 0)
    BY <1>4, <2>1, RestTicks
  <2>3. PICK stk : stk = <<>> /\ Beside(e, s, n, stk)
    BY <1>3, <2>2 DEF Beside
  <2>4. Sim(Js!JsCall(e), RtCall(s), n, Ctx(RtCall(s)), 0, 0)
    BY <2>1, <2>2, <2>3, EnterTickSim
  <2>5. TurnFits(Js!JsCall(e).mode, RtCall(s).ph, ev.k, turned)
    BY <1>7, <1>10, <2>1, <2>2 DEF TurnFits
  <2> QED BY <1>8, <2>4, <2>5
<1> QED BY <1>5, <1>9, <1>10

\* The clock's microtask.
LEMMA ClockOrder ==
  ASSUME RunInv, OrderInv, RunInv', ClockRound
  PROVE  OrderInv'
<1>1. AtRest
  BY DEF ClockRound
<1>2. PICK e, s, n, m : e = es /\ s = rt /\ n = made /\ m = RtEvent(rt).id
  OBVIOUS
<1>3. /\ Good(s, n, <<>>) /\ n \in Nat /\ n >= Deferred /\ e \in JsType /\ JsShaped(e) /\ Shaped(s) /\ stack = <<>>
      /\ \E tr : AtRestBoth(e, tr, s, n)
  BY <1>1, <1>2, RestFacts
<1>4. PICK tr : AtRestBoth(e, tr, s, n)
  BY <1>3
<1>5. PICK js, r : js = Js!JsReturned(Js!JsCall(e)) /\ r = RtReturned(RtCall(s))
  OBVIOUS
<1>6. /\ RtEvent(s).k = "queued" /\ stack' = <<>> /\ made' = n
      /\ es' = IF m > 1 THEN Js!JsQueueMicrotask(js, m - 1) ELSE js
      /\ rt' = IF m > 1 THEN QueueMicrotask(r, m - 1) ELSE r
  BY <1>2, <1>3, <1>5 DEF ClockRound
<1>7. Draining(s)
  BY <1>4, <1>6, RestAgrees
<1>8. /\ Js!Mode(e) = "jobs" /\ s.ph \in {"jobs", "mt"}
      /\ \E f : Heads(s, n, <<>>, e, f, Ctx(s), Head(e.jobs), Head(s.mt), JsPop(e), Taken(s))
  BY <1>4, <1>7, RestJobs
<1>9. PICK f : Heads(s, n, <<>>, e, f, Ctx(s), Head(e.jobs), Head(s.mt), JsPop(e), Taken(s))
  BY <1>8
<1>10. PICK c, j, d, e1, s1, stk : c = Ctx(s) /\ j = Head(e.jobs) /\ d = Head(s.mt) /\ e1 = JsPop(e) /\ s1 = Taken(s) /\ stk = <<>>
  OBVIOUS
<1>11. Heads(s, n, stk, e, f, c, j, d, e1, s1) /\ Js!Mode(e) # "ticks" /\ s.ph # "ticks"
  BY <1>8, <1>9, <1>10
<1>12. s \in RtType(n)
  BY <1>3, GoodFacts
<1>13. d.fn = "queued"
  BY <1>3, <1>6, <1>7, <1>10, <1>12, EventFacts
<1>14. Sim(js, r, n, Ctx(r), 0, 0)
  BY <1>3, <1>5, <1>6, <1>11, <1>13, ClockSim
<1>15. m \in Nat /\ Good(r, n, stk)
  BY <1>2, <1>3, <1>5, <1>6, <1>10, ClockGood
<1>16. Beside(js, r, n, stk)
  BY <1>3, <1>14, <1>15 DEF Beside
<1>17. JsShaped(js) /\ js.mode = "jobs" /\ Shaped(r) /\ r.ph = s.ph
  <2>1. JsShaped(Js!JsCall(e)) /\ Js!JsCall(e).mode = "jobs" /\ Shaped(RtCall(s)) /\ RtCall(s).ph = s.ph
    BY <1>3, <1>8, JsTurns, CallKeeps
  <2>2. JsKept(Js!JsCall(e), js) /\ Kept(RtCall(s), r)
    BY <1>5, <2>1, JsPartsKeep, PartsKeep
  <2> QED BY <2>1, <2>2 DEF JsKept, Kept
<1>18. Sim(es', rt', n, Ctx(rt'), 0, 0) /\ es'.mode = "jobs" /\ rt'.ph \in {"jobs", "mt"}
  <2>1. CASE m > 1
    <3>1. PICK x, y : x = Js!JsQueueMicrotask(js, m - 1) /\ y = QueueMicrotask(r, m - 1)
      OBVIOUS
    <3>2. m - 1 \in Nat
      BY <1>15, <2>1
    <3>3. Sim(x, y, n, Ctx(y), 0, 0)
      BY <1>16, <3>1, <3>2, MicrotaskSim
    <3>4. JsKept(js, x) /\ Kept(r, y)
      BY <1>17, <3>1, JsPartsKeep, OpsKeep
    <3>5. x.mode = "jobs" /\ y.ph = s.ph
      BY <1>17, <3>4 DEF JsKept, Kept
    <3>6. es' = x /\ rt' = y
      BY <1>6, <2>1, <3>1
    <3> QED BY <1>8, <3>3, <3>5, <3>6
  <2>2. CASE ~(m > 1)
    <3>1. es' = js /\ rt' = r
      BY <1>6, <2>2
    <3> QED BY <1>8, <1>14, <1>17, <3>1
  <2> QED BY <2>1, <2>2
<1>19. ~Running' /\ Good(rt', n, <<>>)
  BY <1>6 DEF Running, RunInv
<1>20. \E u : Behind(es', u, rt', n)
  BY <1>18, <1>19, NowBehind
<1>21. PhaseFits(es', rt')
  BY <1>18 DEF PhaseFits
<1>22. \E u : Behind(es', u, rt', made')
  BY <1>6, <1>20
<1> QED BY <1>19, <1>21, <1>22 DEF OrderInv

\* The event loop's callback.
LEMMA MacrotaskOrder ==
  ASSUME RunInv, OrderInv, Macrotask
  PROVE  OrderInv'
<1>1. AtRest
  BY DEF Macrotask
<1>2. PICK e, s, n : e = es /\ s = rt /\ n = made
  OBVIOUS
<1>3. /\ Good(s, n, <<>>) /\ n \in Nat /\ n >= Deferred /\ e \in JsType /\ JsShaped(e) /\ PhaseFits(e, s)
      /\ \E tr : AtRestBoth(e, tr, s, n)
  BY <1>1, <1>2, RestFacts
<1>4. PICK tr : AtRestBoth(e, tr, s, n)
  BY <1>3
<1>5. /\ RtEvent(s).k = "idle" /\ es' = Js!JsQueueMicrotask(Js!JsMacrotask(e), Rounds) /\ rt' = QueueMicrotask(s, Rounds)
      /\ stack' = <<Script>> /\ turned' = TRUE /\ made' = n
  BY <1>2 DEF Macrotask
<1>6. s.ph = "idle"
  BY <1>4, <1>5, RestAgrees
<1>7. s.unh = <<>>
  BY <1>3, <1>6 DEF PhaseFits
<1>8. PICK l : Good(l, n, <<>>) /\ l \in RtType(n) /\ Trims(l, s) /\ Sim(e, l, n, Ctx(l), 0, 0)
  BY <1>4, RestMeets
<1>9. PICK h, stk : h = s.ph /\ stk = <<>>
  OBVIOUS
<1>10. s = [l EXCEPT !.ph = h, !.unh = <<>>] /\ h \in {"jobs", "ticks", "mt", "unh", "idle"}
  BY <1>6, <1>7, <1>8, <1>9 DEF Trims
<1>11. Beside(e, l, n, stk)
  BY <1>3, <1>8, <1>9 DEF Beside
<1>12. PICK js : js = Js!JsMacrotask(e)
  OBVIOUS
<1>13. Beside(js, s, n, stk)
  BY <1>10, <1>11, <1>12, MacrotaskSim
<1>14. Rounds \in Nat
  BY PromiseAssumption
<1>15. PICK x, y : x = Js!JsQueueMicrotask(js, Rounds) /\ y = QueueMicrotask(s, Rounds)
  OBVIOUS
<1>16. Sim(x, y, n, Ctx(y), 0, 0)
  BY <1>13, <1>14, <1>15, MicrotaskSim
<1>17. js.mode = "ticks" /\ JsShaped(js)
  BY <1>3, <1>12 DEF Js!JsMacrotask, JsShaped, JsType
<1>18. JsKept(js, x)
  BY <1>15, <1>17, JsPartsKeep
<1>19. x.mode = "ticks"
  BY <1>17, <1>18 DEF JsKept
<1>20. es' = x /\ rt' = y
  BY <1>5, <1>12, <1>15
<1>21. Running' /\ stack'[1].k = "script"
  BY <1>5 DEF Running, Script
<1>22. TurnFits(es'.mode, rt'.ph, stack'[1].k, turned')
  BY <1>5, <1>19, <1>20, <1>21 DEF TurnFits
<1>23. Sim(es', rt', made', Ctx(rt'), 0, 0)
  BY <1>5, <1>16, <1>20
<1> QED BY <1>21, <1>22, <1>23 DEF OrderInv

\* The script begins with both machines alike: its clock is queued, and promise 1
\* may have been resolved.
LEMMA InitOrder ==
  Init => OrderInv
<1> SUFFICES ASSUME Init PROVE OrderInv
  OBVIOUS
<1>1. PICK e, s, n, f : e = Js!InitJs /\ s = InitRt /\ n = Deferred /\ f = Script
  OBVIOUS
<1>2. n \in Nat /\ Rounds \in Nat /\ (n > 0 => 1 \in Ids) /\ n >= Deferred
  BY <1>1, PromiseAssumption DEF Ids
<1>3. Good(s, n, <<f>>)
  <2>1. f \in FrameType /\ f.k = "script" /\ TaskOf(f) = NoTask /\ f.k \notin Waiters
    BY <1>1 DEF FrameType, Script, TaskOf, Waiters
  <2>2. Owes(s, n, Ctx(s), NoKey, 0) /\ s.cur = NoTask /\ s.prev = <<>> /\ s.run = NoClosure
    BY <1>1, InitOwes
  <2>3. Ctx(s).run.fn \notin Waiters
    BY <2>2 DEF Ctx, NoClosure, Waiters
  <2>4. Frames(<<f>>, n, Ctx(s), TaskOf(f), <<>>)
    BY <2>1, <2>3, FramesOne
  <2> QED BY <2>1, <2>2, <2>4 DEF Good
<1>4. PICK stk : stk = <<f>>
  OBVIOUS
<1>5. Beside(e, s, n, stk)
  BY <1>1, <1>2, <1>3, <1>4, InitSim DEF Beside
<1>6. JsShaped(e) /\ e.mode = "jobs"
  BY <1>1 DEF JsShaped, Js!InitJs
<1>7. ASSUME NEW a, NEW b, Beside(a, b, n, stk), JsShaped(a), a.mode = "jobs",
             es = Js!JsQueueMicrotask(a, Rounds), rt = QueueMicrotask(b, Rounds)
      PROVE  OrderInv
  <2>1. PICK x, y : x = Js!JsQueueMicrotask(a, Rounds) /\ y = QueueMicrotask(b, Rounds)
    OBVIOUS
  <2>2. Sim(x, y, n, Ctx(y), 0, 0)
    BY <1>2, <1>7, <2>1, MicrotaskSim
  <2>3. JsKept(a, x)
    BY <1>7, <2>1, JsPartsKeep
  <2>4. es = x /\ rt = y /\ x.mode = "jobs" /\ made = n
    BY <1>1, <1>7, <2>1, <2>3 DEF JsKept, Init
  <2>5. Sim(es, rt, made, Ctx(rt), 0, 0)
    BY <2>2, <2>4
  <2>6. Running /\ stack[1].k = "script" /\ turned = FALSE
    BY DEF Init, Running, Script
  <2>7. TurnFits(es.mode, rt.ph, stack[1].k, turned)
    BY <2>4, <2>6 DEF TurnFits
  <2> QED BY <2>5, <2>6, <2>7 DEF OrderInv
<1>8. CASE es = Js!JsQueueMicrotask(Js!InitJs, Rounds) /\ rt = QueueMicrotask(InitRt, Rounds)
  BY <1>1, <1>5, <1>6, <1>7, <1>8
<1>9. CASE /\ Deferred > 0 /\ es = Js!JsQueueMicrotask(Js!JsSettle(Js!InitJs, 1, 1, 1), Rounds)
           /\ rt = QueueMicrotask(ResolveThunk(InitRt, 1, 1), Rounds)
  <2>1. PICK p \in 1..Deferred : p = 1
    BY <1>1, <1>2, <1>9
  <2>2. PICK a, b : a = Js!JsSettle(e, p, 1, p) /\ b = ResolveThunk(s, p, p)
    OBVIOUS
  <2>3. Sim(a, b, n, Ctx(b), 0, 0)
    BY <1>5, <2>1, <2>2, ResolveSim
  <2>4. p \in Ids
    BY <1>1, <1>2, <1>9, <2>1
  <2>5. Good(b, n, stk)
    BY <1>3, <1>4, <2>2, <2>4, ResolveGood
  <2>6. Beside(a, b, n, stk)
    BY <1>2, <2>3, <2>5 DEF Beside
  <2>7. JsKept(e, a)
    BY <1>6, <2>2, JsPartsKeep
  <2>8. JsShaped(a) /\ a.mode = "jobs"
    BY <1>6, <2>7 DEF JsKept
  <2>9. es = Js!JsQueueMicrotask(a, Rounds) /\ rt = QueueMicrotask(b, Rounds)
    BY <1>1, <1>9, <2>1, <2>2
  <2> QED BY <1>7, <2>6, <2>8, <2>9
<1> QED BY <1>8, <1>9 DEF Init

\* Every step keeps the correspondence.
LEMMA OrderHolds ==
  Spec => []OrderInv
<1>1. Init => OrderInv
  BY InitOrder
<1>2. RunInv /\ RunInv' /\ OrderInv /\ [Next]_vars => OrderInv'
  <2> SUFFICES ASSUME RunInv, RunInv', OrderInv, [Next]_vars PROVE OrderInv'
    OBVIOUS
  <2>1. CASE Next
    <3>1. ASSUME NEW p \in Known, \/ \E st \in {Fulfilled, Rejected} : CallThen(p, {st})
                                  \/ CallFinally(p)
          PROVE  OrderInv'
      <4>1. Running /\ ops > 0
        BY <3>1 DEF CallThen, CallFinally, Do
      <4> QED BY <3>1, <4>1, OpsOrder
    <3>2. ASSUME NEW p \in Known, CallbackReturnPromise(p) \/ AsyncReturnPromise(p) \/ Await(p) PROVE OrderInv'
      <4>1. Running
        BY <3>2 DEF CallbackReturnPromise, AsyncReturnPromise, Await, InCallback, InTask
      <4> QED BY <3>2, <4>1, EndsOrder
    <3>3. ASSUME NEW p \in 1..Deferred, CallResolve(p) \/ CallReject(p) PROVE OrderInv'
      <4>1. Running /\ ops > 0
        BY <3>3 DEF CallResolve, CallReject, Do
      <4> QED BY <3>3, <4>1, OpsOrder
    <3>4. ASSUME NEW kind \in Kinds, NEW members \in Members, CallCombinator(kind, members) PROVE OrderInv'
      <4>1. Running /\ ops > 0
        BY <3>4 DEF CallCombinator, Do
      <4> QED BY <3>4, <4>1, OpsOrder
    <3>5. ASSUME CallNextTick \/ CallAsync PROVE OrderInv'
      <4>1. Running /\ ops > 0
        BY <3>5 DEF CallNextTick, CallAsync, Do
      <4> QED BY <3>5, <4>1, OpsOrder
    <3>6. ASSUME EndScript \/ EndTick \/ CallbackReturn \/ CallbackThrow \/ AsyncReturn \/ AsyncThrow \/ AwaitValue
          PROVE  OrderInv'
      <4>1. Running
        BY <3>6 DEF EndScript, EndTick, CallbackReturn, CallbackThrow, AsyncReturn, AsyncThrow, AwaitValue,
                    InCallback, InTask
      <4> QED BY <3>6, <4>1, EndsOrder
    <3>7. QueueStep \/ Enter \/ ClockRound \/ Macrotask => OrderInv'
      BY QueueOrder, EnterOrder, ClockOrder, MacrotaskOrder
    <3> QED BY <2>1, <3>1, <3>2, <3>3, <3>4, <3>5, <3>6, <3>7 DEF Next
  <2>2. CASE UNCHANGED vars
    BY <2>2 DEF vars, OrderInv, Running
  <2> QED BY <2>1, <2>2
<1> QED BY <1>1, <1>2, InvHolds, PTL DEF Spec

\* The compiled program calls the same code next as ECMAScript and Node do, with
\* the same outcome: its reactions, resumed bodies, ticks and reports of unhandled
\* rejections come in the same order, whatever chains, finallys, adoptions, awaits
\* and combinators race (adopt.c, defer.c, finally.c, settle.c, task.c, microtask.c).
THEOREM SameCallsNext ==
  Spec => []SameOrder
<1>1. RunInv /\ OrderInv => SameOrder
  <2> SUFFICES ASSUME RunInv, OrderInv, AtRest PROVE RtEvent(rt) = Js!JsEvent(es)
    BY DEF SameOrder
  <2>1. PICK tr : AtRestBoth(es, tr, rt, made)
    BY RestFacts
  <2> QED BY <2>1, RestAgrees
<1> QED BY <1>1, InvHolds, OrderHolds, PTL

=============================================================================

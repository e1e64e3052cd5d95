--------------------------- MODULE KlainPortSteps ---------------------------
(***************************************************************************)
(* What holds of KlainPort for every number of operations and pool         *)
(* threads: the inductive invariant, what the natives of a port do to it,  *)
(* and the steps on a port and of a loop, which keep it.                   *)
(*                                                                         *)
(* The natives work on the loops and the ports while everything else       *)
(* stands still, so the invariant is a relation between these two, a       *)
(* record s as the natives take it, and the rest, a record c.              *)
(***************************************************************************)
EXTENDS KlainPort, FiniteSetTheorems, SequenceTheorems, TLAPS

Pcs == {"off", "enter", "construct", "run", "dispatch", "drain", "emit", "call", "exit", "ended"}
Starts == [gen : 1 .. MaxOps + 1, drains : BOOLEAN]
LoopType == [comp : Seq(ItemType), batch : Seq(ItemType), inflight : Int,
             refd : BOOLEAN, wake : BOOLEAN]
PortType == [loop : Threads \cup {None}, inv : Invs, refd : BOOLEAN, held : BOOLEAN,
             notified : BOOLEAN, closed : BOOLEAN, closeSent : BOOLEAN,
             queue : Seq(1 .. MaxOps), sent : 0 .. MaxOps]
ObjType == [at : Threads \cup {Transit}, gen : 1 .. MaxOps + 1, started : BOOLEAN,
            refd : BOOLEAN, closed : BOOLEAN, listening : BOOLEAN]
WrkType == [state : {"unborn", "failed", "running"}, held : BOOLEAN, exited : BOOLEAN,
            terminate : BOOLEAN, posting : BOOLEAN, loop : BOOLEAN, heard : Seq({"online", "exit"})]
JobsType == [queue : Seq(Threads), busy : [PoolThreads -> Threads \cup {None}]]
RunType == [pc : Pcs, item : ItemType]

-----------------------------------------------------------------------------
(* What surrounds the loops and the ports.                                 *)

Ctx == [need |-> [t \in Threads |-> JobsOf(t) + WorkerHolds(t)], run |-> run,
        heard |-> wrk.heard, obj |-> obj, role |-> role, left |-> ops]

CtxOk(c) ==
  /\ c.need \in [Threads -> Nat] /\ c.run \in [Threads -> RunType]
  /\ c.obj \in [Ports -> ObjType] /\ c.left \in Nat

\* A port that is started has a loop and a callback; one that is not holds none.
Typed(s) ==
  /\ s \in [loops : [Threads -> LoopType], port : [Ports -> PortType]]
  /\ \A p \in Ports : IF s.port[p].loop = None THEN ~s.port[p].held ELSE s.port[p].inv \in Starts

\* The completions on their way to t, how many ports hold t, how many completions.
Bag(s, t) == Range(s.loops[t].comp) \cup Range(s.loops[t].batch)
HeldBy(s, p, t) == IF s.port[p].held /\ s.port[p].loop = t THEN 1 ELSE 0
Held(s, t) == HeldBy(s, 0, t) + HeldBy(s, 1, t)

Size(q, b) == Len(q) + Len(b)
Load(s, t) == Size(s.loops[t].comp, s.loops[t].batch)

\* HoldCount and HeldRunsOn.
Counted(s, c) ==
  \A t \in Threads :
    /\ s.loops[t].inflight = Held(s, t) + Load(s, t) + c.need[t]
    /\ Held(s, t) + c.need[t] > 0 => s.loops[t].refd

\* A notification of the end is on its way, running or done only when the
\* port is closed and drained; only a port's callback drains.
Over(s, p) == s.port[p].closed /\ s.port[p].queue = <<>>
Ended(s, c) ==
  /\ \A t \in Threads : \A it \in Bag(s, t) \cup {c.run[t].item} : it.what = "closed" => Over(s, it.port)
  /\ \A p \in Ports : c.obj[p].closed => Over(s, p)
  /\ \A t \in Threads : \A it \in Bag(s, t) : it.drains => it.what \in {"messages", "closed"}

\* A port that counts as notified has its callback on its way, or running.
Carries(it, p, inv) == it.port = p /\ it.gen = inv.gen /\ it.drains
Arriving(s, c, p) ==
  LET t == s.port[p].loop
  IN \/ \E it \in Bag(s, t) : Carries(it, p, s.port[p].inv)
     \/ c.run[t].pc \in {"drain", "emit"} /\ Carries(c.run[t].item, p, s.port[p].inv)
Told(s, c) ==
  \A p \in Ports :
    /\ s.port[p].loop # None /\ s.port[p].notified /\ s.port[p].inv.drains
    /\ c.run[s.port[p].loop].pc # "ended"
    => Arriving(s, c, p)

\* A port is started by, and for, the object that stands for it.
Owned(s, c) ==
  \A p \in Ports :
    s.port[p].loop # None => s.port[p].loop = c.obj[p].at /\ s.port[p].inv.gen = c.obj[p].gen

\* Outside a dispatch there is no batch; the messages sent are bounded.
Resting(s, c) ==
  /\ \A t \in Threads : c.run[t].pc \in {"off", "enter", "construct", "run"} => s.loops[t].batch = <<>>
  /\ \A p \in Ports : s.port[p].sent + c.left <= MaxOps

\* The Worker's 'exit' is being delivered: its port is drained, then closed.
Exiting(c) == c.run[Main].pc \in {"drain", "emit", "exit"} /\ c.run[Main].item.what = "exit"
Gone(c) == c.heard = <<"online", "exit">>
Drained(s, c) ==
  c.role = "worker" =>
    /\ c.run[Main].pc = "exit" \/ Gone(c) => s.port[0].queue = <<>>
    /\ Gone(c) => s.port[0].closed

\* 'online' and 'exit' reach the parent once each and in this order: a stack
\* has the later one first, a batch last.
Of(q, e, i) == i \in DOMAIN q /\ q[i].what = e
Holds(q, e) == \E i \in DOMAIN q : q[i].what = e
InOrder(comp, batch) ==
  /\ \A i \in DOMAIN comp, j \in DOMAIN comp :
       /\ Of(comp, "exit", i) /\ (Of(comp, "exit", j) \/ Of(comp, "online", j)) => i <= j
       /\ Of(comp, "online", i) /\ Of(comp, "online", j) => i = j
  /\ \A i \in DOMAIN batch, j \in DOMAIN batch :
       /\ Of(batch, "exit", i) /\ (Of(batch, "exit", j) \/ Of(batch, "online", j)) => j <= i
       /\ Of(batch, "online", i) /\ Of(batch, "online", j) => i = j
  /\ Holds(batch, "exit") => ~Holds(comp, "online") /\ ~Holds(comp, "exit")
  /\ Holds(batch, "online") => ~Holds(comp, "online")
Sends(s, e) == Holds(s.loops[Main].comp, e) \/ Holds(s.loops[Main].batch, e)
Events(s, c) ==
  /\ \A it \in Bag(s, Wkr) : it.what \notin {"online", "exit"}
  /\ InOrder(s.loops[Main].comp, s.loops[Main].batch)
  /\ c.heard \in {<<>>, <<"online">>, <<"online", "exit">>}
  /\ c.run[Wkr].pc \in {"off", "enter"} => c.heard = <<>> /\ ~Sends(s, "online")
  /\ c.run[Wkr].pc \notin {"off", "enter"} => (c.heard = <<>> <=> Sends(s, "online"))
  /\ Exiting(c) => c.heard = <<"online">>
  /\ Sends(s, "exit") \/ Exiting(c) \/ Gone(c) => c.run[Wkr].pc = "ended"
  /\ Sends(s, "exit") => ~Exiting(c) /\ ~Gone(c)

Rest(s, c) ==
  /\ Typed(s) /\ CtxOk(c) /\ Counted(s, c) /\ Ended(s, c) /\ Told(s, c)
  /\ Owned(s, c) /\ Resting(s, c) /\ Drained(s, c)
Base(s, c) == Rest(s, c) /\ Events(s, c)

\* What a port owes its loop has been notified: a message, its end.
OwesNone(s, p) == s.port[p].loop # None /\ s.port[p].queue # <<>> => s.port[p].notified
EndsNone(s, p) ==
  s.port[p].loop # None /\ s.port[p].closed /\ ~s.port[p].closeSent => s.port[p].notified

-----------------------------------------------------------------------------
(* The inductive invariant.                                                *)

Owing ==
  \A p \in Ports :
    /\ OwesNone(State, p)
    /\ (closing = None \/ peer(closing.port) # p) => EndsNone(State, p)

Around ==
  /\ closing \in {None} \cup [by : Threads, port : Ports]
  /\ wrk \in WrkType /\ jobs \in JobsType /\ ops \in 0 .. MaxOps
  /\ role \in {"channel", "worker"}
  /\ \A p \in Ports : obj[p].gen + ops <= MaxOps + 1
  /\ wrk.state = "unborn" => role = "worker" /\ run[Wkr].pc = "off" /\ ~wrk.held
  /\ run[Main].pc = "construct" => role = "worker"
  /\ role = "worker" => obj[0].at = Main
  /\ run[Main].pc = "exit" => Exiting(Ctx)
  /\ Exiting(Ctx) => role = "worker" /\ run[Main].item.port = 0 /\ run[Main].item.gen = obj[0].gen

PortInv == Base(State, Ctx) /\ Owing /\ Around

-----------------------------------------------------------------------------
(* Completions: what a push and a change of the hold count do to a loop.   *)

Pushed(q, r, it) ==
  /\ r \in Seq(ItemType) /\ Len(r) = Len(q) + 1 /\ r[1] = it
  /\ \A i \in 1 .. Len(q) : r[i + 1] = q[i]
  /\ Range(r) = Range(q) \cup {it}

\* A stack with one more completion on top.
LEMMA PushFacts ==
  ASSUME NEW q \in Seq(ItemType), NEW it \in ItemType
  PROVE  Pushed(q, <<it>> \o q, it)
<1> DEFINE r == <<it>> \o q
<1>1. <<it>> \in Seq(ItemType) /\ Len(<<it>>) = 1 /\ <<it>>[1] = it
  OBVIOUS
<1>2. /\ r \in Seq(ItemType) /\ Len(r) = 1 + Len(q)
      /\ \A i \in 1 .. 1 + Len(q) : r[i] = IF i <= 1 THEN <<it>>[i] ELSE q[i - 1]
  BY <1>1, ConcatProperties, Zenon
<1> HIDE DEF r
<1>3. Len(q) \in Nat /\ DOMAIN q = 1 .. Len(q) /\ DOMAIN r = 1 .. Len(r)
  BY <1>2
<1>4. r[1] = it /\ \A i \in 1 .. Len(q) : r[i + 1] = q[i]
  BY <1>1, <1>2, <1>3
<1>5. ASSUME NEW x PROVE x \in Range(r) <=> x \in Range(q) \cup {it}
  <2>1. x \in Range(r) <=> \E i \in 1 .. 1 + Len(q) : r[i] = x
    BY <1>2, <1>3 DEF Range
  <2>2. x \in Range(q) <=> \E i \in 1 .. Len(q) : q[i] = x
    BY <1>3 DEF Range
  <2>3. ASSUME NEW i \in 1 .. 1 + Len(q) PROVE i = 1 \/ (i - 1 \in 1 .. Len(q) /\ r[i] = q[i - 1])
    BY <1>2, <1>3
  <2>4. ASSUME x \in Range(r) PROVE x \in Range(q) \cup {it}
    <3>1. PICK i \in 1 .. 1 + Len(q) : r[i] = x
      BY <2>1, <2>4
    <3> QED BY <2>2, <2>3, <3>1, <1>4
  <2>5. ASSUME x \in Range(q) PROVE x \in Range(r)
    <3>1. PICK i \in 1 .. Len(q) : q[i] = x
      BY <2>2, <2>5
    <3>2. i + 1 \in 1 .. 1 + Len(q) /\ r[i + 1] = x
      BY <1>3, <1>4, <3>1
    <3> QED BY <2>1, <3>2
  <2>6. it \in Range(r)
    <3>1. 1 \in 1 .. 1 + Len(q)
      BY <1>3
    <3> QED BY <3>1, <1>2, <1>3, <1>4 DEF Range
  <2> QED BY <2>4, <2>5, <2>6
<1> QED BY <1>2, <1>4, <1>5 DEF Pushed, r

HeldTo(ls, r, self, t, d) ==
  /\ r \in [Threads -> LoopType]
  /\ \A u \in Threads : /\ r[u].comp = ls[u].comp /\ r[u].batch = ls[u].batch
                        /\ u # t => r[u] = ls[u]
  /\ r[t].inflight = ls[t].inflight + d
  /\ r[t].refd <=> (IF t = self THEN ls[t].inflight + d > 0 ELSE ls[t].refd)

\* port_hold changes the count, and the reference on the loop's own thread.
LEMMA HoldFacts ==
  ASSUME NEW ls \in [Threads -> LoopType], NEW self \in Threads, NEW t \in Threads, NEW d \in Int
  PROVE  HeldTo(ls, port_hold(ls, self, t, d), self, t, d)
<1> DEFINE b == IF t = self THEN ls[t].inflight + d > 0 ELSE ls[t].refd
           w == ls[t].wake \/ t # self
           x == [ls[t] EXCEPT !.inflight = ls[t].inflight + d, !.refd = b, !.wake = w]
<1>1. ls[t] \in LoopType
  OBVIOUS
<1>2. b \in BOOLEAN /\ w \in BOOLEAN /\ ls[t].inflight + d \in Int
  <2>1. ls[t].refd \in BOOLEAN /\ ls[t].wake \in BOOLEAN /\ ls[t].inflight \in Int
    BY <1>1 DEF LoopType
  <2>2. ls[t].inflight + d \in Int
    BY <2>1
  <2>3. w \in BOOLEAN
    BY <2>1, Zenon
  <2>4. b \in BOOLEAN
    <3>1. (ls[t].inflight + d > 0) \in BOOLEAN
      OBVIOUS
    <3> QED BY <2>1, <3>1, Zenon
  <2> QED BY <2>2, <2>3, <2>4
<1>3. /\ x \in LoopType /\ x.comp = ls[t].comp /\ x.batch = ls[t].batch
      /\ x.inflight = ls[t].inflight + d /\ x.refd = b
  BY <1>1, <1>2 DEF LoopType
<1>4. port_hold(ls, self, t, d) = [ls EXCEPT ![t] = x]
  BY <1>1 DEF port_hold, LoopType
<1> HIDE DEF x, b, w
<1>5. HeldTo(ls, [ls EXCEPT ![t] = x], self, t, d)
  BY <1>3 DEF HeldTo, b
<1> QED BY <1>4, <1>5

Posted(ls, r, self, t, it) ==
  /\ r \in [Threads -> LoopType]
  /\ \A u \in Threads : r[u].batch = ls[u].batch /\ (u # t => r[u] = ls[u])
  /\ Pushed(ls[t].comp, r[t].comp, it)
  /\ r[t].inflight = ls[t].inflight + 1
  /\ r[t].refd <=> (IF t = self THEN ls[t].inflight + 1 > 0 ELSE ls[t].refd)

\* kml_post_to_loop counts the completion and pushes it.
LEMMA PostFacts ==
  ASSUME NEW ls \in [Threads -> LoopType], NEW self \in Threads, NEW t \in Threads, NEW it \in ItemType
  PROVE  Posted(ls, kml_post_to_loop(ls, self, t, it), self, t, it)
<1>1. PICK h \in [Threads -> LoopType] : h = port_hold(ls, self, t, 1) /\ HeldTo(ls, h, self, t, 1)
  BY HoldFacts DEF HeldTo
<1>2. h[t].comp \in Seq(ItemType) /\ h[t].comp = ls[t].comp
  BY <1>1 DEF HeldTo, LoopType
<1>3. PICK q \in Seq(ItemType) : q = <<it>> \o h[t].comp /\ Pushed(h[t].comp, q, it)
  <2>1. Pushed(h[t].comp, <<it>> \o h[t].comp, it)
    BY <1>2, PushFacts, Zenon
  <2> QED BY <2>1, Zenon DEF Pushed
<1> DEFINE x == [h[t] EXCEPT !.comp = q, !.wake = TRUE]
<1>4. kml_post_to_loop(ls, self, t, it) = [h EXCEPT ![t] = x]
  BY <1>1, <1>3 DEF kml_post_to_loop, push_completion
<1>5. /\ x \in LoopType /\ x.comp = q /\ x.batch = h[t].batch
      /\ x.inflight = h[t].inflight /\ x.refd = h[t].refd
  BY <1>1, <1>3 DEF LoopType
<1> HIDE DEF x
<1>6. Posted(ls, [h EXCEPT ![t] = x], self, t, it)
  BY <1>1, <1>2, <1>3, <1>5 DEF Posted, HeldTo
<1> QED BY <1>4, <1>6

-----------------------------------------------------------------------------
(* What depends on what: which parts of the invariant a step can disturb.  *)

\* What is on its way to a loop is a completion of one of the two ports.
LEMMA BagTyped ==
  ASSUME NEW s, Typed(s), NEW t \in Threads, NEW it \in Bag(s, t)
  PROVE  it \in ItemType /\ it.port \in Ports
<1>1. s.loops[t].comp \in Seq(ItemType) /\ s.loops[t].batch \in Seq(ItemType)
  BY DEF Typed, LoopType
<1>2. it \in ItemType
  BY <1>1 DEF Bag, Range
<1> QED BY <1>2 DEF ItemType

\* Two states whose ports differ in what they hold only.
SamePorts(s, r) ==
  \A p \in Ports :
    /\ r.port[p].loop = s.port[p].loop /\ r.port[p].inv = s.port[p].inv
    /\ r.port[p].notified = s.port[p].notified /\ r.port[p].queue = s.port[p].queue
    /\ r.port[p].closed = s.port[p].closed /\ r.port[p].closeSent = s.port[p].closeSent
    /\ r.port[p].sent = s.port[p].sent

\* More completions on their way, none of them an unjustified 'closed'.
MoreItems(s, r) ==
  \A t \in Threads :
    /\ Bag(s, t) \subseteq Bag(r, t)
    /\ \A it \in Bag(r, t) : \/ it \in Bag(s, t)
                             \/ /\ it.what = "closed" => Over(s, it.port)
                                /\ it.drains => it.what \in {"messages", "closed"}

\* These steps leave the parts about ports alone.
LEMMA PortsFrame ==
  ASSUME NEW s, NEW r, NEW c, Typed(s), Typed(r), CtxOk(c), SamePorts(s, r), MoreItems(s, r),
         Ended(s, c), Told(s, c), Owned(s, c), Drained(s, c)
  PROVE  Ended(r, c) /\ Told(r, c) /\ Owned(r, c) /\ Drained(r, c)
<1>1. ASSUME NEW p \in Ports PROVE Over(s, p) => Over(r, p)
  BY <1>1 DEF SamePorts, Over
<1>2. Ended(r, c)
  <2>1. ASSUME NEW t \in Threads, NEW it \in Bag(r, t) \cup {c.run[t].item}, it.what = "closed"
        PROVE  Over(r, it.port)
    <3>1. it.port \in Ports
      <4>1. CASE it \in Bag(r, t) BY <4>1, BagTyped
      <4>2. CASE it = c.run[t].item BY <4>2 DEF CtxOk, RunType, ItemType
      <4> QED BY <4>1, <4>2
    <3>2. Over(s, it.port)
      BY <2>1 DEF Ended, MoreItems
    <3> QED BY <1>1, <3>1, <3>2
  <2>2. ASSUME NEW p \in Ports, c.obj[p].closed PROVE Over(r, p)
    BY <1>1, <2>2 DEF Ended
  <2>3. \A t \in Threads : \A it \in Bag(r, t) : it.drains => it.what \in {"messages", "closed"}
    BY DEF Ended, MoreItems
  <2> QED BY <2>1, <2>2, <2>3 DEF Ended
<1>3. Told(r, c)
  <2> SUFFICES ASSUME NEW p \in Ports, r.port[p].loop # None, r.port[p].notified,
                      r.port[p].inv.drains, c.run[r.port[p].loop].pc # "ended"
               PROVE  Arriving(r, c, p)
    BY DEF Told
  <2>1. Arriving(s, c, p)
    BY DEF Told, SamePorts
  <2>2. s.port[p].loop \in Threads /\ r.port[p].loop = s.port[p].loop /\ r.port[p].inv = s.port[p].inv
    BY DEF SamePorts, Typed, PortType
  <2> QED BY <2>1, <2>2 DEF Arriving, MoreItems
<1>4. Owned(r, c)
  BY DEF Owned, SamePorts
<1>5. Drained(r, c)
  BY DEF Drained, SamePorts, Ports
<1> QED BY <1>2, <1>3, <1>4, <1>5

\* So do these the order of the Worker's events.
LEMMA EventsFrame ==
  ASSUME NEW s, NEW r, NEW c, Events(s, c),
         \A t \in Threads : r.loops[t].comp = s.loops[t].comp /\ r.loops[t].batch = s.loops[t].batch
  PROVE  Events(r, c)
<1>1. Main \in Threads /\ Wkr \in Threads
  BY DEF Threads
<1> QED BY <1>1 DEF Events, Bag, Sends

\* A completion of another kind, pushed on a stack, is none of the events.
LEMMA OrderFrame ==
  ASSUME NEW q \in Seq(ItemType), NEW b \in Seq(ItemType), NEW r, NEW it, Pushed(q, r, it),
         it.what \notin {"online", "exit"}
  PROVE  /\ Holds(r, "online") <=> Holds(q, "online")
         /\ Holds(r, "exit") <=> Holds(q, "exit")
         /\ InOrder(q, b) => InOrder(r, b)
<1>1. Len(q) \in Nat /\ DOMAIN q = 1 .. Len(q) /\ DOMAIN r = 1 .. Len(q) + 1
  BY DEF Pushed
<1>2. r[1] = it /\ \A i \in 1 .. Len(q) : r[i + 1] = q[i]
  BY DEF Pushed
<1>3. ASSUME NEW i \in DOMAIN r, r[i].what \in {"online", "exit"}
      PROVE  i - 1 \in DOMAIN q /\ r[i] = q[i - 1]
  BY <1>1, <1>2, <1>3
<1>4. ASSUME NEW e \in {"online", "exit"} PROVE Holds(r, e) <=> Holds(q, e)
  <2>1. ASSUME Holds(r, e) PROVE Holds(q, e)
    BY <1>3, <1>4, <2>1 DEF Holds
  <2>2. ASSUME Holds(q, e) PROVE Holds(r, e)
    <3>1. PICK i \in 1 .. Len(q) : q[i].what = e
      BY <1>1, <2>2 DEF Holds
    <3>2. i + 1 \in DOMAIN r /\ r[i + 1].what = e
      BY <1>1, <1>2, <3>1
    <3> QED BY <3>2 DEF Holds
  <2> QED BY <2>1, <2>2
<1>5. ASSUME InOrder(q, b) PROVE InOrder(r, b)
  <2>1. ASSUME NEW i \in DOMAIN r, NEW j \in DOMAIN r
        PROVE  /\ (Of(r, "exit", i) /\ (Of(r, "exit", j) \/ Of(r, "online", j)) => i <= j)
               /\ (Of(r, "online", i) /\ Of(r, "online", j) => i = j)
    <3>1. r[i].what \in {"online", "exit"} => i - 1 \in DOMAIN q /\ r[i] = q[i - 1]
      BY <1>3
    <3>2. r[j].what \in {"online", "exit"} => j - 1 \in DOMAIN q /\ r[j] = q[j - 1]
      BY <1>3
    <3>3. i \in Int /\ j \in Int
      BY <1>1
    <3> QED BY <1>5, <3>1, <3>2, <3>3, <1>1 DEF InOrder, Of
  <2>2. /\ Holds(b, "exit") => ~Holds(r, "online") /\ ~Holds(r, "exit")
        /\ Holds(b, "online") => ~Holds(r, "online")
    BY <1>4, <1>5 DEF InOrder
  <2> QED BY <1>5, <2>1, <2>2 DEF InOrder
<1> QED BY <1>4, <1>5

-----------------------------------------------------------------------------
(* The three elementary changes the natives are made of.                   *)

With(ls, pt) == [loops |-> ls, port |-> pt]

\* What Typed says of the parts.
Parts(s) ==
  /\ s = With(s.loops, s.port)
  /\ s.loops \in [Threads -> LoopType] /\ s.port \in [Ports -> PortType]
  /\ \A t \in Threads : /\ s.loops[t] \in LoopType /\ s.loops[t].comp \in Seq(ItemType)
                        /\ s.loops[t].batch \in Seq(ItemType)
                        /\ Load(s, t) \in Nat
                        /\ s.loops[t].inflight \in Int /\ s.loops[t].refd \in BOOLEAN
  /\ \A p \in Ports : /\ s.port[p] \in PortType /\ s.port[p].loop \in Threads \cup {None}
                      /\ s.port[p].held \in BOOLEAN

\* How many completions a stack and a batch have.
LEMMA SizeFacts ==
  ASSUME NEW q \in Seq(ItemType), NEW b \in Seq(ItemType)
  PROVE  /\ Size(q, b) \in Nat
         /\ \A r, it : Pushed(q, r, it) => Size(r, b) = Size(q, b) + 1
BY DEF Size, Pushed

\* What a well-typed pair of loops and ports is made of.
LEMMA TypedParts ==
  ASSUME NEW s, Typed(s)
  PROVE  Parts(s)
<1>1. /\ s = With(s.loops, s.port)
      /\ s.loops \in [Threads -> LoopType] /\ s.port \in [Ports -> PortType]
  BY DEF Typed, With
<1>2. ASSUME NEW t \in Threads
      PROVE  /\ s.loops[t] \in LoopType /\ s.loops[t].comp \in Seq(ItemType)
             /\ s.loops[t].batch \in Seq(ItemType)
             /\ s.loops[t].inflight \in Int /\ s.loops[t].refd \in BOOLEAN
  BY <1>1, <1>2 DEF LoopType
<1>3. ASSUME NEW p \in Ports
      PROVE  /\ s.port[p] \in PortType /\ s.port[p].loop \in Threads \cup {None}
             /\ s.port[p].held \in BOOLEAN
  BY <1>1, <1>3 DEF PortType
<1>4. ASSUME NEW t \in Threads PROVE Load(s, t) \in Nat
  BY <1>2, SizeFacts DEF Load
<1> QED BY <1>1, <1>2, <1>3, <1>4 DEF Parts

PostedTo(s, self, t, it) == With(kml_post_to_loop(s.loops, self, t, it), s.port)
Postable(s, it) ==
  /\ it \in ItemType
  /\ it.what = "closed" => Over(s, it.port)
  /\ it.drains => it.what \in {"messages", "closed"}

\* A completion posted to loop t, by any thread; a 'closed' only of a port
\* that is over.
LEMMA PostRests ==
  ASSUME NEW s, NEW c, Rest(s, c), NEW self \in Threads, NEW t \in Threads, NEW it, Postable(s, it)
  PROVE  /\ Rest(PostedTo(s, self, t, it), c) /\ it \in Bag(PostedTo(s, self, t, it), t)
         /\ \A u \in Threads : u # t => Bag(PostedTo(s, self, t, it), u) = Bag(s, u)
         /\ \A u \in Threads : u # t => PostedTo(s, self, t, it).loops[u] = s.loops[u]
         /\ PostedTo(s, self, t, it).loops[t].batch = s.loops[t].batch
         /\ Pushed(s.loops[t].comp, PostedTo(s, self, t, it).loops[t].comp, it)
         /\ Bag(PostedTo(s, self, t, it), t) = Bag(s, t) \cup {it}
<1> USE DEF Rest, Postable
<1>0. Parts(s) BY TypedParts
<1>1. PICK ls : /\ ls = kml_post_to_loop(s.loops, self, t, it)
                /\ Posted(s.loops, ls, self, t, it)
  BY <1>0, PostFacts DEF Parts
<1>2. PICK r : r = With(ls, s.port)
  OBVIOUS
<1>3. r.loops = ls /\ r.port = s.port
  BY <1>2 DEF With
<1>4. Typed(r)
  BY <1>0, <1>1, <1>2, <1>3 DEF Typed, With, Posted, Parts
<1>5. /\ \A u \in Threads : u # t => r.loops[u] = s.loops[u]
      /\ \A u \in Threads : r.loops[u].batch = s.loops[u].batch
      /\ Pushed(s.loops[t].comp, r.loops[t].comp, it)
      /\ r.loops[t].inflight = s.loops[t].inflight + 1
      /\ r.loops[t].refd <=> (IF t = self THEN s.loops[t].inflight + 1 > 0 ELSE s.loops[t].refd)
  BY <1>1, <1>3 DEF Posted
<1>6. Bag(r, t) = Bag(s, t) \cup {it} /\ \A u \in Threads : u # t => Bag(r, u) = Bag(s, u)
  BY <1>5 DEF Bag, Pushed
<1>7. MoreItems(s, r) /\ SamePorts(s, r)
  BY <1>3, <1>6 DEF MoreItems, SamePorts
<1>8. Ended(r, c) /\ Told(r, c) /\ Owned(r, c) /\ Drained(r, c)
  BY <1>4, <1>7, PortsFrame
<1>9. Resting(r, c)
  BY <1>3, <1>5 DEF Resting
<1>10. Counted(r, c)
  <2> SUFFICES ASSUME NEW u \in Threads
               PROVE  /\ r.loops[u].inflight = Held(r, u) + Load(r, u) + c.need[u]
                      /\ Held(r, u) + c.need[u] > 0 => r.loops[u].refd
    BY DEF Counted
  <2>1. Held(r, u) = Held(s, u) /\ Held(s, u) \in Nat /\ c.need[u] \in Nat
    BY <1>3 DEF Held, HeldBy, CtxOk
  <2>2. s.loops[u].inflight = Held(s, u) + Load(s, u) + c.need[u]
    BY DEF Counted
  <2>r. Held(s, u) + c.need[u] > 0 => s.loops[u].refd
    BY DEF Counted
  <2>3. CASE u # t
    BY <1>5, <2>1, <2>2, <2>r, <2>3 DEF Load
  <2>4. CASE u = t
    <3>1. Pushed(s.loops[u].comp, r.loops[u].comp, it) /\ r.loops[u].batch = s.loops[u].batch
      BY <1>5, <2>4
    <3>2. Load(s, u) \in Nat /\ Load(r, u) = Load(s, u) + 1
      BY <1>0, <3>1, SizeFacts DEF Parts, Load
    <3>3. r.loops[u].inflight = s.loops[u].inflight + 1
      BY <1>5, <2>4
    <3>r. r.loops[u].refd <=> (IF u = self THEN s.loops[u].inflight + 1 > 0 ELSE s.loops[u].refd)
      BY <1>5, <2>4
    <3>4. /\ r.loops[u].inflight = Held(r, u) + Load(r, u) + c.need[u]
          /\ s.loops[u].inflight + 1 > 0
      BY <2>1, <2>2, <3>2, <3>3
    <3>5. Held(r, u) + c.need[u] > 0 => r.loops[u].refd
      BY <2>1, <2>r, <3>r, <3>4, Zenon
    <3> QED BY <3>4, <3>5
  <2> QED BY <2>3, <2>4
<1> QED BY <1>1, <1>2, <1>4, <1>5, <1>6, <1>8, <1>9, <1>10 DEF PostedTo

\* One that is no event of the Worker.
LEMMA PostKeeps ==
  ASSUME NEW s, NEW c, Base(s, c), NEW self \in Threads, NEW t \in Threads, NEW it, Postable(s, it),
         it.what \notin {"online", "exit"}
  PROVE  Base(PostedTo(s, self, t, it), c) /\ it \in Bag(PostedTo(s, self, t, it), t)
<1>0. Parts(s) BY TypedParts DEF Base, Rest
<1>1. PICK r : r = PostedTo(s, self, t, it)
  OBVIOUS
<1>2. /\ Rest(r, c) /\ it \in Bag(r, t) /\ Bag(r, t) = Bag(s, t) \cup {it}
      /\ \A u \in Threads : u # t => Bag(r, u) = Bag(s, u) /\ r.loops[u] = s.loops[u]
      /\ r.loops[t].batch = s.loops[t].batch /\ Pushed(s.loops[t].comp, r.loops[t].comp, it)
  BY <1>1, PostRests DEF Base
<1>5. \A u \in Threads : r.loops[u].batch = s.loops[u].batch
  BY <1>2
<1>11. Events(r, c)
  <2>1. Main \in Threads /\ Wkr \in Threads
    BY DEF Threads
  <2>2. \A x \in Bag(r, Wkr) : x.what \notin {"online", "exit"}
    BY <1>2, <2>1 DEF Base, Events
  <2>3. /\ \A e \in {"online", "exit"} : Sends(r, e) <=> Sends(s, e)
        /\ InOrder(r.loops[Main].comp, r.loops[Main].batch)
    <3>1. CASE t = Main
      <4>1. /\ Holds(r.loops[Main].comp, "online") <=> Holds(s.loops[Main].comp, "online")
            /\ Holds(r.loops[Main].comp, "exit") <=> Holds(s.loops[Main].comp, "exit")
            /\ InOrder(r.loops[Main].comp, s.loops[Main].batch)
        BY <1>0, <1>2, <2>1, <3>1, OrderFrame DEF Base, Events, Parts
      <4> QED BY <1>5, <2>1, <4>1 DEF Sends
    <3>2. CASE t # Main
      BY <1>2, <1>5, <2>1, <3>2 DEF Sends, Base, Events
    <3> QED BY <3>1, <3>2
  <2> QED BY <2>2, <2>3 DEF Base, Events
<1> QED BY <1>1, <1>2, <1>11 DEF Base

\* A port takes or releases its hold: it takes it on its own loop's thread only.
LEMMA HoldKeeps ==
  ASSUME NEW s, NEW c, Base(s, c), NEW self \in Threads, NEW p \in Ports, NEW b \in BOOLEAN,
         s.port[p].loop # None, b # s.port[p].held, b => s.port[p].loop = self
  PROVE  Base(With(port_hold(s.loops, self, s.port[p].loop, IF b THEN 1 ELSE -1),
                   [s.port EXCEPT ![p].held = b]), c)
<1> USE DEF Base, Rest
<1>0. Parts(s) BY TypedParts
<1>1. PICK d \in Int : d = IF b THEN 1 ELSE -1
  OBVIOUS
<1>2. PICK t \in Threads : t = s.port[p].loop
  BY <1>0 DEF Parts
<1>3. PICK ls : ls = port_hold(s.loops, self, t, d) /\ HeldTo(s.loops, ls, self, t, d)
  BY <1>0, HoldFacts DEF Parts
<1>4. PICK pt : pt = [s.port EXCEPT ![p].held = b]
  OBVIOUS
<1>5. /\ pt \in [Ports -> PortType] /\ pt[p].held = b /\ pt[p].loop = t
      /\ \A q \in Ports : q # p => pt[q] = s.port[q]
  BY <1>0, <1>2, <1>4 DEF PortType, Parts
<1>6. PICK r : r = With(ls, pt)
  OBVIOUS
<1>7. r.loops = ls /\ r.port = pt
  BY <1>6 DEF With
<1>8. SamePorts(s, r)
  BY <1>0, <1>4, <1>7 DEF SamePorts, PortType, Parts
<1>9. Typed(r)
  BY <1>2, <1>3, <1>5, <1>6, <1>7, <1>8 DEF Typed, With, HeldTo, SamePorts
<1>10. /\ \A u \in Threads : r.loops[u].comp = s.loops[u].comp /\ r.loops[u].batch = s.loops[u].batch
       /\ \A u \in Threads : u # t => r.loops[u] = s.loops[u]
       /\ r.loops[t].inflight = s.loops[t].inflight + d
       /\ r.loops[t].refd <=> (IF t = self THEN s.loops[t].inflight + d > 0 ELSE s.loops[t].refd)
  BY <1>3, <1>7 DEF HeldTo
<1>11. MoreItems(s, r)
  BY <1>10 DEF MoreItems, Bag
<1>12. Ended(r, c) /\ Told(r, c) /\ Owned(r, c) /\ Drained(r, c)
  BY <1>8, <1>9, <1>11, PortsFrame
<1>13. Resting(r, c) /\ Events(r, c)
  BY <1>8, <1>10, EventsFrame DEF Resting, SamePorts
<1>14. Counted(r, c)
  <2> SUFFICES ASSUME NEW u \in Threads
               PROVE  /\ r.loops[u].inflight = Held(r, u) + Load(r, u) + c.need[u]
                      /\ Held(r, u) + c.need[u] > 0 => r.loops[u].refd
    BY DEF Counted
  <2>1. /\ HeldBy(s, 0, u) \in {0, 1} /\ HeldBy(s, 1, u) \in {0, 1}
        /\ HeldBy(r, 0, u) \in {0, 1} /\ HeldBy(r, 1, u) \in {0, 1} /\ c.need[u] \in Nat
    BY DEF HeldBy, CtxOk
  <2>2. s.loops[u].inflight = Held(s, u) + Load(s, u) + c.need[u]
    BY DEF Counted
  <2>r. Held(s, u) + c.need[u] > 0 => s.loops[u].refd
    BY DEF Counted
  <2>3. HeldBy(r, 1 - p, u) = HeldBy(s, 1 - p, u)
    BY <1>5, <1>7 DEF HeldBy, Ports
  <2>4. HeldBy(r, p, u) = HeldBy(s, p, u) + (IF u = t THEN d ELSE 0)
    BY <1>0, <1>1, <1>2, <1>5, <1>7 DEF HeldBy, Parts
  <2>5. Held(r, u) = Held(s, u) + (IF u = t THEN d ELSE 0)
    BY <2>1, <2>3, <2>4, <1>1 DEF Held, Ports
  <2>6. Held(r, u) \in Nat /\ Held(s, u) \in Nat
    BY <2>1 DEF Held
  <2>7. CASE u # t
    BY <1>0, <1>10, <2>1, <2>2, <2>r, <2>5, <2>6, <2>7 DEF Parts, Load
  <2>8. CASE u = t
    <3>1. Load(s, u) \in Nat /\ Load(r, u) = Load(s, u)
      BY <1>0, <1>10 DEF Parts, Load
    <3>2. r.loops[u].inflight = s.loops[u].inflight + d
      BY <1>10, <2>8
    <3>r. r.loops[u].refd <=> (IF u = self THEN s.loops[u].inflight + d > 0 ELSE s.loops[u].refd)
      BY <1>10, <2>8
    <3>3. Held(r, u) = Held(s, u) + d
      BY <2>5, <2>8
    <3>4. /\ r.loops[u].inflight = Held(r, u) + Load(r, u) + c.need[u]
          /\ Held(r, u) + c.need[u] > 0 => s.loops[u].inflight + d > 0
      BY <2>1, <2>2, <2>6, <3>1, <3>2, <3>3
    <3>5. u # self => (Held(r, u) + c.need[u] > 0 => Held(s, u) + c.need[u] > 0)
      <4>1. u # self => d = -1
        BY <1>1, <1>2, <2>8
      <4> QED BY <2>1, <2>6, <3>3, <4>1
    <3>6. Held(r, u) + c.need[u] > 0 => r.loops[u].refd
      BY <2>r, <3>r, <3>4, <3>5, Zenon
    <3> QED BY <3>4, <3>6
  <2> QED BY <2>7, <2>8
<1> QED BY <1>1, <1>2, <1>3, <1>4, <1>6, <1>9, <1>12, <1>13, <1>14

\* The fields of a port that the natives write, but for the hold: nothing is
\* queued on what is over, nothing becomes notified without its callback.
Allowed(s, c, p, x) ==
  /\ x \in PortType /\ (IF x.loop = None THEN ~x.held ELSE x.inv \in Starts)
  /\ x.held = s.port[p].held /\ (x.held => x.loop = s.port[p].loop)
  /\ s.port[p].closed => x.closed
  /\ s.port[p].queue = <<>> /\ (s.port[p].closed \/ c.run[Main].pc = "exit") => x.queue = <<>>
  /\ x.loop # None => x.loop = c.obj[p].at /\ x.inv.gen = c.obj[p].gen
  /\ x.notified =>
       /\ x.loop = s.port[p].loop /\ x.inv = s.port[p].inv
       /\ s.port[p].notified \/ \E it \in Bag(s, x.loop) : it.port = p /\ it.gen = x.inv.gen /\ it.drains = x.inv.drains
  /\ x.sent + c.left <= MaxOps

\* Such a change of one port keeps the invariant.
LEMMA PutKeeps ==
  ASSUME NEW s, NEW c, Base(s, c), NEW p \in Ports, NEW x, Allowed(s, c, p, x)
  PROVE  Base(With(s.loops, [s.port EXCEPT ![p] = x]), c)
<1> USE DEF Base, Rest
<1>0. Parts(s) BY TypedParts
<1>1. PICK r : r = With(s.loops, [s.port EXCEPT ![p] = x])
  OBVIOUS
<1>2. /\ r.loops = s.loops /\ r.port \in [Ports -> PortType] /\ r.port[p] = x
      /\ \A q \in Ports : q # p => r.port[q] = s.port[q]
  BY <1>0, <1>1 DEF With, Allowed, Parts
<1>3. Typed(r)
  BY <1>0, <1>1, <1>2 DEF Typed, With, Allowed, Parts
<1>4. \A t \in Threads : Bag(r, t) = Bag(s, t) /\ Load(r, t) = Load(s, t)
  BY <1>2 DEF Bag, Load
<1>5. ASSUME NEW q \in Ports, Over(s, q) PROVE Over(r, q)
  BY <1>2, <1>5 DEF Over, Allowed
<1>6. Ended(r, c)
  <2>1. ASSUME NEW t \in Threads, NEW it \in Bag(r, t) \cup {c.run[t].item}, it.what = "closed"
        PROVE  Over(r, it.port)
    <3>1. it.port \in Ports
      <4>1. CASE it \in Bag(r, t) BY <4>1, <1>3, BagTyped
      <4>2. CASE it = c.run[t].item BY <4>2 DEF CtxOk, RunType, ItemType
      <4> QED BY <4>1, <4>2
    <3> QED BY <1>4, <1>5, <2>1, <3>1 DEF Ended
  <2> QED BY <1>4, <1>5, <2>1 DEF Ended
<1>7. Told(r, c)
  <2> SUFFICES ASSUME NEW q \in Ports, r.port[q].loop # None, r.port[q].notified,
                      r.port[q].inv.drains, c.run[r.port[q].loop].pc # "ended"
               PROVE  Arriving(r, c, q)
    BY DEF Told
  <2>1. r.port[q].loop \in Threads
    BY <1>3 DEF Typed, PortType
  <2>2. CASE q # p
    BY <1>2, <1>4, <2>1, <2>2 DEF Told, Arriving
  <2>3. CASE q = p /\ s.port[p].notified
    BY <1>2, <1>4, <2>1, <2>3 DEF Told, Arriving, Allowed
  <2>4. CASE q = p /\ ~s.port[p].notified
    BY <1>2, <1>4, <2>1, <2>4 DEF Arriving, Allowed, Carries
  <2> QED BY <2>2, <2>3, <2>4
<1>8. Owned(r, c)
  BY <1>2 DEF Owned, Allowed
<1>9. Resting(r, c)
  BY <1>2 DEF Resting, Allowed
<1>10. Drained(r, c)
  <2>1. 0 \in Ports
    BY DEF Ports
  <2>2. s.port[0].queue = <<>> /\ (s.port[0].closed \/ c.run[Main].pc = "exit") => r.port[0].queue = <<>>
    BY <1>2, <2>1 DEF Allowed
  <2>3. s.port[0].closed => r.port[0].closed
    BY <1>2, <2>1 DEF Allowed
  <2> QED BY <2>2, <2>3 DEF Drained
<1>11. Events(r, c)
  BY <1>2, EventsFrame
<1>12. Counted(r, c)
  <2>1. ASSUME NEW t \in Threads PROVE Held(r, t) = Held(s, t)
    <3>1. \A q \in Ports : HeldBy(r, q, t) = HeldBy(s, q, t)
      BY <1>2, <2>1 DEF HeldBy, Allowed
    <3> QED BY <3>1 DEF Held, Ports
  <2> QED BY <1>2, <1>4, <2>1 DEF Counted
<1> QED BY <1>1, <1>3, <1>6, <1>7, <1>8, <1>9, <1>10, <1>11, <1>12

-----------------------------------------------------------------------------
(* The natives, built from them.                                           *)

Settled(s, p) == OwesNone(s, p) /\ EndsNone(s, p)

\* Two states whose ports have the same queues, ends and callbacks.
SameQueues(s, r) ==
  \A p \in Ports :
    /\ r.port[p].loop = s.port[p].loop /\ r.port[p].inv = s.port[p].inv
    /\ r.port[p].queue = s.port[p].queue /\ r.port[p].closed = s.port[p].closed

\* A port's fields as the invariant gives them.
LEMMA PortFacts ==
  ASSUME NEW s, NEW c, Base(s, c), NEW p \in Ports
  PROVE  /\ s.port[p] \in PortType /\ s.port[p].sent + c.left <= MaxOps
         /\ s.port[p].loop # None => /\ s.port[p].loop \in Threads /\ s.port[p].inv \in Starts
                                     /\ s.port[p].loop = c.obj[p].at /\ s.port[p].inv.gen = c.obj[p].gen
         /\ s.port[p].loop = None => ~s.port[p].held
<1>1. Parts(s) BY TypedParts DEF Base, Rest
<1> QED BY <1>1 DEF Base, Rest, Parts, Typed, Owned, Resting

\* mp_hold_locked matches the hold to what the port is; only its own thread
\* takes a hold.
LEMMA HoldLocked ==
  ASSUME NEW s, NEW c, Base(s, c), NEW self \in Threads, NEW p \in Ports,
         s.port[p].closed \/ s.port[p].loop \in {None, self}
  PROVE  Base(mp_hold_locked(s, self, p), c) /\ SamePorts(s, mp_hold_locked(s, self, p))
<1>0. Parts(s) /\ s.port[p] \in PortType
  BY TypedParts DEF Base, Rest, Parts
<1> DEFINE want == s.port[p].refd /\ s.port[p].loop # None /\ ~s.port[p].closed
<1>1. want \in BOOLEAN /\ (want => s.port[p].loop = self)
  OBVIOUS
<1>2. CASE want = s.port[p].held
  <2>1. mp_hold_locked(s, self, p) = s
    BY <1>2 DEF mp_hold_locked
  <2> QED BY <2>1 DEF SamePorts
<1>3. CASE want # s.port[p].held
  <2>1. s.port[p].loop # None
    BY <1>0, <1>3, PortFacts DEF PortType
  <2>2. PICK b \in BOOLEAN : b = want
    BY <1>1
  <2>3. mp_hold_locked(s, self, p)
          = With(port_hold(s.loops, self, s.port[p].loop, IF b THEN 1 ELSE -1), [s.port EXCEPT ![p].held = b])
    BY <1>3, <2>2 DEF mp_hold_locked, With
  <2>4. Base(mp_hold_locked(s, self, p), c)
    BY <1>1, <1>3, <2>1, <2>2, <2>3, HoldKeeps
  <2>5. SamePorts(s, With(port_hold(s.loops, self, s.port[p].loop, IF b THEN 1 ELSE -1), [s.port EXCEPT ![p].held = b]))
    BY <1>0 DEF SamePorts, With, Parts, PortType
  <2> QED BY <2>3, <2>4, <2>5
<1> QED BY <1>2, <1>3

\* What a port posts to its loop, and that it has been notified.
LEMMA NotifyPosts ==
  ASSUME NEW s, NEW c, Base(s, c), NEW self \in Threads, NEW p \in Ports, s.port[p].loop # None,
         NEW what \in {"messages", "closed"}, what = "closed" => Over(s, p), NEW sent \in BOOLEAN
  PROVE  Base(With(kml_post_to_loop(s.loops, self, s.port[p].loop, PortItem(what, s.port[p].inv, p)),
                   [s.port EXCEPT ![p] = [s.port[p] EXCEPT !.notified = TRUE, !.closeSent = sent]]), c)
<1>1. PICK t \in Threads : t = s.port[p].loop
  BY PortFacts
<1>2. PICK it : it = PortItem(what, s.port[p].inv, p)
  OBVIOUS
<1>3. /\ it \in ItemType /\ it.what = what /\ it.port = p
      /\ it.gen = s.port[p].inv.gen /\ it.drains = s.port[p].inv.drains
  <2>1. s.port[p].inv \in Starts
    BY PortFacts
  <2> QED BY <1>2, <2>1, Distinct DEF PortItem, ItemType, Starts, Whats
<1>4. PICK ls : ls = kml_post_to_loop(s.loops, self, t, it)
  OBVIOUS
<1>5. Base(With(ls, s.port), c) /\ it \in Bag(With(ls, s.port), t)
  <2>1. Postable(s, it) /\ it.what \notin {"online", "exit"}
    BY <1>3 DEF Postable
  <2>2. With(ls, s.port) = PostedTo(s, self, t, it)
    BY <1>4 DEF PostedTo
  <2> QED BY <2>1, <2>2, PostKeeps
<1>6. PICK u : u = With(ls, s.port)
  OBVIOUS
<1>7. u.loops = ls /\ u.port = s.port
  BY <1>6 DEF With
<1>8. PICK x : x = [s.port[p] EXCEPT !.notified = TRUE, !.closeSent = sent]
  OBVIOUS
<1>9. Allowed(u, c, p, x)
  <2>1. /\ x \in PortType /\ x.loop = s.port[p].loop /\ x.inv = s.port[p].inv /\ x.held = s.port[p].held
        /\ x.closed = s.port[p].closed /\ x.queue = s.port[p].queue /\ x.sent = s.port[p].sent
    BY <1>8, PortFacts DEF PortType
  <2>2. it \in Bag(u, x.loop)
    BY <1>1, <1>5, <1>6, <2>1
  <2> QED BY <1>3, <1>7, <2>1, <2>2, PortFacts DEF Allowed
<1>10. Base(With(u.loops, [u.port EXCEPT ![p] = x]), c)
  BY <1>5, <1>6, <1>9, PutKeeps
<1> QED BY <1>1, <1>2, <1>4, <1>7, <1>8, <1>10

\* mp_notify_locked leaves a port that owes nothing unannounced.
LEMMA NotifyLocked ==
  ASSUME NEW s, NEW c, Base(s, c), NEW self \in Threads, NEW p \in Ports
  PROVE  /\ Base(mp_notify_locked(s, self, p), c) /\ Settled(mp_notify_locked(s, self, p), p)
         /\ SameQueues(s, mp_notify_locked(s, self, p))
         /\ Settled(s, peer(p)) => Settled(mp_notify_locked(s, self, p), peer(p))
         /\ OwesNone(s, peer(p)) => OwesNone(mp_notify_locked(s, self, p), peer(p))
<1>0. /\ Parts(s) /\ s.port[p] \in PortType /\ peer(p) \in Ports /\ peer(p) # p
  BY TypedParts DEF Base, Rest, Parts, peer, Ports
<1> DEFINE r == s.port[p]
           x(b) == [r EXCEPT !.notified = TRUE, !.closeSent = b]
           n(what, b) == With(kml_post_to_loop(s.loops, self, r.loop, PortItem(what, r.inv, p)),
                              [s.port EXCEPT ![p] = x(b)])
<1>1. CASE r.loop = None \/ r.notified \/ (r.queue = <<>> /\ ~(r.closed /\ ~r.closeSent))
  <2>1. mp_notify_locked(s, self, p) = s
    BY <1>1 DEF mp_notify_locked
  <2>2. Settled(s, p)
    BY <1>1 DEF Settled, OwesNone, EndsNone
  <2> QED BY <2>1, <2>2 DEF SameQueues
<1>2. ASSUME NEW what, NEW b \in BOOLEAN
      PROVE  /\ Settled(n(what, b), p) /\ SameQueues(s, n(what, b))
             /\ Settled(s, peer(p)) => Settled(n(what, b), peer(p))
             /\ OwesNone(s, peer(p)) => OwesNone(n(what, b), peer(p))
  <2>1. n(what, b).port = [s.port EXCEPT ![p] = x(b)]
    BY DEF With
  <2>2. /\ x(b).notified /\ x(b).loop = r.loop /\ x(b).inv = r.inv
        /\ x(b).queue = r.queue /\ x(b).closed = r.closed
    BY <1>0 DEF PortType
  <2>3. n(what, b).port[p] = x(b) /\ n(what, b).port[peer(p)] = s.port[peer(p)]
    BY <1>0, <2>1 DEF Parts
  <2> HIDE DEF n, x
  <2>4. Settled(n(what, b), p)
    BY <2>2, <2>3 DEF Settled, OwesNone, EndsNone
  <2>5. SameQueues(s, n(what, b))
    BY <2>2, <2>3 DEF SameQueues, Ports, peer
  <2>6. /\ Settled(s, peer(p)) => Settled(n(what, b), peer(p))
        /\ OwesNone(s, peer(p)) => OwesNone(n(what, b), peer(p))
    BY <2>3 DEF Settled, OwesNone, EndsNone
  <2> QED BY <2>4, <2>5, <2>6
<1>3. CASE r.loop # None /\ ~r.notified /\ r.queue # <<>>
  <2>1. [s.port EXCEPT ![p].notified = TRUE] = [s.port EXCEPT ![p] = x(r.closeSent)]
    BY <1>0 DEF Parts, PortType
  <2>2. mp_notify_locked(s, self, p) = n("messages", r.closeSent)
    BY <1>3, <2>1 DEF mp_notify_locked, With
  <2>3. r.closeSent \in BOOLEAN
    BY <1>0 DEF PortType
  <2>4. Base(n("messages", r.closeSent), c)
    BY <1>3, <2>3, NotifyPosts
  <2> HIDE DEF n
  <2> QED BY <1>2, <2>2, <2>3, <2>4
<1>4. CASE r.loop # None /\ ~r.notified /\ r.queue = <<>> /\ r.closed /\ ~r.closeSent
  <2>1. [s.port EXCEPT ![p].notified = TRUE, ![p].closeSent = TRUE] = [s.port EXCEPT ![p] = x(TRUE)]
    BY <1>0 DEF Parts, PortType
  <2>2. mp_notify_locked(s, self, p) = n("closed", TRUE)
    BY <1>4, <2>1 DEF mp_notify_locked, With
  <2>3. Over(s, p)
    BY <1>4 DEF Over
  <2>4. Base(n("closed", TRUE), c)
    BY <1>4, <2>3, NotifyPosts
  <2> HIDE DEF n
  <2> QED BY <1>2, <2>2, <2>4
<1> QED BY <1>1, <1>3, <1>4

SameEnds(s, r) == \A p \in Ports : r.port[p].queue = s.port[p].queue /\ r.port[p].closed = s.port[p].closed

\* What is settled stays so when only holds change.
LEMMA SettledFrame ==
  ASSUME NEW s, NEW r, SamePorts(s, r)
  PROVE  /\ SameEnds(s, r)
         /\ \A p \in Ports : /\ Settled(s, p) => Settled(r, p)
                             /\ OwesNone(s, p) => OwesNone(r, p)
                             /\ EndsNone(s, p) => EndsNone(r, p)
                             /\ r.port[p].loop = s.port[p].loop
BY DEF SamePorts, SameEnds, Settled, OwesNone, EndsNone

IsPut(s, r, p, x) ==
  /\ r.port[p] = x /\ r.port[peer(p)] = s.port[peer(p)]
  /\ Settled(s, peer(p)) => Settled(r, peer(p))
  /\ OwesNone(s, peer(p)) => OwesNone(r, peer(p))

\* The two ends.
LEMMA Ends ==
  ASSUME NEW p \in Ports
  PROVE  peer(p) \in Ports /\ peer(p) # p /\ Ports = {p, peer(p)} /\ peer(peer(p)) = p
BY DEF peer, Ports

\* A port rewritten leaves the other end alone.
LEMMA PutFacts ==
  ASSUME NEW s, NEW c, Base(s, c), NEW p \in Ports, NEW x
  PROVE  IsPut(s, With(s.loops, [s.port EXCEPT ![p] = x]), p, x)
<1>1. Parts(s) BY TypedParts DEF Base, Rest
<1>2. peer(p) \in Ports /\ peer(p) # p
  BY Ends
<1>3. PICK r : r = With(s.loops, [s.port EXCEPT ![p] = x])
  OBVIOUS
<1>4. r.port[p] = x /\ r.port[peer(p)] = s.port[peer(p)]
  BY <1>1, <1>2, <1>3 DEF With, Parts
<1>5. /\ Settled(s, peer(p)) => Settled(r, peer(p))
      /\ OwesNone(s, peer(p)) => OwesNone(r, peer(p))
  BY <1>4 DEF Settled, OwesNone, EndsNone
<1> QED BY <1>3, <1>4, <1>5 DEF IsPut

\* What start and stop do first.
LEMMA ReleasedKeeps ==
  ASSUME NEW s, NEW c, Base(s, c), NEW self \in Threads, NEW p \in Ports
  PROVE  /\ Base(Released(s, self, p), c) /\ SamePorts(s, Released(s, self, p))
         /\ ~Released(s, self, p).port[p].held
<1>0. Parts(s) /\ s.port[p] \in PortType
  BY TypedParts DEF Base, Rest, Parts
<1>1. CASE ~s.port[p].held
  BY <1>1 DEF Released, SamePorts
<1>2. CASE s.port[p].held
  <2>1. s.port[p].loop # None /\ FALSE # s.port[p].held
    BY <1>2, PortFacts
  <2>2. Base(With(port_hold(s.loops, self, s.port[p].loop, IF FALSE THEN 1 ELSE -1),
                  [s.port EXCEPT ![p].held = FALSE]), c)
    BY <2>1, HoldKeeps
  <2>3. Released(s, self, p) = With(port_hold(s.loops, self, s.port[p].loop, -1), [s.port EXCEPT ![p].held = FALSE])
    BY <1>2 DEF Released, With
  <2>4. PICK ls : ls = port_hold(s.loops, self, s.port[p].loop, -1)
    OBVIOUS
  <2>5. /\ SamePorts(s, With(ls, [s.port EXCEPT ![p].held = FALSE]))
        /\ ~With(ls, [s.port EXCEPT ![p].held = FALSE]).port[p].held
    BY <1>0 DEF SamePorts, With, Parts, PortType
  <2> QED BY <2>2, <2>3, <2>4, <2>5
<1> QED BY <1>1, <1>2

Moved(s, p, loop, inv) ==
  [s EXCEPT !.port[p].loop = loop, !.port[p].inv = inv, !.port[p].notified = FALSE]

\* A port that holds nothing is started for the object that stands for it,
\* or stopped.
LEMMA MovedKeeps ==
  ASSUME NEW s, NEW c, Base(s, c), NEW p \in Ports, ~s.port[p].held, NEW loop, NEW inv,
         \/ loop = None /\ inv = None
         \/ loop \in Threads /\ loop = c.obj[p].at /\ inv \in Starts /\ inv.gen = c.obj[p].gen
  PROVE  /\ Base(Moved(s, p, loop, inv), c) /\ Moved(s, p, loop, inv).port[p].loop = loop
         /\ SameEnds(s, Moved(s, p, loop, inv))
         /\ Settled(s, peer(p)) => Settled(Moved(s, p, loop, inv), peer(p))
<1>0. Parts(s) /\ s.port[p] \in PortType
  BY TypedParts DEF Base, Rest, Parts
<1>1. PICK x : x = [s.port[p] EXCEPT !.loop = loop, !.inv = inv, !.notified = FALSE]
  OBVIOUS
<1>2. Moved(s, p, loop, inv) = With(s.loops, [s.port EXCEPT ![p] = x])
  <2>1. PICK ls, pt : s = [loops |-> ls, port |-> pt] /\ pt \in [Ports -> PortType]
    BY <1>0 DEF With, Parts
  <2>2. s.loops = ls /\ s.port = pt
    BY <2>1
  <2>3. Moved(s, p, loop, inv)
          = [loops |-> ls, port |-> [pt EXCEPT ![p].loop = loop, ![p].inv = inv, ![p].notified = FALSE]]
    <3>1. [s EXCEPT !.port[p].loop = loop] = [loops |-> ls, port |-> [pt EXCEPT ![p].loop = loop]]
      BY <2>1
    <3>2. PICK a : a = [pt EXCEPT ![p].loop = loop]
      OBVIOUS
    <3>3. [[loops |-> ls, port |-> a] EXCEPT !.port[p].inv = inv] = [loops |-> ls, port |-> [a EXCEPT ![p].inv = inv]]
      OBVIOUS
    <3>4. PICK b : b = [a EXCEPT ![p].inv = inv]
      OBVIOUS
    <3>5. [[loops |-> ls, port |-> b] EXCEPT !.port[p].notified = FALSE]
            = [loops |-> ls, port |-> [b EXCEPT ![p].notified = FALSE]]
      <4>1. ASSUME NEW f
            PROVE  [[loops |-> ls, port |-> b] EXCEPT !.port[p].notified = f]
                     = [loops |-> ls, port |-> [b EXCEPT ![p].notified = f]]
        OBVIOUS
      <4> QED BY <4>1, Zenon
    <3>6. Moved(s, p, loop, inv) = [[[s EXCEPT !.port[p].loop = loop] EXCEPT !.port[p].inv = inv] EXCEPT !.port[p].notified = FALSE]
      BY DEF Moved
    <3>7. [pt EXCEPT ![p].loop = loop, ![p].inv = inv, ![p].notified = FALSE] = [b EXCEPT ![p].notified = FALSE]
      BY <3>2, <3>4
    <3> QED BY <3>1, <3>2, <3>3, <3>4, <3>5, <3>6, <3>7
  <2>4. [pt EXCEPT ![p].loop = loop, ![p].inv = inv, ![p].notified = FALSE] = [pt EXCEPT ![p] = x]
    BY <1>1, <2>1, <2>2
  <2> QED BY <2>2, <2>3, <2>4 DEF With
<1>3. /\ x \in PortType /\ x.loop = loop /\ x.inv = inv /\ ~x.notified /\ x.held = s.port[p].held
      /\ x.closed = s.port[p].closed /\ x.queue = s.port[p].queue /\ x.sent = s.port[p].sent
  BY <1>0, <1>1 DEF PortType, Invs, Starts
<1>4. Allowed(s, c, p, x)
  BY <1>3, Distinct, PortFacts DEF Allowed
<1>5. PICK r : r = With(s.loops, [s.port EXCEPT ![p] = x])
  OBVIOUS
<1>6. Base(r, c)
  BY <1>4, <1>5, PutKeeps
<1>7. /\ r.port[p] = x /\ r.port[peer(p)] = s.port[peer(p)] /\ Ports = {p, peer(p)}
      /\ Settled(s, peer(p)) => Settled(r, peer(p))
  BY <1>5, PutFacts, Ends DEF IsPut
<1>8. SameEnds(s, r)
  BY <1>3, <1>7 DEF SameEnds
<1> QED BY <1>2, <1>3, <1>5, <1>6, <1>7, <1>8

\* __kml_native_mport_start.
LEMMA StartKeeps ==
  ASSUME NEW s, NEW c, Base(s, c), NEW self \in Threads, NEW p \in Ports, NEW inv \in Starts,
         self = c.obj[p].at, inv.gen = c.obj[p].gen, Settled(s, peer(p))
  PROVE  /\ Base(mport_start(s, self, p, inv), c) /\ SameEnds(s, mport_start(s, self, p, inv))
         /\ \A q \in Ports : Settled(mport_start(s, self, p, inv), q)
<1>0. Ports = {p, peer(p)} /\ peer(p) \in Ports
  BY Ends
<1>1. PICK u : u = Released(s, self, p)
  OBVIOUS
<1>2. Base(u, c) /\ SamePorts(s, u) /\ ~u.port[p].held
  BY <1>1, ReleasedKeeps
<1>3. SameEnds(s, u) /\ Settled(u, peer(p))
  BY <1>0, <1>2, SettledFrame
<1>4. PICK v : v = Moved(u, p, self, inv)
  OBVIOUS
<1>5. Base(v, c) /\ v.port[p].loop = self /\ SameEnds(u, v) /\ Settled(v, peer(p))
  BY <1>2, <1>3, <1>4, MovedKeeps
<1>6. PICK w : w = mp_hold_locked(v, self, p)
  OBVIOUS
<1>7. Base(w, c) /\ SamePorts(v, w)
  BY <1>5, <1>6, HoldLocked
<1>8. SameEnds(v, w) /\ Settled(w, peer(p))
  BY <1>0, <1>5, <1>7, SettledFrame
<1>9. mport_start(s, self, p, inv) = mp_notify_locked(w, self, p)
  BY <1>1, <1>4, <1>6 DEF mport_start, Moved
<1>10. PICK r : r = mp_notify_locked(w, self, p)
  OBVIOUS
<1>11. Base(r, c) /\ Settled(r, p) /\ Settled(r, peer(p)) /\ SameQueues(w, r)
  BY <1>7, <1>8, <1>10, NotifyLocked
<1>12. SameEnds(s, r)
  BY <1>3, <1>5, <1>8, <1>11 DEF SameEnds, SameQueues
<1> QED BY <1>0, <1>9, <1>10, <1>11, <1>12

\* __kml_native_mport_stop.
LEMMA StopKeeps ==
  ASSUME NEW s, NEW c, Base(s, c), NEW self \in Threads, NEW p \in Ports, Settled(s, peer(p))
  PROVE  /\ Base(mport_stop(s, self, p), c) /\ mport_stop(s, self, p).port[p].loop = None
         /\ SameEnds(s, mport_stop(s, self, p))
         /\ \A q \in Ports : Settled(mport_stop(s, self, p), q)
<1>0. Ports = {p, peer(p)} /\ peer(p) \in Ports
  BY Ends
<1>1. PICK u : u = Released(s, self, p)
  OBVIOUS
<1>2. Base(u, c) /\ SamePorts(s, u) /\ ~u.port[p].held
  BY <1>1, ReleasedKeeps
<1>3. SameEnds(s, u) /\ Settled(u, peer(p))
  BY <1>0, <1>2, SettledFrame
<1>4. PICK v : v = Moved(u, p, None, None)
  OBVIOUS
<1>5. Base(v, c) /\ v.port[p].loop = None /\ SameEnds(u, v) /\ Settled(v, peer(p))
  BY <1>2, <1>3, <1>4, MovedKeeps
<1>6. Settled(v, p) /\ SameEnds(s, v)
  BY <1>3, <1>5 DEF Settled, OwesNone, EndsNone, SameEnds
<1>7. mport_stop(s, self, p) = v
  BY <1>1, <1>4 DEF mport_stop, Moved
<1> QED BY <1>0, <1>5, <1>6, <1>7

\* The ports replaced, the loops left alone.
LEMMA WithPorts ==
  ASSUME NEW s, Parts(s), NEW pt
  PROVE  [s EXCEPT !.port = pt] = With(s.loops, pt)
<1>1. PICK ls, q : s = [loops |-> ls, port |-> q]
  BY DEF With, Parts
<1> QED BY <1>1 DEF With

\* mportRef, by the port's own thread.
LEMMA RefKeeps ==
  ASSUME NEW s, NEW c, Base(s, c), NEW self \in Threads, NEW p \in Ports, NEW on \in BOOLEAN,
         self = c.obj[p].at
  PROVE  /\ Base(mport_ref(s, self, p, on), c) /\ SameEnds(s, mport_ref(s, self, p, on))
         /\ \A q \in Ports : Settled(s, q) => Settled(mport_ref(s, self, p, on), q)
<1>0. Parts(s) /\ s.port[p] \in PortType
  BY TypedParts DEF Base, Rest, Parts
<1>1. PICK x : x = [s.port[p] EXCEPT !.refd = on]
  OBVIOUS
<1>2. PICK u : u = With(s.loops, [s.port EXCEPT ![p] = x])
  OBVIOUS
<1>3. /\ x \in PortType /\ x.loop = s.port[p].loop /\ x.inv = s.port[p].inv /\ x.held = s.port[p].held
      /\ x.notified = s.port[p].notified /\ x.closed = s.port[p].closed /\ x.queue = s.port[p].queue
      /\ x.sent = s.port[p].sent /\ x.closeSent = s.port[p].closeSent
  BY <1>0, <1>1 DEF PortType
<1>4. Allowed(s, c, p, x)
  BY <1>3, PortFacts DEF Allowed
<1>5. Base(u, c)
  BY <1>2, <1>4, PutKeeps
<1>6. u.port[p] = x /\ u.port[peer(p)] = s.port[peer(p)] /\ Ports = {p, peer(p)}
  <2>1. IsPut(s, u, p, x)
    BY <1>2, PutFacts
  <2> QED BY <2>1, Ends DEF IsPut
<1>7. SamePorts(s, u)
  BY <1>3, <1>6 DEF SamePorts
<1>8. u.port[p].loop \in {None, self}
  BY <1>3, <1>6, PortFacts
<1>9. mport_ref(s, self, p, on) = mp_hold_locked(u, self, p)
  <2>1. [s EXCEPT !.port = [s.port EXCEPT ![p] = x]] = u
    BY <1>0, <1>2, WithPorts
  <2> QED BY <1>1, <2>1 DEF mport_ref
<1>10. PICK r : r = mp_hold_locked(u, self, p)
  OBVIOUS
<1>11. Base(r, c) /\ SamePorts(u, r)
  BY <1>5, <1>8, <1>10, HoldLocked
<1>12. SamePorts(s, r)
  BY <1>7, <1>11 DEF SamePorts
<1>13. SameEnds(s, r) /\ \A q \in Ports : Settled(s, q) => Settled(r, q)
  BY <1>12, SettledFrame
<1> QED BY <1>9, <1>10, <1>11, <1>13

Cleared(s, p) == With(s.loops, [s.port EXCEPT ![p] = [s.port[p] EXCEPT !.notified = FALSE]])
ClearedOk(s, u, p) ==
  /\ ~u.port[p].notified /\ SameEnds(s, u) /\ u.loops = s.loops
  /\ u.port[p].loop = s.port[p].loop /\ u.port[p].inv = s.port[p].inv
  /\ u.port[peer(p)] = s.port[peer(p)]

\* A port no longer counts as notified.
LEMMA ClearKeeps ==
  ASSUME NEW s, NEW c, Base(s, c), NEW p \in Ports
  PROVE  /\ Base(Cleared(s, p), c) /\ ClearedOk(s, Cleared(s, p), p)
         /\ [s EXCEPT !.port[p].notified = FALSE] = Cleared(s, p)
<1>0. Parts(s) /\ s.port[p] \in PortType
  BY TypedParts DEF Base, Rest, Parts
<1>1. PICK x : x = [s.port[p] EXCEPT !.notified = FALSE]
  OBVIOUS
<1>2. PICK u : u = With(s.loops, [s.port EXCEPT ![p] = x])
  OBVIOUS
<1>3. /\ x \in PortType /\ x.loop = s.port[p].loop /\ x.inv = s.port[p].inv /\ x.held = s.port[p].held
      /\ ~x.notified /\ x.closed = s.port[p].closed /\ x.queue = s.port[p].queue
      /\ x.sent = s.port[p].sent /\ x.closeSent = s.port[p].closeSent
  BY <1>0, <1>1 DEF PortType
<1>4. Allowed(s, c, p, x)
  BY <1>3, PortFacts DEF Allowed
<1>5. Base(u, c)
  BY <1>2, <1>4, PutKeeps
<1>6. u.port[p] = x /\ u.port[peer(p)] = s.port[peer(p)] /\ Ports = {p, peer(p)} /\ u.loops = s.loops
  <2>1. IsPut(s, u, p, x)
    BY <1>2, PutFacts
  <2> QED BY <1>2, <2>1, Ends DEF IsPut, With
<1>7. SameEnds(s, u)
  BY <1>3, <1>6 DEF SameEnds
<1>8. [s EXCEPT !.port[p].notified = FALSE] = u
  <2>1. [s EXCEPT !.port = [s.port EXCEPT ![p] = x]] = u
    BY <1>0, <1>2, WithPorts
  <2> QED BY <1>1, <2>1
<1>9. u = Cleared(s, p)
  BY <1>1, <1>2 DEF Cleared
<1> QED BY <1>3, <1>5, <1>6, <1>7, <1>8, <1>9 DEF ClearedOk

\* mportHas on an empty queue, from there on.
LEMMA ClearedKeeps ==
  ASSUME NEW s, NEW u, NEW c, Base(u, c), NEW self \in Threads, NEW p \in Ports, s.port[p].queue = <<>>,
         Settled(s, peer(p)), u = Cleared(s, p), ClearedOk(s, u, p),
         [s EXCEPT !.port[p].notified = FALSE] = u
  PROVE  /\ Base(mport_has_none(s, self, p), c) /\ SameEnds(s, mport_has_none(s, self, p))
         /\ \A q \in Ports : Settled(mport_has_none(s, self, p), q)
<1>5. Base(u, c)
  OBVIOUS
<1>6. Ports = {p, peer(p)} /\ Settled(u, peer(p)) /\ u.port[p].queue = <<>>
  BY Ends DEF ClearedOk, Settled, OwesNone, EndsNone, SameEnds
<1>7. SameEnds(s, u)
  BY DEF ClearedOk
<1>8. mport_has_none(s, self, p)
        = IF u.port[p].closed /\ ~u.port[p].closeSent THEN mp_notify_locked(u, self, p) ELSE u
  BY DEF mport_has_none
<1>9. CASE u.port[p].closed /\ ~u.port[p].closeSent
  <2>1. PICK r : r = mp_notify_locked(u, self, p)
    OBVIOUS
  <2>2. Base(r, c) /\ Settled(r, p) /\ Settled(r, peer(p)) /\ SameQueues(u, r)
    BY <1>5, <1>6, <2>1, NotifyLocked
  <2>3. SameEnds(s, r)
    BY <1>7, <2>2 DEF SameEnds, SameQueues
  <2> QED BY <1>6, <1>8, <1>9, <2>1, <2>2, <2>3
<1>10. CASE ~(u.port[p].closed /\ ~u.port[p].closeSent)
  <2>1. Settled(u, p)
    BY <1>6, <1>10 DEF Settled, OwesNone, EndsNone
  <2> QED BY <1>5, <1>6, <1>7, <1>8, <1>10, <2>1
<1> QED BY <1>9, <1>10

\* mportHas on an empty queue.
LEMMA HasNoneKeeps ==
  ASSUME NEW s, NEW c, Base(s, c), NEW self \in Threads, NEW p \in Ports, s.port[p].queue = <<>>,
         Settled(s, peer(p))
  PROVE  /\ Base(mport_has_none(s, self, p), c) /\ SameEnds(s, mport_has_none(s, self, p))
         /\ \A q \in Ports : Settled(mport_has_none(s, self, p), q)
<1>1. PICK u : u = Cleared(s, p)
  OBVIOUS
<1>2. Base(u, c) /\ ClearedOk(s, u, p) /\ [s EXCEPT !.port[p].notified = FALSE] = u
  BY <1>1, ClearKeeps
<1> QED BY <1>1, <1>2, ClearedKeeps

\* mportTake.
LEMMA TakeKeeps ==
  ASSUME NEW s, NEW c, Base(s, c), NEW p \in Ports, s.port[p].queue # <<>>
  PROVE  /\ Base(mport_take(s, p), c)
         /\ \A q \in Ports : Settled(s, q) => Settled(mport_take(s, p), q)
<1>0. Parts(s) /\ s.port[p] \in PortType
  BY TypedParts DEF Base, Rest, Parts
<1>1. PICK x : x = [s.port[p] EXCEPT !.queue = Tail(s.port[p].queue)]
  OBVIOUS
<1>2. PICK u : u = With(s.loops, [s.port EXCEPT ![p] = x])
  OBVIOUS
<1>3. s.port[p].queue \in Seq(1 .. MaxOps) /\ Tail(s.port[p].queue) \in Seq(1 .. MaxOps)
  <2>1. s.port[p].queue \in Seq(1 .. MaxOps)
    BY <1>0 DEF PortType
  <2>2. PICK q \in Seq(1 .. MaxOps) : q = s.port[p].queue
    BY <2>1
  <2>3. Tail(q) \in Seq(1 .. MaxOps)
    BY <2>2, HeadTailProperties
  <2> QED BY <2>2, <2>3
<1>4. /\ x \in PortType /\ x.loop = s.port[p].loop /\ x.inv = s.port[p].inv /\ x.held = s.port[p].held
      /\ x.notified = s.port[p].notified /\ x.closed = s.port[p].closed
      /\ x.sent = s.port[p].sent /\ x.closeSent = s.port[p].closeSent
  BY <1>0, <1>1, <1>3 DEF PortType
<1>5. Allowed(s, c, p, x)
  BY <1>4, PortFacts DEF Allowed
<1>6. Base(u, c)
  BY <1>2, <1>5, PutKeeps
<1>7. u.port[p] = x /\ u.port[peer(p)] = s.port[peer(p)] /\ Ports = {p, peer(p)}
  <2>1. IsPut(s, u, p, x)
    BY <1>2, PutFacts
  <2> QED BY <2>1, Ends DEF IsPut
<1>8. \A q \in Ports : Settled(s, q) => Settled(u, q)
  BY <1>4, <1>7 DEF Settled, OwesNone, EndsNone
<1>9. mport_take(s, p) = u
  <2>1. [s EXCEPT !.port = [s.port EXCEPT ![p] = x]] = u
    BY <1>0, <1>2, WithPorts
  <2> QED BY <1>1, <2>1 DEF mport_take
<1> QED BY <1>6, <1>8, <1>9

\* mportPost: the value is queued on the other end unless the pair is closed.
LEMMA PostMessageKeeps ==
  ASSUME NEW s, NEW c, Base(s, c), NEW self \in Threads, NEW p \in Ports, \A q \in Ports : Settled(s, q),
         s.port[peer(p)].sent + c.left < MaxOps, c.run[Main].pc # "exit"
  PROVE  /\ Base(mport_post(s, self, p), c)
         /\ \A q \in Ports : Settled(mport_post(s, self, p), q)
<1> DEFINE q == peer(p)
<1>0. q \in Ports /\ q # p /\ Ports = {q, p} /\ peer(q) = p
  BY Ends
<1>1. Parts(s) /\ s.port[q] \in PortType
  BY <1>0, TypedParts DEF Base, Rest, Parts
<1>2. CASE s.port[p].closed \/ s.port[q].closed
  <2>1. mport_post(s, self, p) = s
    BY <1>2 DEF mport_post
  <2> QED BY <2>1
<1>3. CASE ~(s.port[p].closed \/ s.port[q].closed)
  <2>1. PICK v : v = Append(s.port[q].queue, s.port[q].sent + 1)
    OBVIOUS
  <2>2. PICK n : n = s.port[q].sent + 1
    OBVIOUS
  <2>3. PICK x : x = [s.port[q] EXCEPT !.queue = v, !.sent = n]
    OBVIOUS
  <2>4. PICK u : u = With(s.loops, [s.port EXCEPT ![q] = x])
    OBVIOUS
  <2>5. n \in 1 .. MaxOps /\ n + c.left <= MaxOps /\ v \in Seq(1 .. MaxOps)
    <3>1. s.port[q].queue \in Seq(1 .. MaxOps) /\ s.port[q].sent \in 0 .. MaxOps /\ c.left \in Nat
      BY <1>1 DEF PortType, Base, Rest, CtxOk
    <3>2. n \in 1 .. MaxOps /\ n + c.left <= MaxOps
      BY <2>2, <3>1, Distinct
    <3>3. PICK w \in Seq(1 .. MaxOps) : w = s.port[q].queue
      BY <3>1
    <3>4. Append(w, n) \in Seq(1 .. MaxOps)
      BY <3>2, <3>3, AppendProperties
    <3> QED BY <2>1, <2>2, <3>2, <3>3, <3>4
  <2>6. /\ x \in PortType /\ x.loop = s.port[q].loop /\ x.inv = s.port[q].inv /\ x.held = s.port[q].held
        /\ x.notified = s.port[q].notified /\ x.closed = s.port[q].closed /\ x.queue = v
        /\ x.sent = n /\ x.closeSent = s.port[q].closeSent
    <3>1. PICK o \in PortType : o = s.port[q]
      BY <1>1
    <3>2. n \in 0 .. MaxOps
      BY <2>5, Distinct
    <3>3. /\ [o EXCEPT !.queue = v, !.sent = n] \in PortType
          /\ x = [o EXCEPT !.queue = v, !.sent = n]
      BY <2>3, <2>5, <3>1, <3>2 DEF PortType
    <3>4. /\ x.loop = o.loop /\ x.inv = o.inv /\ x.held = o.held /\ x.notified = o.notified
          /\ x.closed = o.closed /\ x.queue = v /\ x.sent = n /\ x.closeSent = o.closeSent
      BY <3>1, <3>3 DEF PortType
    <3> QED BY <3>1, <3>3, <3>4
  <2>7. Allowed(s, c, q, x)
    BY <1>0, <1>3, <2>5, <2>6, PortFacts DEF Allowed
  <2>8. Base(u, c)
    BY <1>0, <2>4, <2>7, PutKeeps
  <2>9. IsPut(s, u, q, x)
    BY <1>0, <2>4, PutFacts
  <2>10. Settled(u, p)
    BY <1>0, <2>9 DEF IsPut
  <2>11. [s EXCEPT !.port[q].queue = Append(@, s.port[q].sent + 1), !.port[q].sent = @ + 1] = u
    <3>1. PICK y : y = [s.port[q] EXCEPT !.queue = v]
      OBVIOUS
    <3>2. PICK a : a = [s.port EXCEPT ![q] = y]
      OBVIOUS
    <3>3. [s EXCEPT !.port = a] = With(s.loops, a)
      BY <1>1, WithPorts
    <3>4. With(s.loops, a).port = a /\ a[q] = y /\ y.sent = s.port[q].sent
      BY <1>0, <1>1, <3>1, <3>2 DEF With, Parts, PortType
    <3>5. [With(s.loops, a) EXCEPT !.port = [a EXCEPT ![q] = [y EXCEPT !.sent = n]]]
            = With(s.loops, [a EXCEPT ![q] = [y EXCEPT !.sent = n]])
      BY DEF With
    <3>6. [a EXCEPT ![q] = [y EXCEPT !.sent = n]] = [s.port EXCEPT ![q] = x]
      BY <1>0, <1>1, <2>3, <3>1, <3>2 DEF Parts, PortType
    <3>7. [s EXCEPT !.port[q].queue = Append(@, s.port[q].sent + 1)] = With(s.loops, a)
      BY <2>1, <3>1, <3>2, <3>3
    <3>8. [With(s.loops, a) EXCEPT !.port[q].sent = @ + 1] = With(s.loops, [a EXCEPT ![q] = [y EXCEPT !.sent = n]])
      BY <2>2, <3>4, <3>5
    <3>9. [s EXCEPT !.port[q].queue = Append(@, s.port[q].sent + 1), !.port[q].sent = @ + 1]
            = [[s EXCEPT !.port[q].queue = Append(@, s.port[q].sent + 1)] EXCEPT !.port[q].sent = @ + 1]
      OBVIOUS
    <3> QED BY <2>4, <3>6, <3>7, <3>8, <3>9
  <2>12. mport_post(s, self, p) = mp_notify_locked(u, self, q)
    BY <1>3, <2>11 DEF mport_post
  <2>13. PICK r : r = mp_notify_locked(u, self, q)
    OBVIOUS
  <2>14. Base(r, c) /\ Settled(r, q) /\ Settled(r, p)
    BY <1>0, <2>8, <2>10, <2>13, NotifyLocked
  <2> QED BY <1>0, <2>12, <2>13, <2>14
<1> QED BY <1>2, <1>3

Marked(s, p) == [s EXCEPT !.port[p].closed = TRUE]
MarkedOk(s, u, p) ==
  /\ u.port[p].closed /\ u.port[p].queue = s.port[p].queue
  /\ u.port[peer(p)] = s.port[peer(p)]
  /\ OwesNone(s, p) => OwesNone(u, p)
  /\ Settled(s, peer(p)) => Settled(u, peer(p))

\* A port marked closed: what follows releases its hold and announces its end.
LEMMA MarkClosed ==
  ASSUME NEW s, NEW c, Base(s, c), NEW p \in Ports
  PROVE  Base(Marked(s, p), c) /\ MarkedOk(s, Marked(s, p), p)
<1>0. Parts(s) /\ s.port[p] \in PortType
  BY TypedParts DEF Base, Rest, Parts
<1>1. PICK x : x = [s.port[p] EXCEPT !.closed = TRUE]
  OBVIOUS
<1>2. PICK u : u = With(s.loops, [s.port EXCEPT ![p] = x])
  OBVIOUS
<1>3. /\ x \in PortType /\ x.loop = s.port[p].loop /\ x.inv = s.port[p].inv /\ x.held = s.port[p].held
      /\ x.notified = s.port[p].notified /\ x.closed /\ x.queue = s.port[p].queue
      /\ x.sent = s.port[p].sent
  BY <1>0, <1>1 DEF PortType
<1>4. Allowed(s, c, p, x)
  BY <1>3, PortFacts DEF Allowed
<1>5. Base(u, c)
  BY <1>2, <1>4, PutKeeps
<1>6. IsPut(s, u, p, x)
  BY <1>2, PutFacts
<1>7. OwesNone(s, p) => OwesNone(u, p)
  BY <1>3, <1>6 DEF OwesNone, IsPut
<1>8. [s EXCEPT !.port = [s.port EXCEPT ![p] = x]] = u
  BY <1>0, <1>2, WithPorts
<1>9. Marked(s, p) = u
  BY <1>1, <1>8 DEF Marked
<1> QED BY <1>3, <1>5, <1>6, <1>7, <1>9 DEF IsPut, MarkedOk

BothClosed(s, r) ==
  \A p \in Ports : r.port[p].closed /\ r.port[p].queue = s.port[p].queue

\* __kml_native_mport_close up to the release of the peer's hold: this end is
\* announced, of the other one only what is queued.
LEMMA CloseFirstKeeps ==
  ASSUME NEW s, NEW c, Base(s, c), NEW self \in Threads, NEW p \in Ports, \A q \in Ports : Settled(s, q)
  PROVE  /\ Base(mport_close_first(s, self, p), c) /\ Settled(mport_close_first(s, self, p), p)
         /\ OwesNone(mport_close_first(s, self, p), peer(p))
         /\ BothClosed(s, mport_close_first(s, self, p))
<1> DEFINE q == peer(p)
<1>0. q \in Ports /\ q # p /\ Ports = {q, p} /\ peer(q) = p
  BY Ends
<1>1. PICK u : u = Marked(s, p)
  OBVIOUS
<1>2. Base(u, c) /\ MarkedOk(s, u, p)
  BY <1>1, MarkClosed
<1>3. PICK m : m = mp_hold_locked(u, self, p)
  OBVIOUS
<1>4. Base(m, c) /\ SamePorts(u, m)
  BY <1>2, <1>3, HoldLocked DEF MarkedOk
<1>5. OwesNone(m, q) /\ Settled(m, q) /\ SameEnds(u, m)
  <2>1. Settled(u, q)
    BY <1>0, <1>2 DEF MarkedOk
  <2>2. Settled(m, q) /\ SameEnds(u, m)
    BY <1>0, <1>4, <2>1, SettledFrame
  <2> QED BY <2>2 DEF Settled
<1>6. PICK o : o = mp_notify_locked(m, self, p)
  OBVIOUS
<1>7. Base(o, c) /\ Settled(o, p) /\ Settled(o, q) /\ SameQueues(m, o)
  BY <1>4, <1>5, <1>6, NotifyLocked
<1>8. /\ o.port[p].closed /\ o.port[p].queue = s.port[p].queue
      /\ o.port[q].closed = s.port[q].closed /\ o.port[q].queue = s.port[q].queue
  BY <1>0, <1>2, <1>5, <1>7 DEF MarkedOk, SameEnds, SameQueues
<1>9. mport_close_first(s, self, p) = IF o.port[q].closed THEN o ELSE mp_hold_locked(Marked(o, q), self, q)
  BY <1>1, <1>3, <1>6 DEF mport_close_first, Marked
<1>10. CASE o.port[q].closed
  <2>1. BothClosed(s, o) /\ OwesNone(o, q)
    BY <1>0, <1>7, <1>8, <1>10 DEF BothClosed, Settled
  <2> QED BY <1>7, <1>9, <1>10, <2>1
<1>11. CASE ~o.port[q].closed
  <2>1. PICK v : v = Marked(o, q)
    OBVIOUS
  <2>2. Base(v, c) /\ MarkedOk(o, v, q)
    BY <1>0, <1>7, <2>1, MarkClosed
  <2>3. v.port[q].closed /\ Settled(v, p) /\ OwesNone(v, q)
    BY <1>0, <1>7, <2>2 DEF MarkedOk, Settled
  <2>4. PICK r : r = mp_hold_locked(v, self, q)
    OBVIOUS
  <2>5. Base(r, c) /\ SamePorts(v, r)
    BY <1>0, <2>2, <2>3, <2>4, HoldLocked
  <2>6. Settled(r, p) /\ OwesNone(r, q) /\ SameEnds(v, r)
    BY <1>0, <2>3, <2>5, SettledFrame
  <2>7. BothClosed(s, r)
    BY <1>0, <1>8, <2>2, <2>6 DEF BothClosed, MarkedOk, SameEnds
  <2> QED BY <1>9, <1>11, <2>1, <2>4, <2>5, <2>6, <2>7
<1> QED BY <1>10, <1>11

\* From there on: the other end is announced too.
LEMMA CloseSecondKeeps ==
  ASSUME NEW s, NEW c, Base(s, c), NEW self \in Threads, NEW p \in Ports, Settled(s, p)
  PROVE  /\ Base(mport_close_second(s, self, p), c)
         /\ \A q \in Ports : Settled(mport_close_second(s, self, p), q)
<1>0. peer(p) \in Ports /\ Ports = {p, peer(p)} /\ peer(peer(p)) = p
  BY Ends
<1>1. PICK r : r = mp_notify_locked(s, self, peer(p))
  OBVIOUS
<1>2. Base(r, c) /\ Settled(r, peer(p)) /\ Settled(r, p)
  BY <1>0, <1>1, NotifyLocked
<1> QED BY <1>0, <1>1, <1>2 DEF mport_close_second

-----------------------------------------------------------------------------
(* Steps of what surrounds the loops and the ports.                        *)

SameWork(c, d) ==
  d.need = c.need /\ d.run = c.run /\ d.heard = c.heard /\ d.role = c.role
ObjMove(s, c, d, p) ==
  /\ s.port[p].loop # None => d.obj[p].at = c.obj[p].at /\ d.obj[p].gen = c.obj[p].gen
  /\ d.obj[p].closed => c.obj[p].closed \/ Over(s, p)

\* An object changes hands only when its port is stopped, and is closed only
\* when the port is over; operations are used up.
LEMMA ObjMoves ==
  ASSUME NEW s, NEW c, NEW d, Base(s, c), CtxOk(d), SameWork(c, d), d.left <= c.left,
         \A p \in Ports : ObjMove(s, c, d, p)
  PROVE  Base(s, d)
<1> USE DEF Base, Rest, SameWork
<1>1. Counted(s, d)
  BY DEF Counted
<1>2. Ended(s, d)
  BY DEF Ended, ObjMove
<1>3. Told(s, d)
  BY DEF Told, Arriving
<1>4. Owned(s, d)
  BY DEF Owned, ObjMove
<1>5. Resting(s, d)
  <2>1. ASSUME NEW p \in Ports PROVE s.port[p].sent + d.left <= MaxOps
    <3>1. s.port[p].sent \in Nat /\ c.left \in Nat /\ d.left \in Nat
      BY <2>1, PortFacts DEF PortType, CtxOk
    <3>2. s.port[p].sent + c.left <= MaxOps
      BY <2>1 DEF Resting
    <3> QED BY <3>1, <3>2, Distinct
  <2> QED BY <2>1 DEF Resting
<1>6. Drained(s, d)
  BY DEF Drained, Gone
<1>7. Events(s, d)
  BY DEF Events, Exiting, Gone
<1> QED BY <1>1, <1>2, <1>3, <1>4, <1>5, <1>6, <1>7

RunMove(c, d, t) ==
  /\ d.need = c.need /\ d.obj = c.obj /\ d.role = c.role /\ d.left = c.left /\ d.heard = c.heard
  /\ \A u \in Threads : u # t => d.run[u] = c.run[u]
RunAllowed(s, c, d, t) ==
  /\ d.run[t].item.what = "closed" => Over(s, d.run[t].item.port)
  /\ d.run[t].pc \in {"off", "enter", "construct", "run"} => s.loops[t].batch = <<>>
  /\ t = Main /\ d.run[t].pc = "exit" => s.port[0].queue = <<>>
  /\ Exiting(d) => Exiting(c)
  /\ c.run[t].pc \in {"off", "enter"} <=> d.run[t].pc \in {"off", "enter"}
  /\ c.run[t].pc # "ended"

\* Thread t goes on, its callbacks still accounted for.
LEMMA RunMoves ==
  ASSUME NEW s, NEW c, NEW d, Base(s, c), CtxOk(d), NEW t \in Threads, RunMove(c, d, t),
         RunAllowed(s, c, d, t), Told(s, d)
  PROVE  Base(s, d)
<1> USE DEF Base, Rest, RunMove
<1>1. Counted(s, d)
  BY DEF Counted
<1>2. Ended(s, d)
  <2>1. ASSUME NEW u \in Threads, NEW it \in Bag(s, u) \cup {d.run[u].item}, it.what = "closed"
        PROVE  Over(s, it.port)
    BY <2>1 DEF Ended, RunAllowed
  <2> QED BY <2>1 DEF Ended
<1>4. Owned(s, d)
  BY DEF Owned
<1>5. Resting(s, d)
  BY DEF Resting, RunAllowed
<1>6. Drained(s, d)
  <2>1. Main \in Threads
    BY DEF Threads
  <2> QED BY <2>1 DEF Drained, Gone, RunAllowed
<1>7. Events(s, d)
  <2>1. Main \in Threads /\ Wkr \in Threads /\ Main # Wkr
    BY Distinct DEF Threads
  <2>2. c.run[Wkr].pc \in {"off", "enter"} <=> d.run[Wkr].pc \in {"off", "enter"}
    BY <2>1 DEF RunAllowed
  <2>3. Sends(s, "exit") \/ Exiting(d) \/ Gone(d) => d.run[Wkr].pc = "ended"
    BY <2>1 DEF RunAllowed, Events, Gone
  <2> QED BY <2>2, <2>3 DEF Events, RunAllowed, Gone
<1> QED BY <1>1, <1>2, <1>4, <1>5, <1>6, <1>7

Goes(x, y) ==
  \/ y.pc = "ended"
  \/ x.pc # "ended" /\ (x.pc \in {"drain", "emit"} => y.pc \in {"drain", "emit"} /\ y.item = x.item)

\* A callback that runs goes on running, or its thread ends.
LEMMA ToldMoves ==
  ASSUME NEW s, NEW c, NEW d, Typed(s), Told(s, c), NEW t \in Threads, RunMove(c, d, t),
         Goes(c.run[t], d.run[t])
  PROVE  Told(s, d)
<1> SUFFICES ASSUME NEW p \in Ports, s.port[p].loop # None, s.port[p].notified,
                    s.port[p].inv.drains, d.run[s.port[p].loop].pc # "ended"
             PROVE  Arriving(s, d, p)
  BY DEF Told
<1>1. s.port[p].loop \in Threads
  BY DEF Typed, PortType
<1>2. CASE s.port[p].loop # t
  BY <1>1, <1>2 DEF Told, Arriving, RunMove
<1>3. CASE s.port[p].loop = t
  BY <1>1, <1>3 DEF Told, Arriving, RunMove, Goes
<1> QED BY <1>2, <1>3

-----------------------------------------------------------------------------
(* Steps of the system that are a native's.                                *)

\* What Ctx is made of, before and after a step.
LEMMA CtxParts ==
  /\ Ctx.run = run /\ Ctx.heard = wrk.heard /\ Ctx.obj = obj /\ Ctx.role = role /\ Ctx.left = ops
  /\ Ctx'.run = run' /\ Ctx'.heard = wrk'.heard /\ Ctx'.obj = obj' /\ Ctx'.role = role' /\ Ctx'.left = ops'
  /\ jobs' = jobs /\ wrk'.held = wrk.held => Ctx'.need = Ctx.need
BY DEF Ctx, JobsOf, WorkerHolds

\* What the invariant says of the types.
LEMMA InvParts ==
  ASSUME PortInv
  PROVE  /\ run \in [Threads -> RunType] /\ obj \in [Ports -> ObjType] /\ ops \in Nat
         /\ wrk \in WrkType /\ jobs \in JobsType /\ Ctx.need \in [Threads -> Nat]
         /\ Typed(State) /\ CtxOk(Ctx) /\ State.loops = loops /\ State.port = port
         /\ Main \in Threads /\ Wkr \in Threads /\ Main # Wkr
<1>1. CtxOk(Ctx) /\ Typed(State)
  BY DEF PortInv, Base, Rest
<1>2. State.loops = loops /\ State.port = port
  BY DEF State
<1>3. Main \in Threads /\ Wkr \in Threads /\ Main # Wkr
  BY Distinct DEF Threads
<1> QED BY <1>1, <1>2, <1>3, CtxParts DEF CtxOk, PortInv, Around

\* Everything that was owed has been announced, unless a close is half done.
LEMMA InvSettled ==
  ASSUME PortInv
  PROVE  /\ closing = None => \A p \in Ports : Settled(State, p)
         /\ \A p \in Ports : closing # None /\ p = closing.port => Settled(State, p)
<1>1. \A p \in Ports : peer(p) # p
  BY Ends
<1> QED BY <1>1 DEF PortInv, Owing, Settled

SameObjects ==
  \A p \in Ports : obj'[p].at = obj[p].at /\ obj'[p].gen = obj[p].gen /\ obj'[p].closed = obj[p].closed

QuietStep ==
  /\ UNCHANGED <<run, jobs, role>> /\ obj' \in [Ports -> ObjType] /\ SameObjects
  /\ wrk' \in WrkType /\ wrk'.held = wrk.held /\ wrk'.state = wrk.state /\ wrk'.heard = wrk.heard

\* A step that leaves the threads and the pool alone, of the Worker what it
\* holds and what was heard of it, and of the objects who stands for a port.
LEMMA QuietContext ==
  ASSUME PortInv, QuietStep, ops' \in Nat, ops' <= ops
  PROVE  Base(State, Ctx') /\ CtxOk(Ctx')
<1>1. PICK c : c = Ctx
  OBVIOUS
<1>2. PICK d : d = Ctx'
  OBVIOUS
<1>3. /\ SameWork(c, d) /\ d.obj = obj' /\ c.obj = obj /\ d.left = ops' /\ c.left = ops
      /\ c.run = run /\ c.need = Ctx.need
  BY <1>1, <1>2, CtxParts DEF SameWork, QuietStep
<1>4. CtxOk(d)
  BY <1>1, <1>3, InvParts DEF CtxOk, QuietStep, SameWork
<1>5. \A p \in Ports : ObjMove(State, c, d, p)
  BY <1>3 DEF ObjMove, QuietStep, SameObjects
<1>6. Base(State, d)
  BY <1>1, <1>3, <1>4, <1>5, ObjMoves DEF PortInv
<1> QED BY <1>2, <1>4, <1>6

\* It keeps what is around the ports.
LEMMA QuietAround ==
  ASSUME PortInv, QuietStep, ops' \in Nat, ops' <= ops,
         closing' \in {None} \cup [by : Threads, port : Ports]
  PROVE  Around'
<1>1. Exiting(Ctx') <=> Exiting(Ctx)
  BY CtxParts DEF Exiting, QuietStep
<1>2. ops' \in 0 .. MaxOps /\ \A p \in Ports : obj'[p].gen + ops' <= MaxOps + 1
  <2>1. ops \in 0 .. MaxOps /\ \A p \in Ports : obj[p].gen + ops <= MaxOps + 1
    BY DEF PortInv, Around
  <2>2. \A p \in Ports : obj'[p].gen = obj[p].gen /\ obj[p].gen \in Int
    BY InvParts, Distinct DEF QuietStep, SameObjects, ObjType
  <2> QED BY <2>1, <2>2, Distinct
<1>3. role' = "worker" => obj'[0].at = Main
  BY DEF PortInv, Around, QuietStep, SameObjects, Ports
<1>4. Exiting(Ctx') => role' = "worker" /\ run'[Main].item.port = 0 /\ run'[Main].item.gen = obj'[0].gen
  BY <1>1 DEF PortInv, Around, QuietStep, SameObjects, Ports
<1> QED BY <1>1, <1>2, <1>3, <1>4 DEF PortInv, Around, QuietStep

\* A native that leaves nothing unannounced.
LEMMA NativeStep ==
  ASSUME NEW r, Becomes(r), Base(r, Ctx'), \A p \in Ports : Settled(r, p), Around'
  PROVE  PortInv'
<1>1. Parts(r) BY TypedParts DEF Base, Rest
<1>2. State' = r
  BY <1>1 DEF State, Becomes, Parts, With
<1>3. Owing'
  BY <1>2 DEF Owing, Settled
<1> QED BY <1>2, <1>3 DEF PortInv

\* postMessage keeps the invariant.
LEMMA StepPostMessage ==
  ASSUME PortInv, NEW t \in Threads, NEW p \in Ports, postMessage(t, p)
  PROVE  PortInv'
<1>1. /\ QuietStep /\ ops > 0 /\ ops' = ops - 1 /\ closing = None /\ closing' = None
      /\ run[t].pc \in {"run", "emit", "call"}
  BY InvParts DEF postMessage, Owns, Turn, Free, QuietStep, SameObjects
<1>2. ops' \in Nat /\ ops' <= ops
  BY <1>1, InvParts
<1>3. Base(State, Ctx') /\ Around'
  BY <1>1, <1>2, QuietContext, QuietAround
<1>4. State.port[peer(p)].sent + Ctx'.left < MaxOps
  <2>1. State.port[peer(p)].sent + ops <= MaxOps /\ State.port[peer(p)].sent \in Nat
    BY PortFacts, Ends, CtxParts DEF PortInv, PortType
  <2> QED BY <1>1, <2>1, CtxParts, InvParts, Distinct
<1>5. Ctx'.run[Main].pc # "exit"
  <2>1. run[Main].pc = "exit" => run[Wkr].pc = "ended"
    BY CtxParts DEF PortInv, Around, Base, Events
  <2> QED BY <1>1, <2>1, CtxParts DEF QuietStep, Threads
<1>6. PICK r : r = mport_post(State, t, p)
  OBVIOUS
<1>7. Base(r, Ctx') /\ \A q \in Ports : Settled(r, q)
  BY <1>1, <1>3, <1>4, <1>5, <1>6, InvSettled, PostMessageKeeps
<1> QED BY <1>3, <1>6, <1>7, NativeStep DEF postMessage

\* The two ways a port is started are starts.
LEMMA StartInvs ==
  ASSUME PortInv, NEW p \in Ports
  PROVE  /\ Draining(p) \in Starts /\ Draining(p).gen = obj[p].gen
         /\ CloseOnly(p) \in Starts /\ CloseOnly(p).gen = obj[p].gen
<1>1. obj[p].gen \in 1 .. MaxOps + 1
  BY InvParts DEF ObjType
<1> QED BY <1>1 DEF Draining, CloseOnly, Starts

\* MessagePort.start.
LEMMA StartsKeep ==
  ASSUME PortInv, NEW c, Base(State, c), NEW t \in Threads, NEW p \in Ports,
         t = c.obj[p].at, c.obj[p].gen = obj[p].gen, \A q \in Ports : Settled(State, q)
  PROVE  /\ Base(Start(State, t, p), c) /\ \A q \in Ports : Settled(Start(State, t, p), q)
<1>1. PICK u : u = mport_start(State, t, p, Draining(p))
  OBVIOUS
<1>2. Base(u, c) /\ \A q \in Ports : Settled(u, q)
  BY <1>1, StartKeeps, StartInvs, Ends
<1>3. PICK v : v = mport_ref(u, t, p, FALSE)
  OBVIOUS
<1>4. Base(v, c) /\ \A q \in Ports : Settled(v, q)
  BY <1>2, <1>3, RefKeeps
<1>5. Start(State, t, p) = IF obj[p].refd THEN u ELSE v
  BY <1>1, <1>3 DEF Start
<1> QED BY <1>2, <1>4, <1>5

\* A program's step on a port it owns: operations are used up, and the native
\* finds everything announced.
LEMMA OwnsFacts ==
  ASSUME PortInv, NEW t \in Threads, NEW p \in Ports, Owns(t, p), QuietStep, closing' = closing
  PROVE  /\ Base(State, Ctx') /\ Around' /\ t = Ctx'.obj[p].at /\ Ctx'.obj[p].gen = obj[p].gen
         /\ \A q \in Ports : Settled(State, q)
<1>1. ops' \in Nat /\ ops' <= ops /\ closing = None
  BY InvParts DEF Owns, Turn, Free
<1>2. Base(State, Ctx') /\ Around'
  BY <1>1, QuietContext, QuietAround
<1>3. t = Ctx'.obj[p].at /\ Ctx'.obj[p].gen = obj[p].gen
  BY CtxParts DEF QuietStep, SameObjects, Owns
<1> QED BY <1>1, <1>2, <1>3, InvSettled

\* on('message') keeps the invariant.
LEMMA StepListen ==
  ASSUME PortInv, NEW t \in Threads, NEW p \in Ports, Listen(t, p)
  PROVE  PortInv'
<1>1. QuietStep /\ Owns(t, p) /\ closing' = closing
  <2>1. obj' = [obj EXCEPT ![p].listening = TRUE, ![p].started = TRUE]
    BY DEF Listen
  <2>2. obj' \in [Ports -> ObjType] /\ SameObjects
    BY <2>1, InvParts DEF ObjType, SameObjects
  <2> QED BY InvParts, <2>2 DEF Listen, QuietStep
<1>2. /\ Base(State, Ctx') /\ Around' /\ t = Ctx'.obj[p].at /\ Ctx'.obj[p].gen = obj[p].gen
      /\ \A q \in Ports : Settled(State, q)
  BY <1>1, OwnsFacts
<1>3. PICK r : r = IF obj[p].started THEN State ELSE Start(State, t, p)
  OBVIOUS
<1>4. Base(r, Ctx') /\ \A q \in Ports : Settled(r, q)
  <2>1. PICK c : c = Ctx'
    OBVIOUS
  <2> QED BY <1>2, <1>3, <2>1, StartsKeep
<1> QED BY <1>2, <1>3, <1>4, NativeStep DEF Listen

\* off('message') keeps the invariant.
LEMMA StepUnlisten ==
  ASSUME PortInv, NEW t \in Threads, NEW p \in Ports, Unlisten(t, p)
  PROVE  PortInv'
<1>1. QuietStep /\ Owns(t, p) /\ closing' = closing
  <2>1. obj' = [obj EXCEPT ![p].listening = FALSE, ![p].started = FALSE]
    BY DEF Unlisten
  <2>2. obj' \in [Ports -> ObjType] /\ SameObjects
    BY <2>1, InvParts DEF ObjType, SameObjects
  <2> QED BY InvParts, <2>2 DEF Unlisten, QuietStep
<1>2. Base(State, Ctx') /\ Around' /\ \A q \in Ports : Settled(State, q)
  BY <1>1, OwnsFacts
<1>3. PICK r : r = IF obj[p].started THEN mport_stop(State, t, p) ELSE State
  OBVIOUS
<1>4. Base(r, Ctx') /\ \A q \in Ports : Settled(r, q)
  <2>1. PICK c : c = Ctx'
    OBVIOUS
  <2> QED BY <1>2, <1>3, <2>1, StopKeeps, Ends
<1> QED BY <1>2, <1>3, <1>4, NativeStep DEF Unlisten

\* ref() and unref() keep the invariant.
LEMMA StepSetRef ==
  ASSUME PortInv, NEW t \in Threads, NEW p \in Ports, NEW on \in BOOLEAN, SetRef(t, p, on)
  PROVE  PortInv'
<1>1. QuietStep /\ Owns(t, p) /\ closing' = closing
  <2>1. obj' = [obj EXCEPT ![p].refd = on]
    BY DEF SetRef
  <2>2. obj' \in [Ports -> ObjType] /\ SameObjects
    BY <2>1, InvParts DEF ObjType, SameObjects
  <2> QED BY InvParts, <2>2 DEF SetRef, QuietStep
<1>2. /\ Base(State, Ctx') /\ Around' /\ t = Ctx'.obj[p].at
      /\ \A q \in Ports : Settled(State, q)
  BY <1>1, OwnsFacts
<1>3. PICK r : r = mport_ref(State, t, p, on)
  OBVIOUS
<1>4. Base(r, Ctx') /\ \A q \in Ports : Settled(r, q)
  <2>1. PICK c : c = Ctx'
    OBVIOUS
  <2> QED BY <1>2, <1>3, <2>1, RefKeeps
<1> QED BY <1>2, <1>3, <1>4, NativeStep DEF SetRef

\* receiveMessageOnPort keeps the invariant.
LEMMA StepReceive ==
  ASSUME PortInv, NEW t \in Threads, NEW p \in Ports, Receive(t, p)
  PROVE  PortInv'
<1>1. QuietStep /\ Owns(t, p) /\ closing' = closing
  BY InvParts DEF Receive, QuietStep, SameObjects
<1>2. Base(State, Ctx') /\ Around' /\ \A q \in Ports : Settled(State, q)
  BY <1>1, OwnsFacts
<1>3. PICK r : r = IF port[p].queue = <<>> THEN mport_has_none(State, t, p) ELSE mport_take(State, p)
  OBVIOUS
<1>4. Base(r, Ctx') /\ \A q \in Ports : Settled(r, q)
  <2>1. PICK c : c = Ctx'
    OBVIOUS
  <2>2. State.port[p] = port[p]
    BY InvParts
  <2> QED BY <1>2, <1>3, <2>1, <2>2, HasNoneKeeps, TakeKeeps, Ends
<1> QED BY <1>2, <1>3, <1>4, NativeStep DEF Receive

\* A step that changes objects, not threads: the context it leads to.
LEMMA ObjContext ==
  ASSUME PortInv, UNCHANGED <<run, jobs, wrk, role>>, obj' \in [Ports -> ObjType],
         ops' \in Nat, ops' <= ops, NEW r, Base(r, Ctx), \A p \in Ports : ObjMove(r, Ctx, Ctx', p)
  PROVE  Base(r, Ctx')
<1>1. PICK c : c = Ctx
  OBVIOUS
<1>2. PICK d : d = Ctx'
  OBVIOUS
<1>3. /\ SameWork(c, d) /\ d.obj = obj' /\ d.left = ops' /\ c.left = ops
      /\ c.run = run /\ c.need = Ctx.need
  BY <1>1, <1>2, CtxParts DEF SameWork
<1>4. CtxOk(d)
  BY <1>1, <1>3, InvParts DEF CtxOk, SameWork
<1>5. Base(r, d)
  BY <1>1, <1>2, <1>3, <1>4, ObjMoves
<1> QED BY <1>2, <1>5

\* A port leaves its object: Detach keeps the invariant.
LEMMA StepDetach ==
  ASSUME PortInv, NEW t \in Threads, NEW p \in Ports, Detach(t, p)
  PROVE  PortInv'
<1>0. /\ UNCHANGED <<run, jobs, wrk, role, closing>> /\ closing = None /\ Owns(t, p) /\ Public(p)
      /\ ops' \in Nat /\ ops' <= ops /\ Becomes(mport_stop(State, t, p))
      /\ obj' = [obj EXCEPT ![p].at = Transit, ![p].started = FALSE, ![p].listening = FALSE]
  BY InvParts DEF Detach, Owns, Free, Turn
<1>1. obj' \in [Ports -> ObjType]
  <2>1. obj[p] \in ObjType
    BY InvParts
  <2>2. PICK x : x = [obj[p] EXCEPT !.at = Transit, !.started = FALSE, !.listening = FALSE]
    OBVIOUS
  <2>3. x \in ObjType
    BY <2>1, <2>2 DEF ObjType
  <2>4. obj' = [obj EXCEPT ![p] = x]
    BY <1>0, <2>2, InvParts
  <2> QED BY <2>3, <2>4, InvParts
<1>2. /\ \A q \in Ports : obj'[q].gen = obj[q].gen /\ obj'[q].closed = obj[q].closed
      /\ \A q \in Ports : q # p => obj'[q] = obj[q]
  BY <1>0, InvParts DEF ObjType
<1>3. PICK r : r = mport_stop(State, t, p)
  OBVIOUS
<1>4. Base(r, Ctx) /\ r.port[p].loop = None /\ \A q \in Ports : Settled(r, q)
  BY <1>0, <1>3, StopKeeps, InvSettled, Ends DEF PortInv
<1>5. \A q \in Ports : ObjMove(r, Ctx, Ctx', q)
  BY <1>2, <1>4, CtxParts DEF ObjMove
<1>6. Base(r, Ctx')
  BY <1>0, <1>1, <1>4, <1>5, ObjContext
<1>7. Around'
  <2>1. Exiting(Ctx') <=> Exiting(Ctx)
    BY <1>0, CtxParts DEF Exiting
  <2>2. ops' \in 0 .. MaxOps /\ \A q \in Ports : obj'[q].gen + ops' <= MaxOps + 1
    <3>1. ops \in 0 .. MaxOps /\ \A q \in Ports : obj[q].gen + ops <= MaxOps + 1
      BY DEF PortInv, Around
    <3>2. \A q \in Ports : obj'[q].gen = obj[q].gen /\ obj[q].gen \in Int
      BY <1>2, InvParts, Distinct DEF ObjType
    <3>3. ops' \in Nat /\ ops' <= ops
      BY <1>0
    <3> QED BY <3>1, <3>2, <3>3, Distinct
  <2>3. role = "worker" => obj'[0].at = obj[0].at
    BY <1>0, <1>2 DEF Public, Ports
  <2>4. obj'[0].gen = obj[0].gen
    BY <1>2 DEF Ports
  <2> QED BY <1>0, <2>1, <2>2, <2>3, <2>4 DEF PortInv, Around
<1> QED BY <1>0, <1>3, <1>4, <1>6, <1>7, NativeStep

\* ... and another object takes it: Revive keeps the invariant.
LEMMA StepRevive ==
  ASSUME PortInv, NEW t \in Threads, NEW p \in Ports, Revive(t, p)
  PROVE  PortInv'
<1>0. /\ UNCHANGED <<run, jobs, wrk, role, closing, loops, port>> /\ obj[p].at = Transit
      /\ ops > 0 /\ ops' = ops - 1 /\ ops' \in Nat /\ ops' <= ops
      /\ obj' = [obj EXCEPT ![p] = NewObj(t, obj[p].gen + 1)]
  BY InvParts DEF Revive, Turn
<1>1. /\ \A q \in Ports : q # p => obj'[q] = obj[q]
      /\ obj'[p] = NewObj(t, obj[p].gen + 1)
  BY <1>0, InvParts
<1>2. ops \in 0 .. MaxOps /\ \A q \in Ports : obj[q].gen + ops <= MaxOps + 1 /\ obj[q].gen \in 1 .. MaxOps + 1
  BY InvParts DEF PortInv, Around, ObjType
<1>3. \A q \in Ports : obj'[q].gen \in 1 .. MaxOps + 1 /\ obj'[q].gen + ops' <= MaxOps + 1
  <2>1. obj'[p].gen = obj[p].gen + 1
    BY <1>1 DEF NewObj
  <2>2. obj[p].gen \in Int /\ ops \in Int /\ obj[p].gen + ops <= MaxOps + 1 /\ obj[p].gen \in 1 .. MaxOps + 1
    BY <1>2, Distinct
  <2>3. obj'[p].gen \in 1 .. MaxOps + 1 /\ obj'[p].gen + ops' <= MaxOps + 1
    BY <1>0, <2>1, <2>2, Distinct
  <2>4. ASSUME NEW q \in Ports, q # p PROVE obj'[q].gen \in 1 .. MaxOps + 1 /\ obj'[q].gen + ops' <= MaxOps + 1
    BY <1>0, <1>1, <1>2, <2>4, Distinct
  <2> QED BY <2>3, <2>4
<1>4. obj' \in [Ports -> ObjType]
  <2>1. NewObj(t, obj[p].gen + 1) \in ObjType
    <3>1. obj[p].gen + 1 \in 1 .. MaxOps + 1
      BY <1>1, <1>3 DEF NewObj
    <3> QED BY <3>1 DEF NewObj, ObjType
  <2> QED BY <1>0, <2>1, InvParts
<1>5. State.port[p].loop = None
  <2>1. State.port[p].loop # None => State.port[p].loop \in Threads /\ State.port[p].loop = Ctx.obj[p].at
    BY PortFacts DEF PortInv
  <2> QED BY <1>0, <2>1, CtxParts, Distinct
<1>6. \A q \in Ports : ObjMove(State, Ctx, Ctx', q)
  BY <1>1, <1>5, CtxParts DEF ObjMove, NewObj
<1>7. Base(State, Ctx')
  BY <1>0, <1>4, <1>6, ObjContext DEF PortInv
<1>8. Around'
  <2>1. Exiting(Ctx') <=> Exiting(Ctx)
    BY <1>0, CtxParts DEF Exiting
  <2>2. role = "worker" => p # 0
    BY <1>0, InvParts, Distinct DEF PortInv, Around
  <2>3. role = "worker" => obj'[0] = obj[0]
    BY <1>1, <2>2 DEF Ports
  <2>4. ops' \in 0 .. MaxOps
    BY <1>0, <1>2, Distinct
  <2> QED BY <1>0, <1>3, <2>1, <2>3, <2>4 DEF PortInv, Around
<1>9. State' = State /\ Owing'
  BY <1>0 DEF State, PortInv, Owing
<1> QED BY <1>7, <1>8, <1>9 DEF PortInv

\* What close() does up to the release of the peer's hold, in a context that
\* may already be that of the next step.
CloseResult(t, p) ==
  IF port[p].closed
  THEN IF obj[p].started THEN State ELSE mport_start(State, t, p, CloseOnly(p))
  ELSE mport_close_first(IF obj[p].started THEN State ELSE mport_start(State, t, p, CloseOnly(p)), t, p)
CloseOk(r, p, c) ==
  /\ Base(r, c) /\ Settled(r, p) /\ OwesNone(r, peer(p))
  /\ port[p].closed => Settled(r, peer(p))
  /\ r.port[p].closed /\ r.port[p].queue = port[p].queue

\* A close up to the release of the peer's hold announces this end.
LEMMA CloseKeeps ==
  ASSUME PortInv, NEW t \in Threads, NEW p \in Ports, NEW c, Base(State, c), closing = None,
         c.obj[p].at = t, c.obj[p].gen = obj[p].gen
  PROVE  CloseOk(CloseResult(t, p), p, c)
<1>0. peer(p) \in Ports /\ State.port = port
  BY Ends, InvParts
<1>1. PICK s : s = IF obj[p].started THEN State ELSE mport_start(State, t, p, CloseOnly(p))
  OBVIOUS
<1>2. Base(s, c) /\ (\A q \in Ports : Settled(s, q)) /\ SameEnds(State, s)
  <2>1. \A q \in Ports : Settled(State, q)
    BY InvSettled
  <2>2. CASE obj[p].started
    BY <1>1, <2>1, <2>2 DEF SameEnds
  <2>3. CASE ~obj[p].started
    BY <1>0, <1>1, <2>1, <2>3, StartKeeps, StartInvs
  <2> QED BY <2>2, <2>3
<1>3. s.port[p].queue = port[p].queue /\ s.port[p].closed = port[p].closed
  BY <1>0, <1>2 DEF SameEnds
<1>4. CASE port[p].closed
  <2>1. CloseResult(t, p) = s
    BY <1>1, <1>4 DEF CloseResult
  <2>2. OwesNone(s, peer(p))
    BY <1>0, <1>2 DEF Settled
  <2> QED BY <1>0, <1>2, <1>3, <1>4, <2>1, <2>2 DEF CloseOk
<1>5. CASE ~port[p].closed
  <2>1. PICK r : r = mport_close_first(s, t, p)
    OBVIOUS
  <2>2. CloseResult(t, p) = r
    BY <1>1, <1>5, <2>1 DEF CloseResult
  <2>3. Base(r, c) /\ Settled(r, p) /\ OwesNone(r, peer(p)) /\ BothClosed(s, r)
    BY <1>2, <2>1, CloseFirstKeeps
  <2> QED BY <1>3, <1>5, <2>2, <2>3 DEF CloseOk, BothClosed
<1> QED BY <1>4, <1>5

\* Half a close leaves only the other end unannounced.
LEMMA CloseStep ==
  ASSUME PortInv, NEW t \in Threads, NEW p \in Ports, CloseBegins(t, p),
         CloseOk(CloseResult(t, p), p, Ctx'), Around'
  PROVE  PortInv'
<1>0. peer(p) \in Ports /\ peer(p) # p /\ Ports = {p, peer(p)}
  BY Ends
<1>1. PICK r : r = CloseResult(t, p)
  OBVIOUS
<1>2. Becomes(r) /\ closing' = IF port[p].closed THEN None ELSE [by |-> t, port |-> p]
  BY <1>1 DEF CloseBegins, CloseResult
<1>3. Parts(r) BY <1>1, TypedParts DEF CloseOk, Base, Rest
<1>4. State' = r
  BY <1>2, <1>3 DEF State, Becomes, Parts, With
<1>5. Owing'
  <2>1. \A q \in Ports : OwesNone(r, q)
    BY <1>0, <1>1 DEF CloseOk, Settled
  <2>2. EndsNone(r, p) /\ (port[p].closed => EndsNone(r, peer(p)))
    BY <1>1 DEF CloseOk, Settled
  <2>3. ASSUME NEW q \in Ports, closing' = None \/ peer(closing'.port) # q PROVE EndsNone(r, q)
    <3>1. CASE port[p].closed
      BY <1>0, <2>2, <3>1
    <3>2. CASE ~port[p].closed
      <4>1. closing' \in [by : Threads, port : Ports] /\ closing'.port = p
        BY <1>2, <3>2
      <4>2. q = p
        BY <1>0, <2>3, <4>1, Distinct
      <4> QED BY <2>2, <4>2
    <3> QED BY <3>1, <3>2
  <2> QED BY <1>4, <2>1, <2>3 DEF Owing
<1> QED BY <1>1, <1>4, <1>5 DEF PortInv, CloseOk

\* MessagePort.close keeps the invariant.
LEMMA StepClose ==
  ASSUME PortInv, NEW t \in Threads, NEW p \in Ports, close(t, p)
  PROVE  PortInv'
<1>1. /\ CloseBegins(t, p) /\ closing = None /\ obj[p].at = t
      /\ ops' \in Nat /\ ops' <= ops /\ UNCHANGED <<run, wrk, jobs, role>>
      /\ obj' = [obj EXCEPT ![p].started = TRUE]
  BY InvParts DEF close, CloseBegins, Free, Turn
<1>2. QuietStep
  <2>1. obj' \in [Ports -> ObjType] /\ SameObjects
    BY <1>1, InvParts DEF ObjType, SameObjects
  <2> QED BY InvParts, <1>1, <2>1 DEF QuietStep
<1>3. closing' \in {None} \cup [by : Threads, port : Ports]
  BY <1>1 DEF CloseBegins
<1>4. Base(State, Ctx') /\ Around'
  BY <1>1, <1>2, <1>3, QuietContext, QuietAround
<1>5. Ctx'.obj[p].at = t /\ Ctx'.obj[p].gen = obj[p].gen
  BY <1>1, <1>2, CtxParts DEF QuietStep, SameObjects
<1>6. CloseOk(CloseResult(t, p), p, Ctx')
  <2>1. PICK d : d = Ctx'
    OBVIOUS
  <2> QED BY <1>1, <1>4, <1>5, <2>1, CloseKeeps
<1> QED BY <1>1, <1>4, <1>6, CloseStep

\* ... and so does its other half.
LEMMA StepCloseEnds ==
  ASSUME PortInv, NEW t \in Threads, CloseEnds(t)
  PROVE  PortInv'
<1>1. PICK p \in Ports : closing # None /\ closing.port = p
  BY DEF CloseEnds, PortInv, Around
<1>2. QuietStep /\ ops' = ops /\ closing' = None
  BY InvParts DEF CloseEnds, QuietStep, SameObjects
<1>3. Base(State, Ctx') /\ Around'
  BY <1>2, InvParts, QuietContext, QuietAround
<1>4. PICK r : r = mport_close_second(State, t, p)
  OBVIOUS
<1>5. Base(r, Ctx') /\ \A q \in Ports : Settled(r, q)
  <2>1. PICK d : d = Ctx'
    OBVIOUS
  <2> QED BY <1>1, <1>3, <1>4, <2>1, CloseSecondKeeps, InvSettled
<1> QED BY <1>1, <1>3, <1>4, <1>5, NativeStep DEF CloseEnds

-----------------------------------------------------------------------------
(* Steps of a thread's JavaScript that call a native.                      *)

SameWorker == jobs' = jobs /\ role' = role /\ wrk' \in WrkType /\ wrk'.held = wrk.held /\ wrk'.state = wrk.state
ThreadStep(t) ==
  /\ SameWorker /\ ops' \in Nat /\ ops' <= ops /\ obj' \in [Ports -> ObjType] /\ run' \in [Threads -> RunType]
  /\ \A u \in Threads : u # t => run'[u] = run[u]

BothMove(s, c, d, t) ==
  /\ d.need = c.need /\ d.heard = c.heard /\ d.role = c.role /\ d.left <= c.left
  /\ \A u \in Threads : u # t => d.run[u] = c.run[u]
  /\ \A p \in Ports : ObjMove(s, c, d, p)

\* Thread t goes on and changes objects.
LEMMA BothMoves ==
  ASSUME NEW s, NEW c, NEW d, Base(s, c), CtxOk(d), NEW t \in Threads, BothMove(s, c, d, t),
         RunAllowed(s, c, d, t), Told(s, d)
  PROVE  Base(s, d)
<1>1. PICK m : m = [need |-> c.need, run |-> c.run, heard |-> c.heard, obj |-> d.obj, role |-> c.role, left |-> d.left]
  OBVIOUS
<1>2. CtxOk(c)
  BY DEF Base, Rest
<1>3. CtxOk(m) /\ SameWork(c, m) /\ RunMove(m, d, t) /\ m.left <= c.left
  BY <1>1, <1>2 DEF CtxOk, SameWork, RunMove, BothMove
<1>4. \A p \in Ports : ObjMove(s, c, m, p)
  BY <1>1 DEF ObjMove, BothMove
<1>5. Base(s, m)
  BY <1>3, <1>4, ObjMoves
<1>6. RunAllowed(s, m, d, t)
  BY <1>1 DEF RunAllowed, Exiting
<1> QED BY <1>3, <1>5, <1>6, RunMoves

\* The context a thread's step leads to.
LEMMA ThreadContext ==
  ASSUME PortInv, NEW t \in Threads, ThreadStep(t), wrk'.heard = wrk.heard,
         NEW r, Base(r, Ctx), \A p \in Ports : ObjMove(r, Ctx, Ctx', p),
         RunAllowed(r, Ctx, Ctx', t), Told(r, Ctx')
  PROVE  Base(r, Ctx')
<1>1. PICK c : c = Ctx
  OBVIOUS
<1>2. PICK d : d = Ctx'
  OBVIOUS
<1>3. /\ d.obj = obj' /\ d.left = ops' /\ d.run = run' /\ d.need = c.need /\ d.heard = c.heard
      /\ d.role = c.role /\ c.left = ops /\ c.run = run /\ c.need = Ctx.need /\ CtxOk(c)
  BY <1>1, <1>2, CtxParts, InvParts DEF ThreadStep, SameWorker
<1>4. CtxOk(d) /\ BothMove(r, c, d, t)
  BY <1>1, <1>2, <1>3, InvParts DEF CtxOk, BothMove, ThreadStep
<1>5. Base(r, d)
  BY <1>1, <1>2, <1>4, BothMoves
<1> QED BY <1>2, <1>5

\* What a thread's step needs to keep what is around the ports.
AroundAllowed(t) ==
  /\ \A p \in Ports : obj'[p].at = obj[p].at /\ obj'[p].gen = obj[p].gen
  /\ closing' \in {None} \cup [by : Threads, port : Ports]
  /\ run[t].pc # "off" /\ run'[t].pc # "construct"
  /\ run'[Main].pc = "exit" => Exiting(Ctx')
  /\ Exiting(Ctx') => role = "worker" /\ run'[Main].item.port = 0 /\ run'[Main].item.gen = obj[0].gen

\* Then it does.
LEMMA ThreadAround ==
  ASSUME PortInv, NEW t \in Threads, ThreadStep(t), AroundAllowed(t)
  PROVE  Around'
<1>1. ops' \in 0 .. MaxOps /\ \A p \in Ports : obj'[p].gen + ops' <= MaxOps + 1
  <2>1. ops \in 0 .. MaxOps /\ \A p \in Ports : obj[p].gen + ops <= MaxOps + 1
    BY DEF PortInv, Around
  <2>2. \A p \in Ports : obj'[p].gen = obj[p].gen /\ obj[p].gen \in Int
    BY InvParts, Distinct DEF AroundAllowed, ObjType
  <2>3. ops' \in Nat /\ ops' <= ops
    BY DEF ThreadStep
  <2> QED BY <2>1, <2>2, <2>3, Distinct
<1>2. obj'[0].at = obj[0].at /\ obj'[0].gen = obj[0].gen
  BY DEF Ports, AroundAllowed
<1>3. wrk'.state = "unborn" => role' = "worker" /\ run'[Wkr].pc = "off" /\ ~wrk'.held
  BY InvParts DEF PortInv, Around, ThreadStep, AroundAllowed, SameWorker
<1>4. run'[Main].pc = "construct" => role' = "worker"
  BY InvParts DEF PortInv, Around, ThreadStep, AroundAllowed, SameWorker
<1> QED BY <1>1, <1>2, <1>3, <1>4 DEF PortInv, Around, ThreadStep, AroundAllowed, SameWorker

\* The rest of the Worker's constructor keeps the invariant.
LEMMA StepConstruct ==
  ASSUME PortInv, Construct
  PROVE  PortInv'
<1>0. /\ UNCHANGED <<closing, wrk, jobs, role, ops>> /\ closing = None /\ run[Main].pc = "construct"
      /\ obj' = [obj EXCEPT ![0].started = TRUE, ![0].listening = TRUE, ![0].refd = FALSE]
      /\ run' = [run EXCEPT ![Main].pc = "run"] /\ 0 \in Ports
  BY DEF Construct, Free, Goto, Ports
<1>1. obj[0].at = Main /\ Ctx.obj = obj
  BY <1>0, CtxParts DEF PortInv, Around
<1>2. /\ obj' \in [Ports -> ObjType]
      /\ \A p \in Ports : obj'[p].at = obj[p].at /\ obj'[p].gen = obj[p].gen /\ obj'[p].closed = obj[p].closed
  <2>1. obj[0] \in ObjType
    BY <1>0, InvParts
  <2>2. PICK x : x = [obj[0] EXCEPT !.started = TRUE, !.listening = TRUE, !.refd = FALSE]
    OBVIOUS
  <2>3. x \in ObjType /\ x.at = obj[0].at /\ x.gen = obj[0].gen /\ x.closed = obj[0].closed
    BY <2>1, <2>2 DEF ObjType
  <2>4. obj' = [obj EXCEPT ![0] = x]
    BY <1>0, <2>2, InvParts
  <2> QED BY <2>3, <2>4, InvParts
<1>3. /\ run' \in [Threads -> RunType] /\ run'[Main].pc = "run" /\ run'[Main].item = run[Main].item
      /\ \A u \in Threads : u # Main => run'[u] = run[u]
  BY <1>0, InvParts DEF RunType, Pcs
<1>4. ThreadStep(Main)
  BY <1>0, <1>2, <1>3, InvParts DEF ThreadStep, SameWorker
<1>5. PICK u : u = Start(State, Main, 0)
  OBVIOUS
<1>6. Base(u, Ctx) /\ \A q \in Ports : Settled(u, q)
  BY <1>0, <1>1, <1>5, StartsKeep, InvSettled, InvParts DEF PortInv
<1>7. PICK r : r = mport_ref(u, Main, 0, FALSE)
  OBVIOUS
<1>8. Base(r, Ctx) /\ \A q \in Ports : Settled(r, q)
  BY <1>0, <1>1, <1>6, <1>7, RefKeeps, InvParts
<1>9. Exiting(Ctx') = FALSE
  BY <1>3, CtxParts DEF Exiting
<1>10. RunAllowed(r, Ctx, Ctx', Main)
  <2>1. Ctx.run = run /\ Ctx'.run = run'
    BY CtxParts
  <2>2. r.loops[Main].batch = <<>>
    BY <1>0, <1>8, <2>1, InvParts DEF Base, Rest, Resting
  <2>3. run[Main].item.what = "closed" => Over(r, run[Main].item.port)
    BY <1>8, <2>1, InvParts DEF Base, Rest, Ended
  <2> QED BY <1>0, <1>3, <1>9, <2>1, <2>2, <2>3 DEF RunAllowed
<1>11. Told(r, Ctx')
  <2>1. RunMove(Ctx, [Ctx EXCEPT !.run = run'], Main) /\ [Ctx EXCEPT !.run = run'].run = run'
    BY <1>3 DEF RunMove, Ctx
  <2>2. Goes(run[Main], run'[Main])
    BY <1>0, <1>3 DEF Goes
  <2>3. Told(r, [Ctx EXCEPT !.run = run'])
    BY <1>8, <2>1, <2>2, ToldMoves, InvParts, CtxParts DEF Base, Rest
  <2> QED BY <2>1, <2>3, CtxParts DEF Told, Arriving
<1>12. \A p \in Ports : ObjMove(r, Ctx, Ctx', p)
  BY <1>2, CtxParts DEF ObjMove
<1>13. Base(r, Ctx')
  BY <1>0, <1>4, <1>8, <1>10, <1>11, <1>12, ThreadContext, InvParts
<1>14. Around'
  <2>1. AroundAllowed(Main)
    BY <1>0, <1>2, <1>3, <1>9 DEF AroundAllowed
  <2> QED BY <1>4, <2>1, ThreadAround, InvParts
<1>15. Becomes(r)
  BY <1>5, <1>7 DEF Construct
<1> QED BY <1>8, <1>13, <1>14, <1>15, NativeStep

\* Thread t does not begin to deliver an 'exit'.
NoNewExit(t) ==
  \/ run'[t].item.what # "exit"
  \/ run'[t].pc \notin {"drain", "emit", "exit"}
  \/ run[t].pc \in {"drain", "emit", "exit"} /\ run'[t].item = run[t].item
SameEndsOf == \A p \in Ports : obj'[p].at = obj[p].at /\ obj'[p].gen = obj[p].gen

\* Then what is around the ports stays.
LEMMA NoNewExitAround ==
  ASSUME PortInv, NEW t \in Threads, ThreadStep(t), NoNewExit(t), SameEndsOf,
         closing' \in {None} \cup [by : Threads, port : Ports],
         run[t].pc # "off", run'[t].pc \notin {"construct", "exit"}
  PROVE  Around' /\ (Exiting(Ctx') => Exiting(Ctx))
<1>1. Ctx.run = run /\ Ctx'.run = run' /\ Main \in Threads
  BY CtxParts, InvParts
<1>2. CASE t = Main
  <2>1. Exiting(Ctx') => Exiting(Ctx) /\ run'[Main].item = run[Main].item
    BY <1>1, <1>2 DEF Exiting, NoNewExit
  <2>2. AroundAllowed(t)
    BY <1>2, <2>1 DEF AroundAllowed, SameEndsOf, PortInv, Around
  <2> QED BY <2>1, <2>2, ThreadAround
<1>3. CASE t # Main
  <2>1. run'[Main] = run[Main]
    BY <1>1, <1>3 DEF ThreadStep
  <2>2. Exiting(Ctx') <=> Exiting(Ctx)
    BY <1>1, <2>1 DEF Exiting
  <2>3. AroundAllowed(t)
    BY <2>1, <2>2 DEF AroundAllowed, SameEndsOf, PortInv, Around
  <2> QED BY <2>2, <2>3, ThreadAround
<1> QED BY <1>2, <1>3

\* Callbacks that run go on: what has been notified still arrives.
LEMMA ThreadTold ==
  ASSUME PortInv, NEW t \in Threads, ThreadStep(t), Goes(run[t], run'[t]), NEW r, Base(r, Ctx)
  PROVE  Told(r, Ctx')
<1>1. PICK m : m = [Ctx EXCEPT !.run = run']
  OBVIOUS
<1>2. RunMove(Ctx, m, t) /\ m.run = run'
  BY <1>1 DEF RunMove, Ctx, ThreadStep
<1>3. Told(r, m)
  BY <1>2, ToldMoves, CtxParts DEF Base, Rest
<1> QED BY <1>2, <1>3, CtxParts DEF Told, Arriving

\* A thread that runs goes on with what it is delivering, or ends.
LEMMA ThreadGoes ==
  ASSUME PortInv, NEW t \in Threads, ThreadStep(t), Goes(run[t], run'[t]), NoNewExit(t),
         SameEndsOf, closing' \in {None} \cup [by : Threads, port : Ports], wrk'.heard = wrk.heard,
         run[t].pc \notin {"off", "enter", "ended"}, run'[t].pc \notin {"off", "enter", "construct", "exit"},
         NEW r, Base(r, Ctx), run'[t].pc = "run" => r.loops[t].batch = <<>>,
         \A p \in Ports : obj'[p].closed => obj[p].closed \/ Over(r, p),
         run'[t].item.what = "closed" => Over(r, run'[t].item.port)
  PROVE  Base(r, Ctx') /\ Around'
<1>1. Around' /\ (Exiting(Ctx') => Exiting(Ctx))
  BY NoNewExitAround
<1>2. Told(r, Ctx')
  BY ThreadTold
<1>3. RunAllowed(r, Ctx, Ctx', t)
  BY <1>1, CtxParts DEF RunAllowed
<1>4. \A p \in Ports : ObjMove(r, Ctx, Ctx', p)
  BY CtxParts DEF ObjMove, SameEndsOf
<1> QED BY <1>1, <1>2, <1>3, <1>4, ThreadContext

\* What a thread delivers is over if it is a 'closed'.
LEMMA ItemOver ==
  ASSUME NEW r, Base(r, Ctx), NEW t \in Threads, run[t].item.what = "closed"
  PROVE  Over(r, run[t].item.port)
BY CtxParts DEF Base, Rest, Ended

\* The state of a thread that goes elsewhere with the same item.
LEMMA GotoFacts ==
  ASSUME PortInv, NEW t \in Threads, NEW pc \in Pcs, Goto(t, pc)
  PROVE  /\ run' \in [Threads -> RunType] /\ run'[t].pc = pc /\ run'[t].item = run[t].item
         /\ \A u \in Threads : u # t => run'[u] = run[u]
BY InvParts DEF Goto, RunType

\* One turn of a drain keeps the invariant.
LEMMA StepDrainOne ==
  ASSUME PortInv, NEW t \in Threads, DrainOne(t)
  PROVE  PortInv'
<1>1. PICK p \in Ports : p = run[t].item.port
  BY InvParts DEF RunType, ItemType
<1>2. /\ closing = None /\ run[t].pc = "drain" /\ port[p].queue # <<>> /\ Becomes(mport_take(State, p))
      /\ UNCHANGED <<obj, closing, wrk, jobs, role, ops>>
      /\ Goto(t, "emit") \/ UNCHANGED run
  BY <1>1 DEF DrainOne, Free
<1>3. /\ run' \in [Threads -> RunType] /\ run'[t].pc \in {"drain", "emit"} /\ run'[t].item = run[t].item
      /\ \A u \in Threads : u # t => run'[u] = run[u]
  BY <1>2, GotoFacts, InvParts DEF Pcs
<1>4. ThreadStep(t) /\ SameEndsOf /\ NoNewExit(t) /\ Goes(run[t], run'[t])
  BY <1>2, <1>3, InvParts DEF ThreadStep, SameWorker, SameEndsOf, NoNewExit, Goes
<1>5. PICK r : r = mport_take(State, p)
  OBVIOUS
<1>6. Base(r, Ctx) /\ \A q \in Ports : Settled(r, q)
  BY <1>2, <1>5, TakeKeeps, InvSettled, InvParts DEF PortInv
<1>7. closing' \in {None} \cup [by : Threads, port : Ports]
  BY <1>2
<1>8. Base(r, Ctx') /\ Around'
  BY <1>2, <1>3, <1>4, <1>6, <1>7, ThreadGoes, ItemOver
<1> QED BY <1>2, <1>5, <1>6, <1>8, NativeStep

\* What is left alone by a step that calls no native.
LEMMA SameStep ==
  ASSUME PortInv, UNCHANGED <<loops, port, closing>>, Base(State, Ctx'), Around'
  PROVE  PortInv'
<1>1. State' = State /\ Owing'
  BY DEF State, PortInv, Owing
<1> QED BY <1>1 DEF PortInv

\* The handlers' return keeps the invariant.
LEMMA StepEmitReturns ==
  ASSUME PortInv, NEW t \in Threads, EmitReturns(t)
  PROVE  PortInv'
<1>2. /\ run[t].pc = "emit" /\ UNCHANGED <<loops, port, obj, closing, wrk, jobs, role, ops>>
      /\ Goto(t, "drain")
  BY DEF EmitReturns
<1>3. /\ run' \in [Threads -> RunType] /\ run'[t].pc = "drain" /\ run'[t].item = run[t].item
      /\ \A u \in Threads : u # t => run'[u] = run[u]
  BY <1>2, GotoFacts DEF Pcs
<1>4. ThreadStep(t) /\ SameEndsOf /\ NoNewExit(t) /\ Goes(run[t], run'[t])
  BY <1>2, <1>3, InvParts DEF ThreadStep, SameWorker, SameEndsOf, NoNewExit, Goes
<1>5. Base(State, Ctx)
  BY DEF PortInv
<1>6. closing' \in {None} \cup [by : Threads, port : Ports]
  BY <1>2 DEF PortInv, Around
<1>7. Base(State, Ctx') /\ Around'
  BY <1>2, <1>3, <1>4, <1>5, <1>6, ThreadGoes, ItemOver
<1> QED BY <1>2, <1>7, SameStep

\* So does the return of another callback.
LEMMA StepCallReturns ==
  ASSUME PortInv, NEW t \in Threads, CallReturns(t)
  PROVE  PortInv'
<1>1. /\ run[t].pc = "call" /\ UNCHANGED <<loops, port, obj, closing, wrk, jobs, role, ops>>
      /\ Goto(t, "dispatch")
  BY DEF CallReturns
<1>2. /\ run' \in [Threads -> RunType] /\ run'[t].pc = "dispatch" /\ run'[t].item = run[t].item
      /\ \A u \in Threads : u # t => run'[u] = run[u]
  BY <1>1, GotoFacts DEF Pcs
<1>3. ThreadStep(t) /\ SameEndsOf /\ NoNewExit(t) /\ Goes(run[t], run'[t])
  BY <1>1, <1>2, InvParts DEF ThreadStep, SameWorker, SameEndsOf, NoNewExit, Goes
<1>4. closing' \in {None} \cup [by : Threads, port : Ports] /\ Base(State, Ctx)
  BY <1>1 DEF PortInv, Around
<1>5. Base(State, Ctx') /\ Around'
  BY <1>1, <1>2, <1>3, <1>4, ThreadGoes, ItemOver
<1> QED BY <1>1, <1>5, SameStep

\* A drain that finds nothing more ends: the port is no longer notified, and
\* what it still owes is announced anew.
LEMMA StepDrainEnds ==
  ASSUME PortInv, NEW t \in Threads, DrainEnds(t)
  PROVE  PortInv'
<1>0. PICK it \in ItemType : it = run[t].item
  BY InvParts DEF RunType
<1>1. PICK p \in Ports : p = it.port
  BY <1>0 DEF ItemType
<1>2. /\ closing = None /\ closing' = None /\ run[t].pc = "drain" /\ UNCHANGED <<wrk, jobs, role, ops>>
      /\ IsEnd(t, it) => port[p].queue = <<>>
      /\ Becomes(IF IsEnd(t, it) THEN mport_has_none(State, t, p) ELSE State)
      /\ obj' = OnClose(t, it)
      /\ run' = [run EXCEPT ![t] =
                   CASE it.what = "exit" -> [run[t] EXCEPT !.pc = "exit"]
                     [] Closes(t, it) -> [Idle EXCEPT !.pc = "call"]
                     [] OTHER -> [Idle EXCEPT !.pc = "dispatch"]]
  BY <1>0, <1>1 DEF DrainEnds, Free
<1>3. IsEnd(t, it) <=> obj[p].at = t /\ obj[p].gen = it.gen
  BY <1>1 DEF IsEnd
<1>4. /\ obj' \in [Ports -> ObjType] /\ SameEndsOf
      /\ \A q \in Ports : obj'[q].closed => obj[q].closed \/ (q = p /\ it.what = "closed")
      /\ it.what = "exit" => obj' = obj
  <2>1. CASE Closes(t, it)
    <3>1. /\ obj' = [obj EXCEPT ![p].closed = TRUE, ![p].started = FALSE]
          /\ it.what = "closed"
      BY <1>1, <1>2, <2>1 DEF OnClose, Closes
    <3>2. obj[p] \in ObjType
      BY InvParts
    <3>3. PICK x : x = [obj[p] EXCEPT !.closed = TRUE, !.started = FALSE]
      OBVIOUS
    <3>4. x \in ObjType /\ x.at = obj[p].at /\ x.gen = obj[p].gen
      BY <3>2, <3>3 DEF ObjType
    <3>5. obj' = [obj EXCEPT ![p] = x]
      BY <3>1, <3>3, InvParts
    <3> QED BY <3>1, <3>4, <3>5, InvParts DEF SameEndsOf
  <2>2. CASE ~Closes(t, it)
    <3>1. obj' = obj
      BY <1>2, <2>2 DEF OnClose
    <3> QED BY <3>1, InvParts DEF SameEndsOf
  <2> QED BY <2>1, <2>2
<1>5. /\ run' \in [Threads -> RunType] /\ \A u \in Threads : u # t => run'[u] = run[u]
      /\ it.what = "exit" => run'[t].pc = "exit" /\ run'[t].item = it
      /\ it.what # "exit" => run'[t].pc \in {"call", "dispatch"} /\ run'[t].item.what = "none"
  <2>1. [run[t] EXCEPT !.pc = "exit"] \in RunType /\ [run[t] EXCEPT !.pc = "exit"].pc = "exit"
        /\ [run[t] EXCEPT !.pc = "exit"].item = it
    BY <1>0, InvParts DEF RunType, Pcs
  <2>2. Event("none") \in ItemType /\ Event("none").what = "none"
    BY Distinct DEF Event, ItemType, Whats, Ports
  <2>3. ASSUME NEW pc \in {"call", "dispatch"}
        PROVE  /\ [Idle EXCEPT !.pc = pc] \in RunType /\ [Idle EXCEPT !.pc = pc].pc = pc
               /\ [Idle EXCEPT !.pc = pc].item.what = "none"
    BY <2>2 DEF Idle, RunType, Pcs
  <2>4. CASE it.what = "exit"
    <3>1. ~Closes(t, it)
      BY <2>4 DEF Closes
    <3>2. run' = [run EXCEPT ![t] = [run[t] EXCEPT !.pc = "exit"]]
      BY <1>2, <2>4, <3>1
    <3> QED BY <2>1, <2>4, <3>2, InvParts
  <2>5. CASE it.what # "exit"
    <3>1. PICK pc \in {"call", "dispatch"} : run' = [run EXCEPT ![t] = [Idle EXCEPT !.pc = pc]]
      BY <1>2, <2>5
    <3> QED BY <2>3, <2>5, <3>1, InvParts
  <2> QED BY <2>4, <2>5
<1>6. ThreadStep(t) /\ wrk'.heard = wrk.heard
  BY <1>2, <1>4, <1>5, InvParts DEF ThreadStep, SameWorker
<1>7. PICK u : u = IF IsEnd(t, it) THEN Cleared(State, p) ELSE State
  OBVIOUS
<1>8. /\ Base(u, Ctx) /\ (IsEnd(t, it) => ClearedOk(State, u, p) /\ [State EXCEPT !.port[p].notified = FALSE] = u)
  BY <1>7, ClearKeeps DEF PortInv
<1>9. Told(u, Ctx')
  <2> SUFFICES ASSUME NEW q \in Ports, u.port[q].loop # None, u.port[q].notified,
                      u.port[q].inv.drains, run'[u.port[q].loop].pc # "ended"
               PROVE  Arriving(u, Ctx', q)
    BY CtxParts DEF Told
  <2>1. PICK l \in Threads : l = u.port[q].loop
    BY <1>8, PortFacts
  <2>2. l = obj[q].at /\ u.port[q].inv.gen = obj[q].gen
    BY <1>8, <2>1, PortFacts, CtxParts
  <2>3. run[l].pc # "ended"
    BY <1>2, <1>5, <2>1
  <2>4. Arriving(u, Ctx, q)
    BY <1>8, <2>1, <2>3, CtxParts DEF Base, Rest, Told
  <2>5. CASE l # t
    BY <1>5, <2>1, <2>4, <2>5, CtxParts DEF Arriving
  <2>6. CASE l = t
    <3>1. ~Carries(it, q, u.port[q].inv)
      <4>1. SUFFICES ASSUME Carries(it, q, u.port[q].inv) PROVE FALSE
        OBVIOUS
      <4>2. q = p /\ IsEnd(t, it)
        BY <1>1, <1>3, <2>2, <2>6, <4>1 DEF Carries
      <4> QED BY <1>8, <4>2 DEF ClearedOk
    <3> QED BY <1>0, <2>1, <2>4, <2>6, <3>1, CtxParts DEF Arriving
  <2> QED BY <2>5, <2>6
<1>10. it.what = "exit" /\ t = Main => role = "worker" /\ p = 0 /\ it.gen = obj[0].gen /\ IsEnd(t, it)
  <2>1. ASSUME it.what = "exit", t = Main
        PROVE  role = "worker" /\ p = 0 /\ it.gen = obj[0].gen /\ IsEnd(t, it)
    <3>1. Exiting(Ctx)
      BY <1>0, <1>2, <2>1, CtxParts DEF Exiting
    <3> QED BY <1>0, <1>1, <1>3, <2>1, <3>1 DEF PortInv, Around
  <2> QED BY <2>1
<1>11. Around' /\ (Exiting(Ctx') => Exiting(Ctx))
  <2>1. CASE it.what # "exit"
    <3>1. NoNewExit(t)
      BY <1>5, <2>1 DEF NoNewExit
    <3> QED BY <1>2, <1>4, <1>5, <1>6, <2>1, <3>1, NoNewExitAround
  <2>2. CASE it.what = "exit" /\ t = Main
    <3>1. Exiting(Ctx) /\ Exiting(Ctx')
      BY <1>0, <1>2, <1>5, <2>2, CtxParts DEF Exiting
    <3>2. AroundAllowed(t)
      BY <1>1, <1>2, <1>4, <1>5, <1>10, <2>2, <3>1 DEF AroundAllowed, SameEndsOf
    <3> QED BY <1>6, <3>1, <3>2, ThreadAround
  <2>3. CASE it.what = "exit" /\ t # Main
    <3>1. run'[Main] = run[Main]
      BY <1>5, <2>3, InvParts
    <3>2. Exiting(Ctx) <=> Exiting(Ctx')
      BY <3>1, CtxParts DEF Exiting
    <3>3. AroundAllowed(t)
      BY <1>2, <1>4, <1>5, <2>3, <3>1, <3>2 DEF AroundAllowed, SameEndsOf, PortInv, Around
    <3> QED BY <1>6, <3>2, <3>3, ThreadAround
  <2> QED BY <2>1, <2>2, <2>3
<1>12. it.what = "closed" => Over(u, p)
  BY <1>0, <1>1, <1>8, ItemOver
<1>13. RunAllowed(u, Ctx, Ctx', t)
  <2>1. t = Main /\ run'[t].pc = "exit" => u.port[0].queue = <<>>
    <3>1. ASSUME t = Main, run'[t].pc = "exit" PROVE u.port[0].queue = <<>>
      <4>1. it.what = "exit" /\ p = 0 /\ IsEnd(t, it)
        BY <1>5, <1>10, <3>1
      <4> QED BY <1>2, <1>8, <4>1, InvParts DEF ClearedOk, SameEnds
    <3> QED BY <3>1
  <2>2. run'[t].item.what = "closed" => FALSE
    BY <1>5
  <2>3. run'[t].pc \in {"call", "dispatch", "exit"}
    BY <1>5
  <2> QED BY <1>2, <1>11, <2>1, <2>2, <2>3, CtxParts DEF RunAllowed
<1>14. \A q \in Ports : ObjMove(u, Ctx, Ctx', q)
  BY <1>4, <1>12, CtxParts DEF ObjMove, SameEndsOf
<1>15. Base(u, Ctx')
  BY <1>6, <1>8, <1>9, <1>13, <1>14, ThreadContext
<1>16. PICK r : r = IF IsEnd(t, it) THEN mport_has_none(State, t, p) ELSE State
  OBVIOUS
<1>17. Base(r, Ctx') /\ \A q \in Ports : Settled(r, q)
  <2>1. \A q \in Ports : Settled(State, q)
    BY <1>2, InvSettled
  <2>2. CASE IsEnd(t, it)
    <3>1. PICK d : d = Ctx'
      OBVIOUS
    <3>2. State.port[p].queue = <<>> /\ Settled(State, peer(p))
      BY <1>2, <2>1, <2>2, Ends, InvParts
    <3>3. u = Cleared(State, p)
      BY <1>7, <2>2
    <3>4. /\ Base(mport_has_none(State, t, p), d)
          /\ \A q \in Ports : Settled(mport_has_none(State, t, p), q)
      BY <1>8, <1>15, <2>2, <3>1, <3>2, <3>3, ClearedKeeps
    <3> QED BY <1>16, <2>2, <3>1, <3>4
  <2>3. CASE ~IsEnd(t, it)
    BY <1>7, <1>15, <1>16, <2>1, <2>3
  <2> QED BY <2>2, <2>3
<1> QED BY <1>2, <1>11, <1>16, <1>17, NativeStep

\* What a Worker object has emitted grows from nothing to 'online' to both.
LEMMA HeardSequences ==
  /\ <<"online">> \in Seq({"online", "exit"}) /\ <<"online", "exit">> \in Seq({"online", "exit"})
  /\ Append(<<>>, "online") = <<"online">> /\ Append(<<"online">>, "exit") = <<"online", "exit">>
<1>1. PICK S : S = {"online", "exit"}
  OBVIOUS
<1>2. PICK a \in S, b \in S : a = "online" /\ b = "exit"
  BY <1>1
<1>3. <<a>> \in Seq(S) /\ <<a, b>> \in Seq(S)
  OBVIOUS
<1>4. PICK x : x = Append(<<a>>, b)
  OBVIOUS
<1>5. x \in Seq(S) /\ Len(x) = 2 /\ x[1] = a /\ x[2] = b
  <2>1. Len(<<a>>) = 1 /\ <<a>>[1] = a
    OBVIOUS
  <2>2. PICK q \in Seq(S) : q = <<a>>
    BY <1>3
  <2>3. /\ Append(q, b) \in Seq(S) /\ Len(Append(q, b)) = Len(q) + 1
        /\ (\A i \in 1 .. Len(q) : Append(q, b)[i] = q[i]) /\ Append(q, b)[Len(q) + 1] = b
    BY AppendProperties
  <2> QED BY <1>4, <2>1, <2>2, <2>3
<1>6. x = <<a, b>>
  <2>1. PICK y \in Seq(S) : y = <<a, b>>
    BY <1>3
  <2>2. Len(y) = 2 /\ y[1] = a /\ y[2] = b
    BY <2>1
  <2>3. Len(x) = Len(y) /\ \A i \in 1 .. Len(x) : x[i] = y[i]
    BY <1>5, <2>2
  <2> QED BY <1>5, <2>1, <2>3, SeqEqual
<1>7. Append(<<>>, "online") = <<"online">>
  OBVIOUS
<1> QED BY <1>1, <1>2, <1>3, <1>4, <1>6, <1>7

\* The Worker's 'exit' is emitted: its end is drained and closed by then.
LEMMA StepExitHeard ==
  ASSUME PortInv, ExitHeard
  PROVE  PortInv'
<1>0. /\ UNCHANGED <<jobs, role, ops>> /\ run[Main].pc = "exit" /\ closing = None /\ 0 \in Ports
      /\ wrk' = [wrk EXCEPT !.heard = Append(wrk.heard, "exit")]
      /\ run' = [run EXCEPT ![Main] = [Idle EXCEPT !.pc = "call"]]
  BY DEF ExitHeard, CloseBegins, Free, Heard, Ports
<1>1. Exiting(Ctx) /\ role = "worker" /\ obj[0].at = Main
  BY <1>0 DEF PortInv, Around
<1>2. wrk.heard = <<"online">> /\ run[Wkr].pc = "ended" /\ ~Sends(State, "exit") /\ ~Sends(State, "online")
  <2>1. wrk.heard = <<"online">> /\ run[Wkr].pc = "ended" /\ ~Sends(State, "exit")
    BY <1>1, CtxParts DEF PortInv, Base, Events
  <2>2. wrk.heard # <<>>
    BY <2>1
  <2> QED BY <2>1, <2>2, CtxParts DEF PortInv, Base, Events
<1>3. wrk' \in WrkType /\ wrk'.heard = <<"online", "exit">> /\ wrk'.held = wrk.held /\ wrk'.state = wrk.state
  <2>1. Append(wrk.heard, "exit") = <<"online", "exit">>
    BY <1>2, HeardSequences
  <2>2. <<"online", "exit">> \in Seq({"online", "exit"})
    BY HeardSequences
  <2> QED BY <1>0, <2>1, <2>2, InvParts DEF WrkType
<1>4. /\ run' \in [Threads -> RunType] /\ run'[Main].pc = "call" /\ run'[Main].item.what = "none"
      /\ \A u \in Threads : u # Main => run'[u] = run[u]
  <2>1. Event("none") \in ItemType /\ Event("none").what = "none"
    BY Distinct DEF Event, ItemType, Whats, Ports
  <2>2. [Idle EXCEPT !.pc = "call"] \in RunType /\ [Idle EXCEPT !.pc = "call"].pc = "call"
        /\ [Idle EXCEPT !.pc = "call"].item.what = "none"
    BY <2>1 DEF Idle, RunType, Pcs
  <2> QED BY <1>0, <2>2, InvParts
<1>5. /\ obj' \in [Ports -> ObjType] /\ SameObjects
      /\ closing' \in {None} \cup [by : Threads, port : Ports]
  <2>1. CASE obj[0].closed
    BY <1>0, <2>1, InvParts DEF ExitHeard, SameObjects
  <2>2. CASE ~obj[0].closed
    <3>1. obj' = [obj EXCEPT ![0].started = TRUE]
      BY <2>2 DEF ExitHeard, CloseBegins
    <3>2. closing' \in {None} \cup [by : Threads, port : Ports]
      BY <1>0, <2>2, InvParts DEF ExitHeard, CloseBegins
    <3>3. PICK x : x = [obj[0] EXCEPT !.started = TRUE]
      OBVIOUS
    <3>4. obj[0] \in ObjType
      BY <1>0, InvParts
    <3>5. x \in ObjType /\ x.at = obj[0].at /\ x.gen = obj[0].gen /\ x.closed = obj[0].closed
      BY <3>3, <3>4 DEF ObjType
    <3>6. obj' = [obj EXCEPT ![0] = x]
      BY <3>1, <3>3, InvParts
    <3> QED BY <1>0, <3>2, <3>5, <3>6, InvParts DEF SameObjects
  <2> QED BY <2>1, <2>2
<1>6. ThreadStep(Main)
  BY <1>0, <1>3, <1>4, <1>5, InvParts DEF ThreadStep, SameWorker
<1>7. Around'
  <2>1. ~Exiting(Ctx')
    BY <1>4, CtxParts DEF Exiting
  <2>2. AroundAllowed(Main)
    BY <1>0, <1>4, <1>5, <2>1 DEF AroundAllowed, SameObjects
  <2> QED BY <1>6, <2>2, ThreadAround, InvParts
<1>8. ASSUME NEW r, Base(r, Ctx), r.port[0].closed, r.port[0].queue = <<>>
      PROVE  Base(r, Ctx')
  <2>1. PICK c : c = Ctx
    OBVIOUS
  <2>2. PICK d : d = Ctx'
    OBVIOUS
  <2>3. /\ c.run = run /\ c.obj = obj /\ c.role = "worker" /\ c.left = ops /\ c.heard = <<"online">>
        /\ d.run = run' /\ d.obj = obj' /\ d.role = "worker" /\ d.left = ops
        /\ d.need = c.need /\ d.heard = <<"online", "exit">> /\ CtxOk(c)
    BY <1>0, <1>1, <1>2, <1>3, <2>1, <2>2, CtxParts, InvParts
  <2>4. PICK m : m = [need |-> c.need, run |-> run', heard |-> c.heard, obj |-> obj', role |-> c.role, left |-> ops]
    OBVIOUS
  <2>5. CtxOk(m) /\ CtxOk(d) /\ BothMove(r, c, m, Main)
    BY <1>4, <1>5, <2>3, <2>4 DEF CtxOk, BothMove, ObjMove, SameObjects
  <2>6. ~Exiting(m) /\ ~Exiting(d) /\ m.run = d.run /\ m.obj = d.obj /\ m.need = d.need /\ m.left = d.left /\ m.role = d.role
    BY <1>4, <2>3, <2>4 DEF Exiting
  <2>7. RunAllowed(r, c, m, Main)
    BY <1>0, <1>4, <2>3, <2>4, <2>6 DEF RunAllowed
  <2>8. Told(r, m)
    <3>1. Goes(run[Main], run'[Main])
      BY <1>0, <1>4 DEF Goes
    <3>2. Told(r, Ctx')
      BY <1>6, <1>8, <3>1, ThreadTold, InvParts
    <3> QED BY <2>2, <2>6, <3>2 DEF Told, Arriving
  <2>9. Base(r, m)
    BY <1>8, <2>1, <2>5, <2>7, <2>8, BothMoves, InvParts
  <2>10. Ended(r, d) /\ Told(r, d) /\ Owned(r, d) /\ Resting(r, d) /\ Counted(r, d)
    BY <2>6, <2>9 DEF Base, Rest, Ended, Told, Owned, Resting, Counted, Arriving
  <2>11. Drained(r, d)
    BY <1>8 DEF Drained
  <2>12. Events(r, d)
    <3>1. run'[Wkr].pc = "ended"
      BY <1>2, <1>4, InvParts
    <3>2. ~Sends(r, "online")
      <4>1. c.heard # <<>> /\ c.run[Wkr].pc \notin {"off", "enter"}
        BY <1>2, <2>3
      <4> QED BY <1>8, <2>1, <4>1 DEF Base, Events
    <3>3. ~Sends(r, "exit")
      BY <1>1, <1>8 DEF Base, Events
    <3>4. <<"online", "exit">> # <<>>
      OBVIOUS
    <3> QED BY <1>8, <2>3, <2>6, <3>1, <3>2, <3>3, <3>4 DEF Base, Events
  <2> QED BY <2>2, <2>5, <2>9, <2>10, <2>11, <2>12 DEF Base, Rest
<1>9. State.port[0].queue = <<>> /\ State.port = port /\ (obj[0].closed => State.port[0].closed)
  <2>1. Drained(State, Ctx) /\ Ended(State, Ctx)
    BY DEF PortInv, Base, Rest
  <2>2. State.port[0].queue = <<>>
    BY <1>0, <1>1, <2>1, CtxParts DEF Drained
  <2>3. obj[0].closed => State.port[0].closed
    BY <1>0, <2>1, CtxParts DEF Ended, Over
  <2> QED BY <2>2, <2>3, InvParts
<1>10. CASE obj[0].closed
  <2>1. UNCHANGED <<loops, port, closing>>
    BY <1>10 DEF ExitHeard
  <2>2. Base(State, Ctx')
    BY <1>8, <1>9, <1>10 DEF PortInv
  <2> QED BY <1>7, <2>1, <2>2, SameStep
<1>11. CASE ~obj[0].closed
  <2>1. CloseBegins(Main, 0)
    BY <1>11 DEF ExitHeard
  <2>2. PICK r : r = CloseResult(Main, 0)
    OBVIOUS
  <2>3. CloseOk(r, 0, Ctx)
    BY <1>0, <1>1, <2>2, CloseKeeps, CtxParts, InvParts DEF PortInv
  <2>4. Base(r, Ctx')
    BY <1>8, <1>9, <2>3 DEF CloseOk
  <2>5. CloseOk(r, 0, Ctx')
    BY <2>3, <2>4 DEF CloseOk
  <2> QED BY <1>0, <1>7, <2>1, <2>2, <2>5, CloseStep, InvParts
<1> QED BY <1>10, <1>11

-----------------------------------------------------------------------------
(* Steps of the loops, the pool and the Worker, which leave the ports alone. *)

SameCtxBut(c, d) ==
  d.run = c.run /\ d.heard = c.heard /\ d.obj = c.obj /\ d.role = c.role /\ d.left <= c.left

\* The parts of the invariant that do not count holds do not depend on who needs a loop.
LEMMA NeedFrame ==
  ASSUME NEW s, NEW c, NEW d, Typed(s), CtxOk(c), CtxOk(d), SameCtxBut(c, d)
  PROVE  /\ Ended(s, c) => Ended(s, d)
         /\ Told(s, c) => Told(s, d)
         /\ Owned(s, c) => Owned(s, d)
         /\ Drained(s, c) => Drained(s, d)
         /\ Resting(s, c) => Resting(s, d)
         /\ Events(s, c) => Events(s, d)
<1> USE DEF SameCtxBut
<1>1. Ended(s, c) => Ended(s, d)
  BY DEF Ended
<1>2. Told(s, c) => Told(s, d)
  BY DEF Told, Arriving
<1>3. Owned(s, c) => Owned(s, d)
  BY DEF Owned
<1>4. Drained(s, c) => Drained(s, d)
  BY DEF Drained, Gone
<1>5. Resting(s, c) => Resting(s, d)
  <2>1. ASSUME Resting(s, c), NEW p \in Ports PROVE s.port[p].sent + d.left <= MaxOps
    <3>1. s.port[p].sent \in Nat /\ c.left \in Nat /\ d.left \in Nat
      BY Distinct DEF Typed, PortType, CtxOk
    <3>2. s.port[p].sent + c.left <= MaxOps
      BY <2>1 DEF Resting
    <3> QED BY <3>1, <3>2, Distinct
  <2> QED BY <2>1 DEF Resting
<1>6. Events(s, c) => Events(s, d)
  BY DEF Events, Exiting, Gone
<1> QED BY <1>1, <1>2, <1>3, <1>4, <1>5, <1>6

NeedMove(c, d, t, x) ==
  /\ SameCtxBut(c, d) /\ d.need[t] = c.need[t] + x
  /\ \A u \in Threads : u # t => d.need[u] = c.need[u]
HeldOn(s, t, x) == With(port_hold(s.loops, t, t, x), s.port)

\* Loop t's own thread changes its hold count with what needs the loop.
LEMMA NeedMoves ==
  ASSUME NEW s, NEW c, NEW d, Rest(s, c), CtxOk(d), NEW t \in Threads, NEW x \in Int, NeedMove(c, d, t, x)
  PROVE  /\ Rest(HeldOn(s, t, x), d) /\ HeldOn(s, t, x).port = s.port
         /\ \A u \in Threads : /\ HeldOn(s, t, x).loops[u].comp = s.loops[u].comp
                               /\ HeldOn(s, t, x).loops[u].batch = s.loops[u].batch
         /\ Events(s, c) => Events(HeldOn(s, t, x), d)
<1> USE DEF Rest
<1>0. Parts(s) BY TypedParts
<1>1. PICK ls : ls = port_hold(s.loops, t, t, x) /\ HeldTo(s.loops, ls, t, t, x)
  BY <1>0, HoldFacts DEF Parts
<1>2. PICK r : r = With(ls, s.port)
  OBVIOUS
<1>3. r.loops = ls /\ r.port = s.port
  BY <1>2 DEF With
<1>4. Typed(r)
  BY <1>0, <1>1, <1>2, <1>3 DEF Typed, With, HeldTo, Parts
<1>5. /\ \A u \in Threads : r.loops[u].comp = s.loops[u].comp /\ r.loops[u].batch = s.loops[u].batch
      /\ \A u \in Threads : u # t => r.loops[u] = s.loops[u]
      /\ r.loops[t].inflight = s.loops[t].inflight + x
      /\ r.loops[t].refd <=> s.loops[t].inflight + x > 0
  BY <1>1, <1>3 DEF HeldTo
<1>6. MoreItems(s, r) /\ SamePorts(s, r)
  BY <1>3, <1>5 DEF MoreItems, SamePorts, Bag
<1>7. Ended(r, c) /\ Told(r, c) /\ Owned(r, c) /\ Drained(r, c)
  BY <1>4, <1>6, PortsFrame
<1>8. Resting(r, c) /\ (Events(s, c) => Events(r, c))
  BY <1>3, <1>5, EventsFrame DEF Resting
<1>9. Counted(r, d)
  <2> SUFFICES ASSUME NEW u \in Threads
               PROVE  /\ r.loops[u].inflight = Held(r, u) + Load(r, u) + d.need[u]
                      /\ Held(r, u) + d.need[u] > 0 => r.loops[u].refd
    BY DEF Counted
  <2>1. /\ Held(r, u) = Held(s, u) /\ Held(s, u) \in Nat /\ c.need[u] \in Nat /\ d.need[u] \in Nat
        /\ Load(s, u) \in Nat /\ Load(r, u) = Load(s, u)
    BY <1>0, <1>3, <1>5 DEF Held, HeldBy, CtxOk, Load, Parts
  <2>2. s.loops[u].inflight = Held(s, u) + Load(s, u) + c.need[u]
    BY DEF Counted
  <2>r. Held(s, u) + c.need[u] > 0 => s.loops[u].refd
    BY DEF Counted
  <2>3. CASE u # t
    BY <1>5, <2>1, <2>2, <2>r, <2>3 DEF NeedMove
  <2>4. CASE u = t
    <3>1. r.loops[u].inflight = s.loops[u].inflight + x /\ d.need[u] = c.need[u] + x
      BY <1>5, <2>4 DEF NeedMove
    <3>2. r.loops[u].inflight = Held(r, u) + Load(r, u) + d.need[u]
      BY <2>1, <2>2, <3>1
    <3>3. Held(r, u) + d.need[u] > 0 => s.loops[u].inflight + x > 0
      BY <2>1, <3>1, <3>2
    <3>4. r.loops[u].refd <=> s.loops[u].inflight + x > 0
      BY <1>5, <2>4
    <3> QED BY <3>2, <3>3, <3>4, Zenon
  <2> QED BY <2>3, <2>4
<1>10. Ended(r, d) /\ Told(r, d) /\ Owned(r, d) /\ Drained(r, d) /\ Resting(r, d) /\ (Events(s, c) => Events(r, d))
  BY <1>4, <1>7, <1>8, NeedFrame DEF NeedMove
<1> QED BY <1>1, <1>2, <1>3, <1>4, <1>5, <1>9, <1>10 DEF HeldOn

PushedOn(s, t, it) == With(push_completion(s.loops, t, it), s.port)

\* What needed loop t becomes a completion on its way.
LEMMA PushMoves ==
  ASSUME NEW s, NEW c, NEW d, Base(s, c), CtxOk(d), NEW t \in Threads, NeedMove(c, d, t, -1),
         NEW it \in ItemType, it.what = "work", ~it.drains
  PROVE  Base(PushedOn(s, t, it), d)
<1> USE DEF Base, Rest
<1>0. Parts(s) BY TypedParts
<1>1. PICK q \in Seq(ItemType) : q = <<it>> \o s.loops[t].comp /\ Pushed(s.loops[t].comp, q, it)
  <2>1. Pushed(s.loops[t].comp, <<it>> \o s.loops[t].comp, it)
    BY <1>0, PushFacts, Zenon DEF Parts
  <2> QED BY <2>1, Zenon DEF Pushed
<1>2. PICK x : x = [s.loops[t] EXCEPT !.comp = q, !.wake = TRUE]
  OBVIOUS
<1>3. /\ x \in LoopType /\ x.comp = q /\ x.batch = s.loops[t].batch
      /\ x.inflight = s.loops[t].inflight /\ x.refd = s.loops[t].refd
  BY <1>0, <1>1, <1>2 DEF LoopType, Parts
<1>4. push_completion(s.loops, t, it) = [s.loops EXCEPT ![t] = x]
  BY <1>1, <1>2 DEF push_completion
<1>5. PICK r : r = With([s.loops EXCEPT ![t] = x], s.port)
  OBVIOUS
<1>6. r.port = s.port /\ r.loops = [s.loops EXCEPT ![t] = x] /\ r.loops \in [Threads -> LoopType]
  BY <1>0, <1>3, <1>5 DEF With, Parts
<1>7. /\ r.loops[t] = x /\ \A u \in Threads : u # t => r.loops[u] = s.loops[u]
      /\ \A u \in Threads : r.loops[u].batch = s.loops[u].batch
  BY <1>0, <1>3, <1>6 DEF Parts
<1>8. Typed(r)
  BY <1>0, <1>5, <1>6 DEF Typed, With, Parts
<1>9. Bag(r, t) = Bag(s, t) \cup {it} /\ \A u \in Threads : u # t => Bag(r, u) = Bag(s, u)
  BY <1>1, <1>3, <1>7 DEF Bag, Pushed
<1>10. MoreItems(s, r) /\ SamePorts(s, r)
  BY <1>6, <1>9 DEF MoreItems, SamePorts
<1>11. Ended(r, c) /\ Told(r, c) /\ Owned(r, c) /\ Drained(r, c)
  BY <1>8, <1>10, PortsFrame
<1>12. Resting(r, c)
  BY <1>6, <1>7 DEF Resting
<1>13. Events(r, c)
  <2>1. Main \in Threads /\ Wkr \in Threads
    BY DEF Threads
  <2>2. \A y \in Bag(r, Wkr) : y.what \notin {"online", "exit"}
    BY <1>9, <2>1 DEF Events
  <2>3. /\ \A e \in {"online", "exit"} : Sends(r, e) <=> Sends(s, e)
        /\ InOrder(r.loops[Main].comp, r.loops[Main].batch)
    <3>1. CASE t = Main
      <4>1. /\ Holds(r.loops[Main].comp, "online") <=> Holds(s.loops[Main].comp, "online")
            /\ Holds(r.loops[Main].comp, "exit") <=> Holds(s.loops[Main].comp, "exit")
            /\ InOrder(r.loops[Main].comp, s.loops[Main].batch)
        BY <1>0, <1>1, <1>3, <1>7, <2>1, <3>1, OrderFrame DEF Events, Parts
      <4> QED BY <1>7, <2>1, <4>1 DEF Sends
    <3>2. CASE t # Main
      BY <1>7, <2>1, <3>2 DEF Sends, Events
    <3> QED BY <3>1, <3>2
  <2> QED BY <2>2, <2>3 DEF Events
<1>14. Counted(r, d)
  <2> SUFFICES ASSUME NEW u \in Threads
               PROVE  /\ r.loops[u].inflight = Held(r, u) + Load(r, u) + d.need[u]
                      /\ Held(r, u) + d.need[u] > 0 => r.loops[u].refd
    BY DEF Counted
  <2>1. /\ Held(r, u) = Held(s, u) /\ Held(s, u) \in Nat /\ c.need[u] \in Nat /\ d.need[u] \in Nat
        /\ Load(s, u) \in Nat
    BY <1>0, <1>6 DEF Held, HeldBy, CtxOk, Parts
  <2>2. s.loops[u].inflight = Held(s, u) + Load(s, u) + c.need[u]
    BY DEF Counted
  <2>r. Held(s, u) + c.need[u] > 0 => s.loops[u].refd
    BY DEF Counted
  <2>3. CASE u # t
    BY <1>7, <2>1, <2>2, <2>r, <2>3 DEF NeedMove, Load
  <2>4. CASE u = t
    <3>p. Pushed(s.loops[u].comp, r.loops[u].comp, it) /\ r.loops[u].batch = s.loops[u].batch
      BY <1>1, <1>3, <1>7, <2>4
    <3>1. Load(r, u) = Load(s, u) + 1
      BY <1>0, <3>p, SizeFacts DEF Load, Parts
    <3>2. r.loops[u].inflight = s.loops[u].inflight /\ r.loops[u].refd = s.loops[u].refd
      BY <1>3, <1>7, <2>4
    <3>3. d.need[u] = c.need[u] - 1
      BY <2>1, <2>4 DEF NeedMove
    <3>4. r.loops[u].inflight = Held(r, u) + Load(r, u) + d.need[u]
      BY <2>1, <2>2, <3>1, <3>2, <3>3
    <3>5. Held(r, u) + d.need[u] > 0 => Held(s, u) + c.need[u] > 0
      BY <2>1, <3>3
    <3> QED BY <2>r, <3>2, <3>4, <3>5
  <2> QED BY <2>3, <2>4
<1>15. Ended(r, d) /\ Told(r, d) /\ Owned(r, d) /\ Drained(r, d) /\ Resting(r, d) /\ Events(r, d)
  BY <1>8, <1>11, <1>12, <1>13, NeedFrame DEF NeedMove
<1> QED BY <1>4, <1>5, <1>8, <1>14, <1>15 DEF PushedOn

IsTail(b, r) ==
  /\ r \in Seq(ItemType) /\ Len(b) = Len(r) + 1 /\ b[1] = Head(b) /\ Head(b) \in ItemType
  /\ \A i \in 1 .. Len(r) : r[i] = b[i + 1]
  /\ Range(b) = Range(r) \cup {Head(b)}

\* A batch without its first completion.
LEMMA TailFacts ==
  ASSUME NEW b \in Seq(ItemType), b # <<>>
  PROVE  IsTail(b, Tail(b))
<1>1. PICK r \in Seq(ItemType) : r = Tail(b)
  BY HeadTailProperties
<1>2. /\ Len(b) \in Nat /\ Len(r) = Len(b) - 1 /\ Head(b) \in ItemType /\ Len(b) > 0
      /\ \A i \in 1 .. Len(r) : r[i] = b[i + 1]
  BY <1>1, HeadTailProperties, EmptySeq
<1>3. b[1] = Head(b) /\ DOMAIN b = 1 .. Len(b) /\ DOMAIN r = 1 .. Len(r)
  OBVIOUS
<1>4. ASSUME NEW x PROVE x \in Range(b) <=> x \in Range(r) \cup {Head(b)}
  <2>1. x \in Range(b) <=> \E i \in 1 .. Len(b) : b[i] = x
    BY <1>3 DEF Range
  <2>2. x \in Range(r) <=> \E i \in 1 .. Len(r) : r[i] = x
    BY <1>3 DEF Range
  <2>3. ASSUME x \in Range(b) PROVE x \in Range(r) \cup {Head(b)}
    <3>1. PICK i \in 1 .. Len(b) : b[i] = x
      BY <2>1, <2>3
    <3>2. i = 1 \/ (i - 1 \in 1 .. Len(r) /\ r[i - 1] = b[i])
      BY <1>2, <3>1
    <3> QED BY <1>3, <2>2, <3>1, <3>2
  <2>4. ASSUME x \in Range(r) PROVE x \in Range(b)
    <3>1. PICK i \in 1 .. Len(r) : r[i] = x
      BY <2>2, <2>4
    <3>2. i + 1 \in 1 .. Len(b) /\ b[i + 1] = x
      BY <1>2, <3>1
    <3> QED BY <2>1, <3>2
  <2>5. Head(b) \in Range(b)
    <3>1. 1 \in DOMAIN b /\ b[1] = Head(b)
      BY <1>2, <1>3
    <3> QED BY <3>1 DEF Range
  <2> QED BY <2>3, <2>4, <2>5
<1>5. Range(b) = Range(r) \cup {Head(b)}
  BY <1>4
<1>6. Len(b) = Len(r) + 1
  BY <1>2
<1> QED BY <1>1, <1>2, <1>3, <1>5, <1>6 DEF IsTail

TailOrder(q, b, r) ==
  /\ InOrder(q, r)
  /\ \A e \in {"online", "exit"} : Holds(b, e) <=> Holds(r, e) \/ Head(b).what = e
  /\ Head(b).what = "online" => ~Holds(r, "online") /\ ~Holds(q, "online")
  /\ Head(b).what = "exit" => /\ ~Holds(r, "online") /\ ~Holds(q, "online")
                              /\ ~Holds(r, "exit") /\ ~Holds(q, "exit")

\* The Worker's events in what is left of a batch.
LEMMA OrderTail ==
  ASSUME NEW q, NEW b \in Seq(ItemType), b # <<>>, NEW r, IsTail(b, r), InOrder(q, b)
  PROVE  TailOrder(q, b, r)
<1>1. /\ Len(r) \in Nat /\ DOMAIN b = 1 .. Len(r) + 1 /\ DOMAIN r = 1 .. Len(r)
      /\ b[1] = Head(b) /\ \A i \in 1 .. Len(r) : r[i] = b[i + 1]
  BY DEF IsTail
<1>2. ASSUME NEW e \in {"online", "exit"} PROVE Holds(b, e) <=> Holds(r, e) \/ Head(b).what = e
  <2>1. ASSUME Holds(b, e) PROVE Holds(r, e) \/ Head(b).what = e
    <3>1. PICK i \in 1 .. Len(r) + 1 : b[i].what = e
      BY <1>1, <2>1 DEF Holds
    <3>2. i = 1 \/ (i - 1 \in 1 .. Len(r) /\ r[i - 1] = b[i])
      BY <1>1, <3>1
    <3> QED BY <1>1, <3>1, <3>2 DEF Holds
  <2>2. ASSUME Holds(r, e) PROVE Holds(b, e)
    <3>1. PICK i \in 1 .. Len(r) : r[i].what = e
      BY <1>1, <2>2 DEF Holds
    <3>2. i + 1 \in DOMAIN b /\ b[i + 1].what = e
      BY <1>1, <3>1
    <3> QED BY <3>2 DEF Holds
  <2>3. ASSUME Head(b).what = e PROVE Holds(b, e)
    <3>1. 1 \in DOMAIN b
      BY <1>1
    <3> QED BY <1>1, <2>3, <3>1 DEF Holds
  <2> QED BY <2>1, <2>2, <2>3
<1>3. ASSUME NEW i \in DOMAIN r, NEW j \in DOMAIN r
      PROVE  /\ (Of(r, "exit", i) /\ (Of(r, "exit", j) \/ Of(r, "online", j)) => j <= i)
             /\ (Of(r, "online", i) /\ Of(r, "online", j) => i = j)
  <2>1. i + 1 \in DOMAIN b /\ j + 1 \in DOMAIN b /\ r[i] = b[i + 1] /\ r[j] = b[j + 1] /\ i \in Int /\ j \in Int
    BY <1>1
  <2> QED BY <2>1 DEF InOrder, Of
<1>4. InOrder(q, r)
  BY <1>2, <1>3 DEF InOrder
<1>5. ASSUME NEW i \in DOMAIN r, Head(b).what \in {"online", "exit"}
      PROVE  /\ Head(b).what = "online" => r[i].what # "online"
             /\ Head(b).what = "exit" => r[i].what \notin {"online", "exit"}
  <2>1. 1 \in DOMAIN b /\ i + 1 \in DOMAIN b /\ r[i] = b[i + 1] /\ i \in Nat /\ i >= 1
    BY <1>1
  <2>2. i + 1 # 1 /\ ~(i + 1 <= 1)
    BY <2>1
  <2> QED BY <1>1, <2>1, <2>2 DEF InOrder, Of
<1>6. /\ Head(b).what = "online" => ~Holds(q, "online")
      /\ Head(b).what = "exit" => ~Holds(q, "online") /\ ~Holds(q, "exit")
  BY <1>2 DEF InOrder
<1> QED BY <1>2, <1>4, <1>5, <1>6 DEF TailOrder, Holds

\* One completion less.
LEMMA SizeDrops ==
  ASSUME NEW q \in Seq(ItemType), NEW a \in Seq(ItemType), NEW b \in Seq(ItemType), Len(a) = Len(b) + 1
  PROVE  Size(q, a) = Size(q, b) + 1 /\ Size(q, b) \in Nat
BY DEF Size

TakenOn(s, t) == With(port_hold([s.loops EXCEPT ![t].batch = Tail(s.loops[t].batch)], t, t, -1), s.port)
TakenOk(s, r, t) ==
  /\ r.port = s.port /\ \A u \in Threads : r.loops[u].comp = s.loops[u].comp
  /\ \A u \in Threads : u # t => r.loops[u] = s.loops[u]
  /\ IsTail(s.loops[t].batch, r.loops[t].batch)
  /\ \A u \in Threads : Bag(r, u) \subseteq Bag(s, u)

\* A loop takes the first completion of its batch, whose callback it then
\* runs if it drains a port.
LEMMA TakenRests ==
  ASSUME NEW s, NEW c, Rest(s, c), NEW t \in Threads, NEW it, s.loops[t].batch # <<>>,
         it = Head(s.loops[t].batch),
         it.drains => c.run[t].pc \in {"drain", "emit"} /\ c.run[t].item = it
  PROVE  Rest(TakenOn(s, t), c) /\ TakenOk(s, TakenOn(s, t), t)
<1> USE DEF Rest
<1>0. Parts(s) BY TypedParts
<1>1. PICK b \in Seq(ItemType) : b = Tail(s.loops[t].batch) /\ IsTail(s.loops[t].batch, b)
  BY <1>0, TailFacts DEF Parts, IsTail
<1>2. PICK x : x = [s.loops[t] EXCEPT !.batch = b]
  OBVIOUS
<1>3. /\ x \in LoopType /\ x.comp = s.loops[t].comp /\ x.batch = b
      /\ x.inflight = s.loops[t].inflight /\ x.refd = s.loops[t].refd
  BY <1>0, <1>1, <1>2 DEF LoopType, Parts
<1>4. PICK l1 \in [Threads -> LoopType] : l1 = [s.loops EXCEPT ![t] = x]
  BY <1>0, <1>3 DEF Parts
<1>5. [s.loops EXCEPT ![t].batch = Tail(s.loops[t].batch)] = l1
  BY <1>1, <1>2, <1>4
<1>6. l1[t] = x /\ \A u \in Threads : u # t => l1[u] = s.loops[u]
  BY <1>0, <1>4 DEF Parts
<1>7. PICK ls : ls = port_hold(l1, t, t, -1) /\ HeldTo(l1, ls, t, t, -1)
  BY HoldFacts
<1>8. PICK r : r = With(ls, s.port)
  OBVIOUS
<1>9. r.loops = ls /\ r.port = s.port
  BY <1>8 DEF With
<1>10. Typed(r)
  BY <1>0, <1>7, <1>8, <1>9 DEF Typed, With, HeldTo, Parts
<1>11. /\ \A u \in Threads : r.loops[u].comp = s.loops[u].comp
       /\ \A u \in Threads : u # t => r.loops[u] = s.loops[u]
       /\ r.loops[t].batch = b /\ r.loops[t].inflight = s.loops[t].inflight + -1
       /\ r.loops[t].refd <=> s.loops[t].inflight + -1 > 0
  BY <1>3, <1>6, <1>7, <1>9 DEF HeldTo
<1>12. /\ Bag(s, t) = Bag(r, t) \cup {it} /\ \A u \in Threads : u # t => Bag(r, u) = Bag(s, u)
  BY <1>1, <1>11 DEF Bag, IsTail
<1>13. \A u \in Threads : Bag(r, u) \subseteq Bag(s, u)
  BY <1>12
<1>14. TakenOk(s, r, t)
  BY <1>1, <1>9, <1>11, <1>13 DEF TakenOk
<1>15. Ended(r, c)
  BY <1>9, <1>13 DEF Ended, Over
<1>16. Owned(r, c) /\ Drained(r, c)
  BY <1>9 DEF Owned, Drained
<1>17. Resting(r, c)
  BY <1>9, <1>11 DEF Resting
<1>18. Told(r, c)
  <2> SUFFICES ASSUME NEW p \in Ports, s.port[p].loop # None, s.port[p].notified,
                      s.port[p].inv.drains, c.run[s.port[p].loop].pc # "ended"
               PROVE  Arriving(r, c, p)
    BY <1>9 DEF Told
  <2>1. Arriving(s, c, p) /\ s.port[p].loop \in Threads
    BY <1>0 DEF Told, Parts
  <2>2. CASE s.port[p].loop # t
    BY <1>9, <1>12, <2>1, <2>2 DEF Arriving
  <2>3. CASE s.port[p].loop = t
    BY <1>9, <1>12, <2>1, <2>3 DEF Arriving, Carries
  <2> QED BY <2>2, <2>3
<1>19. Counted(r, c)
  <2> SUFFICES ASSUME NEW u \in Threads
               PROVE  /\ r.loops[u].inflight = Held(r, u) + Load(r, u) + c.need[u]
                      /\ Held(r, u) + c.need[u] > 0 => r.loops[u].refd
    BY DEF Counted
  <2>1. /\ Held(r, u) = Held(s, u) /\ Held(s, u) \in Nat /\ c.need[u] \in Nat /\ Load(s, u) \in Nat
    BY <1>0, <1>9 DEF Held, HeldBy, CtxOk, Parts
  <2>2. s.loops[u].inflight = Held(s, u) + Load(s, u) + c.need[u]
    BY DEF Counted
  <2>r. Held(s, u) + c.need[u] > 0 => s.loops[u].refd
    BY DEF Counted
  <2>3. CASE u # t
    BY <1>11, <2>1, <2>2, <2>r, <2>3 DEF Load
  <2>4. CASE u = t
    <3>1. PICK q \in Seq(ItemType), a \in Seq(ItemType) : q = s.loops[t].comp /\ a = s.loops[t].batch
      BY <1>0 DEF Parts
    <3>2. Len(a) = Len(b) + 1
      BY <1>1, <3>1 DEF IsTail
    <3>3. Size(q, a) = Size(q, b) + 1 /\ Size(q, b) \in Nat
      BY <3>2, SizeDrops
    <3>4. Load(s, u) = Load(r, u) + 1 /\ Load(r, u) \in Nat
      <4>1. Load(s, u) = Size(q, a) /\ Load(r, u) = Size(q, b)
        BY <1>11, <2>4, <3>1 DEF Load
      <4> QED BY <3>3, <4>1
    <3>5. r.loops[u].inflight = s.loops[u].inflight + -1
      BY <1>11, <2>4
    <3>6. r.loops[u].inflight = Held(r, u) + Load(r, u) + c.need[u]
      BY <2>1, <2>2, <3>4, <3>5
    <3>7. Held(r, u) + c.need[u] > 0 => s.loops[u].inflight + -1 > 0
      BY <2>1, <3>4, <3>5, <3>6
    <3>8. r.loops[u].refd <=> s.loops[u].inflight + -1 > 0
      BY <1>11, <2>4
    <3> QED BY <3>6, <3>7, <3>8, Zenon
  <2> QED BY <2>3, <2>4
<1>20. TakenOn(s, t) = r
  BY <1>5, <1>7, <1>8 DEF TakenOn
<1> QED BY <1>10, <1>14, <1>15, <1>16, <1>17, <1>18, <1>19, <1>20

\* A completion that is no event of the Worker leaves their order alone.
LEMMA TakenKeeps ==
  ASSUME NEW s, NEW c, Base(s, c), NEW t \in Threads, NEW it, s.loops[t].batch # <<>>,
         it = Head(s.loops[t].batch), it.what \notin {"online", "exit"},
         it.drains => c.run[t].pc \in {"drain", "emit"} /\ c.run[t].item = it
  PROVE  Base(TakenOn(s, t), c) /\ TakenOk(s, TakenOn(s, t), t)
<1>0. Parts(s) BY TypedParts DEF Base, Rest
<1>1. PICK r : r = TakenOn(s, t)
  OBVIOUS
<1>2. Rest(r, c) /\ TakenOk(s, r, t)
  BY <1>1, TakenRests DEF Base
<1>3. Main \in Threads /\ Wkr \in Threads
  BY DEF Threads
<1>4. \A y \in Bag(r, Wkr) : y.what \notin {"online", "exit"}
  BY <1>2, <1>3 DEF TakenOk, Base, Events
<1>5. /\ \A e \in {"online", "exit"} : Sends(r, e) <=> Sends(s, e)
      /\ InOrder(r.loops[Main].comp, r.loops[Main].batch)
  <2>1. CASE t = Main
    <3>1. PICK q, b, a : q = s.loops[Main].comp /\ b = s.loops[Main].batch /\ a = r.loops[Main].batch
      OBVIOUS
    <3>2. b \in Seq(ItemType) /\ b # <<>> /\ IsTail(b, a) /\ InOrder(q, b) /\ r.loops[Main].comp = q
      BY <1>0, <1>2, <1>3, <2>1, <3>1 DEF Parts, TakenOk, Base, Events
    <3>3. TailOrder(q, b, a)
      BY <3>2, OrderTail
    <3>4. \A e \in {"online", "exit"} : Holds(b, e) <=> Holds(a, e)
      BY <2>1, <3>1, <3>3 DEF TailOrder
    <3> QED BY <3>1, <3>2, <3>3, <3>4 DEF Sends, TailOrder
  <2>2. CASE t # Main
    BY <1>2, <1>3, <2>2 DEF TakenOk, Sends, Base, Events
  <2> QED BY <2>1, <2>2
<1>6. Events(r, c)
  BY <1>4, <1>5 DEF Base, Events
<1> QED BY <1>1, <1>2, <1>6 DEF Base

IsReverse(q, r) ==
  /\ r \in Seq(ItemType) /\ Len(r) = Len(q) /\ Range(r) = Range(q)
  /\ \A i \in 1 .. Len(q) : r[i] = q[Len(q) - i + 1]
  /\ \A i \in 1 .. Len(q) : Len(q) - i + 1 \in 1 .. Len(q)

\* A stack in the order it was pushed.
LEMMA ReverseFacts ==
  ASSUME NEW q \in Seq(ItemType)
  PROVE  IsReverse(q, Reverse(q))
<1>1. PICK r : r = Reverse(q)
  OBVIOUS
<1>2. PICK n \in Nat : n = Len(q) /\ DOMAIN q = 1 .. n
  OBVIOUS
<1>3. \A i \in 1 .. n : n - i + 1 \in 1 .. n
  OBVIOUS
<1>4. \A i \in 1 .. n : q[i] \in ItemType
  BY <1>2
<1>5. r = [i \in 1 .. n |-> q[n - i + 1]]
  BY <1>1, <1>2 DEF Reverse
<1>6. r \in [1 .. n -> ItemType]
  BY <1>3, <1>4, <1>5
<1>7. r \in Seq(ItemType) /\ Len(r) = n /\ DOMAIN r = 1 .. n
  <2>1. r = [i \in 1 .. n |-> r[i]] /\ \A i \in 1 .. n : r[i] \in ItemType
    BY <1>6
  <2>2. [i \in 1 .. n |-> r[i]] \in Seq(ItemType)
    BY <2>1, IsASeq
  <2>3. r \in Seq(ItemType) /\ DOMAIN r = 1 .. n /\ n \in Nat
    BY <1>2, <1>6, <2>1, <2>2
  <2> QED BY <2>3
<1>8. ASSUME NEW x PROVE x \in Range(r) <=> x \in Range(q)
  <2>1. x \in Range(r) <=> \E i \in 1 .. n : r[i] = x
    BY <1>7 DEF Range
  <2>2. x \in Range(q) <=> \E i \in 1 .. n : q[i] = x
    BY <1>2 DEF Range
  <2>3. \A i \in 1 .. n : n - (n - i + 1) + 1 = i
    OBVIOUS
  <2>4. \A i \in 1 .. n : r[i] = q[n - i + 1] /\ r[n - i + 1] = q[i]
    BY <1>3, <1>5, <2>3
  <2> QED BY <1>3, <2>1, <2>2, <2>4
<1>9. \A i \in 1 .. n : r[i] = q[n - i + 1]
  BY <1>5
<1> QED BY <1>1, <1>2, <1>3, <1>7, <1>8, <1>9 DEF IsReverse

\* The Worker's events in it.
LEMMA OrderReversed ==
  ASSUME NEW q \in Seq(ItemType), NEW b, NEW r, IsReverse(q, r), InOrder(q, b)
  PROVE  /\ InOrder(<<>>, r)
         /\ \A e \in {"online", "exit"} : Holds(r, e) <=> Holds(q, e)
         /\ \A e \in {"online", "exit"} : ~Holds(<<>>, e)
<1>1. PICK n \in Nat : n = Len(q) /\ DOMAIN q = 1 .. n /\ DOMAIN r = 1 .. n
  BY DEF IsReverse
<1>2. \A i \in 1 .. n : n - i + 1 \in 1 .. n /\ r[i] = q[n - i + 1]
  BY <1>1 DEF IsReverse
<1>3. \A e \in {"online", "exit"} : ~Holds(<<>>, e)
  BY DEF Holds
<1>4. ASSUME NEW e \in {"online", "exit"} PROVE Holds(r, e) <=> Holds(q, e)
  <2>1. ASSUME Holds(r, e) PROVE Holds(q, e)
    BY <1>1, <1>2, <2>1 DEF Holds
  <2>2. ASSUME Holds(q, e) PROVE Holds(r, e)
    <3>1. PICK i \in 1 .. n : q[i].what = e
      BY <1>1, <2>2 DEF Holds
    <3>2. n - i + 1 \in 1 .. n /\ n - (n - i + 1) + 1 = i
      BY <3>1
    <3>3. r[n - i + 1] = q[i]
      BY <1>2, <3>2
    <3> QED BY <1>1, <3>1, <3>2, <3>3 DEF Holds
  <2> QED BY <2>1, <2>2
<1>5. ASSUME NEW i \in DOMAIN r, NEW j \in DOMAIN r
      PROVE  /\ (Of(r, "exit", i) /\ (Of(r, "exit", j) \/ Of(r, "online", j)) => j <= i)
             /\ (Of(r, "online", i) /\ Of(r, "online", j) => i = j)
  <2>0. i \in 1 .. n /\ j \in 1 .. n
    BY <1>1
  <2>1. PICK k \in 1 .. n, l \in 1 .. n : k = n - i + 1 /\ l = n - j + 1 /\ r[i] = q[k] /\ r[j] = q[l]
    BY <1>2, <2>0
  <2>2. /\ (Of(q, "exit", k) /\ (Of(q, "exit", l) \/ Of(q, "online", l)) => k <= l)
        /\ (Of(q, "online", k) /\ Of(q, "online", l) => k = l)
    BY <1>1 DEF InOrder
  <2>3. (k <= l => j <= i) /\ (k = l => i = j)
    BY <1>1, <2>0, <2>1
  <2>4. k \in DOMAIN q /\ l \in DOMAIN q
    BY <1>1
  <2> QED BY <2>1, <2>2, <2>3, <2>4 DEF Of
<1>6. DOMAIN <<>> = {}
  OBVIOUS
<1>7. InOrder(<<>>, r)
  BY <1>3, <1>5, <1>6 DEF InOrder
<1> QED BY <1>3, <1>4, <1>7

\* A woken loop takes the stack as its batch.
LEMMA ReversedKeeps ==
  ASSUME NEW s, NEW c, Base(s, c), NEW t \in Threads, s.loops[t].batch = <<>>,
         c.run[t].pc \notin {"off", "enter", "construct", "run"}
  PROVE  Base(With(Reversed(s.loops, t), s.port), c)
<1> USE DEF Base, Rest
<1>0. Parts(s) BY TypedParts
<1>1. PICK q \in Seq(ItemType) : q = s.loops[t].comp
  BY <1>0 DEF Parts
<1>2. PICK b \in Seq(ItemType) : b = Reverse(q) /\ IsReverse(q, b)
  BY ReverseFacts DEF IsReverse
<1>3. PICK x : x = [s.loops[t] EXCEPT !.wake = FALSE, !.batch = b, !.comp = <<>>]
  OBVIOUS
<1>4. /\ x \in LoopType /\ x.comp = <<>> /\ x.batch = b
      /\ x.inflight = s.loops[t].inflight /\ x.refd = s.loops[t].refd
  <2>1. <<>> \in Seq(ItemType) /\ s.loops[t] \in LoopType
    BY <1>0 DEF Parts
  <2> QED BY <1>2, <1>3, <2>1 DEF LoopType
<1>5. Reversed(s.loops, t) = [s.loops EXCEPT ![t] = x]
  BY <1>0, <1>1, <1>2, <1>3 DEF Reversed, Parts
<1>6. PICK r : r = With([s.loops EXCEPT ![t] = x], s.port)
  OBVIOUS
<1>7. r.port = s.port /\ r.loops = [s.loops EXCEPT ![t] = x] /\ r.loops \in [Threads -> LoopType]
  BY <1>0, <1>4, <1>6 DEF With, Parts
<1>8. r.loops[t] = x /\ \A u \in Threads : u # t => r.loops[u] = s.loops[u]
  BY <1>0, <1>4, <1>7 DEF Parts
<1>9. Typed(r)
  BY <1>0, <1>6, <1>7 DEF Typed, With, Parts
<1>10. \A u \in Threads : Bag(r, u) = Bag(s, u)
  <2>1. Range(<<>>) = {}
    BY DEF Range
  <2>2. Bag(r, t) = Bag(s, t)
    BY <1>1, <1>2, <1>4, <1>8, <2>1 DEF Bag, IsReverse
  <2> QED BY <1>8, <2>2 DEF Bag
<1>11. MoreItems(s, r) /\ SamePorts(s, r)
  BY <1>7, <1>10 DEF MoreItems, SamePorts
<1>12. Ended(r, c) /\ Told(r, c) /\ Owned(r, c) /\ Drained(r, c)
  BY <1>9, <1>11, PortsFrame
<1>13. Resting(r, c)
  BY <1>7, <1>8 DEF Resting
<1>14. Counted(r, c)
  <2> SUFFICES ASSUME NEW u \in Threads
               PROVE  /\ r.loops[u].inflight = Held(r, u) + Load(r, u) + c.need[u]
                      /\ Held(r, u) + c.need[u] > 0 => r.loops[u].refd
    BY DEF Counted
  <2>1. Held(r, u) = Held(s, u)
    BY <1>7 DEF Held, HeldBy
  <2>2. r.loops[u].inflight = s.loops[u].inflight /\ r.loops[u].refd = s.loops[u].refd
    BY <1>4, <1>8
  <2>3. Load(r, u) = Load(s, u)
    <3>1. CASE u # t
      BY <1>8, <3>1 DEF Load
    <3>2. CASE u = t
      <4>1. Load(r, u) = Size(<<>>, b) /\ Load(s, u) = Size(q, <<>>)
        BY <1>1, <1>4, <1>8, <3>2 DEF Load
      <4>2. Size(<<>>, b) = Size(q, <<>>)
        <5>1. Len(b) = Len(q) /\ Len(q) \in Nat /\ Len(<<>>) = 0
          BY <1>2 DEF IsReverse
        <5> QED BY <5>1 DEF Size
      <4> QED BY <4>1, <4>2
    <3> QED BY <3>1, <3>2
  <2> QED BY <2>1, <2>2, <2>3 DEF Counted
<1>15. Events(r, c)
  <2>1. Main \in Threads /\ Wkr \in Threads
    BY DEF Threads
  <2>2. \A y \in Bag(r, Wkr) : y.what \notin {"online", "exit"}
    BY <1>10, <2>1 DEF Events
  <2>3. /\ \A e \in {"online", "exit"} : Sends(r, e) <=> Sends(s, e)
        /\ InOrder(r.loops[Main].comp, r.loops[Main].batch)
    <3>1. CASE t = Main
      <4>1. InOrder(q, s.loops[Main].batch)
        BY <1>1, <3>1 DEF Events
      <4>2. /\ InOrder(<<>>, b) /\ \A e \in {"online", "exit"} : (Holds(b, e) <=> Holds(q, e)) /\ ~Holds(<<>>, e)
        BY <1>2, <4>1, OrderReversed
      <4> QED BY <1>1, <1>4, <1>8, <3>1, <4>2 DEF Sends
    <3>2. CASE t # Main
      BY <1>8, <2>1, <3>2 DEF Sends, Events
    <3> QED BY <3>1, <3>2
  <2> QED BY <2>2, <2>3 DEF Events
<1> QED BY <1>5, <1>6, <1>9, <1>12, <1>13, <1>14, <1>15

\* The loop's reference is matched to its hold count.
LEMMA MatchedKeeps ==
  ASSUME NEW s, NEW c, Base(s, c), NEW t \in Threads
  PROVE  /\ Base(With([s.loops EXCEPT ![t].refd = s.loops[t].inflight > 0], s.port), c)
         /\ [s.loops EXCEPT ![t].refd = s.loops[t].inflight > 0][t].batch = s.loops[t].batch
<1> USE DEF Base, Rest
<1>0. Parts(s) BY TypedParts
<1>1. PICK b \in BOOLEAN : b = (s.loops[t].inflight > 0)
  <2>1. (s.loops[t].inflight > 0) \in BOOLEAN
    OBVIOUS
  <2> QED BY <2>1, Zenon
<1>2. PICK x : x = [s.loops[t] EXCEPT !.refd = b]
  OBVIOUS
<1>3. /\ x \in LoopType /\ x.comp = s.loops[t].comp /\ x.batch = s.loops[t].batch
      /\ x.inflight = s.loops[t].inflight /\ x.refd = b
  BY <1>0, <1>1, <1>2 DEF LoopType, Parts
<1>4. [s.loops EXCEPT ![t].refd = s.loops[t].inflight > 0] = [s.loops EXCEPT ![t] = x]
  BY <1>0, <1>1, <1>2 DEF Parts
<1>5. PICK r : r = With([s.loops EXCEPT ![t] = x], s.port)
  OBVIOUS
<1>6. r.port = s.port /\ r.loops = [s.loops EXCEPT ![t] = x] /\ r.loops \in [Threads -> LoopType]
  BY <1>0, <1>3, <1>5 DEF With, Parts
<1>7. /\ r.loops[t] = x /\ \A u \in Threads : u # t => r.loops[u] = s.loops[u]
      /\ \A u \in Threads : r.loops[u].comp = s.loops[u].comp /\ r.loops[u].batch = s.loops[u].batch
  BY <1>0, <1>3, <1>6 DEF Parts
<1>8. Typed(r)
  BY <1>0, <1>5, <1>6 DEF Typed, With, Parts
<1>9. MoreItems(s, r) /\ SamePorts(s, r)
  BY <1>6, <1>7 DEF MoreItems, SamePorts, Bag
<1>10. Ended(r, c) /\ Told(r, c) /\ Owned(r, c) /\ Drained(r, c)
  BY <1>8, <1>9, PortsFrame
<1>11. Resting(r, c) /\ Events(r, c)
  BY <1>6, <1>7, EventsFrame DEF Resting
<1>12. Counted(r, c)
  <2> SUFFICES ASSUME NEW u \in Threads
               PROVE  /\ r.loops[u].inflight = Held(r, u) + Load(r, u) + c.need[u]
                      /\ Held(r, u) + c.need[u] > 0 => r.loops[u].refd
    BY DEF Counted
  <2>1. /\ Held(r, u) = Held(s, u) /\ Held(s, u) \in Nat /\ c.need[u] \in Nat
        /\ Load(s, u) \in Nat /\ Load(r, u) = Load(s, u)
    BY <1>0, <1>6, <1>7 DEF Held, HeldBy, CtxOk, Load, Parts
  <2>2. s.loops[u].inflight = Held(s, u) + Load(s, u) + c.need[u]
    BY DEF Counted
  <2>3. CASE u # t
    BY <1>7, <2>1, <2>2, <2>3 DEF Counted
  <2>4. CASE u = t
    <3>1. Held(r, u) + c.need[u] > 0 => s.loops[u].inflight > 0
      BY <2>1, <2>2
    <3>2. r.loops[u].refd <=> s.loops[u].inflight > 0
      BY <1>1, <1>3, <1>7, <2>4
    <3>3. r.loops[u].inflight = Held(r, u) + Load(r, u) + c.need[u]
      BY <1>3, <1>7, <2>1, <2>2, <2>4
    <3> QED BY <3>1, <3>2, <3>3, Zenon
  <2> QED BY <2>3, <2>4
<1> QED BY <1>4, <1>5, <1>6, <1>7, <1>8, <1>10, <1>11, <1>12

-----------------------------------------------------------------------------
(* The loop.                                                               *)

\* A step that changes the loops only.
LEMMA LoopStep ==
  ASSUME PortInv, UNCHANGED <<port, closing>>, NEW r, loops' = r.loops, r.port = port, Base(r, Ctx'), Around'
  PROVE  PortInv'
<1>1. Parts(r) BY TypedParts DEF Base, Rest
<1>2. State' = r
  BY <1>1 DEF State, Parts, With
<1>3. Owing'
  BY DEF PortInv, Owing, State, OwesNone, EndsNone
<1> QED BY <1>2, <1>3 DEF PortInv

\* A loop's wakeup keeps the invariant.
LEMMA StepWake ==
  ASSUME PortInv, NEW t \in Threads, Wake(t)
  PROVE  PortInv'
<1>1. /\ run[t].pc = "run" /\ loops' = Reversed(loops, t) /\ Goto(t, "dispatch")
      /\ UNCHANGED <<port, obj, closing, wrk, jobs, role, ops>>
  BY DEF Wake
<1>2. /\ run' \in [Threads -> RunType] /\ run'[t].pc = "dispatch" /\ run'[t].item = run[t].item
      /\ \A u \in Threads : u # t => run'[u] = run[u]
  BY <1>1, GotoFacts DEF Pcs
<1>3. ThreadStep(t) /\ SameEndsOf /\ NoNewExit(t) /\ Goes(run[t], run'[t])
  BY <1>1, <1>2, InvParts DEF ThreadStep, SameWorker, SameEndsOf, NoNewExit, Goes
<1>4. closing' \in {None} \cup [by : Threads, port : Ports] /\ Base(State, Ctx)
  BY <1>1 DEF PortInv, Around
<1>5. Base(State, Ctx') /\ Around'
  BY <1>1, <1>2, <1>3, <1>4, ThreadGoes, ItemOver
<1>6. State.loops[t].batch = <<>>
  BY <1>1, <1>4, CtxParts DEF Base, Rest, Resting
<1>7. PICK r : r = With(Reversed(State.loops, t), State.port)
  OBVIOUS
<1>8. Base(r, Ctx')
  <2>1. PICK d : d = Ctx'
    OBVIOUS
  <2>2. d.run[t].pc = "dispatch"
    BY <1>2, <2>1, CtxParts
  <2> QED BY <1>5, <1>6, <1>7, <2>1, <2>2, ReversedKeeps
<1>9. r.loops = Reversed(loops, t) /\ r.port = port
  BY <1>7, InvParts DEF With
<1> QED BY <1>1, <1>5, <1>8, <1>9, LoopStep

\* The end of a batch keeps the invariant.
LEMMA StepDispatchDone ==
  ASSUME PortInv, NEW t \in Threads, DispatchDone(t)
  PROVE  PortInv'
<1>1. /\ run[t].pc = "dispatch" /\ loops[t].batch = <<>> /\ Goto(t, "run")
      /\ loops' = [loops EXCEPT ![t].refd = loops[t].inflight > 0]
      /\ UNCHANGED <<port, obj, closing, wrk, jobs, role, ops>>
  BY DEF DispatchDone
<1>2. /\ run' \in [Threads -> RunType] /\ run'[t].pc = "run" /\ run'[t].item = run[t].item
      /\ \A u \in Threads : u # t => run'[u] = run[u]
  BY <1>1, GotoFacts DEF Pcs
<1>3. ThreadStep(t) /\ SameEndsOf /\ NoNewExit(t) /\ Goes(run[t], run'[t])
  BY <1>1, <1>2, InvParts DEF ThreadStep, SameWorker, SameEndsOf, NoNewExit, Goes
<1>4. closing' \in {None} \cup [by : Threads, port : Ports] /\ Base(State, Ctx)
  BY <1>1 DEF PortInv, Around
<1>5. PICK r : r = With([State.loops EXCEPT ![t].refd = State.loops[t].inflight > 0], State.port)
  OBVIOUS
<1>6. Base(r, Ctx) /\ r.loops[t].batch = State.loops[t].batch
  BY <1>4, <1>5, MatchedKeeps DEF With
<1>7. r.loops = [loops EXCEPT ![t].refd = loops[t].inflight > 0] /\ r.port = port /\ r.loops[t].batch = <<>>
  <2>1. State.loops = loops /\ State.port = port
    BY InvParts
  <2>2. r.loops = [State.loops EXCEPT ![t].refd = State.loops[t].inflight > 0] /\ r.port = State.port
    BY <1>5 DEF With
  <2>3. r.loops = [loops EXCEPT ![t].refd = loops[t].inflight > 0]
    BY <2>1, <2>2, Zenon
  <2> QED BY <1>1, <1>6, <2>1, <2>2, <2>3, Zenon
<1>8. Base(r, Ctx') /\ Around'
  <2>1. wrk'.heard = wrk.heard /\ obj' = obj /\ run[t].pc = "dispatch"
    BY <1>1
  <2>2. r.loops[t].batch = <<>>
    BY <1>7
  <2> QED BY <1>2, <1>3, <1>4, <1>6, <2>1, <2>2, ThreadGoes, ItemOver
<1> QED BY <1>1, <1>7, <1>8, LoopStep

\* What a dispatch takes.
LEMMA DispatchFacts ==
  ASSUME PortInv, NEW t \in Threads, NEW what, Dispatching(t, what)
  PROVE  /\ run[t].pc = "dispatch" /\ State.loops[t].batch # <<>> /\ loops[t].batch # <<>>
         /\ Head(State.loops[t].batch) = Head(loops[t].batch)
         /\ Head(loops[t].batch) \in ItemType /\ Head(loops[t].batch) \in Bag(State, t)
         /\ Head(loops[t].batch).what \in what
         /\ TakenOn(State, t).loops = Taken(t) /\ TakenOn(State, t).port = port
<1>1. State.loops = loops /\ State.port = port /\ Parts(State)
  BY InvParts, TypedParts
<1>2. /\ run[t].pc = "dispatch" /\ loops[t].batch # <<>> /\ Head(loops[t].batch).what \in what
      /\ loops[t].batch \in Seq(ItemType)
  BY <1>1 DEF Dispatching, Parts
<1>3. IsTail(loops[t].batch, Tail(loops[t].batch))
  BY <1>2, TailFacts
<1>4. Head(loops[t].batch) \in ItemType /\ Head(loops[t].batch) \in Bag(State, t)
  BY <1>1, <1>3 DEF IsTail, Bag
<1>5. TakenOn(State, t).loops = Taken(t) /\ TakenOn(State, t).port = port
  BY <1>1 DEF TakenOn, Taken, With
<1> QED BY <1>1, <1>2, <1>4, <1>5

\* A port's callback keeps the invariant.
LEMMA StepDispatchPort ==
  ASSUME PortInv, NEW t \in Threads, DispatchPort(t)
  PROVE  PortInv'
<1>0. PICK it : it = Head(loops[t].batch)
  OBVIOUS
<1>1. /\ run[t].pc = "dispatch" /\ State.loops[t].batch # <<>> /\ it = Head(State.loops[t].batch)
      /\ it \in ItemType /\ it \in Bag(State, t) /\ it.what \in {"messages", "closed"}
      /\ TakenOn(State, t).loops = Taken(t) /\ TakenOn(State, t).port = port
  BY <1>0, DispatchFacts DEF DispatchPort
<1>2. /\ loops' = Taken(t) /\ UNCHANGED <<port, closing, wrk, jobs, role, ops>>
      /\ it.drains => run' = [run EXCEPT ![t] = [pc |-> "drain", item |-> it]] /\ obj' = obj
      /\ ~it.drains => (Goto(t, "call") \/ run' = run) /\ obj' = OnClose(t, it)
  BY <1>0 DEF DispatchPort
<1>3. PICK p \in Ports : p = it.port
  BY <1>1 DEF ItemType
<1>4. it.what = "closed" => Over(State, p)
  BY <1>1, <1>3 DEF PortInv, Base, Rest, Ended
<1>5. /\ obj' \in [Ports -> ObjType] /\ SameEndsOf
      /\ \A q \in Ports : obj'[q].closed => obj[q].closed \/ Over(State, q)
  <2>1. CASE ~it.drains /\ Closes(t, it)
    <3>1. /\ obj' = [obj EXCEPT ![p].closed = TRUE, ![p].started = FALSE]
          /\ it.what = "closed"
      BY <1>2, <1>3, <2>1 DEF OnClose, Closes
    <3>2. obj[p] \in ObjType
      BY InvParts
    <3>3. PICK x : x = [obj[p] EXCEPT !.closed = TRUE, !.started = FALSE]
      OBVIOUS
    <3>4. x \in ObjType /\ x.at = obj[p].at /\ x.gen = obj[p].gen
      BY <3>2, <3>3 DEF ObjType
    <3>5. obj' = [obj EXCEPT ![p] = x]
      BY <3>1, <3>3, InvParts
    <3> QED BY <1>4, <3>1, <3>4, <3>5, InvParts DEF SameEndsOf
  <2>2. CASE it.drains \/ ~Closes(t, it)
    <3>1. obj' = obj
      BY <1>2, <2>2 DEF OnClose
    <3> QED BY <3>1, InvParts DEF SameEndsOf
  <2> QED BY <2>1, <2>2
<1>6. /\ run' \in [Threads -> RunType] /\ \A u \in Threads : u # t => run'[u] = run[u]
      /\ it.drains => run'[t].pc = "drain" /\ run'[t].item = it
      /\ ~it.drains => run'[t].pc \in {"call", "dispatch"} /\ run'[t].item = run[t].item
  <2>1. [pc |-> "drain", item |-> it] \in RunType
    BY <1>1 DEF RunType, Pcs
  <2>2. CASE it.drains
    BY <1>2, <2>1, <2>2, InvParts
  <2>3. CASE ~it.drains /\ Goto(t, "call")
    BY <2>3, GotoFacts DEF Pcs
  <2>4. CASE ~it.drains /\ run' = run
    BY <1>1, <2>4, InvParts
  <2> QED BY <1>2, <2>2, <2>3, <2>4
<1>7. /\ ThreadStep(t) /\ NoNewExit(t) /\ Goes(run[t], run'[t]) /\ run'[t].pc \in {"call", "dispatch", "drain"}
      /\ wrk'.heard = wrk.heard
  BY <1>1, <1>2, <1>5, <1>6, InvParts DEF ThreadStep, SameWorker, NoNewExit, Goes
<1>8. closing' \in {None} \cup [by : Threads, port : Ports] /\ Base(State, Ctx)
  BY <1>2 DEF PortInv, Around
<1>9. run'[t].item.what = "closed" => Over(State, run'[t].item.port)
  BY <1>3, <1>4, <1>6, <1>8, ItemOver
<1>10. Base(State, Ctx') /\ Around'
  BY <1>1, <1>5, <1>7, <1>8, <1>9, ThreadGoes
<1>11. PICK r : r = TakenOn(State, t)
  OBVIOUS
<1>12. Base(r, Ctx')
  <2>1. PICK d : d = Ctx'
    OBVIOUS
  <2>2. it.drains => d.run[t].pc \in {"drain", "emit"} /\ d.run[t].item = it
    BY <1>6, <2>1, CtxParts
  <2>3. it.what \notin {"online", "exit"}
    BY <1>1
  <2> QED BY <1>1, <1>10, <1>11, <2>1, <2>2, <2>3, TakenKeeps
<1> QED BY <1>1, <1>2, <1>10, <1>11, <1>12, LoopStep

-----------------------------------------------------------------------------
(* The Worker's events on their way to its parent.                         *)

RestMove(s, c, d, t) ==
  /\ d.need = c.need /\ d.obj = c.obj /\ d.role = c.role /\ d.left = c.left
  /\ \A u \in Threads : u # t => d.run[u] = c.run[u]
  /\ d.run[t].item.what = "closed" => Over(s, d.run[t].item.port)
  /\ d.run[t].pc \in {"off", "enter", "construct", "run"} => s.loops[t].batch = <<>>

\* A step of a thread, and of what a Worker has been heard to do.
LEMMA RestMoves ==
  ASSUME NEW s, NEW c, NEW d, Rest(s, c), CtxOk(d), NEW t \in Threads, RestMove(s, c, d, t),
         Told(s, d), Drained(s, d)
  PROVE  Rest(s, d)
<1> USE DEF Rest, RestMove
<1>1. Counted(s, d)
  BY DEF Counted
<1>2. Ended(s, d)
  <2>1. ASSUME NEW u \in Threads, NEW it \in Bag(s, u) \cup {d.run[u].item}, it.what = "closed"
        PROVE  Over(s, it.port)
    BY <2>1 DEF Ended
  <2> QED BY <2>1 DEF Ended
<1>3. Owned(s, d)
  BY DEF Owned
<1>4. Resting(s, d)
  BY DEF Resting
<1> QED BY <1>1, <1>2, <1>3, <1>4

\* An event pushed on a stack comes after those below it.
LEMMA OrderPush ==
  ASSUME NEW q \in Seq(ItemType), NEW b \in Seq(ItemType), NEW r, NEW it, Pushed(q, r, it),
         InOrder(q, b), ~Holds(q, "exit"), ~Holds(b, "exit"),
         it.what = "exit" \/ (it.what = "online" /\ ~Holds(q, "online") /\ ~Holds(b, "online"))
  PROVE  /\ InOrder(r, b)
         /\ \A e \in {"online", "exit"} : Holds(r, e) <=> Holds(q, e) \/ it.what = e
<1>1. Len(q) \in Nat /\ DOMAIN q = 1 .. Len(q) /\ DOMAIN r = 1 .. Len(q) + 1
  BY DEF Pushed
<1>2. r[1] = it /\ \A i \in 1 .. Len(q) : r[i + 1] = q[i]
  BY DEF Pushed
<1>3. ASSUME NEW i \in DOMAIN r
      PROVE  i = 1 \/ (i - 1 \in DOMAIN q /\ r[i] = q[i - 1])
  BY <1>1, <1>2
<1>4. ASSUME NEW e \in {"online", "exit"} PROVE Holds(r, e) <=> Holds(q, e) \/ it.what = e
  <2>1. ASSUME Holds(r, e) PROVE Holds(q, e) \/ it.what = e
    BY <1>2, <1>3, <2>1 DEF Holds
  <2>2. ASSUME Holds(q, e) PROVE Holds(r, e)
    <3>1. PICK i \in 1 .. Len(q) : q[i].what = e
      BY <1>1, <2>2 DEF Holds
    <3>2. i + 1 \in DOMAIN r /\ r[i + 1].what = e
      BY <1>1, <1>2, <3>1
    <3> QED BY <3>2 DEF Holds
  <2>3. ASSUME it.what = e PROVE Holds(r, e)
    <3>1. 1 \in DOMAIN r
      BY <1>1
    <3> QED BY <1>2, <2>3, <3>1 DEF Holds
  <2> QED BY <2>1, <2>2, <2>3
<1>5. ASSUME NEW i \in DOMAIN r, r[i].what = "exit" PROVE i = 1
  BY <1>3, <1>5 DEF Holds
<1>6. ASSUME NEW i \in DOMAIN r, NEW j \in DOMAIN r
      PROVE  /\ (Of(r, "exit", i) /\ (Of(r, "exit", j) \/ Of(r, "online", j)) => i <= j)
             /\ (Of(r, "online", i) /\ Of(r, "online", j) => i = j)
  <2>1. i \in Int /\ j \in Int /\ i >= 1 /\ j >= 1
    BY <1>1
  <2>2. Of(r, "exit", i) => i <= j
    BY <1>5, <2>1 DEF Of
  <2>3. ASSUME Of(r, "online", i), Of(r, "online", j) PROVE i = j
    <3>1. CASE it.what = "exit"
      <4>1. i # 1 /\ j # 1
        BY <1>2, <2>3, <3>1 DEF Of
      <4>2. i - 1 \in DOMAIN q /\ r[i] = q[i - 1] /\ j - 1 \in DOMAIN q /\ r[j] = q[j - 1]
        BY <1>3, <4>1
      <4>3. i - 1 = j - 1
        BY <2>3, <4>2 DEF InOrder, Of
      <4> QED BY <2>1, <4>3
    <3>2. CASE it.what = "online" /\ ~Holds(q, "online")
      BY <1>3, <2>3, <3>2 DEF Of, Holds
    <3> QED BY <3>1, <3>2
  <2> QED BY <2>2, <2>3
<1>7. InOrder(r, b)
  BY <1>4, <1>6 DEF InOrder
<1> QED BY <1>4, <1>7

\* The three events.
LEMMA EventFacts ==
  ASSUME NEW e \in Whats \ {"closed"}
  PROVE  /\ Event(e) \in ItemType /\ Event(e).what = e /\ Event(e).drains = FALSE
         /\ \A s : Postable(s, Event(e))
<1>1. Event(e) \in ItemType /\ Event(e).what = e /\ Event(e).drains = FALSE
  BY Distinct DEF Event, ItemType, Ports
<1> QED BY <1>1 DEF Postable

\* The thread has ended and its parent is told so.
LEMMA ExitPosts ==
  ASSUME NEW s, NEW c, Base(s, c), c.run[Wkr].pc = "ended", ~Sends(s, "exit"), ~Exiting(c), ~Gone(c)
  PROVE  Base(PostedTo(s, Wkr, Main, Event("exit")), c)
<1>0. Parts(s) /\ Main \in Threads /\ Wkr \in Threads /\ Main # Wkr
  BY TypedParts, Distinct DEF Base, Rest, Threads
<1>1. PICK it : it = Event("exit")
  OBVIOUS
<1>2. Postable(s, it) /\ it.what = "exit"
  BY <1>1, EventFacts DEF Whats
<1>3. PICK r : r = PostedTo(s, Wkr, Main, it)
  OBVIOUS
<1>4. /\ Rest(r, c) /\ Bag(r, Wkr) = Bag(s, Wkr) /\ r.loops[Main].batch = s.loops[Main].batch
      /\ Pushed(s.loops[Main].comp, r.loops[Main].comp, it)
  BY <1>0, <1>2, <1>3, PostRests DEF Base
<1>5. PICK q \in Seq(ItemType), b \in Seq(ItemType) : q = s.loops[Main].comp /\ b = s.loops[Main].batch
  BY <1>0 DEF Parts
<1>6. InOrder(q, b) /\ ~Holds(q, "exit") /\ ~Holds(b, "exit")
  BY <1>5 DEF Base, Events, Sends
<1>7. /\ InOrder(r.loops[Main].comp, b)
      /\ \A e \in {"online", "exit"} : Holds(r.loops[Main].comp, e) <=> Holds(q, e) \/ it.what = e
  BY <1>2, <1>4, <1>5, <1>6, OrderPush
<1>8. Sends(r, "online") <=> Sends(s, "online")
  BY <1>2, <1>4, <1>5, <1>7 DEF Sends
<1>9. Events(r, c)
  BY <1>4, <1>5, <1>7, <1>8 DEF Base, Events
<1> QED BY <1>1, <1>3, <1>4, <1>9 DEF Base

\* The thread has entered and its parent is told that it is online.
LEMMA OnlinePosts ==
  ASSUME NEW s, NEW c, NEW d, Base(s, c), c.run[Wkr].pc = "enter", d.run[Wkr].pc = "run",
         CtxOk(d), RestMove(s, c, d, Wkr), d.heard = c.heard, Told(s, d)
  PROVE  Base(PostedTo(s, Wkr, Main, Event("online")), d)
<1>0. Parts(s) /\ Main \in Threads /\ Wkr \in Threads /\ Main # Wkr
  BY TypedParts, Distinct DEF Base, Rest, Threads
<1>1. PICK it : it = Event("online")
  OBVIOUS
<1>2. Postable(s, it) /\ it.what = "online"
  BY <1>1, EventFacts DEF Whats
<1>3. PICK r : r = PostedTo(s, Wkr, Main, it)
  OBVIOUS
<1>4. Rest(s, d)
  <2>1. Drained(s, d)
    BY <1>0 DEF Base, Rest, Drained, RestMove, Gone
  <2> QED BY <1>0, <2>1, RestMoves DEF Base
<1>5. /\ Rest(r, d) /\ Bag(r, Wkr) = Bag(s, Wkr) /\ r.loops[Main].batch = s.loops[Main].batch
      /\ Pushed(s.loops[Main].comp, r.loops[Main].comp, it)
  BY <1>0, <1>2, <1>3, <1>4, PostRests
<1>6. PICK q \in Seq(ItemType), b \in Seq(ItemType) : q = s.loops[Main].comp /\ b = s.loops[Main].batch
  BY <1>0 DEF Parts
<1>7. c.heard = <<>> /\ ~Sends(s, "online") /\ ~Sends(s, "exit") /\ ~Exiting(c) /\ ~Gone(c)
  BY DEF Base, Events
<1>8. /\ InOrder(q, b) /\ ~Holds(q, "exit") /\ ~Holds(b, "exit")
      /\ ~Holds(q, "online") /\ ~Holds(b, "online")
  BY <1>6, <1>7 DEF Base, Events, Sends
<1>9. /\ InOrder(r.loops[Main].comp, b)
      /\ \A e \in {"online", "exit"} : Holds(r.loops[Main].comp, e) <=> Holds(q, e) \/ it.what = e
  BY <1>2, <1>5, <1>6, <1>8, OrderPush
<1>10. Sends(r, "online") /\ ~Sends(r, "exit") /\ ~Exiting(d) /\ ~Gone(d)
  BY <1>0, <1>2, <1>5, <1>6, <1>7, <1>8, <1>9 DEF Sends, Exiting, Gone, RestMove
<1>11. Events(r, d)
  BY <1>5, <1>6, <1>7, <1>9, <1>10 DEF Base, Events
<1> QED BY <1>1, <1>3, <1>5, <1>11 DEF Base

=============================================================================

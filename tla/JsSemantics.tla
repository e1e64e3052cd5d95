---------------------------- MODULE JsSemantics ----------------------------
(***************************************************************************)
(* What ECMAScript says a function body does: the abstract specification   *)
(* the compiler is held to.  A configuration is the next observable event  *)
(* and what is left to do after it, a stack of frames.  Between two events *)
(* evaluation is deterministic, so Reduce (after a normal completion) and  *)
(* Unwind (after an abrupt one) compute the next configuration.            *)
(*                                                                         *)
(* x is the program's one variable: "tdz" before its declaration has run,  *)
(* then "undef" or "val"; last is the identity of the last store to it.    *)
(***************************************************************************)
EXTENDS KmlStatements

Normal == [t |-> "normal", v |-> ""]
ReturnOf(v) == [t |-> "return", v |-> v]
ThrowOf(v) == [t |-> "throw", v |-> v]
BreakTo(l) == [t |-> "break", v |-> l]
ContinueTo(l) == [t |-> "continue", v |-> l]

\* The variable's part of a configuration, at a function's start.
NoVar == [x |-> "tdz", last |-> "none"]

\* Entering a scope that declares x makes a fresh binding.
Scoped(var, declares) == IF declares THEN NoVar ELSE var

Seq_(ss) == [f |-> "seq", ss |-> ss]
LoopFrame(s, labels) == [f |-> "loop", s |-> s, labels |-> labels]

\* An observable event: what happens, where, and the value it shows.
Event(e, id) == [e |-> e, id |-> id]

\* The function is left with completion c.
End(c) == Event(c.t, c.v)

\* A configuration: event ev next, then frames k (kf when a condition fails).
Config(ev, k, kf, var) == [ev |-> ev, k |-> k, kf |-> kf, var |-> var]

\* Evaluating condition c: to kt when it holds, to kf otherwise.
Test(c, kt, kf, var) == Config(Event(c.c, c.id), kt, kf, var)

Targets(fr, c) == c.v = "" \/ c.v \in fr.labels

RECURSIVE Reduce(_, _)
RECURSIVE Unwind(_, _, _)
RECURSIVE Start(_, _, _, _)
RECURSIVE Iterate(_, _, _)
RECURSIVE SwitchFrom(_, _, _, _)

\* The test of a loop, before an iteration: frame fr, frames k outside it.
Iterate(fr, k, var) ==
    LET enter == <<Seq_(<<Block(fr.s.body)>>), fr>> \o k
    IN  IF fr.s.test.c = "true" THEN Reduce(enter, var)
                                ELSE Test(fr.s.test, enter, k, var)

\* The tests of a switch from case i on; the default when none matches.
SwitchFrom(s, i, k, var) ==
    LET frame == [f |-> "switch"]
        bodies(j) == [n \in 1 .. Len(s.cases) - j + 1 |->
                         Seq_(s.cases[n + j - 1].body)] \o <<frame>> \o k
        defaults == {j \in DOMAIN s.cases : s.cases[j].def}
    IN  CASE i > Len(s.cases) ->
               IF defaults = {} THEN Reduce(k, var)
               ELSE Reduce(bodies(CHOOSE j \in defaults : TRUE), var)
          [] i <= Len(s.cases) /\ s.cases[i].def -> SwitchFrom(s, i + 1, k, var)
          [] OTHER -> Test(s.cases[i].test, bodies(i),
                           <<[f |-> "cases", s |-> s, i |-> i + 1]>> \o k, var)

\* Statement s, with the labels in front of it, then frames k.
Start(s, labels, k, var) ==
    CASE s.k \in {"op", "read", "assign", "decl"} ->
           Config(Event(s.k, s.id), <<[f |-> "did", s |-> s]>> \o k, <<>>, var)
      [] s.k = "return" -> Unwind(k, ReturnOf(s.id), var)
      [] s.k = "throw" -> Unwind(k, ThrowOf(s.id), var)
      [] s.k = "break" -> Unwind(k, BreakTo(s.l), var)
      [] s.k = "continue" -> Unwind(k, ContinueTo(s.l), var)
      [] s.k = "block" ->
           Reduce(<<Seq_(s.body)>> \o k, Scoped(var, Declares(s.body)))
      [] s.k = "if" ->
           Test(s.test, <<Seq_(<<Block(s.body)>>)>> \o k,
                        <<Seq_(<<Block(s.els)>>)>> \o k, var)
      [] s.k \in {"while", "for", "forof"} -> Iterate(LoopFrame(s, labels), k, var)
      [] s.k = "dowhile" ->
           Reduce(<<Seq_(<<Block(s.body)>>), LoopFrame(s, labels)>> \o k, var)
      [] s.k = "label" ->
           IF s.s.k \in LoopKinds THEN Start(s.s, labels \cup {s.l}, k, var)
           ELSE Start(s.s, {}, <<[f |-> "label", l |-> s.l]>> \o k, var)
      [] s.k = "switch" -> SwitchFrom(s, 1, k, Scoped(var, SwitchDeclares(s)))
      [] s.k = "try" ->
           Reduce(<<Seq_(<<Block(s.body)>>), [f |-> "try", s |-> s]>> \o k, var)

\* Running the finally of s with completion c pending, then frames k.
Finally(s, c, k) == <<Seq_(<<Block(s.f)>>), [f |-> "finally", c |-> c]>> \o k

\* Closing the iterator of the for-of s with completion c pending.
Close(s, c, k, var) ==
    Config(Event("op", s.close), <<[f |-> "close", s |-> s, c |-> c]>> \o k,
           <<>>, var)

\* The innermost frame's part completed normally.
Reduce(k, var) ==
    IF k = <<>> THEN Config(End(Normal), <<>>, <<>>, var)
    ELSE LET fr == Head(k)
             r == Tail(k)
         IN CASE fr.f = "seq" ->
                   IF fr.ss = <<>> THEN Reduce(r, var)
                   ELSE Start(Head(fr.ss), {}, <<Seq_(Tail(fr.ss))>> \o r, var)
              [] fr.f = "did" -> Reduce(r, var)
              [] fr.f = "loop" ->
                   IF fr.s.k = "for"
                   THEN Config(Event("op", fr.s.update),
                               <<[f |-> "updated", loop |-> fr]>> \o r, <<>>, var)
                   ELSE Iterate(fr, r, var)
              [] fr.f = "updated" -> Iterate(fr.loop, r, var)
              [] fr.f = "cases" -> SwitchFrom(fr.s, fr.i, r, var)
              [] fr.f \in {"try", "catch"} ->
                   IF fr.s.hasF THEN Reduce(Finally(fr.s, Normal, r), var)
                                ELSE Reduce(r, var)
              [] fr.f \in {"finally", "close"} ->
                   IF fr.c.t = "normal" THEN Reduce(r, var) ELSE Unwind(r, fr.c, var)
              [] OTHER -> Reduce(r, var)

\* The innermost frame's part completed abruptly, with completion c.
Unwind(k, c, var) ==
    IF k = <<>> THEN Config(End(c), <<>>, <<>>, var)
    ELSE LET fr == Head(k)
             r == Tail(k)
         IN CASE fr.f = "loop" ->
                   CASE c.t = "continue" /\ Targets(fr, c) -> Reduce(k, var)
                     [] fr.s.k = "forof" ->
                          Close(fr.s, IF c.t = "break" /\ Targets(fr, c)
                                      THEN Normal ELSE c, r, var)
                     [] c.t = "break" /\ Targets(fr, c) -> Reduce(r, var)
                     [] OTHER -> Unwind(r, c, var)
              [] fr.f = "switch" /\ c = BreakTo("") -> Reduce(r, var)
              [] fr.f = "label" /\ c = BreakTo(fr.l) -> Reduce(r, var)
              [] fr.f = "try" /\ c.t = "throw" /\ fr.s.hasC ->
                   Config(Event("catch", c.v),
                          <<Seq_(<<Block(fr.s.c)>>), [f |-> "catch", s |-> fr.s]>>
                            \o r, <<>>, var)
              [] fr.f \in {"try", "catch"} /\ fr.s.hasF ->
                   Reduce(Finally(fr.s, c, r), var)
              [] fr.f = "close" /\ c.t = "throw" /\ fr.c.t = "throw" ->
                   Unwind(r, fr.c, var)
              [] OTHER -> Unwind(r, c, var)

\* The configuration a function body starts in.
Begin(body) == Reduce(<<Seq_(<<Block(body)>>)>>, NoVar)

\* What an access to x leaves in it.
Stored(js) ==
    LET s == Head(js.k).s
    IN  CASE js.ev.e = "decl" ->
               [x |-> IF s.init THEN "val" ELSE "undef",
                last |-> IF s.init THEN s.id ELSE "none"]
          [] js.ev.e = "assign" ->
               [x |-> IF s.undef THEN "undef" ELSE "val", last |-> s.id]
          [] OTHER -> js.var

\* An access to x before its declaration has run throws.
Throws(js) ==
    js.ev.e \in {"read", "assign", "present", "absent"} /\ js.var.x = "tdz"

\* What comes next calls something.
Calls(js) == js.ev.e \in {"op", "call"}

\* What a throw by the next event unwinds: a condition is outside what it
\* guards.
Around(js) == IF js.kf = <<>> THEN js.k ELSE js.kf

\* The value of a condition on x.
Holds(js) == IF js.ev.e = "present" THEN js.var.x = "val" ELSE js.var.x = "undef"

\* The handlers that protect the next event: a try's body, the catch of a try
\* with a finally, and the body or the closing after a throw of a for-of over
\* any, which compiles to a try.
Protects(fr) ==
    \/ fr.f = "try"
    \/ fr.f = "catch" /\ fr.s.hasF
    \/ fr.f = "loop" /\ fr.s.k = "forof" /\ fr.s.over = "any"
    \/ fr.f = "close" /\ fr.s.over = "any" /\ fr.c.t = "throw"
=============================================================================

---------------------------- MODULE FallThrough ----------------------------
(***************************************************************************)
(* emit_fallthrough.go: whether a function's body can complete without     *)
(* returning a value, which widens an inferred return type by undefined.   *)
(***************************************************************************)
EXTENDS KmlStatements

isTrueLiteral(test) == test.c = "true"

stmtHasLabeledBreak(s) == \E t \in Nested(<<s>>) : t.k = "break" /\ t.l # ""

RECURSIVE stmtHasOwnBreak(_)
stmtsHaveOwnBreak(ss) == \E i \in DOMAIN ss : stmtHasOwnBreak(ss[i])

\* A break that targets the statement around s: an unlabeled one not in an
\* inner loop or switch, or any labeled one.
stmtHasOwnBreak(s) ==
    CASE s.k = "break" -> TRUE
      [] s.k \in LoopKinds \cup {"switch"} -> stmtHasLabeledBreak(s)
      [] OTHER -> \E p \in Parts(s) : stmtsHaveOwnBreak(p)

RECURSIVE stmtMayComplete(_)

\* blockMayCompleteNormally: every statement of the block may.
blockMayComplete(ss) == \A i \in DOMAIN ss : stmtMayComplete(ss[i])

\* stmtMayCompleteNormally
stmtMayComplete(s) ==
    CASE s.k \in {"return", "throw"} -> FALSE
      [] s.k = "block" -> blockMayComplete(s.body)
      [] s.k = "label" -> stmtMayComplete(s.s) \/ stmtHasLabeledBreak(s.s)
      [] s.k = "if" -> s.els = <<>> \/ blockMayComplete(s.body) \/ blockMayComplete(s.els)
      [] s.k = "while" -> ~isTrueLiteral(s.test) \/ stmtsHaveOwnBreak(s.body)
      [] s.k = "dowhile" ->
           \/ stmtsHaveOwnBreak(s.body)
           \/ ~isTrueLiteral(s.test) /\ blockMayComplete(s.body)
      [] s.k = "try" ->
           /\ ~s.hasF \/ blockMayComplete(s.f)
           /\ blockMayComplete(s.body) \/ (s.hasC /\ blockMayComplete(s.c))
      [] s.k = "switch" ->
           LET n == Len(s.cases)
               last == s.cases[n].body
           IN  \/ \E i \in 1 .. n : stmtsHaveOwnBreak(s.cases[i].body)
               \/ \A i \in 1 .. n : ~s.cases[i].def
               \/ last = <<>>
               \/ stmtMayComplete(last[Len(last)])
      [] OTHER -> TRUE
=============================================================================

----------------------------- MODULE BinderFlow -----------------------------
(***************************************************************************)
(* The control-flow graph of src/binder: what the binder's resolving pass  *)
(* builds while it walks a function, and the questions asked of it about   *)
(* accesses to x.  b is the binder: nodes its graph, flow its current node *)
(* (0 is unreachableFlow), jumps, pendingLabel and targets its jump, label *)
(* and exceptionTargets state, at its refFlow.                             *)
(***************************************************************************)
EXTENDS KmlStatements, TLC

Node(kind, from) ==
    [f |-> kind, from |-> from, own |-> FALSE, init |-> FALSE, assign |-> FALSE,
     id |-> "", test |-> CondTrue]

\* A new node with one antecedent; nothing follows unreachable code.
follow(b, node) ==
    IF b.flow = 0 THEN b
    ELSE [b EXCEPT !.nodes = Append(@, [node EXCEPT !.from = {b.flow}]),
                   !.flow = Len(b.nodes) + 1]

\* newLabel: a label without antecedents, at Len(b.nodes) + 1.
newLabel(b) == [b EXCEPT !.nodes = Append(@, Node("label", {}))]

addAntecedent(b, label, f) ==
    IF f = 0 THEN b ELSE [b EXCEPT !.nodes[label].from = @ \cup {f}]

finish(b, label) ==
    [b EXCEPT !.flow = IF b.nodes[label].from = {} THEN 0 ELSE label]

join(b, f, g) ==
    LET l == Len(b.nodes) + 1
    IN  finish(addAntecedent(addAntecedent(newLabel(b), l, f), l, g), l)

condition(b, test, truthy) ==
    follow(b, [Node(IF truthy THEN "true" ELSE "false", {}) EXCEPT !.test = test])

switchClause(b) == follow(b, Node("clause", {}))

scopeStartFlow(b, declares) == follow(b, [Node("scope", {}) EXCEPT !.own = declares])

\* A store also reaches every enclosing finally's exception target.
RECURSIVE addAll(_, _, _)
addAll(b, labels, f) ==
    IF labels = <<>> THEN b
    ELSE addAll(addAntecedent(b, Head(labels), f), Tail(labels), f)

assignFlow(b, id, init, assign) ==
    LET b1 == follow(b, [Node("assign", {}) EXCEPT !.init = init, !.assign = assign,
                                                   !.id = id])
    IN  IF b.flow = 0 THEN b ELSE addAll(b1, b1.targets, b1.flow)

unreachable(b) == [b EXCEPT !.flow = 0]

\* An identifier is bound: the flow it is reached with.
access(b, id) == [b EXCEPT !.at = (id :> b.flow) @@ @]

\* A condition's identifiers, bound where it is evaluated.
visitTest(b, test) ==
    IF test.c = "true" THEN b
    ELSE IF test.c = "call" THEN follow(access(b, test.id), Node("call", {}))
    ELSE access(b, test.id)

alwaysTrue(test) == test.c = "true"

\* takeLabel and the push of loopBody; the pop restores the stack.
pushJump(b, breakTo, continueTo) ==
    [b EXCEPT !.jumps = Append(@, [label |-> b.pendingLabel, breakTo |-> breakTo,
                                   continueTo |-> continueTo, breakOnly |-> FALSE]),
              !.pendingLabel = ""]
popJump(b, was) == [b EXCEPT !.jumps = was.jumps]

\* The target of a break or continue with label l, or {}.
jumpTarget(b, l, cont) ==
    LET skipped(t) == \/ l # "" /\ t.label # l
                      \/ l = "" /\ cont /\ t.continueTo = 0
                      \/ l = "" /\ t.breakOnly
        at == {i \in DOMAIN b.jumps : ~skipped(b.jumps[i])}
        t == b.jumps[CHOOSE i \in at : \A j \in at : j <= i]
    IN  IF at = {} \/ (cont /\ t.continueTo = 0) THEN {} ELSE {t}

jumpToNowhere(b, l, cont) == unreachable(b)
jumpTo(b, l, cont) ==
    LET ts == jumpTarget(b, l, cont)
        t == CHOOSE t \in ts : TRUE
    IN  unreachable(IF ts = {} THEN b
                    ELSE addAntecedent(b, IF cont THEN t.continueTo ELSE t.breakTo, b.flow))

-----------------------------------------------------------------------------
RECURSIVE visit(_, _)
RECURSIVE statements(_, _)

\* A block that is a scope of its own.
visitBlock(b, ss) == statements(scopeStartFlow(b, Declares(ss)), ss)

visitIf(b, s) ==
    LET b0 == visitTest(b, s.test)
        b1 == visitBlock(condition(b0, s.test, TRUE), s.body)
        b2 == condition([b1 EXCEPT !.flow = b0.flow], s.test, FALSE)
        b3 == IF s.els = <<>> THEN b2 ELSE visitBlock(b2, s.els)
    IN  join(b3, b1.flow, b3.flow)

\* A label entered with the current flow, which becomes the flow.
loopLabel(b) ==
    LET l == Len(b.nodes) + 1
    IN  [addAntecedent(newLabel(b), l, b.flow) EXCEPT !.flow = l]

\* The exit label takes the failing test, the flow the holding one.
splitTest(b, test, exit) ==
    LET no == condition(b, test, FALSE)
        b1 == IF alwaysTrue(test) THEN b ELSE addAntecedent(no, exit, no.flow)
    IN  condition([b1 EXCEPT !.flow = b.flow], test, TRUE)

visitWhileOnce(b, s) ==
    LET b1 == newLabel(visitTest(loopLabel(b), s.test))
        exit == Len(b1.nodes)
        b2 == pushJump(splitTest(b1, s.test, exit), exit, Len(b.nodes) + 1)
    IN  finish(popJump(visitBlock(b2, s.body), b), exit)
visitWhile(b, s) ==
    LET loop == Len(b.nodes) + 1
        b1 == newLabel(visitTest(loopLabel(b), s.test))
        exit == Len(b1.nodes)
        b2 == pushJump(splitTest(b1, s.test, exit), exit, loop)
        b3 == popJump(visitBlock(b2, s.body), b)
    IN  finish(addAntecedent(b3, loop, b3.flow), exit)

visitDoWhile(b, s) ==
    LET loop == Len(b.nodes) + 1
        exit == loop + 1
        cont == loop + 2
        b1 == pushJump(newLabel(newLabel(loopLabel(b))), exit, cont)
        b2 == popJump(visitBlock(b1, s.body), b)
        b3 == visitTest(finish(addAntecedent(b2, cont, b2.flow), cont), s.test)
        b4 == splitTest(b3, s.test, exit)
    IN  finish(addAntecedent(b4, loop, b4.flow), exit)

visitFor(b, s) ==
    LET b0 == scopeStartFlow(b, FALSE)
        loop == Len(b0.nodes) + 1
        b1 == newLabel(newLabel(visitTest(loopLabel(b0), s.test)))
        exit == Len(b1.nodes) - 1
        cont == Len(b1.nodes)
        b2 == pushJump(splitTest(b1, s.test, exit), exit, cont)
        b3 == popJump(visitBlock(b2, s.body), b)
        b4 == finish(addAntecedent(b3, cont, b3.flow), cont)
        b5 == follow(access(b4, s.update), Node("call", {}))
    IN  finish(addAntecedent(b5, loop, b5.flow), exit)

\* The exit label's antecedent is the loop label: the iterable may be empty.
visitForOf(b, s) ==
    LET loop == Len(b.nodes) + 1
        exit == loop + 1
        b1 == addAntecedent(newLabel(loopLabel(b)), exit, loop)
        b2 == pushJump(scopeStartFlow(b1, FALSE), exit, loop)
        b3 == popJump(visitBlock(b2, s.body), b)
    IN  finish(addAntecedent(b3, loop, b3.flow), exit)

\* A label on a loop is handed to it; on anything else only a break targets it.
visitLabeled(b, s) ==
    IF s.s.k \in LoopKinds THEN visit([b EXCEPT !.pendingLabel = s.l], s.s)
    ELSE LET exit == Len(b.nodes) + 1
             b1 == [newLabel(b) EXCEPT !.jumps =
                      Append(@, [label |-> s.l, breakTo |-> exit, continueTo |-> 0,
                                 breakOnly |-> TRUE])]
             b2 == popJump(visit(b1, s.s), b)
         IN  finish(addAntecedent(b2, exit, b2.flow), exit)

\* Each case is entered by its test matching or from the case before it.
visitSwitch(b, s) ==
    LET b0 == newLabel(scopeStartFlow(b, SwitchDeclares(s)))
        exit == Len(b0.nodes)
        pre == b0.flow
        clause(f) == switchClause([f EXCEPT !.flow = pre])
        case[i \in 0 .. Len(s.cases)] ==
            IF i = 0 THEN [pushJump(b0, exit, 0) EXCEPT !.flow = 0]
            ELSE LET before == case[i - 1]
                     matched == clause(before)
                     entered == join(matched, matched.flow, before.flow)
                     tested == IF s.cases[i].def THEN entered
                               ELSE visitTest(entered, s.cases[i].test)
                 IN  statements(tested, s.cases[i].body)
        last == popJump(case[Len(s.cases)], b)
        fell == addAntecedent(last, exit, last.flow)
        none == clause(fell)
        noDefault == \A i \in DOMAIN s.cases : ~s.cases[i].def
    IN  finish(IF noDefault THEN addAntecedent(none, exit, none.flow) ELSE fell, exit)

\* A catch is entered from the flow before the try; a finally from what the
\* two complete with, or, when neither completes, from any store in them.
visitTry(b, s) ==
    LET pre == b.flow
        exc == Len(b.nodes) + 1
        b0 == IF ~s.hasF THEN b
              ELSE [addAntecedent(newLabel(b), exc, pre) EXCEPT
                      !.targets = Append(@, exc)]
        b1 == visitBlock(b0, s.body)
        c1 == statements(scopeStartFlow([b1 EXCEPT !.flow = pre], Declares(s.c)), s.c)
        b2 == IF s.hasC THEN join(c1, b1.flow, c1.flow) ELSE b1
        b3 == [b2 EXCEPT !.targets = b.targets]
    IN  CASE ~s.hasF -> b3
          [] s.hasF /\ b3.flow = 0 -> unreachable(visitBlock(finish(b3, exc), s.f))
          [] OTHER -> visitBlock(b3, s.f)

visit(b, s) ==
    CASE s.k = "op" -> follow(access(b, s.id), Node("call", {}))
      [] s.k = "read" -> access(b, s.id)
      [] s.k = "assign" -> assignFlow(access(b, s.id), s.id, FALSE, TRUE)
      [] s.k = "decl" -> assignFlow(b, s.id, TRUE, s.init)
      [] s.k \in {"return", "throw"} -> unreachable(b)
      [] s.k = "break" -> jumpTo(b, s.l, FALSE)
      [] s.k = "continue" -> jumpTo(b, s.l, TRUE)
      [] s.k = "block" -> visitBlock(b, s.body)
      [] s.k = "if" -> visitIf(b, s)
      [] s.k = "while" -> visitWhile(b, s)
      [] s.k = "dowhile" -> visitDoWhile(b, s)
      [] s.k = "for" -> visitFor(b, s)
      [] s.k = "forof" -> visitForOf(b, s)
      [] s.k = "label" -> visitLabeled(b, s)
      [] s.k = "switch" -> visitSwitch(b, s)
      [] s.k = "try" -> visitTry(b, s)

statements(b, ss) ==
    IF ss = <<>> THEN b ELSE statements(visit(b, Head(ss)), Tail(ss))

\* A function's body, from its start node.
bindBody(body) ==
    statements([nodes |-> <<Node("start", {})>>, flow |-> 1, jumps |-> <<>>,
                pendingLabel |-> "", targets |-> <<>>, at |-> <<>>], body)

-----------------------------------------------------------------------------
(* Questions.  A walk from the nodes todo backwards stops at the nodes of   *)
(* stops; its ends are the ones it stopped at.                              *)

RECURSIVE walkBack(_, _, _, _)
walkBack(b, todo, seen, stops) ==
    IF todo \subseteq seen THEN seen \cap stops
    ELSE LET new == todo \ seen
         IN  walkBack(b, UNION {b.nodes[n].from : n \in new \ stops}, seen \cup new, stops)

\* The start of x's scope: nothing on the path set x.
Missed(n) == n.f = "start" \/ (n.f = "scope" /\ n.own)

InitsStored(n) == Missed(n) \/ (n.f = "assign" /\ n.assign)
Inits(n) == Missed(n) \/ (n.f = "assign" /\ n.init)
Assigns(n) == Missed(n) \/ (n.f = "assign" /\ n.assign)

\* The ends of the walk from the flow of access id.
EndsOf(b, id, Stop(_)) ==
    LET stops == {n \in DOMAIN b.nodes : Stop(b.nodes[n])}
    IN  {b.nodes[n] : n \in walkBack(b, {b.at[id]} \ {0}, {}, stops)}

\* FlowDiagnostics: an access no path reaches after the declaration has run.
UsedBeforeDeclaration(b, id) ==
    LET ends == EndsOf(b, id, Inits)
    IN  ends # {} /\ \A n \in ends : Missed(n)

\* A typed let without an initializer: no store of undefined type-checks.
trackedForAssignment(body) ==
    /\ \A s \in Nested(body) : s.k = "decl" => ~s.init
    /\ \A s \in Nested(body) : s.k = "assign" => ~s.undef

DefinitelyAssigned(b, body, id) ==
    LET ends == EndsOf(b, id, Assigns)
    IN  trackedForAssignment(body) /\ ends # {} /\ \A n \in ends : ~Missed(n)

\* The nearest stores on every path, or {} when a path has none.
ReachingStores(b, id) ==
    LET ends == EndsOf(b, id, Assigns)
    IN  IF \A n \in ends : ~Missed(n) THEN {n.id : n \in ends} ELSE {}

excludesUndefined(n) ==
    \/ n.f = "true" /\ n.test.c = "present"
    \/ n.f = "false" /\ n.test.c = "absent"

GuardsPastStores(n) == Missed(n) \/ excludesUndefined(n)
Guards(n) == Missed(n) \/ n.f = "assign" \/ excludesUndefined(n)

\* The walk of GuardedSinceStore starts at any access, reachable or not.
GuardedSinceStore(b, id) == \A n \in EndsOf(b, id, Guards) : excludesUndefined(n)

\* What the binder says of a function: of each access, and of its end.
BindFunction(body) ==
    LET b == bindBody(body)
    IN  [unreachable |-> {id \in DOMAIN b.at : b.at[id] = 0},
         undeclared |-> {id \in DOMAIN b.at : UsedBeforeDeclaration(b, id)},
         assigned |-> {id \in DOMAIN b.at : DefinitelyAssigned(b, body, id)},
         stores |-> [id \in DOMAIN b.at |-> ReachingStores(b, id)],
         guarded |-> {id \in DOMAIN b.at : GuardedSinceStore(b, id)},
         endReachable |-> b.flow # 0]
=============================================================================

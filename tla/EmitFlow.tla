------------------------------ MODULE EmitFlow ------------------------------
(***************************************************************************)
(* The emitter of src/codegen/llvm as far as control flow goes: the        *)
(* instructions a function body becomes.  e is the Emitter: code its body, *)
(* done its blockDone, lab and reg its label and register counters, and    *)
(* the stacks of funcContext.  pendingFinallys is modelled as the Go slice *)
(* it is, pf = [a, n] into the arrays of heap, because an append to a      *)
(* shorter slice of the same array overwrites what the longer one holds.   *)
(* depth is len(scopes), x the slot x names in them, frees pendingFrees.   *)
(***************************************************************************)
EXTENDS KmlStatements, SequencesExt

Emitter0 == [code |-> <<>>, done |-> FALSE, lab |-> 0, reg |-> 0,
             pf |-> [a |-> 0, n |-> 0], heap |-> <<>>,
             brk |-> <<>>, cont |-> <<>>, named |-> <<>>, pendingLabel |-> "",
             caught |-> 0, err |-> FALSE,
             depth |-> 1, x |-> 0, frees |-> <<>>, plan |-> <<>>]

emitInstr(e, i) == IF e.done THEN e ELSE [e EXCEPT !.code = Append(@, i)]

emitTerminator(e, i) ==
    IF e.done THEN e ELSE [e EXCEPT !.code = Append(@, i), !.done = TRUE]

emitLabel(e, l) ==
    [e EXCEPT !.code = Append(@, [op |-> "label", l |-> l]), !.done = FALSE]

Br(e, l) == emitTerminator(e, [op |-> "br", l |-> l])

\* An access to x where no scope holds it yet: "undefined variable".
resolved(e) == IF e.x = 0 THEN [e EXCEPT !.err = TRUE] ELSE e

\* A conditional branch on condition c.
CondBr(e, c, yes, no) ==
    emitTerminator(IF c.c \in {"present", "absent"} THEN resolved(e) ELSE e, [op |-> "cond", c |-> c, x |-> e.x, yes |-> yes, no |-> no])

\* n fresh labels are e.lab + 1 .. e.lab + n; a fresh register is e.reg + 1.
freshLabels(e, n) == [e EXCEPT !.lab = @ + n]
freshReg(e) == [e EXCEPT !.reg = @ + 1]

\* Opens a catch frame: a throw lands on catchL, execution goes on at tryL.
excEnter(e, catchL, tryL) ==
    Br(emitInstr(e, [op |-> "push", l |-> catchL]), tryL)

excLeaveForgets(e) == e
excLeave(e) == emitInstr(e, [op |-> "pop"])

-----------------------------------------------------------------------------
(* The stack of pending exits, a Go slice. *)

NoExit == [pop |-> FALSE, body |-> <<>>]

cap(e) == IF e.pf.a = 0 THEN 0 ELSE Len(e.heap[e.pf.a])

\* append(e.pendingFinallys, x): in place while the array has room, else in a
\* new array of twice the capacity.
pushFinally(e, x) ==
    IF e.pf.n < cap(e)
    THEN [e EXCEPT !.heap[e.pf.a][e.pf.n + 1] = x, !.pf.n = @ + 1]
    ELSE LET n == e.pf.n
             size == IF n = 0 THEN 1 ELSE 2 * n
             grown == [i \in 1 .. size |->
                          CASE i <= n -> e.heap[e.pf.a][i]
                            [] i = n + 1 -> x
                            [] OTHER -> NoExit]
         IN [e EXCEPT !.heap = Append(@, grown),
                      !.pf = [a |-> Len(e.heap) + 1, n |-> n + 1]]

popFinally(e) == [e EXCEPT !.pf.n = @ - 1]

-----------------------------------------------------------------------------
(* Scopes, and what is freed where they are left: escape_check.go plans the *)
(* declarations whose value stays in its block, emit_autofree.go frees it.  *)

pushScope(e) == [e EXCEPT !.depth = @ + 1]
popScope(e, was) == [e EXCEPT !.depth = was.depth, !.x = was.x]

\* lastUseStmt: the last of the statements ss that mentions x, or none when
\* that one is a try or an exit.
lastUseStmt(ss) ==
    LET uses == {i \in DOMAIN ss : Mentions(<<ss[i]>>)}
        last == ss[CHOOSE i \in uses : \A j \in uses : j <= i]
    IN  IF uses = {} \/ last.k \in {"try", "return", "break", "continue", "throw"}
        THEN <<>> ELSE <<last>>

\* analyzeDecl, of the declaration at ss[i]: every later store is of a fresh
\* value (with @owned there is none), and nothing before it names x.
plannedAt(ss, i) ==
    LET after == SubSeq(ss, i + 1, Len(ss))
        stores == {s \in Nested(after) : s.k = "assign"}
    IN  /\ ss[i].k = "decl" /\ ss[i].init
        /\ ~Mentions(SubSeq(ss, 1, i - 1))
        /\ \A s \in stores : ~s.undef /\ ~ss[i].owned

\* planAutoFrees: the declarations planned in the lists of a program, by
\* identity, each with its last use.
planAutoFrees(body) ==
    LET lists == {body} \cup UNION {Parts(s) : s \in Nested(body)}
        at(ss) == {i \in DOMAIN ss : plannedAt(ss, i)}
        last(ss, i) == IF ss[i].owned THEN lastUseStmt(SubSeq(ss, i + 1, Len(ss)))
                                      ELSE <<>>
        planned == UNION {{[id |-> ss[i].id, lastUse |-> last(ss, i)] : i \in at(ss)} :
                            ss \in lists}
    IN  [id \in {d.id : d \in planned} |->
            (CHOOSE d \in planned : d.id = id).lastUse]

\* A declaration: a slot of its own, and what it owes if it is planned.
maybeRegisterAutoFree(e, s) ==
    IF s.id \notin DOMAIN e.plan THEN e
    ELSE [e EXCEPT !.frees = Append(@, [depth |-> e.depth, slot |-> e.x, emitted |-> FALSE,
                                        lastUse |-> e.plan[s.id]])]

emitDecl(e, s) ==
    LET slot == e.reg + 1
        e1 == emitInstr(freshReg(e), [op |-> "decl", id |-> s.id, x |-> slot,
                                     owes |-> s.id \in DOMAIN e.plan])
    IN  maybeRegisterAutoFree([e1 EXCEPT !.x = slot], s)

freePending(e, pf) == emitInstr(e, [op |-> "free", x |-> pf.slot])

\* `x = v`, v evaluated: what x holds is freed before the store, if x is the
\* binding a planned declaration made and its frees are not behind it.
maybeFreeOnRebind(e) ==
    LET owes == SelectSeq(e.frees, LAMBDA pf : pf.slot = e.x /\ ~pf.emitted)
    IN  IF owes = <<>> THEN e
        ELSE emitInstr(freePending(e, Head(owes)), [op |-> "set", x |-> e.x])

emitAssign(e, s) ==
    maybeFreeOnRebind(emitInstr(resolved(e), [op |-> "assign", id |-> s.id, x |-> e.x]))

\* The obligations due are freed, first to last.
RECURSIVE freeFirst(_, _)
freeFirst(e, due) ==
    IF due = <<>> THEN e ELSE freeFirst(freePending(e, Head(due)), Tail(due))

emitFreesAbove(e, minDepth) ==
    freeFirst(e, Reverse(SelectSeq(e.frees, LAMBDA pf : pf.depth > minDepth /\ ~pf.emitted)))

emitFreesAtScopeExit(e, depth) ==
    [freeFirst(e, SelectSeq(e.frees, LAMBDA pf : pf.depth = depth /\ ~pf.emitted)) EXCEPT
        !.frees = SelectSeq(@, LAMBDA pf : pf.depth # depth)]

emitOwnedFreesAfter(e, s) ==
    LET due(pf) == ~pf.emitted /\ pf.lastUse = <<s>>
    IN  [freeFirst(e, SelectSeq(e.frees, due)) EXCEPT
            !.frees = [i \in DOMAIN @ |-> [@[i] EXCEPT !.emitted = @ \/ due(e.frees[i])]]]

-----------------------------------------------------------------------------
(* Break and continue targets, with the depths of pending exits and scopes  *)
(* at entry.                                                                *)

pushBreakTarget(e, l) ==
    [e EXCEPT !.brk = Append(@, [l |-> l, depth |-> e.pf.n, free |-> e.depth])]

pushContinueTarget(e, l) ==
    [e EXCEPT !.cont = Append(@, [l |-> l, depth |-> e.pf.n, free |-> e.depth])]

pushPendingLabel(e, breakL, continueL) ==
    IF e.pendingLabel = "" THEN e
    ELSE [e EXCEPT !.named = Append(@, [name |-> e.pendingLabel, breakL |-> breakL,
                                        continueL |-> continueL, depth |-> e.pf.n,
                                        free |-> e.depth]),
                   !.pendingLabel = ""]

\* The three targets of a loop, and leaving it: the stacks are as they were.
pushTargets(e, breakL, continueL) ==
    pushPendingLabel(pushContinueTarget(pushBreakTarget(e, breakL), continueL),
                     breakL, continueL)
popTargets(e, was) ==
    [e EXCEPT !.brk = was.brk, !.cont = was.cont, !.named = was.named]

\* The innermost entry of the label stack with that name, or none.
lookupNamedLabel(e, name) ==
    LET at == {i \in DOMAIN e.named : e.named[i].name = name}
    IN  IF at = {} THEN [name |-> "", breakL |-> 0, continueL |-> 0, depth |-> 0, free |-> 0]
        ELSE e.named[CHOOSE i \in at : \A j \in at : j <= i]

-----------------------------------------------------------------------------
RECURSIVE emitStmt(_, _)
RECURSIVE emitStmts(_, _)
RECURSIVE finallysFrom(_, _, _, _)

\* Statements in a scope whose end frees nothing.
emitScoped(e, ss) == popScope(emitStmts(pushScope(e), ss), e)

\* A block: its own frees fall due at its end.
RECURSIVE emitList(_, _)
emitBlock(e, ss) ==
    popScope(emitFreesAtScopeExit(emitList(pushScope(e), ss), e.depth + 1), e)

\* The pending exits saved[i], saved[i - 1], .. saved[depth] (0-based): each
\* with the stack narrowed to the ones outside it, and none once the block is
\* done.
finallysFrom(e, saved, i, depth) ==
    IF i < depth \/ e.done THEN e
    ELSE LET x == e.heap[saved.a][i + 1]
             e1 == [e EXCEPT !.pf = [saved EXCEPT !.n = i]]
             e2 == IF x.pop THEN excLeave(e1) ELSE e1
             e3 == popScope(emitStmts(pushScope(e2), x.body), e)
         IN  IF i = 0 THEN e3 ELSE finallysFrom(e3, saved, i - 1, depth)

emitFinallysToDepth(e, depth) ==
    IF e.pf.n = 0 THEN e
    ELSE [finallysFrom(e, e.pf, e.pf.n - 1, depth) EXCEPT !.pf = e.pf]

emitPendingFinallys(e) == emitFinallysToDepth(e, 0)

\* emitReturnCleanups: the finallys, then the frees.
emitReturnAtOnce(e, s) ==
    emitTerminator(emitFreesAbove(e, 0), [op |-> "ret", v |-> s.id])
emitReturnFreesFirst(e, s) ==
    emitTerminator(emitPendingFinallys(emitFreesAbove(e, 0)), [op |-> "ret", v |-> s.id])
emitReturn(e, s) ==
    emitTerminator(emitFreesAbove(emitPendingFinallys(e), 0), [op |-> "ret", v |-> s.id])

emitThrow(e, s) ==
    IF s.k = "rethrow" THEN emitTerminator(e, [op |-> "rethrow", s |-> e.caught])
    ELSE emitTerminator(e, [op |-> "throw", v |-> s.id])

\* A jump to the target t, a record with the depths, at label l.
jumpPopsTwice(e, t, l) ==
    Br(excLeave(emitFreesAbove(emitFinallysToDepth(e, t.depth), t.free)), l)
jumpKeeps(e, t, l) == Br(emitFinallysToDepth(e, t.depth), l)
jump(e, t, l) == Br(emitFreesAbove(emitFinallysToDepth(e, t.depth), t.free), l)

emitBreak(e, s) ==
    LET t == lookupNamedLabel(e, s.l)
    IN  CASE s.l # "" /\ t.name = "" -> [e EXCEPT !.err = TRUE]
          [] s.l # "" /\ t.name # "" -> jump(e, t, t.breakL)
          [] s.l = "" /\ e.brk = <<>> -> [e EXCEPT !.err = TRUE]
          [] OTHER -> jump(e, e.brk[Len(e.brk)], e.brk[Len(e.brk)].l)

emitContinue(e, s) ==
    LET t == lookupNamedLabel(e, s.l)
    IN  CASE s.l # "" /\ t.name = "" -> [e EXCEPT !.err = TRUE]
          [] s.l # "" /\ t.name # "" -> jump(e, t, t.continueL)
          [] s.l = "" /\ e.cont = <<>> -> [e EXCEPT !.err = TRUE]
          [] OTHER -> jump(e, e.cont[Len(e.cont)], e.cont[Len(e.cont)].l)

emitIf(e, s) ==
    LET thenL == e.lab + 1
        endL == e.lab + 2
        elseL == IF s.els = <<>> THEN endL ELSE e.lab + 3
        e1 == CondBr(freshLabels(e, 3), s.test, thenL, elseL)
        e2 == Br(emitStmt(emitLabel(e1, thenL), Block(s.body)), endL)
        e3 == IF s.els = <<>> THEN e2
              ELSE Br(emitStmt(emitLabel(e2, elseL), Block(s.els)), endL)
    IN  emitLabel(e3, endL)

emitWhile(e, s) ==
    LET condL == e.lab + 1
        bodyL == e.lab + 2
        endL == e.lab + 3
        e1 == pushTargets(freshLabels(e, 3), endL, condL)
        e2 == CondBr(emitLabel(Br(e1, condL), condL), s.test, bodyL, endL)
        e3 == Br(emitStmt(emitLabel(e2, bodyL), Block(s.body)), condL)
    IN  popTargets(emitLabel(e3, endL), e)

emitDoWhile(e, s) ==
    LET bodyL == e.lab + 1
        condL == e.lab + 2
        endL == e.lab + 3
        e1 == pushTargets(freshLabels(e, 3), endL, condL)
        e2 == emitStmt(emitLabel(Br(e1, bodyL), bodyL), Block(s.body))
        e3 == CondBr(emitLabel(Br(e2, condL), condL), s.test, bodyL, endL)
    IN  popTargets(emitLabel(e3, endL), e)

emitFor(e, s) ==
    LET condL == e.lab + 1
        bodyL == e.lab + 2
        incL == e.lab + 3
        endL == e.lab + 4
        e1 == pushTargets(freshLabels(e, 4), endL, incL)
        e2 == CondBr(emitLabel(Br(e1, condL), condL), s.test, bodyL, endL)
        e3 == Br(emitStmt(emitLabel(e2, bodyL), Block(s.body)), incL)
        e4 == emitInstr(emitLabel(e3, incL), [op |-> "op", id |-> s.update])
    IN  popTargets(emitLabel(Br(e4, condL), endL), e)

\* The comparisons in order, then the bodies in order, each falling into the
\* next one.
emitSwitch(e, s) ==
    LET n == Len(s.cases)
        endL == e.lab + 1
        bodyL(i) == IF i > n THEN endL ELSE e.lab + 1 + i
        cmpL(i) == e.lab + 1 + n + i
        defaults == {i \in 1 .. n : s.cases[i].def}
        missL == IF defaults = {} THEN endL ELSE bodyL(CHOOSE i \in defaults : TRUE)
        later(i) == {j \in 1 .. n : j > i /\ ~s.cases[j].def}
        nextCmp(i) == IF later(i) = {} THEN missL
                      ELSE cmpL(CHOOSE j \in later(i) : \A m \in later(i) : j <= m)
        compare[i \in 0 .. n] ==
            IF i = 0 THEN Br(pushBreakTarget(freshLabels(e, 1 + 2 * n), endL), nextCmp(0))
            ELSE IF s.cases[i].def THEN compare[i - 1]
            ELSE CondBr(emitLabel(compare[i - 1], cmpL(i)), s.cases[i].test,
                        bodyL(i), nextCmp(i))
        bodies[i \in 0 .. n] ==
            IF i = 0 THEN compare[n]
            ELSE Br(emitScoped(emitLabel(bodies[i - 1], bodyL(i)), s.cases[i].body),
                    bodyL(i + 1))
    IN  popTargets(emitLabel(bodies[n], endL), e)

\* The statement a label decorates consumes it only when it is a loop.
emitLabeled(e, s) ==
    [emitStmt([e EXCEPT !.pendingLabel = s.l], s.s) EXCEPT !.pendingLabel = ""]

-----------------------------------------------------------------------------
(* try / catch / finally *)

\* A catch clause: the thrown value into a slot of its own, then the body.
emitCatchBody(e, s) ==
    LET slot == e.reg + 1
        e1 == emitInstr(freshReg(e), [op |-> "bind", s |-> slot])
        e2 == IF s.user THEN emitInstr(e1, [op |-> "catch", s |-> slot]) ELSE e1
    IN  [emitScoped([e2 EXCEPT !.caught = slot], s.c) EXCEPT !.caught = e.caught]

emitTry(e, s) ==
    LET tryL == e.lab + 1
        catchL == e.lab + 2
        afterL == e.lab + 3
        runL == e.lab + 4
        threwL == e.lab + 5
        rethrowL == e.lab + 6
        doneL == e.lab + 7
        slot == e.reg + 1
        exit == [pop |-> TRUE, body |-> s.f]
        Pending(f) == emitInstr(f, [op |-> "pend", s |-> slot])
        \* the try body, under its handler
        e0 == freshReg(freshLabels(e, 7))
        e1 == IF s.hasF THEN emitInstr(e0, [op |-> "nopend", s |-> slot]) ELSE e0
        e2 == emitLabel(pushFinally(excEnter(e1, catchL, tryL), exit), tryL)
        e3 == Br(excLeave(popFinally(emitScoped(e2, s.body))), afterL)
        \* the handler: the catch, under a handler of its own with a finally
        h0 == emitLabel(e3, catchL)
        h1 == IF s.hasF
              THEN pushFinally(Br(Pending(emitLabel(excEnter(h0, threwL, runL), threwL)),
                                  afterL), exit)
              ELSE Br(h0, runL)
        h2 == emitCatchBody(emitLabel(h1, runL), s)
        h3 == IF s.hasF THEN excLeave(popFinally(h2)) ELSE h2
        h4 == CASE s.hasC -> h3
                [] ~s.hasC /\ s.hasF -> Pending(h0)
                [] OTHER -> h0
        \* after: the finally, then a pending exception again
        a0 == emitLabel(Br(h4, afterL), afterL)
        a1 == emitScoped(a0, s.f)
        a2 == emitTerminator(a1, [op |-> "ifpend", s |-> slot,
                                  yes |-> rethrowL, no |-> doneL])
        a3 == emitTerminator(emitLabel(a2, rethrowL), [op |-> "rethrow", s |-> slot])
    IN  IF ~s.hasF THEN a0
        ELSE IF a1.done THEN a1
        ELSE emitLabel(a3, doneL)

-----------------------------------------------------------------------------
(* for ... of *)

\* The body of a loop over any, wrapped so that a throw out of it closes the
\* iterator: try { body } catch (e) { try { close } catch {} throw e }.
throwClosesIterator(s) ==
    LET synthetic(body, c) == [Try(body, TRUE, c, FALSE, <<>>) EXCEPT !.user = FALSE]
        quiet == synthetic(<<Op(s.close)>>, <<>>)
    IN  synthetic(s.body, <<quiet, [k |-> "rethrow"]>>)

\* The loop's blocks, once its targets and its pending close are in place.
forOfBlocks(e, s, body, condL, bodyL, incL, endL) ==
    LET e1 == CondBr(emitLabel(Br(e, condL), condL), s.test, bodyL, endL)
        e2 == Br(emitStmt(emitLabel(e1, bodyL), Block(body)), incL)
    IN  emitLabel(Br(emitLabel(e2, incL), condL), endL)

\* Over a generator: the close is pending before the targets record their
\* depth, and runs at the loop's end too, where it does nothing to a generator
\* that is done.
emitForOfGenerator(e, s) ==
    LET condL == e.lab + 1
        bodyL == e.lab + 2
        incL == e.lab + 3
        endL == e.lab + 4
        slot == e.reg + 1
        close == [pop |-> FALSE, body |-> <<Op(s.close)>>]
        e1 == emitInstr(freshReg(freshLabels(e, 4)), [op |-> "open", s |-> slot])
        e2 == pushTargets(pushFinally(e1, close), endL, incL)
        test == [s.test EXCEPT !.c = "next"] @@ [s |-> slot]
        e3 == forOfBlocks(e2, [s EXCEPT !.test = test], s.body, condL, bodyL, incL, endL)
        e4 == emitInstr(e3, [op |-> "close", s |-> slot, id |-> s.close])
    IN  popFinally(popTargets(e4, e))

\* Over any: the targets record their depth before the close is pending.
emitForOfAny(e, s) ==
    LET condL == e.lab + 1
        bodyL == e.lab + 2
        incL == e.lab + 3
        endL == e.lab + 4
        close == [pop |-> FALSE, body |-> <<Op(s.close)>>]
        e1 == pushTargets(freshLabels(e, 4), endL, incL)
        e2 == forOfBlocks(pushFinally(e1, close), s, <<throwClosesIterator(s)>>,
                          condL, bodyL, incL, endL)
    IN  popTargets(popFinally(e2), e)

emitForOf(e, s) ==
    IF s.over = "gen" THEN emitForOfGenerator(e, s) ELSE emitForOfAny(e, s)

-----------------------------------------------------------------------------
\* A statement after a terminator opens a block of its own.
emitStmt(e0, s) ==
    LET e == IF e0.done THEN emitLabel(freshLabels(e0, 1), e0.lab + 1) ELSE e0
    IN  CASE s.k = "op" -> emitInstr(e, [op |-> "op", id |-> s.id])
          [] s.k = "read" -> emitInstr(resolved(e), [op |-> "read", id |-> s.id, x |-> e.x])
          [] s.k = "assign" -> emitAssign(e, s)
          [] s.k = "decl" -> emitDecl(e, s)
          [] s.k = "block" -> emitBlock(e, s.body)
          [] s.k = "return" -> emitReturn(e, s)
          [] s.k \in {"throw", "rethrow"} -> emitThrow(e, s)
          [] s.k = "break" -> emitBreak(e, s)
          [] s.k = "continue" -> emitContinue(e, s)
          [] s.k = "if" -> emitIf(e, s)
          [] s.k = "while" -> emitWhile(e, s)
          [] s.k = "dowhile" -> emitDoWhile(e, s)
          [] s.k = "for" -> emitFor(e, s)
          [] s.k = "forof" -> emitForOf(e, s)
          [] s.k = "label" -> emitLabeled(e, s)
          [] s.k = "switch" -> emitSwitch(e, s)
          [] s.k = "try" -> emitTry(e, s)

emitStmts(e, ss) ==
    IF ss = <<>> THEN e ELSE emitStmts(emitStmt(e, Head(ss)), Tail(ss))

\* The statement list of a block or a function.
emitList(e, ss) ==
    IF ss = <<>> THEN e
    ELSE emitList(emitOwnedFreesAfter(emitStmt(e, Head(ss)), Head(ss)), Tail(ss))

\* A function's body, ending in the return of undefined where it falls off.
emitFunction(body) ==
    LET e == emitList([Emitter0 EXCEPT !.plan = planAutoFrees(body)], body)
    IN  emitTerminator(emitFreesAbove(e, 0), [op |-> "ret", v |-> ""])
=============================================================================

--------------------------- MODULE FlowPrograms ---------------------------
(***************************************************************************)
(* The programs CompiledRun is checked on: families of function bodies in  *)
(* which every slot ranges over the statements that are legal there.  A    *)
(* family is a sequence, so that a program is named by its index.          *)
(***************************************************************************)
EXTENDS CompiledFunction

\* All ways to extend a tuple of a by an element of b.
Extend(a, b) ==
    LET n == Len(a)
        m == Len(b)
    IN  [i \in 1 .. n * m |->
            Append(a[1 + ((i - 1) \div m)], b[1 + ((i - 1) % m)])] \o <<>>

\* The products of two, three, four sequences.
Pairs(a, b) == Extend(Extend(<<<<>>>>, a), b)
Triples(a, b, c) == Extend(Pairs(a, b), c)
Quads(a, b, c, d) == Extend(Triples(a, b, c), d)

Map(seq, F(_)) == [i \in DOMAIN seq |-> F(seq[i])] \o <<>>

\* The ways to go on from a slot: with a call, or by leaving.
Leave(id) == <<Op(id), Return(id), Throw(id)>>
LeaveLoop(id) == Leave(id) \o <<Break(""), Continue("")>>
LeaveNested(id) == LeaveLoop(id) \o <<Break("L"), Continue("L")>>

\* try { if (c) e1; e2 } catch { e3 } finally { e4 }, the catch or the
\* finally left out.
Body(e) == <<If(Cond("c"), <<e[1]>>, <<>>), e[2]>>
TryCatchFinally(e) == Try(Body(e), TRUE, <<e[3]>>, TRUE, <<e[4]>>)
TryCatch(e) == Try(Body(e), TRUE, <<e[3]>>, FALSE, <<>>)
TryFinally(e) == Try(Body(e), FALSE, <<>>, TRUE, <<e[3]>>)

TriesOf(E(_)) ==
    Map(Quads(E("t1"), E("t2"), E("t3"), E("t4")), TryCatchFinally)
      \o Map(Triples(E("t1"), E("t2"), E("t3")), TryCatch)
      \o Map(Triples(E("t1"), E("t2"), E("t3")), TryFinally)

\* A try in a function, a loop, nested loops the outer of which is labelled.
Plain(t) == <<t, Op("z")>>
InWhile(t) == <<While(Cond("w"), <<t, Op("y")>>), Op("z")>>
InNested(t) == <<Label("L", While(Cond("w"), <<For(Cond("v"), "u", <<t>>), Op("y")>>)),
                 Op("z")>>

Control ==
    Map(TriesOf(Leave), Plain) \o Map(TriesOf(LeaveLoop), InWhile)
      \o Map(TriesOf(LeaveNested), InNested)

-----------------------------------------------------------------------------
(* Statements in statements: a family is a product and what it fills. *)

\* What a finally may hold whose try is left from inside an inner loop.
LeaveLabelled(id) == Leave(id) \o <<Break("L"), Continue("L")>>

\* L: while (w) { s; y } z
Outer(s) == <<Label("L", While(Cond("w"), <<s, Op("y")>>)), Op("z")>>

\* A try in a try, in a loop.
Tried(e) ==
    Outer(Try(<<Try(<<e[1], Op("i")>>, TRUE, <<e[2]>>, TRUE, <<e[3]>>)>>,
              FALSE, <<>>, TRUE, <<e[4]>>))

\* A loop in a try: its exits run the finally.
LoopTried(e) ==
    Outer(Try(<<DoWhile(Cond("v"), <<If(Cond("c"), <<e[1]>>, <<>>), e[2]>>), Op("a")>>,
              FALSE, <<>>, TRUE, <<e[3]>>))

\* A loop that only a jump leaves.
Forever(e) ==
    Outer(While(CondTrue, <<If(Cond("c"), <<e[1]>>, <<>>), e[2]>>))

\* A loop in a finally.
LoopInFinally(e) ==
    Outer(Try(<<e[1]>>, TRUE, <<e[2]>>, TRUE, <<While(Cond("v"), <<e[3]>>), Op("b")>>))

\* A try in a finally that one exit runs.
TryInFinally(e) ==
    Outer(Try(<<e[1]>>, FALSE, <<>>, TRUE,
              <<Try(<<Op("a")>>, TRUE, <<e[2]>>, FALSE, <<>>), Op("b")>>))

\* A switch whose default is in the middle, with a try in its last case.
Switched(e) ==
    Outer(Switch(<<Case(Cond("k1"), <<e[1]>>), Default(<<e[2]>>),
                   Case(Cond("k2"), <<Try(<<e[3]>>, FALSE, <<>>, TRUE, <<e[4]>>)>>)>>))

\* A for-of over a generator, whose body catches what it throws.
Quiet(id) == <<Decl(id, TRUE), Return(id), Break(""), Continue(""), Break("L"), Continue("L")>>
Generated(e) ==
    Outer(Try(<<ForOf("gen", Cond("n"), "close",
                      <<Try(<<e[1]>>, TRUE, <<e[2]>>, FALSE, <<>>)>>)>>,
              FALSE, <<>>, TRUE, <<e[3]>>))

\* A for-of over any, left in any way but by its own continue.
LeaveForOf(id) == Leave(id) \o <<Break(""), Break("L"), Continue("L")>>
OverAny(e) ==
    Outer(ForOf("any", Cond("n"), "close",
                <<If(Cond("c"), <<e[1]>>, <<>>),
                  Try(<<e[2]>>, FALSE, <<>>, TRUE, <<e[3]>>)>>))

Structured ==
    Map(Quads(LeaveNested("e1"), LeaveLoop("e2"), Leave("e3"), LeaveNested("e4")), Tried)
      \o Map(Triples(LeaveNested("e1"), LeaveNested("e2"), LeaveLabelled("e3")), LoopTried)
      \o Map(Pairs(LeaveNested("e1"), LeaveNested("e2")), Forever)
      \o Map(Triples(LeaveNested("e1"), LeaveNested("e2"), LeaveNested("e3")), LoopInFinally)
      \o Map(Pairs(LeaveNested("e1"), LeaveNested("e2")), TryInFinally)
      \o Map(Quads(LeaveLoop("e1"), LeaveLoop("e2"), LeaveNested("e3"), LeaveLoop("e4")),
             Switched)
      \o Map(Triples(LeaveNested("e1"), Quiet("e2"), LeaveLabelled("e3")), Generated)
      \o Map(Triples(LeaveForOf("e1"), LeaveForOf("e2"), LeaveForOf("e3")), OverAny)

-----------------------------------------------------------------------------
(* The variable x: stores, guards and its temporal dead zone. *)

Lets == <<Decl("d", FALSE), Decl("d", TRUE)>>
Tests(id) == <<Cond(id), Present(id), Absent(id)>>
Stores(id) == <<Assign(id, FALSE), Assign(id, TRUE), Op(id)>>
StoresOrLeave(id) == Stores(id) \o <<Return(id)>>
StoresOrLoop(id) == Stores(id) \o <<Break(""), Continue("")>>

Branched(e) ==
    <<e[1], If(e[2], <<e[3], Read("r1")>>, <<e[4]>>), Read("r2")>>
Looped(e) ==
    <<e[1], While(e[2], <<e[3], Read("r1"), If(Cond("c"), <<e[4]>>, <<>>), Read("r2")>>),
      Read("r3")>>
DoneOnce(e) ==
    <<e[1], DoWhile(e[2], <<Read("r1"), If(Cond("c"), <<e[3]>>, <<>>), e[4]>>), Read("r2")>>
Chosen(e) ==
    <<e[1], Switch(<<Case(e[2], <<e[3]>>), Case(Cond("k"), <<Read("r1")>>),
                     Default(<<e[4], Read("r2")>>)>>), Read("r3")>>

\* Stores before a try whose parts read x, and leave it.
Caught(e) ==
    <<e[1], If(e[2], <<e[3]>>, <<>>),
      Try(<<Read("r1"), e[4]>>, TRUE, <<Read("r2")>>, TRUE, <<Read("r3")>>), Read("r4")>>

\* A declaration in a loop's body, reached or not, and in one of a switch's cases.
Uses(id) == <<Read(id), Assign(id, FALSE), Op(id), Continue(""), Break("")>>
Dead(e) ==
    <<While(Cond("w"), <<If(Cond("c"), <<e[2]>>, <<>>), e[1],
                         If(Cond("c2"), <<e[3]>>, <<>>), Read("r")>>)>>
DeadCase(e) ==
    <<While(CondTrue, <<Switch(<<Case(Cond("k1"), <<e[2]>>), Case(Cond("k2"), <<e[1]>>),
                                 Default(<<e[3], Read("r")>>)>>)>>)>>

\* A declaration whose value is freed, in a loop and left in every way.
Owning == <<Decl("d", TRUE), OwnedDecl("d")>>
Freed(e) ==
    Outer(For(Cond("v"), "u",
              <<e[1], If(Cond("c"), <<Read("r1"), e[2]>>, <<>>),
                Try(<<Read("r2"), e[3]>>, FALSE, <<>>, TRUE, <<Read("r3"), e[4]>>)>>))
FreedEarly(e) ==
    Outer(Block(<<e[1], While(Cond("v"), <<Read("r1"), If(Cond("c"), <<e[2]>>, <<>>)>>),
                  e[3], Op("a"), e[4]>>))

Variables ==
    Map(Quads(Lets, Tests("t"), StoresOrLeave("e3"), StoresOrLeave("e4")), Branched)
      \o Map(Quads(Lets, Tests("t"), StoresOrLoop("e3"), StoresOrLoop("e4")), Looped)
      \o Map(Quads(Lets, Tests("t"), StoresOrLoop("e3"), Stores("e4")), DoneOnce)
      \o Map(Quads(Lets, Tests("t"), StoresOrLeave("e3"), Stores("e4")), Chosen)
      \o Map(Quads(Lets, Tests("t"), Stores("e3"), Leave("e4")), Caught)
      \o Map(Triples(Lets, Uses("e2"), Uses("e3")), Dead)
      \o Map(Triples(Lets, Uses("e2"), Uses("e3")), DeadCase)
      \o Map(Quads(Owning, LeaveNested("e2"), LeaveNested("e3"), LeaveNested("e4")), Freed)
      \o Map(Quads(Owning, LeaveNested("e2"), <<Read("r2"), Op("e3"), Return("e3")>>,
                   LeaveNested("e4")), FreedEarly)

AllPrograms == Control \o Structured \o Variables

-----------------------------------------------------------------------------
(* Programs the code handles otherwise than it says. *)

\* try { if (c) e1; e2 } finally { try { a } catch { } b }: two exits run the
\* finally, and compiling it for the first one pushes a try of its own.
FinallyPrograms ==
    Map(Pairs(Leave("e1"), Leave("e2")),
        LAMBDA e : <<Try(<<If(Cond("c"), <<e[1]>>, <<>>), e[2]>>, FALSE, <<>>, TRUE,
                         <<Try(<<Op("a")>>, TRUE, <<>>, FALSE, <<>>), Op("b")>>)>>)

-----------------------------------------------------------------------------
(* The functions of the runs, compiled once. *)

AllCompiled == Map(AllPrograms, Compile)
FinallyCompiled == Map(FinallyPrograms, Compile)
==========================================================================

---------------------------- MODULE CompiledRun ----------------------------
(***************************************************************************)
(* A compiled function running beside the function it was compiled from.   *)
(* The machine executes EmitFlow's instructions over the runtime's stack   *)
(* of handlers (jmpbufs); js is where ECMAScript says the function is.     *)
(* Instructions that can be observed take the matching step of js; the     *)
(* calls a program makes, those of its conditions and of an iterator too,  *)
(* may throw, and its conditions may go either way.                        *)
(***************************************************************************)
EXTENDS CompiledFunction, FiniteSets

CONSTANT Functions   \* a sequence of functions, each Compile of its body

VARIABLES
    prog,    \* the function that runs
    pc,      \* the next instruction; 0 once the function has been left
    hs,      \* the handler stack, innermost last; 0 is the caller's
    thrown,  \* the value last thrown
    slots,   \* the function's allocas that outlive a longjmp
    mem,     \* the allocation in each slot of x: live, or freed
    threw,   \* something has been thrown
    left,    \* how the function was left
    js       \* what ECMAScript says is next

vars == <<prog, pc, hs, thrown, slots, mem, threw, left, js>>

Code == Functions[prog].code
Compiles == Code # <<>>
Running == pc # 0
Instr == Code[pc]
Is(op) == Running /\ Instr.op = op

\* Where a label is.
At(l) == CHOOSE i \in DOMAIN Code : Code[i].op = "label" /\ Code[i].l = l

Init ==
    /\ prog \in DOMAIN Functions
    /\ pc = IF Compiles THEN 1 ELSE 0
    /\ hs = <<0>>
    /\ thrown = ""
    /\ slots = <<>>
    /\ mem = <<>>
    /\ threw = FALSE
    /\ left = Normal
    /\ js = Functions[prog].start

\* __kml_throw_any: the value goes to the innermost handler, which it pops.
ThrowValue(v) ==
    /\ thrown' = v
    /\ threw' = TRUE
    /\ hs' = SubSeq(hs, 1, Len(hs) - 1)
    /\ IF hs[Len(hs)] = 0
       THEN pc' = 0 /\ left' = ThrowOf(v)
       ELSE pc' = At(hs[Len(hs)]) /\ left' = left

Goto(i) == pc' = i /\ UNCHANGED <<hs, thrown, threw, left>>

-----------------------------------------------------------------------------
(* Instructions nobody sees. *)

DoLabel == Is("label") /\ Goto(pc + 1) /\ UNCHANGED <<prog, slots, mem, js>>

DoBr == Is("br") /\ Goto(At(Instr.l)) /\ UNCHANGED <<prog, slots, mem, js>>

\* A branch on the literal true.
DoTrue ==
    /\ Is("cond") /\ Instr.c.c = "true"
    /\ Goto(At(Instr.yes))
    /\ UNCHANGED <<prog, slots, mem, js>>

\* __kml_push_jmpbuf and __kml_pop_jmpbuf.
DoPush ==
    /\ Is("push")
    /\ hs' = Append(hs, Instr.l)
    /\ pc' = pc + 1
    /\ UNCHANGED <<prog, thrown, threw, slots, mem, left, js>>

DoPop ==
    /\ Is("pop") /\ hs # <<>>
    /\ hs' = SubSeq(hs, 1, Len(hs) - 1)
    /\ pc' = pc + 1
    /\ UNCHANGED <<prog, thrown, threw, slots, mem, left, js>>

\* Stores to a slot: no exception pending, the thrown value pending or bound,
\* a generator made.
DoStore ==
    /\ Running /\ Instr.op \in {"nopend", "pend", "bind", "open"}
    /\ slots' = (Instr.s :> [pend |-> Instr.op = "pend",
                             v |-> IF Instr.op \in {"pend", "bind"} THEN thrown ELSE ""])
                @@ slots
    /\ Goto(pc + 1)
    /\ UNCHANGED <<prog, mem, js>>

DoIfPending ==
    /\ Is("ifpend")
    /\ Goto(At(IF slots[Instr.s].pend THEN Instr.yes ELSE Instr.no))
    /\ UNCHANGED <<prog, slots, mem, js>>

DoThrow ==
    /\ Running /\ Instr.op \in {"throw", "rethrow"}
    /\ ThrowValue(IF Instr.op = "throw" THEN Instr.v ELSE slots[Instr.s].v)
    /\ UNCHANGED <<prog, slots, mem, js>>

DoReturn ==
    /\ Is("ret")
    /\ pc' = 0
    /\ left' = IF Instr.v = "" THEN Normal ELSE ReturnOf(Instr.v)
    /\ UNCHANGED <<prog, hs, thrown, threw, slots, mem, js>>

\* freeSymbol: what the slot holds is freed and the slot reset; a slot that
\* holds nothing is left alone.
DoFree ==
    /\ Is("free")
    /\ mem' = [s \in DOMAIN mem |-> IF s = Instr.x THEN "freed" ELSE mem[s]]
    /\ Goto(pc + 1)
    /\ UNCHANGED <<prog, slots, js>>

\* The store of a fresh value over one that was freed.
DoSet ==
    /\ Is("set")
    /\ mem' = (Instr.x :> "live") @@ mem
    /\ Goto(pc + 1)
    /\ UNCHANGED <<prog, slots, js>>

-----------------------------------------------------------------------------
(* Instructions that can be observed: the event they show, and the steps.   *)

\* Closing a generator that is done does nothing.
Idle == Is("close") /\ slots[Instr.s].v = "done"

Shows ==
    CASE Instr.op \in {"op", "read", "assign", "decl"} -> Event(Instr.op, Instr.id)
      [] Instr.op = "close" -> Event("op", Instr.id)
      [] Instr.op = "catch" -> Event("catch", slots[Instr.s].v)
      [] Instr.op = "cond" ->
           Event(IF Instr.c.c = "next" THEN "call" ELSE Instr.c.c, Instr.c.id)

Visible ==
    /\ Running
    /\ Instr.op \in {"op", "read", "assign", "decl", "close", "catch", "cond"}
    /\ ~(Instr.op = "cond" /\ Instr.c.c = "true")
    /\ ~Idle

\* The compiled function is about to show what ECMAScript says comes next.
Matches == Visible /\ Shows = js.ev

\* What comes next is an access to x.
Accesses == js.ev.e \in {"read", "assign", "present", "absent"}

DoIdleClose == Idle /\ Goto(pc + 1) /\ UNCHANGED <<prog, slots, mem, js>>

\* A call, an access to x or a catch that completes.
DoStep ==
    /\ Matches /\ Instr.op # "cond" /\ ~Throws(js)
    /\ Goto(pc + 1)
    /\ js' = Reduce(js.k, Stored(js))
    /\ mem' = IF Instr.op = "decl" /\ Instr.owes THEN (Instr.x :> "live") @@ mem ELSE mem
    /\ UNCHANGED <<prog, slots>>

\* A call that throws, or an access to x before its declaration has run.  A
\* generator that throws is done.
DoThrows ==
    /\ Matches
    /\ Calls(js) \/ Throws(js)
    /\ ThrowValue(js.ev.id)
    /\ js' = Unwind(Around(js), ThrowOf(js.ev.id), js.var)
    /\ slots' = IF Instr.op = "cond" /\ Instr.c.c = "next"
                THEN [slots EXCEPT ![Instr.c.s].v = "done"] ELSE slots
    /\ UNCHANGED <<prog, mem>>

\* A condition: opaque, or on x.  An exhausted generator is done.
DoCond ==
    /\ Matches /\ Instr.op = "cond" /\ ~Throws(js)
    /\ \E b \in BOOLEAN :
         /\ Instr.c.c \in {"present", "absent"} => b = Holds(js)
         /\ Goto(At(IF b THEN Instr.yes ELSE Instr.no))
         /\ js' = Reduce(IF b THEN js.k ELSE js.kf, js.var)
         /\ slots' = IF Instr.c.c = "next" /\ ~b
                     THEN [slots EXCEPT ![Instr.c.s].v = "done"] ELSE slots
    /\ UNCHANGED <<prog, mem>>

\* A program the emitter refuses, as ECMAScript would run it.
Interpret ==
    /\ ~Compiles
    /\ \/ ~Throws(js) /\ js.kf = <<>> /\ js.k # <<>> /\ js' = Reduce(js.k, Stored(js))
       \/ ~Throws(js) /\ js.kf # <<>> /\ \E k \in {js.k, js.kf} : js' = Reduce(k, js.var)
       \/ (Calls(js) \/ Throws(js)) /\ js' = Unwind(Around(js), ThrowOf(js.ev.id), js.var)
    /\ UNCHANGED <<prog, pc, hs, thrown, threw, slots, mem, left>>

\* The function has been left.
Left == ~Running /\ UNCHANGED vars

Next ==
    \/ DoLabel \/ DoBr \/ DoTrue \/ DoPush \/ DoPop \/ DoStore
    \/ DoIfPending \/ DoThrow \/ DoReturn \/ DoFree \/ DoSet
    \/ DoIdleClose \/ DoStep \/ DoThrows \/ DoCond
    \/ Interpret \/ Left

Spec == Init /\ [][Next]_vars

-----------------------------------------------------------------------------
\* The types; and the caller's handler stays at the bottom of the stack.
TypeOK ==
    /\ prog \in DOMAIN Functions
    /\ pc \in 0 .. Len(Code)
    /\ Running => hs # <<>> /\ hs[1] = 0
    /\ \A i \in DOMAIN hs : hs[i] \in Nat
    /\ left.t \in {"normal", "return", "throw"}

(***************************************************************************)
(* The compiled function does what ECMAScript says, step by step: what it  *)
(* is about to show is the next event of the program, and it is left the   *)
(* way the program is.  So every finally and every iterator close on the   *)
(* way out runs, once, innermost first, and an exception or a returned     *)
(* value is neither lost nor replaced (emitTry, emitFinallysToDepth).      *)
(***************************************************************************)
InStep ==
    /\ Visible => Shows = js.ev
    /\ Compiles /\ ~Running => js.ev = End(left)

(***************************************************************************)
(* The handler stack is exactly what protects the next event: no exit from *)
(* a try leaves its handler behind, none is popped twice, and the caller's *)
(* is there when the function returns (excEnter, excLeave).                *)
(***************************************************************************)
Depth(k) == Cardinality({i \in DOMAIN k : Protects(k[i])})

HandlersMatch ==
    /\ Visible => Len(hs) = 1 + Depth(Around(js))
    /\ ~Running => hs = IF left.t = "throw" THEN <<>> ELSE <<0>>

(***************************************************************************)
(* No access to x finds what it held freed: the frees of a return, a break *)
(* or a continue come after the finallys it runs, which may read x, and    *)
(* only on the path that leaves x's block (emitReturnCleanups,             *)
(* emitFreesAbove, emitFreesAtScopeExit, emitOwnedFreesAfter).             *)
(***************************************************************************)
NoUseAfterFree ==
    Visible /\ Accesses /\ Instr.x \in DOMAIN mem => mem[Instr.x] = "live"

(***************************************************************************)
(* "Each runtime path thus frees exactly once": without a throw, x's value *)
(* is freed before another is stored in its slot, its declaration runs     *)
(* again, or the function is left.  What frees it is freeSymbol, which     *)
(* leaves an empty slot alone, so that no value is freed twice.            *)
(***************************************************************************)
FreedOnce ==
    ~threw => \A s \in DOMAIN mem :
                (Running /\ Instr.op \in {"decl", "set"} /\ Instr.x = s) \/ ~Running
                  => mem[s] = "freed"

-----------------------------------------------------------------------------
(* What the front end says of the program, held against what it does. *)

Fact == Functions[prog].fact
Reads == Accesses /\ js.ev.e # "assign"

(***************************************************************************)
(* What the front end judges unreachable does not run: the code the binder *)
(* binds as unreachable, and the end of a body that EndReachable or        *)
(* blockMayCompleteNormally says no path falls off, so that no undefined   *)
(* is returned where the inferred return type has none.                    *)
(***************************************************************************)
ReachSound ==
    /\ js.ev.id \notin Fact.unreachable
    /\ js.ev = End(Normal) => Fact.endReachable /\ Fact.mayComplete

(***************************************************************************)
(* An access FlowDiagnostics rejects, because no path reaches it after the *)
(* declaration has run, throws whenever it is reached: no program that     *)
(* could run is refused.                                                   *)
(***************************************************************************)
TdzSound == Accesses /\ js.ev.id \in Fact.undeclared => js.var.x = "tdz"

(***************************************************************************)
(* A read whose undefined check is dropped finds a value: one that is      *)
(* DefinitelyAssigned, or GuardedSinceStore on every path.                 *)
(***************************************************************************)
PresentSound ==
    Reads /\ js.ev.id \in Fact.assigned \cup Fact.guarded /\ ~Throws(js)
        => js.var.x = "val"

(***************************************************************************)
(* A read sees one of its ReachingStores: the store that last ran is among *)
(* the ones the checker derives the read's type from.                      *)
(***************************************************************************)
StoresReach ==
    Reads /\ Fact.stores[js.ev.id] # {} /\ ~Throws(js)
        => js.var.last \in Fact.stores[js.ev.id]
=============================================================================

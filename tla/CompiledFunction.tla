------------------------- MODULE CompiledFunction -------------------------
(***************************************************************************)
(* What the compiler makes of one function body, beside what ECMAScript    *)
(* says of it.                                                             *)
(***************************************************************************)
EXTENDS JsSemantics, EmitFlow, BinderFlow, FallThrough

\* A function: its body, its instructions (none when the emitter refuses it),
\* the front end's facts about it, and where ECMAScript starts it.
Compile(body) ==
    LET e == emitFunction(body)
    IN  [body |-> body,
         code |-> IF e.err THEN <<>> ELSE e.code,
         fact |-> [mayComplete |-> blockMayComplete(body)] @@ BindFunction(body),
         start |-> Begin(body)]
===========================================================================

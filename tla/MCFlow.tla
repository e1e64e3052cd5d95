------------------------------ MODULE MCFlow ------------------------------
(* CompiledRun on the functions of FlowPrograms. *)
EXTENDS FlowPrograms, CompiledRun

AllFunctions == LET fs == AllCompiled IN fs
FinallyFunctions == LET fs == FinallyCompiled IN fs

\* The emitter refuses none of the programs without x.
ASSUME Compiled ==
    \A p \in 1 .. Len(Control \o Structured) : AllCompiled[p].code # <<>>
===========================================================================

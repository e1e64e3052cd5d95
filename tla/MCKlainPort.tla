---------------------------- MODULE MCKlainPort ----------------------------
(* Instances of KlainPort: the parent, one Worker thread, one or two pool   *)
(* threads; the cfg bounds the operations the programs perform.             *)
EXTENDS KlainPort
=============================================================================

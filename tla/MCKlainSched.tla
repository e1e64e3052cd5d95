---------------------------- MODULE MCKlainSched ----------------------------
(* Instances of KlainSched for TLC.                                        *)
EXTENDS KlainSched

\* The goroutines without a special role are interchangeable.
Symmetry == Permutations(Goroutines \ (Lockers \cup Blockers))

=============================================================================

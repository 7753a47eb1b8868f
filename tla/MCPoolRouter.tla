---- MODULE MCPoolRouter ----
(* Small instances of PoolRouter for TLC. *)
EXTENDS PoolRouter, TLC

\* Entries, children and callers are interchangeable in the safety runs.
Symmetry == Permutations(Entries) \cup Permutations(Children)
            \cup Permutations(Callers)
====

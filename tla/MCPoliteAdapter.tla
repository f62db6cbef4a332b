-------------------------- MODULE MCPoliteAdapter --------------------------
(* Two references with a product in common, one product that raises for    *)
(* both and one that raises for the reference it matches.                  *)
EXTENDS PoliteAdapter

CONSTANTS p, q, broken

Overlapping == <<{p, q}, {q}>>
Raising == <<{broken, p}, {broken}>>
=============================================================================

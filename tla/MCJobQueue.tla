----------------------------- MODULE MCJobQueue -----------------------------
(* Instances of JobQueue for TLC: workers, clients and jobs are model values *)
(* and interchangeable.                                                      *)
EXTENDS JobQueue, TLC

Symmetry == Permutations(Workers) \union Permutations(Jobs) \union Permutations(Clients)
=============================================================================

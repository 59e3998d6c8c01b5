--------------------------- MODULE MCServerQueue ---------------------------
(* Instances of ServerQueue for TLC.  Inference clients are interchangeable, *)
(* and so are probes: Symmetry is used by the runs that check no liveness.   *)
EXTENDS ServerQueue, TLC

Symmetry == Permutations(Clients) \cup Permutations(Probes)

=============================================================================

------------------------------ MODULE MCServer ------------------------------
(* Instances of the event loop for TLC.                                    *)
EXTENDS ServerProperties, TLC

\* Connections and workers are interchangeable, and so are descriptors.
Symmetry == Permutations(Conns) \cup Permutations(Fds) \cup Permutations(Workers)
=============================================================================

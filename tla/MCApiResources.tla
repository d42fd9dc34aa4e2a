--------------------------- MODULE MCApiResources ---------------------------
(* Values for TLC: a provider can do everything or nothing. *)
EXTENDS ApiResources, TLC

MCCapabilitySets == {{}, Capabilities}
Symmetry == Permutations(Requests) \cup Permutations(Keys)
=============================================================================

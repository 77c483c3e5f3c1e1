---------------------------- MODULE MCAuditChain ----------------------------
(***************************************************************************)
(* Model-checking instance of AuditChain.                                  *)
(***************************************************************************)
EXTENDS AuditChain, TLC

\* Writers, tenants, resources and event identifiers are interchangeable.
Symmetry ==
  Permutations(Writers) \cup Permutations(Tenants) \cup Permutations(Resources)
    \cup Permutations(Events)
=============================================================================

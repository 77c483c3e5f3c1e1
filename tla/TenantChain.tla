---------------------------- MODULE TenantChain ----------------------------
(***************************************************************************)
(* What the audit log promises to an auditor, without writers, locks,      *)
(* snapshots and clocks: each tenant has a chain of events that only ever  *)
(* grows, at its end, by one event that names the last.                    *)
(***************************************************************************)
CONSTANTS Tenants, Events, Genesis

VARIABLES
  links,   \* <<x, e, p>>: in the chain of tenant x event e names p
  last     \* of each tenant: its last event, Genesis before the first

chainVars == <<links, last>>

Init ==
  /\ links = {}
  /\ last = [x \in Tenants |-> Genesis]

Extend(x, e) ==
  /\ \A link \in links : link[2] # e
  /\ links' = links \cup {<<x, e, last[x]>>}
  /\ last' = [last EXCEPT ![x] = e]

Next == \E x \in Tenants, e \in Events : Extend(x, e)

Spec == Init /\ [][Next]_chainVars
=============================================================================

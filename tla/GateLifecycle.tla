--------------------------- MODULE GateLifecycle ---------------------------
(***************************************************************************)
(* What the gates of a project promise to the people who use them, without *)
(* rows, transactions, processes or an audit log: each gate has a state,   *)
(* and somebody who may changes it.                                        *)
(***************************************************************************)
CONSTANTS
  Gates,
  Actors,
  Anonymous,   \* somebody without an id
  Allowed,     \* <<u, from, to>>: u may take a gate from one status to another
  Explained    \* <<from, to>>: changes that need comments

VARIABLES
  status,
  submitter,   \* who submitted the gate last
  reviewer,    \* who decided about it last
  comments     \* whether the last decision has comments

gateVars == <<status, submitter, reviewer, comments>>

Init ==
  /\ status = [g \in Gates |-> "draft"]
  /\ submitter = [g \in Gates |-> Anonymous]
  /\ reviewer = [g \in Gates |-> Anonymous]
  /\ comments = [g \in Gates |-> FALSE]

Moves(u, g, to) ==
  /\ <<u, status[g], to>> \in Allowed
  /\ status' = [status EXCEPT ![g] = to]

Submit(u, g) ==
  /\ Moves(u, g, "pending")
  /\ submitter' = [submitter EXCEPT ![g] = u]
  /\ UNCHANGED <<reviewer, comments>>

\* By somebody else than who submitted the gate, if that is known
Decide(u, g, to, explained) ==
  /\ Moves(u, g, to)
  /\ submitter[g] \notin {u} \ {Anonymous}
  /\ <<status[g], to>> \in Explained => explained
  /\ reviewer' = [reviewer EXCEPT ![g] = u]
  /\ comments' = [comments EXCEPT ![g] = explained]
  /\ UNCHANGED submitter

Next ==
  \E u \in Actors, g \in Gates :
    \/ Submit(u, g)
    \/ \E to \in {"approved", "changes_requested", "rejected", "completed"}, explained \in BOOLEAN :
         Decide(u, g, to, explained)

Spec == Init /\ [][Next]_gateVars
=============================================================================

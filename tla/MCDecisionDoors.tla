-------------------------- MODULE MCDecisionDoors --------------------------
(***************************************************************************)
(* Two reviews and an id that no review has; an operator who created the   *)
(* first, a manager who created the second before becoming one, and        *)
(* somebody whom Keycloak lets reject but not approve.                     *)
(***************************************************************************)
EXTENDS DecisionDoors, TLC

CONSTANTS op, boss, aide, i1, i2, i3

MCOwner == (i1 :> op) @@ (i2 :> boss) @@ (i3 :> op)

MCScopes == (op :> {"Create", "Update", "Cancel"}) @@ (boss :> {"Approve", "Reject"})
            @@ (aide :> {"Reject"})

Ask(door, actor, decision, ids) ==
    [door |-> door, actor |-> actor, decision |-> decision, ids |-> ids]

\* Each door, with what it lets pass and with what it refuses.
MCMenu ==
    {Ask("operator", op, "CANCELLED", {i1}),
     Ask("operator_bulk", op, "CANCELLED", {}),
     Ask("manager", boss, "APPROVED", {i1}),
     Ask("manager", boss, "CANCELLED", {i1}),
     Ask("manager", boss, "CANCELLED", {i2}),
     Ask("manager", boss, "APPROVED", {i3}),
     Ask("manager", boss, "BOGUS", {i1}),
     Ask("manager", aide, "APPROVED", {i1}),
     Ask("manager_bulk", boss, "REJECTED", {}),
     Ask("api", op, "CANCELLED", {i2}),
     Ask("api", op, "APPROVED", {i1}),
     Ask("api", op, "BOGUS", {i1}),
     Ask("api_bulk", op, "CANCELLED", {i1, i2}),
     Ask("api_bulk", boss, "APPROVED", {i1, i2, i3})}

\* The manager's routes, asked to cancel the review that the manager owns.
MCCancels ==
    {Ask("manager", boss, "CANCELLED", {i2}), Ask("manager_bulk", boss, "CANCELLED", {})}

Symmetry == Permutations(Requests)
=============================================================================

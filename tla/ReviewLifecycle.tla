------------------------- MODULE ReviewLifecycle -------------------------
(***************************************************************************)
(* What one review promises to everybody who reads its row: it is created  *)
(* once, may be edited while it is pending, and is decided by one verdict  *)
(* that was claimed before it was written.  A review whose execution was   *)
(* lost is detached: it is marked cancelled, and the only thing that can   *)
(* still happen to it is the arrival of the verdict claimed earlier.       *)
(***************************************************************************)
CONSTANTS Verdicts, Lost, NoVerdict, Payloads, InitPayload

VARIABLES
    stage,    \* "absent", "pending", "decided" or "detached"
    verdict,  \* what the row says about how it was closed
    payload,
    winner    \* the one verdict the execution will write

vars == <<stage, verdict, payload, winner>>

TypeOK ==
    /\ stage \in {"absent", "pending", "decided", "detached"}
    /\ verdict \in Verdicts \cup {Lost, NoVerdict}
    /\ payload \in Payloads
    /\ winner \in Verdicts \cup {NoVerdict}

Init ==
    /\ stage = "absent"
    /\ verdict = NoVerdict
    /\ payload = InitPayload
    /\ winner = NoVerdict

Create ==
    /\ stage = "absent"
    /\ stage' = "pending"
    /\ UNCHANGED <<verdict, payload, winner>>

Edit(p) ==
    /\ stage = "pending"
    /\ payload' = p
    /\ UNCHANGED <<stage, verdict, winner>>

Claim(v) ==
    /\ stage = "pending"
    /\ winner = NoVerdict
    /\ winner' = v
    /\ UNCHANGED <<stage, verdict, payload>>

Decide ==
    /\ stage \in {"pending", "detached"}
    /\ winner # NoVerdict
    /\ verdict' = winner
    /\ stage' = IF stage = "pending" THEN "decided" ELSE "detached"
    /\ UNCHANGED <<payload, winner>>

Detach ==
    /\ stage = "pending"
    /\ stage' = "detached"
    /\ verdict' = Lost
    /\ UNCHANGED <<payload, winner>>

Next ==
    \/ Create \/ Decide \/ Detach
    \/ \E p \in Payloads : Edit(p)
    \/ \E v \in Verdicts : Claim(v)

Spec == Init /\ [][Next]_vars
=============================================================================

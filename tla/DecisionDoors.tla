--------------------------- MODULE DecisionDoors ---------------------------
(***************************************************************************)
(* The ways a decision takes to the reviews it is about: one review or a   *)
(* bulk of them, from the operator's or the manager's screens (bff/ui.py)  *)
(* or from the REST API (api/routes.py), through the permission check of   *)
(* that door to submit_decision and bulk_submit_decision of                *)
(* workflow/service.py.  The items of a bulk run concurrently, each with   *)
(* its own result, and several requests meet at the same reviews.  What a  *)
(* review does by itself is SignalledReview, and ReviewWorkflow in detail; *)
(* how the selection is kept in Redis is SessionMemory.                    *)
(***************************************************************************)
EXTENDS Naturals, FiniteSets

CONSTANTS
    Ids,       \* ids of reviews
    Unknown,   \* those among them that no review has
    Users,
    Owner,     \* the requester of each review
    Scopes,    \* the permissions Keycloak grants each user
    Requests,  \* HTTP requests
    Menu,      \* what they may be: a door, an actor, a decision and ids
    MaxBulk,   \* _MAX_BULK_SIZE
    Faults     \* the troubles of the environment a run has

ASSUME IdsAssumption == Unknown \subseteq Ids
ASSUME UsersAssumption == Users # {}
ASSUME OwnerAssumption == Owner \in [Ids -> Users]
ASSUME ScopesAssumption ==
    Scopes \in [Users -> SUBSET {"Create", "Update", "Cancel", "Approve", "Reject"}]
ASSUME RequestsAssumption == {"nobody", "temporal-admin"} \cap Requests = {}
ASSUME DoorFaultsAssumption == Faults \subseteq {"rpc_error", "lost", "native_cancel"}

VARIABLES
    stage,      \* the row of each review: "absent", "pending", "decided" or "detached"
    verdict,    \* its status once it is closed; "LOST" is CANCELLED by reconciliation
    winner,     \* the decision its execution has claimed
    author,     \* history: the request whose signal that was
    running,    \* the execution takes signals, or will once it starts
    mail,       \* the requests whose signal it has accepted and not yet handled
    req,        \* the HTTP requests
    item        \* where each request is with each review

reviewVars == <<stage, verdict, winner, author, running>>
vars == <<reviewVars, mail, req, item>>
-----------------------------------------------------------------------------
VALID_DECISIONS == {"APPROVED", "REJECTED", "CANCELLED"}

Decisions == VALID_DECISIONS \cup {"BOGUS"}

Doors == {"operator", "manager", "api", "operator_bulk", "manager_bulk", "api_bulk"}

Bulk == {"operator_bulk", "manager_bulk", "api_bulk"}

\* The bulk actions of the screens are about what the session has selected.
Selecting == {"operator_bulk", "manager_bulk"}

\* The operator's routes know one decision only, and the routes of a bulk on the
\* screens take no ids.
Asked(m) ==
    /\ m.door \in Doors /\ m.actor \in Users /\ m.decision \in Decisions /\ m.ids \subseteq Ids
    /\ m.door \in {"operator", "operator_bulk"} => m.decision = "CANCELLED"
    /\ m.door \in Selecting => m.ids = {}
    /\ m.door \notin Bulk => \E i \in Ids : m.ids = {i}

ASSUME MenuAssumption == \A m \in Menu : Asked(m)

Request == [door     : Doors,
            actor    : Users,
            decision : Decisions,
            ids      : SUBSET Ids,
            pc       : {"idle", "permission", "start", "gather", "answered"},
            answer   : {"none", "denied", "rejected", "results", "raised"}]

Failed == {"not_found", "closed", "not_owner"}

Settled == {"ok", "raised"} \cup Failed

TypeOK ==
    /\ stage \in [Ids -> {"absent", "pending", "decided", "detached"}]
    /\ verdict \in [Ids -> VALID_DECISIONS \cup {"LOST", "NONE"}]
    /\ winner \in [Ids -> VALID_DECISIONS \cup {"NONE"}]
    /\ author \in [Ids -> Requests \cup {"nobody", "temporal-admin"}]
    /\ running \in [Ids -> BOOLEAN]
    /\ mail \in [Ids -> SUBSET Requests]
    /\ req \in [Requests -> Request]
    /\ item \in [Requests -> [Ids -> {"none", "read", "signal", "reconcile", "wait"} \cup Settled]]

\* What stands for a request before it is sent.
NoRequest == [door |-> "api", actor |-> CHOOSE u \in Users : TRUE, decision |-> "BOGUS",
              ids |-> {}, pc |-> "idle", answer |-> "none"]

Init ==
    /\ stage = [i \in Ids |-> "absent"]
    /\ verdict = [i \in Ids |-> "NONE"]
    /\ winner = [i \in Ids |-> "NONE"]
    /\ author = [i \in Ids |-> "nobody"]
    /\ running = [i \in Ids |-> i \notin Unknown]
    /\ mail = [i \in Ids |-> {}]
    /\ req = [b \in Requests |-> NoRequest]
    /\ item = [b \in Requests |-> [i \in Ids |-> "none"]]

-----------------------------------------------------------------------------
\* The reviews, each by itself.

\* persist_request, which may come after the execution was lost.
Create(i) ==
    /\ i \notin Unknown
    /\ stage[i] = "absent"
    /\ stage' = [stage EXCEPT ![i] = "pending"]
    /\ UNCHANGED <<verdict, winner, author, running, mail, req, item>>

\* Mutant: the last signal wins.
HandleLast(i, b) ==
    /\ running[i]
    /\ b \in mail[i]
    /\ mail' = [mail EXCEPT ![i] = @ \ {b}]
    /\ winner' = [winner EXCEPT ![i] = req[b].decision]
    /\ author' = [author EXCEPT ![i] = b]
    /\ UNCHANGED <<stage, verdict, running, req, item>>

\* The signal handler: the first one claims the review, the others are ignored.
Handle(i, b) ==
    /\ running[i]
    /\ b \in mail[i]
    /\ mail' = [mail EXCEPT ![i] = @ \ {b}]
    /\ \/ /\ winner[i] = "NONE"
          /\ winner' = [winner EXCEPT ![i] = req[b].decision]
          /\ author' = [author EXCEPT ![i] = b]
       \/ /\ winner[i] # "NONE"
          /\ UNCHANGED <<winner, author>>
    /\ UNCHANGED <<stage, verdict, running, req, item>>

\* The except block of run(): an administrator has cancelled the execution.
ForceCancel(i) ==
    /\ "native_cancel" \in Faults
    /\ running[i]
    /\ stage[i] = "pending"
    /\ winner[i] = "NONE"
    /\ winner' = [winner EXCEPT ![i] = "CANCELLED"]
    /\ author' = [author EXCEPT ![i] = "temporal-admin"]
    /\ UNCHANGED <<stage, verdict, running, mail, req, item>>

\* persist_decision, which may come after the execution was lost.
Persist(i) ==
    /\ stage[i] \in {"pending", "detached"}
    /\ winner[i] # "NONE"
    /\ verdict' = [verdict EXCEPT ![i] = winner[i]]
    /\ stage' = [stage EXCEPT ![i] = IF @ = "pending" THEN "decided" ELSE @]
    /\ UNCHANGED <<winner, author, running, mail, req, item>>

\* The execution ends, or is lost: deleted, terminated, or failed.
End(i) ==
    /\ running[i]
    /\ \/ stage[i] = "decided" /\ mail[i] = {}
       \/ "lost" \in Faults
    /\ running' = [running EXCEPT ![i] = FALSE]
    /\ mail' = [mail EXCEPT ![i] = {}]
    /\ UNCHANGED <<stage, verdict, winner, author, req, item>>

-----------------------------------------------------------------------------
\* The doors.

\* The rows a user's screen has a checkbox for.
Listed(u) ==
    {i \in Ids : stage[i] # "absent"
                 /\ (Owner[i] = u \/ Scopes[u] \cap {"Approve", "Reject"} # {})}

\* A request arrives.
Submit(b, m) ==
    /\ req[b].pc = "idle"
    /\ req' = [req EXCEPT ![b] = [door |-> m.door, actor |-> m.actor, decision |-> m.decision,
                                  ids |-> m.ids, pc |-> "permission", answer |-> "none"]]
    /\ UNCHANGED <<reviewVars, mail, item>>

_DECISION_PERMISSIONS == [APPROVED |-> "Approve", REJECTED |-> "Reject", CANCELLED |-> "Cancel"]

\* Mutant: one permission for all that a manager's route may be asked.
RequiredByRoute(door, d) ==
    IF door \in {"operator", "operator_bulk"} THEN {"Cancel"}
    ELSE IF door \in {"manager", "manager_bulk"} THEN {"Reject"}
    ELSE {_DECISION_PERMISSIONS[x] : x \in {d} \cap VALID_DECISIONS}

\* The permission a door asks for.  The API asks for none when it does not know
\* the decision; a manager's route that does not asks for Reject.
Required(door, d) ==
    IF door \in {"operator", "operator_bulk"} THEN {"Cancel"}
    ELSE IF door \in {"manager", "manager_bulk"}
    THEN {IF d = "APPROVED" THEN "Approve" ELSE "Reject"}
    ELSE {_DECISION_PERMISSIONS[x] : x \in {d} \cap VALID_DECISIONS}

Answer(b, a) == req' = [req EXCEPT ![b] = [@ EXCEPT !.pc = "answered", !.answer = a]]

\* A request that never got to a review: what it asked for is forgotten.
TurnAway(b, a) == req' = [req EXCEPT ![b] = [NoRequest EXCEPT !.pc = "answered", !.answer = a]]

\* What get_permissions answers has the scope that is asked for.
Permitted(r) == Required(r.door, r.decision) \subseteq Scopes[r.actor]

\* check_permission, which may also fail for reasons of Keycloak's.
CheckPermission(b) ==
    /\ req[b].pc = "permission"
    /\ \/ /\ Permitted(req[b])
          /\ req' = [req EXCEPT ![b] = [@ EXCEPT !.pc = "start"]]
       \/ TurnAway(b, "denied")
    /\ UNCHANGED <<reviewVars, mail, item>>

\* What a bulk of the screens is about: _get_selection, which holds any of the
\* listed rows, and none if Redis fails.  The other routes are told.
Batches(b) ==
    IF req[b].door \in Selecting THEN SUBSET Listed(req[b].actor) ELSE {req[b].ids}

\* _validate_bulk_ids and the check of the decision.
Acceptable(b, ids) ==
    /\ req[b].decision \in VALID_DECISIONS
    /\ req[b].door \in Bulk => ids # {} /\ Cardinality(ids) <= MaxBulk

\* The dialog in which manager_decision says what went wrong is about a record
\* that it reads anew: without one the template raises.
Undrawable(b, i) == req[b].door = "manager" /\ stage[i] = "absent"

\* The handler calls the service: one submit_decision for each id, or ValueError for
\* the whole, which every door that can meet it has an answer for, if it can be drawn.
Start(b) ==
    /\ req[b].pc = "start"
    /\ \E ids \in Batches(b) :
          \/ /\ Acceptable(b, ids)
             /\ req' = [req EXCEPT ![b] = [@ EXCEPT !.pc = "gather", !.ids = ids]]
             /\ item' = [item EXCEPT ![b] = [i \in Ids |-> IF i \in ids THEN "read" ELSE "none"]]
          \/ /\ ~Acceptable(b, ids)
             /\ \A i \in ids : ~Undrawable(b, i)
             /\ TurnAway(b, "rejected")
             /\ UNCHANGED item
          \/ /\ ~Acceptable(b, ids)
             /\ \E i \in ids : Undrawable(b, i)
             /\ Answer(b, "raised")
             /\ UNCHANGED item
    /\ UNCHANGED <<reviewVars, mail>>

-----------------------------------------------------------------------------
\* submit_decision, from await to await.

Item(b, i, state) == item' = [item EXCEPT ![b] = [@ EXCEPT ![i] = state]]

\* Mutant: the status of a closed review is its item's result.
FindingStatus(b, i) ==
    IF stage[i] = "absent" THEN "not_found"
    ELSE IF stage[i] # "pending" THEN stage[i]
    ELSE IF req[b].decision = "CANCELLED" /\ Owner[i] # req[b].actor THEN "not_owner"
    ELSE "signal"

\* What the row says: whether the decision is still possible.
Finding(b, i) ==
    IF stage[i] = "absent" THEN "not_found"
    ELSE IF stage[i] # "pending" THEN "closed"
    ELSE IF req[b].decision = "CANCELLED" /\ Owner[i] # req[b].actor THEN "not_owner"
    ELSE "signal"

Read(b, i) ==
    /\ item[b][i] = "read"
    /\ Item(b, i, Finding(b, i))
    /\ UNCHANGED <<reviewVars, mail, req>>

\* The signal is accepted, or the execution is not there: NOT_FOUND.
Signal(b, i) ==
    /\ item[b][i] = "signal"
    /\ \/ /\ running[i]
          /\ mail' = [mail EXCEPT ![i] = @ \cup {b}]
          /\ Item(b, i, "wait")
       \/ /\ ~running[i]
          /\ Item(b, i, "reconcile")
          /\ UNCHANGED mail
    /\ UNCHANGED <<reviewVars, req>>

\* Mutant: _one catches RPCError too.
RpcErrorIsResult(b, i) ==
    /\ "rpc_error" \in Faults
    /\ item[b][i] = "signal"
    /\ \/ running[i] /\ mail' = [mail EXCEPT ![i] = @ \cup {b}]
       \/ UNCHANGED mail
    /\ Item(b, i, "closed")
    /\ UNCHANGED <<reviewVars, req>>

\* Mutant: _signal_or_reconcile lets an RPCError that is not NOT_FOUND pass.
RpcErrorIgnored(b, i) ==
    /\ "rpc_error" \in Faults
    /\ item[b][i] = "signal"
    /\ \/ running[i] /\ mail' = [mail EXCEPT ![i] = @ \cup {b}]
       \/ UNCHANGED mail
    /\ Item(b, i, "wait")
    /\ UNCHANGED <<reviewVars, req>>

\* Any other RPCError, and the signal was accepted or it was not.
RpcError(b, i) ==
    /\ "rpc_error" \in Faults
    /\ item[b][i] = "signal"
    /\ \/ running[i] /\ mail' = [mail EXCEPT ![i] = @ \cup {b}]
       \/ UNCHANGED mail
    /\ Item(b, i, "raised")
    /\ UNCHANGED <<reviewVars, req>>

\* Mutant: WHERE id = $1, without the status.
ReconcileAnyRow(b, i) ==
    /\ item[b][i] = "reconcile"
    /\ stage' = [stage EXCEPT ![i] = "detached"]
    /\ verdict' = [verdict EXCEPT ![i] = "LOST"]
    /\ Item(b, i, "closed")
    /\ UNCHANGED <<winner, author, running, mail, req>>

\* Mutant: the row is left as it is.
ReconcileForgotten(b, i) ==
    /\ item[b][i] = "reconcile"
    /\ Item(b, i, "closed")
    /\ UNCHANGED <<reviewVars, mail, req>>

\* _reconcile_missing_workflow, then ValueError.
Reconcile(b, i) ==
    /\ item[b][i] = "reconcile"
    /\ \/ /\ stage[i] = "pending"
          /\ stage' = [stage EXCEPT ![i] = "detached"]
          /\ verdict' = [verdict EXCEPT ![i] = "LOST"]
       \/ /\ stage[i] # "pending"
          /\ UNCHANGED <<stage, verdict>>
    /\ Item(b, i, "closed")
    /\ UNCHANGED <<winner, author, running, mail, req>>

\* _wait_until polls the row until it has the decision or the deadline is past,
\* and does not tell which.
Wait(b, i) ==
    /\ item[b][i] = "wait"
    /\ Item(b, i, "ok")
    /\ UNCHANGED <<reviewVars, mail, req>>

-----------------------------------------------------------------------------
\* The answers.

Results(b) == {item[b][i] : i \in req[b].ids}

\* gather has all the results of a bulk (the screens then clear the selection,
\* which is part of SessionMemory) ...
Gathered(b) ==
    /\ req[b].pc = "gather"
    /\ req[b].door \in Bulk
    /\ Results(b) \subseteq {"ok"} \cup Failed
    /\ Answer(b, "results")
    /\ UNCHANGED <<reviewVars, mail, item>>

\* ... or an item has raised: so does gather, at once, and the others go on.
GatherRaises(b) ==
    /\ req[b].pc = "gather"
    /\ "raised" \in Results(b)
    /\ Answer(b, "raised")
    /\ UNCHANGED <<reviewVars, mail, item>>

\* Mutant: the REST route has no handler for PermissionError.
AnswerWithoutHandler(b, i) ==
    IF item[b][i] = "ok" \/ req[b].door = "operator" THEN "results"
    ELSE IF item[b][i] = "not_owner" \/ Undrawable(b, i) THEN "raised"
    ELSE "rejected"

\* What a door makes of the one result of submit_decision: operator_decision swallows
\* the exceptions and shows the row, if there is one; manager_decision has no handler
\* for PermissionError, and no dialog without a record; the API has a handler for each.
AnswerOf(b, i) ==
    IF item[b][i] = "ok" \/ req[b].door = "operator" THEN "results"
    ELSE IF (req[b].door = "manager" /\ item[b][i] = "not_owner") \/ Undrawable(b, i)
    THEN "raised"
    ELSE "rejected"

Reply(b) ==
    /\ req[b].pc = "gather"
    /\ req[b].door \notin Bulk
    /\ \E i \in req[b].ids :
          /\ item[b][i] \in {"ok"} \cup Failed
          /\ Answer(b, AnswerOf(b, i))
    /\ UNCHANGED <<reviewVars, mail, item>>

-----------------------------------------------------------------------------
Decide(b, i) == Read(b, i) \/ Signal(b, i) \/ RpcError(b, i) \/ Reconcile(b, i) \/ Wait(b, i)

Handler(b) ==
    \/ CheckPermission(b) \/ Start(b)
    \/ Gathered(b) \/ GatherRaises(b) \/ Reply(b)

Reviews(i) ==
    \/ Create(i) \/ ForceCancel(i) \/ Persist(i) \/ End(i)
    \/ \E b \in Requests : Handle(i, b)

Next ==
    \/ \E i \in Ids : Reviews(i)
    \/ \E b \in Requests, m \in Menu : Submit(b, m)
    \/ \E b \in Requests : Handler(b)
    \/ \E b \in Requests, i \in Ids : Decide(b, i)

Spec == Init /\ [][Next]_vars
-----------------------------------------------------------------------------
\* Properties.

\* An item that a request reports as failed was not decided by that request: what
\* it says of a review it does not change later.
FailedDidNotWin ==
    \A b \in Requests, i \in Ids :
        item[b][i] \in Failed => author[i] # b /\ b \notin mail[i]

\* An item that fails because the review "has already been decided" or "has been
\* marked cancelled" leaves a review that is closed, and closed it stays.
FailureIsTrue ==
    \A b \in Requests, i \in Ids :
        item[b][i] = "closed" => stage[i] \in {"decided", "detached"}

\* An item reported as ok is a decision that the review has taken notice of: it
\* is closed, or will be by this decision or one that came before it, unless its
\* execution is lost.
OkWasAccepted ==
    \A b \in Requests, i \in Ids :
        (item[b][i] = "ok" /\ running[i]) => winner[i] # "NONE" \/ b \in mail[i]

\* Which permission is checked "depends on the submitted decision": whoever decided a
\* review had the permission of that decision.  It does not hold: a manager's route
\* lets a CANCELLED pass if the actor may reject (run manager_cancels).
DecisionPermitted ==
    \A i \in Ids :
        author[i] \in Requests
        => _DECISION_PERMISSIONS[winner[i]] \in Scopes[req[author[i]].actor]

\* What does hold, whichever door the decision came through: whoever approved or
\* rejected a review had the permission for that; whoever cancelled it is its requester
\* and may cancel, or may reject and came through one of the manager's routes.
VerdictPermitted ==
    \A i \in Ids :
        author[i] \in Requests =>
            LET r == req[author[i]]
            IN  IF winner[i] = "CANCELLED"
                THEN /\ Owner[i] = r.actor
                     /\ \/ "Cancel" \in Scopes[r.actor]
                        \/ r.door \in {"manager", "manager_bulk"} /\ "Reject" \in Scopes[r.actor]
                ELSE _DECISION_PERMISSIONS[winner[i]] \in Scopes[r.actor]

\* A request that ends in an unhandled exception, and not for an RPCError, came through
\* manager_decision and has decided nothing, nor will it: the 500 does not hide a
\* signal that is on its way.
UnhandledDecidedNothing ==
    \A b \in Requests :
        (req[b].answer = "raised" /\ "raised" \notin Results(b)) =>
            /\ req[b].door = "manager"
            /\ \A i \in Ids : author[i] # b /\ b \notin mail[i]

\* Each review as the doors have it.
Review(i) == INSTANCE SignalledReview WITH
    Asks <- Decisions, Valid <- VALID_DECISIONS,
    stage <- stage[i], verdict <- verdict[i], winner <- winner[i], author <- author[i],
    running <- running[i], mail <- mail[i], asked <- [b \in Requests |-> req[b].decision]

Known == Ids \ Unknown

\* The decision of each review is what the request that won had asked for, which has
\* no signal left to be handled there, and a closed row shows it or the reconciliation.
EveryWinnerWasAsked == \A i \in Known : Review(i)!WinnerWasAsked

\* It keeps the contract that ReviewWorkflow keeps, in spite of the requests that meet
\* at it: nobody signals twice or for a row that is not there, and reconciliation
\* touches no review that still takes signals.
EveryReviewKeepsContract ==
    /\ \A i \in Known : Review(i)!Init
    /\ [][\A i \in Known : [Review(i)!Next]_(Review(i)!vars)]_vars
=============================================================================

-------------------------- MODULE ReviewWorkflow --------------------------
(***************************************************************************)
(* One review request: its Temporal execution (workflow/workflows.py), the *)
(* activities that write its row (workflow/activities.py), the row of      *)
(* review_requests itself, and the callers of workflow/service.py that     *)
(* check the row, signal the execution, and poll the row again.            *)
(*                                                                         *)
(* Every `await` of the code is a boundary between two actions.  Temporal  *)
(* and Postgres are not part of the repository: executions, signal         *)
(* delivery, activity attempts, retries and native cancellation follow     *)
(* from how the code uses them.                                            *)
(***************************************************************************)
EXTENDS Integers, FiniteSets

CONSTANTS
    Calls,        \* calls of update_review / submit_decision on this request
    Users,        \* Keycloak users that may call the service
    Requester,    \* the user who created the request
    Payloads,     \* payloads that validate_payload accepts
    InitPayload,  \* the payload the request is created with
    MaxAttempts,  \* RetryPolicy(maximum_attempts=...)
    Faults        \* which kinds of trouble the environment may cause

FaultKinds == {"lost_attempt", "native_cancel", "admin_kill", "rpc_error", "raw_signal"}

ASSUME CallsAssumption  == {"request", "forced", "nobody", "temporal-admin"} \cap Calls = {}
ASSUME UsersAssumption  == Requester \in Users /\ {"temporal-admin", "nobody"} \cap Users = {}
ASSUME PayloadAssumption == InitPayload \in Payloads
ASSUME AttemptsAssumption == MaxAttempts \in Nat \ {0}
ASSUME FaultsAssumption == Faults \subseteq FaultKinds

VARIABLES
    row,      \* the review_requests row; status "absent" until it is inserted
    exec,     \* the execution as the Temporal server sees it
    wf,       \* the ReviewApprovalWorkflow object and where run() stands
    act,      \* one activity per run() step or signal handler
    tries,    \* the attempts Temporal has started of each activity
    strays,   \* attempts it has given up on that may still reach Postgres
    hand,     \* the signal handler started by each call
    cancel,   \* a native Temporal cancel of the execution
    call,     \* where each service call stands
    args      \* what each service call asked for

actVars == <<act, tries, strays>>
temporalVars == <<exec, wf, actVars, hand, cancel>>
serviceVars == <<call, args>>
vars == <<row, temporalVars, serviceVars>>

-----------------------------------------------------------------------------
VALID_DECISIONS == {"APPROVED", "REJECTED", "CANCELLED"}

\* A decision string the service rejects, as is the signal handler.
Decisions == VALID_DECISIONS \cup {"BOGUS"}

Acts == {"request", "forced"} \cup Calls

Actors == Users \cup {"temporal-admin"}

Row == [status   : VALID_DECISIONS \cup {"absent", "PENDING_REVIEW"},
        closedBy : Actors \cup {"nobody"},
        closedAt : {"null", "now", "cancel"},
        linked   : BOOLEAN,            \* workflow_id IS NOT NULL
        payload  : Payloads]

Workflow == [pc        : {"new", "persisting", "waiting", "forcing", "returned"},
             closing   : BOOLEAN,
             finalized : BOOLEAN,
             status    : VALID_DECISIONS \cup {"PENDING_REVIEW"},
             closedBy  : Actors \cup {"nobody"},
             payload   : Payloads]

Phases == {"idle", "scheduled", "running", "written", "done", "failed", "dropped"}

Args == [kind     : {"none", "decision", "update"},
         decision : Decisions,
         actor    : Users,
         payload  : Payloads]

Closed == {"completed", "canceled", "failed", "terminated", "deleted"}

TypeOK ==
    /\ row \in Row
    /\ exec \in {"none", "running"} \cup Closed
    /\ wf \in Workflow
    /\ act \in [Acts -> Phases]
    /\ tries \in [Acts -> 0..MaxAttempts]
    /\ strays \in [Acts -> Nat]
    /\ hand \in [Calls -> {"none", "queued", "awaiting", "done"}]
    /\ cancel \in {"none", "requested", "delivered"}
    /\ call \in [Calls -> {"idle", "checked", "waiting", "reconciling", "confirmed",
                           "unconfirmed", "refused", "marked_cancelled", "raised", "raw"}]
    /\ args \in [Calls -> Args]

NoArgs == [kind |-> "none", decision |-> "BOGUS", actor |-> Requester, payload |-> InitPayload]

Init ==
    /\ row = [status |-> "absent", closedBy |-> "nobody", closedAt |-> "null",
              linked |-> FALSE, payload |-> InitPayload]
    /\ exec = "none"
    /\ wf = [pc |-> "new", closing |-> FALSE, finalized |-> FALSE,
             status |-> "PENDING_REVIEW", closedBy |-> "nobody", payload |-> InitPayload]
    /\ act = [a \in Acts |-> "idle"]
    /\ tries = [a \in Acts |-> 0]
    /\ strays = [a \in Acts |-> 0]
    /\ hand = [c \in Calls |-> "none"]
    /\ cancel = "none"
    /\ call = [c \in Calls |-> "idle"]
    /\ args = [c \in Calls |-> NoArgs]

-----------------------------------------------------------------------------
\* The statements of activities.py.

IsDecision(a) == a = "forced" \/ (a \in Calls /\ args[a].kind = "decision")

\* The columns persist_decision sets; closed_at is COALESCE($5, now()).
Verdict(a) ==
    IF a = "forced"
    THEN [status |-> "CANCELLED", closedBy |-> "temporal-admin", closedAt |-> "cancel"]
    ELSE [status |-> args[a].decision, closedBy |-> args[a].actor, closedAt |-> "now"]

RowVerdict == [status |-> row.status, closedBy |-> row.closedBy, closedAt |-> row.closedAt]

\* Mutant: ON CONFLICT (id) DO UPDATE.
UpsertRequest == [row EXCEPT !.status = "PENDING_REVIEW", !.linked = TRUE]

\* INSERT ... ON CONFLICT (id) DO NOTHING
persist_request ==
    IF row.status = "absent"
    THEN [row EXCEPT !.status = "PENDING_REVIEW", !.linked = TRUE]
    ELSE row

\* UPDATE ... WHERE id = $1: no guard on the status.
persist_decision(v) ==
    IF row.status = "absent"
    THEN row
    ELSE [row EXCEPT !.status = v.status, !.closedBy = v.closedBy, !.closedAt = v.closedAt]

\* Mutant: no guard on the status.
UpdateAnyRow(p) == IF row.status = "absent" THEN row ELSE [row EXCEPT !.payload = p]

\* UPDATE ... WHERE id = $1 AND status = 'PENDING_REVIEW'
persist_update(p) ==
    IF row.status = "PENDING_REVIEW" THEN [row EXCEPT !.payload = p] ELSE row

Statement(a) ==
    IF a = "request" THEN persist_request
    ELSE IF IsDecision(a) THEN persist_decision(Verdict(a))
    ELSE persist_update(args[a].payload)

-----------------------------------------------------------------------------
\* Activities, as Temporal runs them: at least once, at most MaxAttempts.

Schedule(a) ==
    /\ act' = [act EXCEPT ![a] = "scheduled"]
    /\ UNCHANGED <<tries, strays>>

\* When an execution closes, a scheduled task is dropped and nobody waits for
\* a result, but the statement of a running attempt may still be executed.
Close(e) ==
    /\ exec' = e
    /\ act' = [a \in Acts |-> IF act[a] \in {"scheduled", "running", "written"}
                             THEN "dropped" ELSE act[a]]
    /\ strays' = [a \in Acts |-> IF act[a] = "running" THEN strays[a] + 1 ELSE strays[a]]
    /\ UNCHANGED tries

\* Mutant: the attempts are not counted.
DispatchUncounted(a) ==
    /\ exec = "running"
    /\ act[a] = "scheduled"
    /\ act' = [act EXCEPT ![a] = "running"]
    /\ UNCHANGED <<row, exec, wf, tries, strays, hand, cancel, serviceVars>>

Dispatch(a) ==
    /\ exec = "running"
    /\ act[a] = "scheduled"
    /\ tries[a] < MaxAttempts
    /\ act' = [act EXCEPT ![a] = "running"]
    /\ tries' = [tries EXCEPT ![a] = @ + 1]
    /\ UNCHANGED <<row, exec, wf, strays, hand, cancel, serviceVars>>

Execute(a) ==
    /\ act[a] = "running"
    /\ row' = Statement(a)
    /\ act' = [act EXCEPT ![a] = "written"]
    /\ UNCHANGED <<exec, wf, tries, strays, hand, cancel, serviceVars>>

Report(a) ==
    /\ exec = "running"
    /\ act[a] = "written"
    /\ act' = [act EXCEPT ![a] = "done"]
    /\ UNCHANGED <<row, exec, wf, tries, strays, hand, cancel, serviceVars>>

\* The attempt raised, its worker died, or its start_to_close_timeout passed
\* with the statement still under way; Temporal retries or gives up.
AttemptLost(a) ==
    /\ "lost_attempt" \in Faults
    /\ exec = "running"
    /\ act[a] \in {"running", "written"}
    /\ act' = [act EXCEPT ![a] = IF tries[a] < MaxAttempts THEN "scheduled" ELSE "failed"]
    /\ \/ UNCHANGED strays
       \/ act[a] = "running" /\ strays' = [strays EXCEPT ![a] = @ + 1]
    /\ UNCHANGED <<row, exec, wf, tries, hand, cancel, serviceVars>>

StrayExecute(a) ==
    /\ strays[a] > 0
    /\ row' = Statement(a)
    /\ strays' = [strays EXCEPT ![a] = @ - 1]
    /\ UNCHANGED <<exec, wf, act, tries, hand, cancel, serviceVars>>

-----------------------------------------------------------------------------
\* ReviewApprovalWorkflow.run and its signal handlers.

\* Mutant: _claim_final forgets a decision that is being persisted.
CanClaimUnlessFinal == ~wf.finalized

\* _claim_final returns True: nobody has finalized or is finalizing.
CanClaim == ~wf.finalized /\ ~wf.closing

StartRun ==
    /\ exec = "running"
    /\ wf.pc = "new"
    /\ wf' = [wf EXCEPT !.pc = "persisting"]
    /\ Schedule("request")
    /\ UNCHANGED <<row, exec, hand, cancel, serviceVars>>

RequestPersisted ==
    /\ exec = "running"
    /\ wf.pc = "persisting"
    /\ act["request"] = "done"
    /\ wf' = [wf EXCEPT !.pc = "waiting"]
    /\ UNCHANGED <<row, exec, actVars, hand, cancel, serviceVars>>

\* Mutant: the ActivityError is swallowed and run() goes on.
RequestFailureSwallowed ==
    /\ exec = "running"
    /\ wf.pc = "persisting"
    /\ act["request"] = "failed"
    /\ wf' = [wf EXCEPT !.pc = "waiting"]
    /\ UNCHANGED <<row, exec, actVars, hand, cancel, serviceVars>>

\* persist_request is awaited outside the try: its ActivityError fails run().
RequestFailed ==
    /\ exec = "running"
    /\ wf.pc = "persisting"
    /\ act["request"] = "failed"
    /\ Close("failed")
    /\ UNCHANGED <<row, wf, hand, cancel, serviceVars>>

\* Mutant: run() waits for the claim only.
ReturnOnClaim ==
    /\ exec = "running"
    /\ wf.pc = "waiting"
    /\ wf.closing
    /\ wf' = [wf EXCEPT !.pc = "returned"]
    /\ Close("completed")
    /\ UNCHANGED <<row, hand, cancel, serviceVars>>

\* wait_condition(self._is_final) holds and run() returns its ReviewStatus.
RunReturns ==
    /\ exec = "running"
    /\ wf.pc = "waiting"
    /\ wf.finalized
    /\ wf' = [wf EXCEPT !.pc = "returned"]
    /\ Close("completed")
    /\ UNCHANGED <<row, hand, cancel, serviceVars>>

\* asyncio.CancelledError raised at the await of persist_request: nothing in
\* run() catches it.
CancelEscapes ==
    /\ wf.pc \in {"new", "persisting"}
    /\ Close("canceled")
    /\ UNCHANGED wf

\* At wait_condition the except block claims and persists CANCELLED itself ...
CancelClaims ==
    /\ wf.pc = "waiting"
    /\ CanClaim
    /\ wf' = [wf EXCEPT !.closing = TRUE, !.pc = "forcing"]
    /\ Schedule("forced")
    /\ UNCHANGED exec

\* ... or, when a signal handler holds the claim, run() simply returns.
CancelReturns ==
    /\ wf.pc = "waiting"
    /\ ~CanClaim
    /\ wf' = [wf EXCEPT !.pc = "returned"]
    /\ Close("completed")

DeliverCancel ==
    /\ exec = "running"
    /\ cancel = "requested"
    /\ cancel' = "delivered"
    /\ CancelEscapes \/ CancelClaims \/ CancelReturns
    /\ UNCHANGED <<row, hand, serviceVars>>

ForcedPersisted ==
    /\ exec = "running"
    /\ wf.pc = "forcing"
    /\ act["forced"] = "done"
    /\ wf' = [wf EXCEPT !.pc = "returned", !.finalized = TRUE,
                        !.status = "CANCELLED", !.closedBy = "temporal-admin"]
    /\ Close("completed")
    /\ UNCHANGED <<row, hand, cancel, serviceVars>>

ForcedFailed ==
    /\ exec = "running"
    /\ wf.pc = "forcing"
    /\ act["forced"] = "failed"
    /\ Close("failed")
    /\ UNCHANGED <<row, wf, hand, cancel, serviceVars>>

\* submit_decision up to its await: it finds the claim taken ...
IgnoreDecision(c) ==
    /\ ~CanClaim
    /\ hand' = [hand EXCEPT ![c] = "done"]
    /\ UNCHANGED <<exec, wf, actVars>>

\* Mutant: the decision is not checked against VALID_DECISIONS.
ClaimAnyDecision(c) ==
    /\ CanClaim
    /\ hand' = [hand EXCEPT ![c] = "awaiting"]
    /\ wf' = [wf EXCEPT !.closing = TRUE]
    /\ Schedule(c)
    /\ UNCHANGED exec

\* ... or claims and schedules persist_decision ...
ClaimDecision(c) ==
    /\ CanClaim
    /\ args[c].decision \in VALID_DECISIONS
    /\ hand' = [hand EXCEPT ![c] = "awaiting"]
    /\ wf' = [wf EXCEPT !.closing = TRUE]
    /\ Schedule(c)
    /\ UNCHANGED exec

\* ... or gives the claim back: the ApplicationError fails the execution.
RejectDecision(c) ==
    /\ CanClaim
    /\ args[c].decision \notin VALID_DECISIONS
    /\ hand' = [hand EXCEPT ![c] = "done"]
    /\ Close("failed")
    /\ UNCHANGED wf

HandleDecision(c) ==
    /\ exec = "running"
    /\ hand[c] = "queued"
    /\ args[c].kind = "decision"
    /\ IgnoreDecision(c) \/ ClaimDecision(c) \/ RejectDecision(c)
    /\ UNCHANGED <<row, cancel, serviceVars>>

\* Mutant: the handler finalizes the workflow before persist_decision ends.
FinalizeEarly(c) ==
    /\ exec = "running"
    /\ hand[c] = "awaiting"
    /\ args[c].kind = "decision"
    /\ wf' = [wf EXCEPT !.finalized = TRUE, !.status = args[c].decision,
                        !.closedBy = args[c].actor]
    /\ UNCHANGED <<row, exec, actVars, hand, cancel, serviceVars>>

\* Mutant: the handler records the status but not that it is final.
FinalizeForgotten(c) ==
    /\ exec = "running"
    /\ hand[c] = "awaiting"
    /\ args[c].kind = "decision"
    /\ act[c] = "done"
    /\ hand' = [hand EXCEPT ![c] = "done"]
    /\ wf' = [wf EXCEPT !.status = args[c].decision, !.closedBy = args[c].actor]
    /\ UNCHANGED <<row, exec, actVars, cancel, serviceVars>>

DecisionPersisted(c) ==
    /\ exec = "running"
    /\ hand[c] = "awaiting"
    /\ args[c].kind = "decision"
    /\ act[c] = "done"
    /\ hand' = [hand EXCEPT ![c] = "done"]
    /\ wf' = [wf EXCEPT !.finalized = TRUE, !.status = args[c].decision,
                        !.closedBy = args[c].actor]
    /\ UNCHANGED <<row, exec, actVars, cancel, serviceVars>>

\* update_payload asks _is_final only: it may start while a decision is being
\* persisted.
HandleUpdate(c) ==
    /\ exec = "running"
    /\ hand[c] = "queued"
    /\ args[c].kind = "update"
    /\ \/ /\ wf.finalized
          /\ hand' = [hand EXCEPT ![c] = "done"]
          /\ UNCHANGED actVars
       \/ /\ ~wf.finalized
          /\ hand' = [hand EXCEPT ![c] = "awaiting"]
          /\ Schedule(c)
    /\ UNCHANGED <<row, exec, wf, cancel, serviceVars>>

UpdatePersisted(c) ==
    /\ exec = "running"
    /\ hand[c] = "awaiting"
    /\ args[c].kind = "update"
    /\ act[c] = "done"
    /\ hand' = [hand EXCEPT ![c] = "done"]
    /\ wf' = [wf EXCEPT !.payload = args[c].payload]
    /\ UNCHANGED <<row, exec, actVars, cancel, serviceVars>>

\* The ActivityError of a handler's activity fails the execution.
HandlerFailed(c) ==
    /\ exec = "running"
    /\ hand[c] = "awaiting"
    /\ act[c] = "failed"
    /\ hand' = [hand EXCEPT ![c] = "done"]
    /\ Close("failed")
    /\ UNCHANGED <<row, wf, cancel, serviceVars>>

-----------------------------------------------------------------------------
\* workflow/service.py

\* create_review: start_workflow.  Its wait for the row changes nothing, and it
\* returns the id whether the row has appeared or the wait timed out.
CreateReview ==
    /\ exec = "none"
    /\ exec' = "running"
    /\ UNCHANGED <<row, wf, actVars, hand, cancel, serviceVars>>

\* Mutant: the row is not checked before the signal.
MayDecideUnchecked(d, u) == d \in VALID_DECISIONS /\ (d = "CANCELLED" => u = Requester)

\* Mutant: anybody may cancel.
MayDecideAnybody(d, u) == d \in VALID_DECISIONS /\ row.status = "PENDING_REVIEW"

\* The checks submit_decision makes before it signals.
MayDecide(d, u) ==
    /\ d \in VALID_DECISIONS
    /\ row.status = "PENDING_REVIEW"
    /\ d = "CANCELLED" => u = Requester

SubmitDecision(c, d, u) ==
    /\ call[c] = "idle"
    /\ \/ /\ MayDecide(d, u)
          /\ call' = [call EXCEPT ![c] = "checked"]
          /\ args' = [args EXCEPT ![c] = [kind |-> "decision", decision |-> d,
                                          actor |-> u, payload |-> InitPayload]]
       \/ /\ ~MayDecide(d, u)
          /\ call' = [call EXCEPT ![c] = "refused"]
          /\ UNCHANGED args
    /\ UNCHANGED <<row, temporalVars>>

MayUpdate(u) == row.status = "PENDING_REVIEW" /\ u = Requester

UpdateReview(c, u, p) ==
    /\ call[c] = "idle"
    /\ \/ /\ MayUpdate(u)
          /\ call' = [call EXCEPT ![c] = "checked"]
          /\ args' = [args EXCEPT ![c] = [kind |-> "update", decision |-> "BOGUS",
                                          actor |-> u, payload |-> p]]
       \/ /\ ~MayUpdate(u)
          /\ call' = [call EXCEPT ![c] = "refused"]
          /\ UNCHANGED args
    /\ UNCHANGED <<row, temporalVars>>

\* handle.signal returns: Temporal has the signal, the handler has not run.
SignalAccepted(c) ==
    /\ call[c] = "checked"
    /\ exec = "running"
    /\ call' = [call EXCEPT ![c] = "waiting"]
    /\ hand' = [hand EXCEPT ![c] = "queued"]
    /\ UNCHANGED <<row, exec, wf, actVars, cancel, args>>

\* Mutant: every RPCError is taken for NOT_FOUND.
SignalFailed(c) ==
    /\ call[c] = "checked"
    /\ exec \in Closed \/ "rpc_error" \in Faults
    /\ call' = [call EXCEPT ![c] = "reconciling"]
    /\ UNCHANGED <<row, temporalVars, args>>

\* RPCError NOT_FOUND: the execution is closed or deleted.
SignalNotFound(c) ==
    /\ call[c] = "checked"
    /\ exec \in Closed
    /\ call' = [call EXCEPT ![c] = "reconciling"]
    /\ UNCHANGED <<row, temporalVars, args>>

\* Any other RPCError is raised; the signal may have been accepted all the same.
SignalRaised(c) ==
    /\ "rpc_error" \in Faults
    /\ call[c] = "checked"
    /\ call' = [call EXCEPT ![c] = "raised"]
    /\ \/ UNCHANGED hand
       \/ exec = "running" /\ hand' = [hand EXCEPT ![c] = "queued"]
    /\ UNCHANGED <<row, exec, wf, actVars, cancel, args>>

\* Mutant: the reconciling UPDATE has no guard on the status.
ReconcileAnyRow ==
    [row EXCEPT !.status = "CANCELLED", !.closedBy = "temporal-admin",
                !.closedAt = "null", !.linked = FALSE]

\* The statement of _reconcile_missing_workflow, then the ValueError that
\* tells the caller the review has been marked cancelled.
_reconcile_missing_workflow ==
    IF row.status = "PENDING_REVIEW"
    THEN [row EXCEPT !.status = "CANCELLED", !.closedBy = "temporal-admin",
                     !.closedAt = "null", !.linked = FALSE]
    ELSE row

Reconcile(c) ==
    /\ call[c] = "reconciling"
    /\ row' = _reconcile_missing_workflow
    /\ call' = [call EXCEPT ![c] = "marked_cancelled"]
    /\ UNCHANGED <<temporalVars, args>>

\* Mutant: the poll takes any decision for its own.
ConfirmedByAnyDecision(c) ==
    IF args[c].kind = "decision" THEN row.status # "PENDING_REVIEW"
                                 ELSE row.payload = args[c].payload

\* _wait_until: a poll satisfies the predicate, or the deadline passes; both
\* return to a caller that is told nothing of the difference.
Confirmed(c) ==
    IF args[c].kind = "decision" THEN row.status = args[c].decision
                                 ELSE row.payload = args[c].payload

WaitConfirmed(c) ==
    /\ call[c] = "waiting"
    /\ Confirmed(c)
    /\ call' = [call EXCEPT ![c] = "confirmed"]
    /\ UNCHANGED <<row, temporalVars, args>>

WaitTimedOut(c) ==
    /\ call[c] = "waiting"
    /\ call' = [call EXCEPT ![c] = "unconfirmed"]
    /\ UNCHANGED <<row, temporalVars, args>>

-----------------------------------------------------------------------------
\* What an administrator does in Temporal itself.

NativeCancel ==
    /\ "native_cancel" \in Faults
    /\ exec = "running"
    /\ cancel = "none"
    /\ cancel' = "requested"
    /\ UNCHANGED <<row, exec, wf, actVars, hand, serviceVars>>

\* `temporal workflow terminate` and `temporal workflow delete`.
AdminKill(e) ==
    /\ "admin_kill" \in Faults
    /\ exec = "running"
    /\ Close(e)
    /\ UNCHANGED <<row, wf, hand, cancel, serviceVars>>

\* A submit_decision signal sent with Temporal's own tools to a review that is
\* listed: none of the service's checks apply.
RawSignal(c, d, u) ==
    /\ "raw_signal" \in Faults
    /\ exec = "running"
    /\ row.status # "absent"
    /\ call[c] = "idle"
    /\ call' = [call EXCEPT ![c] = "raw"]
    /\ args' = [args EXCEPT ![c] = [kind |-> "decision", decision |-> d,
                                    actor |-> u, payload |-> InitPayload]]
    /\ hand' = [hand EXCEPT ![c] = "queued"]
    /\ UNCHANGED <<row, exec, wf, actVars, cancel>>

-----------------------------------------------------------------------------
\* What a worker does: workflow tasks and activity attempts.
WorkflowTask ==
    \/ StartRun \/ RequestPersisted \/ RequestFailed \/ RunReturns
    \/ DeliverCancel \/ ForcedPersisted \/ ForcedFailed
    \/ \E c \in Calls : \/ HandleDecision(c) \/ DecisionPersisted(c)
                        \/ HandleUpdate(c) \/ UpdatePersisted(c)
                        \/ HandlerFailed(c)

ActivityTask == \E a \in Acts : Dispatch(a) \/ Execute(a) \/ Report(a)

Worker == WorkflowTask \/ ActivityTask

Service ==
    \/ CreateReview
    \/ \E c \in Calls :
        \/ \E d \in Decisions, u \in Users : SubmitDecision(c, d, u)
        \/ \E u \in Users, p \in Payloads : UpdateReview(c, u, p)
        \/ SignalAccepted(c) \/ SignalNotFound(c) \/ SignalRaised(c)
        \/ Reconcile(c) \/ WaitConfirmed(c) \/ WaitTimedOut(c)

Environment ==
    \/ NativeCancel
    \/ \E e \in {"terminated", "deleted"} : AdminKill(e)
    \/ \E c \in Calls, d \in Decisions, u \in Users : RawSignal(c, d, u)
    \/ \E a \in Acts : AttemptLost(a) \/ StrayExecute(a)

Next == Worker \/ Service \/ Environment

Spec == Init /\ [][Next]_vars

\* A worker keeps polling the task queue; callers and administrators owe nothing.
FairSpec == Spec /\ WF_vars(Worker)

-----------------------------------------------------------------------------
\* Properties.

Terminal == row.status \in VALID_DECISIONS

\* The claim of _claim_final is exclusive: of all the decision signals and the
\* native cancel, at most one ever schedules persist_decision, although they
\* interleave at every await.
SingleWinner ==
    \A a, b \in Acts :
        (IsDecision(a) /\ IsDecision(b) /\ act[a] # "idle" /\ act[b] # "idle")
            => a = b

\* What get_status answers once the workflow considers itself final is what
\* the row says, whatever retries, stray attempts and reconciliations follow.
FinalizedIsPersisted ==
    wf.finalized => row.status = wf.status /\ row.closedBy = wf.closedBy

\* An execution nobody cancelled completes only after its verdict is in the
\* row, so that lazy reconciliation can never relabel it.
CompletedIsPersisted ==
    (exec = "completed" /\ cancel = "none")
        => Terminal /\ row.linked /\ row.status = wf.status

\* A decision the service confirmed to its caller is still the row's status,
\* unless the row was detached from a lost execution.
ConfirmedDecisionStands ==
    \A c \in Calls :
        (call[c] = "confirmed" /\ args[c].kind = "decision" /\ row.linked)
            => row.status = args[c].decision

\* _reconcile_missing_workflow clears workflow_id only for an execution that
\* can no longer be signalled; what was checked before the signal still holds.
DetachedMeansClosed ==
    (row.status # "absent" /\ ~row.linked) => exec \in Closed

\* A signal handler always finds the row it updates (an UPDATE of a missing
\* row would be lost silently and the execution finalized all the same).
HandlerFindsRow ==
    \A c \in Calls : hand[c] # "none" => row.status # "absent"

\* CANCELLED is only ever recorded for the requester or for Temporal itself.
CancelledByRequester ==
    ("raw_signal" \notin Faults /\ row.status = "CANCELLED")
        => row.closedBy \in {Requester, "temporal-admin"}

\* Once the row carries the workflow's decision no step changes its verdict,
\* its payload or its workflow_id.
DecidedRowIsFinal ==
    [][(Terminal /\ row.linked) => row' = row]_vars

\* An edit never lands on a row that has been decided or reconciled, however
\* late its attempt executes: the guard of persist_update.
PayloadFrozen ==
    [][Terminal => row'.payload = row.payload]_vars

\* Every decision signal Temporal accepted ends in a completed execution with
\* a decided row, or in a failed execution when all attempts were lost.
AcceptedDecisionCloses ==
    \A c \in Calls :
        (hand[c] = "queued" /\ args[c].kind = "decision")
            ~> (exec = "failed" \/ (exec = "completed" /\ Terminal))

\* A started workflow inserts its row or fails.
CreatedReviewAppears ==
    (exec = "running") ~> (exec = "failed" \/ row.status # "absent")

\* The row of this review behaves as ReviewLifecycle says: however calls,
\* handlers, retries and administrators interleave, one verdict is claimed and
\* only that verdict is ever written by the execution.
Started(a) == act[a] # "idle"

Deciding(a) == IsDecision(a) /\ Started(a)

Stage ==
    IF row.status = "absent" THEN "absent"
    ELSE IF row.status = "PENDING_REVIEW" THEN "pending"
    ELSE IF row.linked THEN "decided" ELSE "detached"

NoVerdict == [status |-> "PENDING_REVIEW", closedBy |-> "nobody", closedAt |-> "null"]

Winner ==
    IF \E a \in Acts : Deciding(a) THEN Verdict(CHOOSE a \in Acts : Deciding(a))
                               ELSE NoVerdict

Lifecycle == INSTANCE ReviewLifecycle WITH
    Verdicts <- [status : VALID_DECISIONS, closedBy : Actors, closedAt : {"now", "cancel"}],
    Lost <- [status |-> "CANCELLED", closedBy |-> "temporal-admin", closedAt |-> "null"],
    stage <- Stage,
    verdict <- IF row.status \in {"absent", "PENDING_REVIEW"} THEN NoVerdict ELSE RowVerdict,
    payload <- row.payload,
    winner <- Winner

\* The specification of the lifecycle under that mapping.
ImplementsLifecycle == Lifecycle!Spec

\* What those who decide a review by signals see of it: whose decision is claimed
\* and which, what the row records, and whose signals wait for their handlers.
Author ==
    IF \E a \in Acts : Deciding(a)
    THEN LET a == CHOOSE a \in Acts : Deciding(a) IN IF a = "forced" THEN "temporal-admin" ELSE a
    ELSE "nobody"

Claimed == IF Winner = NoVerdict THEN "NONE" ELSE Winner.status

Recorded ==
    IF ~Terminal THEN "NONE"
    ELSE IF ~row.linked /\ row.closedAt = "null" THEN "LOST" ELSE row.status

TakesSignals == exec \notin Closed

Mail == {c \in Calls : TakesSignals /\ hand[c] = "queued" /\ args[c].kind = "decision"}

Contract == INSTANCE SignalledReview WITH
    Requests <- Calls, Asks <- Decisions, Valid <- VALID_DECISIONS,
    stage <- Stage, verdict <- Recorded, winner <- Claimed, author <- Author,
    running <- TakesSignals, mail <- Mail, asked <- [c \in Calls |-> args[c].decision]

\* The execution keeps the contract on which they rely, whatever becomes of it:
\* retries, stray attempts, kills and cancels included.
KeepsContract == Contract!Spec

\* What run() and each handler are awaiting.
Awaited(a) ==
    \/ a = "request" /\ wf.pc = "persisting"
    \/ a = "forced" /\ wf.pc = "forcing"
    \/ a \in Calls /\ hand[a] = "awaiting"

\* The activity has an outcome, or an attempt that a worker can carry on.
Answering(a) ==
    \/ act[a] = "scheduled" /\ tries[a] < MaxAttempts
    \/ act[a] \in {"running", "written", "done", "failed"}

\* Nothing is awaited in vain: whatever an execution awaits is under way or has
\* an outcome, and while run() waits for a verdict that is claimed and not final,
\* somebody is about to make it final.  No interleaving of signals, cancels and
\* lost attempts leaves an execution that waits for nothing.
NobodyWaitsInVain ==
    exec = "running" =>
        /\ \A a \in Acts : Awaited(a) => Answering(a)
        /\ wf.closing => wf.finalized \/ \E a \in Acts : IsDecision(a) /\ Awaited(a)

\* How much can still happen to an activity: three steps for each attempt left.
Effort(a) ==
    CASE act[a] = "idle"      -> 3 * MaxAttempts + 1
      [] act[a] = "scheduled" -> 3 * (MaxAttempts - tries[a])
      [] act[a] = "running"   -> 3 * (MaxAttempts - tries[a]) + 2
      [] act[a] = "written"   -> 3 * (MaxAttempts - tries[a]) + 1
      [] OTHER                -> 0

\* Every activity comes to an end: no step starts it anew, and each step it makes,
\* retries after losses included, uses up some of a finite effort.
AttemptsRunOut ==
    [][\A a \in Acts : act'[a] # act[a] => Effort(a)' < Effort(a)]_vars

\* README.md:571 and workflows.py:111: when the execution is complete the row
\* has left PENDING_REVIEW.
CompletedLeavesPending == exec = "completed" => Terminal

\* service.py:284: the caller is told that the review "has been marked cancelled".
MarkedCancelledIsTrue ==
    \A c \in Calls : call[c] = "marked_cancelled" => row.status = "CANCELLED"

-----------------------------------------------------------------------------
\* The inductive invariant behind the safety properties.

\* A decision is being persisted, or has been, only under the claim.
ClaimInv ==
    /\ SingleWinner
    /\ \A a \in Acts : (IsDecision(a) /\ Started(a)) => wf.closing
    /\ wf.finalized => wf.closing

\* What a call has asked, what its handler has done and what its activity has
\* done keep step; only valid decisions are ever persisted.
CallInv ==
    \A c \in Calls :
        /\ call[c] \in {"idle", "checked", "reconciling", "marked_cancelled", "refused"}
            => hand[c] = "none"
        /\ hand[c] \in {"none", "queued"} => ~Started(c)
        /\ call[c] \notin {"idle", "refused"} => row.status # "absent"
        /\ call[c] = "reconciling" => exec \in Closed
        /\ (IsDecision(c) /\ Started(c)) => args[c].decision \in VALID_DECISIONS
        /\ (IsDecision(c) /\ args[c].decision = "CANCELLED" /\ "raw_signal" \notin Faults)
            => args[c].actor = Requester

\* Attempts exist only for activities that were scheduled, and a decision that
\* was written is still what the row says.
ActivityInv ==
    \A a \in Acts :
        /\ strays[a] > 0 => Started(a)
        /\ (IsDecision(a) /\ act[a] \in {"written", "done"}) => RowVerdict = Verdict(a)

\* run() passes persist_request only once the row is there.
RunInv ==
    /\ act["request"] \in {"written", "done"} => row.status # "absent"
    /\ wf.pc \in {"waiting", "forcing", "returned"} => row.status # "absent"
    /\ Started("forced") => row.status # "absent"

\* Where the row's verdict comes from.
RowInv ==
    /\ row.status = "absent" => ~row.linked
    /\ row.status = "PENDING_REVIEW" => row.linked
    /\ ~Terminal => row.closedBy = "nobody" /\ row.closedAt = "null"
    /\ Terminal =>
        \/ \E a \in Acts : IsDecision(a) /\ Started(a) /\ RowVerdict = Verdict(a)
        \/ ~row.linked /\ RowVerdict = [status |-> "CANCELLED", closedBy |-> "temporal-admin",
                                        closedAt |-> "null"]

\* The workflow finalizes itself only after its verdict was written.
FinalInv ==
    /\ wf.finalized =>
        /\ row.linked
        /\ \E a \in Acts : /\ IsDecision(a) /\ act[a] = "done"
                          /\ wf.status = Verdict(a).status /\ wf.closedBy = Verdict(a).closedBy
    /\ (exec = "completed" /\ cancel = "none") => wf.finalized

\* Why no wait is in vain.  An activity is scheduled with attempts left, dropped
\* only with its execution, and awaited only once it was started ...
AttemptInv ==
    \A a \in Acts :
        /\ ~Started(a) => tries[a] = 0
        /\ act[a] = "scheduled" => tries[a] < MaxAttempts
        /\ act[a] = "dropped" => exec \in Closed
        /\ Awaited(a) => Started(a)

\* ... run() starts once and its end is the execution's ...
StartInv ==
    /\ exec = "none" => wf.pc = "new" /\ row.status = "absent" /\ \A a \in Acts : ~Started(a)
    /\ wf.pc = "new" => ~Started("request")
    /\ wf.pc = "returned" => exec \in Closed

\* ... and a claim is kept by a decision that somebody awaits until it is final.
HolderInv ==
    /\ wf.closing => \E a \in Acts : Deciding(a)
    /\ exec = "running" =>
        /\ Started("forced") => wf.pc = "forcing"
        /\ \A c \in Calls : Deciding(c) => hand[c] = "awaiting" \/ wf.finalized

WaitInv == AttemptInv /\ StartInv /\ HolderInv

IInv ==
    /\ TypeOK /\ ClaimInv /\ CallInv /\ ActivityInv /\ RunInv /\ RowInv /\ FinalInv
    /\ ConfirmedDecisionStands /\ DetachedMeansClosed
=============================================================================

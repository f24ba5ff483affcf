---------------------- MODULE ReviewWorkflowProofs ----------------------
(***************************************************************************)
(* Proofs about ReviewWorkflow, for any set of calls, users and payloads,  *)
(* any number of attempts and any choice of faults.                        *)
(*                                                                         *)
(* The inductive invariant IInv ties the claim flag, the activities and    *)
(* the row together.  The proof that a step keeps it has one lemma per     *)
(* action.  All of them rest on one observation: the set of scheduled      *)
(* decisions (Deciding) changes in the two steps that claim, and never     *)
(* again (SameDeciders).                                                   *)
(***************************************************************************)
EXTENDS ReviewWorkflow, TLAPS

USE DEF Closed, VALID_DECISIONS, serviceVars, actVars, temporalVars

-----------------------------------------------------------------------------
\* How the invariant survives a step that leaves the decisions alone.

\* The scheduled decisions are the same ones, with the same verdicts.
SameDeciders ==
    \A a \in Acts :
        /\ Deciding(a)' <=> Deciding(a)
        /\ Deciding(a) => Verdict(a)' = Verdict(a)

\* A decision is scheduled by whoever finds the claim free.
NewDecider ==
    /\ exec = "running"
    /\ CanClaim
    /\ row.status # "absent"
    /\ row' = row
    /\ \E a \in Acts : Deciding(a)'

\* The claim outlives any step that schedules no decision.
LEMMA ClaimKept ==
    ASSUME ClaimInv, SameDeciders, wf'.closing = wf.closing,
           wf'.finalized => wf.closing
    PROVE  ClaimInv'
BY DEF ClaimInv, SingleWinner, SameDeciders, Deciding, Started

\* So does what is known of a row that is not touched ...
LEMMA RowKept ==
    ASSUME RowInv, SameDeciders, row' = row
    PROVE  RowInv'
BY DEF RowInv, SameDeciders, Deciding, Started, RowVerdict, Terminal

\* ... and of the activities ...
LEMMA ActivityKept ==
    ASSUME ActivityInv, SameDeciders, row' = row,
           \A a \in Acts : /\ strays'[a] > 0 => Started(a)'
                           /\ act'[a] \in {"written", "done"} => act[a] \in {"written", "done"}
    PROVE  ActivityInv'
BY DEF ActivityInv, SameDeciders, Deciding, Started, RowVerdict

\* ... and of a finalized workflow.
LEMMA FinalKept ==
    ASSUME FinalInv, SameDeciders,
           wf.finalized => row'.linked,
           wf'.finalized = wf.finalized, wf'.status = wf.status, wf'.closedBy = wf.closedBy,
           \A a \in Acts : (IsDecision(a) /\ act[a] = "done") => act'[a] = "done",
           (exec' = "completed" /\ cancel' = "none") => wf.finalized
    PROVE  FinalInv'
BY DEF FinalInv, SameDeciders, Deciding, Started

-----------------------------------------------------------------------------
\* What the statements of activities.py do to a row.

\* A row with the same columns is the same row.
LEMMA RowExtensional ==
    ASSUME NEW r \in Row, NEW s \in Row,
           r.status = s.status, r.closedBy = s.closedBy, r.closedAt = s.closedAt,
           r.linked = s.linked, r.payload = s.payload
    PROVE  r = s
BY DEF Row

\* The columns persist_decision sets are columns of the row.
LEMMA RowUpdateType ==
    ASSUME NEW r \in Row, NEW v \in VALID_DECISIONS, NEW b \in Actors, NEW t \in {"now", "cancel", "null"}
    PROVE  [r EXCEPT !.status = v, !.closedBy = b, !.closedAt = t] \in Row
BY DEF Row

\* Every statement leaves a row.
LEMMA StatementType ==
    ASSUME TypeOK, NEW a \in Acts,
           a \in Calls /\ IsDecision(a) => args[a].decision \in VALID_DECISIONS
    PROVE  Statement(a) \in Row
<1>1. CASE a = "request"
  BY <1>1 DEF Statement, persist_request, TypeOK, Row
<1>2. CASE a # "request" /\ IsDecision(a)
  <2>1. /\ Verdict(a).status \in VALID_DECISIONS
        /\ Verdict(a).closedBy \in Actors
        /\ Verdict(a).closedAt \in {"now", "cancel"}
    BY <1>2 DEF Verdict, IsDecision, TypeOK, Args, Actors
  <2>2. persist_decision(Verdict(a)) \in Row
    BY <2>1, RowUpdateType DEF persist_decision, TypeOK
  <2>. QED BY <1>2, <2>2 DEF Statement
<1>3. CASE a # "request" /\ ~IsDecision(a)
  <2>1. args[a].payload \in Payloads
    BY <1>3 DEF IsDecision, TypeOK, Args, Acts
  <2>. QED BY <1>3, <2>1 DEF Statement, persist_update, TypeOK, Row
<1>. QED BY <1>1, <1>2, <1>3

\* The effect of the statement of any started activity, live or stray: a
\* decided row is left as it is, since only the claimed verdict is ever written.
LEMMA StatementEffect ==
    ASSUME IInv, NEW a \in Acts, Started(a), row' = Statement(a)
    PROVE  /\ row' \in Row
           /\ row.status # "absent" => row'.status # "absent" /\ row'.linked = row.linked
           /\ row.status = "absent" =>
                \/ row' = row
                \/ /\ row'.status = "PENDING_REVIEW" /\ row'.linked
                   /\ row'.closedBy = row.closedBy /\ row'.closedAt = row.closedAt
           /\ (Terminal /\ row.linked) => row' = row
           /\ Terminal => row'.payload = row.payload
           /\ Deciding(a) => row.status # "absent" /\ RowVerdict' = Verdict(a)
           /\ (~Deciding(a) /\ row.status # "absent") => RowVerdict' = RowVerdict
           /\ a = "request" => row'.status # "absent"
<1>1. row \in Row /\ row' \in Row
  BY StatementType DEF IInv, TypeOK, CallInv
<1>2. CASE a = "request"
  BY <1>1, <1>2, CallsAssumption DEF Statement, persist_request, Row, RowVerdict,
     Terminal, Deciding, IsDecision
<1>3. CASE a # "request" /\ IsDecision(a)
  <2>1. Deciding(a) /\ row.status # "absent"
    BY <1>3 DEF Deciding, IInv, CallInv, RunInv, IsDecision, Started, TypeOK, Acts
  <2>2. row' = [row EXCEPT !.status = Verdict(a).status, !.closedBy = Verdict(a).closedBy,
                           !.closedAt = Verdict(a).closedAt]
    BY <1>3, <2>1 DEF Statement, persist_decision
  <2>3. /\ row'.status = Verdict(a).status /\ row'.closedBy = Verdict(a).closedBy
        /\ row'.closedAt = Verdict(a).closedAt
        /\ row'.linked = row.linked /\ row'.payload = row.payload
    BY <1>1, <2>2 DEF Row
  <2>4. Verdict(a) = [status |-> Verdict(a).status, closedBy |-> Verdict(a).closedBy,
                      closedAt |-> Verdict(a).closedAt]
    BY DEF Verdict
  <2>5. RowVerdict' = Verdict(a)
    BY <2>3, <2>4 DEF RowVerdict
  <2>6. Verdict(a).status \in VALID_DECISIONS
    BY <1>3, <2>1 DEF Verdict, IInv, CallInv, IsDecision, Deciding, Started
  <2>7. ASSUME Terminal, row.linked PROVE row' = row
    <3>1. PICK b \in Acts : IsDecision(b) /\ Started(b) /\ RowVerdict = Verdict(b)
      BY <2>7 DEF IInv, RowInv
    <3>2. b = a
      BY <2>1, <3>1 DEF IInv, ClaimInv, SingleWinner, Deciding, Started
    <3>3. /\ row.status = Verdict(a).status /\ row.closedBy = Verdict(a).closedBy
          /\ row.closedAt = Verdict(a).closedAt
      BY <3>1, <3>2, <2>4 DEF RowVerdict
    <3>. QED BY <1>1, <2>3, <3>3, RowExtensional
  <2>. QED BY <1>1, <1>3, <2>1, <2>3, <2>5, <2>6, <2>7
<1>4. CASE a # "request" /\ ~IsDecision(a)
  <2>1. row' = IF row.status = "PENDING_REVIEW" THEN [row EXCEPT !.payload = args[a].payload] ELSE row
    BY <1>4 DEF Statement, persist_update
  <2>2. /\ row'.status = row.status /\ row'.closedBy = row.closedBy
        /\ row'.closedAt = row.closedAt /\ row'.linked = row.linked
    BY <1>1, <2>1 DEF Row
  <2>3. row.status # "PENDING_REVIEW" => row' = row
    BY <2>1
  <2>4. RowVerdict' = RowVerdict
    BY <2>2 DEF RowVerdict
  <2>. QED BY <1>1, <1>4, <2>2, <2>3, <2>4 DEF Terminal, Deciding
<1>. QED BY <1>2, <1>3, <1>4

\* A verdict that is being persisted is a valid one, and once it was written
\* the row is closed.
LEMMA DecidingVerdict ==
    ASSUME IInv, NEW a \in Acts, Deciding(a)
    PROVE  /\ Verdict(a).status \in VALID_DECISIONS
           /\ row.status # "absent"
           /\ act[a] \in {"written", "done"} => Terminal /\ RowVerdict = Verdict(a)
<1>1. Verdict(a).status \in VALID_DECISIONS
  BY DEF Verdict, IInv, CallInv, Deciding, IsDecision
<1>2. row.status # "absent"
  BY DEF IInv, CallInv, RunInv, Deciding, IsDecision, Started, TypeOK
<1>3. act[a] \in {"written", "done"} => RowVerdict = Verdict(a)
  BY DEF IInv, ActivityInv, Deciding
<1>. QED BY <1>1, <1>2, <1>3 DEF RowVerdict, Terminal

\* A statement of the claimed activity writes its verdict, any other statement
\* leaves the verdict alone.
LEMMA StatementKeeps ==
    ASSUME IInv, NEW a \in Acts, Started(a), row' = Statement(a)
    PROVE  /\ \A b \in Acts : (Deciding(b) /\ RowVerdict = Verdict(b)) => RowVerdict' = Verdict(b)
           /\ Terminal' => \/ \E b \in Acts : Deciding(b) /\ RowVerdict' = Verdict(b)
                           \/ ~row'.linked /\ RowVerdict' = [status |-> "CANCELLED",
                                 closedBy |-> "temporal-admin", closedAt |-> "null"]
           /\ ~Terminal' => row'.closedBy = "nobody" /\ row'.closedAt = "null"
<1>1. CASE Deciding(a)
  <2>1. RowVerdict' = Verdict(a) /\ Verdict(a).status \in VALID_DECISIONS
    BY <1>1, StatementEffect, DecidingVerdict
  <2>2. Terminal'
    BY <2>1 DEF RowVerdict, Terminal
  <2>3. \A b \in Acts : Deciding(b) => b = a
    BY <1>1 DEF IInv, ClaimInv, SingleWinner, Deciding, Started
  <2>. QED BY <1>1, <2>1, <2>2, <2>3
<1>2. CASE ~Deciding(a)
  <2>1. CASE row.status = "absent"
    <3>1. /\ row'.status \in {"absent", "PENDING_REVIEW"}
          /\ row'.closedBy = row.closedBy /\ row'.closedAt = row.closedAt
      BY <2>1, StatementEffect
    <3>2. \A b \in Acts : ~Deciding(b)
      BY <2>1, DecidingVerdict
    <3>. QED BY <2>1, <3>1, <3>2 DEF IInv, RowInv, Terminal
  <2>2. CASE row.status # "absent"
    <3>1. RowVerdict' = RowVerdict /\ row'.linked = row.linked
      BY <1>2, <2>2, StatementEffect
    <3>2. /\ row'.status = row.status /\ row'.closedBy = row.closedBy
          /\ row'.closedAt = row.closedAt
      BY <3>1 DEF RowVerdict
    <3>. QED BY <3>1, <3>2 DEF IInv, RowInv, Terminal, Deciding
  <2>. QED BY <2>1, <2>2
<1>. QED BY <1>1, <1>2

-----------------------------------------------------------------------------
\* One lemma per action.

\* Scheduling persist_request is not scheduling a decision.
LEMMA StartRunStep ==
    ASSUME IInv, StartRun
    PROVE  IInv' /\ SameDeciders
<1>1. row' = row
  BY DEF StartRun, Schedule
<1>2. TypeOK'
  BY DEF StartRun, Schedule, IInv, TypeOK, Phases, Acts, Started, Workflow
<1>3. SameDeciders
  BY CallsAssumption DEF StartRun, Schedule, IInv, CallInv, SameDeciders, Deciding,
     IsDecision, Started, Verdict, TypeOK, Phases, Acts
<1>4. ClaimInv'
  BY <1>3, ClaimKept DEF StartRun, Schedule, IInv, ClaimInv, TypeOK, Workflow
<1>5. CallInv'
  BY CallsAssumption, <1>1 DEF StartRun, Schedule, IInv, CallInv, IsDecision, Started,
     TypeOK, Phases, Acts
<1>6. ActivityInv'
  BY <1>3, <1>1, ActivityKept, CallsAssumption DEF StartRun, Schedule, IInv, ActivityInv,
     Started, TypeOK, Phases, Acts
<1>7. RunInv'
  BY CallsAssumption, <1>1 DEF StartRun, Schedule, IInv, RunInv, CallInv, Started, TypeOK,
     Phases, Acts
<1>8. RowInv'
  BY <1>3, <1>1, RowKept DEF IInv
<1>9. FinalInv'
  <2>1. \A a \in Acts : (IsDecision(a) /\ act[a] = "done") => act'[a] = "done"
    BY CallsAssumption DEF StartRun, Schedule, IsDecision, IInv, TypeOK, Phases
  <2>. QED BY <1>3, <1>1, <2>1, FinalKept DEF StartRun, Schedule, IInv, FinalInv, TypeOK,
     Workflow
<1>10. ConfirmedDecisionStands'
  BY DEF StartRun, Schedule, IInv, ConfirmedDecisionStands, CallInv, IsDecision, Started,
     TypeOK, Phases, Acts
<1>11. DetachedMeansClosed'
  BY DEF StartRun, Schedule, IInv, DetachedMeansClosed, CallInv, RowInv, TypeOK, Phases,
     Acts
<1>. QED BY <1>2, <1>3, <1>4, <1>5, <1>6, <1>7, <1>8, <1>9, <1>10, <1>11 DEF IInv

\* run() reaches wait_condition: the insert was reported, so the row is there.
LEMMA RequestPersistedStep ==
    ASSUME IInv, RequestPersisted
    PROVE  IInv' /\ SameDeciders
<1>1. row' = row
  BY DEF RequestPersisted
<1>2. TypeOK'
  BY DEF RequestPersisted, IInv, TypeOK, Phases, Acts, Started, Workflow
<1>3. SameDeciders
  BY CallsAssumption DEF RequestPersisted, IInv, CallInv, SameDeciders, Deciding,
     IsDecision, Started, Verdict, TypeOK, Phases, Acts
<1>4. ClaimInv'
  BY <1>3, ClaimKept DEF RequestPersisted, IInv, ClaimInv, TypeOK, Workflow
<1>5. CallInv'
  BY CallsAssumption, <1>1 DEF RequestPersisted, IInv, CallInv, IsDecision, Started,
     TypeOK, Phases, Acts
<1>6. ActivityInv'
  BY <1>3, <1>1, ActivityKept, CallsAssumption DEF RequestPersisted, IInv, ActivityInv,
     Started, TypeOK, Phases, Acts
<1>7. RunInv'
  BY CallsAssumption, <1>1 DEF RequestPersisted, IInv, RunInv, CallInv, Started, TypeOK,
     Phases, Acts
<1>8. RowInv'
  BY <1>3, <1>1, RowKept DEF IInv
<1>9. FinalInv'
  BY <1>3, <1>1, FinalKept DEF RequestPersisted, IInv, FinalInv, TypeOK, Phases, Acts,
     Workflow
<1>10. ConfirmedDecisionStands'
  BY DEF RequestPersisted, IInv, ConfirmedDecisionStands, CallInv, IsDecision, Started,
     TypeOK, Phases, Acts
<1>11. DetachedMeansClosed'
  BY DEF RequestPersisted, IInv, DetachedMeansClosed, CallInv, RowInv, TypeOK, Phases, Acts
<1>. QED BY <1>2, <1>3, <1>4, <1>5, <1>6, <1>7, <1>8, <1>9, <1>10, <1>11 DEF IInv

\* The execution fails before it waits for anything.
LEMMA RequestFailedStep ==
    ASSUME IInv, RequestFailed
    PROVE  IInv' /\ SameDeciders
<1>1. row' = row
  BY DEF RequestFailed, Close
<1>2. TypeOK'
  BY DEF RequestFailed, Close, IInv, TypeOK, Phases, Acts, Started
<1>3. SameDeciders
  BY CallsAssumption DEF RequestFailed, Close, IInv, CallInv, SameDeciders, Deciding,
     IsDecision, Started, Verdict, TypeOK, Phases, Acts
<1>4. ClaimInv'
  BY <1>3, ClaimKept DEF RequestFailed, Close, IInv, ClaimInv, TypeOK, Workflow
<1>5. CallInv'
  BY CallsAssumption, <1>1 DEF RequestFailed, Close, IInv, CallInv, IsDecision, Started,
     TypeOK, Phases, Acts
<1>6. ActivityInv'
  BY <1>3, <1>1, ActivityKept, CallsAssumption DEF RequestFailed, Close, IInv,
     ActivityInv, Started, TypeOK, Phases, Acts
<1>7. RunInv'
  BY CallsAssumption, <1>1 DEF RequestFailed, Close, IInv, RunInv, CallInv, Started,
     TypeOK, Phases, Acts
<1>8. RowInv'
  BY <1>3, <1>1, RowKept DEF IInv
<1>9. FinalInv'
  BY <1>3, <1>1, FinalKept DEF RequestFailed, Close, IInv, FinalInv, TypeOK, Phases, Acts,
     Workflow
<1>10. ConfirmedDecisionStands'
  BY DEF RequestFailed, Close, IInv, ConfirmedDecisionStands, CallInv, IsDecision,
     Started, TypeOK, Phases, Acts
<1>11. DetachedMeansClosed'
  BY DEF RequestFailed, Close, IInv, DetachedMeansClosed, CallInv, RowInv, TypeOK, Phases,
     Acts
<1>. QED BY <1>2, <1>3, <1>4, <1>5, <1>6, <1>7, <1>8, <1>9, <1>10, <1>11 DEF IInv

\* run() returns what the winner has written.
LEMMA RunReturnsStep ==
    ASSUME IInv, RunReturns
    PROVE  IInv' /\ SameDeciders
<1>1. row' = row
  BY DEF RunReturns, Close
<1>2. TypeOK'
  BY DEF RunReturns, Close, IInv, TypeOK, Phases, Acts, Started, Workflow
<1>3. SameDeciders
  BY CallsAssumption DEF RunReturns, Close, IInv, CallInv, SameDeciders, Deciding,
     IsDecision, Started, Verdict, TypeOK, Phases, Acts
<1>4. ClaimInv'
  BY <1>3, ClaimKept DEF RunReturns, Close, IInv, ClaimInv, TypeOK, Workflow
<1>5. CallInv'
  BY CallsAssumption, <1>1 DEF RunReturns, Close, IInv, CallInv, IsDecision, Started,
     TypeOK, Phases, Acts
<1>6. ActivityInv'
  BY <1>3, <1>1, ActivityKept, CallsAssumption DEF RunReturns, Close, IInv, ActivityInv,
     Started, TypeOK, Phases, Acts
<1>7. RunInv'
  BY CallsAssumption, <1>1 DEF RunReturns, Close, IInv, RunInv, CallInv, Started, TypeOK,
     Phases, Acts
<1>8. RowInv'
  BY <1>3, <1>1, RowKept DEF IInv
<1>9. FinalInv'
  BY <1>3, <1>1, FinalKept DEF RunReturns, Close, IInv, FinalInv, TypeOK, Phases, Acts,
     Workflow
<1>10. ConfirmedDecisionStands'
  BY DEF RunReturns, Close, IInv, ConfirmedDecisionStands, CallInv, IsDecision, Started,
     TypeOK, Phases, Acts
<1>11. DetachedMeansClosed'
  BY DEF RunReturns, Close, IInv, DetachedMeansClosed, CallInv, RowInv, TypeOK, Phases, Acts
<1>. QED BY <1>2, <1>3, <1>4, <1>5, <1>6, <1>7, <1>8, <1>9, <1>10, <1>11 DEF IInv

\* A native cancel before wait_condition closes the execution undecided.
LEMMA CancelEscapesStep ==
    ASSUME IInv, DeliverCancel, CancelEscapes
    PROVE  IInv' /\ SameDeciders
<1>1. row' = row
  BY DEF DeliverCancel, CancelEscapes, Close
<1>2. TypeOK'
  BY DEF DeliverCancel, CancelEscapes, Close, IInv, TypeOK, Phases, Acts, Started
<1>3. SameDeciders
  BY CallsAssumption DEF DeliverCancel, CancelEscapes, Close, IInv, CallInv, SameDeciders,
     Deciding, IsDecision, Started, Verdict, TypeOK, Phases, Acts
<1>4. ClaimInv'
  BY <1>3, ClaimKept DEF DeliverCancel, CancelEscapes, Close, IInv, ClaimInv, TypeOK,
     Workflow
<1>5. CallInv'
  BY CallsAssumption, <1>1 DEF DeliverCancel, CancelEscapes, Close, IInv, CallInv,
     IsDecision, Started, TypeOK, Phases, Acts
<1>6. ActivityInv'
  BY <1>3, <1>1, ActivityKept, CallsAssumption DEF DeliverCancel, CancelEscapes, Close,
     IInv, ActivityInv, Started, TypeOK, Phases, Acts
<1>7. RunInv'
  BY CallsAssumption, <1>1 DEF DeliverCancel, CancelEscapes, Close, IInv, RunInv, CallInv,
     Started, TypeOK, Phases, Acts
<1>8. RowInv'
  BY <1>3, <1>1, RowKept DEF IInv
<1>9. FinalInv'
  BY <1>3, <1>1, FinalKept DEF DeliverCancel, CancelEscapes, Close, IInv, FinalInv,
     TypeOK, Phases, Acts, Workflow
<1>10. ConfirmedDecisionStands'
  BY DEF DeliverCancel, CancelEscapes, Close, IInv, ConfirmedDecisionStands, CallInv,
     IsDecision, Started, TypeOK, Phases, Acts
<1>11. DetachedMeansClosed'
  BY DEF DeliverCancel, CancelEscapes, Close, IInv, DetachedMeansClosed, CallInv, RowInv,
     TypeOK, Phases, Acts
<1>. QED BY <1>2, <1>3, <1>4, <1>5, <1>6, <1>7, <1>8, <1>9, <1>10, <1>11 DEF IInv

\* The except block wins the claim: its persist_decision is the only one.
LEMMA CancelClaimsStep ==
    ASSUME IInv, DeliverCancel, CancelClaims
    PROVE  IInv' /\ NewDecider
<1>1. row' = row
  BY DEF DeliverCancel, CancelClaims, Schedule, CanClaim
<1>2. TypeOK'
  <2>1. wf' \in Workflow
    BY DEF CancelClaims, IInv, TypeOK, Workflow
  <2>. QED BY <2>1 DEF DeliverCancel, CancelClaims, Schedule, CanClaim, IInv, TypeOK,
     Phases, Acts
<1>3. ClaimInv'
  BY CallsAssumption DEF DeliverCancel, CancelClaims, Schedule, CanClaim, IInv, ClaimInv,
     SingleWinner, IsDecision, Started, TypeOK, Phases, Acts, Workflow
<1>4. CallInv'
  BY CallsAssumption, <1>1 DEF DeliverCancel, CancelClaims, Schedule, CanClaim, IInv,
     CallInv, IsDecision, Started, TypeOK, Phases, Acts
<1>5. ActivityInv'
  BY CallsAssumption, <1>1 DEF DeliverCancel, CancelClaims, Schedule, CanClaim, IInv,
     ActivityInv, IsDecision, Started, RowVerdict, Verdict, TypeOK, Phases, Acts
<1>6. RunInv'
  BY CallsAssumption, <1>1 DEF DeliverCancel, CancelClaims, Schedule, CanClaim, IInv,
     RunInv, CallInv, Started, TypeOK, Phases, Acts
<1>7. RowInv'
  <2>1. \A a \in Acts : IsDecision(a) /\ Started(a) => IsDecision(a)' /\ Started(a)'
    BY DEF DeliverCancel, CancelClaims, Schedule, IInv, TypeOK, IsDecision, Started
  <2>2. \A a \in Acts : Verdict(a)' = Verdict(a)
    BY DEF DeliverCancel, Verdict
  <2>3. Terminal' = Terminal /\ RowVerdict' = RowVerdict
    BY <1>1 DEF Terminal, RowVerdict
  <2>. QED BY <1>1, <2>1, <2>2, <2>3 DEF IInv, RowInv
<1>8. FinalInv'
  BY DEF DeliverCancel, CancelClaims, Schedule, CanClaim, IInv, FinalInv, TypeOK, Workflow
<1>9. ConfirmedDecisionStands'
  BY DEF DeliverCancel, CancelClaims, Schedule, CanClaim, IInv, ConfirmedDecisionStands,
     CallInv, IsDecision, Started, TypeOK, Phases, Acts
<1>10. DetachedMeansClosed'
  BY DEF DeliverCancel, CancelClaims, Schedule, CanClaim, IInv, DetachedMeansClosed,
     CallInv, RowInv, TypeOK, Phases, Acts
<1>11. NewDecider
  BY CallsAssumption, <1>1 DEF DeliverCancel, CancelClaims, Schedule, CanClaim,
     NewDecider, IInv, RunInv, CallInv, Deciding, IsDecision, Started, TypeOK, Phases,
     Acts
<1>. QED BY <1>2, <1>3, <1>4, <1>5, <1>6, <1>7, <1>8, <1>9, <1>10, <1>11 DEF IInv

\* The except block loses the claim and run() returns.
LEMMA CancelReturnsStep ==
    ASSUME IInv, DeliverCancel, CancelReturns
    PROVE  IInv' /\ SameDeciders
<1>1. row' = row
  BY DEF DeliverCancel, CancelReturns, Close, CanClaim
<1>2. TypeOK'
  BY DEF DeliverCancel, CancelReturns, Close, CanClaim, IInv, TypeOK, Phases, Acts,
     Started, Workflow
<1>3. SameDeciders
  BY CallsAssumption DEF DeliverCancel, CancelReturns, Close, CanClaim, IInv, CallInv,
     SameDeciders, Deciding, IsDecision, Started, Verdict, TypeOK, Phases, Acts
<1>4. ClaimInv'
  BY <1>3, ClaimKept DEF DeliverCancel, CancelReturns, Close, CanClaim, IInv, ClaimInv,
     TypeOK, Workflow
<1>5. CallInv'
  BY CallsAssumption, <1>1 DEF DeliverCancel, CancelReturns, Close, CanClaim, IInv,
     CallInv, IsDecision, Started, TypeOK, Phases, Acts
<1>6. ActivityInv'
  BY <1>3, <1>1, ActivityKept, CallsAssumption DEF DeliverCancel, CancelReturns, Close,
     CanClaim, IInv, ActivityInv, Started, TypeOK, Phases, Acts
<1>7. RunInv'
  BY CallsAssumption, <1>1 DEF DeliverCancel, CancelReturns, Close, CanClaim, IInv,
     RunInv, CallInv, Started, TypeOK, Phases, Acts
<1>8. RowInv'
  BY <1>3, <1>1, RowKept DEF IInv
<1>9. FinalInv'
  BY <1>3, <1>1, FinalKept DEF DeliverCancel, CancelReturns, Close, CanClaim, IInv,
     FinalInv, TypeOK, Phases, Acts, Workflow
<1>10. ConfirmedDecisionStands'
  BY DEF DeliverCancel, CancelReturns, Close, CanClaim, IInv, ConfirmedDecisionStands,
     CallInv, IsDecision, Started, TypeOK, Phases, Acts
<1>11. DetachedMeansClosed'
  BY DEF DeliverCancel, CancelReturns, Close, CanClaim, IInv, DetachedMeansClosed,
     CallInv, RowInv, TypeOK, Phases, Acts
<1>. QED BY <1>2, <1>3, <1>4, <1>5, <1>6, <1>7, <1>8, <1>9, <1>10, <1>11 DEF IInv

\* The forced CANCELLED was written before the workflow is finalized.
LEMMA ForcedPersistedStep ==
    ASSUME IInv, ForcedPersisted
    PROVE  IInv' /\ SameDeciders
<1>1. row' = row
  BY DEF ForcedPersisted, Close
<1>2. TypeOK'
  <2>1. wf' \in Workflow
    BY DEF ForcedPersisted, IInv, TypeOK, Workflow, Actors
  <2>. QED BY <2>1 DEF ForcedPersisted, Close, IInv, TypeOK, Phases, Acts
<1>3. SameDeciders
  BY CallsAssumption DEF ForcedPersisted, Close, IInv, CallInv, SameDeciders, Deciding,
     IsDecision, Started, Verdict, TypeOK, Phases, Acts
<1>4. ClaimInv'
  <2>1. wf.closing
    BY DEF ForcedPersisted, IInv, ClaimInv, IsDecision, Started, Acts
  <2>. QED BY <1>3, <2>1, ClaimKept DEF ForcedPersisted, Close, IInv, TypeOK, Workflow
<1>5. CallInv'
  BY CallsAssumption, <1>1 DEF ForcedPersisted, Close, IInv, CallInv, IsDecision, Started,
     TypeOK, Phases, Acts
<1>6. ActivityInv'
  BY <1>3, <1>1, ActivityKept, CallsAssumption DEF ForcedPersisted, Close, IInv,
     ActivityInv, Started, TypeOK, Phases, Acts
<1>7. RunInv'
  BY CallsAssumption, <1>1 DEF ForcedPersisted, Close, IInv, RunInv, CallInv, Started,
     TypeOK, Phases, Acts
<1>8. RowInv'
  BY <1>3, <1>1, RowKept DEF IInv
<1>9. FinalInv'
  <2>1. act["forced"] = "done" /\ row.linked
    BY DEF ForcedPersisted, IInv, DetachedMeansClosed, RunInv, Started
  <2>2. act'["forced"] = "done"
    BY <2>1 DEF ForcedPersisted, Close, Acts
  <2>3. /\ wf'.status = "CANCELLED" /\ wf'.closedBy = "temporal-admin" /\ wf'.finalized
    BY DEF ForcedPersisted, IInv, TypeOK, Workflow
  <2>4. /\ IsDecision("forced")'
        /\ Verdict("forced")'.status = "CANCELLED" /\ Verdict("forced")'.closedBy = "temporal-admin"
    BY DEF IsDecision, Verdict
  <2>. QED BY <1>1, <2>1, <2>2, <2>3, <2>4 DEF FinalInv, Acts
<1>10. ConfirmedDecisionStands'
  BY DEF ForcedPersisted, Close, IInv, ConfirmedDecisionStands, CallInv, IsDecision,
     Started, TypeOK, Phases, Acts
<1>11. DetachedMeansClosed'
  BY DEF ForcedPersisted, Close, IInv, DetachedMeansClosed, CallInv, RowInv, TypeOK,
     Phases, Acts
<1>. QED BY <1>2, <1>3, <1>4, <1>5, <1>6, <1>7, <1>8, <1>9, <1>10, <1>11 DEF IInv

\* All attempts at the forced CANCELLED are spent.
LEMMA ForcedFailedStep ==
    ASSUME IInv, ForcedFailed
    PROVE  IInv' /\ SameDeciders
<1>1. row' = row
  BY DEF ForcedFailed, Close
<1>2. TypeOK'
  BY DEF ForcedFailed, Close, IInv, TypeOK, Phases, Acts, Started
<1>3. SameDeciders
  BY CallsAssumption DEF ForcedFailed, Close, IInv, CallInv, SameDeciders, Deciding,
     IsDecision, Started, Verdict, TypeOK, Phases, Acts
<1>4. ClaimInv'
  BY <1>3, ClaimKept DEF ForcedFailed, Close, IInv, ClaimInv, TypeOK, Workflow
<1>5. CallInv'
  BY CallsAssumption, <1>1 DEF ForcedFailed, Close, IInv, CallInv, IsDecision, Started,
     TypeOK, Phases, Acts
<1>6. ActivityInv'
  BY <1>3, <1>1, ActivityKept, CallsAssumption DEF ForcedFailed, Close, IInv, ActivityInv,
     Started, TypeOK, Phases, Acts
<1>7. RunInv'
  BY CallsAssumption, <1>1 DEF ForcedFailed, Close, IInv, RunInv, CallInv, Started,
     TypeOK, Phases, Acts
<1>8. RowInv'
  BY <1>3, <1>1, RowKept DEF IInv
<1>9. FinalInv'
  BY <1>3, <1>1, FinalKept DEF ForcedFailed, Close, IInv, FinalInv, TypeOK, Phases, Acts,
     Workflow
<1>10. ConfirmedDecisionStands'
  BY DEF ForcedFailed, Close, IInv, ConfirmedDecisionStands, CallInv, IsDecision, Started,
     TypeOK, Phases, Acts
<1>11. DetachedMeansClosed'
  BY DEF ForcedFailed, Close, IInv, DetachedMeansClosed, CallInv, RowInv, TypeOK, Phases,
     Acts
<1>. QED BY <1>2, <1>3, <1>4, <1>5, <1>6, <1>7, <1>8, <1>9, <1>10, <1>11 DEF IInv

\* A late decision leaves everything alone.
LEMMA IgnoreDecisionStep ==
    ASSUME IInv, NEW c \in Calls, HandleDecision(c), IgnoreDecision(c)
    PROVE  IInv' /\ SameDeciders
<1>1. row' = row
  BY DEF HandleDecision, IgnoreDecision, CanClaim
<1>2. TypeOK'
  BY DEF HandleDecision, IgnoreDecision, CanClaim, IInv, TypeOK, Phases, Acts, Started
<1>3. SameDeciders
  BY CallsAssumption DEF HandleDecision, IgnoreDecision, CanClaim, IInv, CallInv,
     SameDeciders, Deciding, IsDecision, Started, Verdict, TypeOK, Phases, Acts
<1>4. ClaimInv'
  BY <1>3, ClaimKept DEF HandleDecision, IgnoreDecision, CanClaim, IInv, ClaimInv, TypeOK,
     Workflow
<1>5. CallInv'
  BY CallsAssumption, <1>1 DEF HandleDecision, IgnoreDecision, CanClaim, IInv, CallInv,
     IsDecision, Started, TypeOK, Phases, Acts
<1>6. ActivityInv'
  BY <1>3, <1>1, ActivityKept, CallsAssumption DEF HandleDecision, IgnoreDecision,
     CanClaim, IInv, ActivityInv, Started, TypeOK, Phases, Acts
<1>7. RunInv'
  BY CallsAssumption, <1>1 DEF HandleDecision, IgnoreDecision, CanClaim, IInv, RunInv,
     CallInv, Started, TypeOK, Phases, Acts
<1>8. RowInv'
  BY <1>3, <1>1, RowKept DEF IInv
<1>9. FinalInv'
  BY <1>3, <1>1, FinalKept DEF HandleDecision, IgnoreDecision, CanClaim, IInv, FinalInv,
     TypeOK, Phases, Acts, Workflow
<1>10. ConfirmedDecisionStands'
  BY DEF HandleDecision, IgnoreDecision, CanClaim, IInv, ConfirmedDecisionStands, CallInv,
     IsDecision, Started, TypeOK, Phases, Acts
<1>11. DetachedMeansClosed'
  BY DEF HandleDecision, IgnoreDecision, CanClaim, IInv, DetachedMeansClosed, CallInv,
     RowInv, TypeOK, Phases, Acts
<1>. QED BY <1>2, <1>3, <1>4, <1>5, <1>6, <1>7, <1>8, <1>9, <1>10, <1>11 DEF IInv

\* The handler wins the claim: its persist_decision is the only one.
LEMMA ClaimDecisionStep ==
    ASSUME IInv, NEW c \in Calls, HandleDecision(c), ClaimDecision(c)
    PROVE  IInv' /\ NewDecider
<1>1. row' = row
  BY DEF HandleDecision, ClaimDecision, Schedule, CanClaim
<1>2. TypeOK'
  <2>1. wf' \in Workflow
    BY DEF HandleDecision, ClaimDecision, Schedule, IInv, TypeOK, Workflow, Args
  <2>2. hand' \in [Calls -> {"none", "queued", "awaiting", "done"}]
    BY DEF HandleDecision, ClaimDecision, Schedule, IInv, TypeOK
  <2>3. act' \in [Acts -> Phases]
    BY DEF HandleDecision, ClaimDecision, Schedule, IInv, TypeOK, Phases, Acts
  <2>. QED BY <2>1, <2>2, <2>3 DEF HandleDecision, ClaimDecision, Schedule, IInv, TypeOK
<1>3. ClaimInv'
  BY CallsAssumption DEF HandleDecision, ClaimDecision, Schedule, CanClaim, IInv,
     ClaimInv, SingleWinner, IsDecision, Started, TypeOK, Phases, Acts, Workflow
<1>4. CallInv'
  BY CallsAssumption, <1>1 DEF HandleDecision, ClaimDecision, Schedule, CanClaim, IInv,
     CallInv, IsDecision, Started, TypeOK, Phases, Acts
<1>5. ActivityInv'
  <2>1. \A a \in Acts : (act'[a] \in {"written", "done"} => act'[a] = act[a]) /\ (Started(a) => Started(a)')
    BY DEF ClaimDecision, Schedule, Started, IInv, TypeOK
  <2>2. \A a \in Acts : IsDecision(a)' = IsDecision(a) /\ Verdict(a)' = Verdict(a)
    BY DEF HandleDecision, ClaimDecision, Schedule, CanClaim, IsDecision, Verdict
  <2>3. RowVerdict' = RowVerdict /\ strays' = strays
    BY <1>1 DEF RowVerdict, ClaimDecision, Schedule
  <2>. QED BY <2>1, <2>2, <2>3 DEF IInv, ActivityInv
<1>6. RunInv'
  BY CallsAssumption, <1>1 DEF HandleDecision, ClaimDecision, Schedule, CanClaim, IInv,
     RunInv, CallInv, Started, TypeOK, Phases, Acts
<1>7. RowInv'
  <2>1. \A a \in Acts : Started(a) => Started(a)'
    BY DEF ClaimDecision, Schedule, Started, IInv, TypeOK
  <2>2. \A a \in Acts : IsDecision(a)' = IsDecision(a) /\ Verdict(a)' = Verdict(a)
    BY DEF HandleDecision, ClaimDecision, Schedule, CanClaim, IsDecision, Verdict
  <2>. QED BY <1>1, <2>1, <2>2 DEF IInv, RowInv, RowVerdict, Terminal
<1>8. FinalInv'
  BY DEF HandleDecision, ClaimDecision, Schedule, CanClaim, IInv, FinalInv, TypeOK, Workflow
<1>9. ConfirmedDecisionStands'
  BY DEF HandleDecision, ClaimDecision, Schedule, CanClaim, IInv, ConfirmedDecisionStands,
     CallInv, IsDecision, Started, TypeOK, Phases, Acts
<1>10. DetachedMeansClosed'
  BY DEF HandleDecision, ClaimDecision, Schedule, CanClaim, IInv, DetachedMeansClosed,
     CallInv, RowInv, TypeOK, Phases, Acts
<1>11. NewDecider
  BY CallsAssumption, <1>1 DEF HandleDecision, ClaimDecision, Schedule, CanClaim,
     NewDecider, IInv, RunInv, CallInv, Deciding, IsDecision, Started, TypeOK, Phases,
     Acts
<1>. QED BY <1>2, <1>3, <1>4, <1>5, <1>6, <1>7, <1>8, <1>9, <1>10, <1>11 DEF IInv

\* An invalid decision claims nothing and fails the execution.
LEMMA RejectDecisionStep ==
    ASSUME IInv, NEW c \in Calls, HandleDecision(c), RejectDecision(c)
    PROVE  IInv' /\ SameDeciders
<1>1. row' = row
  BY DEF HandleDecision, RejectDecision, Close, CanClaim
<1>2. TypeOK'
  BY DEF HandleDecision, RejectDecision, Close, CanClaim, IInv, TypeOK, Phases, Acts,
     Started
<1>3. SameDeciders
  BY CallsAssumption DEF HandleDecision, RejectDecision, Close, CanClaim, IInv, CallInv,
     SameDeciders, Deciding, IsDecision, Started, Verdict, TypeOK, Phases, Acts
<1>4. ClaimInv'
  BY <1>3, ClaimKept DEF HandleDecision, RejectDecision, Close, CanClaim, IInv, ClaimInv,
     TypeOK, Workflow
<1>5. CallInv'
  BY CallsAssumption, <1>1 DEF HandleDecision, RejectDecision, Close, CanClaim, IInv,
     CallInv, IsDecision, Started, TypeOK, Phases, Acts
<1>6. ActivityInv'
  BY <1>3, <1>1, ActivityKept, CallsAssumption DEF HandleDecision, RejectDecision, Close,
     CanClaim, IInv, ActivityInv, Started, TypeOK, Phases, Acts
<1>7. RunInv'
  BY CallsAssumption, <1>1 DEF HandleDecision, RejectDecision, Close, CanClaim, IInv,
     RunInv, CallInv, Started, TypeOK, Phases, Acts
<1>8. RowInv'
  BY <1>3, <1>1, RowKept DEF IInv
<1>9. FinalInv'
  BY <1>3, <1>1, FinalKept DEF HandleDecision, RejectDecision, Close, CanClaim, IInv,
     FinalInv, TypeOK, Phases, Acts, Workflow
<1>10. ConfirmedDecisionStands'
  BY DEF HandleDecision, RejectDecision, Close, CanClaim, IInv, ConfirmedDecisionStands,
     CallInv, IsDecision, Started, TypeOK, Phases, Acts
<1>11. DetachedMeansClosed'
  BY DEF HandleDecision, RejectDecision, Close, CanClaim, IInv, DetachedMeansClosed,
     CallInv, RowInv, TypeOK, Phases, Acts
<1>. QED BY <1>2, <1>3, <1>4, <1>5, <1>6, <1>7, <1>8, <1>9, <1>10, <1>11 DEF IInv

\* The handler finalizes the workflow with the verdict the row already has.
LEMMA DecisionPersistedStep ==
    ASSUME IInv, NEW c \in Calls, DecisionPersisted(c)
    PROVE  IInv' /\ SameDeciders
<1>1. row' = row
  BY DEF DecisionPersisted
<1>2. TypeOK'
  <2>1. wf' \in Workflow
    BY DEF DecisionPersisted, IInv, TypeOK, Workflow, Args, CallInv, Actors, IsDecision,
       Started
  <2>2. hand' \in [Calls -> {"none", "queued", "awaiting", "done"}]
    BY DEF DecisionPersisted, IInv, TypeOK
  <2>3. act' \in [Acts -> Phases]
    BY DEF DecisionPersisted, IInv, TypeOK, Phases, Acts
  <2>. QED BY <2>1, <2>2, <2>3 DEF DecisionPersisted, IInv, TypeOK
<1>3. SameDeciders
  BY CallsAssumption DEF DecisionPersisted, IInv, CallInv, SameDeciders, Deciding,
     IsDecision, Started, Verdict, TypeOK, Phases, Acts
<1>4. ClaimInv'
  <2>1. IsDecision(c) /\ Started(c)
    BY DEF DecisionPersisted, IsDecision, Started
  <2>2. wf.closing
    BY <2>1 DEF IInv, ClaimInv, Acts
  <2>. QED BY <1>3, <2>2, ClaimKept DEF DecisionPersisted, IInv, TypeOK, Workflow
<1>5. CallInv'
  BY CallsAssumption, <1>1 DEF DecisionPersisted, IInv, CallInv, IsDecision, Started,
     TypeOK, Phases, Acts
<1>6. ActivityInv'
  BY <1>3, <1>1, ActivityKept, CallsAssumption DEF DecisionPersisted, IInv, ActivityInv,
     Started, TypeOK, Phases, Acts
<1>7. RunInv'
  BY CallsAssumption, <1>1 DEF DecisionPersisted, IInv, RunInv, CallInv, Started, TypeOK,
     Phases, Acts
<1>8. RowInv'
  BY <1>3, <1>1, RowKept DEF IInv
<1>9. FinalInv'
  <2>1. IsDecision(c) /\ act[c] = "done" /\ RowVerdict = Verdict(c)
    BY DEF DecisionPersisted, IInv, ActivityInv, IsDecision, Acts
  <2>2. Verdict(c).status = args[c].decision /\ Verdict(c).closedBy = args[c].actor
    BY CallsAssumption DEF Verdict
  <2>3. row.linked
    BY <2>1 DEF DecisionPersisted, IInv, DetachedMeansClosed, CallInv
  <2>4. /\ wf'.status = Verdict(c).status /\ wf'.closedBy = Verdict(c).closedBy
        /\ wf'.finalized
    BY <2>2 DEF DecisionPersisted, IInv, TypeOK, Workflow
  <2>5. IsDecision(c)' /\ act'[c] = "done" /\ Verdict(c)' = Verdict(c)
    BY <2>1 DEF DecisionPersisted, IsDecision, Verdict
  <2>. QED BY <1>1, <2>3, <2>4, <2>5 DEF FinalInv, Acts
<1>10. ConfirmedDecisionStands'
  BY DEF DecisionPersisted, IInv, ConfirmedDecisionStands, CallInv, IsDecision, Started,
     TypeOK, Phases, Acts
<1>11. DetachedMeansClosed'
  BY DEF DecisionPersisted, IInv, DetachedMeansClosed, CallInv, RowInv, TypeOK, Phases, Acts
<1>. QED BY <1>2, <1>3, <1>4, <1>5, <1>6, <1>7, <1>8, <1>9, <1>10, <1>11 DEF IInv

\* Scheduling persist_update is not scheduling a decision.
LEMMA HandleUpdateStep ==
    ASSUME IInv, NEW c \in Calls, HandleUpdate(c)
    PROVE  IInv' /\ SameDeciders
<1>1. row' = row
  BY DEF HandleUpdate, Schedule
<1>2. TypeOK'
  <2>1. hand' \in [Calls -> {"none", "queued", "awaiting", "done"}]
    BY DEF HandleUpdate, IInv, TypeOK
  <2>2. act' \in [Acts -> Phases] /\ UNCHANGED <<tries, strays>>
    BY DEF HandleUpdate, Schedule, actVars, IInv, TypeOK, Phases, Acts
  <2>. QED BY <2>1, <2>2 DEF HandleUpdate, IInv, TypeOK
<1>3. SameDeciders
  BY CallsAssumption DEF HandleUpdate, Schedule, IInv, CallInv, SameDeciders, Deciding,
     IsDecision, Started, Verdict, TypeOK, Phases, Acts
<1>4. ClaimInv'
  BY <1>3, ClaimKept DEF HandleUpdate, Schedule, IInv, ClaimInv, TypeOK, Workflow
<1>5. CallInv'
  <2>1. \A k \in Calls : (k # c => hand'[k] = hand[k] /\ act'[k] = act[k]) /\ hand'[c] \in {"awaiting", "done"}
    BY DEF HandleUpdate, Schedule, actVars, IInv, TypeOK, Acts
  <2>2. /\ call[c] \notin {"idle", "checked", "reconciling", "marked_cancelled", "refused"}
        /\ ~IsDecision(c)
    BY CallsAssumption DEF HandleUpdate, IInv, CallInv, IsDecision
  <2>3. call' = call /\ args' = args /\ exec' = exec
    BY DEF HandleUpdate, serviceVars
  <2>. QED BY <2>1, <2>2, <2>3, <1>1 DEF IInv, CallInv, IsDecision, Started
<1>6. ActivityInv'
  BY <1>3, <1>1, ActivityKept, CallsAssumption DEF HandleUpdate, Schedule, IInv,
     ActivityInv, Started, TypeOK, Phases, Acts
<1>7. RunInv'
  BY CallsAssumption, <1>1 DEF HandleUpdate, Schedule, IInv, RunInv, CallInv, Started,
     TypeOK, Phases, Acts
<1>8. RowInv'
  BY <1>3, <1>1, RowKept DEF IInv
<1>9. FinalInv'
  BY <1>3, <1>1, FinalKept DEF HandleUpdate, Schedule, IInv, FinalInv, TypeOK, Phases,
     Acts, Workflow
<1>10. ConfirmedDecisionStands'
  BY DEF HandleUpdate, Schedule, IInv, ConfirmedDecisionStands, CallInv, IsDecision,
     Started, TypeOK, Phases, Acts
<1>11. DetachedMeansClosed'
  BY DEF HandleUpdate, Schedule, IInv, DetachedMeansClosed, CallInv, RowInv, TypeOK,
     Phases, Acts
<1>. QED BY <1>2, <1>3, <1>4, <1>5, <1>6, <1>7, <1>8, <1>9, <1>10, <1>11 DEF IInv

\* The workflow takes over the payload.
LEMMA UpdatePersistedStep ==
    ASSUME IInv, NEW c \in Calls, UpdatePersisted(c)
    PROVE  IInv' /\ SameDeciders
<1>1. row' = row
  BY DEF UpdatePersisted
<1>2. TypeOK'
  <2>1. wf' \in Workflow
    BY DEF UpdatePersisted, IInv, TypeOK, Workflow, Args
  <2>2. hand' \in [Calls -> {"none", "queued", "awaiting", "done"}]
    BY DEF UpdatePersisted, IInv, TypeOK
  <2>3. act' \in [Acts -> Phases]
    BY DEF UpdatePersisted, IInv, TypeOK, Phases, Acts
  <2>. QED BY <2>1, <2>2, <2>3 DEF UpdatePersisted, IInv, TypeOK
<1>3. SameDeciders
  BY CallsAssumption DEF UpdatePersisted, IInv, CallInv, SameDeciders, Deciding,
     IsDecision, Started, Verdict, TypeOK, Phases, Acts
<1>4. ClaimInv'
  BY <1>3, ClaimKept DEF UpdatePersisted, IInv, ClaimInv, TypeOK, Workflow
<1>5. CallInv'
  BY CallsAssumption, <1>1 DEF UpdatePersisted, IInv, CallInv, IsDecision, Started,
     TypeOK, Phases, Acts
<1>6. ActivityInv'
  BY <1>3, <1>1, ActivityKept, CallsAssumption DEF UpdatePersisted, IInv, ActivityInv,
     Started, TypeOK, Phases, Acts
<1>7. RunInv'
  BY CallsAssumption, <1>1 DEF UpdatePersisted, IInv, RunInv, CallInv, Started, TypeOK,
     Phases, Acts
<1>8. RowInv'
  BY <1>3, <1>1, RowKept DEF IInv
<1>9. FinalInv'
  BY <1>3, <1>1, FinalKept DEF UpdatePersisted, IInv, FinalInv, TypeOK, Phases, Acts,
     Workflow
<1>10. ConfirmedDecisionStands'
  BY DEF UpdatePersisted, IInv, ConfirmedDecisionStands, CallInv, IsDecision, Started,
     TypeOK, Phases, Acts
<1>11. DetachedMeansClosed'
  BY DEF UpdatePersisted, IInv, DetachedMeansClosed, CallInv, RowInv, TypeOK, Phases, Acts
<1>. QED BY <1>2, <1>3, <1>4, <1>5, <1>6, <1>7, <1>8, <1>9, <1>10, <1>11 DEF IInv

\* All attempts of a handler's activity are spent.
LEMMA HandlerFailedStep ==
    ASSUME IInv, NEW c \in Calls, HandlerFailed(c)
    PROVE  IInv' /\ SameDeciders
<1>1. row' = row
  BY DEF HandlerFailed, Close
<1>2. TypeOK'
  BY DEF HandlerFailed, Close, IInv, TypeOK, Phases, Acts, Started
<1>3. SameDeciders
  BY CallsAssumption DEF HandlerFailed, Close, IInv, CallInv, SameDeciders, Deciding,
     IsDecision, Started, Verdict, TypeOK, Phases, Acts
<1>4. ClaimInv'
  BY <1>3, ClaimKept DEF HandlerFailed, Close, IInv, ClaimInv, TypeOK, Workflow
<1>5. CallInv'
  BY CallsAssumption, <1>1 DEF HandlerFailed, Close, IInv, CallInv, IsDecision, Started,
     TypeOK, Phases, Acts
<1>6. ActivityInv'
  BY <1>3, <1>1, ActivityKept, CallsAssumption DEF HandlerFailed, Close, IInv,
     ActivityInv, Started, TypeOK, Phases, Acts
<1>7. RunInv'
  BY CallsAssumption, <1>1 DEF HandlerFailed, Close, IInv, RunInv, CallInv, Started,
     TypeOK, Phases, Acts
<1>8. RowInv'
  BY <1>3, <1>1, RowKept DEF IInv
<1>9. FinalInv'
  BY <1>3, <1>1, FinalKept DEF HandlerFailed, Close, IInv, FinalInv, TypeOK, Phases, Acts,
     Workflow
<1>10. ConfirmedDecisionStands'
  BY DEF HandlerFailed, Close, IInv, ConfirmedDecisionStands, CallInv, IsDecision,
     Started, TypeOK, Phases, Acts
<1>11. DetachedMeansClosed'
  BY DEF HandlerFailed, Close, IInv, DetachedMeansClosed, CallInv, RowInv, TypeOK, Phases,
     Acts
<1>. QED BY <1>2, <1>3, <1>4, <1>5, <1>6, <1>7, <1>8, <1>9, <1>10, <1>11 DEF IInv

\* An attempt starts.
LEMMA DispatchStep ==
    ASSUME IInv, NEW a \in Acts, Dispatch(a)
    PROVE  IInv' /\ SameDeciders
<1>1. row' = row
  BY DEF Dispatch
<1>2. TypeOK'
  BY AttemptsAssumption DEF Dispatch, IInv, TypeOK, Phases, Acts, Started
<1>3. SameDeciders
  BY CallsAssumption DEF Dispatch, IInv, CallInv, SameDeciders, Deciding, IsDecision,
     Started, Verdict, TypeOK, Phases, Acts
<1>4. ClaimInv'
  BY <1>3, ClaimKept DEF Dispatch, IInv, ClaimInv, TypeOK, Workflow
<1>5. CallInv'
  BY CallsAssumption, <1>1 DEF Dispatch, IInv, CallInv, IsDecision, Started, TypeOK,
     Phases, Acts
<1>6. ActivityInv'
  BY <1>3, <1>1, ActivityKept, CallsAssumption DEF Dispatch, IInv, ActivityInv, Started,
     TypeOK, Phases, Acts
<1>7. RunInv'
  BY CallsAssumption, <1>1 DEF Dispatch, IInv, RunInv, CallInv, Started, TypeOK, Phases,
     Acts
<1>8. RowInv'
  BY <1>3, <1>1, RowKept DEF IInv
<1>9. FinalInv'
  BY <1>3, <1>1, FinalKept DEF Dispatch, IInv, FinalInv, TypeOK, Phases, Acts, Workflow
<1>10. ConfirmedDecisionStands'
  BY DEF Dispatch, IInv, ConfirmedDecisionStands, CallInv, IsDecision, Started, TypeOK,
     Phases, Acts
<1>11. DetachedMeansClosed'
  BY DEF Dispatch, IInv, DetachedMeansClosed, CallInv, RowInv, TypeOK, Phases, Acts
<1>. QED BY <1>2, <1>3, <1>4, <1>5, <1>6, <1>7, <1>8, <1>9, <1>10, <1>11 DEF IInv

\* Temporal records a result: the statement was executed before.
LEMMA ReportStep ==
    ASSUME IInv, NEW a \in Acts, Report(a)
    PROVE  IInv' /\ SameDeciders
<1>1. row' = row
  BY DEF Report
<1>2. TypeOK'
  BY DEF Report, IInv, TypeOK, Phases, Acts, Started
<1>3. SameDeciders
  BY CallsAssumption DEF Report, IInv, CallInv, SameDeciders, Deciding, IsDecision,
     Started, Verdict, TypeOK, Phases, Acts
<1>4. ClaimInv'
  BY <1>3, ClaimKept DEF Report, IInv, ClaimInv, TypeOK, Workflow
<1>5. CallInv'
  BY CallsAssumption, <1>1 DEF Report, IInv, CallInv, IsDecision, Started, TypeOK, Phases,
     Acts
<1>6. ActivityInv'
  BY <1>3, <1>1, ActivityKept, CallsAssumption DEF Report, IInv, ActivityInv, Started,
     TypeOK, Phases, Acts
<1>7. RunInv'
  BY CallsAssumption, <1>1 DEF Report, IInv, RunInv, CallInv, Started, TypeOK, Phases, Acts
<1>8. RowInv'
  BY <1>3, <1>1, RowKept DEF IInv
<1>9. FinalInv'
  BY <1>3, <1>1, FinalKept DEF Report, IInv, FinalInv, TypeOK, Phases, Acts, Workflow
<1>10. ConfirmedDecisionStands'
  BY DEF Report, IInv, ConfirmedDecisionStands, CallInv, IsDecision, Started, TypeOK,
     Phases, Acts
<1>11. DetachedMeansClosed'
  BY DEF Report, IInv, DetachedMeansClosed, CallInv, RowInv, TypeOK, Phases, Acts
<1>. QED BY <1>2, <1>3, <1>4, <1>5, <1>6, <1>7, <1>8, <1>9, <1>10, <1>11 DEF IInv

\* A lost attempt is retried, given up, or left to run astray.
LEMMA AttemptLostStep ==
    ASSUME IInv, NEW a \in Acts, AttemptLost(a)
    PROVE  IInv' /\ SameDeciders
<1>1. row' = row
  BY DEF AttemptLost
<1>2. TypeOK'
  <2>1. act' \in [Acts -> Phases]
    BY DEF AttemptLost, IInv, TypeOK, Phases
  <2>2. strays' \in [Acts -> Nat]
    BY DEF AttemptLost, IInv, TypeOK
  <2>. QED BY <1>1, <2>1, <2>2 DEF AttemptLost, IInv, TypeOK
<1>3. SameDeciders
  BY CallsAssumption DEF AttemptLost, IInv, CallInv, SameDeciders, Deciding, IsDecision,
     Started, Verdict, TypeOK, Phases, Acts
<1>4. ClaimInv'
  BY <1>3, ClaimKept DEF AttemptLost, IInv, ClaimInv, TypeOK, Workflow
<1>5. CallInv'
  BY CallsAssumption, <1>1 DEF AttemptLost, IInv, CallInv, IsDecision, Started, TypeOK,
     Phases, Acts
<1>6. ActivityInv'
  BY <1>3, <1>1, ActivityKept, CallsAssumption DEF AttemptLost, IInv, ActivityInv,
     Started, TypeOK, Phases, Acts
<1>7. RunInv'
  BY CallsAssumption, <1>1 DEF AttemptLost, IInv, RunInv, CallInv, Started, TypeOK,
     Phases, Acts
<1>8. RowInv'
  BY <1>3, <1>1, RowKept DEF IInv
<1>9. FinalInv'
  BY <1>3, <1>1, FinalKept DEF AttemptLost, IInv, FinalInv, TypeOK, Phases, Acts, Workflow
<1>10. ConfirmedDecisionStands'
  BY DEF AttemptLost, IInv, ConfirmedDecisionStands, CallInv, IsDecision, Started, TypeOK,
     Phases, Acts
<1>11. DetachedMeansClosed'
  BY DEF AttemptLost, IInv, DetachedMeansClosed, CallInv, RowInv, TypeOK, Phases, Acts
<1>. QED BY <1>2, <1>3, <1>4, <1>5, <1>6, <1>7, <1>8, <1>9, <1>10, <1>11 DEF IInv

\* The statement of a live attempt.
LEMMA ExecuteStep ==
    ASSUME IInv, NEW a \in Acts, Execute(a)
    PROVE  IInv' /\ SameDeciders
<1>1. Started(a)
  BY DEF Execute, IInv, ActivityInv, Started
<1>2. row' = Statement(a)
  BY DEF Execute
<1>3. TypeOK'
  BY <1>1, <1>2, StatementEffect DEF Execute, IInv, TypeOK, Phases, Acts
<1>4. SameDeciders
  BY CallsAssumption DEF Execute, IInv, CallInv, SameDeciders, Deciding, IsDecision,
     Started, Verdict, TypeOK, Phases, Acts
<1>5. ClaimInv'
  BY <1>4, ClaimKept DEF Execute, IInv, ClaimInv, TypeOK, Workflow
<1>6. CallInv'
  BY <1>1, <1>2, StatementEffect, CallsAssumption DEF Execute, IInv, CallInv, IsDecision,
     Started, TypeOK, Phases, Acts
<1>7. ActivityInv'
  <2>1. \A b \in Acts : (Deciding(b) /\ RowVerdict = Verdict(b)) => RowVerdict' = Verdict(b)
    BY <1>1, <1>2, StatementKeeps
  <2>2. Deciding(a) => RowVerdict' = Verdict(a)
    BY <1>1, <1>2, StatementEffect
  <2>3. \A b \in Acts :
          /\ b # a => act'[b] = act[b]
          /\ strays'[b] > 0 => Started(b)'
    BY <1>1 DEF Execute, Started, IInv, ActivityInv, TypeOK, Phases
  <2>4. ASSUME NEW b \in Acts, Deciding(b), act'[b] \in {"written", "done"}
        PROVE  RowVerdict' = Verdict(b)
    <3>1. CASE b = a
      BY <2>2, <2>4, <3>1
    <3>2. CASE b # a
      <4>1. act[b] \in {"written", "done"}
        BY <2>3, <2>4, <3>2
      <4>2. RowVerdict = Verdict(b)
        BY <2>4, <4>1, DecidingVerdict
      <4>. QED BY <2>1, <2>4, <4>2
    <3>. QED BY <3>1, <3>2
  <2>5. ASSUME NEW b \in Acts, IsDecision(b)', act'[b] \in {"written", "done"}
        PROVE  RowVerdict' = Verdict(b)'
    <3>1. Deciding(b)
      BY <1>4, <2>5 DEF SameDeciders, Deciding, Started
    <3>. QED BY <1>4, <2>4, <2>5, <3>1 DEF SameDeciders
  <2>. QED BY <2>3, <2>5 DEF ActivityInv
<1>8. RunInv'
  BY <1>1, <1>2, StatementEffect, CallsAssumption DEF Execute, IInv, RunInv, Started,
     TypeOK, Phases, Acts
<1>9. RowInv'
  <2>1. /\ Terminal' => \/ \E b \in Acts : Deciding(b)' /\ RowVerdict' = Verdict(b)'
                        \/ ~row'.linked /\ RowVerdict' = [status |-> "CANCELLED",
                              closedBy |-> "temporal-admin", closedAt |-> "null"]
        /\ ~Terminal' => row'.closedBy = "nobody" /\ row'.closedAt = "null"
    BY <1>1, <1>2, <1>4, StatementKeeps DEF SameDeciders
  <2>2. /\ row'.status = "absent" => ~row'.linked
        /\ row'.status = "PENDING_REVIEW" => row'.linked
    <3>1. CASE Deciding(a)
      <4>1. RowVerdict' = Verdict(a) /\ Verdict(a).status \in VALID_DECISIONS
        BY <1>1, <1>2, <3>1, StatementEffect, DecidingVerdict
      <4>. QED BY <4>1 DEF RowVerdict
    <3>2. CASE ~Deciding(a) /\ row.status # "absent"
      <4>1. RowVerdict' = RowVerdict /\ row'.linked = row.linked
        BY <1>1, <1>2, <3>2, StatementEffect
      <4>. QED BY <4>1 DEF RowVerdict, IInv, RowInv
    <3>3. CASE row.status = "absent"
      BY <1>1, <1>2, <3>3, StatementEffect DEF IInv, RowInv
    <3>. QED BY <3>1, <3>2, <3>3
  <2>. QED BY <2>1, <2>2 DEF RowInv, Deciding
<1>10. FinalInv'
  BY <1>1, <1>2, <1>4, StatementEffect, FinalKept DEF Execute, IInv, FinalInv,
     DetachedMeansClosed, RowInv, TypeOK, Phases, Acts
<1>11. ConfirmedDecisionStands'
  <2>1. ASSUME NEW c \in Calls, call[c] = "confirmed", args[c].kind = "decision", row'.linked
        PROVE  row'.status = args[c].decision
    <3>1. row.linked
      BY <1>1, <1>2, <2>1, StatementEffect DEF IInv, CallInv
    <3>2. row.status = args[c].decision
      BY <2>1, <3>1 DEF IInv, ConfirmedDecisionStands
    <3>3. Terminal
      BY <3>2 DEF Terminal, IInv, TypeOK, Row, Args, Decisions, CallInv
    <3>. QED BY <1>1, <1>2, <3>1, <3>2, <3>3, StatementEffect
  <2>. QED BY <2>1 DEF Execute, ConfirmedDecisionStands
<1>12. DetachedMeansClosed'
  BY <1>1, <1>2, StatementEffect DEF Execute, IInv, DetachedMeansClosed, RowInv, TypeOK,
     Phases, Acts
<1>. QED BY <1>3, <1>4, <1>5, <1>6, <1>7, <1>8, <1>9, <1>10, <1>11, <1>12 DEF IInv

\* The statement of an attempt Temporal has given up on.
LEMMA StrayExecuteStep ==
    ASSUME IInv, NEW a \in Acts, StrayExecute(a)
    PROVE  IInv' /\ SameDeciders
<1>1. Started(a)
  BY DEF StrayExecute, IInv, ActivityInv, Started
<1>2. row' = Statement(a)
  BY DEF StrayExecute
<1>3. TypeOK'
  BY <1>1, <1>2, StatementEffect DEF StrayExecute, IInv, TypeOK, Phases, Acts
<1>4. SameDeciders
  BY CallsAssumption DEF StrayExecute, IInv, CallInv, SameDeciders, Deciding, IsDecision,
     Started, Verdict, TypeOK, Phases, Acts
<1>5. ClaimInv'
  BY <1>4, ClaimKept DEF StrayExecute, IInv, ClaimInv, TypeOK, Workflow
<1>6. CallInv'
  BY <1>1, <1>2, StatementEffect, CallsAssumption DEF StrayExecute, IInv, CallInv,
     IsDecision, Started, TypeOK, Phases, Acts
<1>7. ActivityInv'
  <2>1. \A b \in Acts : (Deciding(b) /\ RowVerdict = Verdict(b)) => RowVerdict' = Verdict(b)
    BY <1>1, <1>2, StatementKeeps
  <2>2. Deciding(a) => RowVerdict' = Verdict(a)
    BY <1>1, <1>2, StatementEffect
  <2>3. \A b \in Acts :
          /\ b # a => act'[b] = act[b]
          /\ strays'[b] > 0 => Started(b)'
    BY <1>1 DEF StrayExecute, Started, IInv, ActivityInv, TypeOK, Phases
  <2>4. ASSUME NEW b \in Acts, Deciding(b), act'[b] \in {"written", "done"}
        PROVE  RowVerdict' = Verdict(b)
    <3>1. CASE b = a
      BY <2>2, <2>4, <3>1
    <3>2. CASE b # a
      <4>1. act[b] \in {"written", "done"}
        BY <2>3, <2>4, <3>2
      <4>2. RowVerdict = Verdict(b)
        BY <2>4, <4>1, DecidingVerdict
      <4>. QED BY <2>1, <2>4, <4>2
    <3>. QED BY <3>1, <3>2
  <2>5. ASSUME NEW b \in Acts, IsDecision(b)', act'[b] \in {"written", "done"}
        PROVE  RowVerdict' = Verdict(b)'
    <3>1. Deciding(b)
      BY <1>4, <2>5 DEF SameDeciders, Deciding, Started
    <3>. QED BY <1>4, <2>4, <2>5, <3>1 DEF SameDeciders
  <2>. QED BY <2>3, <2>5 DEF ActivityInv
<1>8. RunInv'
  BY <1>1, <1>2, StatementEffect, CallsAssumption DEF StrayExecute, IInv, RunInv, Started,
     TypeOK, Phases, Acts
<1>9. RowInv'
  <2>1. /\ Terminal' => \/ \E b \in Acts : Deciding(b)' /\ RowVerdict' = Verdict(b)'
                        \/ ~row'.linked /\ RowVerdict' = [status |-> "CANCELLED",
                              closedBy |-> "temporal-admin", closedAt |-> "null"]
        /\ ~Terminal' => row'.closedBy = "nobody" /\ row'.closedAt = "null"
    BY <1>1, <1>2, <1>4, StatementKeeps DEF SameDeciders
  <2>2. /\ row'.status = "absent" => ~row'.linked
        /\ row'.status = "PENDING_REVIEW" => row'.linked
    <3>1. CASE Deciding(a)
      <4>1. RowVerdict' = Verdict(a) /\ Verdict(a).status \in VALID_DECISIONS
        BY <1>1, <1>2, <3>1, StatementEffect, DecidingVerdict
      <4>. QED BY <4>1 DEF RowVerdict
    <3>2. CASE ~Deciding(a) /\ row.status # "absent"
      <4>1. RowVerdict' = RowVerdict /\ row'.linked = row.linked
        BY <1>1, <1>2, <3>2, StatementEffect
      <4>. QED BY <4>1 DEF RowVerdict, IInv, RowInv
    <3>3. CASE row.status = "absent"
      BY <1>1, <1>2, <3>3, StatementEffect DEF IInv, RowInv
    <3>. QED BY <3>1, <3>2, <3>3
  <2>. QED BY <2>1, <2>2 DEF RowInv, Deciding
<1>10. FinalInv'
  BY <1>1, <1>2, <1>4, StatementEffect, FinalKept DEF StrayExecute, IInv, FinalInv,
     DetachedMeansClosed, RowInv, TypeOK, Phases, Acts
<1>11. ConfirmedDecisionStands'
  <2>1. ASSUME NEW c \in Calls, call[c] = "confirmed", args[c].kind = "decision", row'.linked
        PROVE  row'.status = args[c].decision
    <3>1. row.linked
      BY <1>1, <1>2, <2>1, StatementEffect DEF IInv, CallInv
    <3>2. row.status = args[c].decision
      BY <2>1, <3>1 DEF IInv, ConfirmedDecisionStands
    <3>3. Terminal
      BY <3>2 DEF Terminal, IInv, TypeOK, Row, Args, Decisions, CallInv
    <3>. QED BY <1>1, <1>2, <3>1, <3>2, <3>3, StatementEffect
  <2>. QED BY <2>1 DEF StrayExecute, ConfirmedDecisionStands
<1>12. DetachedMeansClosed'
  BY <1>1, <1>2, StatementEffect DEF StrayExecute, IInv, DetachedMeansClosed, RowInv,
     TypeOK, Phases, Acts
<1>. QED BY <1>3, <1>4, <1>5, <1>6, <1>7, <1>8, <1>9, <1>10, <1>11, <1>12 DEF IInv

\* start_workflow.
LEMMA CreateReviewStep ==
    ASSUME IInv, CreateReview
    PROVE  IInv' /\ SameDeciders
<1>1. row' = row
  BY DEF CreateReview
<1>2. TypeOK'
  BY DEF CreateReview, IInv, TypeOK, Phases, Acts, Started
<1>3. SameDeciders
  BY CallsAssumption DEF CreateReview, IInv, CallInv, SameDeciders, Deciding, IsDecision,
     Started, Verdict, TypeOK, Phases, Acts
<1>4. ClaimInv'
  BY <1>3, ClaimKept DEF CreateReview, IInv, ClaimInv, TypeOK, Workflow
<1>5. CallInv'
  BY CallsAssumption, <1>1 DEF CreateReview, IInv, CallInv, IsDecision, Started, TypeOK,
     Phases, Acts
<1>6. ActivityInv'
  BY <1>3, <1>1, ActivityKept, CallsAssumption DEF CreateReview, IInv, ActivityInv,
     Started, TypeOK, Phases, Acts
<1>7. RunInv'
  BY CallsAssumption, <1>1 DEF CreateReview, IInv, RunInv, CallInv, Started, TypeOK,
     Phases, Acts
<1>8. RowInv'
  BY <1>3, <1>1, RowKept DEF IInv
<1>9. FinalInv'
  BY <1>3, <1>1, FinalKept DEF CreateReview, IInv, FinalInv, TypeOK, Phases, Acts, Workflow
<1>10. ConfirmedDecisionStands'
  BY DEF CreateReview, IInv, ConfirmedDecisionStands, CallInv, IsDecision, Started,
     TypeOK, Phases, Acts
<1>11. DetachedMeansClosed'
  BY DEF CreateReview, IInv, DetachedMeansClosed, CallInv, RowInv, TypeOK, Phases, Acts
<1>. QED BY <1>2, <1>3, <1>4, <1>5, <1>6, <1>7, <1>8, <1>9, <1>10, <1>11 DEF IInv

\* Only an idle call changes its arguments, and it has no activity yet.
LEMMA SubmitDecisionStep ==
    ASSUME IInv, NEW c \in Calls, NEW d \in Decisions, NEW u \in Users, SubmitDecision(c, d, u)
    PROVE  IInv' /\ SameDeciders
<1>1. row' = row
  BY DEF SubmitDecision, MayDecide
<1>2. TypeOK'
  <2>1. [kind |-> "decision", decision |-> d, actor |-> u, payload |-> InitPayload] \in Args
    BY PayloadAssumption DEF Args, Decisions
  <2>2. args' \in [Calls -> Args]
    BY <2>1 DEF SubmitDecision, IInv, TypeOK
  <2>3. call' \in [Calls -> {"idle", "checked", "waiting", "reconciling", "confirmed",
                             "unconfirmed", "refused", "marked_cancelled", "raised", "raw"}]
    BY DEF SubmitDecision, IInv, TypeOK
  <2>. QED BY <1>1, <2>2, <2>3 DEF SubmitDecision, IInv, TypeOK
<1>3. SameDeciders
  BY CallsAssumption DEF SubmitDecision, MayDecide, IInv, CallInv, SameDeciders, Deciding,
     IsDecision, Started, Verdict, TypeOK, Phases, Acts
<1>4. ClaimInv'
  BY <1>3, ClaimKept DEF SubmitDecision, MayDecide, IInv, ClaimInv, TypeOK, Workflow
<1>5. CallInv'
  BY CallsAssumption, <1>1 DEF SubmitDecision, MayDecide, IInv, CallInv, IsDecision,
     Started, TypeOK, Phases, Acts
<1>6. ActivityInv'
  BY <1>3, <1>1, ActivityKept, CallsAssumption DEF SubmitDecision, MayDecide, IInv,
     ActivityInv, Started, TypeOK, Phases, Acts
<1>7. RunInv'
  BY CallsAssumption, <1>1 DEF SubmitDecision, MayDecide, IInv, RunInv, CallInv, Started,
     TypeOK, Phases, Acts
<1>8. RowInv'
  BY <1>3, <1>1, RowKept DEF IInv
<1>9. FinalInv'
  BY <1>3, <1>1, FinalKept DEF SubmitDecision, MayDecide, IInv, FinalInv, TypeOK, Phases,
     Acts, Workflow
<1>10. ConfirmedDecisionStands'
  BY DEF SubmitDecision, MayDecide, IInv, ConfirmedDecisionStands, CallInv, IsDecision,
     Started, TypeOK, Phases, Acts
<1>11. DetachedMeansClosed'
  BY DEF SubmitDecision, MayDecide, IInv, DetachedMeansClosed, CallInv, RowInv, TypeOK,
     Phases, Acts
<1>. QED BY <1>2, <1>3, <1>4, <1>5, <1>6, <1>7, <1>8, <1>9, <1>10, <1>11 DEF IInv

\* The same for an edit.
LEMMA UpdateReviewStep ==
    ASSUME IInv, NEW c \in Calls, NEW u \in Users, NEW p \in Payloads, UpdateReview(c, u, p)
    PROVE  IInv' /\ SameDeciders
<1>1. row' = row
  BY DEF UpdateReview, MayUpdate
<1>2. TypeOK'
  <2>1. [kind |-> "update", decision |-> "BOGUS", actor |-> u, payload |-> p] \in Args
    BY DEF Args, Decisions
  <2>2. args' \in [Calls -> Args]
    BY <2>1 DEF UpdateReview, IInv, TypeOK
  <2>3. call' \in [Calls -> {"idle", "checked", "waiting", "reconciling", "confirmed",
                             "unconfirmed", "refused", "marked_cancelled", "raised", "raw"}]
    BY DEF UpdateReview, IInv, TypeOK
  <2>. QED BY <1>1, <2>2, <2>3 DEF UpdateReview, IInv, TypeOK
<1>3. SameDeciders
  BY CallsAssumption DEF UpdateReview, MayUpdate, IInv, CallInv, SameDeciders, Deciding,
     IsDecision, Started, Verdict, TypeOK, Phases, Acts
<1>4. ClaimInv'
  BY <1>3, ClaimKept DEF UpdateReview, MayUpdate, IInv, ClaimInv, TypeOK, Workflow
<1>5. CallInv'
  BY CallsAssumption, <1>1 DEF UpdateReview, MayUpdate, IInv, CallInv, IsDecision,
     Started, TypeOK, Phases, Acts
<1>6. ActivityInv'
  BY <1>3, <1>1, ActivityKept, CallsAssumption DEF UpdateReview, MayUpdate, IInv,
     ActivityInv, Started, TypeOK, Phases, Acts
<1>7. RunInv'
  BY CallsAssumption, <1>1 DEF UpdateReview, MayUpdate, IInv, RunInv, CallInv, Started,
     TypeOK, Phases, Acts
<1>8. RowInv'
  BY <1>3, <1>1, RowKept DEF IInv
<1>9. FinalInv'
  BY <1>3, <1>1, FinalKept DEF UpdateReview, MayUpdate, IInv, FinalInv, TypeOK, Phases,
     Acts, Workflow
<1>10. ConfirmedDecisionStands'
  BY DEF UpdateReview, MayUpdate, IInv, ConfirmedDecisionStands, CallInv, IsDecision,
     Started, TypeOK, Phases, Acts
<1>11. DetachedMeansClosed'
  BY DEF UpdateReview, MayUpdate, IInv, DetachedMeansClosed, CallInv, RowInv, TypeOK,
     Phases, Acts
<1>. QED BY <1>2, <1>3, <1>4, <1>5, <1>6, <1>7, <1>8, <1>9, <1>10, <1>11 DEF IInv

\* A signal is accepted for a review whose row the call has read.
LEMMA SignalAcceptedStep ==
    ASSUME IInv, NEW c \in Calls, SignalAccepted(c)
    PROVE  IInv' /\ SameDeciders
<1>1. row' = row
  BY DEF SignalAccepted
<1>2. TypeOK'
  BY DEF SignalAccepted, IInv, TypeOK, Phases, Acts, Started
<1>3. SameDeciders
  BY CallsAssumption DEF SignalAccepted, IInv, CallInv, SameDeciders, Deciding,
     IsDecision, Started, Verdict, TypeOK, Phases, Acts
<1>4. ClaimInv'
  BY <1>3, ClaimKept DEF SignalAccepted, IInv, ClaimInv, TypeOK, Workflow
<1>5. CallInv'
  BY CallsAssumption, <1>1 DEF SignalAccepted, IInv, CallInv, IsDecision, Started, TypeOK,
     Phases, Acts
<1>6. ActivityInv'
  BY <1>3, <1>1, ActivityKept, CallsAssumption DEF SignalAccepted, IInv, ActivityInv,
     Started, TypeOK, Phases, Acts
<1>7. RunInv'
  BY CallsAssumption, <1>1 DEF SignalAccepted, IInv, RunInv, CallInv, Started, TypeOK,
     Phases, Acts
<1>8. RowInv'
  BY <1>3, <1>1, RowKept DEF IInv
<1>9. FinalInv'
  BY <1>3, <1>1, FinalKept DEF SignalAccepted, IInv, FinalInv, TypeOK, Phases, Acts,
     Workflow
<1>10. ConfirmedDecisionStands'
  BY DEF SignalAccepted, IInv, ConfirmedDecisionStands, CallInv, IsDecision, Started,
     TypeOK, Phases, Acts
<1>11. DetachedMeansClosed'
  BY DEF SignalAccepted, IInv, DetachedMeansClosed, CallInv, RowInv, TypeOK, Phases, Acts
<1>. QED BY <1>2, <1>3, <1>4, <1>5, <1>6, <1>7, <1>8, <1>9, <1>10, <1>11 DEF IInv

\* Only a closed execution answers NOT_FOUND, and it stays closed.
LEMMA SignalNotFoundStep ==
    ASSUME IInv, NEW c \in Calls, SignalNotFound(c)
    PROVE  IInv' /\ SameDeciders
<1>1. row' = row
  BY DEF SignalNotFound
<1>2. TypeOK'
  BY DEF SignalNotFound, IInv, TypeOK, Phases, Acts, Started
<1>3. SameDeciders
  BY CallsAssumption DEF SignalNotFound, IInv, CallInv, SameDeciders, Deciding,
     IsDecision, Started, Verdict, TypeOK, Phases, Acts
<1>4. ClaimInv'
  BY <1>3, ClaimKept DEF SignalNotFound, IInv, ClaimInv, TypeOK, Workflow
<1>5. CallInv'
  BY CallsAssumption, <1>1 DEF SignalNotFound, IInv, CallInv, IsDecision, Started, TypeOK,
     Phases, Acts
<1>6. ActivityInv'
  BY <1>3, <1>1, ActivityKept, CallsAssumption DEF SignalNotFound, IInv, ActivityInv,
     Started, TypeOK, Phases, Acts
<1>7. RunInv'
  BY CallsAssumption, <1>1 DEF SignalNotFound, IInv, RunInv, CallInv, Started, TypeOK,
     Phases, Acts
<1>8. RowInv'
  BY <1>3, <1>1, RowKept DEF IInv
<1>9. FinalInv'
  BY <1>3, <1>1, FinalKept DEF SignalNotFound, IInv, FinalInv, TypeOK, Phases, Acts,
     Workflow
<1>10. ConfirmedDecisionStands'
  BY DEF SignalNotFound, IInv, ConfirmedDecisionStands, CallInv, IsDecision, Started,
     TypeOK, Phases, Acts
<1>11. DetachedMeansClosed'
  BY DEF SignalNotFound, IInv, DetachedMeansClosed, CallInv, RowInv, TypeOK, Phases, Acts
<1>. QED BY <1>2, <1>3, <1>4, <1>5, <1>6, <1>7, <1>8, <1>9, <1>10, <1>11 DEF IInv

\* A failed signal may have been accepted.
LEMMA SignalRaisedStep ==
    ASSUME IInv, NEW c \in Calls, SignalRaised(c)
    PROVE  IInv' /\ SameDeciders
<1>1. row' = row
  BY DEF SignalRaised
<1>2. TypeOK'
  BY DEF SignalRaised, IInv, TypeOK, Phases, Acts, Started
<1>3. SameDeciders
  BY CallsAssumption DEF SignalRaised, IInv, CallInv, SameDeciders, Deciding, IsDecision,
     Started, Verdict, TypeOK, Phases, Acts
<1>4. ClaimInv'
  BY <1>3, ClaimKept DEF SignalRaised, IInv, ClaimInv, TypeOK, Workflow
<1>5. CallInv'
  BY CallsAssumption, <1>1 DEF SignalRaised, IInv, CallInv, IsDecision, Started, TypeOK,
     Phases, Acts
<1>6. ActivityInv'
  BY <1>3, <1>1, ActivityKept, CallsAssumption DEF SignalRaised, IInv, ActivityInv,
     Started, TypeOK, Phases, Acts
<1>7. RunInv'
  BY CallsAssumption, <1>1 DEF SignalRaised, IInv, RunInv, CallInv, Started, TypeOK,
     Phases, Acts
<1>8. RowInv'
  BY <1>3, <1>1, RowKept DEF IInv
<1>9. FinalInv'
  BY <1>3, <1>1, FinalKept DEF SignalRaised, IInv, FinalInv, TypeOK, Phases, Acts, Workflow
<1>10. ConfirmedDecisionStands'
  BY DEF SignalRaised, IInv, ConfirmedDecisionStands, CallInv, IsDecision, Started,
     TypeOK, Phases, Acts
<1>11. DetachedMeansClosed'
  BY DEF SignalRaised, IInv, DetachedMeansClosed, CallInv, RowInv, TypeOK, Phases, Acts
<1>. QED BY <1>2, <1>3, <1>4, <1>5, <1>6, <1>7, <1>8, <1>9, <1>10, <1>11 DEF IInv

\* The reconciliation closes a pending row only, so it never meets a written verdict.
LEMMA ReconcileStep ==
    ASSUME IInv, NEW c \in Calls, Reconcile(c)
    PROVE  IInv' /\ SameDeciders
<1>1. TypeOK'
  <2>1. row' \in Row
    BY DEF Reconcile, _reconcile_missing_workflow, IInv, TypeOK, Row, Actors
  <2>. QED BY <2>1 DEF Reconcile, _reconcile_missing_workflow, IInv, TypeOK
<1>2. SameDeciders
  BY CallsAssumption DEF Reconcile, _reconcile_missing_workflow, IInv, CallInv,
     SameDeciders, Deciding, IsDecision, Started, Verdict, TypeOK, Phases, Acts
<1>3. ClaimInv'
  BY <1>2, ClaimKept DEF Reconcile, _reconcile_missing_workflow, IInv, ClaimInv, TypeOK,
     Workflow
<1>4. CallInv'
  BY CallsAssumption DEF Reconcile, _reconcile_missing_workflow, IInv, CallInv,
     IsDecision, Started, TypeOK, Phases, Acts
<1>5. ActivityInv'
  <2>1. ASSUME NEW a \in Acts, Deciding(a), act[a] \in {"written", "done"}
        PROVE  RowVerdict' = Verdict(a)
    <3>1. row' = row /\ RowVerdict = Verdict(a)
      BY <2>1, DecidingVerdict DEF Reconcile, _reconcile_missing_workflow, Terminal
    <3>. QED BY <3>1 DEF RowVerdict
  <2>2. act' = act /\ strays' = strays
    BY DEF Reconcile, _reconcile_missing_workflow
  <2>. QED BY <1>2, <2>1, <2>2 DEF IInv, ActivityInv, SameDeciders, Deciding, Started
<1>6. RunInv'
  BY CallsAssumption DEF Reconcile, _reconcile_missing_workflow, IInv, RunInv, CallInv,
     Started, TypeOK, Phases, Acts
<1>7. RowInv'
  BY <1>2 DEF Reconcile, _reconcile_missing_workflow, IInv, RowInv, SameDeciders,
     Deciding, RowVerdict, Terminal, TypeOK, Phases, Acts, Row
<1>8. FinalInv'
  <2>1. wf.finalized => Terminal /\ row.linked
    BY DecidingVerdict DEF IInv, FinalInv, Deciding, Started
  <2>2. wf.finalized => row'.linked
    BY <2>1 DEF Reconcile, _reconcile_missing_workflow, Terminal
  <2>3. (exec' = "completed" /\ cancel' = "none") => wf.finalized
    BY DEF Reconcile, _reconcile_missing_workflow, IInv, FinalInv
  <2>4. UNCHANGED <<wf, act>>
    BY DEF Reconcile, _reconcile_missing_workflow
  <2>. QED BY <1>2, <2>2, <2>3, <2>4, FinalKept DEF IInv
<1>9. ConfirmedDecisionStands'
  BY DEF Reconcile, _reconcile_missing_workflow, IInv, ConfirmedDecisionStands, CallInv,
     IsDecision, Started, TypeOK, Phases, Acts
<1>10. DetachedMeansClosed'
  BY DEF Reconcile, _reconcile_missing_workflow, IInv, DetachedMeansClosed, CallInv,
     RowInv, TypeOK, Phases, Acts
<1>. QED BY <1>1, <1>2, <1>3, <1>4, <1>5, <1>6, <1>7, <1>8, <1>9, <1>10 DEF IInv

\* The poll has just read the status it confirms.
LEMMA WaitConfirmedStep ==
    ASSUME IInv, NEW c \in Calls, WaitConfirmed(c)
    PROVE  IInv' /\ SameDeciders
<1>1. row' = row
  BY DEF WaitConfirmed, Confirmed
<1>2. TypeOK'
  BY DEF WaitConfirmed, Confirmed, IInv, TypeOK, Phases, Acts, Started
<1>3. SameDeciders
  BY CallsAssumption DEF WaitConfirmed, Confirmed, IInv, CallInv, SameDeciders, Deciding,
     IsDecision, Started, Verdict, TypeOK, Phases, Acts
<1>4. ClaimInv'
  BY <1>3, ClaimKept DEF WaitConfirmed, Confirmed, IInv, ClaimInv, TypeOK, Workflow
<1>5. CallInv'
  BY CallsAssumption, <1>1 DEF WaitConfirmed, Confirmed, IInv, CallInv, IsDecision,
     Started, TypeOK, Phases, Acts
<1>6. ActivityInv'
  BY <1>3, <1>1, ActivityKept, CallsAssumption DEF WaitConfirmed, Confirmed, IInv,
     ActivityInv, Started, TypeOK, Phases, Acts
<1>7. RunInv'
  BY CallsAssumption, <1>1 DEF WaitConfirmed, Confirmed, IInv, RunInv, CallInv, Started,
     TypeOK, Phases, Acts
<1>8. RowInv'
  BY <1>3, <1>1, RowKept DEF IInv
<1>9. FinalInv'
  BY <1>3, <1>1, FinalKept DEF WaitConfirmed, Confirmed, IInv, FinalInv, TypeOK, Phases,
     Acts, Workflow
<1>10. ConfirmedDecisionStands'
  BY DEF WaitConfirmed, Confirmed, IInv, ConfirmedDecisionStands, CallInv, IsDecision,
     Started, TypeOK, Phases, Acts
<1>11. DetachedMeansClosed'
  BY DEF WaitConfirmed, Confirmed, IInv, DetachedMeansClosed, CallInv, RowInv, TypeOK,
     Phases, Acts
<1>. QED BY <1>2, <1>3, <1>4, <1>5, <1>6, <1>7, <1>8, <1>9, <1>10, <1>11 DEF IInv

\* Giving up on the poll changes nothing else.
LEMMA WaitTimedOutStep ==
    ASSUME IInv, NEW c \in Calls, WaitTimedOut(c)
    PROVE  IInv' /\ SameDeciders
<1>1. row' = row
  BY DEF WaitTimedOut
<1>2. TypeOK'
  BY DEF WaitTimedOut, IInv, TypeOK, Phases, Acts, Started
<1>3. SameDeciders
  BY CallsAssumption DEF WaitTimedOut, IInv, CallInv, SameDeciders, Deciding, IsDecision,
     Started, Verdict, TypeOK, Phases, Acts
<1>4. ClaimInv'
  BY <1>3, ClaimKept DEF WaitTimedOut, IInv, ClaimInv, TypeOK, Workflow
<1>5. CallInv'
  BY CallsAssumption, <1>1 DEF WaitTimedOut, IInv, CallInv, IsDecision, Started, TypeOK,
     Phases, Acts
<1>6. ActivityInv'
  BY <1>3, <1>1, ActivityKept, CallsAssumption DEF WaitTimedOut, IInv, ActivityInv,
     Started, TypeOK, Phases, Acts
<1>7. RunInv'
  BY CallsAssumption, <1>1 DEF WaitTimedOut, IInv, RunInv, CallInv, Started, TypeOK,
     Phases, Acts
<1>8. RowInv'
  BY <1>3, <1>1, RowKept DEF IInv
<1>9. FinalInv'
  BY <1>3, <1>1, FinalKept DEF WaitTimedOut, IInv, FinalInv, TypeOK, Phases, Acts, Workflow
<1>10. ConfirmedDecisionStands'
  BY DEF WaitTimedOut, IInv, ConfirmedDecisionStands, CallInv, IsDecision, Started,
     TypeOK, Phases, Acts
<1>11. DetachedMeansClosed'
  BY DEF WaitTimedOut, IInv, DetachedMeansClosed, CallInv, RowInv, TypeOK, Phases, Acts
<1>. QED BY <1>2, <1>3, <1>4, <1>5, <1>6, <1>7, <1>8, <1>9, <1>10, <1>11 DEF IInv

\* A requested cancel has no effect until it is delivered.
LEMMA NativeCancelStep ==
    ASSUME IInv, NativeCancel
    PROVE  IInv' /\ SameDeciders
<1>1. row' = row
  BY DEF NativeCancel
<1>2. TypeOK'
  BY DEF NativeCancel, IInv, TypeOK, Phases, Acts, Started
<1>3. SameDeciders
  BY CallsAssumption DEF NativeCancel, IInv, CallInv, SameDeciders, Deciding, IsDecision,
     Started, Verdict, TypeOK, Phases, Acts
<1>4. ClaimInv'
  BY <1>3, ClaimKept DEF NativeCancel, IInv, ClaimInv, TypeOK, Workflow
<1>5. CallInv'
  BY CallsAssumption, <1>1 DEF NativeCancel, IInv, CallInv, IsDecision, Started, TypeOK,
     Phases, Acts
<1>6. ActivityInv'
  BY <1>3, <1>1, ActivityKept, CallsAssumption DEF NativeCancel, IInv, ActivityInv,
     Started, TypeOK, Phases, Acts
<1>7. RunInv'
  BY CallsAssumption, <1>1 DEF NativeCancel, IInv, RunInv, CallInv, Started, TypeOK,
     Phases, Acts
<1>8. RowInv'
  BY <1>3, <1>1, RowKept DEF IInv
<1>9. FinalInv'
  BY <1>3, <1>1, FinalKept DEF NativeCancel, IInv, FinalInv, TypeOK, Phases, Acts, Workflow
<1>10. ConfirmedDecisionStands'
  BY DEF NativeCancel, IInv, ConfirmedDecisionStands, CallInv, IsDecision, Started,
     TypeOK, Phases, Acts
<1>11. DetachedMeansClosed'
  BY DEF NativeCancel, IInv, DetachedMeansClosed, CallInv, RowInv, TypeOK, Phases, Acts
<1>. QED BY <1>2, <1>3, <1>4, <1>5, <1>6, <1>7, <1>8, <1>9, <1>10, <1>11 DEF IInv

\* Terminate and delete drop the execution and keep its stray attempts.
LEMMA AdminKillStep ==
    ASSUME IInv, NEW e \in {"terminated", "deleted"}, AdminKill(e)
    PROVE  IInv' /\ SameDeciders
<1>1. row' = row
  BY DEF AdminKill, Close
<1>2. TypeOK'
  BY DEF AdminKill, Close, IInv, TypeOK, Phases, Acts, Started
<1>3. SameDeciders
  BY CallsAssumption DEF AdminKill, Close, IInv, CallInv, SameDeciders, Deciding,
     IsDecision, Started, Verdict, TypeOK, Phases, Acts
<1>4. ClaimInv'
  BY <1>3, ClaimKept DEF AdminKill, Close, IInv, ClaimInv, TypeOK, Workflow
<1>5. CallInv'
  BY CallsAssumption, <1>1 DEF AdminKill, Close, IInv, CallInv, IsDecision, Started,
     TypeOK, Phases, Acts
<1>6. ActivityInv'
  BY <1>3, <1>1, ActivityKept, CallsAssumption DEF AdminKill, Close, IInv, ActivityInv,
     Started, TypeOK, Phases, Acts
<1>7. RunInv'
  BY CallsAssumption, <1>1 DEF AdminKill, Close, IInv, RunInv, CallInv, Started, TypeOK,
     Phases, Acts
<1>8. RowInv'
  BY <1>3, <1>1, RowKept DEF IInv
<1>9. FinalInv'
  BY <1>3, <1>1, FinalKept DEF AdminKill, Close, IInv, FinalInv, TypeOK, Phases, Acts,
     Workflow
<1>10. ConfirmedDecisionStands'
  BY DEF AdminKill, Close, IInv, ConfirmedDecisionStands, CallInv, IsDecision, Started,
     TypeOK, Phases, Acts
<1>11. DetachedMeansClosed'
  BY DEF AdminKill, Close, IInv, DetachedMeansClosed, CallInv, RowInv, TypeOK, Phases, Acts
<1>. QED BY <1>2, <1>3, <1>4, <1>5, <1>6, <1>7, <1>8, <1>9, <1>10, <1>11 DEF IInv

\* A signal that bypasses the service finds a row all the same.
LEMMA RawSignalStep ==
    ASSUME IInv, NEW c \in Calls, NEW d \in Decisions, NEW u \in Users, RawSignal(c, d, u)
    PROVE  IInv' /\ SameDeciders
<1>1. row' = row
  BY DEF RawSignal
<1>2. TypeOK'
  BY UsersAssumption, PayloadAssumption DEF RawSignal, IInv, TypeOK, Phases, Acts,
     Started, Args, Decisions, Actors, Row
<1>3. SameDeciders
  BY CallsAssumption DEF RawSignal, IInv, CallInv, SameDeciders, Deciding, IsDecision,
     Started, Verdict, TypeOK, Phases, Acts
<1>4. ClaimInv'
  BY <1>3, ClaimKept DEF RawSignal, IInv, ClaimInv, TypeOK, Workflow
<1>5. CallInv'
  BY CallsAssumption, <1>1 DEF RawSignal, IInv, CallInv, IsDecision, Started, TypeOK,
     Phases, Acts
<1>6. ActivityInv'
  BY <1>3, <1>1, ActivityKept, CallsAssumption DEF RawSignal, IInv, ActivityInv, Started,
     TypeOK, Phases, Acts
<1>7. RunInv'
  BY CallsAssumption, <1>1 DEF RawSignal, IInv, RunInv, CallInv, Started, TypeOK, Phases,
     Acts
<1>8. RowInv'
  BY <1>3, <1>1, RowKept DEF IInv
<1>9. FinalInv'
  BY <1>3, <1>1, FinalKept DEF RawSignal, IInv, FinalInv, TypeOK, Phases, Acts, Workflow
<1>10. ConfirmedDecisionStands'
  BY DEF RawSignal, IInv, ConfirmedDecisionStands, CallInv, IsDecision, Started, TypeOK,
     Phases, Acts
<1>11. DetachedMeansClosed'
  BY DEF RawSignal, IInv, DetachedMeansClosed, CallInv, RowInv, TypeOK, Phases, Acts
<1>. QED BY <1>2, <1>3, <1>4, <1>5, <1>6, <1>7, <1>8, <1>9, <1>10, <1>11 DEF IInv
-----------------------------------------------------------------------------
\* The invariant.

\* The initial state satisfies the invariant.
LEMMA InitIInv == Init => IInv
<1>. SUFFICES ASSUME Init PROVE IInv
  OBVIOUS
<1>1. TypeOK
  BY UsersAssumption, PayloadAssumption, AttemptsAssumption
     DEF Init, TypeOK, Row, Workflow, Phases, Args, NoArgs, Actors, Decisions
<1>2. ClaimInv /\ ActivityInv /\ RunInv
  BY DEF Init, ClaimInv, SingleWinner, ActivityInv, RunInv, Started, Acts
<1>3. CallInv
  BY CallsAssumption DEF Init, CallInv, IsDecision, NoArgs, Started, Acts
<1>4. RowInv /\ FinalInv /\ ConfirmedDecisionStands /\ DetachedMeansClosed
  BY DEF Init, RowInv, FinalInv, ConfirmedDecisionStands, DetachedMeansClosed, Terminal
<1>. QED BY <1>1, <1>2, <1>3, <1>4 DEF IInv

\* A stuttering step keeps it.
LEMMA StutterStep == ASSUME IInv, UNCHANGED vars PROVE IInv' /\ SameDeciders
<1>1. /\ UNCHANGED <<row, exec, wf, act, tries, strays>>
      /\ UNCHANGED <<hand, cancel, call, args>>
  BY DEF vars
<1>2. TypeOK' /\ CallInv' /\ RunInv'
  BY <1>1 DEF IInv, TypeOK, CallInv, RunInv, IsDecision, Started
<1>3. SameDeciders
  BY <1>1 DEF SameDeciders, Deciding, IsDecision, Started, Verdict
<1>4. ClaimInv' /\ RowInv'
  BY <1>1, <1>3, ClaimKept, RowKept DEF IInv, ClaimInv
<1>5. ActivityInv'
  BY <1>1, <1>3, ActivityKept DEF IInv, ActivityInv, Started
<1>6. FinalInv'
  BY <1>1, <1>3, FinalKept DEF IInv, FinalInv
<1>7. ConfirmedDecisionStands' /\ DetachedMeansClosed'
  BY <1>1 DEF IInv, ConfirmedDecisionStands, DetachedMeansClosed
<1>. QED BY <1>2, <1>3, <1>4, <1>5, <1>6, <1>7 DEF IInv

\* Every step keeps the invariant and either leaves the scheduled decisions
\* alone or is the step that claims.
LEMMA NextStep == ASSUME IInv, [Next]_vars PROVE IInv' /\ (SameDeciders \/ NewDecider)
<1>1. CASE WorkflowTask
  <2>1. ASSUME DeliverCancel PROVE IInv' /\ (SameDeciders \/ NewDecider)
    BY <2>1, CancelEscapesStep, CancelClaimsStep, CancelReturnsStep DEF DeliverCancel
  <2>2. ASSUME NEW c \in Calls, HandleDecision(c) PROVE IInv' /\ (SameDeciders \/ NewDecider)
    BY <2>2, IgnoreDecisionStep, ClaimDecisionStep, RejectDecisionStep DEF HandleDecision
  <2>. QED
    BY <1>1, <2>1, <2>2, StartRunStep, RequestPersistedStep, RequestFailedStep,
       RunReturnsStep,
       ForcedPersistedStep, ForcedFailedStep, DecisionPersistedStep, HandleUpdateStep,
       UpdatePersistedStep, HandlerFailedStep DEF WorkflowTask
<1>2. CASE ActivityTask
  BY <1>2, DispatchStep, ExecuteStep, ReportStep DEF ActivityTask
<1>3. CASE Service
  BY <1>3, CreateReviewStep, SubmitDecisionStep, UpdateReviewStep, SignalAcceptedStep,
     SignalNotFoundStep, SignalRaisedStep, ReconcileStep, WaitConfirmedStep,
     WaitTimedOutStep
     DEF Service
<1>4. CASE Environment
  BY <1>4, NativeCancelStep, AdminKillStep, RawSignalStep, AttemptLostStep, StrayExecuteStep
     DEF Environment
<1>5. CASE UNCHANGED vars
  BY <1>5, StutterStep
<1>. QED BY <1>1, <1>2, <1>3, <1>4, <1>5 DEF Next, Worker

\* The inductive invariant holds in every reachable state.
THEOREM Invariance == Spec => []IInv
BY InitIInv, NextStep, PTL DEF Spec

\* Every variable keeps its type; for the row this takes the whole invariant,
\* since persist_decision stores whatever decision its handler was given.
THEOREM TypeCorrect == Spec => []TypeOK
<1>1. IInv => TypeOK
  BY DEF IInv
<1>. QED BY <1>1, Invariance, PTL

\* At most one decision signal or native cancel ever schedules
\* persist_decision: the claim of _claim_final is exclusive.
THEOREM SingleWinnerHolds == Spec => []SingleWinner
<1>1. IInv => SingleWinner
  BY DEF IInv, ClaimInv
<1>. QED BY <1>1, Invariance, PTL

\* What the workflow believes once it is final is what the row says.
THEOREM FinalizedIsPersistedHolds == Spec => []FinalizedIsPersisted
<1>1. ASSUME IInv, wf.finalized
      PROVE  row.status = wf.status /\ row.closedBy = wf.closedBy
  <2>1. PICK a \in Acts : /\ IsDecision(a) /\ act[a] = "done"
                          /\ wf.status = Verdict(a).status /\ wf.closedBy = Verdict(a).closedBy
    BY <1>1 DEF IInv, FinalInv
  <2>2. RowVerdict = Verdict(a)
    BY <1>1, <2>1 DEF IInv, ActivityInv
  <2>. QED BY <2>1, <2>2 DEF RowVerdict
<1>2. IInv => FinalizedIsPersisted
  BY <1>1 DEF FinalizedIsPersisted
<1>. QED BY <1>2, Invariance, PTL

\* An execution that completes without a native cancel has put its verdict in
\* the row, and the row still points to it.
THEOREM CompletedIsPersistedHolds == Spec => []CompletedIsPersisted
<1>1. ASSUME IInv, exec = "completed", cancel = "none"
      PROVE  Terminal /\ row.linked /\ row.status = wf.status
  <2>1. wf.finalized /\ row.linked
    BY <1>1 DEF IInv, FinalInv
  <2>2. PICK a \in Acts : /\ IsDecision(a) /\ act[a] = "done"
                          /\ wf.status = Verdict(a).status /\ wf.closedBy = Verdict(a).closedBy
    BY <1>1, <2>1 DEF IInv, FinalInv
  <2>3. Deciding(a)
    BY <2>2 DEF Deciding, Started
  <2>4. Terminal /\ RowVerdict = Verdict(a)
    BY <1>1, <2>2, <2>3, DecidingVerdict
  <2>. QED BY <2>1, <2>2, <2>4 DEF RowVerdict
<1>2. IInv => CompletedIsPersisted
  BY <1>1 DEF CompletedIsPersisted
<1>. QED BY <1>2, Invariance, PTL

\* A confirmed decision is still the row's, unless the row was detached.
THEOREM ConfirmedDecisionStandsHolds == Spec => []ConfirmedDecisionStands
<1>1. IInv => ConfirmedDecisionStands
  BY DEF IInv
<1>. QED BY <1>1, Invariance, PTL

\* Only a closed execution ever loses its row.
THEOREM DetachedMeansClosedHolds == Spec => []DetachedMeansClosed
<1>1. IInv => DetachedMeansClosed
  BY DEF IInv
<1>. QED BY <1>1, Invariance, PTL

\* A signal handler runs only for a review whose row exists.
THEOREM HandlerFindsRowHolds == Spec => []HandlerFindsRow
<1>1. IInv => HandlerFindsRow
  BY DEF IInv, CallInv, HandlerFindsRow
<1>. QED BY <1>1, Invariance, PTL

\* Without signals that bypass the service, CANCELLED is recorded for the
\* requester or for Temporal only.
THEOREM CancelledByRequesterHolds == Spec => []CancelledByRequester
<1>1. ASSUME IInv, "raw_signal" \notin Faults, row.status = "CANCELLED"
      PROVE  row.closedBy \in {Requester, "temporal-admin"}
  <2>1. Terminal
    BY <1>1 DEF Terminal
  <2>2. CASE \E a \in Acts : IsDecision(a) /\ Started(a) /\ RowVerdict = Verdict(a)
    <3>1. PICK a \in Acts : IsDecision(a) /\ Started(a) /\ RowVerdict = Verdict(a)
      BY <2>2
    <3>2. Verdict(a).status = "CANCELLED" /\ row.closedBy = Verdict(a).closedBy
      BY <1>1, <3>1 DEF RowVerdict
    <3>3. CASE a = "forced"
      BY <3>2, <3>3 DEF Verdict
    <3>4. CASE a # "forced"
      <4>1. a \in Calls /\ args[a].decision = "CANCELLED" /\ row.closedBy = args[a].actor
        BY <3>1, <3>2, <3>4 DEF Verdict, IsDecision
      <4>. QED BY <1>1, <3>1, <4>1 DEF IInv, CallInv
    <3>. QED BY <3>3, <3>4
  <2>3. CASE RowVerdict = [status |-> "CANCELLED", closedBy |-> "temporal-admin",
                           closedAt |-> "null"]
    BY <2>3 DEF RowVerdict
  <2>. QED BY <1>1, <2>1, <2>2, <2>3 DEF IInv, RowInv
<1>2. IInv => CancelledByRequester
  BY <1>1 DEF CancelledByRequester
<1>. QED BY <1>2, Invariance, PTL

-----------------------------------------------------------------------------
\* What a step may do to the row.

\* Only the statement of a started activity or of the reconciliation changes it.
LEMMA RowSteps ==
    ASSUME IInv, [Next]_vars
    PROVE  \/ row' = row
           \/ \E a \in Acts : Started(a) /\ row' = Statement(a)
           \/ row' = _reconcile_missing_workflow
<1>1. CASE WorkflowTask
  BY <1>1 DEF WorkflowTask, StartRun, RequestPersisted, RequestFailed, RunReturns,
     DeliverCancel,
     ForcedPersisted, ForcedFailed, HandleDecision, DecisionPersisted, HandleUpdate,
     UpdatePersisted, HandlerFailed
<1>2. CASE ActivityTask
  BY <1>2 DEF ActivityTask, Dispatch, Execute, Report, Started
<1>3. CASE Service
  BY <1>3 DEF Service, CreateReview, SubmitDecision, UpdateReview, SignalAccepted, 
     SignalNotFound, SignalRaised, Reconcile, WaitConfirmed, WaitTimedOut
<1>4. CASE Environment
  BY <1>4 DEF Environment, NativeCancel, AdminKill, RawSignal, AttemptLost, StrayExecute, 
     IInv, ActivityInv
<1>5. CASE UNCHANGED vars
  BY <1>5 DEF vars
<1>. QED BY <1>1, <1>2, <1>3, <1>4, <1>5 DEF Next, Worker

\* The row of a decided review never changes again, for all the retries, stray
\* attempts, edits and reconciliations that may still be under way.
THEOREM DecidedRowIsFinalHolds == Spec => DecidedRowIsFinal
<1>1. ASSUME IInv, [Next]_vars, Terminal, row.linked PROVE row' = row
  BY <1>1, RowSteps, StatementEffect DEF _reconcile_missing_workflow, Terminal
<1>2. IInv /\ [Next]_vars => [(Terminal /\ row.linked) => row' = row]_vars
  BY <1>1
<1>. QED BY <1>2, Invariance, PTL DEF Spec, DecidedRowIsFinal

\* No edit changes the payload of a review that was decided or reconciled.
THEOREM PayloadFrozenHolds == Spec => PayloadFrozen
<1>1. ASSUME IInv, [Next]_vars, Terminal PROVE row'.payload = row.payload
  BY <1>1, RowSteps, StatementEffect DEF _reconcile_missing_workflow, Terminal
<1>2. IInv /\ [Next]_vars => [Terminal => row'.payload = row.payload]_vars
  BY <1>1
<1>. QED BY <1>2, Invariance, PTL DEF Spec, PayloadFrozen

-----------------------------------------------------------------------------
\* The row implements ReviewLifecycle.

\* The winner is the verdict of the one scheduled decision ...
LEMMA WinnerIs ==
    ASSUME SingleWinner, NEW a \in Acts, Deciding(a)
    PROVE  Winner = Verdict(a)
<1>1. \A b \in Acts : Deciding(b) <=> b = a
  BY DEF SingleWinner, Deciding, Started
<1>2. (CHOOSE b \in Acts : Deciding(b)) = a
  BY <1>1
<1>. QED BY <1>2 DEF Winner

\* ... after a step as well as before it ...
LEMMA WinnerIsNext ==
    ASSUME SingleWinner', NEW a \in Acts, Deciding(a)'
    PROVE  Winner' = Verdict(a)'
<1>1. \A b \in Acts : Deciding(b)' <=> b = a
  BY DEF SingleWinner, Deciding, Started
<1>2. (CHOOSE b \in Acts : Deciding(b)') = a
  BY <1>1
<1>. QED BY <1>2 DEF Winner

\* ... and it stays the winner.
LEMMA WinnerKept ==
    ASSUME IInv, IInv', SameDeciders
    PROVE  Winner' = Winner
<1>0. SingleWinner /\ SingleWinner'
  BY DEF IInv, ClaimInv
<1>1. CASE \E a \in Acts : Deciding(a)
  <2>1. PICK a \in Acts : Deciding(a)
    BY <1>1
  <2>2. Deciding(a)' /\ Verdict(a)' = Verdict(a)
    BY <2>1 DEF SameDeciders
  <2>3. Winner = Verdict(a)
    BY <1>0, <2>1, WinnerIs
  <2>4. Winner' = Verdict(a)'
    BY <1>0, <2>2, WinnerIsNext
  <2>. QED BY <2>2, <2>3, <2>4
<1>2. CASE ~\E a \in Acts : Deciding(a)
  <2>1. ~\E a \in Acts : Deciding(a)'
    BY <1>2 DEF SameDeciders
  <2>. QED BY <1>2, <2>1 DEF Winner, NoVerdict
<1>. QED BY <1>1, <1>2

\* Neither the row nor the winner changes: the lifecycle stutters.
LEMMA LifecycleStutter ==
    ASSUME row' = row, Winner' = Winner
    PROVE  UNCHANGED Lifecycle!vars
BY DEF Lifecycle!vars, Stage, RowVerdict, Terminal

\* The step that claims finds the row pending and no winner yet.
LEMMA LifecycleClaim ==
    ASSUME IInv, IInv', NewDecider
    PROVE  Lifecycle!Next
<1>1. \A a \in Acts : ~Deciding(a)
  BY DEF NewDecider, CanClaim, IInv, ClaimInv, Deciding
<1>2. row.status = "PENDING_REVIEW"
  BY <1>1 DEF NewDecider, IInv, RowInv, DetachedMeansClosed, Deciding, Terminal, TypeOK, Row
<1>3. PICK a \in Acts : Deciding(a)'
  BY DEF NewDecider
<1>4. Winner = NoVerdict /\ Winner' = Verdict(a)'
  BY <1>1, <1>3, WinnerIsNext DEF IInv, ClaimInv, Winner
<1>5. /\ Verdict(a)'.status \in VALID_DECISIONS /\ Verdict(a)'.closedBy \in Actors
      /\ Verdict(a)'.closedAt \in {"now", "cancel"}
  BY <1>3 DEF Verdict, IInv, CallInv, TypeOK, Args, Actors, Deciding, IsDecision
<1>6. Verdict(a)' \in [status : VALID_DECISIONS, closedBy : Actors, closedAt : {"now", "cancel"}]
  BY <1>5 DEF Verdict
<1>7. Lifecycle!Claim(Verdict(a)')
  BY <1>2, <1>4 DEF Lifecycle!Claim, NewDecider, Stage, NoVerdict, RowVerdict
<1>. QED BY <1>6, <1>7 DEF Lifecycle!Next

\* A statement of activities.py creates the row, edits it, writes the winner,
\* or changes nothing.
LEMMA LifecycleStatement ==
    ASSUME IInv, NEW a \in Acts, Started(a), row' = Statement(a), Winner' = Winner
    PROVE  Lifecycle!Next \/ UNCHANGED Lifecycle!vars
<1>0. row \in Row /\ row' \in Row
  BY StatementEffect DEF IInv, TypeOK
<1>1. CASE a = "request"
  <2>1. CASE row.status = "absent"
    <3>1. row' = [row EXCEPT !.status = "PENDING_REVIEW", !.linked = TRUE]
      BY <1>1, <2>1 DEF Statement, persist_request
    <3>2. row'.status = "PENDING_REVIEW" /\ row'.payload = row.payload
      BY <1>0, <3>1 DEF Row
    <3>3. Lifecycle!Create
      BY <2>1, <3>2 DEF Lifecycle!Create, Stage
    <3>. QED BY <3>3 DEF Lifecycle!Next
  <2>2. CASE row.status # "absent"
    BY <1>1, <2>2, LifecycleStutter DEF Statement, persist_request
  <2>. QED BY <2>1, <2>2
<1>2. CASE a # "request" /\ IsDecision(a)
  <2>1. Deciding(a) /\ Winner = Verdict(a)
    BY <1>2, WinnerIs DEF Deciding, IInv, ClaimInv
  <2>2. /\ row.status # "absent" /\ RowVerdict' = Verdict(a)
        /\ Verdict(a).status \in VALID_DECISIONS /\ row'.linked = row.linked
    BY <2>1, StatementEffect, DecidingVerdict
  <2>3. row'.status \in VALID_DECISIONS /\ row'.payload = row.payload
    <3>1. row' = persist_decision(Verdict(a))
      BY <1>2 DEF Statement
    <3>. QED BY <1>0, <2>2, <3>1 DEF persist_decision, Row
  <2>4. Winner # NoVerdict
    BY <2>1, <2>2 DEF NoVerdict
  <2>5. CASE Terminal /\ row.linked
    BY <2>5, StatementEffect, LifecycleStutter
  <2>6. CASE ~(Terminal /\ row.linked)
    <3>1. Stage \in {"pending", "detached"}
      BY <2>2, <2>6, <1>0 DEF Stage, Terminal, Row
    <3>2. Stage' = IF Stage = "pending" THEN "decided" ELSE "detached"
      BY <2>2, <2>3, <2>6, <1>0 DEF Stage, Terminal, Row, IInv, RowInv
    <3>3. Lifecycle!Decide
      BY <2>1, <2>2, <2>3, <2>4, <3>1, <3>2 DEF Lifecycle!Decide
    <3>. QED BY <3>3 DEF Lifecycle!Next
  <2>. QED BY <2>5, <2>6
<1>3. CASE a # "request" /\ ~IsDecision(a)
  <2>1. CASE row.status = "PENDING_REVIEW"
    <3>1. row' = [row EXCEPT !.payload = args[a].payload] /\ args[a].payload \in Payloads
      BY <1>3, <2>1 DEF Statement, persist_update, IsDecision, IInv, TypeOK, Args, Acts
    <3>2. row'.payload = args[a].payload /\ row'.status = row.status
      BY <1>0, <3>1 DEF Row
    <3>3. Lifecycle!Edit(args[a].payload)
      BY <2>1, <3>2 DEF Lifecycle!Edit, Stage
    <3>. QED BY <3>1, <3>3 DEF Lifecycle!Next
  <2>2. CASE row.status # "PENDING_REVIEW"
    BY <1>3, <2>2, LifecycleStutter DEF Statement, persist_update
  <2>. QED BY <2>1, <2>2
<1>. QED BY <1>1, <1>2, <1>3

\* The reconciliation detaches a pending row and leaves any other alone.
LEMMA LifecycleReconcile ==
    ASSUME IInv, row' = _reconcile_missing_workflow, Winner' = Winner
    PROVE  Lifecycle!Next \/ UNCHANGED Lifecycle!vars
<1>1. CASE row.status = "PENDING_REVIEW"
  <2>1. /\ row'.status = "CANCELLED" /\ row'.closedBy = "temporal-admin"
        /\ row'.closedAt = "null" /\ row'.linked = FALSE /\ row'.payload = row.payload
    BY <1>1 DEF _reconcile_missing_workflow, IInv, TypeOK, Row
  <2>2. Lifecycle!Detach
    BY <1>1, <2>1 DEF Lifecycle!Detach, Stage, RowVerdict
  <2>. QED BY <2>2 DEF Lifecycle!Next
<1>2. CASE row.status # "PENDING_REVIEW"
  BY <1>2, LifecycleStutter DEF _reconcile_missing_workflow
<1>. QED BY <1>1, <1>2

\* The row of a review implements the lifecycle: one verdict is claimed while
\* the row is pending, and the execution never writes another.
THEOREM ImplementsLifecycleHolds == Spec => ImplementsLifecycle
<1>1. Init => Lifecycle!Init
  <2>. SUFFICES ASSUME Init PROVE Lifecycle!Init
    OBVIOUS
  <2>1. \A a \in Acts : ~Deciding(a)
    BY DEF Init, Deciding, Started
  <2>. QED BY <2>1 DEF Init, Lifecycle!Init, Stage, Winner
<1>2. ASSUME IInv, IInv', [Next]_vars PROVE [Lifecycle!Next]_(Lifecycle!vars)
  <2>1. CASE NewDecider
    BY <1>2, <2>1, LifecycleClaim
  <2>2. CASE SameDeciders
    <3>1. Winner' = Winner
      BY <1>2, <2>2, WinnerKept
    <3>. QED
      BY <1>2, <3>1, RowSteps, LifecycleStutter, LifecycleStatement, LifecycleReconcile
  <2>. QED BY <1>2, <2>1, <2>2, NextStep
<1>. QED BY <1>1, <1>2, Invariance, PTL DEF Spec, ImplementsLifecycle, Lifecycle!Spec
=============================================================================

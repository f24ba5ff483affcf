---------------------- MODULE ReviewProgressProofs ----------------------
(***************************************************************************)
(* Why a review does not hang: proofs about ReviewWorkflow, for any number *)
(* of calls and attempts and any kinds of faults, that whatever run() or a *)
(* handler awaits is on its way or has an outcome (NobodyWaitsInVain), and *)
(* that every activity has only so many steps left (AttemptsRunOut).  With *)
(* a worker that keeps polling these give what AcceptedDecisionCloses says *)
(* under fairness, which is beyond the prover and left to TLC.             *)
(*                                                                         *)
(* WaitInv is inductive relative to IInv.  Each of its three parts has a   *)
(* step lemma of its own.                                                  *)
(***************************************************************************)
EXTENDS ReviewWorkflowProofs

USE DEF Closed, VALID_DECISIONS, serviceVars, actVars, temporalVars

-----------------------------------------------------------------------------
\* What is known of the attempts survives a step that leaves the activities alone
\* and awaits nothing new,
LEMMA AttemptsKept ==
    ASSUME AttemptInv, act' = act, tries' = tries, exec \in Closed => exec' \in Closed,
           \A a \in Acts : Awaited(a)' => Awaited(a)
    PROVE  AttemptInv'
BY DEF AttemptInv, Started

\* a step that closes the execution,
LEMMA AttemptsClosed ==
    ASSUME TypeOK, AttemptInv, NEW e \in Closed, Close(e),
           \A a \in Acts : Awaited(a)' => Awaited(a)
    PROVE  AttemptInv'
<1>1. \A a \in Acts : Started(a)' <=> Started(a)
  BY DEF Close, Started, TypeOK, Phases
<1>2. \A a \in Acts : act'[a] # "scheduled" /\ tries'[a] = tries[a] /\ exec' \in Closed
  BY DEF Close, TypeOK, Phases
<1>. QED BY <1>1, <1>2 DEF AttemptInv

\* a step that schedules one,
LEMMA AttemptsScheduled ==
    ASSUME TypeOK, AttemptInv, NEW a \in Acts, ~Started(a), Schedule(a), exec' = exec,
           \A b \in Acts : Awaited(b)' => b = a \/ Awaited(b)
    PROVE  AttemptInv'
<1>1. \A b \in Acts : act'[b] = IF b = a THEN "scheduled" ELSE act[b]
  BY DEF Schedule, TypeOK
<1>2. tries' = tries /\ tries[a] = 0 /\ 0 < MaxAttempts
  BY AttemptsAssumption DEF Schedule, AttemptInv
<1>. QED BY <1>1, <1>2 DEF AttemptInv, Started

\* and a step of an attempt.
LEMMA AttemptsStep ==
    ASSUME TypeOK, AttemptInv, NEW a \in Acts,
           Dispatch(a) \/ Execute(a) \/ Report(a) \/ AttemptLost(a) \/ StrayExecute(a)
    PROVE  AttemptInv'
<1>1. \A b \in Acts : Awaited(b)' <=> Awaited(b)
  BY DEF Dispatch, Execute, Report, AttemptLost, StrayExecute, Awaited
<1>2. exec' = exec /\ \A b \in Acts \ {a} : act'[b] = act[b] /\ tries'[b] = tries[b]
  BY DEF Dispatch, Execute, Report, AttemptLost, StrayExecute, TypeOK
<1>3. CASE StrayExecute(a)
  BY <1>1, <1>3 DEF StrayExecute, AttemptInv, Started
<1>4. CASE ~StrayExecute(a)
  <2>1. /\ act'[a] \in {"scheduled", "running", "written", "done", "failed"}
        /\ act'[a] = "scheduled" => tries'[a] < MaxAttempts
    BY <1>4 DEF Dispatch, Execute, Report, AttemptLost, TypeOK
  <2>. QED BY <1>1, <1>2, <2>1 DEF AttemptInv, Started
<1>. QED BY <1>3, <1>4

\* Every step keeps what is known of the attempts: an activity is scheduled only
\* once, by whoever then awaits it.
LEMMA AttemptInvStep ==
    ASSUME IInv, StartInv, AttemptInv, [Next]_vars
    PROVE  AttemptInv'
<1>0. TypeOK
  BY DEF IInv
<1>1. CASE WorkflowTask
  <2>1. CASE StartRun
    <3>1. Schedule("request") /\ ~Started("request") /\ exec' = exec
      BY <2>1 DEF StartRun, StartInv
    <3>2. \A b \in Acts : Awaited(b)' => b = "request" \/ Awaited(b)
      BY <1>0, <2>1 DEF StartRun, Awaited, TypeOK, Workflow
    <3>. QED BY <1>0, <3>1, <3>2, AttemptsScheduled DEF Acts
  <2>2. CASE RequestPersisted
    <3>1. \A b \in Acts : Awaited(b)' => Awaited(b)
      BY <1>0, <2>2 DEF RequestPersisted, Awaited, TypeOK, Workflow
    <3>. QED BY <2>2, <3>1, AttemptsKept DEF RequestPersisted
  <2>3. CASE RequestFailed \/ RunReturns \/ ForcedPersisted \/ ForcedFailed
    <3>1. \A b \in Acts : Awaited(b)' => Awaited(b)
      BY <1>0, <2>3 DEF RequestFailed, RunReturns, ForcedPersisted, ForcedFailed,
         Awaited, TypeOK, Workflow
    <3>. QED BY <1>0, <2>3, <3>1, AttemptsClosed DEF RequestFailed, RunReturns,
                ForcedPersisted, ForcedFailed
  <2>4. CASE DeliverCancel
    <3>1. CASE CancelClaims
      <4>1. Schedule("forced") /\ ~Started("forced") /\ exec' = exec
        BY <3>1 DEF CancelClaims, CanClaim, IInv, ClaimInv, IsDecision, Acts
      <4>2. \A b \in Acts : Awaited(b)' => b = "forced" \/ Awaited(b)
        BY <1>0, <2>4, <3>1 DEF DeliverCancel, CancelClaims, Awaited, TypeOK, Workflow
      <4>. QED BY <1>0, <4>1, <4>2, AttemptsScheduled DEF Acts
    <3>2. CASE CancelEscapes \/ CancelReturns
      <4>1. \A b \in Acts : Awaited(b)' => Awaited(b)
        BY <1>0, <2>4, <3>2 DEF DeliverCancel, CancelEscapes, CancelReturns, Awaited,
           TypeOK, Workflow
      <4>. QED BY <1>0, <3>2, <4>1, AttemptsClosed DEF CancelEscapes, CancelReturns
    <3>. QED BY <2>4, <3>1, <3>2 DEF DeliverCancel
  <2>5. ASSUME NEW c \in Calls, HandleDecision(c) \/ HandleUpdate(c)
        PROVE  AttemptInv'
    <3>1. /\ ~Started(c) /\ exec = "running" /\ c \in Acts
          /\ \A b \in Acts : Awaited(b)' => b = c \/ Awaited(b)
      BY <1>0, <2>5, CallsAssumption DEF HandleDecision, HandleUpdate, IgnoreDecision,
         ClaimDecision,
         RejectDecision, IInv, CallInv, Awaited, TypeOK, Workflow, Acts
    <3>2. CASE Schedule(c) /\ exec' = exec
      BY <1>0, <3>1, <3>2, AttemptsScheduled
    <3>3. CASE hand'[c] = "done" /\ act' = act /\ tries' = tries
      <4>1. \A b \in Acts : Awaited(b)' => Awaited(b)
        BY <3>1, <3>3, CallsAssumption DEF Awaited, Acts
      <4>. QED BY <3>1, <3>3, <4>1, AttemptsKept
    <3>4. CASE hand'[c] = "done" /\ Close("failed")
      <4>1. \A b \in Acts : Awaited(b)' => Awaited(b)
        BY <3>1, <3>4, CallsAssumption DEF Awaited, Acts
      <4>. QED BY <1>0, <3>4, <4>1, AttemptsClosed
    <3>. QED
      BY <1>0, <2>5, <3>2, <3>3, <3>4 DEF HandleDecision, HandleUpdate, IgnoreDecision,
         ClaimDecision,
         RejectDecision, TypeOK
  <2>6. ASSUME NEW c \in Calls, DecisionPersisted(c) \/ UpdatePersisted(c)
        PROVE  AttemptInv'
    <3>1. \A b \in Acts : Awaited(b)' => Awaited(b)
      BY <1>0, <2>6 DEF DecisionPersisted, UpdatePersisted, Awaited, TypeOK, Workflow
    <3>. QED BY <2>6, <3>1, AttemptsKept DEF DecisionPersisted, UpdatePersisted
  <2>7. ASSUME NEW c \in Calls, HandlerFailed(c)
        PROVE  AttemptInv'
    <3>1. \A b \in Acts : Awaited(b)' => Awaited(b)
      BY <1>0, <2>7 DEF HandlerFailed, Awaited, TypeOK
    <3>. QED BY <1>0, <2>7, <3>1, AttemptsClosed DEF HandlerFailed
  <2>. QED BY <1>1, <2>1, <2>2, <2>3, <2>4, <2>5, <2>6, <2>7 DEF WorkflowTask
<1>2. CASE ActivityTask
  BY <1>0, <1>2, AttemptsStep DEF ActivityTask
<1>3. CASE Service
  <2>1. /\ \A b \in Acts : Awaited(b)' => Awaited(b)
        /\ act' = act /\ tries' = tries /\ (exec \in Closed => exec' \in Closed)
    BY <1>0, <1>3 DEF Service, CreateReview, SubmitDecision, UpdateReview, SignalAccepted,
       SignalNotFound, SignalRaised, Reconcile, WaitConfirmed, WaitTimedOut, Awaited, TypeOK
  <2>. QED BY <2>1, AttemptsKept
<1>4. CASE Environment
  <2>1. CASE NativeCancel \/ \E c \in Calls, d \in Decisions, u \in Users : RawSignal(c, d, u)
    <3>1. \A b \in Acts : Awaited(b)' => Awaited(b)
      BY <1>0, <2>1 DEF NativeCancel, RawSignal, Awaited, TypeOK
    <3>. QED BY <2>1, <3>1, AttemptsKept DEF NativeCancel, RawSignal
  <2>2. ASSUME NEW e \in {"terminated", "deleted"}, AdminKill(e) PROVE AttemptInv'
    <3>1. \A b \in Acts : Awaited(b)' => Awaited(b)
      BY <2>2 DEF AdminKill, Awaited
    <3>. QED BY <1>0, <2>2, <3>1, AttemptsClosed DEF AdminKill
  <2>. QED BY <1>0, <1>4, <2>1, <2>2, AttemptsStep DEF Environment
<1>5. CASE UNCHANGED vars
  BY <1>5, AttemptsKept DEF vars, Awaited
<1>. QED BY <1>1, <1>2, <1>3, <1>4, <1>5 DEF Next, Worker

-----------------------------------------------------------------------------
\* run() is started once, and it returns in the step that closes the execution.
LEMMA StartInvStep ==
    ASSUME IInv, StartInv, [Next]_vars
    PROVE  StartInv'
<1>0. TypeOK
  BY DEF IInv
<1>1. CASE WorkflowTask
  <2>1. CASE \/ StartRun \/ RequestPersisted \/ RequestFailed
             \/ RunReturns \/ ForcedPersisted \/ ForcedFailed
    BY <1>0, <2>1 DEF StartRun, RequestPersisted, RequestFailed, RunReturns,
       ForcedPersisted,
       ForcedFailed, Schedule, Close, StartInv, TypeOK, Workflow
  <2>2. CASE DeliverCancel
    <3>1. CASE CancelEscapes
      BY <1>0, <2>2, <3>1 DEF DeliverCancel, CancelEscapes, Close, StartInv, Started,
         TypeOK, Acts
    <3>2. CASE CancelClaims
      BY <1>0, <2>2, <3>2 DEF DeliverCancel, CancelClaims, StartInv, TypeOK, Workflow
    <3>3. CASE CancelReturns
      BY <1>0, <2>2, <3>3 DEF DeliverCancel, CancelReturns, Close, StartInv, TypeOK,
         Workflow
    <3>. QED BY <2>2, <3>1, <3>2, <3>3 DEF DeliverCancel
  <2>3. ASSUME NEW c \in Calls, HandleDecision(c) \/ HandleUpdate(c) \/ HandlerFailed(c)
        PROVE  StartInv'
    <3>1. /\ exec = "running" /\ exec' \in {"running", "failed"} /\ wf'.pc = wf.pc
          /\ act["request"] = "idle" => act'["request"] = "idle"
      BY <1>0, <2>3, CallsAssumption DEF HandleDecision, IgnoreDecision, ClaimDecision,
         RejectDecision, HandleUpdate, HandlerFailed, Schedule, Close, TypeOK, Workflow,
         Acts
    <3>. QED BY <3>1 DEF StartInv, Started
  <2>4. ASSUME NEW c \in Calls, DecisionPersisted(c) \/ UpdatePersisted(c)
        PROVE  StartInv'
    BY <1>0, <2>4 DEF DecisionPersisted, UpdatePersisted, StartInv, Started, TypeOK,
       Workflow
  <2>. QED BY <1>1, <2>1, <2>2, <2>3, <2>4 DEF WorkflowTask
<1>2. CASE ActivityTask \/ \E a \in Acts : AttemptLost(a) \/ StrayExecute(a)
  <2>1. PICK a \in Acts : \/ Dispatch(a) \/ Execute(a) \/ Report(a)
                         \/ AttemptLost(a) \/ StrayExecute(a)
    BY <1>2 DEF ActivityTask
  <2>2. /\ exec' = exec /\ wf' = wf /\ Started(a)
        /\ \A b \in Acts : b # a => act'[b] = act[b]
    BY <1>0, <2>1 DEF Dispatch, Execute, Report, AttemptLost, StrayExecute, Started, IInv,
       ActivityInv, TypeOK
  <2>. QED BY <2>2 DEF StartInv, Started, Acts
<1>3. CASE Service
  BY <1>0, <1>3 DEF Service, CreateReview, SubmitDecision, UpdateReview, SignalAccepted,
     SignalNotFound, SignalRaised, Reconcile, WaitConfirmed, WaitTimedOut, 
     _reconcile_missing_workflow, StartInv, Started
<1>4. CASE \/ NativeCancel
           \/ \E e \in {"terminated", "deleted"} : AdminKill(e)
           \/ \E c \in Calls, d \in Decisions, u \in Users : RawSignal(c, d, u)
  BY <1>0, <1>4 DEF NativeCancel, AdminKill, RawSignal, Close, StartInv, Started, TypeOK,
     Acts, Phases
<1>5. CASE UNCHANGED vars
  BY <1>5 DEF vars, StartInv, Started
<1>. QED BY <1>1, <1>2, <1>3, <1>4, <1>5 DEF Next, Worker, Environment

-----------------------------------------------------------------------------
\* A step that does not claim keeps the claim with whoever has it.
LEMMA HolderKept ==
    ASSUME HolderInv, SameDeciders, wf'.closing => wf.closing,
           exec' = "running" =>
               /\ exec = "running"
               /\ Started("forced")' => Started("forced")
               /\ wf.pc = "forcing" => wf'.pc = "forcing"
               /\ wf.finalized => wf'.finalized
               /\ \A c \in Calls : (hand[c] = "awaiting" /\ IsDecision(c))
                                       => hand'[c] = "awaiting" \/ wf'.finalized
    PROVE  HolderInv'
BY DEF HolderInv, SameDeciders, Deciding, Acts

\* A step that closes the execution, or finds it closed, leaves the claim only to
\* the activity that holds it.
LEMMA HolderClosed ==
    ASSUME HolderInv, SameDeciders, wf'.closing = wf.closing, exec' # "running"
    PROVE  HolderInv'
BY HolderKept

\* Every step keeps the claim with a decision that is awaited: the claim is taken
\* together with the wait, and the wait ends with _finalized or the execution.
LEMMA HolderInvStep ==
    ASSUME IInv, StartInv, HolderInv, [Next]_vars
    PROVE  HolderInv'
<1>0. TypeOK
  BY DEF IInv
<1>1. CASE WorkflowTask
  <2>1. CASE StartRun \/ RequestPersisted
    <3>1. SameDeciders
      BY <2>1, StartRunStep, RequestPersistedStep
    <3>2. /\ wf.pc \in {"new", "persisting"}
          /\ wf'.closing = wf.closing /\ wf'.finalized = wf.finalized
          /\ hand' = hand /\ exec' = exec /\ exec = "running"
          /\ act'["forced"] = act["forced"]
      BY <1>0, <2>1 DEF StartRun, RequestPersisted, Schedule, TypeOK, Workflow, Acts
    <3>. QED BY <3>1, <3>2, HolderKept DEF Started
  <2>2. CASE RequestFailed \/ RunReturns \/ ForcedPersisted \/ ForcedFailed
    <3>1. SameDeciders
      BY <2>2, RequestFailedStep, RunReturnsStep, ForcedPersistedStep, ForcedFailedStep
    <3>2. wf'.closing = wf.closing /\ exec' # "running"
      BY <1>0, <2>2 DEF RequestFailed, RunReturns, ForcedPersisted, ForcedFailed, Close,
         TypeOK, Workflow
    <3>. QED BY <3>1, <3>2, HolderClosed
  <2>3. CASE DeliverCancel
    <3>1. CASE CancelClaims
      <4>1. Started("forced")' /\ wf'.pc = "forcing"
        BY <1>0, <3>1 DEF CancelClaims, Schedule, Started, TypeOK, Workflow, Acts
      <4>2. \A c \in Calls : ~Deciding(c)
        BY <3>1 DEF CancelClaims, CanClaim, IInv, ClaimInv, Deciding, Acts
      <4>3. \A c \in Calls : ~Deciding(c)'
        BY <1>0, <2>3, <3>1, <4>2, CallsAssumption DEF DeliverCancel, CancelClaims,
           Schedule, Deciding,
           IsDecision, Started, TypeOK, Acts
      <4>4. Deciding("forced")'
        BY <4>1 DEF Deciding, IsDecision
      <4>. QED BY <4>1, <4>3, <4>4 DEF HolderInv, Acts
    <3>2. CASE CancelEscapes \/ CancelReturns
      <4>1. SameDeciders
        BY <2>3, <3>2, CancelEscapesStep, CancelReturnsStep DEF DeliverCancel
      <4>2. wf'.closing = wf.closing /\ exec' # "running"
        BY <1>0, <3>2 DEF CancelEscapes, CancelReturns, Close, TypeOK, Workflow
      <4>. QED BY <4>1, <4>2, HolderClosed
    <3>. QED BY <2>3, <3>1, <3>2 DEF DeliverCancel
  <2>4. ASSUME NEW c \in Calls, HandleDecision(c) PROVE HolderInv'
    <3>1. CASE ClaimDecision(c)
      <4>1. Started(c)' /\ hand'[c] = "awaiting" /\ IsDecision(c)'
        BY <1>0, <2>4, <3>1 DEF HandleDecision, ClaimDecision, Schedule, Started,
           IsDecision, TypeOK, Acts
      <4>2. \A a \in Acts : ~Deciding(a)
        BY <3>1 DEF ClaimDecision, CanClaim, IInv, ClaimInv, Deciding
      <4>3. \A a \in Acts : a # c => ~Deciding(a)'
        BY <1>0, <2>4, <3>1, <4>2, CallsAssumption DEF HandleDecision, ClaimDecision,
           Schedule, Deciding,
           IsDecision, Started, TypeOK, Acts
      <4>4. ~Started("forced")'
        BY <4>3, CallsAssumption DEF Deciding, IsDecision, Acts
      <4>. QED BY <4>1, <4>3, <4>4 DEF HolderInv, Deciding, Acts
    <3>2. CASE RejectDecision(c)
      <4>1. SameDeciders
        BY <2>4, <3>2, RejectDecisionStep DEF HandleDecision
      <4>. QED BY <3>2, <4>1, HolderClosed DEF RejectDecision, Close
    <3>3. CASE IgnoreDecision(c)
      <4>1. SameDeciders
        BY <2>4, <3>3, IgnoreDecisionStep DEF HandleDecision
      <4>2. \A b \in Calls : hand[b] = "awaiting" => hand'[b] = "awaiting"
        BY <1>0, <2>4, <3>3 DEF HandleDecision, IgnoreDecision, TypeOK
      <4>. QED BY <3>3, <4>1, <4>2, HolderKept DEF IgnoreDecision, Started
    <3>. QED BY <2>4, <3>1, <3>2, <3>3 DEF HandleDecision
  <2>5. ASSUME NEW c \in Calls, DecisionPersisted(c) PROVE HolderInv'
    <3>1. SameDeciders
      BY <2>5, DecisionPersistedStep
    <3>2. wf'.finalized /\ wf'.closing = wf.closing /\ wf'.pc = wf.pc
      BY <1>0, <2>5 DEF DecisionPersisted, TypeOK, Workflow
    <3>. QED BY <2>5, <3>1, <3>2, HolderKept DEF DecisionPersisted, Started
  <2>6. ASSUME NEW c \in Calls, HandleUpdate(c) \/ UpdatePersisted(c) PROVE HolderInv'
    <3>1. SameDeciders
      BY <2>6, HandleUpdateStep, UpdatePersistedStep
    <3>2. /\ wf'.closing = wf.closing /\ wf'.finalized = wf.finalized /\ wf'.pc = wf.pc
          /\ exec' = exec
          /\ Started("forced")' => Started("forced")
      BY <1>0, <2>6, CallsAssumption DEF HandleUpdate, UpdatePersisted, Schedule,
         Started, TypeOK, Workflow, Acts
    <3>3. \A b \in Calls : (hand[b] = "awaiting" /\ IsDecision(b)) => hand'[b] = "awaiting"
      BY <1>0, <2>6, CallsAssumption DEF HandleUpdate, UpdatePersisted, IsDecision, TypeOK
    <3>. QED BY <3>1, <3>2, <3>3, HolderKept
  <2>7. ASSUME NEW c \in Calls, HandlerFailed(c) PROVE HolderInv'
    <3>1. SameDeciders
      BY <2>7, HandlerFailedStep
    <3>. QED BY <2>7, <3>1, HolderClosed DEF HandlerFailed, Close
  <2>. QED BY <1>1, <2>1, <2>2, <2>3, <2>4, <2>5, <2>6, <2>7 DEF WorkflowTask
<1>2. CASE ActivityTask \/ \E a \in Acts : AttemptLost(a) \/ StrayExecute(a)
  <2>1. PICK a \in Acts : \/ Dispatch(a) \/ Execute(a) \/ Report(a)
                         \/ AttemptLost(a) \/ StrayExecute(a)
    BY <1>2 DEF ActivityTask
  <2>2. SameDeciders
    BY <2>1, DispatchStep, ExecuteStep, ReportStep, AttemptLostStep, StrayExecuteStep
  <2>3. /\ exec' = exec /\ wf' = wf /\ hand' = hand /\ Started(a)
        /\ \A b \in Acts : b # a => act'[b] = act[b]
    BY <1>0, <2>1 DEF Dispatch, Execute, Report, AttemptLost, StrayExecute, Started, IInv,
       ActivityInv, TypeOK
  <2>. QED BY <2>2, <2>3, HolderKept DEF Started, Acts
<1>3. CASE Service
  <2>1. SameDeciders
    BY <1>3, CreateReviewStep, SubmitDecisionStep, UpdateReviewStep, SignalAcceptedStep,
       SignalNotFoundStep, SignalRaisedStep, ReconcileStep, WaitConfirmedStep,
       WaitTimedOutStep
       DEF Service
  <2>2. CASE CreateReview
    <3>1. \A a \in Acts : ~Deciding(a)
      BY <2>2 DEF CreateReview, StartInv, Deciding
    <3>2. UNCHANGED <<wf, act, hand, args>> /\ ~Started("forced")
      BY <2>2 DEF CreateReview, StartInv, Acts
    <3>. QED BY <2>1, <3>1, <3>2 DEF HolderInv, SameDeciders, Started, Acts
  <2>3. CASE ~CreateReview
    <3>1. /\ wf' = wf /\ exec' = exec /\ act' = act
          /\ \A c \in Calls : hand[c] = "awaiting" => hand'[c] = "awaiting"
      BY <1>0, <1>3, <2>3 DEF Service, SubmitDecision, UpdateReview, SignalAccepted,
         SignalNotFound, SignalRaised, Reconcile, WaitConfirmed, WaitTimedOut, IInv,
         CallInv, TypeOK
    <3>. QED BY <2>1, <3>1, HolderKept DEF Started
  <2>. QED BY <2>2, <2>3
<1>4. CASE \/ NativeCancel
           \/ \E e \in {"terminated", "deleted"} : AdminKill(e)
           \/ \E c \in Calls, d \in Decisions, u \in Users : RawSignal(c, d, u)
  <2>1. SameDeciders
    BY <1>4, NativeCancelStep, AdminKillStep, RawSignalStep
  <2>2. CASE \E e \in {"terminated", "deleted"} : AdminKill(e)
    BY <2>1, <2>2, HolderClosed DEF AdminKill, Close
  <2>3. CASE NativeCancel \/ \E c \in Calls, d \in Decisions, u \in Users : RawSignal(c, d, u)
    <3>1. /\ wf' = wf /\ exec' = exec /\ act' = act
          /\ \A c \in Calls : hand[c] = "awaiting" => hand'[c] = "awaiting"
      BY <1>0, <2>3 DEF NativeCancel, RawSignal, IInv, CallInv, TypeOK
    <3>. QED BY <2>1, <3>1, HolderKept DEF Started
  <2>. QED BY <1>4, <2>2, <2>3
<1>5. CASE UNCHANGED vars
  <2>1. SameDeciders
    BY <1>5 DEF vars, SameDeciders, Deciding, IsDecision, Started, Verdict
  <2>. QED BY <1>5, <2>1, HolderKept DEF vars, Started
<1>. QED BY <1>1, <1>2, <1>3, <1>4, <1>5 DEF Next, Worker, Environment

-----------------------------------------------------------------------------
\* At first nothing is started and nothing is awaited.
LEMMA InitWaitInv == Init => WaitInv
<1>. SUFFICES ASSUME Init PROVE WaitInv
  OBVIOUS
<1>1. \A a \in Acts : ~Started(a) /\ tries[a] = 0 /\ ~Awaited(a) /\ act[a] = "idle"
  BY DEF Init, Started, Awaited
<1>. QED BY <1>1 DEF Init, WaitInv, AttemptInv, StartInv, HolderInv, Acts

\* Every step keeps the three parts.
LEMMA WaitInvStep ==
    ASSUME IInv, WaitInv, [Next]_vars
    PROVE  WaitInv'
BY NextStep, AttemptInvStep, StartInvStep, HolderInvStep DEF WaitInv

\* WaitInv holds in every reachable state.
THEOREM WaitInvariance == Spec => [](IInv /\ WaitInv)
<1>1. Init => IInv /\ WaitInv
  BY InitIInv, InitWaitInv
<1>2. (IInv /\ WaitInv) /\ [Next]_vars => (IInv /\ WaitInv)'
  BY NextStep, WaitInvStep
<1>. QED BY <1>1, <1>2, PTL DEF Spec

\* What is awaited was started and not dropped, and a claim has a holder.
LEMMA NoVainWait == ASSUME IInv, WaitInv PROVE NobodyWaitsInVain
<1>1. ASSUME exec = "running", NEW a \in Acts, Awaited(a) PROVE Answering(a)
  <2>1. act[a] \in Phases \ {"idle", "dropped"}
    BY <1>1 DEF IInv, TypeOK, WaitInv, AttemptInv, Started
  <2>. QED BY <1>1, <2>1 DEF WaitInv, AttemptInv, Answering, Phases
<1>2. ASSUME exec = "running", wf.closing
      PROVE  wf.finalized \/ \E a \in Acts : IsDecision(a) /\ Awaited(a)
  <2>1. PICK a \in Acts : Deciding(a)
    BY <1>2 DEF WaitInv, HolderInv
  <2>2. CASE a = "forced"
    BY <1>2, <2>1, <2>2 DEF WaitInv, HolderInv, Deciding, Awaited
  <2>3. CASE a \in Calls
    BY <1>2, <2>1, <2>3 DEF WaitInv, HolderInv, Deciding, Awaited
  <2>. QED BY <2>1, <2>2, <2>3 DEF Deciding, IsDecision
<1>. QED BY <1>1, <1>2 DEF NobodyWaitsInVain

\* No interleaving of signals, cancels and lost attempts leaves an execution that
\* awaits an activity nobody will answer for, or a verdict nobody will finalize.
THEOREM NobodyWaitsInVainHolds == Spec => []NobodyWaitsInVain
BY WaitInvariance, NoVainWait, PTL

-----------------------------------------------------------------------------
\* The effort that is left, phase by phase ...
LEMMA EffortIs ==
    ASSUME NEW a \in Acts
    PROVE  /\ act[a] = "idle" => Effort(a) = 3 * MaxAttempts + 1
           /\ act[a] = "scheduled" => Effort(a) = 3 * (MaxAttempts - tries[a])
           /\ act[a] = "running" => Effort(a) = 3 * (MaxAttempts - tries[a]) + 2
           /\ act[a] = "written" => Effort(a) = 3 * (MaxAttempts - tries[a]) + 1
           /\ act[a] \in {"done", "failed", "dropped"} => Effort(a) = 0
BY DEF Effort

\* ... and after a step.
LEMMA EffortIsNext ==
    ASSUME NEW a \in Acts
    PROVE  /\ act'[a] = "scheduled" => Effort(a)' = 3 * (MaxAttempts - tries'[a])
           /\ act'[a] = "running" => Effort(a)' = 3 * (MaxAttempts - tries'[a]) + 2
           /\ act'[a] = "written" => Effort(a)' = 3 * (MaxAttempts - tries'[a]) + 1
           /\ act'[a] \in {"done", "failed", "dropped"} => Effort(a)' = 0
BY DEF Effort

\* Closing the execution leaves no effort to any activity,
LEMMA EffortOfClose ==
    ASSUME TypeOK, AttemptInv, NEW e, Close(e), NEW a \in Acts, act'[a] # act[a]
    PROVE  Effort(a)' < Effort(a)
<1>1. act[a] \in {"scheduled", "running", "written"} /\ act'[a] = "dropped"
  BY DEF Close, TypeOK
<1>2. tries[a] \in 0..MaxAttempts /\ (act[a] = "scheduled" => tries[a] < MaxAttempts)
  BY DEF TypeOK, AttemptInv
<1>. QED BY <1>1, <1>2, EffortIs, EffortIsNext, AttemptsAssumption

\* scheduling one uses up its first step,
LEMMA EffortOfSchedule ==
    ASSUME TypeOK, NEW b \in Acts, ~Started(b), Schedule(b), NEW a \in Acts, act'[a] # act[a],
           tries[b] = 0
    PROVE  Effort(a)' < Effort(a)
<1>1. act[a] = "idle" /\ act'[a] = "scheduled" /\ tries'[a] = 0
  BY DEF Schedule, Started, TypeOK
<1>. QED BY <1>1, EffortIs, EffortIsNext, AttemptsAssumption

\* and each step of an attempt uses up one more: a retry has an attempt less.
LEMMA EffortOfAttempt ==
    ASSUME TypeOK, NEW b \in Acts, Dispatch(b) \/ Execute(b) \/ Report(b) \/ AttemptLost(b),
           NEW a \in Acts, act'[a] # act[a]
    PROVE  Effort(a)' < Effort(a)
<1>1. a = b
  BY DEF Dispatch, Execute, Report, AttemptLost, TypeOK
<1>2. tries[a] \in 0..MaxAttempts
  BY DEF TypeOK
<1>3. CASE Dispatch(a)
  <2>1. act[a] = "scheduled" /\ act'[a] = "running" /\ tries'[a] = tries[a] + 1
    BY <1>3 DEF Dispatch, TypeOK
  <2>. QED BY <1>2, <2>1, EffortIs, EffortIsNext, AttemptsAssumption
<1>4. CASE Execute(a)
  <2>1. act[a] = "running" /\ act'[a] = "written" /\ tries'[a] = tries[a]
    BY <1>4 DEF Execute, TypeOK
  <2>. QED BY <1>2, <2>1, EffortIs, EffortIsNext, AttemptsAssumption
<1>5. CASE Report(a)
  <2>1. act[a] = "written" /\ act'[a] = "done"
    BY <1>5 DEF Report, TypeOK
  <2>. QED BY <1>2, <2>1, EffortIs, EffortIsNext, AttemptsAssumption
<1>6. CASE AttemptLost(a)
  <2>1. /\ act[a] \in {"running", "written"} /\ act'[a] \in {"scheduled", "failed"}
        /\ tries'[a] = tries[a]
    BY <1>6 DEF AttemptLost, TypeOK
  <2>. QED BY <1>2, <2>1, EffortIs, EffortIsNext, AttemptsAssumption
<1>. QED BY <1>1, <1>3, <1>4, <1>5, <1>6

\* Every step that changes an activity is one of these.
LEMMA EffortStep ==
    ASSUME IInv, WaitInv, [Next]_vars, NEW a \in Acts, act'[a] # act[a]
    PROVE  Effort(a)' < Effort(a)
<1>0. TypeOK /\ AttemptInv /\ StartInv
  BY DEF IInv, WaitInv
<1>1. PICK b \in Acts : \/ (Dispatch(b) \/ Execute(b) \/ Report(b) \/ AttemptLost(b))
                       \/ (Schedule(b) /\ ~Started(b))
                       \/ (\E e \in Closed : Close(e))
  <2>1. CASE WorkflowTask
    <3>1. CASE StartRun
      BY <1>0, <3>1 DEF StartRun, StartInv, Acts
    <3>2. CASE DeliverCancel
      BY <3>2, <1>0 DEF DeliverCancel, CancelEscapes, CancelClaims, CancelReturns,
         CanClaim, IInv, ClaimInv, IsDecision,
         Acts
    <3>3. ASSUME NEW c \in Calls, HandleDecision(c) \/ HandleUpdate(c)
          PROVE  act' = act \/ (Schedule(c) /\ ~Started(c)) \/ \E e \in Closed : Close(e)
      BY <3>3 DEF HandleDecision, HandleUpdate, IgnoreDecision, ClaimDecision,
         RejectDecision,
         IInv, CallInv
    <3>. QED BY <2>1, <3>1, <3>2, <3>3 DEF WorkflowTask, RequestPersisted, RequestFailed,
                RunReturns,
         ForcedPersisted, ForcedFailed, DecisionPersisted, UpdatePersisted,
         HandlerFailed, Acts
  <2>2. CASE ActivityTask
    <3>1. PICK b \in Acts : Dispatch(b) \/ Execute(b) \/ Report(b)
      BY <2>2 DEF ActivityTask
    <3>. QED BY <3>1
  <2>3. CASE Service
    BY <2>3 DEF Service, CreateReview, SubmitDecision, UpdateReview, SignalAccepted,
       SignalNotFound, SignalRaised, Reconcile, WaitConfirmed, WaitTimedOut
  <2>4. CASE Environment
    <3>1. CASE \E b \in Acts : AttemptLost(b) \/ StrayExecute(b)
      <4>1. PICK b \in Acts : AttemptLost(b) \/ StrayExecute(b)
        BY <3>1
      <4>. QED BY <4>1 DEF StrayExecute
    <3>2. CASE \E e \in {"terminated", "deleted"} : AdminKill(e)
      BY <3>2 DEF AdminKill, Acts
    <3>. QED BY <2>4, <3>1, <3>2 DEF Environment, NativeCancel, RawSignal
  <2>. QED BY <2>1, <2>2, <2>3, <2>4 DEF Next, Worker, vars
<1>2. CASE \E e \in Closed : Close(e)
  BY <1>0, <1>2, EffortOfClose
<1>3. CASE Schedule(b) /\ ~Started(b)
  BY <1>0, <1>3, EffortOfSchedule DEF AttemptInv
<1>. QED BY <1>0, <1>1, <1>2, <1>3, EffortOfAttempt

\* No activity goes on for ever, whatever is lost and retried.
THEOREM AttemptsRunOutHolds == Spec => AttemptsRunOut
<1>1. IInv /\ WaitInv /\ [Next]_vars
        => [\A a \in Acts : act'[a] # act[a] => Effort(a)' < Effort(a)]_vars
  BY EffortStep
<1>. QED BY <1>1, WaitInvariance, PTL DEF Spec, AttemptsRunOut
=========================================================================

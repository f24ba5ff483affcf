---------------------- MODULE ReviewContractProofs ----------------------
(***************************************************************************)
(* The execution of one review keeps the contract of SignalledReview, for  *)
(* any number of calls and attempts and any kinds of faults.               *)
(*                                                                         *)
(* Every step of ReviewWorkflow falls in one of six groups, by what those  *)
(* who decide reviews can see of it: nothing, the row, the end of the      *)
(* execution, a claim, an accepted signal, or what a call asks for.  Each  *)
(* group has a lemma that maps it to an action of the contract.            *)
(***************************************************************************)
EXTENDS ReviewProgressProofs

USE DEF Closed, VALID_DECISIONS, serviceVars, actVars, temporalVars

-----------------------------------------------------------------------------
\* The claim, as the contract sees it.

\* While nothing is claimed ...
LEMMA NobodyClaimed ==
    ASSUME \A a \in Acts : ~Deciding(a)
    PROVE  Claimed = "NONE" /\ Author = "nobody" /\ Winner = NoVerdict
BY DEF Claimed, Author, Winner

\* ... when one decision is ...
LEMMA OneClaimed ==
    ASSUME IInv, NEW a \in Acts, Deciding(a)
    PROVE  /\ Winner = Verdict(a)
           /\ Claimed = Verdict(a).status /\ Claimed # "NONE"
           /\ Author = IF a = "forced" THEN "temporal-admin" ELSE a
<1>1. Winner = Verdict(a)
  BY WinnerIs DEF IInv, ClaimInv
<1>2. Verdict(a).status \in VALID_DECISIONS
  BY DecidingVerdict
<1>3. Claimed = Verdict(a).status /\ Claimed # "NONE"
  BY <1>1, <1>2 DEF Claimed, NoVerdict
<1>4. \A b \in Acts : Deciding(b) <=> b = a
  BY DEF IInv, ClaimInv, SingleWinner, Deciding, Started
<1>5. (CHOOSE b \in Acts : Deciding(b)) = a
  BY <1>4
<1>. QED BY <1>1, <1>3, <1>5 DEF Author

\* ... after a step as well as before it ...
LEMMA OneClaimedNext ==
    ASSUME IInv', NEW a \in Acts, Deciding(a)'
    PROVE  /\ Claimed' = Verdict(a)'.status
           /\ Author' = IF a = "forced" THEN "temporal-admin" ELSE a
<1>1. Winner' = Verdict(a)'
  BY WinnerIsNext DEF IInv, ClaimInv
<1>2. Verdict(a)'.status \in VALID_DECISIONS
  BY DEF Verdict, IInv, CallInv, Deciding, IsDecision
<1>3. Claimed' = Verdict(a)'.status
  BY <1>1, <1>2 DEF Claimed, NoVerdict
<1>4. \A b \in Acts : Deciding(b)' <=> b = a
  BY DEF IInv, ClaimInv, SingleWinner, Deciding, Started
<1>5. (CHOOSE b \in Acts : Deciding(b)') = a
  BY <1>4
<1>. QED BY <1>3, <1>5 DEF Author

\* ... and it stays what it is.
LEMMA ClaimedKept ==
    ASSUME IInv, IInv', SameDeciders
    PROVE  Claimed' = Claimed /\ Author' = Author
<1>1. CASE \E a \in Acts : Deciding(a)
  <2>1. PICK a \in Acts : Deciding(a)
    BY <1>1
  <2>2. Deciding(a)' /\ Verdict(a)' = Verdict(a)
    BY <2>1 DEF SameDeciders
  <2>. QED BY <2>1, <2>2, OneClaimed, OneClaimedNext
<1>2. CASE ~\E a \in Acts : Deciding(a)
  <2>1. \A a \in Acts : ~Deciding(a)'
    BY <1>2 DEF SameDeciders
  <2>2. Claimed' = "NONE" /\ Author' = "nobody"
    BY <2>1 DEF Claimed, Author, Winner
  <2>. QED BY <1>2, <2>2, NobodyClaimed
<1>. QED BY <1>1, <1>2

AskedFor == [c \in Calls |-> args[c].decision]

\* An undecided row of a running execution is pending once it is there.
LEMMA PendingIfFree ==
    ASSUME IInv, exec = "running", \A a \in Acts : ~Deciding(a), row.status # "absent"
    PROVE  Stage = "pending"
BY DEF IInv, RowInv, DetachedMeansClosed, Deciding, Terminal, Stage, TypeOK, Row

-----------------------------------------------------------------------------
\* What the six groups of steps are to the contract.

\* Nothing.
LEMMA ContractStutter ==
    ASSUME IInv, IInv', SameDeciders, row' = row, TakesSignals' = TakesSignals,
           Mail' = Mail, AskedFor' = AskedFor
    PROVE  UNCHANGED Contract!vars
BY ClaimedKept DEF Contract!vars, Stage, Recorded, Terminal, AskedFor

\* The end of the execution.
LEMMA ContractEnd ==
    ASSUME IInv, IInv', SameDeciders, row' = row, args' = args,
           TakesSignals, ~TakesSignals'
    PROVE  Contract!Next
<1>1. Mail' = {} /\ AskedFor' = AskedFor /\ TakesSignals' = FALSE
  BY DEF Mail, AskedFor, TakesSignals
<1>2. Contract!End
  BY <1>1, ClaimedKept DEF Contract!End, Stage, Recorded, Terminal, AskedFor
<1>. QED BY <1>2 DEF Contract!Next, Contract!Own

\* What a call asks for, while its signal is not under way.
LEMMA ContractAsk ==
    ASSUME IInv, IInv', SameDeciders, row' = row, exec' = exec, hand' = hand,
           NEW c \in Calls, hand[c] = "none",
           NEW r \in Args, args' = [args EXCEPT ![c] = r]
    PROVE  Contract!Next
<1>1. AskedFor' = [AskedFor EXCEPT ![c] = r.decision] /\ r.decision \in Decisions
  BY DEF AskedFor, IInv, TypeOK, Args
<1>2. Mail' = Mail /\ c \notin Mail
  BY DEF Mail, TakesSignals, IInv, TypeOK
<1>3. c # Author
  BY OneClaimed, NobodyClaimed, CallsAssumption DEF IInv, CallInv, Deciding
<1>4. Contract!Ask(c, r.decision)
  BY <1>1, <1>2, <1>3, ClaimedKept DEF Contract!Ask, Contract!Free, Stage, Recorded,
     Terminal, TakesSignals, AskedFor
<1>. QED BY <1>1, <1>4 DEF Contract!Next

\* An accepted signal, with what it asks for.
LEMMA ContractAccept ==
    ASSUME IInv, IInv', SameDeciders, row' = row, exec' = exec, exec = "running",
           row.status # "absent",
           NEW c \in Calls, hand[c] = "none", hand' = [hand EXCEPT ![c] = "queued"],
           NEW r \in Args, args' = [args EXCEPT ![c] = r], r.kind = "decision"
    PROVE  Contract!Next
<1>1. AskedFor' = [AskedFor EXCEPT ![c] = r.decision] /\ r.decision \in Decisions
  BY DEF AskedFor, IInv, TypeOK, Args
<1>2. Mail' = Mail \cup {c} /\ c \notin Mail
  BY DEF Mail, TakesSignals, IInv, TypeOK
<1>3. c # Author
  BY OneClaimed, NobodyClaimed, CallsAssumption DEF IInv, CallInv, Deciding
<1>4. TakesSignals /\ TakesSignals' = TakesSignals /\ Stage # "absent"
  BY DEF TakesSignals, Stage
<1>5. Contract!Accept(c, r.decision)
  BY <1>1, <1>2, <1>3, <1>4, ClaimedKept DEF Contract!Accept, Contract!Free, Stage,
     Recorded, Terminal, AskedFor
<1>. QED BY <1>1, <1>5 DEF Contract!Next

\* A statement of activities.py or of the reconciliation.
LEMMA ContractRow ==
    ASSUME IInv, IInv', SameDeciders, UNCHANGED <<exec, hand, args>>,
           \/ \E a \in Acts : Started(a) /\ row' = Statement(a)
           \/ exec \in Closed /\ row' = _reconcile_missing_workflow
    PROVE  Contract!Next \/ UNCHANGED Contract!vars
<1>0. /\ Mail' = Mail /\ AskedFor' = AskedFor /\ TakesSignals' = TakesSignals
      /\ Claimed' = Claimed /\ Author' = Author
      /\ row \in Row /\ row' \in Row
  BY ClaimedKept DEF Mail, AskedFor, TakesSignals, IInv, TypeOK
<1>1. ASSUME NEW a \in Acts, Started(a), row' = Statement(a)
      PROVE  Contract!Next \/ UNCHANGED Contract!vars
  <2>1. CASE a = "request"
    <3>1. CASE row.status = "absent"
      <4>1. row' = [row EXCEPT !.status = "PENDING_REVIEW", !.linked = TRUE]
        BY <1>1, <2>1, <3>1 DEF Statement, persist_request
      <4>2. row'.status = "PENDING_REVIEW"
        BY <1>0, <4>1 DEF Row
      <4>3. Contract!Create
        BY <1>0, <3>1, <4>2 DEF Contract!Create, Stage, Recorded, Terminal, AskedFor
      <4>. QED BY <4>3 DEF Contract!Next, Contract!Own
    <3>2. CASE row.status # "absent"
      BY <1>0, <1>1, <2>1, <3>2, ContractStutter DEF Statement, persist_request
    <3>. QED BY <3>1, <3>2
  <2>2. CASE Deciding(a)
    <3>1. /\ row.status # "absent" /\ RowVerdict' = Verdict(a) /\ row'.linked = row.linked
          /\ Claimed = Verdict(a).status /\ Claimed # "NONE"
          /\ Verdict(a).status \in VALID_DECISIONS /\ Verdict(a).closedAt # "null"
      BY <1>1, <2>2, StatementEffect, DecidingVerdict, OneClaimed DEF Verdict
    <3>2. row'.status = Claimed /\ row'.closedAt # "null" /\ Terminal'
      BY <3>1 DEF RowVerdict, Terminal
    <3>3. CASE Terminal /\ row.linked
      BY <1>0, <1>1, <3>3, StatementEffect, ContractStutter
    <3>4. CASE ~(Terminal /\ row.linked)
      <4>1. Stage \in {"pending", "detached"}
        BY <1>0, <3>1, <3>4 DEF Stage, Terminal, Row
      <4>2. Recorded' = Claimed
        BY <3>2 DEF Recorded
      <4>3. Stage' = IF Stage = "pending" THEN "decided" ELSE Stage
        BY <1>0, <3>1, <3>2, <3>4 DEF Stage, Terminal, Row, IInv, RowInv
      <4>4. Contract!Persist
        BY <1>0, <3>1, <4>1, <4>2, <4>3 DEF Contract!Persist, AskedFor
      <4>. QED BY <4>4 DEF Contract!Next, Contract!Own
    <3>. QED BY <3>3, <3>4
  <2>3. CASE a # "request" /\ ~Deciding(a)
    <3>1. row' = IF row.status = "PENDING_REVIEW"
                 THEN [row EXCEPT !.payload = args[a].payload] ELSE row
      BY <1>1, <2>3 DEF Deciding, Statement, persist_update
    <3>2. row'.status = row.status /\ row'.linked = row.linked /\ row'.closedAt = row.closedAt
      BY <1>0, <3>1 DEF Row
    <3>. QED BY <1>0, <3>2 DEF Contract!vars, Stage, Recorded, Terminal, AskedFor
  <2>. QED BY <2>1, <2>2, <2>3
<1>2. CASE exec \in Closed /\ row' = _reconcile_missing_workflow
  <2>1. CASE row.status = "PENDING_REVIEW"
    <3>1. row'.status = "CANCELLED" /\ row'.closedAt = "null" /\ row'.linked = FALSE
      BY <1>0, <1>2, <2>1 DEF _reconcile_missing_workflow, Row
    <3>2. Contract!Detach
      BY <1>0, <1>2, <2>1, <3>1 DEF Contract!Detach, Stage, Recorded, Terminal,
         TakesSignals, AskedFor
    <3>. QED BY <3>2 DEF Contract!Next
  <2>2. CASE row.status # "PENDING_REVIEW"
    BY <1>0, <1>2, <2>2, ContractStutter DEF _reconcile_missing_workflow
  <2>. QED BY <2>1, <2>2
<1>. QED BY <1>1, <1>2

\* A claim, by a native cancel ...
LEMMA ContractForce ==
    ASSUME IInv, IInv', DeliverCancel, CancelClaims
    PROVE  Contract!Next
<1>1. /\ \A a \in Acts : ~Deciding(a)
      /\ row.status # "absent" /\ exec = "running"
  BY DEF DeliverCancel, CancelClaims, CanClaim, IInv, ClaimInv, RunInv, Deciding
<1>2. Deciding("forced")' /\ "forced" \in Acts
  BY DEF CancelClaims, Schedule, Deciding, IsDecision, Started, Acts, IInv, TypeOK
<1>3. Claimed' = "CANCELLED" /\ Author' = "temporal-admin"
  BY <1>2, OneClaimedNext DEF Verdict
<1>4. Claimed = "NONE" /\ Stage = "pending"
  BY <1>1, NobodyClaimed, PendingIfFree
<1>5. /\ UNCHANGED <<row, exec, hand, args>> /\ TakesSignals
      /\ Mail' = Mail /\ TakesSignals' = TakesSignals
  BY <1>1 DEF DeliverCancel, CancelClaims, TakesSignals, Mail
<1>6. Contract!ForceCancel
  BY <1>3, <1>4, <1>5 DEF Contract!ForceCancel, Stage, Recorded, Terminal
<1>. QED BY <1>6 DEF Contract!Next, Contract!Own

\* ... or by the handler of a signal, or the signal comes too late.
LEMMA ContractHandle ==
    ASSUME IInv, IInv', WaitInv, NEW c \in Calls, HandleDecision(c)
    PROVE  Contract!Next
<1>0. /\ exec = "running" /\ hand[c] = "queued" /\ args[c].kind = "decision"
      /\ UNCHANGED <<row, args>>
  BY DEF HandleDecision
<1>1. c \in Mail /\ TakesSignals
  BY <1>0 DEF Mail, TakesSignals
<1>2. CASE RejectDecision(c)
  <2>1. SameDeciders
    BY <1>2, RejectDecisionStep DEF HandleDecision
  <2>2. ~TakesSignals'
    BY <1>2 DEF RejectDecision, Close, TakesSignals
  <2>. QED BY <1>0, <1>1, <2>1, <2>2, ContractEnd
<1>3. CASE IgnoreDecision(c) \/ ClaimDecision(c)
  <2>1. Mail' = Mail \ {c} /\ TakesSignals' = TakesSignals
    BY <1>0, <1>3 DEF IgnoreDecision, ClaimDecision, Mail, TakesSignals, IInv, TypeOK
  <2>2. \/ Claimed = "NONE" /\ args[c].decision \in VALID_DECISIONS
           /\ Claimed' = args[c].decision /\ Author' = c
        \/ Claimed # "NONE" /\ Claimed' = Claimed /\ Author' = Author
    <3>1. CASE IgnoreDecision(c)
      <4>1. SameDeciders
        BY <3>1, IgnoreDecisionStep DEF HandleDecision
      <4>2. wf.closing
        BY <3>1 DEF IgnoreDecision, CanClaim, IInv, ClaimInv
      <4>3. PICK a \in Acts : Deciding(a)
        BY <4>2 DEF WaitInv, HolderInv
      <4>. QED BY <4>1, <4>3, OneClaimed, ClaimedKept
    <3>2. CASE ClaimDecision(c)
      <4>1. Claimed = "NONE"
        BY <3>2, NobodyClaimed DEF ClaimDecision, CanClaim, IInv, ClaimInv, Deciding
      <4>2. Deciding(c)' /\ c \in Acts /\ c # "forced"
        BY <1>0, <3>2, CallsAssumption DEF ClaimDecision, Schedule, Deciding, IsDecision,
           Started, Acts, IInv, TypeOK
      <4>3. Claimed' = args[c].decision /\ Author' = c
        BY <1>0, <4>2, OneClaimedNext DEF Verdict
      <4>. QED BY <3>2, <4>1, <4>3 DEF ClaimDecision
    <3>. QED BY <1>3, <3>1, <3>2
  <2>3. Contract!Handle(c)
    BY <1>0, <1>1, <2>1, <2>2 DEF Contract!Handle, Stage, Recorded, Terminal
  <2>. QED BY <2>3 DEF Contract!Next, Contract!Own
<1>. QED BY <1>2, <1>3 DEF HandleDecision

-----------------------------------------------------------------------------
\* Every step is one of these.
LEMMA ContractStep ==
    ASSUME IInv, IInv', WaitInv, [Next]_vars
    PROVE  Contract!Next \/ UNCHANGED Contract!vars
<1>0. TypeOK
  BY DEF IInv
<1>1. ASSUME SameDeciders, row' = row, TakesSignals' = TakesSignals, args' = args,
             \A c \in Calls : args[c].kind = "decision"
                               => (hand'[c] = "queued" <=> hand[c] = "queued")
      PROVE  UNCHANGED Contract!vars
  BY <1>1, ContractStutter DEF Mail, AskedFor
<1>2. ASSUME SameDeciders, row' = row, exec = "running", exec' \in Closed, args' = args
      PROVE  Contract!Next
  BY <1>2, ContractEnd DEF TakesSignals
<1>3. CASE WorkflowTask
  <2>1. CASE StartRun \/ RequestPersisted
    BY <1>1, <2>1, StartRunStep, RequestPersistedStep DEF StartRun, RequestPersisted,
       TakesSignals
  <2>2. CASE RequestFailed \/ RunReturns \/ ForcedPersisted \/ ForcedFailed
    BY <1>2, <2>2, RequestFailedStep, RunReturnsStep, ForcedPersistedStep, ForcedFailedStep
       DEF RequestFailed, RunReturns, ForcedPersisted, ForcedFailed, Close
  <2>3. CASE DeliverCancel
    <3>1. CASE CancelEscapes \/ CancelReturns
      <4>1. SameDeciders
        BY <2>3, <3>1, CancelEscapesStep, CancelReturnsStep DEF DeliverCancel
      <4>. QED BY <1>2, <2>3, <3>1, <4>1 DEF DeliverCancel, CancelEscapes, CancelReturns,
                  Close
    <3>. QED BY <2>3, <3>1, ContractForce DEF DeliverCancel
  <2>4. ASSUME NEW c \in Calls, HandleDecision(c) PROVE Contract!Next
    BY <2>4, ContractHandle
  <2>5. ASSUME NEW c \in Calls, DecisionPersisted(c) \/ HandleUpdate(c) \/ UpdatePersisted(c)
        PROVE  UNCHANGED Contract!vars
    <3>1. SameDeciders
      BY <2>5, DecisionPersistedStep, HandleUpdateStep, UpdatePersistedStep
    <3>2. \A b \in Calls : args[b].kind = "decision"
                            => (hand'[b] = "queued" <=> hand[b] = "queued")
      BY <1>0, <2>5 DEF DecisionPersisted, HandleUpdate, UpdatePersisted, TypeOK
    <3>. QED
      BY <1>1, <2>5, <3>1, <3>2 DEF DecisionPersisted, HandleUpdate, UpdatePersisted,
         TakesSignals
  <2>6. ASSUME NEW c \in Calls, HandlerFailed(c) PROVE Contract!Next
    BY <1>2, <2>6, HandlerFailedStep DEF HandlerFailed, Close
  <2>. QED BY <1>3, <2>1, <2>2, <2>3, <2>4, <2>5, <2>6 DEF WorkflowTask
<1>4. ASSUME NEW a \in Acts, Dispatch(a) \/ Report(a) \/ AttemptLost(a)
      PROVE  UNCHANGED Contract!vars
  BY <1>1, <1>4, DispatchStep, ReportStep, AttemptLostStep
     DEF Dispatch, Report, AttemptLost, TakesSignals
<1>5. ASSUME NEW a \in Acts, Execute(a) \/ StrayExecute(a)
      PROVE  Contract!Next \/ UNCHANGED Contract!vars
  <2>1. SameDeciders /\ Started(a)
    BY <1>5, ExecuteStep, StrayExecuteStep DEF Execute, StrayExecute, Started, IInv,
       ActivityInv
  <2>. QED BY <1>5, <2>1, ContractRow DEF Execute, StrayExecute
<1>6. CASE Service
  <2>1. SameDeciders
    BY <1>6, CreateReviewStep, SubmitDecisionStep, UpdateReviewStep, SignalAcceptedStep,
       SignalNotFoundStep, SignalRaisedStep, ReconcileStep, WaitConfirmedStep,
       WaitTimedOutStep
       DEF Service
  <2>2. CASE CreateReview
    BY <1>1, <2>1, <2>2 DEF CreateReview, TakesSignals
  <2>3. ASSUME NEW c \in Calls, SignalNotFound(c) \/ WaitConfirmed(c) \/ WaitTimedOut(c)
        PROVE  UNCHANGED Contract!vars
    BY <1>1, <2>1, <2>3 DEF SignalNotFound, WaitConfirmed, WaitTimedOut, TakesSignals
  <2>4. ASSUME NEW c \in Calls, Reconcile(c)
        PROVE  Contract!Next \/ UNCHANGED Contract!vars
    BY <2>1, <2>4, ContractRow DEF Reconcile, IInv, CallInv
  <2>5. ASSUME NEW c \in Calls, SignalAccepted(c) \/ SignalRaised(c)
        PROVE  Contract!Next \/ UNCHANGED Contract!vars
    <3>1. UNCHANGED <<row, exec, args>> /\ hand[c] = "none" /\ row.status # "absent"
      BY <2>5 DEF SignalAccepted, SignalRaised, IInv, CallInv
    <3>2. CASE hand' = hand
      BY <1>1, <2>1, <3>1, <3>2 DEF TakesSignals
    <3>3. CASE exec = "running" /\ hand' = [hand EXCEPT ![c] = "queued"]
      <4>1. CASE args[c].kind = "decision"
        <5>1. args[c] \in Args /\ args' = [args EXCEPT ![c] = args[c]]
          BY <1>0, <3>1 DEF TypeOK
        <5>. QED BY <2>1, <3>1, <3>3, <4>1, <5>1, ContractAccept
      <4>2. CASE args[c].kind # "decision"
        <5>1. \A b \in Calls : args[b].kind = "decision"
                                => (hand'[b] = "queued" <=> hand[b] = "queued")
          BY <1>0, <3>3, <4>2 DEF TypeOK
        <5>. QED BY <1>1, <2>1, <3>1, <5>1 DEF TakesSignals
      <4>. QED BY <4>1, <4>2
    <3>. QED BY <2>5, <3>2, <3>3 DEF SignalAccepted, SignalRaised
  <2>6. ASSUME NEW c \in Calls, NEW d \in Decisions, NEW u \in Users, SubmitDecision(c, d, u)
        PROVE  Contract!Next \/ UNCHANGED Contract!vars
    <3>1. hand[c] = "none" /\ UNCHANGED <<row, exec, hand>>
      BY <2>6 DEF SubmitDecision, IInv, CallInv
    <3>2. [kind |-> "decision", decision |-> d, actor |-> u, payload |-> InitPayload] \in Args
      BY PayloadAssumption DEF Args
    <3>3. CASE args' = args
      BY <1>1, <2>1, <3>1, <3>3 DEF TakesSignals
    <3>. QED BY <2>1, <2>6, <3>1, <3>2, <3>3, ContractAsk DEF SubmitDecision
  <2>7. ASSUME NEW c \in Calls, NEW u \in Users, NEW p \in Payloads, UpdateReview(c, u, p)
        PROVE  Contract!Next \/ UNCHANGED Contract!vars
    <3>1. hand[c] = "none" /\ UNCHANGED <<row, exec, hand>>
      BY <2>7 DEF UpdateReview, IInv, CallInv
    <3>2. [kind |-> "update", decision |-> "BOGUS", actor |-> u, payload |-> p] \in Args
      BY DEF Args, Decisions
    <3>3. CASE args' = args
      BY <1>1, <2>1, <3>1, <3>3 DEF TakesSignals
    <3>. QED BY <2>1, <2>7, <3>1, <3>2, <3>3, ContractAsk DEF UpdateReview
  <2>. QED BY <1>6, <2>2, <2>3, <2>4, <2>5, <2>6, <2>7 DEF Service
<1>7. CASE NativeCancel
  BY <1>1, <1>7, NativeCancelStep DEF NativeCancel, TakesSignals
<1>8. ASSUME NEW e \in {"terminated", "deleted"}, AdminKill(e) PROVE Contract!Next
  BY <1>2, <1>8, AdminKillStep DEF AdminKill, Close
<1>9. ASSUME NEW c \in Calls, NEW d \in Decisions, NEW u \in Users, RawSignal(c, d, u)
      PROVE  Contract!Next
  <2>1. SameDeciders /\ hand[c] = "none"
    BY <1>9, RawSignalStep DEF RawSignal, IInv, CallInv
  <2>2. [kind |-> "decision", decision |-> d, actor |-> u, payload |-> InitPayload] \in Args
    BY PayloadAssumption DEF Args
  <2>. QED BY <1>9, <2>1, <2>2, ContractAccept DEF RawSignal
<1>10. CASE UNCHANGED vars
  <2>1. SameDeciders
    BY <1>10 DEF vars, SameDeciders, Deciding, IsDecision, Started, Verdict
  <2>. QED BY <1>1, <1>10, <2>1 DEF vars, TakesSignals
<1>. QED
  BY <1>3, <1>4, <1>5, <1>6, <1>7, <1>8, <1>9, <1>10 DEF Next, Worker, ActivityTask,
     Environment

\* The execution is entitled to the contract: it meets what that supposes.
LEMMA ContractSupposed == Contract!Apart /\ Contract!Recordable
BY CallsAssumption DEF Contract!Apart, Contract!Recordable, VALID_DECISIONS, Decisions

\* The execution of a review keeps the contract, whatever is lost, retried,
\* cancelled or killed: this is what DecisionDoors takes for granted.
THEOREM KeepsContractHolds == Spec => KeepsContract
<1>1. Init => Contract!Init
  <2>. SUFFICES ASSUME Init PROVE Contract!Init
    OBVIOUS
  <2>1. \A a \in Acts : ~Deciding(a)
    BY DEF Init, Deciding, Started
  <2>2. Claimed = "NONE" /\ Author = "nobody"
    BY <2>1, NobodyClaimed
  <2>3. /\ Stage = "absent" /\ Recorded = "NONE" /\ TakesSignals = TRUE /\ Mail = {}
        /\ AskedFor \in [Calls -> Decisions]
    BY DEF Init, Stage, Recorded, Terminal, TakesSignals, Mail, AskedFor, NoArgs, Decisions
  <2>. QED BY <2>2, <2>3 DEF Contract!Init, AskedFor
<1>2. IInv /\ IInv' /\ WaitInv /\ [Next]_vars => [Contract!Next]_(Contract!vars)
  BY ContractStep
<1>. QED BY <1>1, <1>2, WaitInvariance, PTL DEF Spec, KeepsContract, Contract!Spec
=========================================================================

------------------------- MODULE SignalledReview -------------------------
(***************************************************************************)
(* What one review promises to those who decide it by signals: the border  *)
(* between ReviewWorkflow, whose execution keeps this contract, and        *)
(* DecisionDoors, which takes each review for nothing but the contract.    *)
(* A signal is accepted while the execution runs, and handled once or not  *)
(* at all; the first valid one claims the review, as may an administrator  *)
(* who cancels the execution; the claim is written when it is written,     *)
(* possibly after the execution is gone and the row was detached from it.  *)
(***************************************************************************)
CONSTANTS
    Requests,   \* those who may decide, each with one signal
    Asks,       \* what they may ask for
    Valid       \* the decisions a review records

\* What the contract supposes of them, and those who use it have to show.
Apart == {"nobody", "temporal-admin"} \cap Requests = {}

Recordable == Valid \subseteq Asks /\ "CANCELLED" \in Valid /\ {"NONE", "LOST"} \cap Valid = {}

VARIABLES
    stage,      \* the row: "absent", "pending", "decided" or "detached"
    verdict,    \* the row's status once it is closed; "LOST" is by reconciliation
    winner,     \* the decision the execution has claimed
    author,     \* history: whose decision that was
    running,    \* the execution takes signals, or will once it starts
    mail,       \* those whose signal it has accepted and not yet handled
    asked       \* what each of them asks for

vars == <<stage, verdict, winner, author, running, mail, asked>>

TypeOK ==
    /\ stage \in {"absent", "pending", "decided", "detached"}
    /\ verdict \in Valid \cup {"NONE", "LOST"}
    /\ winner \in Valid \cup {"NONE"}
    /\ author \in Requests \cup {"nobody", "temporal-admin"}
    /\ running \in BOOLEAN
    /\ mail \subseteq Requests
    /\ asked \in [Requests -> Asks]

Init ==
    /\ stage = "absent"
    /\ verdict = "NONE"
    /\ winner = "NONE"
    /\ author = "nobody"
    /\ running = TRUE
    /\ mail = {}
    /\ asked \in [Requests -> Asks]

\* Nothing of b's is under way or has won.
Free(b) == b \notin mail /\ b # author

\* A caller makes up his mind, or changes it.
Ask(b, d) ==
    /\ Free(b)
    /\ asked' = [asked EXCEPT ![b] = d]
    /\ UNCHANGED <<stage, verdict, winner, author, running, mail>>

\* persist_request, which may come after the execution is gone.
Create ==
    /\ stage = "absent"
    /\ stage' = "pending"
    /\ UNCHANGED <<verdict, winner, author, running, mail, asked>>

\* The service takes a signal on for the caller.
Accept(b, d) ==
    /\ running
    /\ stage # "absent"
    /\ Free(b)
    /\ mail' = mail \cup {b}
    /\ asked' = [asked EXCEPT ![b] = d]
    /\ UNCHANGED <<stage, verdict, winner, author, running>>

\* The signal handler: the first valid decision claims the review, a later one is
\* ignored, and an invalid one ends the execution instead (End).
Handle(b) ==
    /\ running
    /\ b \in mail
    /\ mail' = mail \ {b}
    /\ \/ /\ winner = "NONE" /\ asked[b] \in Valid
          /\ winner' = asked[b]
          /\ author' = b
       \/ /\ winner # "NONE"
          /\ UNCHANGED <<winner, author>>
    /\ UNCHANGED <<stage, verdict, running, asked>>

\* The except block of run(), once the row is there.
ForceCancel ==
    /\ running
    /\ stage = "pending"
    /\ winner = "NONE"
    /\ winner' = "CANCELLED"
    /\ author' = "temporal-admin"
    /\ UNCHANGED <<stage, verdict, running, mail, asked>>

\* persist_decision: at once, late, or again.
Persist ==
    /\ stage \in {"pending", "detached"}
    /\ winner # "NONE"
    /\ verdict' = winner
    /\ stage' = IF stage = "pending" THEN "decided" ELSE stage
    /\ UNCHANGED <<winner, author, running, mail, asked>>

\* The execution completes, fails or is lost, with what it was sent.
End ==
    /\ running
    /\ running' = FALSE
    /\ mail' = {}
    /\ UNCHANGED <<stage, verdict, winner, author, asked>>

\* _reconcile_missing_workflow, by anybody who finds the execution gone.
Detach ==
    /\ ~running
    /\ stage = "pending"
    /\ stage' = "detached"
    /\ verdict' = "LOST"
    /\ UNCHANGED <<winner, author, running, mail, asked>>

\* What a review does by itself, and what others make it do.
Own == Create \/ ForceCancel \/ Persist \/ End \/ \E b \in Requests : Handle(b)

Next ==
    \/ Own \/ Detach
    \/ \E b \in Requests, d \in Asks : Ask(b, d) \/ Accept(b, d)

Spec == Init /\ [][Next]_vars

-----------------------------------------------------------------------------
\* The contract is a way to live the life of ReviewLifecycle.
Lifecycle == INSTANCE ReviewLifecycle WITH
    Verdicts <- Valid, Lost <- "LOST", NoVerdict <- "NONE",
    Payloads <- {"p"}, InitPayload <- "p", payload <- "p"

LivesOnce == Lifecycle!Spec

\* What wins is what its author asked for, and was claimed before it was written.
WinnerWasAsked ==
    /\ author \in Requests => winner = asked[author] /\ author \notin mail
    /\ author = "nobody" <=> winner = "NONE"
    /\ stage = "decided" => verdict = winner
    /\ stage \in {"decided", "detached"} => verdict # "NONE"
=============================================================================

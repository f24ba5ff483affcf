# Verification of the review/approval system

TLA+ models, TLC runs and TLAPS proofs about the code under `src/review_approval`.
Paths below are relative to `src/review_approval/` unless they start with `src/`.

## 1. The system

An operator creates a review request, may edit it while it is pending, and may cancel it;
a manager approves or rejects it. Every request is one Temporal workflow execution; its
durable, listable record is one row of `review_requests` in Postgres.

| Component | State it keeps | Operations | Interacts with |
|---|---|---|---|
| `workflow/workflows.py` | the workflow object: `_finalized`, `_closing`, `_status`, `_closed_by`, `_payload`, where `run()` stands | `run`, signals `submit_decision` and `update_payload`, query `get_status`, native cancel | schedules activities; signalled by the service |
| `workflow/activities.py` | a connection pool per process | `persist_request`, `persist_decision`, `persist_update` | writes the row; retried by Temporal |
| `workflow/service.py`, mutations | none of their own | `create_review`, `update_review`, `submit_decision`, `bulk_submit_decision`, reconciliation | reads the row, signals the execution, polls the row |
| `workflow/service.py`, queries | `_query_cache` of the process | `list_reviews_page`, `_cache_get`, `_cache_put` | called by list screens and REST search |
| `workflow/memory_service.py` | one Redis blob `ui-memory:<session>`: pagination and bulk selection | `load`, `save`, `delete`, mutation helpers | every list screen; read-modify-write without a lock |
| `bff/session_store.py`, `bff/keycloak_session.py`, `workflow/keycloak_auth.py` | one Redis blob `ui-session:<session>` with the tokens; the session id in the cookie | login, logout, refresh of tokens, role and permission checks | Keycloak; every `/ui` request |
| `bff/ui.py`, templates | what the browser's tabs show: rows, pager, toolbar, each with a query id | page loads, 5 s poll, Prev/Next, checkboxes, dialogs, bulk actions | all of the above |
| `api/` | none | the same mutations with a permission by decision, one search | the service, `keycloak_auth.py` |
| `workflow/worker.py`, `task_queues.py` | none | poll the task queues | Temporal |
| `app.py`, `schemas.py`, `bff/sandbox.py`, `src/db/schema.sql`, `src/keycloak` | wiring, schemas, configuration | | |

What is hard here, and what makes each component correct:

* **One verdict.** Signal handlers and the `except` block of `run()` interleave at every
  `await`; activities are executed at least once; statements of attempts already given up on
  may still reach Postgres. Correct means: one verdict is claimed, only that one is written,
  and what is written stays (`SingleWinner`, `DecidedRowIsFinal`, `PayloadFrozen`).
* **Check, signal, poll.** The service checks the row, then signals, then polls; each of the
  three may be overtaken. Correct means: what the checks established still holds for what the
  signal does (`HandlerFindsRow`, `CancelledByRequester`), confirmations stand
  (`ConfirmedDecisionStands`), accepted decisions end (`AcceptedDecisionCloses`).
* **Administrators.** Executions are cancelled, terminated or deleted under the row. Correct
  means: a row is only relabelled when its execution is closed (`DetachedMeansClosed`) and
  never after the execution decided it (`CompletedIsPersisted`).
* **Two tiers of pagination memory.** A query id resolves in a process, in Redis, or not at
  all. Correct means: nobody sees another user's list (`OwnListOnly`), totals do not live on
  (`TotalAgeBounded`).
* **Tokens in a blob.** Any request may find the access token expired, refresh it and rewrite the
  blob; requests of several tabs, a logout and a new login meet there without a lock. Correct
  means: a session in use is not lost (`UsedSessionIsKept`), a logout ends it
  (`LogoutIsFinal`), and what Keycloak has ended is soon refused (`EndedSessionIsRefused`).
* **Many doors, many items.** A decision comes through six routes with their own permission
  checks and exception handlers, alone or as one of many concurrent items. Correct means: no
  decision passes without its permission (`DecisionPermitted`, which the manager's routes violate;
  what holds instead is `VerdictPermitted`), what an item's result says is true and stays true
  (`FailedDidNotWin`, `FailureIsTrue`, `OkWasAccepted`), an unhandled 500 does not hide a decision
  (`UnhandledDecidedNothing`), what wins is what its author asked for (`EveryWinnerWasAsked`), and
  each review keeps its contract under all of them (`EveryReviewKeepsContract`).
* **Waits without a deadline.** `run()` waits for `_finalized` for ever, and every handler for its
  activity. Correct means: whatever is awaited is under way (`NobodyWaitsInVain`), activities do
  not go on for ever (`AttemptsRunOut`), and so decisions end (`AcceptedDecisionCloses`).
* **One blob, many requests.** The selection is rewritten by requests that only meant to
  remember a pagination, and by requests of a session already left. Correct means: bulk
  actions touch only what their session selected (`ActedWereChecked`), and apart from
  overlapping rewrites and Redis errors the selection is what was clicked
  (`SelectionIsWanted`).

## 2. Modules

Two modules show reviews: `ReviewWorkflow` shows one in detail, `DecisionDoors` several from outside,
where requests meet at them. `SignalledReview` is the contract between the two, and
`ReviewLifecycle` what the contract promises to those who only read the row:

| | implements | by |
|---|---|---|
| `ReviewWorkflow` | `SignalledReview` | `KeepsContract`: the row, the claim and the handlers of decisions, abstracted |
| each review of `DecisionDoors` | `SignalledReview` | `EveryReviewKeepsContract`: the doors ask and signal only as the contract allows |
| each step of a review alone in `SignalledReview` | a step of `DecisionDoors` | the theorem `ReviewsAreContracts` |
| `SignalledReview` | `ReviewLifecycle`, with one payload | the theorem `LivesOnceHolds` |
| `ReviewWorkflow` | `ReviewLifecycle`, with the payload | `ImplementsLifecycle` |

So what is shown of the doors is shown of reviews that behave as `ReviewWorkflow` lets them: the doors'
reviews may do whatever the contract lets a review do, and the execution does nothing else.

### ReviewWorkflow, ReviewLifecycle, MCReviewWorkflow, ReviewWorkflowProofs, ReviewProgressProofs

`ReviewWorkflow` is one review: `row` (the table row), `exec` (the execution as the server sees
it), `wf` (the workflow object and the program counter of `run()`), `act`, `tries`, `strays`
(one activity for each of `persist_request`, the forced cancellation, and every handler),
`hand` (the handler started by each call), `cancel`, and `call`, `args` (each call of the
service). Reviews do not share state, so one review stands for all.

Every `await` is a boundary between two actions; what lies between two awaits is one action.

| Code | Actions |
|---|---|
| `run()` up to, and after, `persist_request` | `StartRun`, `RequestPersisted`, `RequestFailed` |
| `run()` at `wait_condition` | `RunReturns`; `DeliverCancel` (`CancelEscapes` before it, `CancelClaims`, `CancelReturns` at it), then `ForcedPersisted`, `ForcedFailed` |
| `submit_decision` (signal) | `HandleDecision` (`IgnoreDecision`, `ClaimDecision`, `RejectDecision`), `DecisionPersisted`, `HandlerFailed` |
| `update_payload` (signal) | `HandleUpdate`, `UpdatePersisted`, `HandlerFailed` |
| the three statements | `Statement`, executed by `Execute` and `StrayExecute` |
| `create_review` | `CreateReview`; its wait changes nothing |
| `submit_decision`, `update_review` (service) | `SubmitDecision`, `UpdateReview` (checks), `SignalAccepted`, `SignalNotFound`, `SignalRaised`, `Reconcile`, `WaitConfirmed`, `WaitTimedOut` |
| Temporal and Postgres (not part of the repository) | `Close`, `Dispatch`, `Execute`, `Report`, `AttemptLost`, `StrayExecute`, `NativeCancel`, `AdminKill`, `RawSignal` |

The constant `Faults` says which troubles of the environment a run has: lost attempts, native
cancels, terminate and delete, RPC errors other than NOT_FOUND (after which the signal may or
may not have been accepted), and signals sent with Temporal's own tools.

`ReviewLifecycle` is what the row promises: absent, pending, decided once with one verdict that
was chosen before it was written, or detached from a lost execution; the payload changes only
while pending. A detached row may still be overwritten by the execution's own verdict, since
`persist_decision` has no guard on the status; nothing else may. `ImplementsLifecycle` is the
refinement: the stage is read off `row`, the winner off the one decision activity ever started.

### SignalledReview, SignalledReviewProofs, ReviewContractProofs

The contract has what the doors know of a review: `stage`, `verdict`, `winner`, `running`, and `mail`,
whose signals were accepted and not handled; `author` (whose decision won) and `asked` (what each
caller asks for) are there to say what a decision is a decision of. `Create`, `Handle`, `ForceCancel`,
`Persist` and `End` are what a review does by itself (`Own`); `Ask`, `Accept` and `Detach` what callers
and their reconciliation make of it. A signal that `RejectDecision` fails on is part of `End`.
`ReviewWorkflow` keeps it by the mapping that precedes `KeepsContract`: a decision has won once its
activity is scheduled, `mail` is the queued handlers of decisions, and a detached row is "LOST"
until the claimed verdict arrives there.

### PaginationCache, MCPaginationCache, PaginationCacheProofs

`cache` (`_query_cache` of each replica), `memory` (the pagination in each session's blob),
`session`, `holder` (whose login each session is), `tab`, `req` (the request each tab waits for,
from await to await). A screen has three fragments that are rendered separately and carry a
query id each: the rows, the head with the pager, and the bulk toolbar. So `tab` has three ids,
and each route sends one of them and replaces some of them:

| Route | Action | Sends | Replaces |
|---|---|---|---|
| `/ui/operator`, `/ui/manager` | `LoadPage` | no id | all |
| create | `Create` | no id | all |
| rows, every 5 s | `Poll` | the rows' id | the rows |
| list (Prev, Next) | `Turn` | the pager's id | all |
| bulk-select, a row's checkbox | `Check` | the rows' id, or an empty one if the row was rendered again by itself | the toolbar |
| bulk-select, the checkbox of all rows | `CheckAll` | the pager's id | rows and toolbar |
| bulk-decision | `Bulk`, then `Acted` | the toolbar's id (the confirm dialog copies it) | all; nothing if the service refused |

The steps of a handler are `SaveMemory` (the rewrite of the blob that `_clear_selection` and
`_update_selection` do, pagination included), `Resolve` (the id resolves here or Redis is asked),
`Fallback`, `FallbackFails`, `Recount`, `Remember` and `Render`. `Tick` ages entries, copies and
totals; an expired entry is dropped by it, which is as good as the pop on the next lookup.
`Restart` empties a replica's cache. A query id is a model value; an id that resolves nowhere any
more may be minted again (`Fresh`), which stands for uuid4. A tab that still holds such an id
holds an unknown one from then on (`Held`, `Forget`).

The routes of a bulk action ask for a permission and not for a role. `Bulk` admits by role, since
the realm (`src/keycloak/import/myrealm-realm.json`) grants Cancel to operators only, and Approve
and Reject to managers only.

### SessionMemory, MCSessionMemory, SessionMemoryProofs

The selection half of the same blob. A handler is the sequence of what it does to the blob
(`Scripts`): read it (`get`), or load and save it with a change (`select`, `deselect`, `clear`,
`remember`). `Load` and `Save` are separate steps, so the rewrites of requests in flight meet
there. Redis errors may strike a load or a save (which may or may not have been executed), and
the blob may expire. `checked`, `wanted` and `disturbed` are history: what a session ever asked
to select, what the changes amount to, and whether a rewrite since the last clear overlapped
another one or failed.

The response of a bulk action is not kept: its comment says that the selection it renders is
empty, and another request may have put something into it, without consequence.

### KeycloakSession, MCKeycloakSession, KeycloakSessionProofs

The login sessions of one browser: `cookie` (the session id it holds), `store` and `idle` (the
`ui-session` blobs: the ages of the tokens, and the ticks since the expiry was last pushed back),
`honoured` (Keycloak still honours a session's tokens), `req` (requests in flight, each with its
own copy of the tokens). `since`, `gap`, `steady` and `left` are history.

| Code | Actions |
|---|---|
| `/ui/login`, `/ui/callback` | `LoginPage`; `Callback`, then `Exchange` or `ExchangeFails`, `StoreLogin` |
| `/ui/logout` | `Logout`, then `DeleteOnLogout` |
| any other route | `Send` a page (role only) or an action (permission) |
| `session_store.get` | `Get` (GET) and `Touch` (EXPIRE) are two steps; `GetFails` |
| `refresh_access_token` | `Refresh`, `Reject`, `BadGateway` (any other status than 200), `Unreachable` (an httpx exception) |
| `get_session_user` after the refresh | `Resume` (`access_expires_at` counts from here), `Set`, `SetFails`; or `Discard` |
| `check_permission` | `Check` |
| the response | `Respond`: cookies arrive in any order |
| environment | `KeycloakEnds`, `Evict`, `Tick` |

Tokens have two ages: since Keycloak issued them, which is what Keycloak looks at, and since the
answer was read, which is what the code looks at. Keycloak is modelled as the realm sets it up:
refresh tokens may be used more than once. The realm file states no lifetimes; its defaults, 5
minutes for access tokens and 30 for an idle session, are the constants.

### DecisionDoors, MCDecisionDoors, DecisionDoorsProofs

`stage`, `verdict`, `winner`, `running` and `mail` are several reviews as the doors see them (rows,
claims, executions, signals accepted and not handled yet); `req` is each HTTP request, `item` where
it is with each of its reviews. A review by itself is what `SignalledReview` lets it be: `Create`,
`Handle`, `ForceCancel`, `Persist`, `End`. `Submit` picks a request from
`Menu`; `CheckPermission` asks what the route asks for (`Required`); `Start` reads the selection
(any of the listed rows, since other tabs may have changed it after the confirm dialog) and
applies `_validate_bulk_ids` and the check of the decision. Each item is `submit_decision` from
await to await: `Read`, `Signal`, `RpcError`, `Reconcile`, `Wait`. `Gathered` and `GatherRaises`
are `asyncio.gather`, which raises at once while the other items go on; `Reply` is what the
single-item routes make of a result or an exception (`AnswerOf`). `manager_decision` says what went
wrong in a dialog about the record, which it reads again: without a record the template raises
(`_detail_dialog.html`, line 43), be it after LookupError or after the ValueError of an unknown
decision. `Undrawable` is this second read, at the moment of the answer: a row that was not there
at first may be there by then.

`EveryReviewKeepsContract` says that each review, with what the requests ask for, behaves as
`SignalledReview`: nobody signals twice or where there is no row, nobody's request changes after its
signal was sent, and reconciliation leaves alone what still takes signals. `Faults` may include
"native_cancel" (an administrator cancels an execution) and "lost" (terminated, deleted or failed).

## 3. Runs

Model-checked by TLC; all runs take less than five minutes each with two workers.

| Run | Configuration | Shows |
|---|---|---|
| `rw_faults` | 2 calls, 2 users, 1 attempt, all faults | the invariants, the inductive invariant `IInv`, `NobodyWaitsInVain`, and the refinements `ImplementsLifecycle` and `KeepsContract` |
| `rw_retries` | 2 calls, 2 attempts, lost attempts | `DecidedRowIsFinal`, `PayloadFrozen`, `SingleWinner`, `HandlerFindsRow`, `CancelledByRequester`, `AttemptsRunOut` under retries and stray statements |
| `rw_live` | 2 calls, 1 user, lost attempts, `FairSpec` | `AcceptedDecisionCloses`, `CreatedReviewAppears` |
| `pagination` | 2 tabs, 2 replicas, 2 operators, 1 manager, 2 logins, TTL 1, latency 1, 2 query ids | `OwnListOnly`, `TotalAgeBounded` |
| `memory_selection` | 2 requests in flight, 1 id, 2 logins | `ActedWereChecked`, `SelectionIsWanted` |
| `session_lives` | 2 requests in flight, access 2, refresh 6 and TTL 6 ticks, latency 1, all faults | `UsedSessionIsKept`, `LogoutIsFinal`, `EndedSessionIsRefused` |
| `decision_doors` | 2 requests out of 14, 3 users, 2 reviews and an unknown id, bulks of at most 2, RPC errors, lost and cancelled executions | `FailedDidNotWin`, `FailureIsTrue`, `OkWasAccepted`, `VerdictPermitted`, `UnhandledDecidedNothing`, `EveryWinnerWasAsked`, `EveryReviewKeepsContract` |
| `rw_cancel_race`, `rw_not_found`, `memory_poll`, `session_wake_up`, `manager_cancels` | as small as shows it | the disagreements of section 6 |

Bounds and why they are enough:

* *Calls.* A race needs two. The theorems are about any number.
* *MaxAttempts* is 5 in the code. One attempt reaches "all attempts are lost", two reach "a
  retry after a stray attempt". The theorems are about any number.
* *Payloads*: two, the initial one and an edited one; *users*: the requester and a manager.
* *Ids* in `SessionMemory`: selecting, deselecting and clearing treat every id by itself, so one
  is enough for an invariant; the theorems are about any number. `memory_poll` uses two.
* *MaxSessions* bounds the logins of one browser: two reach every "old session, new session"
  case in `PaginationCache` and `SessionMemory`. The sessions of `KeycloakSession` share nothing
  but the cookie, and its properties are about a session by itself: one is enough there.
* *TTL* and *Latency* of `PaginationCache` are one tick each: an entry is fresh or expired, a
  request takes no time or all it may. `MaxAge` is exact: one tick less is violated by this
  instance. *Latency* is an assumption about the environment, there is no such limit in the code;
  without one, a request could show a total counted any time ago.
* *QueryIds*: two, with `IdsLeft` refusing to send a request that might find no free id. This
  bounds how many queries are alive at a time, not how many are minted.
* *AccessLife*, *RefreshLife* and *Latency* of `KeycloakSession` are small and leave `MaxGap` at 2: a
  session may be used while its access token is good, after it expired, and too late. `MaxGap` and
  `MaxLinger` are exact: this instance violates the properties with a `MaxGap` one tick longer or a
  `MaxLinger` one tick shorter.
* *Menu*: each of the six doors, with an ask it lets pass and one it refuses: for want of a
  permission, for the owner, for an unknown id or decision, for a bulk of more than *MaxBulk*.

`CHECK_DEADLOCK FALSE` is said where the system may stop: a review is decided and all callers
have their answer (`ReviewWorkflow`), the last login has logged out (`SessionMemory`), all
requests are answered and all executions ended (`DecisionDoors`).

*Fairness.* `FairSpec` adds weak fairness of `Worker`: some worker process keeps polling both
kinds of tasks (`worker.py`'s `Worker.run` loops for the life of the process). Nothing is
assumed of callers, administrators, or of attempts being lost; Temporal's own bound on attempts
is what ends a series of losses.

## 4. Proofs

Checked by TLAPS, for every value of the constants that the ASSUMEs of the modules allow:
that the special names (`"request"`, `"nobody"`, `"temporal-admin"`, ...) are no calls or requests, `InitPayload` a payload, `Requester` a user, operators apart
from managers, `MaxAttempts`, `MaxSessions` and `TTL` positive, and for `KeycloakSession` that a
request is over within an access token's life, that a refresh token outlives an access token and two
requests, and that the blob outlives the refresh token (`LivesAssumption`). Finiteness of the sets is not
needed. Each proof module has an inductive invariant, one lemma per action, and the properties
as corollaries; the listed theorems cover every invariant and action property of the passing runs.

**ReviewWorkflowProofs.** `Invariance` proves `Spec => []IInv`. Why the properties alone are not
inductive: nothing in `SingleWinner` forbids a second decision activity unless one knows that a
decision activity started implies the claim (`ClaimInv`); nothing in "final means persisted" holds
unless one knows that the row's verdict is the verdict of the one decision activity that was
written (`ActivityInv`, `RowInv`) and that every write of a decision, late ones included, writes
that same verdict again; `HandlerFindsRow` needs that a call passes its checks only after the row
appeared (`CallInv`) and that `run()` passes `persist_request` only then (`RunInv`). `IInv` is the
conjunction of these named parts; the step proof has one lemma per action, and the two actions
that execute a statement (`Execute`, `StrayExecute`) share one lemma about `Statement`. From
`IInv` follow the invariants, the two action properties (`DecidedRowIsFinalHolds`,
`PayloadFrozenHolds`) and, step by step, the refinement `ImplementsLifecycleHolds`.

**ReviewProgressProofs.** That nobody waits in vain is safety, and is proved: `WaitInv` strengthens `IInv`
by what the attempts left to an activity say of its state (`AttemptInv`), by what `run()` awaits before
anybody could signal it (`StartInv`), and by who holds the claim: the handler that is awaiting a decision's
activity, or `run()` itself (`HolderInv`). A claim without a holder is what a forgotten `_finalized` or a
lost claim would leave. `AttemptsRunOutHolds` gives each activity a number that every step of it lowers.
The two are the reasons why `AcceptedDecisionCloses` holds under `FairSpec`; that property itself needs
fairness and ENABLED, and stays with TLC.

**ReviewContractProofs.** `KeepsContractHolds` maps every action of `ReviewWorkflow` to an action of the
contract or to a stutter. What it needs beyond `IInv`: a decision wins once and for all (`WinnerKept`
of `ReviewWorkflowProofs`), the winner is valid and is what its call asked for, and a call never asks
for something else once its signal is out (`AskedFor`).

**SignalledReviewProofs.** Signals reach only rows that are there, and a detached review takes none
(`RowInv`); with `WinnerWasAsked` that is inductive, and gives `LivesOnceHolds` step by step. What the
contract supposes of its callers and decisions (`Apart`, `Recordable`) are hypotheses of these
theorems; `ContractSupposed` shows them for both modules that use the contract. The contract has no
run of its own: TLC checks `WinnerWasAsked` at the doors' reviews (`EveryWinnerWasAsked`) and the
contract itself at the execution (`KeepsContract`).

**SessionMemoryProofs.** `MemoryInvariance` proves its own `IInv`: what a handler knows of a
selection was clicked in its own session, and a loaded copy equals the blob until another rewrite
overtakes it (`HandlerInv`). The former gives `ActedWereChecked`, the latter `SelectionIsWanted`.

**PaginationCacheProofs.** `IInv` says of everything that carries a query id or a total (requests,
tabs, blobs, caches) whose rows it is about and how old it is. What a request of a manager carries
is about everybody's rows (`Carried`, `ManagerQid`), since the check of the filter that protects
operators does not exist for managers and `require_session_role` is all that keeps an operator's
id from a manager's route; a total in a tier is at most `Latency` older than its entry there
(`InTime`, `CacheInv`), since only a new count is remembered. A query id minted by `Recount` is held
by nobody, which is what `TabOK` and `Held` are about.

**KeycloakSessionProofs.** `UsedSessionIsKept` has a bound on the age of the stored refresh token
at its heart (`BlobInv`: at most a use's age plus the gap since) which every copy in flight must
respect too (`CopyInv`): a request that overwrites newer tokens writes tokens that were issued
while it was waiting. `LogoutIsFinal` needs that nobody holds a copy of a blob deleted cleanly
(`LeftInv`), `EndedSessionIsRefused` that tokens of an ended session are older than its end
(`EndInv`) and that their recorded age is off by `Latency` at most (`AgeInv`).

**DecisionDoorsProofs.** `IInv` follows an item from the permission to the claim: what was checked
before the signal is still true when it is handled (`AskInv`, `CheckedInv`), an item that has failed
has no signal anywhere, and one that is ok has a winner or a signal (`SignalInv`); a review's winner
is what its author asked for, and he has no signal left there (`ReviewInv`, which
`EveryWinnerWasAskedHolds` is read off). `EveryReviewKeepsContractHolds` maps each step, for each
review, to a step of its contract: what a request does at one review leaves the others alike
(`OthersAlike`), a new question is asked by somebody who has no signal under way anywhere (`AsksAnew`),
and an accepted signal is its sender's first (`AcceptsSignal`). `ReviewsAreContracts` is the
converse for `Own`. What the doors let pass is `Allowed`, from which `VerdictPermittedHolds` is read off,
and `DecisionPermittedIfOwnersMayCancel` under a hypothesis on the owners; that a request which
failed unhandled has but one review and no signal for it is `RaisedInv`.

*Only model-checked:* the liveness properties `AcceptedDecisionCloses` and `CreatedReviewAppears` (fairness
and ENABLED are out of the prover's reach; their safety core is proved, see above), and the
disagreements of section 6, which are counterexamples.

## 5. Mutations

Each property of a passing run is shown to be about the code by one mutated definition that
violates it. The mutated forms stand next to the definitions they replace, each under a comment
starting with `Mutant:`; no specification uses them.

## 6. Disagreements between the code and what is said about it

* `rw_cancel_race`: a native cancel that arrives while a signal handler holds the claim makes
  `run()` return; the execution completes while the row may stay pending. `workflow/workflows.py:111`
  says persistence "is guaranteed to complete before this returns". The next caller's
  reconciliation repairs the row, as CANCELLED. Without a native cancel it cannot happen:
  `CompletedIsPersistedHolds`.
* `rw_not_found`: a caller is told the review "has been marked cancelled"
  (`workflow/service.py:284`) although it was approved: NOT_FOUND is also the answer of a completed
  execution. The row itself is right (`DetachedMeansClosedHolds`), and the review is indeed closed
  (`FailureIsTrueHolds`).
* `memory_poll`: `bff/ui.py:419` says polling never changes the selection; a poll that remembers a
  new pagination rewrites the selection it read, and undoes a checkbox saved in between. Where no rewrites overlap the selection is what was clicked:
  `SelectionIsWantedHolds`.
* `session_wake_up`: `bff/keycloak_session.py:248` says that what `RefreshFailed` clears is a dead
  entry. Of two requests near the end of the refresh token's life one may refresh in time and the
  other be refused: it deletes the tokens the first has just stored. Without an
  outage or a lost blob it strikes only a session left unused for longer than `MaxGap`:
  `UsedSessionIsKeptHolds`.

* `manager_cancels`: `bff/ui.py:1001` says that the permission depends on the decision and that the
  check mirrors the one of the REST API; `src/docs/MERGE_CANCEL_DECISION_PLAN.md` says that CANCELLED is
  checked against Cancel (line 72), so that a manager's is answered 403 (line 529), and that the
  manager's routes accept nothing but APPROVED and REJECTED (line 452). The
  manager's routes ask for Reject whenever the decision is not APPROVED and pass CANCELLED on (lines
  933 and 1005): a manager without Cancel who owns a review cancels it. The screens render no such
  button, and somebody comes to it only by having created a review before becoming a manager. Where
  every owner who may reject may also cancel it cannot happen:
  `DecisionPermittedIfOwnersMayCancel`. `VerdictPermittedHolds` is what holds in any case.

Remarks that no run is about:

* "30 minutes of inactivity" (`src/README.md:561`, `bff/session_store.py:11`) is what the blob lives.
  The refresh token in it is only renewed by a request that finds the access token expired, so the
  session is only sure to survive `MaxGap`: 25 minutes at the defaults, less the time of two requests.
* `src/db/schema.sql:30` says `closed_at` is set on ANY terminal transition; the reconciliation
  leaves it NULL, and says so (`workflow/service.py:234`). Nothing in the code reads it.
* `workflow/keycloak_auth.py:99` says that `RefreshFailed` is raised only when Keycloak actually rejects
  the refresh token, and that an outage must not log every session out. A 502 or 503 raises it too
  (line 124; `BadGateway`), and `get_session_user` deletes the session. With "bad_gateway" among its
  `Faults`, `session_wake_up` finds this shorter violation of `DiscardedEntryIsDead` instead.
* `manager_decision` answers an unhandled 500 to a manager's CANCELLED of somebody else's review
  (PermissionError has no handler there) and to any failing decision on a review that is not there
  (no record for the dialog). The decision was not taken in either case:
  `UnhandledDecidedNothingHolds`.

## 7. What is not modelled, and why

* The pools of activity workers (two activities may both create one; the damage is idle
  connections), worker modes, the wiring in `app.py`: no later state.
* Decoding of tokens, key sets, the oauth state: a token is what Keycloak makes of it. The callback
  of another browser ends in an error page.
* Payload schemas, templates beyond their query ids, wording, comments: data no property tells
  apart. `closed_comment` goes the way of `closed_by`. That a row rendered again by itself shows its
  checkbox unchecked until the next poll is layout in this sense.
* In `PaginationCache`: page numbers and row contents, and the REST search (it trusts any query id,
  and shows everything to every caller anyway).
* Liveness of a bulk (every item gets a result): the waits have deadlines and `DecisionDoors` has no
  loops, so there is nothing for fairness to decide.
* The sandbox page and the realm: a demonstration, and configuration that the constants stand for.

## 8. Plan

1. Done: `ReviewWorkflow` with `ReviewLifecycle`, its runs and proofs.
2. Done: `PaginationCache` with every route of the lists, and its proofs.
3. Done: `SessionMemory` and its proofs.
4. Done: `KeycloakSession` and its proofs.
5. Done: `DecisionDoors` and its proofs.
6. Done: `SignalledReview`, by which `ReviewWorkflow` and `DecisionDoors` are composed; the proofs of the
   contract on both sides and of the safety core of progress.
7. Left: page arithmetic (Next leads to rows while the list shrinks under a cached total);
   `ActivityPool` (how many pools a process may leave open); what the response of a decision that
   was not NOT_FOUND tells its caller, as a property of `ReviewWorkflow` rather than of the doors.

--------------------------- MODULE SessionMemory ---------------------------
(***************************************************************************)
(* The bulk selection of a login session, as the requests of a browser see *)
(* it (bff/ui.py over workflow/memory_service.py).  The selection and the  *)
(* last pagination are one JSON blob in Redis, ui-memory:<session id>, and *)
(* every change reads the whole blob, changes its copy and writes it back, *)
(* with no lock: the requests in flight, of one tab or of several, meet    *)
(* there.  What the pagination holds is the subject of PaginationCache;    *)
(* here it matters that remembering it rewrites the selection too.         *)
(***************************************************************************)
EXTENDS Naturals, Sequences

CONSTANTS
    Ids,          \* review requests a user can select
    Slots,        \* requests the browser may have in flight at a time
    MaxSessions   \* bound on the logins of this browser

ASSUME MaxSessionsAssumption == MaxSessions \in Nat \ {0}

VARIABLES
    session,   \* the session id in the browser's cookie, 0 when logged out
    logins,    \* the sessions there have been
    memory,    \* bulk_selection of each session's blob
    req,       \* the requests in flight
    checked,   \* history: the ids each session ever asked to select
    wanted,    \* history: what the changes made to each selection amount to
    disturbed  \* history: since the selection was cleared, a rewrite of the blob
               \* overlapped another or failed

vars == <<session, logins, memory, req, checked, wanted, disturbed>>
-----------------------------------------------------------------------------
Sessions == 1..MaxSessions

\* What a handler does to the blob: "get" is _get_selection, the rest read and
\* rewrite it; "act" is the bulk submission in between.
Rewrites == {"select", "deselect", "clear", "remember"}

Ops == Rewrites \cup {"get", "act"}

\* _resolve_operator_page and _resolve_manager_page remember a query they mint.
Resolved == {<<>>, <<"remember">>}

\* The handlers, as what they do to the blob: page is a full page load; look the
\* list, the rows poll and the dialogs, which only read; click a checkbox;
\* execute a confirmed bulk action.
Scripts ==
    [page    |-> {<<"clear", "get">>},
     look    |-> {r \o <<"get">> : r \in Resolved},
     click   |-> {<<c>> \o r : c \in {"select", "deselect"}, r \in Resolved},
     execute |-> {<<"get", "act", "clear">> \o r \o <<"get">> : r \in Resolved}]

Kinds == DOMAIN Scripts

Request == [kind    : Kinds \cup {"idle"},
            session : Sessions,
            clicked : SUBSET Ids,     \* the request_ids of a click
            todo    : Seq(Ops),
            loaded  : BOOLEAN,        \* the blob is read and not yet written
            copy    : SUBSET Ids,     \* what was read
            overlap : BOOLEAN,        \* it was rewritten since
            shown   : SUBSET Ids]     \* the selected_ids the handler goes on with

TypeOK ==
    /\ session \in 0..logins
    /\ logins \in 0..MaxSessions
    /\ memory \in [Sessions -> SUBSET Ids]
    /\ req \in [Slots -> Request]
    /\ checked \in [Sessions -> SUBSET Ids]
    /\ wanted \in [Sessions -> SUBSET Ids]
    /\ disturbed \in [Sessions -> BOOLEAN]

Idle == [kind |-> "idle", session |-> 1, clicked |-> {}, todo |-> <<>>,
         loaded |-> FALSE, copy |-> {}, overlap |-> FALSE, shown |-> {}]

Init ==
    /\ session = 0
    /\ logins = 0
    /\ memory = [s \in Sessions |-> {}]
    /\ req = [t \in Slots |-> Idle]
    /\ checked = [s \in Sessions |-> {}]
    /\ wanted = [s \in Sessions |-> {}]
    /\ disturbed = [s \in Sessions |-> FALSE]

-----------------------------------------------------------------------------
\* The browser.

\* Mutant: ui-memory:<username>, one blob for all logins of a user.
KeyOfUsername(s) == 1

\* ui-memory:<session id>.
Key(s) == s

\* complete_login: a session id of its own for every login, with or without a
\* logout before it.
Login ==
    /\ logins < MaxSessions
    /\ logins' = logins + 1
    /\ session' = logins + 1
    /\ UNCHANGED <<memory, req, checked, wanted, disturbed>>

\* Mutant: a request without a session is served.
CanSendLoggedOut(t) == req[t].kind = "idle"

\* get_session_user.
CanSend(t) == req[t].kind = "idle" /\ session # 0

\* A request reaches its handler; a click names the rows it is about, one or,
\* for select-all, several.
Send(t, k, todo, ids) ==
    /\ CanSend(t)
    /\ IF k = "click" THEN ids # {} ELSE ids = {}
    /\ req' = [req EXCEPT ![t] = [Idle EXCEPT !.kind = k, !.session = session,
                                             !.clicked = ids, !.todo = todo]]
    /\ checked' = IF todo[1] = "select"
                  THEN [checked EXCEPT ![session] = @ \cup ids] ELSE checked
    /\ UNCHANGED <<session, logins, memory, wanted, disturbed>>

\* The requests of session s that hold a copy of its blob are overtaken.
Overtaken(s) ==
    [t \in Slots |-> IF req[t].session = s /\ req[t].loaded
                     THEN [req[t] EXCEPT !.overlap = TRUE] ELSE req[t]]

\* A change to the selection of session s is lost: what is wanted is over.
Disturb(s) ==
    /\ disturbed' = [disturbed EXCEPT ![s] = TRUE]
    /\ wanted' = [wanted EXCEPT ![s] = {}]

\* The blob of session s is gone, and so is what was wrong with it.
Settle(s) ==
    /\ disturbed' = [disturbed EXCEPT ![s] = FALSE]
    /\ wanted' = [wanted EXCEPT ![s] = {}]

\* logout: the cookie is cleared first, then the blob deleted; RedisError leaves
\* the blob.
Logout ==
    /\ session # 0
    /\ \/ /\ memory' = [memory EXCEPT ![Key(session)] = {}]
          /\ req' = Overtaken(session)
          /\ Settle(session)
       \/ /\ Disturb(session)
          /\ UNCHANGED <<memory, req>>
    /\ session' = 0
    /\ UNCHANGED <<logins, checked>>

-----------------------------------------------------------------------------
\* The handlers, from await to await.

Op(t) == req[t].todo[1]

Busy(t) == req[t].todo # <<>>

\* Mutant: _remember_pagination starts from an empty SessionMemory, not from load.
LoadAfreshToRemember(t) ==
    /\ Busy(t)
    /\ Op(t) \in Rewrites
    /\ ~req[t].loaded
    /\ req' = [req EXCEPT ![t] = [@ EXCEPT !.loaded = TRUE, !.overlap = FALSE,
                    !.copy = IF Op(t) = "remember" THEN {} ELSE memory[Key(req[t].session)]]]
    /\ UNCHANGED <<session, logins, memory, checked, wanted, disturbed>>

\* SessionMemory.load.
Load(t) ==
    /\ Busy(t)
    /\ Op(t) \in Rewrites
    /\ ~req[t].loaded
    /\ req' = [req EXCEPT ![t] = [@ EXCEPT !.loaded = TRUE, !.overlap = FALSE,
                                           !.copy = memory[Key(req[t].session)]]]
    /\ UNCHANGED <<session, logins, memory, checked, wanted, disturbed>>

\* select and deselect of each id, clear_selection, set_pagination.
Changed(op, selection, ids) ==
    IF op = "select" THEN selection \cup ids
    ELSE IF op = "deselect" THEN selection \ ids
    ELSE IF op = "clear" THEN {}
    ELSE selection

\* The handler goes on with its copy of the blob gone, or answers.
GoesOn(t, shown) ==
    IF Len(req[t].todo) = 1 THEN Idle
    ELSE [req[t] EXCEPT !.todo = Tail(@), !.loaded = FALSE, !.copy = {}, !.overlap = FALSE,
                        !.clicked = {}, !.shown = shown]

\* SessionMemory.save writes the whole blob.
Save(t) ==
    LET s == req[t].session
    IN  /\ req[t].loaded
        /\ memory' = [memory EXCEPT ![Key(s)] = Changed(Op(t), req[t].copy, req[t].clicked)]
        /\ req' = [Overtaken(s) EXCEPT ![t] = GoesOn(t, {})]
        /\ disturbed' = [disturbed EXCEPT ![s] = Op(t) # "clear" /\ (@ \/ req[t].overlap)]
        /\ wanted' = [wanted EXCEPT ![s] = IF disturbed'[s] THEN {}
                                           ELSE Changed(Op(t), @, req[t].clicked)]
        /\ UNCHANGED <<session, logins, checked>>

\* RedisError: the blob is written or not, and the handler goes on all the same.
SaveFails(t) ==
    LET s == req[t].session
    IN  /\ req[t].loaded
        /\ \/ /\ memory' = [memory EXCEPT ![Key(s)] = Changed(Op(t), req[t].copy, req[t].clicked)]
              /\ req' = [Overtaken(s) EXCEPT ![t] = GoesOn(t, {})]
           \/ /\ req' = [req EXCEPT ![t] = GoesOn(t, {})]
              /\ UNCHANGED memory
        /\ Disturb(s)
        /\ UNCHANGED <<session, logins, checked>>

LoadFails(t) ==
    /\ Busy(t)
    /\ Op(t) \in Rewrites
    /\ ~req[t].loaded
    /\ req' = [req EXCEPT ![t] = GoesOn(t, {})]
    /\ Disturb(req[t].session)
    /\ UNCHANGED <<session, logins, memory, checked>>

\* _get_selection: the selection, or nothing on RedisError.
Get(t) ==
    /\ Busy(t)
    /\ Op(t) = "get"
    /\ \E shown \in {memory[Key(req[t].session)], {}} :
            req' = [req EXCEPT ![t] = GoesOn(t, shown)]
    /\ UNCHANGED <<session, logins, memory, checked, wanted, disturbed>>

\* bulk_submit_decision of every id, results apart; an empty selection, more
\* ids than a bulk may have, and an RPCError that submit_decision does not
\* turn into a result (from the gather) end the request before the selection
\* is cleared.
Act(t) ==
    /\ Busy(t)
    /\ Op(t) = "act"
    /\ \/ /\ req[t].shown # {}
          /\ req' = [req EXCEPT ![t] = GoesOn(t, {})]
       \/ req' = [req EXCEPT ![t] = Idle]
    /\ UNCHANGED <<session, logins, memory, checked, wanted, disturbed>>

\* SESSION_TTL_SECONDS pass without a write, or Redis evicts the blob.
Expire(s) ==
    /\ memory[Key(s)] # {}
    /\ memory' = [memory EXCEPT ![Key(s)] = {}]
    /\ req' = Overtaken(s)
    /\ Settle(s)
    /\ UNCHANGED <<session, logins, checked>>

Handler(t) ==
    \/ Load(t) \/ Save(t) \/ SaveFails(t) \/ LoadFails(t)
    \/ Get(t) \/ Act(t)

Next ==
    \/ Login \/ Logout
    \/ \E t \in Slots, k \in Kinds, ids \in SUBSET Ids :
            \E todo \in Scripts[k] : Send(t, k, todo, ids)
    \/ \E t \in Slots : Handler(t)
    \/ \E s \in Sessions : Expire(s)

Spec == Init /\ [][Next]_vars

-----------------------------------------------------------------------------
\* Properties.

Acting(t) == Busy(t) /\ Op(t) = "act"

\* A bulk decision is submitted for no request that this login session did not
\* ask to select: nothing is inherited from another session, whatever was still
\* in flight when the user logged out and in again.
ActedWereChecked ==
    \A t \in Slots : Acting(t) => req[t].shown \subseteq checked[req[t].session]

\* The stored selection is what the clicks and bulk actions since it was last
\* cleared amount to, unless two rewrites of the blob overlapped or Redis failed
\* since: no handler disturbs it on its own, remembering a pagination keeps it,
\* and a page load puts right whatever went wrong before.
SelectionIsWanted ==
    \A s \in Sessions : ~disturbed[s] => memory[Key(s)] = wanted[s]

\* The inductive invariant behind both.  What a handler knows of the selection
\* was clicked in its own session, and a copy is what the blob still holds until
\* another rewrite overtakes it.
HandlerInv(t) ==
    LET a == req[t]
    IN  /\ a.shown \cup a.copy \subseteq checked[a.session]
        /\ Busy(t) /\ Op(t) = "select" => a.clicked \subseteq checked[a.session]
        /\ a.loaded => Busy(t)
        /\ a.loaded /\ ~a.overlap => a.copy = memory[a.session]

IInv ==
    /\ TypeOK
    /\ \A t \in Slots : HandlerInv(t)
    /\ \A s \in Sessions : memory[s] \subseteq checked[s]
    /\ SelectionIsWanted

\* docs/SELECT_ALL_CHECKBOX_PLAN.md and operator_rows: polling alone never
\* changes the selection.
PollKeepsSelection ==
    [][\A t \in Slots : req[t].kind = "look" /\ Save(t) => memory' = memory]_vars
=============================================================================

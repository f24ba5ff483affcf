-------------------------- MODULE PaginationCache --------------------------
(***************************************************************************)
(* How a list screen finds the filter and the total of the page it shows:  *)
(* the query_id of the request resolves in the process's _query_cache      *)
(* (workflow/service.py), or else the session's ui-memory blob in Redis    *)
(* has a fresh pagination (bff/ui.py, _pagination_fallback), or else the   *)
(* rows are counted again.  Several tabs share one browser session, the    *)
(* requests land on any replica, and the time they take is part of how old *)
(* a total may be when it is shown.                                        *)
(***************************************************************************)
EXTENDS Integers, FiniteSets

CONSTANTS
    Tabs,         \* browser tabs; they share one cookie
    Replicas,     \* processes, each with its own _query_cache
    Operators,    \* users who see only their own requests
    Managers,     \* users who see all requests
    TTL,          \* QUERY_CACHE_TTL_S, in ticks
    Latency,      \* the longest a request is assumed to take, in ticks
    QueryIds,     \* the query ids in use at any time
    MaxSessions   \* bound on the logins of this browser

ASSUME UsersAssumption == Operators \cap Managers = {} /\ "all" \notin Operators
ASSUME IdsAssumption == {"none", "empty"} \cap QueryIds = {} /\ "none" \notin Replicas
ASSUME BoundsAssumption == TTL \in Nat \ {0} /\ {Latency, MaxSessions} \subseteq Nat

VARIABLES
    cache,     \* _query_cache of each replica
    holder,    \* the user of each login session
    session,   \* the session id in the browser's cookie, 0 before login
    memory,    \* the pagination of each session's ui-memory blob
    tab,       \* what each tab shows
    req        \* the request each tab is waiting for

vars == <<cache, holder, session, memory, tab, req>>
-----------------------------------------------------------------------------
Users    == Operators \cup Managers
Sessions == 1..MaxSessions
Filters  == Operators \cup {"all"}      \* filter["requester"], "all" for None

\* The oldest total a request may show (see TotalAgeBounded).
MaxAge == TTL - 1 + 2 * Latency

\* A query whose rows were counted: the ticks since it was cached (the entry's age in
\* _query_cache, cached_at in the blob) and since the count.
Entry == [qid : QueryIds \cup {"none"}, filter : Filters, age : 0..TTL,
          counted : 0..(MaxAge + 1)]

NoEntry == [qid |-> "none", filter |-> "all", age |-> 0, counted |-> 0]

Request == [pc      : {"idle", "act", "save", "fallback", "count", "remember", "render"},
            kind    : {"load", "poll", "turn", "check", "checkAll", "bulk"},
            qid     : QueryIds \cup {"none", "empty"},
            replica : Replicas \cup {"none"},
            session : Sessions \cup {0},
            took    : 0..Latency,
            found   : Entry,
            copy    : Entry]      \* what a change of the selection has read of the blob

\* Rows, pager and bulk toolbar are fragments of their own: a poll replaces the
\* rows only, so that the others keep older query ids.
Tab == [screen : {"none", "operator", "manager"}, rowsQid : QueryIds \cup {"none"},
        pagerQid : QueryIds \cup {"none"}, toolbarQid : QueryIds \cup {"none"}]

TypeOK ==
    /\ cache \in [Replicas -> [QueryIds -> Entry]]
    /\ holder \in [Sessions -> Users \cup {"nobody"}]
    /\ session \in Sessions \cup {0}
    /\ memory \in [Sessions -> Entry]
    /\ tab \in [Tabs -> Tab]
    /\ req \in [Tabs -> Request]

Idle == [pc |-> "idle", kind |-> "load", qid |-> "none", replica |-> "none",
         session |-> 0, took |-> 0, found |-> NoEntry, copy |-> NoEntry]

Init ==
    /\ cache = [r \in Replicas |-> [q \in QueryIds |-> NoEntry]]
    /\ holder = [s \in Sessions |-> "nobody"]
    /\ session = 0
    /\ memory = [s \in Sessions |-> NoEntry]
    /\ tab = [t \in Tabs |-> [screen |-> "none", rowsQid |-> "none", pagerQid |-> "none",
                              toolbarQid |-> "none"]]
    /\ req = [t \in Tabs |-> Idle]

\* An entry of _query_cache past its expires_at, PaginationMemory.is_stale.
Expired(e) == e.age >= TTL

Step(t, pc) == req' = [req EXCEPT ![t] = [@ EXCEPT !.pc = pc]]

\* Mutant: the requester filter is applied to managers too.
OwnFilterOfEverybody(u) == u

\* The filter of the list a user is shown.
OwnFilter(u) == IF u \in Operators THEN u ELSE "all"

\* _cache_get finds the entry (Tick drops it when its TTL has passed).
Cached(r, q) == q # "none" /\ cache[r][q] # NoEntry

\* Mutant: a resolved query id is trusted whoever minted it.
TrustedUnchecked(s, e) == TRUE

\* The ownership check of _resolve_operator_page; managers have none.
Trusted(s, e) == holder[s] \in Operators => e.filter = holder[s]

\* The query is known; all that is left is to fetch the rows and to render.
Answered(a, e) == [a EXCEPT !.pc = "render", !.found = e, !.qid = "none", !.replica = "none"]

\* _resolve_operator_page and _resolve_manager_page as far as their first
\* await: the query id resolves here, or Redis is asked.
Resolve(t, a) ==
    LET e == cache[a.replica][a.qid]
        hit == Cached(a.replica, a.qid) /\ Trusted(a.session, e)
    IN  req' = [req EXCEPT ![t] =
                    IF hit THEN Answered(a, e)
                           ELSE [a EXCEPT !.pc = "fallback", !.qid = "none"]]

-----------------------------------------------------------------------------
\* The browser.

\* Logging in again replaces the session id in the cookie of every tab; what
\* the tabs show stays.
Login(u) ==
    /\ session < MaxSessions
    /\ session' = session + 1
    /\ holder' = [holder EXCEPT ![session + 1] = u]
    /\ UNCHANGED <<cache, memory, tab, req>>

Role(u) == IF u \in Operators THEN "operator" ELSE "manager"

\* require_session_role refuses a screen of the other role.
Admitted(t) ==
    tab[t].screen = Role(holder[session])

Sent(r, kind, qid) ==
    [Idle EXCEPT !.kind = kind, !.qid = qid, !.replica = r, !.session = session]

\* A tab may hold a query id that no replica knows, and none ever will: it is as
\* good as no id, and is held as "none".
Held(c, q) == IF q # "none" /\ (\E r \in Replicas : c[r][q] # NoEntry) THEN q ELSE "none"

\* The tabs, once the caches are c.
Forget(c) ==
    [t \in Tabs |-> [tab[t] EXCEPT !.rowsQid = Held(c, @), !.pagerQid = Held(c, @),
                                   !.toolbarQid = Held(c, @)]]

\* uuid4: an id that is not cached, nor in a blob or a request, is as good as new.
Fresh(q) ==
    /\ \A r \in Replicas : ~Cached(r, q)
    /\ \A s \in Sessions : memory[s].qid # q
    /\ \A t \in Tabs : q \notin {req[t].qid, req[t].found.qid, req[t].copy.qid}

\* A bound: no request is sent that could run out of ids.
IdsLeft ==
    Cardinality({q \in QueryIds : ~Fresh(q)})
        + Cardinality({t \in Tabs : req[t].pc \in {"act", "save", "fallback", "count"}})
      < Cardinality(QueryIds)

CanSend(t) == session # 0 /\ req[t].pc = "idle" /\ IdsLeft

\* A change of the selection first reads the whole ui-memory blob.
Selects(t, r, kind, qid) ==
    req' = [req EXCEPT ![t] = [Sent(r, kind, qid) EXCEPT !.pc = "save", !.copy = memory[session]]]

\* GET /ui/operator and /ui/manager: page 0 of a new query, once _clear_selection
\* has read the whole ui-memory blob ...
LoadPage(t, r) ==
    /\ CanSend(t)
    /\ Selects(t, r, "load", "none")
    /\ UNCHANGED <<cache, holder, session, memory, tab>>

\* create_request renders page 0 of a new query, and remembers nothing.
Create(t, r) ==
    /\ CanSend(t)
    /\ Admitted(t)
    /\ tab[t].screen = "operator"
    /\ req' = [req EXCEPT ![t] = [Sent(r, "load", "none") EXCEPT !.pc = "count"]]
    /\ UNCHANGED <<cache, holder, session, memory, tab>>

\* The rows poll every 5 s.
Poll(t, r) ==
    /\ CanSend(t)
    /\ Admitted(t)
    /\ Resolve(t, Sent(r, "poll", tab[t].rowsQid))
    /\ UNCHANGED <<cache, holder, session, memory, tab>>

\* The Next and Prev buttons carry the query id of the last list rendered.
Turn(t, r) ==
    /\ CanSend(t)
    /\ Admitted(t)
    /\ Resolve(t, Sent(r, "turn", tab[t].pagerQid))
    /\ UNCHANGED <<cache, holder, session, memory, tab>>

\* A row's checkbox; a row that was rendered again by itself, after an action of
\* its own, has an empty query id (_operator_row_response.html).
Check(t, r) ==
    /\ CanSend(t)
    /\ Admitted(t)
    /\ \E q \in {tab[t].rowsQid, "empty"} : Selects(t, r, "check", q)
    /\ UNCHANGED <<cache, holder, session, memory, tab>>

\* The checkbox of all rows is in the head of the list, like the pager.
CheckAll(t, r) ==
    /\ CanSend(t)
    /\ Admitted(t)
    /\ Selects(t, r, "checkAll", tab[t].pagerQid)
    /\ UNCHANGED <<cache, holder, session, memory, tab>>

\* A bulk action is confirmed.  Its permission (Cancel, Approve or Reject) is one
\* that only the screen's own role has; the dialog has the toolbar's query id.
Bulk(t, r) ==
    /\ CanSend(t)
    /\ Admitted(t)
    /\ req' = [req EXCEPT ![t] = [Sent(r, "bulk", tab[t].toolbarQid) EXCEPT !.pc = "act"]]
    /\ UNCHANGED <<cache, holder, session, memory, tab>>

-----------------------------------------------------------------------------
\* The handlers, from await to await.

\* The decisions are submitted (DecisionDoors), then _clear_selection reads the
\* blob; or they are refused, and only the dialog is rendered again.
Acted(t) ==
    /\ req[t].pc = "act"
    /\ \/ req' = [req EXCEPT ![t] = [@ EXCEPT !.pc = "save", !.copy = memory[req[t].session]]]
       \/ req' = [req EXCEPT ![t] = Idle]
    /\ UNCHANGED <<cache, holder, session, memory, tab>>

\* ... and then writes it back, pagination included, or cannot (RedisError).
SaveMemory(t) ==
    LET a == [req[t] EXCEPT !.copy = NoEntry]
    IN  /\ req[t].pc = "save"
        /\ \/ memory' = [memory EXCEPT ![req[t].session] = req[t].copy]
           \/ UNCHANGED memory
        /\ \/ /\ req[t].kind = "load" \/ req[t].qid = "empty"
              /\ req' = [req EXCEPT ![t] = [a EXCEPT !.pc = "count", !.qid = "none"]]
           \/ /\ req[t].kind # "load" /\ req[t].qid # "empty"
              /\ Resolve(t, a)
        /\ UNCHANGED <<cache, holder, session, tab>>

\* _pagination_fallback: the blob has a usable pagination, or not.
Usable(s, e) == e # NoEntry /\ Trusted(s, e)

\* Mutant: a pagination found in the blob is remembered again, its age reset.
FallbackRemembered(t) ==
    LET e == memory[req[t].session]
    IN  /\ req[t].pc = "fallback"
        /\ \/ /\ Usable(req[t].session, e)
              /\ req' = [req EXCEPT ![t] = [Answered(@, e) EXCEPT !.pc = "remember"]]
           \/ /\ ~Usable(req[t].session, e)
              /\ Step(t, "count")
        /\ UNCHANGED <<cache, holder, session, memory, tab>>

Fallback(t) ==
    LET e == memory[req[t].session]
    IN  /\ req[t].pc = "fallback"
        /\ \/ /\ Usable(req[t].session, e)
              /\ req' = [req EXCEPT ![t] = Answered(@, e)]
           \/ /\ ~Usable(req[t].session, e)
              /\ Step(t, "count")
        /\ UNCHANGED <<cache, holder, session, memory, tab>>

\* Redis is unreachable: RedisError.
FallbackFails(t) ==
    /\ req[t].pc = "fallback"
    /\ Step(t, "count")
    /\ UNCHANGED <<cache, holder, session, memory, tab>>

\* list_reviews_page with the user's own filter: _cache_put stores the count
\* under a new id as soon as it is counted.
Recount(t, q) ==
    LET f == OwnFilter(holder[req[t].session])
        e == [qid |-> q, filter |-> f, age |-> 0, counted |-> 0]
    IN  /\ req[t].pc = "count"
        /\ Fresh(q)
        /\ cache' = [cache EXCEPT ![req[t].replica] = [@ EXCEPT ![q] = e]]
        /\ req' = [req EXCEPT ![t] = IF @.kind = "load" THEN Answered(@, e)
                                     ELSE [Answered(@, e) EXCEPT !.pc = "remember"]]
        /\ UNCHANGED <<holder, session, memory, tab>>

\* _remember_pagination, with or without success; only a new query gets here.
Remember(t) ==
    /\ req[t].pc = "remember"
    /\ \/ memory' = [memory EXCEPT ![req[t].session] = [req[t].found EXCEPT !.age = 0]]
       \/ UNCHANGED memory
    /\ Step(t, "render")
    /\ UNCHANGED <<cache, holder, session, tab>>

\* The page's rows are fetched and the response is swapped into the tab: all
\* fragments, the rows, the toolbar (a row's checkbox), or rows and toolbar.
Render(t) ==
    LET q == Held(cache, req[t].found.qid)
    IN  /\ req[t].pc = "render"
        /\ req' = [req EXCEPT ![t] = Idle]
        /\ \/ /\ req[t].kind \in {"load", "turn", "bulk"}
              /\ tab' = [tab EXCEPT ![t] = [screen |-> Role(holder[req[t].session]),
                                            rowsQid |-> q, pagerQid |-> q, toolbarQid |-> q]]
           \/ /\ req[t].kind = "poll"
              /\ tab' = [tab EXCEPT ![t] = [@ EXCEPT !.rowsQid = q]]
           \/ /\ req[t].kind = "check"
              /\ tab' = [tab EXCEPT ![t] = [@ EXCEPT !.toolbarQid = q]]
           \/ /\ req[t].kind = "checkAll"
              /\ tab' = [tab EXCEPT ![t] = [@ EXCEPT !.rowsQid = q, !.toolbarQid = q]]
        /\ UNCHANGED <<cache, holder, session, memory>>

-----------------------------------------------------------------------------
\* The rest of the world.

Older(e) ==
    IF e = NoEntry THEN e
    ELSE [e EXCEPT !.age = IF @ < TTL THEN @ + 1 ELSE @,
                   !.counted = IF @ <= MaxAge THEN @ + 1 ELSE @]

Aged(e) == IF Expired(Older(e)) THEN NoEntry ELSE Older(e)

\* Time passes, and no request takes longer than Latency.  What has expired is
\* dropped, as good as what _cache_get and is_stale make of it when asked.
Tick ==
    /\ \A t \in Tabs : req[t].pc # "idle" => req[t].took < Latency
    /\ cache' = [r \in Replicas |-> [q \in QueryIds |-> Aged(cache[r][q])]]
    /\ memory' = [s \in Sessions |-> Aged(memory[s])]
    /\ req' = [t \in Tabs |->
                    IF req[t].pc = "idle" THEN req[t]
                    ELSE [req[t] EXCEPT !.took = @ + 1, !.found = Older(@), !.copy = Aged(@)]]
    /\ tab' = Forget(cache')
    /\ UNCHANGED <<holder, session>>

\* A replica restarts between two requests: _query_cache is in-process only.
Restart(r) ==
    /\ \A t \in Tabs : req[t].pc # "idle" => req[t].replica # r
    /\ cache' = [cache EXCEPT ![r] = [q \in QueryIds |-> NoEntry]]
    /\ tab' = Forget(cache')
    /\ UNCHANGED <<holder, session, memory, req>>

Handler(t) ==
    \/ Acted(t) \/ SaveMemory(t) \/ Fallback(t) \/ FallbackFails(t) \/ Remember(t) \/ Render(t)
    \/ \E q \in QueryIds : Recount(t, q)

Next ==
    \/ \E t \in Tabs, r \in Replicas :
            \/ LoadPage(t, r) \/ Create(t, r) \/ Poll(t, r) \/ Turn(t, r)
            \/ Check(t, r) \/ CheckAll(t, r) \/ Bulk(t, r)
    \/ \E t \in Tabs : Handler(t)
    \/ \E u \in Users : Login(u)
    \/ \E r \in Replicas : Restart(r)
    \/ Tick

Spec == Init /\ [][Next]_vars

-----------------------------------------------------------------------------
\* Properties.

Rendering(t) == req[t].pc = "render"

User(t) == holder[req[t].session]

\* Operators see only their own requests and managers see all of them, whatever
\* query id a tab still holds from an earlier login, whichever replica answers.
OwnListOnly == \A t \in Tabs : Rendering(t) => req[t].found.filter = OwnFilter(User(t))

\* A total is never shown later than its TTL after it was counted, but for the
\* time the request that counted it and the one that shows it took: the two
\* tiers never extend each other.
TotalAgeBounded ==
    \A t \in Tabs : Rendering(t) => req[t].found.counted <= MaxAge
=============================================================================

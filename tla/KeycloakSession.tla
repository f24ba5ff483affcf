-------------------------- MODULE KeycloakSession --------------------------
(***************************************************************************)
(* The login sessions of one browser (bff/keycloak_session.py over         *)
(* bff/session_store.py and workflow/keycloak_auth.py).  The cookie holds  *)
(* a session id; the tokens behind it are a blob in Redis, ui-session:<id>,*)
(* with a sliding expiry.  Every request reads the blob, and the one that  *)
(* finds the access token expired exchanges the refresh token at Keycloak  *)
(* and writes the blob back: requests of several tabs, a logout and a new  *)
(* login meet there, and none of them locks anything.  Times are ticks.    *)
(***************************************************************************)
EXTENDS Integers

CONSTANTS
    Slots,        \* requests the browser may have in flight at a time
    AccessLife,   \* accessTokenLifespan of the realm, in ticks
    RefreshLife,  \* ssoSessionIdleTimeout of the realm: how long a refresh token is good
    TTL,          \* SESSION_TTL_SECONDS
    Latency,      \* the longest a request is assumed to take
    MaxSessions,  \* bound on the logins of this browser
    Faults        \* the troubles of the environment a run has

ASSUME LivesAssumption ==
    /\ AccessLife \in Nat /\ RefreshLife \in Nat /\ TTL \in Nat /\ Latency \in Nat
    /\ MaxSessions \in Nat \ {0}
    /\ Latency < AccessLife
    /\ AccessLife + 2 * Latency < RefreshLife
    /\ RefreshLife <= TTL

ASSUME FaultsAssumption ==
    Faults \subseteq {"redis_error", "eviction", "bad_gateway", "unreachable"}

VARIABLES
    cookie,    \* the session id in the browser's cookie, 0 when there is none
    logins,    \* the sessions there have been
    store,     \* the tokens in each session's ui-session blob
    idle,      \* ticks since the expiry of each blob was last pushed back
    honoured,  \* Keycloak still honours the tokens issued to each session
    req,       \* the requests in flight
    since,     \* history: ticks since Keycloak ended each session
    gap,       \* history: ticks since each session was last used
    steady,    \* history: each session's gaps were all short since its login, and neither
               \* Redis nor a proxy of Keycloak lost it
    left       \* history: how each session was logged out

vars == <<cookie, logins, store, idle, honoured, req, since, gap, steady, left>>
-----------------------------------------------------------------------------
Sessions == 1..MaxSessions

\* The longest gap after which a session is sure to be still there: not
\* RefreshLife, since a request that finds the access token good does not renew
\* the refresh token, and requests that refresh take time.
MaxGap == RefreshLife - AccessLife - 2 * Latency

\* The longest a screen is served to a session that Keycloak has ended.
MaxLinger == AccessLife - 1 + 2 * Latency

\* A pair of tokens: the ticks since Keycloak issued them, and since the moment
\* from which access_expires_at counts, which is when the answer was read.
Tokens == [issued : 0..RefreshLife, recorded : 0..AccessLife]

NoTokens == [issued |-> -1, recorded |-> -1]

\* Mutant: refresh_expires_at is looked at instead of access_expires_at.
ExpiredAsRefreshToken(k) == k.issued >= RefreshLife

\* access_expires_at is past.
Expired(k) == k.recorded >= AccessLife

Request == [kind    : {"page", "action", "login_page", "callback", "logout"},
            pc      : {"idle", "get", "touch", "refresh", "refreshed", "set", "rejected",
                       "check", "serve", "exchange", "exchanged", "delete", "respond"},
            session : 0..MaxSessions,
            tokens  : Tokens,         \* the user dict of the handler
            then    : {"keep", "drop", "put"},  \* what the response does to the cookie
            took    : 0..Latency]

TypeOK ==
    /\ cookie \in 0..logins
    /\ logins \in 0..MaxSessions
    /\ store \in [Sessions -> Tokens \cup {NoTokens}]
    /\ idle \in [Sessions -> 0..TTL]
    /\ honoured \in [Sessions -> BOOLEAN]
    /\ req \in [Slots -> Request]
    /\ since \in [Sessions -> 0..(MaxLinger + 1)]
    /\ gap \in [Sessions -> 0..(MaxGap + 1)]
    /\ steady \in [Sessions -> BOOLEAN]
    /\ left \in [Sessions -> {"no", "clean", "unclean"}]

NewTokens == [issued |-> 0, recorded |-> 0]

Idle == [kind |-> "page", pc |-> "idle", session |-> 0, tokens |-> NewTokens,
         then |-> "keep", took |-> 0]

Init ==
    /\ cookie = 0
    /\ logins = 0
    /\ store = [s \in Sessions |-> NoTokens]
    /\ idle = [s \in Sessions |-> 0]
    /\ honoured = [s \in Sessions |-> TRUE]
    /\ req = [t \in Slots |-> Idle]
    /\ since = [s \in Sessions |-> 0]
    /\ gap = [s \in Sessions |-> 0]
    /\ steady = [s \in Sessions |-> FALSE]
    /\ left = [s \in Sessions |-> "no"]

Step(t, pc) == req' = [req EXCEPT ![t] = [@ EXCEPT !.pc = pc]]

\* The request is over but for its response: a redirect or an error page.
Answer(t, then) == req' = [req EXCEPT ![t] = [@ EXCEPT !.pc = "respond", !.then = then]]

\* Session s was used: it is as good as its latest tokens.
Used(s) == gap' = [gap EXCEPT ![s] = 0]

-----------------------------------------------------------------------------
\* The browser.

\* A request with a cookie reaches its handler: a page or a list, whose route
\* only asks for a role, or an action, whose route asks for a permission.
Send(t, k) ==
    /\ req[t].pc = "idle"
    /\ cookie # 0
    /\ req' = [req EXCEPT ![t] = [Idle EXCEPT !.kind = k, !.pc = "get", !.session = cookie]]
    /\ UNCHANGED <<cookie, logins, store, idle, honoured, since, gap, steady, left>>

\* GET /ui/login: build_authorize_url writes oauth_state into the cookie's
\* session, so the response sends the whole cookie again, the id it came with
\* included.
LoginPage(t) ==
    /\ req[t].pc = "idle"
    /\ req' = [req EXCEPT ![t] = [Idle EXCEPT !.kind = "login_page", !.pc = "respond",
                                              !.session = cookie, !.then = "put"]]
    /\ UNCHANGED <<cookie, logins, store, idle, honoured, since, gap, steady, left>>

\* GET /ui/callback with the state this browser was given, up to the exchange of
\* the code; with another state nothing happens but an error page.
Callback(t) ==
    /\ req[t].pc = "idle"
    /\ req' = [req EXCEPT ![t] = [Idle EXCEPT !.kind = "callback", !.pc = "exchange",
                                              !.session = cookie]]
    /\ UNCHANGED <<cookie, logins, store, idle, honoured, since, gap, steady, left>>

\* POST /ui/logout.
Logout(t) ==
    /\ req[t].pc = "idle"
    /\ cookie # 0
    /\ req' = [req EXCEPT ![t] = [Idle EXCEPT !.kind = "logout", !.pc = "delete",
                                              !.session = cookie]]
    /\ UNCHANGED <<cookie, logins, store, idle, honoured, since, gap, steady, left>>

\* The response arrives.  A handler that did not touch request.session may have
\* the cookie sent again as it came: that depends on the version of Starlette,
\* which pyproject.toml leaves open.
Respond(t) ==
    /\ req[t].pc \in {"serve", "respond"}
    /\ \/ req[t].then = "keep" /\ UNCHANGED cookie
       \/ req[t].then # "drop" /\ cookie' = req[t].session
       \/ req[t].then = "drop" /\ cookie' = 0
    /\ req' = [req EXCEPT ![t] = Idle]
    /\ UNCHANGED <<logins, store, idle, honoured, since, gap, steady, left>>

-----------------------------------------------------------------------------
\* complete_login and logout, from await to await.

\* Keycloak exchanges the code for tokens and a session id is minted ...
Exchange(t) ==
    /\ req[t].pc = "exchange"
    /\ logins < MaxSessions
    /\ logins' = logins + 1
    /\ req' = [req EXCEPT ![t] = [@ EXCEPT !.pc = "exchanged", !.session = logins + 1,
                                           !.tokens = NewTokens]]
    /\ UNCHANGED <<cookie, store, idle, honoured, since, gap, steady, left>>

\* ... or refuses, or the account has no role: ValueError.
ExchangeFails(t) ==
    /\ req[t].pc = "exchange"
    /\ Answer(t, "keep")
    /\ UNCHANGED <<cookie, logins, store, idle, honoured, since, gap, steady, left>>

\* The session is stored under its new id, and its lives count from now; only
\* then does the response set the cookie.  A RedisError is a plain 500.
StoreLogin(t) ==
    LET s == req[t].session
    IN  /\ req[t].pc = "exchanged"
        /\ \/ /\ store' = [store EXCEPT ![s] = [req[t].tokens EXCEPT !.recorded = 0]]
              /\ idle' = [idle EXCEPT ![s] = 0]
              /\ Used(s)
              /\ steady' = [steady EXCEPT ![s] = TRUE]
              /\ Answer(t, "put")
           \/ /\ "redis_error" \in Faults
              /\ req' = [req EXCEPT ![t] = Idle]
              /\ UNCHANGED <<store, idle, gap, steady>>
        /\ UNCHANGED <<cookie, logins, honoured, since, left>>

\* A request that has read the blob and may still write it back.
Holding(t, s) ==
    req[t].session = s /\ req[t].pc \in {"touch", "refresh", "refreshed", "set"}

\* Mutant: logout leaves the blob to its expiry; the cookie is gone anyway.
DeleteOnLogoutForgotten(t) ==
    LET s == req[t].session
    IN  /\ req[t].pc = "delete"
        /\ left' = [left EXCEPT ![s] = IF \E u \in Slots : Holding(u, s) THEN "unclean"
                                       ELSE "clean"]
        /\ Answer(t, "drop")
        /\ UNCHANGED <<cookie, logins, store, idle, honoured, since, gap, steady>>

\* logout deletes the blob, or cannot, and clears the cookie either way.  (The
\* deletion of the ui-memory blob is part of SessionMemory.)
DeleteOnLogout(t) ==
    LET s == req[t].session
    IN  /\ req[t].pc = "delete"
        /\ \/ /\ store' = [store EXCEPT ![s] = NoTokens]
              /\ left' = [left EXCEPT ![s] = IF \E u \in Slots : Holding(u, s) THEN "unclean"
                                             ELSE "clean"]
           \/ /\ "redis_error" \in Faults
              /\ left' = [left EXCEPT ![s] = IF @ = "clean" THEN @ ELSE "unclean"]
              /\ UNCHANGED store
        /\ Answer(t, "drop")
        /\ UNCHANGED <<cookie, logins, idle, honoured, since, gap, steady>>

-----------------------------------------------------------------------------
\* get_session_user, from await to await.

\* session_store.get reads the blob: RequireLoginRedirect if there is none ...
Get(t) ==
    LET s == req[t].session
    IN  /\ req[t].pc = "get"
        /\ \/ /\ store[s] # NoTokens
              /\ req' = [req EXCEPT ![t] = [@ EXCEPT !.pc = "touch", !.tokens = store[s]]]
           \/ /\ store[s] = NoTokens
              /\ Answer(t, "keep")
        /\ UNCHANGED <<cookie, logins, store, idle, honoured, since, gap, steady, left>>

\* Where a request goes that has a good access token.
Admitted(k) == IF k = "action" THEN "check" ELSE "serve"

\* ... and pushes its expiry back, if it is still there; then the access token
\* is looked at.
Touch(t) ==
    LET s == req[t].session
    IN  /\ req[t].pc = "touch"
        /\ idle' = [idle EXCEPT ![s] = 0]
        /\ \/ Expired(req[t].tokens) /\ Step(t, "refresh") /\ UNCHANGED gap
           \/ ~Expired(req[t].tokens) /\ Step(t, Admitted(req[t].kind)) /\ Used(s)
        /\ UNCHANGED <<cookie, logins, store, honoured, since, steady, left>>

\* RedisError in either of the two: RequireLoginRedirect, the cookie is kept.
GetFails(t) ==
    /\ "redis_error" \in Faults
    /\ req[t].pc \in {"get", "touch"}
    /\ Answer(t, "keep")
    /\ UNCHANGED <<cookie, logins, store, idle, honoured, since, gap, steady, left>>

\* What Keycloak accepts: a refresh token is not single-use
\* (revokeRefreshToken = false), its life counts from its own issue.
Accepted(s, k) == honoured[s] /\ k.issued < RefreshLife

\* refresh_access_token: Keycloak issues a new pair ...
Refresh(t) ==
    /\ req[t].pc = "refresh"
    /\ Accepted(req[t].session, req[t].tokens)
    /\ req' = [req EXCEPT ![t] = [@ EXCEPT !.pc = "refreshed",
                                           !.tokens = [req[t].tokens EXCEPT !.issued = 0]]]
    /\ UNCHANGED <<cookie, logins, store, idle, honoured, since, gap, steady, left>>

\* Mutant: an answer that is not 200 leaves the old access token in use.
RejectServed(t) ==
    /\ req[t].pc = "refresh"
    /\ ~Accepted(req[t].session, req[t].tokens)
    /\ Step(t, Admitted(req[t].kind))
    /\ UNCHANGED <<cookie, logins, store, idle, honoured, since, gap, steady, left>>

\* ... or rejects the refresh token: RefreshFailed ...
Reject(t) ==
    /\ req[t].pc = "refresh"
    /\ ~Accepted(req[t].session, req[t].tokens)
    /\ Step(t, "rejected")
    /\ UNCHANGED <<cookie, logins, store, idle, honoured, since, gap, steady, left>>

\* ... which is also what any other answer than 200 is, be it a 502 or a 503 ...
BadGateway(t) ==
    /\ "bad_gateway" \in Faults
    /\ req[t].pc = "refresh"
    /\ steady' = [steady EXCEPT ![req[t].session] = FALSE]
    /\ Step(t, "rejected")
    /\ UNCHANGED <<cookie, logins, store, idle, honoured, since, gap, left>>

\* ... while no answer at all is an httpx exception: 500, the session is kept.
Unreachable(t) ==
    /\ "unreachable" \in Faults
    /\ req[t].pc = "refresh"
    /\ req' = [req EXCEPT ![t] = Idle]
    /\ UNCHANGED <<cookie, logins, store, idle, honoured, since, gap, steady, left>>

\* Mutant: the answer has no expires_in, and no lifetime is assumed.
ResumeWithoutExpiry(t) ==
    /\ req[t].pc = "refreshed"
    /\ req' = [req EXCEPT ![t] = [@ EXCEPT !.pc = "set",
                                           !.tokens = [req[t].tokens EXCEPT !.recorded = -1]]]
    /\ UNCHANGED <<cookie, logins, store, idle, honoured, since, gap, steady, left>>

\* The answer is read: user is updated with all of it, access_expires_at counts
\* from now.
Resume(t) ==
    /\ req[t].pc = "refreshed"
    /\ req' = [req EXCEPT ![t] = [@ EXCEPT !.pc = "set",
                                           !.tokens = [req[t].tokens EXCEPT !.recorded = 0]]]
    /\ UNCHANGED <<cookie, logins, store, idle, honoured, since, gap, steady, left>>

\* session_store.set: a plain write, whatever is or is not there by now.
Set(t) ==
    LET s == req[t].session
    IN  /\ req[t].pc = "set"
        /\ store' = [store EXCEPT ![s] = req[t].tokens]
        /\ idle' = [idle EXCEPT ![s] = 0]
        /\ Used(s)
        /\ Step(t, Admitted(req[t].kind))
        /\ UNCHANGED <<cookie, logins, honoured, since, steady, left>>

\* A RedisError is swallowed: the request goes on with tokens that only it has.
SetFails(t) ==
    /\ "redis_error" \in Faults
    /\ req[t].pc = "set"
    /\ Step(t, Admitted(req[t].kind))
    /\ UNCHANGED <<cookie, logins, store, idle, honoured, since, gap, steady, left>>

\* RefreshFailed: whatever the blob holds by now is deleted, and the response
\* clears the cookie, whichever session it holds by then.
Discard(t) ==
    /\ req[t].pc = "rejected"
    /\ \/ store' = [store EXCEPT ![req[t].session] = NoTokens]
       \/ "redis_error" \in Faults /\ UNCHANGED store
    /\ Answer(t, "drop")
    /\ UNCHANGED <<cookie, logins, idle, honoured, since, gap, steady, left>>

\* check_permission at Keycloak, for an action: a valid access token gets the
\* permission, or a 403; without one it is TokenInvalid, a redirect to the login
\* page; and whatever else goes wrong is a 503.
Check(t) ==
    LET s == req[t].session
    IN  /\ req[t].pc = "check"
        /\ \/ honoured[s] /\ req[t].tokens.issued < AccessLife /\ Step(t, "serve")
           \/ Answer(t, "keep")
        /\ UNCHANGED <<cookie, logins, store, idle, honoured, since, gap, steady, left>>

-----------------------------------------------------------------------------
\* The rest of the world.

\* Keycloak ends the session behind a login: the logout it is redirected to, an
\* administrator, or ssoSessionMaxLifespan.
KeycloakEnds(s) ==
    /\ s <= logins
    /\ honoured[s]
    /\ honoured' = [honoured EXCEPT ![s] = FALSE]
    /\ UNCHANGED <<cookie, logins, store, idle, req, since, gap, steady, left>>

\* Redis loses a blob before its time.
Evict(s) ==
    /\ "eviction" \in Faults
    /\ store[s] # NoTokens
    /\ store' = [store EXCEPT ![s] = NoTokens]
    /\ steady' = [steady EXCEPT ![s] = FALSE]
    /\ UNCHANGED <<cookie, logins, idle, honoured, req, since, gap, left>>

Up(n, cap) == IF n < cap THEN n + 1 ELSE n

Older(k) == [issued |-> Up(k.issued, RefreshLife), recorded |-> Up(k.recorded, AccessLife)]

Present(s) == store[s] # NoTokens

\* Time passes, and no request takes longer than Latency.  A blob that nobody
\* asked for during TTL expires.
Tick ==
    /\ \A t \in Slots : req[t].pc # "idle" => req[t].took < Latency
    /\ store' = [s \in Sessions |-> IF Present(s) /\ idle[s] + 1 < TTL THEN Older(store[s])
                                    ELSE NoTokens]
    /\ idle' = [s \in Sessions |-> IF Present(s) THEN Up(idle[s], TTL) ELSE 0]
    /\ req' = [t \in Slots |-> IF req[t].pc = "idle" THEN req[t]
                               ELSE [req[t] EXCEPT !.took = @ + 1, !.tokens = Older(req[t].tokens)]]
    /\ since' = [s \in Sessions |-> IF honoured[s] THEN 0 ELSE Up(since[s], MaxLinger + 1)]
    /\ gap' = [s \in Sessions |-> IF Present(s) THEN Up(gap[s], MaxGap + 1) ELSE gap[s]]
    /\ steady' = [s \in Sessions |-> steady[s] /\ gap'[s] <= MaxGap]
    /\ UNCHANGED <<cookie, logins, honoured, left>>

Handler(t) ==
    \/ Exchange(t) \/ ExchangeFails(t) \/ StoreLogin(t) \/ DeleteOnLogout(t)
    \/ Get(t) \/ Touch(t) \/ GetFails(t)
    \/ Refresh(t) \/ Reject(t) \/ BadGateway(t) \/ Unreachable(t)
    \/ Resume(t) \/ Set(t) \/ SetFails(t) \/ Discard(t) \/ Check(t) \/ Respond(t)

Browser(t) ==
    \/ LoginPage(t) \/ Callback(t) \/ Logout(t)
    \/ \E k \in {"page", "action"} : Send(t, k)

Next ==
    \/ \E t \in Slots : Browser(t) \/ Handler(t)
    \/ \E s \in Sessions : KeycloakEnds(s) \/ Evict(s)
    \/ Tick

Spec == Init /\ [][Next]_vars
-----------------------------------------------------------------------------
\* Properties.

\* A session that nobody logged out, that Keycloak has not ended and that is
\* used at least every MaxGap ticks is there, and its next refresh succeeds:
\* however its tabs' refreshes overlap, whichever of them writes last.
UsedSessionIsKept ==
    \A s \in Sessions :
        steady[s] /\ honoured[s] /\ left[s] = "no"
        => Present(s) /\ Accepted(s, store[s])

\* A logout is the end of its session, even for a browser that gets the old
\* cookie back, unless a request of that session stood, at the time, between reading
\* its tokens and finding them fresh or storing new ones, or Redis failed.
LogoutIsFinal ==
    \A s \in Sessions :
        left[s] = "clean" => ~Present(s) /\ \A t \in Slots : ~Holding(t, s)

\* What Keycloak has ended is soon refused: actions at once, but for the time
\* the request itself takes, screens when the access token they were last given
\* has expired.
EndedSessionIsRefused ==
    \A t \in Slots :
        (req[t].pc = "serve" /\ ~honoured[req[t].session])
        => since[req[t].session] <= IF req[t].kind = "action" THEN Latency ELSE MaxLinger

\* keycloak_session.py:248: what RefreshFailed clears is "a dead entry".
DiscardedEntryIsDead ==
    [][\A t \in Slots :
          (req[t].pc = "rejected" /\ req'[t].pc = "respond")
          => LET s == req[t].session
             IN  Present(s) /\ store'[s] = NoTokens => ~Accepted(s, store[s])]_vars
=============================================================================

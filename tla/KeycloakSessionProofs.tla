----------------------- MODULE KeycloakSessionProofs -----------------------
(***************************************************************************)
(* Proofs about KeycloakSession, for any number of requests in flight and  *)
(* of logins, any lives of the tokens and of the blob, and any faults.     *)
(***************************************************************************)
EXTENDS KeycloakSession, TLAPS

\* The oldest that tokens are when a request finds their access token good:
\* access_expires_at counts from the answer, the tokens' age from their issue.
UseAge == AccessLife - 1 + Latency

\* The requests that work for a session.
Working == {"get", "touch", "refresh", "refreshed", "set", "rejected", "check", "serve",
            "exchanged", "delete"}

\* The requests that have read the blob and hold a copy of its tokens, or newer ones.
Carrying == {"touch", "refresh", "refreshed", "set", "check", "serve", "exchanged"}

\* A request names a session that was minted.
Named(r) ==
    /\ r.session <= logins
    /\ r.pc \in Working => r.session # 0

SessionInv ==
    /\ \A t \in Slots : Named(req[t])
    /\ \A s \in Sessions :
          s > logins => ~Present(s) /\ ~steady[s] /\ honoured[s] /\ left[s] = "no"

\* A session that is being stored is known to the request that stores it only.
NewInv ==
    \A t \in Slots :
        req[t].pc = "exchanged" =>
            /\ cookie # req[t].session
            /\ ~Present(req[t].session)
            /\ ~steady[req[t].session]
            /\ left[req[t].session] = "no"
            /\ \A u \in Slots \ {t} : req[u].session # req[t].session

\* Nobody holds a copy of a blob that was deleted cleanly.
Closed(r) ==
    \A s \in Sessions :
        (left[s] = "clean" /\ r.session = s)
        => r.pc \notin {"touch", "refresh", "refreshed", "set"}

LeftInv ==
    /\ \A s \in Sessions : left[s] = "clean" => ~Present(s)
    /\ \A t \in Slots : Closed(req[t])

\* The recorded age of a good access token is off by Latency at most.
WellDated(k) == ~Expired(k) => k.issued <= k.recorded + Latency

\* How old the tokens in the hands of a request are.
Dated(r) ==
    /\ r.pc \in {"touch", "set"} => WellDated(r.tokens)
    /\ r.pc \in {"refreshed", "set", "exchanged"} => r.tokens.issued <= r.took
    /\ r.pc \in {"check", "serve"} => r.tokens.issued <= UseAge + r.took

AgeInv ==
    /\ \A s \in Sessions : Present(s) => WellDated(store[s])
    /\ \A t \in Slots : Dated(req[t])

\* A session that the property UsedSessionIsKept is about.
InUse(s) == steady[s] /\ honoured[s] /\ left[s] = "no"

\* The blob of a session in use is no older than its last use allows.
BlobInv ==
    \A s \in Sessions :
        InUse(s) =>
            /\ Present(s)
            /\ gap[s] <= MaxGap
            /\ idle[s] <= gap[s]
            /\ store[s].issued <= UseAge + gap[s]

\* A copy of such a blob is as good: what is stored meanwhile is newer, or was
\* issued while the request that holds the copy was waiting.
Copied(r) ==
    \A s \in Sessions :
        (r.session = s /\ InUse(s)) =>
            /\ r.pc # "rejected"
            /\ r.pc \in {"touch", "refresh"} => r.tokens.issued <= UseAge + MaxGap + r.took
            /\ r.pc = "touch" => \/ store[s].issued <= r.tokens.issued
                                \/ store[s].issued <= Latency + r.took

CopyInv == \A t \in Slots : Copied(req[t])

\* Tokens of a session that Keycloak has ended are older than its end; and it has
\* ended only since the permission of an action was checked.
Outlived(r) ==
    /\ r.pc \in Carrying => since[r.session] <= r.tokens.issued
    /\ (r.pc = "serve" /\ r.kind = "action") => since[r.session] <= r.took

EndInv ==
    /\ \A s \in Sessions : honoured[s] => since[s] = 0
    /\ \A s \in Sessions : Present(s) => since[s] <= store[s].issued
    /\ \A t \in Slots : Outlived(req[t])

IInv ==
    /\ TypeOK
    /\ SessionInv
    /\ NewInv
    /\ LeftInv
    /\ AgeInv
    /\ BlobInv
    /\ CopyInv
    /\ EndInv
-----------------------------------------------------------------------------
\* Arithmetic of the bounds.
LEMMA Lives ==
    /\ AccessLife \in Nat /\ RefreshLife \in Nat /\ TTL \in Nat
    /\ MaxSessions \in Nat /\ Latency \in Nat
    /\ UseAge \in Nat /\ MaxGap \in Nat /\ MaxLinger \in Nat
    /\ AccessLife > 0 /\ RefreshLife > 0 /\ TTL > 0
    /\ UseAge = AccessLife - 1 + Latency
    /\ UseAge + Latency = MaxLinger
    /\ 2 * Latency <= UseAge
    /\ MaxLinger + 1 <= RefreshLife
    /\ UseAge + MaxGap + Latency < RefreshLife
    /\ MaxGap < TTL
  BY LivesAssumption DEF UseAge, MaxGap, MaxLinger

\* What the types say of a request ...
LEMMA RequestTyped ==
    ASSUME TypeOK, NEW t \in Slots
    PROVE  /\ req[t] \in Request
           /\ req[t].session \in 0..MaxSessions
           /\ req[t].took \in 0..Latency
           /\ req[t].tokens \in Tokens
           /\ req[t].tokens.issued \in 0..RefreshLife
           /\ req[t].tokens.recorded \in 0..AccessLife
  BY DEF TypeOK, Request, Tokens

\* ... and of a session's blob.
LEMMA BlobTyped ==
    ASSUME TypeOK, NEW s \in Sessions, Present(s)
    PROVE  /\ store[s] \in Tokens
           /\ store[s].issued \in 0..RefreshLife
           /\ store[s].recorded \in 0..AccessLife
<1>1. store[s] \in Tokens
  BY DEF TypeOK, Present
<1>2. QED
  BY <1>1 DEF Tokens

\* A step of one request that changes nothing else keeps the invariant if that
\* request keeps its part of it.  (Losing the answer of Keycloak also ends what
\* is expected of the session: steady.)
LEMMA LocalStep ==
    ASSUME IInv, NEW t \in Slots,
           req' = [req EXCEPT ![t] = req'[t]],
           req'[t] \in Request,
           UNCHANGED <<cookie, logins, store, idle, honoured, since, gap, left>>,
           steady' \in [Sessions -> BOOLEAN],
           \A s \in Sessions : steady'[s] => steady[s],
           req'[t].pc # "exchanged",
           req'[t].session \in {req[t].session, cookie, 0},
           Named(req[t])', Closed(req[t])', Dated(req[t])', Copied(req[t])', Outlived(req[t])'
    PROVE  IInv'
<1>1. TypeOK'
  BY DEF IInv, TypeOK
<1>2. \A u \in Slots \ {t} : req'[u] = req[u]
  BY DEF IInv, TypeOK
<1>3. \A s \in Sessions : InUse(s)' => InUse(s)
  BY DEF InUse
<1>4. SessionInv'
  <2>1. \A u \in Slots \ {t} : Named(req[u])'
    BY <1>2 DEF IInv, SessionInv, Named
  <2>2. QED
    BY <2>1 DEF IInv, SessionInv, Present
<1>5. NewInv'
  <2>1. ASSUME NEW u \in Slots, u # t, req[u].pc = "exchanged"
        PROVE  req[u].session # req'[t].session
    BY <2>1 DEF IInv, NewInv, SessionInv, Named, Working
  <2>2. ASSUME NEW u \in Slots, u # t, req[u].pc = "exchanged"
        PROVE  req[u].session \in Sessions
    BY <2>2, RequestTyped DEF IInv, SessionInv, Named, Working, Sessions
  <2>3. QED
    BY <1>2, <2>1, <2>2 DEF IInv, NewInv, Present
<1>6. LeftInv'
  <2>1. \A u \in Slots \ {t} : Closed(req[u])'
    BY <1>2 DEF IInv, LeftInv, Closed
  <2>2. QED
    BY <2>1 DEF IInv, LeftInv, Present
<1>7. AgeInv'
  <2>1. \A u \in Slots \ {t} : Dated(req[u])'
    BY <1>2 DEF IInv, AgeInv, Dated, WellDated, Expired
  <2>2. QED
    BY <2>1 DEF IInv, AgeInv, Present, WellDated, Expired
<1>8. BlobInv'
  BY <1>3 DEF IInv, BlobInv, Present
<1>9. CopyInv'
  <2>1. \A u \in Slots \ {t} : Copied(req[u])'
    BY <1>2, <1>3 DEF IInv, CopyInv, Copied
  <2>2. QED
    BY <2>1 DEF CopyInv
<1>10. EndInv'
  <2>1. \A u \in Slots \ {t} : Outlived(req[u])'
    BY <1>2 DEF IInv, EndInv, Outlived
  <2>2. QED
    BY <2>1 DEF IInv, EndInv, Present
<1>11. QED
  BY <1>1, <1>4, <1>5, <1>6, <1>7, <1>8, <1>9, <1>10 DEF IInv

\* A request that is new, or over, carries nothing.
LEMMA LightStep ==
    ASSUME IInv, NEW t \in Slots,
           req' = [req EXCEPT ![t] = req'[t]],
           req'[t] \in Request,
           UNCHANGED <<cookie, logins, store, idle, honoured, since, gap, steady, left>>,
           req'[t].pc \in {"idle", "get", "delete", "exchange", "respond"},
           req'[t].session \in {req[t].session, cookie, 0},
           req'[t].pc \in {"get", "delete"} => req'[t].session = cookie /\ cookie # 0
    PROVE  IInv'
<1>1. Named(req[t])'
  <2>1. cookie <= logins /\ 0 <= logins /\ req[t].session <= logins
    BY DEF IInv, TypeOK, SessionInv, Named
  <2>2. QED
    BY <2>1 DEF Named, Working
<1>2. Closed(req[t])' /\ Dated(req[t])' /\ Copied(req[t])' /\ Outlived(req[t])'
  BY DEF Closed, Dated, Copied, Outlived, Carrying
<1>3. steady \in [Sessions -> BOOLEAN]
  BY DEF IInv, TypeOK
<1>4. QED
  BY <1>1, <1>2, <1>3, LocalStep

LEMMA IdleTyped == Idle \in Request
<1>1. NewTokens \in Tokens
  BY Lives DEF NewTokens, Tokens
<1>2. QED
  BY <1>1, Lives DEF Idle, Request

LEMMA AnswerTyped ==
    ASSUME TypeOK, NEW t \in Slots, NEW d \in {"keep", "drop", "put"}, Answer(t, d)
    PROVE  /\ req' = [req EXCEPT ![t] = req'[t]]
           /\ req'[t] \in Request
           /\ req'[t].pc = "respond"
           /\ req'[t].session = req[t].session
<1>1. req \in [Slots -> Request] /\ req[t] \in Request
  BY DEF TypeOK
<1>2. req'[t] = [req[t] EXCEPT !.pc = "respond", !.then = d]
  BY <1>1 DEF Answer
<1>3. req' = [req EXCEPT ![t] = req'[t]]
  BY <1>1, <1>2 DEF Answer
<1>4. QED
  BY <1>1, <1>2, <1>3 DEF Request

LEMMA SendKeeps ==
    ASSUME IInv, NEW t \in Slots, NEW k \in {"page", "action"}, Send(t, k)
    PROVE  IInv'
<1> DEFINE new == [Idle EXCEPT !.kind = k, !.pc = "get", !.session = cookie]
<1>1. cookie \in 0..MaxSessions /\ req \in [Slots -> Request]
  BY Lives DEF IInv, TypeOK
<1>2. req'[t] = new /\ req' = [req EXCEPT ![t] = new]
  BY <1>1 DEF Send
<1>3. new \in Request /\ new.pc = "get" /\ new.session = cookie
  BY <1>1, IdleTyped DEF Request
<1>4. UNCHANGED <<cookie, logins, store, idle, honoured, since, gap, steady, left>>
  BY DEF Send
<1> HIDE DEF new
<1>5. QED
  BY <1>2, <1>3, <1>4, LightStep DEF Send

LEMMA LoginPageKeeps ==
    ASSUME IInv, NEW t \in Slots, LoginPage(t)
    PROVE  IInv'
<1> DEFINE new == [Idle EXCEPT !.kind = "login_page", !.pc = "respond", !.session = cookie,
                               !.then = "put"]
<1>1. cookie \in 0..MaxSessions /\ req \in [Slots -> Request]
  BY Lives DEF IInv, TypeOK
<1>2. req'[t] = new /\ req' = [req EXCEPT ![t] = new]
  BY <1>1 DEF LoginPage
<1>3. new \in Request /\ new.pc = "respond" /\ new.session = cookie
  BY <1>1, IdleTyped DEF Request
<1>4. UNCHANGED <<cookie, logins, store, idle, honoured, since, gap, steady, left>>
  BY DEF LoginPage
<1> HIDE DEF new
<1>5. QED
  BY <1>2, <1>3, <1>4, LightStep

LEMMA CallbackKeeps ==
    ASSUME IInv, NEW t \in Slots, Callback(t)
    PROVE  IInv'
<1> DEFINE new == [Idle EXCEPT !.kind = "callback", !.pc = "exchange", !.session = cookie]
<1>1. cookie \in 0..MaxSessions /\ req \in [Slots -> Request]
  BY Lives DEF IInv, TypeOK
<1>2. req'[t] = new /\ req' = [req EXCEPT ![t] = new]
  BY <1>1 DEF Callback
<1>3. new \in Request /\ new.pc = "exchange" /\ new.session = cookie
  BY <1>1, IdleTyped DEF Request
<1>4. UNCHANGED <<cookie, logins, store, idle, honoured, since, gap, steady, left>>
  BY DEF Callback
<1> HIDE DEF new
<1>5. QED
  BY <1>2, <1>3, <1>4, LightStep

LEMMA LogoutKeeps ==
    ASSUME IInv, NEW t \in Slots, Logout(t)
    PROVE  IInv'
<1> DEFINE new == [Idle EXCEPT !.kind = "logout", !.pc = "delete", !.session = cookie]
<1>1. cookie \in 0..MaxSessions /\ req \in [Slots -> Request]
  BY Lives DEF IInv, TypeOK
<1>2. req'[t] = new /\ req' = [req EXCEPT ![t] = new]
  BY <1>1 DEF Logout
<1>3. new \in Request /\ new.pc = "delete" /\ new.session = cookie
  BY <1>1, IdleTyped DEF Request
<1>4. UNCHANGED <<cookie, logins, store, idle, honoured, since, gap, steady, left>>
  BY DEF Logout
<1> HIDE DEF new
<1>5. QED
  BY <1>2, <1>3, <1>4, LightStep DEF Logout

\* The requests that just end.
LEMMA EndKeeps ==
    ASSUME IInv, NEW t \in Slots, ExchangeFails(t) \/ GetFails(t) \/ Unreachable(t)
    PROVE  IInv'
<1>1. TypeOK /\ req \in [Slots -> Request]
  BY DEF IInv, TypeOK
<1>2. CASE ExchangeFails(t) \/ GetFails(t)
  <2>1. Answer(t, "keep")
    BY <1>2 DEF ExchangeFails, GetFails
  <2>2. UNCHANGED <<cookie, logins, store, idle, honoured, since, gap, steady, left>>
    BY <1>2 DEF ExchangeFails, GetFails
  <2>3. QED
    BY <1>1, <2>1, <2>2, AnswerTyped, LightStep
<1>3. CASE Unreachable(t)
  <2>1. req'[t] = Idle /\ req' = [req EXCEPT ![t] = Idle] /\ Idle.pc = "idle" /\ Idle.session = 0
    BY <1>1, <1>3 DEF Unreachable, Idle
  <2>2. QED
    BY <1>3, <2>1, IdleTyped, LightStep DEF Unreachable
<1>4. QED
  BY <1>2, <1>3

LEMMA StepTyped ==
    ASSUME TypeOK, NEW t \in Slots,
           NEW pc \in {"touch", "refresh", "refreshed", "set", "rejected", "check", "serve"},
           Step(t, pc)
    PROVE  /\ req' = [req EXCEPT ![t] = req'[t]]
           /\ req'[t] \in Request
           /\ req'[t].pc = pc
           /\ req'[t].kind = req[t].kind
           /\ req'[t].session = req[t].session
           /\ req'[t].tokens = req[t].tokens
           /\ req'[t].took = req[t].took
<1>1. req \in [Slots -> Request] /\ req[t] \in Request
  BY DEF TypeOK
<1>2. req'[t] = [req[t] EXCEPT !.pc = pc]
  BY <1>1 DEF Step
<1>3. req' = [req EXCEPT ![t] = req'[t]]
  BY <1>1, <1>2 DEF Step
<1>4. QED
  BY <1>1, <1>2, <1>3 DEF Request

LEMMA TokensTyped ==
    ASSUME TypeOK, NEW t \in Slots, NEW k \in Tokens,
           NEW pc \in {"touch", "refreshed", "set"},
           req' = [req EXCEPT ![t] = [@ EXCEPT !.pc = pc, !.tokens = k]]
    PROVE  /\ req' = [req EXCEPT ![t] = req'[t]]
           /\ req'[t] \in Request
           /\ req'[t].pc = pc
           /\ req'[t].kind = req[t].kind
           /\ req'[t].session = req[t].session
           /\ req'[t].tokens = k
           /\ req'[t].took = req[t].took
<1>1. req \in [Slots -> Request] /\ req[t] \in Request
  BY DEF TypeOK
<1>2. req'[t] = [req[t] EXCEPT !.pc = pc, !.tokens = k]
  BY <1>1
<1>3. req' = [req EXCEPT ![t] = req'[t]]
  BY <1>1, <1>2
<1>4. QED
  BY <1>1, <1>2, <1>3 DEF Request

\* A request that works for a session has one.
LEMMA AtWork ==
    ASSUME IInv, NEW t \in Slots, req[t].pc \in Working
    PROVE  req[t].session \in Sessions /\ req[t].session \in 1..logins
<1>1. req[t].session \in 0..MaxSessions /\ req[t].session <= logins /\ req[t].session # 0
  BY RequestTyped DEF IInv, SessionInv, Named
<1>2. QED
  BY <1>1 DEF Sessions

LEMMA GetKeeps ==
    ASSUME IInv, NEW t \in Slots, Get(t)
    PROVE  IInv'
<1> DEFINE s == req[t].session
<1>1. /\ TypeOK /\ req[t].pc = "get" /\ steady \in [Sessions -> BOOLEAN]
      /\ UNCHANGED <<cookie, logins, store, idle, honoured, since, gap, steady, left>>
  BY DEF IInv, TypeOK, Get
<1>2. CASE store[s] = NoTokens
  <2>1. Answer(t, "keep")
    BY <1>2 DEF Get
  <2>2. QED
    BY <1>1, <2>1, AnswerTyped, LightStep
<1>3. CASE store[s] # NoTokens
  <2>1. s \in Sessions
    BY <1>1, AtWork DEF Working
  <2>2. store[s] \in Tokens /\ store[s].issued \in 0..RefreshLife /\ req[t].took \in 0..Latency
    BY <1>1, <1>3, <2>1, BlobTyped, RequestTyped DEF Present
  <2>3. req' = [req EXCEPT ![t] = [@ EXCEPT !.pc = "touch", !.tokens = store[s]]]
    BY <1>3 DEF Get
  <2>4. /\ req' = [req EXCEPT ![t] = req'[t]] /\ req'[t] \in Request
        /\ req'[t].pc = "touch" /\ req'[t].session = s /\ req'[t].tokens = store[s]
        /\ req'[t].took = req[t].took
    BY <1>1, <2>2, <2>3, TokensTyped
  <2>5. Named(req[t])'
    BY <1>1, <2>1, <2>4, AtWork DEF Named, Working, Sessions
  <2>6. Closed(req[t])'
    BY <1>1, <1>3, <2>4 DEF IInv, LeftInv, Closed, Present
  <2>7. Dated(req[t])'
    BY <1>1, <1>3, <2>1, <2>4 DEF IInv, AgeInv, Dated, Present, WellDated, Expired
  <2>8. Copied(req[t])'
    <3>1. InUse(s) => store[s].issued <= UseAge + MaxGap + req[t].took
      <4>1. InUse(s) => gap[s] <= MaxGap /\ store[s].issued <= UseAge + gap[s]
        BY <2>1 DEF IInv, BlobInv
      <4>2. gap[s] \in Int
        BY <1>1, <2>1, Lives DEF TypeOK
      <4>3. QED
        BY <2>2, <4>1, <4>2, Lives
    <3>2. store[s].issued <= store[s].issued
      BY <2>2
    <3>3. QED
      BY <1>1, <2>4, <3>1, <3>2 DEF Copied, InUse
  <2>9. Outlived(req[t])'
    BY <1>1, <1>3, <2>1, <2>4 DEF IInv, EndInv, Outlived, Present
  <2>10. QED
    BY <1>1, <2>4, <2>5, <2>6, <2>7, <2>8, <2>9, LocalStep
<1>4. QED
  BY <1>2, <1>3

LEMMA RefreshKeeps ==
    ASSUME IInv, NEW t \in Slots, Refresh(t)
    PROVE  IInv'
<1> DEFINE s == req[t].session
           k == [req[t].tokens EXCEPT !.issued = 0]
<1>1. /\ TypeOK /\ req[t].pc = "refresh" /\ honoured[s] /\ steady \in [Sessions -> BOOLEAN]
      /\ UNCHANGED <<cookie, logins, store, idle, honoured, since, gap, steady, left>>
  BY DEF IInv, TypeOK, Refresh, Accepted
<1>2. s \in Sessions /\ req[t].took \in 0..Latency
  BY <1>1, AtWork, RequestTyped DEF Working
<1>3. k \in Tokens /\ k.issued = 0
  BY <1>1, RequestTyped, Lives DEF Tokens
<1>4. /\ req' = [req EXCEPT ![t] = req'[t]] /\ req'[t] \in Request
      /\ req'[t].pc = "refreshed" /\ req'[t].session = s /\ req'[t].tokens = k
      /\ req'[t].took = req[t].took
  <2>1. req' = [req EXCEPT ![t] = [@ EXCEPT !.pc = "refreshed", !.tokens = k]]
    BY <1>1 DEF Refresh, TypeOK
  <2> HIDE DEF k
  <2>2. QED
    BY <1>1, <1>3, <2>1, TokensTyped
<1> HIDE DEF k
<1>5. Named(req[t])'
  BY <1>1, <1>2, <1>4, AtWork DEF Named, Working, Sessions
<1>6. Closed(req[t])'
  BY <1>1, <1>4 DEF IInv, LeftInv, Closed
<1>7. Dated(req[t])'
  BY <1>2, <1>3, <1>4 DEF Dated
<1>8. Copied(req[t])'
  BY <1>4 DEF Copied
<1>9. Outlived(req[t])'
  BY <1>1, <1>2, <1>3, <1>4 DEF IInv, EndInv, Outlived
<1>10. QED
  BY <1>1, <1>4, <1>5, <1>6, <1>7, <1>8, <1>9, LocalStep

\* The refresh token of a session in use is never rejected.
LEMMA InUseAccepted ==
    ASSUME IInv, NEW t \in Slots, req[t].pc = "refresh",
           ~Accepted(req[t].session, req[t].tokens)
    PROVE  ~InUse(req[t].session)
<1>1. TypeOK /\ req[t].session \in Sessions
  BY AtWork DEF IInv, Working
<1>2. req[t].tokens.issued \in Nat /\ req[t].took \in Nat /\ req[t].took <= Latency
  BY <1>1, RequestTyped, Lives
<1>3. InUse(req[t].session) => req[t].tokens.issued <= UseAge + MaxGap + req[t].took
  BY <1>1 DEF IInv, CopyInv, Copied
<1>4. QED
  BY <1>2, <1>3, Lives DEF Accepted, InUse

LEMMA RejectKeeps ==
    ASSUME IInv, NEW t \in Slots, Reject(t)
    PROVE  IInv'
<1> DEFINE s == req[t].session
<1>1. /\ TypeOK /\ req[t].pc = "refresh" /\ steady \in [Sessions -> BOOLEAN]
      /\ Step(t, "rejected") /\ ~InUse(s)
      /\ UNCHANGED <<cookie, logins, store, idle, honoured, since, gap, steady, left>>
  BY InUseAccepted DEF IInv, TypeOK, Reject
<1>2. /\ req' = [req EXCEPT ![t] = req'[t]] /\ req'[t] \in Request
      /\ req'[t].pc = "rejected" /\ req'[t].session = s
  BY <1>1, StepTyped
<1>3. Named(req[t])'
  BY <1>1, <1>2, AtWork DEF Named, Working, Sessions
<1>4. Closed(req[t])' /\ Dated(req[t])' /\ Outlived(req[t])'
  BY <1>2 DEF Closed, Dated, Outlived, Carrying
<1>5. Copied(req[t])'
  BY <1>1, <1>2 DEF Copied, InUse
<1>6. QED
  BY <1>1, <1>2, <1>3, <1>4, <1>5, LocalStep

LEMMA BadGatewayKeeps ==
    ASSUME IInv, NEW t \in Slots, BadGateway(t)
    PROVE  IInv'
<1> DEFINE s == req[t].session
<1>1. /\ TypeOK /\ req[t].pc = "refresh" /\ steady \in [Sessions -> BOOLEAN]
      /\ Step(t, "rejected") /\ steady' = [steady EXCEPT ![s] = FALSE]
      /\ UNCHANGED <<cookie, logins, store, idle, honoured, since, gap, left>>
  BY DEF IInv, TypeOK, BadGateway
<1>2. /\ req' = [req EXCEPT ![t] = req'[t]] /\ req'[t] \in Request
      /\ req'[t].pc = "rejected" /\ req'[t].session = s
  BY <1>1, StepTyped
<1>3. Named(req[t])'
  BY <1>1, <1>2, AtWork DEF Named, Working, Sessions
<1>4. Closed(req[t])' /\ Dated(req[t])' /\ Outlived(req[t])'
  BY <1>2 DEF Closed, Dated, Outlived, Carrying
<1>5. /\ steady' \in [Sessions -> BOOLEAN] /\ \A r \in Sessions : steady'[r] => steady[r]
      /\ s \in Sessions => ~steady'[s]
  BY <1>1
<1>6. Copied(req[t])'
  BY <1>2, <1>5 DEF Copied, InUse
<1>7. QED
  BY <1>1, <1>2, <1>3, <1>4, <1>5, <1>6, LocalStep

LEMMA ResumeKeeps ==
    ASSUME IInv, NEW t \in Slots, Resume(t)
    PROVE  IInv'
<1> DEFINE s == req[t].session
           k == [req[t].tokens EXCEPT !.recorded = 0]
<1>1. /\ TypeOK /\ req[t].pc = "refreshed" /\ steady \in [Sessions -> BOOLEAN]
      /\ UNCHANGED <<cookie, logins, store, idle, honoured, since, gap, steady, left>>
  BY DEF IInv, TypeOK, Resume
<1>2. req[t].took \in 0..Latency
  BY <1>1, RequestTyped
<1>3. /\ k \in Tokens /\ k.recorded = 0 /\ k.issued = req[t].tokens.issued
      /\ k.issued \in 0..RefreshLife
  BY <1>1, RequestTyped, Lives DEF Tokens
<1>4. /\ req' = [req EXCEPT ![t] = req'[t]] /\ req'[t] \in Request
      /\ req'[t].pc = "set" /\ req'[t].session = s /\ req'[t].tokens = k
      /\ req'[t].took = req[t].took
  <2>1. req' = [req EXCEPT ![t] = [@ EXCEPT !.pc = "set", !.tokens = k]]
    BY <1>1 DEF Resume, TypeOK
  <2> HIDE DEF k
  <2>2. QED
    BY <1>1, <1>3, <2>1, TokensTyped
<1> HIDE DEF k
<1>5. Named(req[t])'
  BY <1>1, <1>4, AtWork DEF Named, Working, Sessions
<1>6. Closed(req[t])'
  BY <1>1, <1>4 DEF IInv, LeftInv, Closed
<1>7. Dated(req[t])'
  <2>1. k.issued <= req[t].took
    BY <1>1, <1>3 DEF IInv, AgeInv, Dated
  <2>2. k.issued <= k.recorded + Latency
    BY <1>2, <1>3, <2>1, Lives
  <2>3. QED
    BY <1>4, <2>1, <2>2 DEF Dated, WellDated
<1>8. Copied(req[t])'
  BY <1>4 DEF Copied
<1>9. Outlived(req[t])'
  BY <1>1, <1>3, <1>4 DEF IInv, EndInv, Outlived, Carrying
<1>10. QED
  BY <1>1, <1>4, <1>5, <1>6, <1>7, <1>8, <1>9, LocalStep

\* Going on with an access token that is good: to the permission or to the screen.
LEMMA AdmittedParts ==
    ASSUME IInv, NEW t \in Slots, req[t].pc \in Carrying,
           Step(t, Admitted(req[t].kind)),
           UNCHANGED <<cookie, logins, honoured, since, left>>,
           req[t].tokens.issued <= UseAge + req[t].took
    PROVE  /\ req' = [req EXCEPT ![t] = req'[t]] /\ req'[t] \in Request
           /\ req'[t].pc \in {"check", "serve"}
           /\ req'[t].session = req[t].session
           /\ Named(req[t])' /\ Closed(req[t])' /\ Dated(req[t])'
           /\ Copied(req[t])' /\ Outlived(req[t])'
<1>1. TypeOK /\ Admitted(req[t].kind) \in {"check", "serve"}
  BY DEF IInv, Admitted
<1>2. /\ req' = [req EXCEPT ![t] = req'[t]] /\ req'[t] \in Request
      /\ req'[t].pc = Admitted(req[t].kind) /\ req'[t].kind = req[t].kind
      /\ req'[t].session = req[t].session /\ req'[t].tokens = req[t].tokens
      /\ req'[t].took = req[t].took
  BY <1>1, StepTyped
<1>3. Named(req[t])'
  BY <1>1, <1>2, AtWork DEF Named, Working, Carrying, Sessions
<1>4. Closed(req[t])' /\ Copied(req[t])'
  BY <1>1, <1>2 DEF Closed, Copied
<1>5. Dated(req[t])'
  BY <1>1, <1>2 DEF Dated
<1>6. Outlived(req[t])'
  <2>1. since[req[t].session] <= req[t].tokens.issued
    BY DEF IInv, EndInv, Outlived
  <2>2. ~(req'[t].pc = "serve" /\ req'[t].kind = "action")
    BY <1>2 DEF Admitted
  <2>3. QED
    BY <1>2, <2>1, <2>2 DEF Outlived
<1>7. QED
  BY <1>1, <1>2, <1>3, <1>4, <1>5, <1>6

LEMMA SetFailsKeeps ==
    ASSUME IInv, NEW t \in Slots, SetFails(t)
    PROVE  IInv'
<1>1. /\ TypeOK /\ req[t].pc = "set" /\ steady \in [Sessions -> BOOLEAN]
      /\ Step(t, Admitted(req[t].kind))
      /\ UNCHANGED <<cookie, logins, store, idle, honoured, since, gap, steady, left>>
  BY DEF IInv, TypeOK, SetFails
<1>2. req[t].tokens.issued <= UseAge + req[t].took
  <2>1. req[t].tokens.issued <= req[t].took
    BY <1>1 DEF IInv, AgeInv, Dated
  <2>2. req[t].took \in Nat /\ req[t].tokens.issued \in Nat
    BY <1>1, RequestTyped, Lives
  <2>3. QED
    BY <2>1, <2>2, Lives
<1>3. /\ req' = [req EXCEPT ![t] = req'[t]] /\ req'[t] \in Request
      /\ req'[t].pc \in {"check", "serve"} /\ req'[t].session = req[t].session
      /\ Named(req[t])' /\ Closed(req[t])' /\ Dated(req[t])'
      /\ Copied(req[t])' /\ Outlived(req[t])'
  BY <1>1, <1>2, AdmittedParts DEF Carrying
<1>4. QED
  BY <1>1, <1>3, LocalStep

LEMMA CheckKeeps ==
    ASSUME IInv, NEW t \in Slots, Check(t)
    PROVE  IInv'
<1> DEFINE s == req[t].session
<1>1. /\ TypeOK /\ req[t].pc = "check" /\ steady \in [Sessions -> BOOLEAN]
      /\ UNCHANGED <<cookie, logins, store, idle, honoured, since, gap, steady, left>>
  BY DEF IInv, TypeOK, Check
<1>2. CASE Answer(t, "keep")
  BY <1>1, <1>2, AnswerTyped, LightStep
<1>3. CASE honoured[s] /\ Step(t, "serve")
  <2>1. /\ req' = [req EXCEPT ![t] = req'[t]] /\ req'[t] \in Request
        /\ req'[t].pc = "serve" /\ req'[t].session = s /\ req'[t].tokens = req[t].tokens
        /\ req'[t].took = req[t].took
    BY <1>1, <1>3, StepTyped
  <2>2. s \in Sessions /\ req[t].took \in 0..Latency
    BY <1>1, AtWork, RequestTyped DEF Working
  <2>3. Named(req[t])'
    BY <1>1, <2>1, AtWork DEF Named, Working, Sessions
  <2>4. Closed(req[t])' /\ Copied(req[t])'
    BY <2>1 DEF Closed, Copied
  <2>5. Dated(req[t])'
    BY <1>1, <2>1 DEF IInv, AgeInv, Dated
  <2>6. Outlived(req[t])'
    <3>1. since[s] = 0 /\ since[s] <= req[t].tokens.issued
      BY <1>1, <1>3, <2>2 DEF IInv, EndInv, Outlived, Carrying
    <3>2. QED
      BY <1>1, <2>1, <2>2, <3>1 DEF Outlived
  <2>7. QED
    BY <1>1, <2>1, <2>3, <2>4, <2>5, <2>6, LocalStep
<1>4. QED
  BY <1>2, <1>3 DEF Check

LEMMA RespondKeeps ==
    ASSUME IInv, NEW t \in Slots, Respond(t)
    PROVE  IInv'
<1>1. /\ TypeOK /\ req \in [Slots -> Request]
      /\ req'[t] = Idle /\ req' = [req EXCEPT ![t] = Idle]
      /\ Idle \in Request /\ Idle.pc = "idle" /\ Idle.session = 0
      /\ cookie' \in {cookie, req[t].session, 0}
      /\ UNCHANGED <<logins, store, idle, honoured, since, gap, steady, left>>
  BY IdleTyped DEF IInv, TypeOK, Respond, Idle
<1>2. \A u \in Slots \ {t} : req'[u] = req[u]
  BY <1>1
<1>3. cookie' \in 0..logins
  <2>1. req[t].session <= logins /\ req[t].session \in 0..MaxSessions
    BY <1>1, RequestTyped DEF IInv, SessionInv, Named
  <2>2. logins \in 0..MaxSessions /\ cookie \in 0..logins
    BY <1>1 DEF TypeOK
  <2>3. QED
    BY <1>1, <2>1, <2>2, Lives
<1>4. TypeOK'
  BY <1>1, <1>3 DEF TypeOK
<1>5. SessionInv'
  <2>1. Named(req[t])'
    BY <1>1, <1>3 DEF Named, Working, TypeOK
  <2>2. \A u \in Slots \ {t} : Named(req[u])'
    BY <1>1, <1>2 DEF IInv, SessionInv, Named
  <2>3. QED
    BY <1>1, <2>1, <2>2 DEF IInv, SessionInv, Present
<1>6. NewInv'
  <2>1. ASSUME NEW u \in Slots, req'[u].pc = "exchanged"
        PROVE  /\ u # t /\ req[u].pc = "exchanged" /\ req'[u] = req[u]
               /\ req[u].session # 0 /\ req[u].session # req[t].session
    BY <1>1, <1>2, <2>1 DEF IInv, NewInv, SessionInv, Named, Working
  <2>2. QED
    BY <1>1, <1>2, <2>1 DEF IInv, NewInv, Present
<1>7. LeftInv'
  <2>1. Closed(req[t])'
    BY <1>1 DEF Closed
  <2>2. \A u \in Slots \ {t} : Closed(req[u])'
    BY <1>1, <1>2 DEF IInv, LeftInv, Closed
  <2>3. QED
    BY <1>1, <2>1, <2>2 DEF IInv, LeftInv, Present
<1>8. AgeInv'
  <2>1. Dated(req[t])'
    BY <1>1 DEF Dated
  <2>2. \A u \in Slots \ {t} : Dated(req[u])'
    BY <1>1, <1>2 DEF IInv, AgeInv, Dated, WellDated, Expired
  <2>3. QED
    BY <1>1, <2>1, <2>2 DEF IInv, AgeInv, Present, WellDated, Expired
<1>9. BlobInv'
  BY <1>1 DEF IInv, BlobInv, InUse, Present
<1>10. CopyInv'
  <2>1. Copied(req[t])'
    BY <1>1 DEF Copied
  <2>2. \A u \in Slots \ {t} : Copied(req[u])'
    BY <1>1, <1>2 DEF IInv, CopyInv, Copied, InUse
  <2>3. QED
    BY <2>1, <2>2 DEF CopyInv
<1>11. EndInv'
  <2>1. Outlived(req[t])'
    BY <1>1 DEF Outlived, Carrying
  <2>2. \A u \in Slots \ {t} : Outlived(req[u])'
    BY <1>1, <1>2 DEF IInv, EndInv, Outlived
  <2>3. QED
    BY <1>1, <2>1, <2>2 DEF IInv, EndInv, Present
<1>12. QED
  BY <1>4, <1>5, <1>6, <1>7, <1>8, <1>9, <1>10, <1>11 DEF IInv

LEMMA ExchangeKeeps ==
    ASSUME IInv, NEW t \in Slots, Exchange(t)
    PROVE  IInv'
<1> DEFINE n == logins + 1
           new == [req[t] EXCEPT !.pc = "exchanged", !.session = n, !.tokens = NewTokens]
<1>1. /\ TypeOK /\ req \in [Slots -> Request] /\ req[t] \in Request
      /\ cookie \in 0..logins /\ logins \in 0..MaxSessions /\ logins < MaxSessions
      /\ logins' = n /\ req' = [req EXCEPT ![t] = new]
      /\ UNCHANGED <<cookie, store, idle, honoured, since, gap, steady, left>>
  BY DEF IInv, TypeOK, Exchange
<1>2. n \in Sessions /\ n \in 0..MaxSessions /\ n > logins /\ n # 0 /\ n # cookie
  BY <1>1, Lives DEF Sessions
<1>3. NewTokens \in Tokens /\ NewTokens.issued = 0
  BY Lives DEF NewTokens, Tokens
<1>4. /\ new \in Request /\ new.pc = "exchanged" /\ new.session = n /\ new.tokens = NewTokens
      /\ new.took = req[t].took /\ req[t].took \in 0..Latency
  BY <1>1, <1>2, <1>3 DEF Request
<1> HIDE DEF new
<1>5. /\ req'[t] = new
      /\ \A u \in Slots \ {t} : req'[u] = req[u]
  BY <1>1
<1>6. ~Present(n) /\ ~steady[n] /\ honoured[n] /\ left[n] = "no" /\ since[n] = 0
  BY <1>2 DEF IInv, SessionInv, EndInv
<1>7. \A u \in Slots : req[u].session <= logins /\ req[u].session \in 0..MaxSessions
  BY <1>1, RequestTyped DEF IInv, SessionInv, Named
<1>8. TypeOK'
  BY <1>1, <1>2, <1>4, Lives DEF TypeOK
<1>9. SessionInv'
  <2>1. Named(req[t])'
    BY <1>1, <1>2, <1>4, <1>5 DEF Named
  <2>2. \A u \in Slots \ {t} : Named(req[u])'
    BY <1>1, <1>2, <1>5, <1>7 DEF IInv, SessionInv, Named
  <2>3. \A s \in Sessions : s > n => s > logins
    BY <1>1 DEF Sessions
  <2>4. QED
    BY <1>1, <2>1, <2>2, <2>3 DEF IInv, SessionInv, Present
<1>10. NewInv'
  <2>1. \A u \in Slots : req[u].session # n
    BY <1>1, <1>7
  <2>2. QED
    BY <1>1, <1>2, <1>4, <1>5, <1>6, <2>1 DEF IInv, NewInv, Present
<1>11. LeftInv'
  <2>1. Closed(req[t])'
    BY <1>1, <1>4, <1>5 DEF Closed
  <2>2. \A u \in Slots \ {t} : Closed(req[u])'
    BY <1>1, <1>5 DEF IInv, LeftInv, Closed
  <2>3. QED
    BY <1>1, <2>1, <2>2 DEF IInv, LeftInv, Present
<1>12. AgeInv'
  <2>1. Dated(req[t])'
    BY <1>3, <1>4, <1>5 DEF Dated
  <2>2. \A u \in Slots \ {t} : Dated(req[u])'
    BY <1>5 DEF IInv, AgeInv, Dated, WellDated, Expired
  <2>3. QED
    BY <1>1, <2>1, <2>2 DEF IInv, AgeInv, Present, WellDated, Expired
<1>13. BlobInv'
  BY <1>1 DEF IInv, BlobInv, InUse, Present
<1>14. CopyInv'
  <2>1. Copied(req[t])'
    BY <1>4, <1>5 DEF Copied
  <2>2. \A u \in Slots \ {t} : Copied(req[u])'
    BY <1>1, <1>5 DEF IInv, CopyInv, Copied, InUse
  <2>3. QED
    BY <2>1, <2>2 DEF CopyInv
<1>15. EndInv'
  <2>1. Outlived(req[t])'
    BY <1>1, <1>3, <1>4, <1>5, <1>6 DEF Outlived
  <2>2. \A u \in Slots \ {t} : Outlived(req[u])'
    BY <1>1, <1>5 DEF IInv, EndInv, Outlived
  <2>3. QED
    BY <1>1, <2>1, <2>2 DEF IInv, EndInv, Present
<1>16. QED
  BY <1>8, <1>9, <1>10, <1>11, <1>12, <1>13, <1>14, <1>15 DEF IInv

\* The session's blob is written: its tokens are fresh, and the session was used
\* just now.  Any other request that holds a copy of it can only be behind.
LEMMA WriteKeeps ==
    ASSUME IInv, NEW t \in Slots, NEW s \in Sessions, NEW k \in Tokens,
           s = req[t].session, s \in 1..logins,
           req' = [req EXCEPT ![t] = req'[t]],
           req'[t] \in Request,
           req'[t].session = s,
           req'[t].pc # "exchanged",
           Named(req[t])', Closed(req[t])', Dated(req[t])', Copied(req[t])', Outlived(req[t])',
           k.issued <= Latency, WellDated(k), since[s] <= k.issued, left[s] # "clean",
           \A u \in Slots \ {t} : req[u].pc = "exchanged" => req[u].session # s,
           \A u \in Slots \ {t} : req[u].session = s => steady[s] \/ ~steady'[s],
           \A r \in Sessions \ {s} : steady'[r] = steady[r],
           steady' \in [Sessions -> BOOLEAN],
           store' = [store EXCEPT ![s] = k],
           idle' = [idle EXCEPT ![s] = 0],
           gap' = [gap EXCEPT ![s] = 0],
           UNCHANGED <<cookie, logins, honoured, since, left>>
    PROVE  IInv'
<1>1. /\ TypeOK /\ req \in [Slots -> Request] /\ store \in [Sessions -> Tokens \cup {NoTokens}]
      /\ idle \in [Sessions -> 0..TTL] /\ gap \in [Sessions -> 0..(MaxGap + 1)]
  BY DEF IInv, TypeOK
<1>2. /\ k.issued \in 0..RefreshLife /\ k # NoTokens
  BY DEF Tokens, NoTokens
<1>3. /\ \A u \in Slots \ {t} : req'[u] = req[u]
      /\ \A r \in Sessions \ {s} : store'[r] = store[r] /\ idle'[r] = idle[r] /\ gap'[r] = gap[r]
      /\ store'[s] = k /\ idle'[s] = 0 /\ gap'[s] = 0
  BY <1>1
<1>4. TypeOK'
  <2>1. /\ store' \in [Sessions -> Tokens \cup {NoTokens}] /\ idle' \in [Sessions -> 0..TTL]
        /\ gap' \in [Sessions -> 0..(MaxGap + 1)]
    BY <1>1, Lives
  <2>2. req' \in [Slots -> Request]
    BY <1>1
  <2>3. QED
    BY <2>1, <2>2 DEF IInv, TypeOK
<1>5. SessionInv'
  <2>1. \A u \in Slots \ {t} : Named(req[u])'
    BY <1>3 DEF IInv, SessionInv, Named
  <2>2. \A r \in Sessions : r > logins => r # s
    BY <1>1 DEF TypeOK, Sessions
  <2>3. QED
    BY <1>3, <2>1, <2>2 DEF IInv, SessionInv, Present
<1>6. NewInv'
  <2>1. ASSUME NEW u \in Slots, req'[u].pc = "exchanged"
        PROVE  /\ u # t /\ req[u].pc = "exchanged" /\ req'[u] = req[u]
               /\ req[u].session \in Sessions \ {s}
    BY <1>3, <2>1, AtWork DEF Working
  <2>2. ASSUME NEW u \in Slots, req'[u].pc = "exchanged"
        PROVE  /\ cookie' # req'[u].session /\ left'[req'[u].session] = "no"
               /\ store'[req'[u].session] = NoTokens /\ ~steady'[req'[u].session]
    <3>1. /\ cookie # req[u].session /\ left[req[u].session] = "no"
          /\ store[req[u].session] = NoTokens /\ ~steady[req[u].session]
      BY <2>1, <2>2 DEF IInv, NewInv, Present
    <3>2. /\ store'[req[u].session] = store[req[u].session]
          /\ steady'[req[u].session] = steady[req[u].session]
      BY <1>3, <2>1, <2>2
    <3>3. req'[u] = req[u]
      BY <2>1, <2>2
    <3>4. QED
      BY <3>1, <3>2, <3>3
  <2>3. ASSUME NEW u \in Slots, req'[u].pc = "exchanged", NEW v \in Slots \ {u}
        PROVE  req'[v].session # req'[u].session
    BY <1>3, <2>1, <2>3 DEF IInv, NewInv
  <2>4. QED
    BY <2>2, <2>3 DEF NewInv, Present
<1>7. LeftInv'
  <2>1. \A u \in Slots \ {t} : Closed(req[u])'
    BY <1>3 DEF IInv, LeftInv, Closed
  <2>2. QED
    BY <1>3, <2>1 DEF IInv, LeftInv, Present
<1>8. AgeInv'
  <2>1. \A u \in Slots \ {t} : Dated(req[u])'
    BY <1>3 DEF IInv, AgeInv, Dated, WellDated, Expired
  <2>2. \A r \in Sessions : Present(r)' => WellDated(store[r])'
    BY <1>3 DEF IInv, AgeInv, Present, WellDated, Expired
  <2>3. QED
    BY <2>1, <2>2 DEF AgeInv
<1>9. BlobInv'
  <2>1. k.issued <= UseAge + 0 /\ 0 <= MaxGap /\ 0 <= 0
    BY <1>2, Lives
  <2>2. QED
    BY <1>2, <1>3, <2>1 DEF IInv, BlobInv, InUse, Present
<1>10. CopyInv'
  <2>1. ASSUME NEW u \in Slots \ {t} PROVE Copied(req[u])'
    <3>1. req'[u] = req[u] /\ req[u].took \in 0..Latency
      BY <1>1, <1>3, RequestTyped
    <3>2. k.issued <= Latency + req[u].took
      BY <1>2, <3>1, Lives
    <3>3. \A r \in Sessions : r # s /\ InUse(r)' => InUse(r)
      BY DEF InUse
    <3>4. req[u].session = s /\ InUse(s)' => InUse(s)
      BY DEF InUse
    <3>5. QED
      BY <1>3, <3>1, <3>2, <3>3, <3>4 DEF IInv, CopyInv, Copied
  <2>2. QED
    BY <2>1 DEF CopyInv
<1>11. EndInv'
  <2>1. \A u \in Slots \ {t} : Outlived(req[u])'
    BY <1>3 DEF IInv, EndInv, Outlived
  <2>2. QED
    BY <1>3, <2>1 DEF IInv, EndInv, Present
<1>12. QED
  BY <1>4, <1>5, <1>6, <1>7, <1>8, <1>9, <1>10, <1>11 DEF IInv

LEMMA StoreLoginKeeps ==
    ASSUME IInv, NEW t \in Slots, StoreLogin(t)
    PROVE  IInv'
<1> DEFINE s == req[t].session
           k == [req[t].tokens EXCEPT !.recorded = 0]
<1>1. /\ TypeOK /\ req \in [Slots -> Request] /\ req[t].pc = "exchanged"
      /\ steady \in [Sessions -> BOOLEAN]
      /\ UNCHANGED <<cookie, logins, honoured, since, left>>
  BY DEF IInv, TypeOK, StoreLogin
<1>2. CASE req' = [req EXCEPT ![t] = Idle] /\ UNCHANGED <<store, idle, gap, steady>>
  <2>1. req'[t] = Idle /\ Idle.pc = "idle" /\ Idle.session = 0
    BY <1>1, <1>2 DEF Idle
  <2>2. QED
    BY <1>1, <1>2, <2>1, IdleTyped, LightStep
<1>3. CASE /\ store' = [store EXCEPT ![s] = k] /\ idle' = [idle EXCEPT ![s] = 0]
           /\ Used(s) /\ steady' = [steady EXCEPT ![s] = TRUE] /\ Answer(t, "put")
  <2>1. s \in Sessions /\ s \in 1..logins /\ req[t].took \in 0..Latency
    BY <1>1, AtWork, RequestTyped DEF Working
  <2>2. k \in Tokens /\ k.recorded = 0 /\ k.issued = req[t].tokens.issued /\ k.issued \in Nat
    BY <1>1, RequestTyped, Lives DEF Tokens
  <2> HIDE DEF k
  <2>3. /\ req' = [req EXCEPT ![t] = req'[t]] /\ req'[t] \in Request
        /\ req'[t].pc = "respond" /\ req'[t].session = s
    BY <1>1, <1>3, AnswerTyped
  <2>4. k.issued <= Latency /\ WellDated(k)
    <3>1. k.issued <= req[t].took
      BY <1>1, <2>2 DEF IInv, AgeInv, Dated
    <3>2. QED
      BY <2>1, <2>2, <3>1, Lives DEF WellDated
  <2>5. since[s] <= k.issued
    BY <1>1, <2>2 DEF IInv, EndInv, Outlived, Carrying
  <2>6. left[s] # "clean" /\ \A u \in Slots \ {t} : req[u].session # s
    BY <1>1 DEF IInv, NewInv
  <2>7. /\ steady' \in [Sessions -> BOOLEAN]
        /\ \A r \in Sessions \ {s} : steady'[r] = steady[r]
    BY <1>1, <1>3, <2>1
  <2>8. Named(req[t])'
    BY <1>1, <2>1, <2>3, AtWork DEF Named, Working
  <2>9. Closed(req[t])' /\ Dated(req[t])' /\ Copied(req[t])' /\ Outlived(req[t])'
    BY <2>3 DEF Closed, Dated, Copied, Outlived, Carrying
  <2>10. /\ gap' = [gap EXCEPT ![s] = 0] /\ store' = [store EXCEPT ![s] = k]
         /\ idle' = [idle EXCEPT ![s] = 0]
    BY <1>3 DEF Used
  <2>11. s = req[t].session
    OBVIOUS
  <2>12. /\ req'[t].pc # "exchanged" /\ left[s] # "clean"
         /\ \A u \in Slots \ {t} : req[u].pc = "exchanged" => req[u].session # s
         /\ \A u \in Slots \ {t} : req[u].session = s => steady[s] \/ ~steady'[s]
    BY <2>3, <2>6
  <2>13. UNCHANGED <<cookie, logins, honoured, since, left>>
    BY <1>1
  <2>14. s \in Sessions /\ s \in 1..logins /\ k \in Tokens
    BY <2>1, <2>2
  <2> HIDE DEF s
  <2>15. QED
    BY <2>3, <2>4, <2>5, <2>7, <2>8, <2>9, <2>10, <2>11, <2>12, <2>13, <2>14, WriteKeeps
<1>4. QED
  BY <1>2, <1>3 DEF StoreLogin

LEMMA SetKeeps ==
    ASSUME IInv, NEW t \in Slots, Set(t)
    PROVE  IInv'
<1> DEFINE s == req[t].session
           k == req[t].tokens
<1>1. /\ TypeOK /\ req \in [Slots -> Request] /\ req[t].pc = "set"
      /\ steady \in [Sessions -> BOOLEAN] /\ steady' = steady
      /\ UNCHANGED <<cookie, logins, honoured, since, left>>
      /\ store' = [store EXCEPT ![s] = k] /\ idle' = [idle EXCEPT ![s] = 0]
      /\ gap' = [gap EXCEPT ![s] = 0]
      /\ Step(t, Admitted(req[t].kind))
  BY DEF IInv, TypeOK, Set, Used
<1>2. s \in Sessions /\ s \in 1..logins /\ req[t].took \in 0..Latency
  BY <1>1, AtWork, RequestTyped DEF Working
<1>3. k \in Tokens /\ k.issued \in 0..RefreshLife
  BY <1>1, RequestTyped
<1>4. k.issued <= req[t].took /\ WellDated(k)
  BY <1>1 DEF IInv, AgeInv, Dated
<1>5. k.issued <= Latency /\ k.issued <= UseAge + req[t].took
  BY <1>2, <1>3, <1>4, Lives
<1>6. since[s] <= k.issued
  BY <1>1 DEF IInv, EndInv, Outlived, Carrying
<1>7. left[s] # "clean"
  BY <1>1, <1>2 DEF IInv, LeftInv, Closed
<1>8. \A u \in Slots \ {t} : req[u].pc = "exchanged" => req[u].session # s
  BY DEF IInv, NewInv
<1>9. /\ req' = [req EXCEPT ![t] = req'[t]] /\ req'[t] \in Request
      /\ req'[t].pc \in {"check", "serve"} /\ req'[t].session = s
      /\ Named(req[t])' /\ Closed(req[t])' /\ Dated(req[t])'
      /\ Copied(req[t])' /\ Outlived(req[t])'
  BY <1>1, <1>5, AdmittedParts DEF Carrying
<1> HIDE DEF k
<1>10. QED
  BY <1>1, <1>2, <1>3, <1>4, <1>5, <1>6, <1>7, <1>8, <1>9, WriteKeeps

LEMMA TouchKeeps ==
    ASSUME IInv, NEW t \in Slots, Touch(t)
    PROVE  IInv'
<1> DEFINE s == req[t].session
           k == req[t].tokens
<1>1. /\ TypeOK /\ req \in [Slots -> Request] /\ req[t].pc = "touch"
      /\ idle \in [Sessions -> 0..TTL] /\ gap \in [Sessions -> 0..(MaxGap + 1)]
      /\ idle' = [idle EXCEPT ![s] = 0]
      /\ UNCHANGED <<cookie, logins, store, honoured, since, steady, left>>
  BY DEF IInv, TypeOK, Touch
<1>2. s \in Sessions /\ s \in 1..logins /\ req[t].took \in 0..Latency
  BY <1>1, AtWork, RequestTyped DEF Working
<1>3. k \in Tokens /\ k.issued \in 0..RefreshLife /\ k.recorded \in 0..AccessLife
  BY <1>1, RequestTyped
<1>4. /\ gap' \in [Sessions -> 0..(MaxGap + 1)]
      /\ \A r \in Sessions \ {s} : gap'[r] = gap[r] /\ idle'[r] = idle[r]
      /\ idle'[s] = 0 /\ idle' \in [Sessions -> 0..TTL]
      /\ gap'[s] \in {0, gap[s]}
  BY <1>1, <1>2, Lives DEF Touch, Used
\* The request itself.
<1>5. /\ req' = [req EXCEPT ![t] = req'[t]] /\ req'[t] \in Request
      /\ req'[t].pc \in {"refresh", "check", "serve"} /\ req'[t].session = s
      /\ Named(req[t])' /\ Closed(req[t])' /\ Dated(req[t])'
      /\ Copied(req[t])' /\ Outlived(req[t])'
  <2>1. CASE Expired(k)
    <3>1. Step(t, "refresh")
      BY <2>1 DEF Touch
    <3>2. /\ req' = [req EXCEPT ![t] = req'[t]] /\ req'[t] \in Request
          /\ req'[t].pc = "refresh" /\ req'[t].session = s /\ req'[t].tokens = k
          /\ req'[t].took = req[t].took
      BY <1>1, <3>1, StepTyped
    <3>3. Named(req[t])'
      BY <1>1, <3>2, AtWork DEF Named, Working, Sessions
    <3>4. Closed(req[t])'
      BY <1>1, <3>2 DEF IInv, LeftInv, Closed
    <3>5. Dated(req[t])'
      BY <3>2 DEF Dated
    <3>6. Copied(req[t])'
      BY <1>1, <3>2 DEF IInv, CopyInv, Copied, InUse
    <3>7. Outlived(req[t])'
      BY <1>1, <3>2 DEF IInv, EndInv, Outlived, Carrying
    <3>8. QED
      BY <3>2, <3>3, <3>4, <3>5, <3>6, <3>7
  <2>2. CASE ~Expired(k)
    <3>1. Step(t, Admitted(req[t].kind))
      BY <2>2 DEF Touch
    <3>2. k.issued <= UseAge + req[t].took
      <4>1. k.issued <= k.recorded + Latency
        BY <1>1, <2>2 DEF IInv, AgeInv, Dated, WellDated
      <4>2. k.recorded < AccessLife
        BY <1>3, <2>2, Lives DEF Expired
      <4>3. QED
        BY <1>2, <1>3, <4>1, <4>2, Lives
    <3>3. QED
      BY <1>1, <3>1, <3>2, AdmittedParts DEF Carrying
  <2>3. QED
    BY <2>1, <2>2
<1>6. \A u \in Slots \ {t} : req'[u] = req[u]
  BY <1>1, <1>5
\* The session: when its access token is found good, so is what Redis holds.
<1>7. gap'[s] = 0 => (InUse(s) => store[s].issued <= UseAge + gap'[s])
  <2>1. CASE gap'[s] = gap[s]
    BY <1>2, <2>1 DEF IInv, BlobInv
  <2>2. CASE gap'[s] # gap[s]
    <3>1. ~Expired(k)
      BY <2>2 DEF Touch
    <3>2. k.recorded < AccessLife /\ k.issued <= k.recorded + Latency
      BY <1>1, <1>3, <3>1, Lives DEF IInv, AgeInv, Dated, WellDated, Expired
    <3>3. k.issued <= UseAge
      BY <1>3, <3>2, Lives
    <3>4. ASSUME InUse(s) PROVE store[s].issued <= UseAge
      <4>1. Present(s) /\ store[s].issued \in 0..RefreshLife
        BY <1>1, <1>2, <3>4, BlobTyped DEF IInv, BlobInv
      <4>2. store[s].issued <= k.issued \/ store[s].issued <= Latency + req[t].took
        BY <1>1, <1>2, <3>4 DEF IInv, CopyInv, Copied
      <4>3. QED
        BY <1>2, <1>3, <3>3, <4>1, <4>2, Lives
    <3>5. InUse(s) => store[s].issued <= UseAge + 0
      <4>1. InUse(s) => store[s].issued \in Nat
        BY <1>1, <1>2, BlobTyped, Lives DEF IInv, BlobInv
      <4>2. QED
        BY <3>4, <4>1, Lives
    <3>6. QED
      BY <3>5
  <2>3. QED
    BY <2>1, <2>2
<1>8. TypeOK'
  <2>1. req' \in [Slots -> Request]
    BY <1>1, <1>5
  <2>2. QED
    BY <1>1, <1>4, <2>1 DEF TypeOK
<1>9. SessionInv'
  <2>1. \A u \in Slots \ {t} : Named(req[u])'
    BY <1>1, <1>6 DEF IInv, SessionInv, Named
  <2>2. QED
    BY <1>1, <1>5, <2>1 DEF IInv, SessionInv, Present
<1>10. NewInv'
  <2>1. ASSUME NEW u \in Slots, req'[u].pc = "exchanged"
        PROVE  u # t /\ req[u].pc = "exchanged" /\ req'[u] = req[u]
    BY <1>5, <1>6, <2>1
  <2>2. QED
    BY <1>1, <1>5, <1>6, <2>1 DEF IInv, NewInv, Present
<1>11. LeftInv'
  <2>1. \A u \in Slots \ {t} : Closed(req[u])'
    BY <1>1, <1>6 DEF IInv, LeftInv, Closed
  <2>2. QED
    BY <1>1, <1>5, <2>1 DEF IInv, LeftInv, Present
<1>12. AgeInv'
  <2>1. \A u \in Slots \ {t} : Dated(req[u])'
    BY <1>6 DEF IInv, AgeInv, Dated, WellDated, Expired
  <2>2. QED
    BY <1>1, <1>5, <2>1 DEF IInv, AgeInv, Present, WellDated, Expired
<1>13. BlobInv'
  <2>1. ASSUME NEW r \in Sessions, InUse(r)'
        PROVE  /\ Present(r)' /\ gap'[r] <= MaxGap /\ idle'[r] <= gap'[r]
               /\ store'[r].issued <= UseAge + gap'[r]
    <3>1. InUse(r)
      BY <1>1, <2>1 DEF InUse
    <3>2. /\ Present(r) /\ gap[r] <= MaxGap /\ idle[r] <= gap[r]
          /\ store[r].issued <= UseAge + gap[r]
      BY <3>1 DEF IInv, BlobInv
    <3>3. CASE r # s
      BY <1>1, <1>4, <3>2, <3>3 DEF Present
    <3>4. CASE r = s
      <4>1. Present(r)'
        BY <1>1, <3>2 DEF Present
      <4>2. gap'[r] <= MaxGap /\ idle'[r] <= gap'[r]
        BY <1>1, <1>2, <1>4, <3>2, <3>4, Lives
      <4>3. store'[r].issued <= UseAge + gap'[r]
        BY <1>1, <1>4, <1>7, <3>1, <3>2, <3>4
      <4>4. QED
        BY <4>1, <4>2, <4>3
    <3>5. QED
      BY <3>3, <3>4
  <2>2. QED
    BY <2>1 DEF BlobInv, InUse, Present
<1>14. CopyInv'
  <2>1. \A u \in Slots \ {t} : Copied(req[u])'
    BY <1>1, <1>6 DEF IInv, CopyInv, Copied, InUse
  <2>2. QED
    BY <1>5, <2>1 DEF CopyInv
<1>15. EndInv'
  <2>1. \A u \in Slots \ {t} : Outlived(req[u])'
    BY <1>1, <1>6 DEF IInv, EndInv, Outlived
  <2>2. QED
    BY <1>1, <1>5, <2>1 DEF IInv, EndInv, Present
<1>16. QED
  BY <1>8, <1>9, <1>10, <1>11, <1>12, <1>13, <1>14, <1>15 DEF IInv

\* A blob is lost: for good, as far as its session is concerned.
LEMMA LossKeeps ==
    ASSUME IInv, NEW s \in Sessions,
           store' = [store EXCEPT ![s] = NoTokens],
           UNCHANGED <<cookie, logins, idle, honoured, since, gap>>,
           steady' \in [Sessions -> BOOLEAN],
           \A r \in Sessions : steady'[r] => steady[r],
           left' \in [Sessions -> {"no", "clean", "unclean"}],
           \A r \in Sessions \ {s} : left'[r] = left[r],
           s <= logins,
           ~(steady'[s] /\ honoured'[s] /\ left'[s] = "no"),
           left'[s] # "no" => \A t \in Slots : req[t].pc = "exchanged" => req[t].session # s,
           req' \in [Slots -> Request],
           \A u \in Slots :
               \/ req'[u] = req[u]
               \/ /\ req'[u].pc = "respond"
                  /\ req'[u].session = req[u].session,
           \A u \in Slots : Closed(req[u])'
    PROVE  IInv'
<1>1. /\ TypeOK /\ store \in [Sessions -> Tokens \cup {NoTokens}]
      /\ store'[s] = NoTokens
      /\ \A r \in Sessions \ {s} : store'[r] = store[r]
  BY DEF IInv, TypeOK
<1>2. \A r \in Sessions : InUse(r)' => InUse(r) /\ r # s
  BY DEF InUse
<1>3. \A u \in Slots : req'[u].session = req[u].session
  OBVIOUS
<1>4. TypeOK'
  BY <1>1 DEF TypeOK
<1>5. SessionInv'
  <2>1. \A u \in Slots : Named(req[u])'
    BY DEF IInv, SessionInv, Named, Working
  <2>2. \A r \in Sessions : r > logins => r # s
    BY <1>1 DEF Sessions, TypeOK
  <2>3. QED
    BY <1>1, <2>1, <2>2 DEF IInv, SessionInv, Present
<1>6. NewInv'
  <2>1. ASSUME NEW u \in Slots, req'[u].pc = "exchanged"
        PROVE  /\ req[u].pc = "exchanged" /\ req'[u] = req[u] /\ req[u].session \in Sessions
    BY <2>1, AtWork DEF Working
  <2>2. ASSUME NEW u \in Slots, req'[u].pc = "exchanged"
        PROVE  /\ cookie' # req'[u].session /\ left'[req'[u].session] = "no"
               /\ store'[req'[u].session] = NoTokens /\ ~steady'[req'[u].session]
    BY <1>1, <2>1, <2>2 DEF IInv, NewInv, Present
  <2>3. ASSUME NEW u \in Slots, req'[u].pc = "exchanged", NEW v \in Slots \ {u}
        PROVE  req'[v].session # req'[u].session
    BY <1>3, <2>1, <2>3 DEF IInv, NewInv
  <2>4. QED
    BY <2>2, <2>3 DEF NewInv, Present
<1>7. LeftInv'
  BY <1>1 DEF IInv, LeftInv, Present
<1>8. AgeInv'
  <2>1. \A u \in Slots : Dated(req[u])'
    BY DEF IInv, AgeInv, Dated, WellDated, Expired
  <2>2. QED
    BY <1>1, <2>1 DEF IInv, AgeInv, Present, WellDated, Expired
<1>9. BlobInv'
  BY <1>1, <1>2 DEF IInv, BlobInv, Present
<1>10. CopyInv'
  <2>1. ASSUME NEW u \in Slots PROVE Copied(req[u])'
    BY <1>1, <1>2 DEF IInv, CopyInv, Copied
  <2>2. QED
    BY <2>1 DEF CopyInv
<1>11. EndInv'
  <2>1. \A u \in Slots : Outlived(req[u])'
    BY DEF IInv, EndInv, Outlived, Carrying
  <2>2. QED
    BY <1>1, <2>1 DEF IInv, EndInv, Present
<1>12. QED
  BY <1>4, <1>5, <1>6, <1>7, <1>8, <1>9, <1>10, <1>11 DEF IInv

LEMMA DeleteOnLogoutKeeps ==
    ASSUME IInv, NEW t \in Slots, DeleteOnLogout(t)
    PROVE  IInv'
<1> DEFINE s == req[t].session
<1>1. /\ TypeOK /\ req \in [Slots -> Request] /\ req[t].pc = "delete"
      /\ left \in [Sessions -> {"no", "clean", "unclean"}] /\ Answer(t, "drop")
      /\ steady \in [Sessions -> BOOLEAN]
      /\ UNCHANGED <<cookie, logins, idle, honoured, since, gap, steady>>
  BY DEF IInv, TypeOK, DeleteOnLogout
<1>2. s \in Sessions /\ s \in 1..logins /\ logins \in Nat
  BY <1>1, AtWork, Lives DEF Working, TypeOK
<1>3. /\ req' = [req EXCEPT ![t] = req'[t]] /\ req'[t] \in Request
      /\ req'[t].pc = "respond" /\ req'[t].session = s
  BY <1>1, AnswerTyped
<1>4. /\ \A u \in Slots \ {t} : req'[u] = req[u]
      /\ req' \in [Slots -> Request]
  BY <1>1, <1>3
<1>5. left' \in [Sessions -> {"no", "clean", "unclean"}]
      /\ left'[s] \in {"clean", "unclean"}
      /\ \A r \in Sessions \ {s} : left'[r] = left[r]
  BY <1>1, <1>2 DEF DeleteOnLogout
<1>6. \A u \in Slots : req[u].pc = "exchanged" => req[u].session # s
  BY <1>1 DEF IInv, NewInv
<1>7. ~(steady'[s] /\ honoured'[s] /\ left'[s] = "no")
  BY <1>5 DEF InUse
<1>8. CASE /\ store' = [store EXCEPT ![s] = NoTokens]
           /\ left' = [left EXCEPT ![s] = IF \E u \in Slots : Holding(u, s) THEN "unclean"
                                          ELSE "clean"]
  <2>1. left'[s] = "clean" => \A u \in Slots : ~Holding(u, s)
    BY <1>1, <1>2, <1>8
  <2>2. \A u \in Slots : Closed(req[u])'
    BY <1>3, <1>4, <1>5, <2>1 DEF IInv, LeftInv, Closed, Holding
  <2>3. /\ s <= logins /\ s \in Sessions
        /\ left'[s] # "no" => \A u \in Slots : req[u].pc = "exchanged" => req[u].session # s
        /\ \A r \in Sessions : steady'[r] => steady[r]
        /\ steady' \in [Sessions -> BOOLEAN]
    BY <1>1, <1>2, <1>6
  <2>4. \A u \in Slots : \/ req'[u] = req[u]
                         \/ req'[u].pc = "respond" /\ req'[u].session = req[u].session
    BY <1>3, <1>4
  <2>5. UNCHANGED <<cookie, logins, idle, honoured, since, gap>>
    BY <1>1
  <2> HIDE DEF s
  <2>6. QED
    BY <1>4, <1>5, <1>7, <1>8, <2>2, <2>3, <2>4, <2>5, LossKeeps
<1>9. CASE left' = [left EXCEPT ![s] = IF @ = "clean" THEN @ ELSE "unclean"] /\ UNCHANGED store
  <2>1. \A r \in Sessions : left'[r] = "clean" => left[r] = "clean"
    BY <1>1, <1>2, <1>9
  <2>2. \A r \in Sessions : InUse(r)' => InUse(r)
    BY <1>1, <1>5, <1>7 DEF InUse
  <2>3. TypeOK'
    BY <1>1, <1>4, <1>5, <1>9 DEF TypeOK
  <2>4. SessionInv'
    <3>1. \A u \in Slots : Named(req[u])'
      BY <1>1, <1>3, <1>4 DEF IInv, SessionInv, Named, Working
    <3>2. \A r \in Sessions : r > logins => r # s
      BY <1>2 DEF Sessions
    <3>3. QED
      BY <1>1, <1>5, <1>9, <3>1, <3>2 DEF IInv, SessionInv, Present
  <2>5. NewInv'
    <3>1. ASSUME NEW u \in Slots, req'[u].pc = "exchanged"
          PROVE  /\ u # t /\ req[u].pc = "exchanged" /\ req'[u] = req[u]
                 /\ req[u].session \in Sessions \ {s}
      BY <1>3, <1>4, <1>6, <3>1, AtWork DEF Working
    <3>2. QED
      BY <1>1, <1>3, <1>4, <1>5, <1>9, <3>1 DEF IInv, NewInv, Present
  <2>6. LeftInv'
    <3>1. \A u \in Slots : Closed(req[u])'
      BY <1>3, <1>4, <2>1 DEF IInv, LeftInv, Closed
    <3>2. QED
      BY <1>9, <2>1, <3>1 DEF IInv, LeftInv, Present
  <2>7. AgeInv'
    <3>1. \A u \in Slots : Dated(req[u])'
      BY <1>3, <1>4 DEF IInv, AgeInv, Dated, WellDated, Expired
    <3>2. QED
      BY <1>9, <3>1 DEF IInv, AgeInv, Present, WellDated, Expired
  <2>8. BlobInv'
    BY <1>1, <1>9, <2>2 DEF IInv, BlobInv, Present
  <2>9. CopyInv'
    <3>1. ASSUME NEW u \in Slots PROVE Copied(req[u])'
      BY <1>3, <1>4, <1>9, <2>2 DEF IInv, CopyInv, Copied
    <3>2. QED
      BY <3>1 DEF CopyInv
  <2>10. EndInv'
    <3>1. \A u \in Slots : Outlived(req[u])'
      BY <1>1, <1>3, <1>4 DEF IInv, EndInv, Outlived, Carrying
    <3>2. QED
      BY <1>1, <1>9, <3>1 DEF IInv, EndInv, Present
  <2>11. QED
    BY <2>3, <2>4, <2>5, <2>6, <2>7, <2>8, <2>9, <2>10 DEF IInv
<1>10. QED
  BY <1>8, <1>9 DEF DeleteOnLogout

LEMMA DiscardKeeps ==
    ASSUME IInv, NEW t \in Slots, Discard(t)
    PROVE  IInv'
<1> DEFINE s == req[t].session
<1>1. /\ TypeOK /\ req \in [Slots -> Request] /\ req[t].pc = "rejected"
      /\ left \in [Sessions -> {"no", "clean", "unclean"}] /\ Answer(t, "drop")
      /\ steady \in [Sessions -> BOOLEAN]
      /\ UNCHANGED <<cookie, logins, idle, honoured, since, gap, steady, left>>
  BY DEF IInv, TypeOK, Discard
<1>2. s \in Sessions /\ s \in 1..logins /\ logins \in Nat
  BY <1>1, AtWork, Lives DEF Working, TypeOK
<1>3. /\ req' = [req EXCEPT ![t] = req'[t]] /\ req'[t] \in Request
      /\ req'[t].pc = "respond" /\ req'[t].session = s
  BY <1>1, AnswerTyped
<1>4. CASE UNCHANGED store
  BY <1>1, <1>3, <1>4, LightStep
<1>5. CASE store' = [store EXCEPT ![s] = NoTokens]
  <2>1. /\ \A u \in Slots \ {t} : req'[u] = req[u]
        /\ req' \in [Slots -> Request]
    BY <1>1, <1>3
  <2>2. \A u \in Slots : req[u].pc = "exchanged" => req[u].session # s
    BY <1>1 DEF IInv, NewInv
  <2>3. ~(steady'[s] /\ honoured'[s] /\ left'[s] = "no")
    BY <1>1, <1>2 DEF IInv, CopyInv, Copied, InUse
  <2>4. \A u \in Slots : Closed(req[u])'
    BY <1>1, <1>3, <2>1 DEF IInv, LeftInv, Closed
  <2>5. /\ s <= logins /\ s \in Sessions
        /\ left'[s] # "no" => \A u \in Slots : req[u].pc = "exchanged" => req[u].session # s
        /\ \A r \in Sessions : steady'[r] => steady[r]
        /\ steady' \in [Sessions -> BOOLEAN] /\ left' \in [Sessions -> {"no", "clean", "unclean"}]
        /\ \A r \in Sessions \ {s} : left'[r] = left[r]
    BY <1>1, <1>2, <2>2
  <2>6. \A u \in Slots : \/ req'[u] = req[u]
                         \/ req'[u].pc = "respond" /\ req'[u].session = req[u].session
    BY <1>3, <2>1
  <2>7. UNCHANGED <<cookie, logins, idle, honoured, since, gap>>
    BY <1>1
  <2> HIDE DEF s
  <2>8. QED
    BY <1>5, <2>1, <2>3, <2>4, <2>5, <2>6, <2>7, LossKeeps
<1>6. QED
  BY <1>4, <1>5 DEF Discard

LEMMA KeycloakEndsKeeps ==
    ASSUME IInv, NEW s \in Sessions, KeycloakEnds(s)
    PROVE  IInv'
<1>1. /\ TypeOK /\ honoured \in [Sessions -> BOOLEAN] /\ s <= logins
      /\ honoured' = [honoured EXCEPT ![s] = FALSE]
      /\ UNCHANGED <<cookie, logins, store, idle, req, since, gap, steady, left>>
  BY DEF IInv, TypeOK, KeycloakEnds
<1>2. \A r \in Sessions : (honoured'[r] => honoured[r]) /\ (r # s => honoured'[r] = honoured[r])
  BY <1>1
<1>3. \A r \in Sessions : InUse(r)' => InUse(r)
  BY <1>1, <1>2 DEF InUse
<1>4. TypeOK'
  BY <1>1 DEF TypeOK
<1>5. SessionInv'
  <2>1. \A u \in Slots : Named(req[u])'
    BY <1>1 DEF IInv, SessionInv, Named
  <2>2. \A r \in Sessions : r > logins => r # s
    BY <1>1 DEF TypeOK, Sessions
  <2>3. QED
    BY <1>1, <1>2, <2>1, <2>2 DEF IInv, SessionInv, Present
<1>6. NewInv' /\ LeftInv' /\ AgeInv'
  BY <1>1 DEF IInv, NewInv, LeftInv, AgeInv, Closed, Dated, WellDated, Expired, Present
<1>7. BlobInv'
  BY <1>1, <1>3 DEF IInv, BlobInv, Present
<1>8. CopyInv'
  BY <1>1, <1>3 DEF IInv, CopyInv, Copied
<1>9. EndInv'
  BY <1>1, <1>2 DEF IInv, EndInv, Outlived, Present
<1>10. QED
  BY <1>4, <1>5, <1>6, <1>7, <1>8, <1>9 DEF IInv

LEMMA EvictKeeps ==
    ASSUME IInv, NEW s \in Sessions, Evict(s)
    PROVE  IInv'
<1>1. /\ TypeOK /\ req \in [Slots -> Request] /\ steady \in [Sessions -> BOOLEAN]
      /\ left \in [Sessions -> {"no", "clean", "unclean"}]
      /\ store' = [store EXCEPT ![s] = NoTokens] /\ Present(s)
      /\ steady' = [steady EXCEPT ![s] = FALSE]
      /\ UNCHANGED <<cookie, logins, idle, honoured, req, since, gap, left>>
  BY DEF IInv, TypeOK, Evict, Present
<1>2. s <= logins
  BY <1>1 DEF IInv, SessionInv, TypeOK, Sessions
<1>3. /\ ~(steady'[s] /\ honoured'[s] /\ left'[s] = "no") /\ steady' \in [Sessions -> BOOLEAN]
      /\ \A r \in Sessions : steady'[r] => steady[r]
  BY <1>1 DEF InUse
<1>4. \A u \in Slots : req[u].pc = "exchanged" => req[u].session # s
  BY <1>1 DEF IInv, NewInv
<1>5. \A u \in Slots : Closed(req[u])'
  BY <1>1 DEF IInv, LeftInv, Closed
<1>6. QED
  BY <1>1, <1>2, <1>3, <1>4, <1>5, LossKeeps

\* One tick on a pair of tokens ...
LEMMA OlderTokens ==
    ASSUME NEW k \in Tokens
    PROVE  /\ Older(k) \in Tokens
           /\ Older(k).issued \in Nat /\ k.issued \in Nat
           /\ Older(k).issued <= k.issued + 1
           /\ k.issued < RefreshLife => Older(k).issued = k.issued + 1
           /\ k.issued >= RefreshLife => Older(k).issued = RefreshLife
           /\ WellDated(k) => WellDated(Older(k))
<1>1. k.issued \in 0..RefreshLife /\ k.recorded \in 0..AccessLife
  BY DEF Tokens
<1>2. /\ Older(k).issued = IF k.issued < RefreshLife THEN k.issued + 1 ELSE k.issued
      /\ Older(k).recorded = IF k.recorded < AccessLife THEN k.recorded + 1 ELSE k.recorded
  BY DEF Older, Up
<1>3. Older(k).issued \in 0..RefreshLife /\ Older(k).recorded \in 0..AccessLife
  BY <1>1, <1>2, Lives
<1>4. Older(k) \in Tokens
  BY <1>3 DEF Older, Tokens
<1>5. WellDated(k) => WellDated(Older(k))
  BY <1>1, <1>2, Lives DEF WellDated, Expired
<1>6. QED
  BY <1>1, <1>2, <1>3, <1>4, <1>5, Lives

\* ... on a request ...
LEMMA OlderRequest ==
    ASSUME TypeOK, Tick, NEW t \in Slots
    PROVE  /\ req'[t] \in Request
           /\ req'[t].pc = req[t].pc
           /\ req'[t].kind = req[t].kind
           /\ req'[t].session = req[t].session
           /\ req[t].pc # "idle" => /\ req'[t].took = req[t].took + 1
                                   /\ req'[t].tokens = Older(req[t].tokens)
<1>1. req \in [Slots -> Request] /\ req[t] \in Request
  BY DEF TypeOK
<1>2. CASE req[t].pc = "idle"
  BY <1>1, <1>2 DEF Tick
<1>3. CASE req[t].pc # "idle"
  <2> DEFINE k == Older(req[t].tokens)
  <2>1. req'[t] = [req[t] EXCEPT !.took = req[t].took + 1, !.tokens = k]
    BY <1>1, <1>3 DEF Tick
  <2>2. k \in Tokens
    BY RequestTyped, OlderTokens
  <2>3. req[t].took < Latency /\ req[t].took \in 0..Latency
    BY <1>3, RequestTyped DEF Tick
  <2>4. req[t].took + 1 \in 0..Latency
    BY <2>3, Lives
  <2> HIDE DEF k
  <2>5. req'[t] \in Request /\ req'[t].tokens = k /\ req'[t].took = req[t].took + 1
        /\ req'[t].pc = req[t].pc /\ req'[t].kind = req[t].kind
        /\ req'[t].session = req[t].session
    BY <1>1, <2>1, <2>2, <2>4 DEF Request
  <2>6. QED
    BY <2>5 DEF k
<1>4. QED
  BY <1>2, <1>3

\* ... and on a session.
LEMMA OlderSession ==
    ASSUME TypeOK, Tick, NEW s \in Sessions
    PROVE  /\ Present(s)' => Present(s) /\ store'[s] = Older(store[s])
           /\ Present(s) /\ idle[s] + 1 < TTL => store'[s] = Older(store[s]) /\ Present(s)'
           /\ Present(s) => idle'[s] <= idle[s] + 1
           /\ idle'[s] \in 0..TTL
           /\ since'[s] \in 0..(MaxLinger + 1)
           /\ since'[s] <= since[s] + 1
           /\ honoured[s] => since'[s] = 0
           /\ gap'[s] \in 0..(MaxGap + 1)
           /\ gap[s] <= MaxGap /\ Present(s) => gap'[s] = gap[s] + 1
           /\ steady'[s] = (steady[s] /\ gap'[s] <= MaxGap)
<1>1. /\ store \in [Sessions -> Tokens \cup {NoTokens}] /\ idle[s] \in 0..TTL
      /\ since[s] \in 0..(MaxLinger + 1) /\ gap[s] \in 0..(MaxGap + 1)
  BY DEF TypeOK
<1>2. /\ store'[s] = IF Present(s) /\ idle[s] + 1 < TTL THEN Older(store[s]) ELSE NoTokens
      /\ idle'[s] = IF Present(s) THEN Up(idle[s], TTL) ELSE 0
      /\ since'[s] = IF honoured[s] THEN 0 ELSE Up(since[s], MaxLinger + 1)
      /\ gap'[s] = IF Present(s) THEN Up(gap[s], MaxGap + 1) ELSE gap[s]
      /\ steady'[s] = (steady[s] /\ gap'[s] <= MaxGap)
  BY DEF Tick
<1>3. Present(s) => Older(store[s]) \in Tokens
  BY BlobTyped, OlderTokens
<1>4. Present(s) => Older(store[s]) # NoTokens
  <2>1. ASSUME Present(s) PROVE Older(store[s]).issued # -1
    <3>1. store[s] \in Tokens
      BY <2>1, BlobTyped
    <3>2. Older(store[s]).issued \in Nat
      BY <3>1, OlderTokens
    <3>3. QED
      BY <3>2
  <2>2. QED
    BY <2>1 DEF NoTokens
<1>5. Present(s)' => Present(s) /\ store'[s] = Older(store[s])
  BY <1>2 DEF Present
<1>6. Present(s) /\ idle[s] + 1 < TTL => store'[s] = Older(store[s]) /\ Present(s)'
  BY <1>2, <1>4 DEF Present
<1>7. idle'[s] \in 0..TTL /\ (Present(s) => idle'[s] <= idle[s] + 1)
  BY <1>1, <1>2, Lives DEF Up
<1>8. since'[s] \in 0..(MaxLinger + 1) /\ since'[s] <= since[s] + 1
  BY <1>1, <1>2, Lives DEF Up
<1>9. /\ gap'[s] \in 0..(MaxGap + 1)
      /\ gap[s] <= MaxGap /\ Present(s) => gap'[s] = gap[s] + 1
  BY <1>1, <1>2, Lives DEF Up
<1>10. QED
  BY <1>2, <1>5, <1>6, <1>7, <1>8, <1>9

LEMMA TickTypes ==
    ASSUME TypeOK, Tick
    PROVE  TypeOK'
<1>1. store' \in [Sessions -> Tokens \cup {NoTokens}]
  <2>1. \A s \in Sessions : Present(s) => Older(store[s]) \in Tokens
    BY BlobTyped, OlderTokens
  <2>2. QED
    BY <2>1 DEF Tick
<1>2. idle' \in [Sessions -> 0..TTL]
  BY OlderSession DEF Tick
<1>3. req' \in [Slots -> Request]
  BY OlderRequest DEF Tick
<1>4. since' \in [Sessions -> 0..(MaxLinger + 1)]
  BY OlderSession DEF Tick
<1>5. gap' \in [Sessions -> 0..(MaxGap + 1)]
  BY OlderSession DEF Tick
<1>6. steady' \in [Sessions -> BOOLEAN]
  BY DEF Tick, TypeOK
<1>7. QED
  BY <1>1, <1>2, <1>3, <1>4, <1>5, <1>6 DEF TypeOK, Tick

LEMMA TickKeeps ==
    ASSUME IInv, Tick
    PROVE  IInv'
<1>1. TypeOK /\ UNCHANGED <<cookie, logins, honoured, left>>
  BY DEF IInv, Tick
<1>2. \A s \in Sessions : InUse(s)' => InUse(s) /\ gap'[s] <= MaxGap
  BY <1>1, OlderSession DEF InUse
<1>3. \A s \in Sessions : Present(s)' => Present(s) /\ store'[s] = Older(store[s])
  BY <1>1, OlderSession
<1>4. \A t \in Slots : /\ req'[t].pc = req[t].pc /\ req'[t].session = req[t].session
                       /\ req'[t].kind = req[t].kind
  BY <1>1, OlderRequest
<1>5. TypeOK'
  BY <1>1, TickTypes
<1>6. SessionInv'
  <2>1. \A t \in Slots : Named(req[t])'
    BY <1>1, <1>4 DEF IInv, SessionInv, Named
  <2>2. \A s \in Sessions : steady'[s] => steady[s]
    BY <1>1, OlderSession
  <2>3. QED
    BY <1>1, <1>3, <2>1, <2>2 DEF IInv, SessionInv
<1>7. NewInv'
  <2>1. ASSUME NEW t \in Slots, req'[t].pc = "exchanged"
        PROVE  req[t].pc = "exchanged" /\ req[t].session \in Sessions
    BY <1>4, <2>1, AtWork DEF Working
  <2>2. \A s \in Sessions : (steady'[s] => steady[s]) /\ (~Present(s) => store'[s] = NoTokens)
    BY <1>1, <1>3, OlderSession DEF Present
  <2>3. QED
    BY <1>1, <1>4, <2>1, <2>2 DEF IInv, NewInv, Present
<1>8. LeftInv'
  <2>1. \A t \in Slots : Closed(req[t])'
    BY <1>1, <1>4 DEF IInv, LeftInv, Closed
  <2>2. QED
    BY <1>1, <1>3, <2>1 DEF IInv, LeftInv
<1>9. AgeInv'
  <2>1. ASSUME NEW s \in Sessions, Present(s)' PROVE WellDated(store[s])'
    <3>1. store'[s] = Older(store[s]) /\ store[s] \in Tokens /\ WellDated(store[s])
      BY <1>1, <1>3, <2>1, BlobTyped DEF IInv, AgeInv
    <3>2. WellDated(Older(store[s]))
      BY <3>1, OlderTokens
    <3>3. QED
      BY <3>1, <3>2 DEF WellDated, Expired
  <2>2. ASSUME NEW t \in Slots PROVE Dated(req[t])'
    <3>1. CASE req[t].pc = "idle"
      BY <1>4, <3>1 DEF Dated
    <3>2. CASE req[t].pc # "idle"
      <4> DEFINE k == req[t].tokens
      <4>1. k \in Tokens /\ req[t].took \in Nat /\ Dated(req[t])
        BY <1>1, RequestTyped, Lives DEF IInv, AgeInv
      <4>2. /\ req'[t].took = req[t].took + 1 /\ req'[t].tokens = Older(k)
            /\ req'[t].pc = req[t].pc
        BY <1>1, <3>2, OlderRequest
      <4>3. /\ k.issued \in Nat /\ Older(k).issued \in Nat /\ Older(k).issued <= k.issued + 1
            /\ WellDated(k) => WellDated(Older(k))
        BY <4>1, OlderTokens
      <4>4. req'[t].pc \in {"touch", "set"} => WellDated(Older(k))
        BY <4>1, <4>2, <4>3 DEF Dated
      <4>5. req'[t].pc \in {"refreshed", "set", "exchanged"}
            => Older(k).issued <= req[t].took + 1
        BY <4>1, <4>2, <4>3 DEF Dated
      <4>6. req'[t].pc \in {"check", "serve"} => Older(k).issued <= UseAge + (req[t].took + 1)
        BY <4>1, <4>2, <4>3, Lives DEF Dated
      <4> HIDE DEF k
      <4>7. QED
        BY <4>2, <4>4, <4>5, <4>6 DEF Dated, WellDated, Expired
    <3>3. QED
      BY <3>1, <3>2
  <2>3. QED
    BY <2>1, <2>2 DEF AgeInv
<1>10. BlobInv'
  <2>1. ASSUME NEW s \in Sessions, InUse(s)'
        PROVE  /\ Present(s)' /\ gap'[s] <= MaxGap /\ idle'[s] <= gap'[s]
               /\ store'[s].issued <= UseAge + gap'[s]
    <3>1. InUse(s) /\ gap'[s] <= MaxGap
      BY <1>2, <2>1
    <3>2. /\ Present(s) /\ gap[s] <= MaxGap /\ idle[s] <= gap[s]
          /\ store[s].issued <= UseAge + gap[s]
      BY <3>1 DEF IInv, BlobInv
    <3>3. idle[s] \in Nat /\ gap[s] \in Nat /\ gap'[s] = gap[s] + 1 /\ idle'[s] \in Nat
          /\ idle'[s] <= idle[s] + 1
      <4>1. idle[s] \in Nat /\ gap[s] \in Nat
        BY <1>1, Lives DEF TypeOK
      <4>2. idle'[s] \in 0..TTL /\ gap'[s] = gap[s] + 1 /\ idle'[s] <= idle[s] + 1
        BY <1>1, <3>2, OlderSession
      <4>3. QED
        BY <4>1, <4>2, Lives
    <3>4. idle[s] + 1 < TTL
      BY <3>1, <3>2, <3>3, Lives
    <3>5. Present(s)' /\ store'[s] = Older(store[s])
      BY <1>1, <3>2, <3>4, OlderSession
    <3>6. /\ store[s].issued \in Nat /\ Older(store[s]).issued \in Nat
          /\ Older(store[s]).issued <= store[s].issued + 1
      BY <1>1, <3>2, BlobTyped, OlderTokens
    <3>7. store'[s].issued <= UseAge + gap'[s]
      BY <3>2, <3>3, <3>5, <3>6, Lives
    <3>8. QED
      BY <3>1, <3>2, <3>3, <3>5, <3>7
  <2>2. QED
    BY <2>1 DEF BlobInv
<1>11. CopyInv'
  <2>1. ASSUME NEW t \in Slots, NEW s \in Sessions, req'[t].session = s, InUse(s)'
        PROVE  /\ req'[t].pc # "rejected"
               /\ req'[t].pc \in {"touch", "refresh"}
                  => req'[t].tokens.issued <= UseAge + MaxGap + req'[t].took
               /\ req'[t].pc = "touch" => \/ store'[s].issued <= req'[t].tokens.issued
                                         \/ store'[s].issued <= Latency + req'[t].took
    <3> DEFINE k == req[t].tokens
    <3>1. /\ InUse(s) /\ req[t].session = s /\ Copied(req[t])
          /\ req'[t].pc = req[t].pc
      BY <1>2, <1>4, <2>1 DEF IInv, CopyInv
    <3>2. /\ req[t].pc # "rejected"
          /\ req[t].pc \in {"touch", "refresh"} => k.issued <= UseAge + MaxGap + req[t].took
          /\ req[t].pc = "touch" => \/ store[s].issued <= k.issued
                                   \/ store[s].issued <= Latency + req[t].took
      BY <3>1 DEF Copied
    <3>3. ASSUME req[t].pc \in {"touch", "refresh"}
          PROVE  /\ Older(k).issued <= UseAge + MaxGap + (req[t].took + 1)
                 /\ req[t].pc = "touch" => \/ store'[s].issued <= Older(k).issued
                                          \/ store'[s].issued <= Latency + (req[t].took + 1)
      <4>1. k \in Tokens /\ req[t].took \in Nat
        BY <1>1, RequestTyped, Lives
      <4>2. k.issued \in 0..RefreshLife
        BY <1>1, RequestTyped
      <4>3. /\ k.issued \in Nat /\ Older(k).issued \in Nat /\ Older(k).issued <= k.issued + 1
            /\ k.issued < RefreshLife => Older(k).issued = k.issued + 1
            /\ k.issued >= RefreshLife => Older(k).issued = RefreshLife
        BY <4>1, OlderTokens
      <4>4. Present(s) /\ Present(s)'
        BY <1>10, <2>1, <3>1 DEF IInv, BlobInv
      <4>5. /\ store[s] \in Tokens /\ store'[s] = Older(store[s])
            /\ store[s].issued \in 0..RefreshLife
        BY <1>1, <1>3, <4>4, BlobTyped
      <4>6. /\ store[s].issued \in Nat /\ Older(store[s]).issued \in Nat
            /\ Older(store[s]).issued <= store[s].issued + 1
            /\ store[s].issued < RefreshLife => Older(store[s]).issued = store[s].issued + 1
            /\ store[s].issued >= RefreshLife => Older(store[s]).issued = RefreshLife
        BY <4>5, OlderTokens
      <4>7. Older(k).issued <= UseAge + MaxGap + (req[t].took + 1)
        BY <3>2, <3>3, <4>1, <4>3, Lives
      <4>8. store[s].issued <= k.issued => Older(store[s]).issued <= Older(k).issued
        BY <4>2, <4>3, <4>5, <4>6, Lives
      <4>9. store[s].issued <= Latency + req[t].took
            => Older(store[s]).issued <= Latency + (req[t].took + 1)
        BY <4>1, <4>6, Lives
      <4>10. QED
        BY <3>2, <4>5, <4>7, <4>8, <4>9
    <3>4. req[t].pc \in {"touch", "refresh"}
          => req'[t].took = req[t].took + 1 /\ req'[t].tokens = Older(k)
      BY <1>1, OlderRequest
    <3> HIDE DEF k
    <3>5. QED
      BY <3>1, <3>2, <3>3, <3>4
  <2>2. QED
    BY <2>1 DEF CopyInv, Copied
<1>12. EndInv'
  <2>1. \A s \in Sessions : honoured'[s] => since'[s] = 0
    BY <1>1, OlderSession
  <2>2. ASSUME NEW s \in Sessions, NEW k \in Tokens, since[s] <= k.issued
        PROVE  since'[s] <= Older(k).issued
    <3>1. /\ k.issued \in Nat /\ Older(k).issued \in Nat
          /\ k.issued < RefreshLife => Older(k).issued = k.issued + 1
          /\ k.issued >= RefreshLife => Older(k).issued = RefreshLife
      BY OlderTokens
    <3>2. since[s] \in 0..(MaxLinger + 1)
      BY <1>1 DEF TypeOK
    <3>3. since'[s] \in 0..(MaxLinger + 1) /\ since'[s] <= since[s] + 1
      BY <1>1, OlderSession
    <3>4. QED
      BY <2>2, <3>1, <3>2, <3>3, Lives
  <2>3. ASSUME NEW s \in Sessions, Present(s)' PROVE since'[s] <= store'[s].issued
    <3>1. Present(s) /\ store'[s] = Older(store[s]) /\ store[s] \in Tokens
      BY <1>1, <1>3, <2>3, BlobTyped
    <3>2. QED
      BY <2>2, <3>1 DEF IInv, EndInv
  <2>4. ASSUME NEW t \in Slots PROVE Outlived(req[t])'
    <3>1. CASE req[t].pc \in Carrying
      <4> DEFINE s == req[t].session
                 k == req[t].tokens
      <4>1. s \in Sessions /\ k \in Tokens /\ req[t].took \in Nat
        BY <1>1, <3>1, AtWork, RequestTyped, Lives DEF Carrying, Working
      <4>2. /\ req'[t].took = req[t].took + 1 /\ req'[t].tokens = Older(k)
            /\ req'[t].pc = req[t].pc /\ req'[t].kind = req[t].kind /\ req'[t].session = s
        BY <1>1, <3>1, OlderRequest DEF Carrying
      <4>3. since'[s] <= Older(k).issued
        BY <2>2, <3>1, <4>1 DEF IInv, EndInv, Outlived
      <4>4. since[s] \in Nat /\ since'[s] \in Nat /\ since'[s] <= since[s] + 1
        <5>1. since[s] \in 0..(MaxLinger + 1)
          BY <1>1, <4>1 DEF TypeOK
        <5>2. since'[s] \in 0..(MaxLinger + 1) /\ since'[s] <= since[s] + 1
          BY <1>1, <4>1, OlderSession
        <5>3. QED
          BY <5>1, <5>2, Lives
      <4>5. (req[t].pc = "serve" /\ req[t].kind = "action") => since[s] <= req[t].took
        BY DEF IInv, EndInv, Outlived
      <4>6. (req[t].pc = "serve" /\ req[t].kind = "action") => since'[s] <= req[t].took + 1
        BY <4>1, <4>4, <4>5
      <4> HIDE DEF s, k
      <4>7. QED
        BY <4>2, <4>3, <4>6 DEF Outlived
    <3>2. CASE req[t].pc \notin Carrying
      BY <1>4, <3>2 DEF Outlived, Carrying
    <3>3. QED
      BY <3>1, <3>2
  <2>5. QED
    BY <2>1, <2>3, <2>4 DEF EndInv
<1>13. QED
  BY <1>5, <1>6, <1>7, <1>8, <1>9, <1>10, <1>11, <1>12 DEF IInv
-----------------------------------------------------------------------------
LEMMA InitInv == Init => IInv
<1> SUFFICES ASSUME Init PROVE IInv
  OBVIOUS
<1>1. TypeOK
  <2>1. 0 \in 0..MaxSessions /\ 0 \in 0..0 /\ 0 \in 0..TTL /\ 0 \in 0..(MaxLinger + 1)
        /\ 0 \in 0..(MaxGap + 1)
    BY Lives
  <2>2. QED
    BY <2>1, IdleTyped DEF Init, TypeOK
<1>2. SessionInv
  BY IdleTyped DEF Init, SessionInv, Named, Working, Idle, Present
<1>3. NewInv /\ LeftInv /\ AgeInv /\ CopyInv
  BY DEF Init, NewInv, LeftInv, AgeInv, CopyInv, Closed, Dated, Copied, Idle, Present
<1>4. BlobInv
  BY DEF Init, BlobInv, InUse
<1>5. EndInv
  BY DEF Init, EndInv, Outlived, Carrying, Idle, Present
<1>6. QED
  BY <1>1, <1>2, <1>3, <1>4, <1>5 DEF IInv

LEMMA StutterKeeps == ASSUME IInv, UNCHANGED vars PROVE IInv'
  BY DEF vars, IInv, TypeOK, SessionInv, NewInv, LeftInv, AgeInv, BlobInv, CopyInv, EndInv,
         Named, Closed, Dated, Copied, Outlived, InUse, Present, WellDated, Expired

LEMMA NextKeeps == ASSUME IInv, Next PROVE IInv'
<1>1. ASSUME NEW t \in Slots, Browser(t) PROVE IInv'
  BY <1>1, SendKeeps, LoginPageKeeps, CallbackKeeps, LogoutKeeps DEF Browser
<1>2. ASSUME NEW t \in Slots, Handler(t) PROVE IInv'
  <2>1. CASE Exchange(t) \/ ExchangeFails(t) \/ StoreLogin(t) \/ DeleteOnLogout(t)
    BY <2>1, ExchangeKeeps, EndKeeps, StoreLoginKeeps, DeleteOnLogoutKeeps
  <2>2. CASE Get(t) \/ Touch(t) \/ GetFails(t)
    BY <2>2, GetKeeps, TouchKeeps, EndKeeps
  <2>3. CASE Refresh(t) \/ Reject(t) \/ BadGateway(t) \/ Unreachable(t)
    BY <2>3, RefreshKeeps, RejectKeeps, BadGatewayKeeps, EndKeeps
  <2>4. CASE Resume(t) \/ Set(t) \/ SetFails(t)
    BY <2>4, ResumeKeeps, SetKeeps, SetFailsKeeps
  <2>5. CASE Discard(t) \/ Check(t) \/ Respond(t)
    BY <2>5, DiscardKeeps, CheckKeeps, RespondKeeps
  <2>6. QED
    BY <1>2, <2>1, <2>2, <2>3, <2>4, <2>5 DEF Handler
<1>3. ASSUME NEW s \in Sessions, KeycloakEnds(s) \/ Evict(s) PROVE IInv'
  BY <1>3, KeycloakEndsKeeps, EvictKeeps
<1>4. QED
  BY <1>1, <1>2, <1>3, TickKeeps DEF Next

\* The inductive invariant holds of every reachable state.
THEOREM SessionInvariance == Spec => []IInv
<1>1. IInv /\ [Next]_vars => IInv'
  BY NextKeeps, StutterKeeps
<1>2. QED
  BY InitInv, <1>1, PTL DEF Spec

\* The variables keep their types: no request outlives Latency, no age its cap.
THEOREM SessionTypeCorrect == Spec => []TypeOK
<1>1. IInv => TypeOK
  BY DEF IInv
<1>2. QED
  BY SessionInvariance, <1>1, PTL

\* A session used every MaxGap ticks, not logged out and not ended by Keycloak is
\* in Redis, with a refresh token that Keycloak accepts, for any number of
\* requests that refresh it at the same time (get_session_user,
\* keycloak_session.py:225).
THEOREM UsedSessionIsKeptHolds == Spec => []UsedSessionIsKept
<1>1. IInv => UsedSessionIsKept
  <2> SUFFICES ASSUME IInv, NEW s \in Sessions, InUse(s)
               PROVE  Present(s) /\ Accepted(s, store[s])
    BY DEF UsedSessionIsKept, InUse
  <2>1. Present(s) /\ gap[s] <= MaxGap /\ store[s].issued <= UseAge + gap[s]
    BY DEF IInv, BlobInv
  <2>2. store[s].issued \in 0..RefreshLife /\ gap[s] \in 0..(MaxGap + 1)
    BY <2>1, BlobTyped DEF IInv, TypeOK
  <2>3. store[s].issued < RefreshLife
    BY <2>1, <2>2, Lives
  <2>4. QED
    BY <2>1, <2>3 DEF Accepted, InUse
<1>2. QED
  BY SessionInvariance, <1>1, PTL

\* After a logout that met no refresh and no RedisError the session's blob never
\* comes back, for any number of logins and of requests with the old cookie
\* (logout, keycloak_session.py:205).
THEOREM LogoutIsFinalHolds == Spec => []LogoutIsFinal
<1>1. IInv => LogoutIsFinal
  BY DEF IInv, LeftInv, LogoutIsFinal, Closed, Holding
<1>2. QED
  BY SessionInvariance, <1>1, PTL

\* A session that Keycloak has ended is refused within Latency for actions and
\* MaxLinger for screens, whatever the lives of its tokens (Touch and Check,
\* keycloak_session.py:244 and 293).
THEOREM EndedSessionIsRefusedHolds == Spec => []EndedSessionIsRefused
<1>1. IInv => EndedSessionIsRefused
  <2> SUFFICES ASSUME IInv, NEW t \in Slots, req[t].pc = "serve"
               PROVE  since[req[t].session]
                        <= IF req[t].kind = "action" THEN Latency ELSE MaxLinger
    BY DEF EndedSessionIsRefused
  <2>1. TypeOK /\ req[t].session \in Sessions
    BY AtWork DEF IInv, Working
  <2>2. /\ req[t].took \in 0..Latency /\ req[t].tokens.issued \in 0..RefreshLife
        /\ since[req[t].session] \in 0..(MaxLinger + 1)
    BY <2>1, RequestTyped DEF TypeOK
  <2>3. /\ since[req[t].session] <= req[t].tokens.issued
        /\ req[t].kind = "action" => since[req[t].session] <= req[t].took
    BY DEF IInv, EndInv, Outlived, Carrying
  <2>4. req[t].tokens.issued <= UseAge + req[t].took
    BY DEF IInv, AgeInv, Dated
  <2>5. QED
    BY <2>2, <2>3, <2>4, Lives
<1>2. QED
  BY SessionInvariance, <1>1, PTL
=============================================================================

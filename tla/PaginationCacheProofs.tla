------------------------ MODULE PaginationCacheProofs ------------------------
(***************************************************************************)
(* Proofs about PaginationCache, for any number of tabs, replicas, users,  *)
(* logins and query ids, any TTL and any latency.  IInv says of whatever   *)
(* carries a query id or a total -- a request in flight, a tab, the        *)
(* ui-memory blob, a replica's cache -- whose rows it is about and how old *)
(* its total is.                                                           *)
(***************************************************************************)
EXTENDS PaginationCache, TLAPS

-----------------------------------------------------------------------------
\* The inductive invariant.

\* Whatever replica knows this query id, it is about the rows of everybody.
ManagerQid(q) == \A r \in Replicas : q \in QueryIds => cache[r][q].filter = "all"

\* An entry that session s may be shown, if it is a manager's.
Mine(s, e) == holder[s] \in Managers => e.filter = "all" /\ ManagerQid(e.qid)

\* An entry of the blob, or a copy of one, which has not expired.
InTime(e) == e.age < TTL /\ e.counted <= e.age + Latency

\* What the request a of tab t takes along, whatever it is at.
Carried(t, a) ==
    /\ a.session \in 1..session
    /\ a.kind # "load" => tab[t].screen = Role(holder[a.session])
    /\ holder[a.session] \in Managers => ManagerQid(a.qid)
    /\ Mine(a.session, a.copy) /\ Mine(a.session, a.found)
    /\ InTime(a.copy)

\* What has been found for it is its user's, and how old that is.
Found(a) ==
    /\ holder[a.session] \in Operators => a.found.filter = holder[a.session]
    /\ a.pc = "remember" => a.found.counted <= a.took
    /\ a.pc = "render" => a.found.counted <= TTL - 1 + Latency + a.took

RequestOK(t, a) ==
    a.pc # "idle" =>
        /\ Carried(t, a)
        /\ a.pc \in {"act", "save", "fallback", "count"} => a.replica \in Replicas
        /\ a.pc \in {"remember", "render"} => Found(a)

\* The query ids of a tab's fragments: a replica knows them, or they are none.
Shown(b) == {b.rowsQid, b.pagerQid, b.toolbarQid}

TabOK(b) ==
    \A q \in Shown(b) :
        /\ q = "none" \/ (\E r \in Replicas : cache[r][q] # NoEntry)
        /\ b.screen = "manager" => ManagerQid(q)

TabInv(t) == TabOK(tab[t])

SessionInv(s) ==
    /\ s <= session => holder[s] \in Users
    /\ s > session => memory[s] = NoEntry
    /\ Mine(s, memory[s])
    /\ InTime(memory[s])

CacheInv(r, q) ==
    /\ cache[r][q].age < TTL /\ cache[r][q].counted <= cache[r][q].age
    /\ cache[r][q] # NoEntry => cache[r][q].qid = q

IInv ==
    /\ TypeOK
    /\ \A t \in Tabs : RequestOK(t, req[t])
    /\ \A t \in Tabs : TabInv(t)
    /\ \A s \in Sessions : SessionInv(s)
    /\ \A r \in Replicas, q \in QueryIds : CacheInv(r, q)

USE BoundsAssumption, UsersAssumption, IdsAssumption

-----------------------------------------------------------------------------
\* What the actions are built from.

LEMMA NoEntryTyped == NoEntry \in Entry /\ \A s : Mine(s, NoEntry) /\ InTime(NoEntry)
BY DEF NoEntry, Entry, Filters, MaxAge, Mine, InTime, ManagerQid

LEMMA IdleTyped == Idle \in Request /\ Idle.pc = "idle"
<1>1. NoEntry \in Entry
  BY NoEntryTyped
<1>2. QED
  BY <1>1 DEF Idle, Request, Sessions

\* A new request of the session in the cookie.
LEMMA SentTyped ==
    ASSUME TypeOK, NEW r \in Replicas, NEW k \in {"load", "poll", "turn", "check", "checkAll", "bulk"},
           NEW q \in QueryIds \cup {"none", "empty"}
    PROVE  /\ Sent(r, k, q) \in Request
           /\ Sent(r, k, q).kind = k /\ Sent(r, k, q).qid = q /\ Sent(r, k, q).replica = r
           /\ Sent(r, k, q).session = session /\ Sent(r, k, q).took = 0
           /\ Sent(r, k, q).found = NoEntry /\ Sent(r, k, q).copy = NoEntry
<1>1. Idle \in Request /\ session \in Sessions \cup {0}
  BY IdleTyped DEF TypeOK
<1>2. QED
  BY <1>1 DEF Sent, Request, Idle

\* A request that has found e.
LEMMA AnsweredTyped ==
    ASSUME NEW a \in Request, NEW e \in Entry
    PROVE  /\ Answered(a, e) \in Request
           /\ Answered(a, e).pc = "render" /\ Answered(a, e).found = e
           /\ Answered(a, e).qid = "none" /\ Answered(a, e).kind = a.kind
           /\ Answered(a, e).session = a.session /\ Answered(a, e).took = a.took
           /\ Answered(a, e).copy = a.copy
BY DEF Answered, Request

\* What the entries of the caches and of the blobs are.
LEMMA EntriesTyped ==
    ASSUME IInv
    PROVE  /\ \A r \in Replicas, q \in QueryIds : cache[r][q] \in Entry /\ CacheInv(r, q)
           /\ \A s \in Sessions : memory[s] \in Entry /\ SessionInv(s)
           /\ \A t \in Tabs : req[t] \in Request /\ RequestOK(t, req[t])
           /\ \A t \in Tabs : tab[t] \in Tab /\ TabInv(t)
           /\ session \in Sessions \cup {0}
BY DEF IInv, TypeOK

\* A session in use is a user's.
LEMMA HolderKnown ==
    ASSUME IInv, NEW s \in 1..session
    PROVE  s \in Sessions /\ holder[s] \in Users
<1>1. s \in Sessions
  BY DEF IInv, TypeOK, Sessions
<1>2. SessionInv(s) /\ session \in Int
  BY <1>1 DEF IInv, TypeOK, Sessions
<1>3. QED
  BY <1>1, <1>2 DEF SessionInv

\* A manager is whoever is shown the manager's screen.
LEMMA RoleOfManagers ==
    ASSUME NEW u \in Users
    PROVE  Role(u) = "manager" <=> u \in Managers
BY DEF Role, Users

\* A step of one request, which may store one entry in the blob of a session.
LEMMA RequestMoves ==
    ASSUME IInv, NEW t \in Tabs, NEW a \in Request, RequestOK(t, a),
           req' = [req EXCEPT ![t] = a],
           UNCHANGED <<cache, holder, session, tab>>,
           NEW s \in Sessions, NEW e \in Entry,
           \/ memory' = memory
           \/ /\ memory' = [memory EXCEPT ![s] = e]
              /\ s <= session /\ Mine(s, e) /\ InTime(e)
    PROVE  IInv'
<1>1. TypeOK'
  <2>1. req' \in [Tabs -> Request]
    BY DEF IInv, TypeOK
  <2>2. memory' \in [Sessions -> Entry]
    BY DEF IInv, TypeOK
  <2>3. QED
    BY <2>1, <2>2 DEF IInv, TypeOK
<1>2. \A q : ManagerQid(q)' <=> ManagerQid(q)
  BY DEF ManagerQid
<1>3. \A r, d : Mine(r, d)' <=> Mine(r, d)
  BY <1>2 DEF Mine
<1>4. \A u, b : Carried(u, b)' <=> Carried(u, b)
  BY <1>2, <1>3 DEF Carried
<1>5. ASSUME NEW u \in Tabs
      PROVE  RequestOK(u, req[u])'
  <2>1. (u = t /\ req'[u] = a) \/ req'[u] = req[u]
    BY DEF IInv, TypeOK
  <2>2. RequestOK(u, req'[u])
    BY <2>1 DEF IInv
  <2>3. QED
    BY <2>2, <1>4 DEF RequestOK, Found
<1>6. ASSUME NEW u \in Tabs
      PROVE  TabInv(u)'
  BY <1>2 DEF IInv, TabInv, TabOK, Shown
<1>7. ASSUME NEW r \in Sessions
      PROVE  SessionInv(r)'
  <2>1. SessionInv(r)
    BY DEF IInv
  <2>2. CASE memory'[r] = memory[r]
    BY <2>1, <2>2, <1>2 DEF SessionInv, Mine, InTime
  <2>3. CASE memory'[r] # memory[r]
    <3>1. r = s /\ memory'[r] = e /\ s <= session /\ Mine(s, e) /\ InTime(e)
      BY <2>3 DEF IInv, TypeOK
    <3>2. session \in Int /\ s \in Int
      BY DEF IInv, TypeOK, Sessions
    <3>3. QED
      BY <2>1, <3>1, <3>2, <1>2 DEF SessionInv, Mine, InTime
  <2>4. QED
    BY <2>2, <2>3
<1>8. ASSUME NEW r \in Replicas, NEW q \in QueryIds
      PROVE  CacheInv(r, q)'
  BY DEF IInv, CacheInv
<1>9. QED
  BY <1>1, <1>5, <1>6, <1>7, <1>8 DEF IInv

\* A request resolves its query id here, or will ask Redis.
LEMMA ResolveKeeps ==
    ASSUME IInv, NEW t \in Tabs, NEW a \in Request, a.replica \in Replicas,
           a.qid # "empty", Carried(t, a), Resolve(t, a),
           UNCHANGED <<cache, holder, session, tab>>,
           NEW s \in Sessions, NEW m \in Entry,
           \/ memory' = memory
           \/ /\ memory' = [memory EXCEPT ![s] = m]
              /\ s <= session /\ Mine(s, m) /\ InTime(m)
    PROVE  IInv'
<1> DEFINE e == cache[a.replica][a.qid]
           hit == Cached(a.replica, a.qid) /\ Trusted(a.session, e)
           asks == [a EXCEPT !.pc = "fallback", !.qid = "none"]
<1>1. CASE hit
  <2>1. a.qid \in QueryIds
    BY <1>1 DEF Cached, Request
  <2>2. e \in Entry /\ CacheInv(a.replica, a.qid)
    BY <2>1, EntriesTyped
  <2>3. e.age < TTL /\ e.counted <= e.age /\ e.qid = a.qid
    BY <1>1, <2>2 DEF CacheInv, Cached
  <2>4. Mine(a.session, e)
    BY <2>1, <2>3 DEF Mine, ManagerQid, Carried
  <2>5. holder[a.session] \in Operators => e.filter = holder[a.session]
    BY <1>1 DEF Trusted
  <2>6. e.counted <= TTL - 1 + Latency + a.took
    BY <2>2, <2>3 DEF Request, Entry
  <2> HIDE DEF e
  <2>7. Answered(a, e) \in Request /\ RequestOK(t, Answered(a, e))
    BY <2>2, <2>4, <2>5, <2>6, AnsweredTyped DEF RequestOK, Carried, Found, ManagerQid
  <2>8. req' = [req EXCEPT ![t] = Answered(a, e)]
    BY <1>1 DEF Resolve, e
  <2>9. QED
    BY <2>7, <2>8, RequestMoves
<1>2. CASE ~hit
  <2>1. /\ asks \in Request /\ asks.pc = "fallback" /\ asks.qid = "none"
        /\ asks.session = a.session /\ asks.kind = a.kind /\ asks.replica = a.replica
        /\ asks.copy = a.copy /\ asks.found = a.found
    BY DEF Request
  <2>2. req' = [req EXCEPT ![t] = asks]
    BY <1>2 DEF Resolve
  <2> HIDE DEF asks
  <2>3. RequestOK(t, asks)
    BY <2>1 DEF RequestOK, Carried, ManagerQid
  <2>4. QED
    BY <2>1, <2>2, <2>3, RequestMoves
<1>3. QED
  BY <1>1, <1>2

-----------------------------------------------------------------------------
\* The browser's actions.

\* What is common to whatever the browser sends.
LEMMA SentCarries ==
    ASSUME IInv, NEW t \in Tabs, NEW r \in Replicas, CanSend(t),
           NEW k \in {"load", "poll", "turn", "check", "checkAll", "bulk"},
           NEW q \in QueryIds \cup {"none", "empty"},
           k # "load" => Admitted(t),
           q \in {"none", "empty"} \cup Shown(tab[t]),
           k = "load" => q = "none"
    PROVE  /\ session \in Sessions /\ session \in 1..session
           /\ Carried(t, Sent(r, k, q))
<1>1. session \in Sessions /\ session \in 1..session
  BY EntriesTyped DEF CanSend, Sessions
<1>2. holder[session] \in Users
  BY <1>1, HolderKnown
<1>3. holder[session] \in Managers => ManagerQid(q)
  <2>1. CASE q \in {"none", "empty"}
    BY <2>1 DEF ManagerQid
  <2>2. CASE q \notin {"none", "empty"} /\ holder[session] \in Managers
    <3>1. tab[t].screen = "manager" /\ TabInv(t)
      BY <1>2, <2>2, RoleOfManagers, EntriesTyped DEF Admitted
    <3>2. QED
      BY <2>2, <3>1 DEF TabInv, TabOK
  <2>3. QED
    BY <2>1, <2>2
<1>4. Mine(session, NoEntry) /\ InTime(NoEntry)
  BY NoEntryTyped
<1>5. k # "load" => tab[t].screen = Role(holder[session])
  BY DEF Admitted
<1> DEFINE a == Sent(r, k, q)
<1>6. a.kind = k /\ a.qid = q /\ a.session = session /\ a.found = NoEntry /\ a.copy = NoEntry
  BY SentTyped DEF IInv
<1> HIDE DEF a
<1>7. Carried(t, a)
  BY <1>1, <1>3, <1>4, <1>5, <1>6 DEF Carried
<1>8. QED
  BY <1>1, <1>7 DEF a

\* A request that reads the blob before anything else.
LEMMA ReadsBlob ==
    ASSUME IInv, NEW t \in Tabs, NEW r \in Replicas, CanSend(t),
           NEW k \in {"load", "check", "checkAll"}, NEW q \in QueryIds \cup {"none", "empty"},
           k # "load" => Admitted(t), q \in {"none", "empty"} \cup Shown(tab[t]),
           k = "load" => q = "none", Selects(t, r, k, q),
           UNCHANGED <<cache, holder, session, memory, tab>>
    PROVE  IInv'
<1> DEFINE b == Sent(r, k, q)
           a == [b EXCEPT !.pc = "save", !.copy = memory[session]]
<1>1. session \in Sessions /\ Carried(t, b)
  BY SentCarries
<1>2. b \in Request /\ b.replica = r /\ b.session = session
  BY SentTyped DEF IInv
<1>3. memory[session] \in Entry /\ Mine(session, memory[session]) /\ InTime(memory[session])
  BY <1>1, EntriesTyped DEF SessionInv
<1> HIDE DEF b
<1>4. /\ a \in Request /\ a.pc = "save" /\ a.copy = memory[session] /\ a.replica = r
      /\ a.session = b.session /\ a.kind = b.kind /\ a.qid = b.qid /\ a.found = b.found
  BY <1>2, <1>3 DEF Request
<1>5. req' = [req EXCEPT ![t] = a]
  BY DEF b, Selects
<1> HIDE DEF a
<1>6. RequestOK(t, a)
  BY <1>1, <1>2, <1>3, <1>4 DEF RequestOK, Carried
<1>7. QED
  BY <1>1, <1>3, <1>4, <1>5, <1>6, RequestMoves

LEMMA LoadPageInv == ASSUME IInv, NEW t \in Tabs, NEW r \in Replicas, LoadPage(t, r) PROVE IInv'
BY ReadsBlob DEF LoadPage

LEMMA CheckInv == ASSUME IInv, NEW t \in Tabs, NEW r \in Replicas, Check(t, r) PROVE IInv'
<1>1. PICK q \in {tab[t].rowsQid, "empty"} : Selects(t, r, "check", q)
  BY DEF Check
<1>2. CanSend(t) /\ Admitted(t) /\ UNCHANGED <<cache, holder, session, memory, tab>>
  BY DEF Check
<1>3. q \in QueryIds \cup {"none", "empty"} /\ q \in {"none", "empty"} \cup Shown(tab[t])
  BY <1>1, EntriesTyped DEF Tab, Shown
<1>4. QED
  BY <1>1, <1>2, <1>3, ReadsBlob

LEMMA CheckAllInv == ASSUME IInv, NEW t \in Tabs, NEW r \in Replicas, CheckAll(t, r) PROVE IInv'
<1>1. PICK q : q = tab[t].pagerQid
  OBVIOUS
<1>2. /\ CanSend(t) /\ Admitted(t) /\ UNCHANGED <<cache, holder, session, memory, tab>>
      /\ Selects(t, r, "checkAll", q)
  BY <1>1 DEF CheckAll
<1>3. q \in QueryIds \cup {"none", "empty"} /\ q \in {"none", "empty"} \cup Shown(tab[t])
  BY <1>1, EntriesTyped DEF Tab, Shown
<1>4. QED
  BY <1>2, <1>3, ReadsBlob

LEMMA CreateInv == ASSUME IInv, NEW t \in Tabs, NEW r \in Replicas, Create(t, r) PROVE IInv'
<1> DEFINE b == Sent(r, "load", "none")
           a == [b EXCEPT !.pc = "count"]
<1>1. CanSend(t) /\ UNCHANGED <<cache, holder, session, memory, tab>>
  BY DEF Create
<1>2. session \in Sessions /\ Carried(t, b)
  BY <1>1, SentCarries
<1>3. b \in Request /\ b.replica = r
  BY SentTyped DEF IInv
<1>4. req' = [req EXCEPT ![t] = a]
  BY DEF Create
<1> HIDE DEF b
<1>5. /\ a \in Request /\ a.pc = "count" /\ a.copy = b.copy /\ a.replica = r
      /\ a.session = b.session /\ a.kind = b.kind /\ a.qid = b.qid /\ a.found = b.found
  BY <1>3 DEF Request
<1> HIDE DEF a
<1>6. RequestOK(t, a)
  BY <1>2, <1>5 DEF RequestOK, Carried
<1>7. QED
  BY <1>1, <1>2, <1>4, <1>5, <1>6, NoEntryTyped, RequestMoves

\* A request that resolves the query id of its tab.
LEMMA SendsQid ==
    ASSUME IInv, NEW t \in Tabs, NEW r \in Replicas, CanSend(t), Admitted(t),
           NEW k \in {"poll", "turn"}, NEW q \in QueryIds \cup {"none"},
           q \in Shown(tab[t]), Resolve(t, Sent(r, k, q)),
           UNCHANGED <<cache, holder, session, memory, tab>>
    PROVE  IInv'
<1>1. session \in Sessions /\ Carried(t, Sent(r, k, q))
  BY SentCarries
<1>2. /\ Sent(r, k, q) \in Request /\ Sent(r, k, q).replica = r
      /\ Sent(r, k, q).qid = q /\ q # "empty"
  BY SentTyped DEF IInv
<1>3. QED
  BY <1>1, <1>2, NoEntryTyped, ResolveKeeps

LEMMA PollInv == ASSUME IInv, NEW t \in Tabs, NEW r \in Replicas, Poll(t, r) PROVE IInv'
<1>1. tab[t].rowsQid \in QueryIds \cup {"none"}
  BY EntriesTyped DEF Tab
<1>2. QED
  BY <1>1, SendsQid DEF Poll, Shown

LEMMA TurnInv == ASSUME IInv, NEW t \in Tabs, NEW r \in Replicas, Turn(t, r) PROVE IInv'
<1>1. tab[t].pagerQid \in QueryIds \cup {"none"}
  BY EntriesTyped DEF Tab
<1>2. QED
  BY <1>1, SendsQid DEF Turn, Shown

LEMMA BulkInv == ASSUME IInv, NEW t \in Tabs, NEW r \in Replicas, Bulk(t, r) PROVE IInv'
<1> DEFINE q == tab[t].toolbarQid
           b == Sent(r, "bulk", q)
           a == [b EXCEPT !.pc = "act"]
<1>1. CanSend(t) /\ Admitted(t) /\ UNCHANGED <<cache, holder, session, memory, tab>>
  BY DEF Bulk
<1>2. q \in QueryIds \cup {"none", "empty"} /\ q \in {"none", "empty"} \cup Shown(tab[t])
  BY EntriesTyped DEF Tab, Shown
<1>3. req' = [req EXCEPT ![t] = a]
  BY DEF Bulk
<1> HIDE DEF q
<1>4. session \in Sessions /\ Carried(t, b)
  BY <1>1, <1>2, SentCarries
<1>5. b \in Request /\ b.replica = r
  BY <1>2, SentTyped DEF IInv
<1> HIDE DEF b
<1>6. /\ a \in Request /\ a.pc = "act" /\ a.copy = b.copy /\ a.replica = r
      /\ a.session = b.session /\ a.kind = b.kind /\ a.qid = b.qid /\ a.found = b.found
  BY <1>5 DEF Request
<1> HIDE DEF a
<1>7. RequestOK(t, a)
  BY <1>4, <1>6 DEF RequestOK, Carried
<1>8. QED
  BY <1>1, <1>3, <1>4, <1>6, <1>7, NoEntryTyped, RequestMoves

-----------------------------------------------------------------------------
\* The handlers' actions.

\* A request that is not idle has a session, and carries what it should.
LEMMA Pending ==
    ASSUME IInv, NEW t \in Tabs, req[t].pc # "idle"
    PROVE  /\ req[t] \in Request /\ Carried(t, req[t])
           /\ req[t].session \in Sessions /\ req[t].session <= session
           /\ holder[req[t].session] \in Users
           /\ SessionInv(req[t].session) /\ memory[req[t].session] \in Entry
           /\ req[t].pc \in {"act", "save", "fallback", "count"} => req[t].replica \in Replicas
           /\ req[t].pc \in {"remember", "render"} => Found(req[t])
<1>1. req[t] \in Request /\ RequestOK(t, req[t])
  BY EntriesTyped
<1>2. Carried(t, req[t]) /\ req[t].session \in 1..session
  BY <1>1 DEF RequestOK, Carried
<1>3. req[t].session \in Sessions /\ holder[req[t].session] \in Users
  BY <1>2, HolderKnown
<1>4. QED
  BY <1>1, <1>2, <1>3, EntriesTyped DEF RequestOK

\* A request that will count the rows next, or that has just found e.
LEMMA GoesOn ==
    ASSUME IInv, NEW t \in Tabs, req[t].pc # "idle",
           NEW a \in Request, a.session = req[t].session, a.kind = req[t].kind,
           a.qid = req[t].qid, a.found = req[t].found,
           a.copy \in {req[t].copy, NoEntry}
    PROVE  Carried(t, a)
<1>1. Carried(t, req[t])
  BY Pending
<1>2. Mine(a.session, NoEntry) /\ InTime(NoEntry)
  BY NoEntryTyped
<1>3. CASE a.copy = req[t].copy
  BY <1>1, <1>3 DEF Carried
<1>4. CASE a.copy = NoEntry
  BY <1>1, <1>2, <1>4 DEF Carried
<1>5. QED
  BY <1>3, <1>4

LEMMA ActedInv == ASSUME IInv, NEW t \in Tabs, Acted(t) PROVE IInv'
<1> DEFINE s == req[t].session
           a == [req[t] EXCEPT !.pc = "save", !.copy = memory[s]]
<1>1. req[t].pc = "act" /\ UNCHANGED <<cache, holder, session, memory, tab>>
  BY DEF Acted
<1>2. /\ req[t] \in Request /\ Carried(t, req[t]) /\ s \in Sessions
      /\ SessionInv(s) /\ memory[s] \in Entry /\ req[t].replica \in Replicas
  BY <1>1, Pending
<1>3. Mine(s, memory[s]) /\ InTime(memory[s])
  BY <1>2 DEF SessionInv
<1>4. CASE req' = [req EXCEPT ![t] = Idle]
  <2>1. RequestOK(t, Idle)
    BY IdleTyped DEF RequestOK
  <2>2. QED
    BY <1>1, <1>2, <1>4, <2>1, IdleTyped, RequestMoves
<1>5. CASE req' = [req EXCEPT ![t] = a]
  <2>1. /\ a \in Request /\ a.pc = "save" /\ a.copy = memory[s] /\ a.replica = req[t].replica
        /\ a.session = s /\ a.kind = req[t].kind /\ a.qid = req[t].qid /\ a.found = req[t].found
    BY <1>2 DEF Request
  <2> HIDE DEF a
  <2>2. RequestOK(t, a)
    BY <1>2, <1>3, <2>1 DEF RequestOK, Carried
  <2>3. QED
    BY <1>1, <1>2, <1>5, <2>1, <2>2, RequestMoves
<1>6. QED
  BY <1>4, <1>5 DEF Acted

LEMMA SaveMemoryInv == ASSUME IInv, NEW t \in Tabs, SaveMemory(t) PROVE IInv'
<1> DEFINE a == [req[t] EXCEPT !.copy = NoEntry]
           b == [a EXCEPT !.pc = "count", !.qid = "none"]
           s == req[t].session
           m == req[t].copy
<1>1. req[t].pc = "save" /\ UNCHANGED <<cache, holder, session, tab>>
  BY DEF SaveMemory
<1>2. /\ req[t] \in Request /\ Carried(t, req[t]) /\ s \in Sessions /\ s <= session
      /\ req[t].replica \in Replicas
  BY <1>1, Pending
<1>3. m \in Entry /\ Mine(s, m) /\ InTime(m)
  BY <1>2 DEF Carried, Request
<1>4. /\ a \in Request /\ a.replica = req[t].replica
      /\ a.session = s /\ a.kind = req[t].kind /\ a.qid = req[t].qid
      /\ a.found = req[t].found /\ a.copy = NoEntry
  BY <1>2, NoEntryTyped DEF Request
<1>5. memory' = memory \/ memory' = [memory EXCEPT ![s] = m]
  BY DEF SaveMemory
<1>6. \/ req' = [req EXCEPT ![t] = b]
      \/ Resolve(t, a) /\ req[t].qid # "empty"
  BY DEF SaveMemory
<1> HIDE DEF a, s, m
<1>7. CASE Resolve(t, a) /\ req[t].qid # "empty"
  <2>1. Carried(t, a)
    BY <1>1, <1>4, GoesOn DEF s
  <2>2. QED
    BY <1>1, <1>2, <1>3, <1>4, <1>5, <1>7, <2>1, ResolveKeeps
<1>8. CASE req' = [req EXCEPT ![t] = b]
  <2>1. /\ b \in Request /\ b.replica = a.replica /\ b.pc = "count"
        /\ b.session = s /\ b.kind = req[t].kind /\ b.qid = "none"
        /\ b.found = req[t].found /\ b.copy = NoEntry
    BY <1>4 DEF Request
  <2> HIDE DEF b
  <2>2. Carried(t, b)
    BY <1>2, <2>1, NoEntryTyped DEF Carried, ManagerQid, s
  <2>3. RequestOK(t, b)
    BY <1>2, <1>4, <2>1, <2>2 DEF RequestOK
  <2>4. QED
    BY <1>1, <1>2, <1>3, <1>5, <1>8, <2>1, <2>3, RequestMoves
<1>9. QED
  BY <1>6, <1>7, <1>8

\* Redis did not help: the rows are counted again.
LEMMA WillCount ==
    ASSUME IInv, NEW t \in Tabs, req[t].pc = "fallback", Step(t, "count"),
           UNCHANGED <<cache, holder, session, memory, tab>>
    PROVE  IInv'
<1> DEFINE a == [req[t] EXCEPT !.pc = "count"]
<1>1. req[t] \in Request /\ req[t].session \in Sessions /\ req[t].replica \in Replicas
  BY Pending
<1>2. /\ a \in Request /\ a.pc = "count" /\ a.replica = req[t].replica
      /\ a.session = req[t].session /\ a.kind = req[t].kind /\ a.qid = req[t].qid
      /\ a.found = req[t].found /\ a.copy = req[t].copy
  BY <1>1 DEF Request
<1>3. req' = [req EXCEPT ![t] = a]
  BY DEF Step
<1> HIDE DEF a
<1>4. Carried(t, a)
  BY <1>2, GoesOn
<1>5. RequestOK(t, a)
  BY <1>1, <1>2, <1>4 DEF RequestOK
<1>6. QED
  BY <1>1, <1>2, <1>3, <1>5, NoEntryTyped, RequestMoves

LEMMA FallbackFailsInv == ASSUME IInv, NEW t \in Tabs, FallbackFails(t) PROVE IInv'
BY WillCount DEF FallbackFails

LEMMA FallbackInv == ASSUME IInv, NEW t \in Tabs, Fallback(t) PROVE IInv'
<1> DEFINE e == memory[req[t].session]
<1>1. req[t].pc = "fallback" /\ UNCHANGED <<cache, holder, session, memory, tab>>
  BY DEF Fallback
<1>2. CASE Step(t, "count")
  BY <1>1, <1>2, WillCount
<1>3. CASE Usable(req[t].session, e) /\ req' = [req EXCEPT ![t] = Answered(req[t], e)]
  <2>1. /\ req[t] \in Request /\ Carried(t, req[t]) /\ req[t].session \in Sessions
        /\ SessionInv(req[t].session) /\ e \in Entry
    BY <1>1, Pending
  <2>2. Mine(req[t].session, e) /\ InTime(e)
    BY <2>1 DEF SessionInv
  <2>3. holder[req[t].session] \in Operators => e.filter = holder[req[t].session]
    BY <1>3 DEF Usable, Trusted
  <2>4. e.counted <= TTL - 1 + Latency + req[t].took
    BY <2>1, <2>2 DEF InTime, Entry, Request
  <2> HIDE DEF e
  <2>5. Answered(req[t], e) \in Request /\ RequestOK(t, Answered(req[t], e))
    BY <2>1, <2>2, <2>3, <2>4, AnsweredTyped DEF RequestOK, Carried, Found, ManagerQid
  <2>6. QED
    BY <1>1, <1>3, <2>1, <2>5, NoEntryTyped, RequestMoves
<1>4. QED
  BY <1>2, <1>3 DEF Fallback

LEMMA RememberInv == ASSUME IInv, NEW t \in Tabs, Remember(t) PROVE IInv'
<1> DEFINE a == [req[t] EXCEPT !.pc = "render"]
           s == req[t].session
           e == [req[t].found EXCEPT !.age = 0]
<1>1. req[t].pc = "remember" /\ UNCHANGED <<cache, holder, session, tab>>
  BY DEF Remember
<1>2. /\ req[t] \in Request /\ Carried(t, req[t]) /\ s \in Sessions /\ s <= session
      /\ Found(req[t])
  BY <1>1, Pending
<1>3. req[t].found \in Entry /\ req[t].took \in 0..Latency
  BY <1>2 DEF Request
<1>4. /\ e \in Entry /\ e.age = 0 /\ e.counted = req[t].found.counted
      /\ e.filter = req[t].found.filter /\ e.qid = req[t].found.qid
  BY <1>3 DEF Entry
<1>5. req[t].found.counted <= req[t].took /\ req[t].found.counted \in Int
  BY <1>1, <1>2, <1>3 DEF Found, Entry
<1>6. memory' = memory \/ memory' = [memory EXCEPT ![s] = e]
  BY DEF Remember
<1>7. req' = [req EXCEPT ![t] = a]
  BY DEF Remember, Step
<1>8. /\ a \in Request /\ a.pc = "render" /\ a.took = req[t].took
      /\ a.session = req[t].session /\ a.kind = req[t].kind /\ a.qid = req[t].qid
      /\ a.found = req[t].found /\ a.copy = req[t].copy
  BY <1>2 DEF Request
<1> HIDE DEF a, e
<1>9. Mine(s, e) /\ InTime(e)
  <2>1. Mine(s, e)
    BY <1>2, <1>4 DEF Mine, Carried
  <2>2. QED
    BY <1>3, <1>4, <1>5, <2>1 DEF InTime
<1>10. Carried(t, a)
  BY <1>1, <1>8, GoesOn
<1>11. Found(a)
  BY <1>2, <1>3, <1>5, <1>8 DEF Found
<1>12. RequestOK(t, a)
  BY <1>8, <1>10, <1>11 DEF RequestOK
<1> HIDE DEF s
<1>13. QED
  BY <1>1, <1>2, <1>4, <1>6, <1>7, <1>8, <1>9, <1>12, RequestMoves

\* What a tab holds of a query id.
LEMMA HeldIs ==
    ASSUME NEW c, NEW q \in QueryIds \cup {"none"}
    PROVE  /\ Held(c, q) \in QueryIds \cup {"none"}
           /\ Held(c, q) \in {q, "none"}
           /\ Held(c, q) = "none" \/ (\E r \in Replicas : c[r][Held(c, q)] # NoEntry)
BY DEF Held

LEMMA RenderInv == ASSUME IInv, NEW t \in Tabs, Render(t) PROVE IInv'
<1> DEFINE e == req[t].found
           s == req[t].session
           x == Held(cache, e.qid)
<1>1. /\ req[t].pc = "render" /\ UNCHANGED <<cache, holder, session, memory>>
      /\ req' = [req EXCEPT ![t] = Idle]
  BY DEF Render
<1>2. /\ req[t] \in Request /\ Carried(t, req[t]) /\ holder[s] \in Users /\ e \in Entry
  BY <1>1, Pending DEF Request
<1>3. /\ x \in QueryIds \cup {"none"}
      /\ x = "none" \/ (\E r \in Replicas : cache[r][x] # NoEntry)
  BY <1>2, HeldIs DEF Entry
<1>4. Role(holder[s]) = "manager" => ManagerQid(x)
  <2>1. holder[s] \in Managers => ManagerQid(e.qid)
    BY <1>2 DEF Carried, Mine
  <2>2. ManagerQid("none") /\ x \in {e.qid, "none"}
    BY <1>2, HeldIs DEF Entry, ManagerQid
  <2>3. QED
    BY <1>2, <2>1, <2>2, RoleOfManagers
<1>5. PICK b \in Tab : tab' = [tab EXCEPT ![t] = b] /\ TabOK(b)
  <2>1. tab[t] \in Tab /\ TabOK(tab[t])
    BY EntriesTyped DEF TabInv
  <2>2. CASE tab' = [tab EXCEPT ![t] = [screen |-> Role(holder[s]), rowsQid |-> x,
                                        pagerQid |-> x, toolbarQid |-> x]]
    <3> DEFINE b == [screen |-> Role(holder[s]), rowsQid |-> x, pagerQid |-> x, toolbarQid |-> x]
    <3> HIDE DEF x
    <3>1. b \in Tab
      BY <1>3 DEF Tab, Role
    <3>2. Shown(b) = {x} /\ b.screen = Role(holder[s])
      BY DEF Shown
    <3>3. TabOK(b)
      BY <1>3, <1>4, <3>2 DEF TabOK
    <3>4. QED
      BY <2>2, <3>1, <3>3
  <2>3. ASSUME NEW b \in Tab, b.screen = tab[t].screen, Shown(b) \subseteq Shown(tab[t]) \cup {x},
               tab[t].screen = Role(holder[s])
        PROVE  TabOK(b)
    BY <1>3, <1>4, <2>1, <2>3 DEF TabOK
  <2>4. req[t].kind # "load" => tab[t].screen = Role(holder[s])
    BY <1>2 DEF Carried
  <2>5. CASE req[t].kind = "poll" /\ tab' = [tab EXCEPT ![t] = [tab[t] EXCEPT !.rowsQid = x]]
    <3> DEFINE b == [tab[t] EXCEPT !.rowsQid = x]
    <3>1. b \in Tab /\ b.screen = tab[t].screen /\ Shown(b) \subseteq Shown(tab[t]) \cup {x}
      BY <1>3, <2>1 DEF Tab, Shown
    <3>2. QED
      BY <2>3, <2>4, <2>5, <3>1
  <2>6. CASE req[t].kind = "checkAll" /\ tab' = [tab EXCEPT ![t] = [tab[t] EXCEPT !.rowsQid = x, !.toolbarQid = x]]
    <3> DEFINE b == [tab[t] EXCEPT !.rowsQid = x, !.toolbarQid = x]
    <3>1. b \in Tab /\ b.screen = tab[t].screen /\ Shown(b) \subseteq Shown(tab[t]) \cup {x}
      BY <1>3, <2>1 DEF Tab, Shown
    <3>2. QED
      BY <2>3, <2>4, <2>6, <3>1
  <2>7. CASE req[t].kind = "check" /\ tab' = [tab EXCEPT ![t] = [tab[t] EXCEPT !.toolbarQid = x]]
    <3> DEFINE b == [tab[t] EXCEPT !.toolbarQid = x]
    <3>1. b \in Tab /\ b.screen = tab[t].screen /\ Shown(b) \subseteq Shown(tab[t]) \cup {x}
      BY <1>3, <2>1 DEF Tab, Shown
    <3>2. QED
      BY <2>3, <2>4, <2>7, <3>1
  <2>8. QED
    BY <2>2, <2>5, <2>6, <2>7 DEF Render
<1> HIDE DEF e, s, x
<1>6. TypeOK'
  BY <1>1, <1>5, IdleTyped DEF IInv, TypeOK
<1>7. \A q : ManagerQid(q)' <=> ManagerQid(q)
  BY <1>1 DEF ManagerQid
<1>8. ASSUME NEW u \in Tabs
      PROVE  RequestOK(u, req[u])' /\ TabInv(u)'
  <2>1. CASE u = t
    <3>1. req'[u] = Idle /\ tab'[u] = b
      BY <1>1, <1>5, <2>1 DEF IInv, TypeOK
    <3>2. RequestOK(u, req[u])'
      BY <3>1, IdleTyped DEF RequestOK
    <3>3. TabInv(u)'
      BY <3>1, <1>1, <1>5, <1>7 DEF TabInv, TabOK
    <3>4. QED
      BY <3>2, <3>3
  <2>2. CASE u # t
    <3>1. req'[u] = req[u] /\ tab'[u] = tab[u]
      BY <1>1, <1>5, <2>2 DEF IInv, TypeOK
    <3>2. RequestOK(u, req[u]) /\ TabInv(u)
      BY EntriesTyped
    <3>3. QED
      BY <1>1, <1>7, <3>1, <3>2 DEF RequestOK, Carried, Found, Mine, InTime, TabInv, TabOK, Shown
  <2>3. QED
    BY <2>1, <2>2
<1>9. ASSUME NEW r \in Sessions
      PROVE  SessionInv(r)'
  BY <1>1, <1>7, EntriesTyped DEF SessionInv, Mine, InTime
<1>10. ASSUME NEW r \in Replicas, NEW q \in QueryIds
       PROVE  CacheInv(r, q)'
  BY <1>1, EntriesTyped DEF CacheInv
<1>11. QED
  BY <1>6, <1>8, <1>9, <1>10 DEF IInv

\* A new query id is on no tab, in no blob and with no other request.
LEMMA RecountInv == ASSUME IInv, NEW t \in Tabs, NEW q \in QueryIds, Recount(t, q) PROVE IInv'
<1> DEFINE s == req[t].session
           f == OwnFilter(holder[s])
           e == [qid |-> q, filter |-> f, age |-> 0, counted |-> 0]
           b == Answered(req[t], e)
           c == [b EXCEPT !.pc = "remember"]
           r0 == req[t].replica
           Known(x) == \A r \in Replicas : x \in QueryIds => cache'[r][x].filter = "all"
<1>1. /\ req[t].pc = "count" /\ Fresh(q) /\ UNCHANGED <<holder, session, memory, tab>>
      /\ cache' = [cache EXCEPT ![r0] = [cache[r0] EXCEPT ![q] = e]]
      /\ req' = [req EXCEPT ![t] = b] \/ req' = [req EXCEPT ![t] = c]
  BY DEF Recount
<1>2. /\ req[t] \in Request /\ Carried(t, req[t]) /\ holder[s] \in Users /\ r0 \in Replicas
      /\ s \in Sessions /\ s <= session
  BY <1>1, Pending
<1>3. e \in Entry /\ e.qid = q /\ e.filter = f /\ e.age = 0 /\ e.counted = 0
  BY <1>2 DEF Entry, OwnFilter, Filters, Users, MaxAge
<1>4. b \in Request /\ b.pc = "render" /\ b.found = e /\ b.qid = "none" /\ b.kind = req[t].kind
      /\ b.session = s /\ b.took = req[t].took /\ b.copy = req[t].copy
  BY <1>2, <1>3, AnsweredTyped
<1>5. /\ holder[s] \in Managers => f = "all"
      /\ holder[s] \in Operators => f = holder[s]
  BY <1>2 DEF OwnFilter
<1> HIDE DEF e, f, s, b, r0
<1>6. /\ c \in Request /\ c.pc = "remember" /\ c.found = e /\ c.qid = "none" /\ c.kind = req[t].kind
      /\ c.session = s /\ c.took = req[t].took /\ c.copy = req[t].copy
  BY <1>4 DEF Request
<1> HIDE DEF c
<1>7. cache \in [Replicas -> [QueryIds -> Entry]]
  BY DEF IInv, TypeOK
<1>8. /\ cache' \in [Replicas -> [QueryIds -> Entry]]
      /\ \A r \in Replicas, x \in QueryIds :
            cache'[r][x] = IF r = r0 /\ x = q THEN e ELSE cache[r][x]
  <2>1. [cache[r0] EXCEPT ![q] = e] \in [QueryIds -> Entry]
    BY <1>2, <1>3, <1>7
  <2>2. QED
    BY <1>1, <1>2, <1>7, <2>1
<1>9. /\ \A r \in Replicas : cache[r][q] = NoEntry
      /\ \A u \in Tabs : q \notin Shown(tab[u])
  <2>1. \A r \in Replicas : cache[r][q] = NoEntry
    BY <1>1 DEF Fresh, Cached
  <2>2. QED
    BY <2>1, EntriesTyped DEF TabInv, TabOK
<1>10. TypeOK'
  <2>1. req' \in [Tabs -> Request]
    BY <1>1, <1>4, <1>6 DEF IInv, TypeOK
  <2>2. QED
    BY <1>1, <1>8, <2>1 DEF IInv, TypeOK
<1>11. \A x : x # q /\ ManagerQid(x) => Known(x)
  BY <1>8 DEF ManagerQid
<1>12. holder[s] \in Managers => Known(q)
  <2>1. NoEntry.filter = "all"
    BY DEF NoEntry
  <2>2. QED
    BY <1>3, <1>5, <1>8, <1>9, <2>1 DEF ManagerQid
<1>13. ASSUME NEW u \in Tabs
       PROVE  RequestOK(u, req[u])'
  <2>1. /\ req[u] \in Request /\ RequestOK(u, req[u])
        /\ q \notin {req[u].qid, req[u].found.qid, req[u].copy.qid}
    BY <1>1, EntriesTyped DEF Fresh
  <2>2. CASE u = t
    <3>1. PICK a \in {b, c} : req'[u] = a
      BY <1>1, <2>2 DEF IInv, TypeOK
    <3>2. /\ a.session = s /\ a.kind = req[t].kind /\ a.copy = req[t].copy /\ a.found = e
          /\ a.qid = "none" /\ a.pc \in {"render", "remember"} /\ a.took \in 0..Latency
      BY <1>2, <1>4, <1>6, <3>1 DEF Request
    <3>3. holder[s] \in Managers => e.filter = "all" /\ Known(e.qid)
      BY <1>3, <1>5, <1>12
    <3>4. holder[s] \in Managers => req[t].copy.filter = "all" /\ Known(req[t].copy.qid)
      BY <1>2, <1>11, <2>1, <2>2 DEF Carried, Mine, s
    <3>5. /\ a.kind # "load" => tab'[t].screen = Role(holder[s])
          /\ s \in 1..session /\ InTime(a.copy)
      BY <1>1, <1>2, <3>2 DEF Carried, s
    <3>6. /\ holder[s] \in Operators => e.filter = holder[s]
          /\ a.pc = "remember" => e.counted <= a.took
          /\ a.pc = "render" => e.counted <= TTL - 1 + Latency + a.took
      BY <1>3, <1>5, <3>2
    <3>7. RequestOK(t, a)'
      BY <1>1, <3>2, <3>3, <3>4, <3>5, <3>6 DEF RequestOK, Carried, Found, Mine, InTime, ManagerQid
    <3>8. QED
      BY <2>2, <3>1, <3>7 DEF RequestOK, Carried, Found, Mine, InTime, ManagerQid
  <2>3. CASE u # t
    <3>1. req'[u] = req[u] /\ tab'[u] = tab[u]
      BY <1>1, <2>3 DEF IInv, TypeOK
    <3>2. /\ ManagerQid(req[u].qid) => Known(req[u].qid)
          /\ ManagerQid(req[u].copy.qid) => Known(req[u].copy.qid)
          /\ ManagerQid(req[u].found.qid) => Known(req[u].found.qid)
      BY <1>11, <2>1
    <3>3. PICK a : a = req[u]
      OBVIOUS
    <3>4. /\ RequestOK(u, a)
          /\ ManagerQid(a.qid) => Known(a.qid)
          /\ ManagerQid(a.copy.qid) => Known(a.copy.qid)
          /\ ManagerQid(a.found.qid) => Known(a.found.qid)
      BY <2>1, <3>2, <3>3
    <3>5. Mine(a.session, a.copy) => Mine(a.session, a.copy)'
      BY <1>1, <3>4 DEF Mine, ManagerQid
    <3>6. Mine(a.session, a.found) => Mine(a.session, a.found)'
      BY <1>1, <3>4 DEF Mine, ManagerQid
    <3>7. Carried(u, a) => Carried(u, a)'
      BY <1>1, <3>1, <3>4, <3>5, <3>6 DEF Carried, InTime, ManagerQid
    <3>8. RequestOK(u, a)'
      BY <1>1, <3>4, <3>7 DEF RequestOK, Found
    <3>9. req[u]' = a
      BY <3>1, <3>3
    <3>10. QED
      BY <3>8, <3>9 DEF RequestOK, Carried, Found, Mine, InTime, ManagerQid
  <2>4. QED
    BY <2>2, <2>3
<1>14. ASSUME NEW u \in Tabs
       PROVE  TabInv(u)'
  <2>1. TabInv(u) /\ q \notin Shown(tab[u]) /\ Shown(tab[u]) \subseteq QueryIds \cup {"none"}
    BY <1>9, EntriesTyped DEF Shown, Tab
  <2>2. ASSUME NEW x \in Shown(tab[u])
        PROVE  /\ x = "none" \/ (\E r \in Replicas : cache'[r][x] # NoEntry)
               /\ tab[u].screen = "manager" => Known(x)
    BY <1>8, <1>11, <2>1 DEF TabInv, TabOK
  <2>3. QED
    BY <1>1, <2>2 DEF TabInv, TabOK, Shown, ManagerQid
<1>15. ASSUME NEW r \in Sessions
       PROVE  SessionInv(r)'
  <2>1. SessionInv(r) /\ memory[r].qid # q
    BY <1>1, EntriesTyped DEF Fresh
  <2>2. QED
    BY <1>1, <1>11, <2>1 DEF SessionInv, Mine, InTime, ManagerQid
<1>16. ASSUME NEW r \in Replicas, NEW x \in QueryIds
       PROVE  CacheInv(r, x)'
  BY <1>3, <1>8, EntriesTyped DEF CacheInv
<1>17. QED
  BY <1>10, <1>13, <1>14, <1>15, <1>16 DEF IInv

-----------------------------------------------------------------------------
\* The rest of the world.

LEMMA LoginInv == ASSUME IInv, NEW u \in Users, Login(u) PROVE IInv'
<1> DEFINE n == session + 1
<1>1. /\ session < MaxSessions /\ session' = n /\ holder' = [holder EXCEPT ![n] = u]
      /\ UNCHANGED <<cache, memory, tab, req>>
  BY DEF Login
<1>2. session \in 0..MaxSessions /\ n \in Sessions
  BY <1>1 DEF IInv, TypeOK, Sessions
<1>3. TypeOK'
  BY <1>1, <1>2 DEF IInv, TypeOK, Users
<1>4. \A s \in Sessions : holder'[s] = IF s = n THEN u ELSE holder[s]
  BY <1>1, <1>2 DEF IInv, TypeOK
<1>5. \A q : ManagerQid(q)' <=> ManagerQid(q)
  BY <1>1 DEF ManagerQid
<1>6. ASSUME NEW t \in Tabs
      PROVE  RequestOK(t, req[t])' /\ TabInv(t)'
  <2>1. TabInv(t)'
    BY <1>1, <1>5, EntriesTyped DEF TabInv, TabOK, Shown
  <2>2. CASE req[t].pc = "idle"
    BY <1>1, <2>1, <2>2 DEF RequestOK
  <2>3. CASE req[t].pc # "idle"
    <3>1. /\ RequestOK(t, req[t]) /\ req[t].session \in Sessions /\ req[t].session <= session
      BY <2>3, EntriesTyped, Pending
    <3>2. holder'[req[t].session] = holder[req[t].session] /\ req[t].session \in 1..session'
      BY <1>1, <1>2, <1>4, <3>1 DEF Sessions
    <3>3. QED
      BY <1>1, <1>5, <2>1, <3>1, <3>2 DEF RequestOK, Carried, Found, Mine, InTime
  <2>4. QED
    BY <2>2, <2>3
<1>7. ASSUME NEW s \in Sessions
      PROVE  SessionInv(s)'
  <2>1. SessionInv(s)
    BY EntriesTyped
  <2>2. CASE s = n
    <3>1. memory[s] = NoEntry
      BY <1>2, <2>1, <2>2 DEF SessionInv
    <3>2. InTime(NoEntry) /\ NoEntry.filter = "all" /\ NoEntry.qid = "none"
      BY NoEntryTyped DEF NoEntry
    <3>3. Mine(s, memory[s])' /\ InTime(memory[s])'
      BY <1>1, <3>1, <3>2 DEF Mine, InTime, ManagerQid
    <3>4. holder'[s] \in Users /\ s <= session'
      BY <1>1, <1>2, <1>4, <2>2
    <3>5. QED
      BY <1>1, <1>2, <2>2, <3>3, <3>4 DEF SessionInv
  <2>3. CASE s # n
    <3>1. holder'[s] = holder[s] /\ (s <= session' <=> s <= session)
          /\ (s > session' => s > session)
      BY <1>1, <1>2, <1>4, <2>3 DEF Sessions
    <3>2. QED
      BY <1>1, <1>5, <2>1, <3>1 DEF SessionInv, Mine, InTime
  <2>4. QED
    BY <2>2, <2>3
<1>8. ASSUME NEW r \in Replicas, NEW q \in QueryIds
      PROVE  CacheInv(r, q)'
  BY <1>1, EntriesTyped DEF CacheInv
<1>9. QED
  BY <1>3, <1>6, <1>7, <1>8 DEF IInv

\* What a replica still knows after a step that adds nothing to its cache.
LEMMA CachesShrink ==
    ASSUME IInv, cache' \in [Replicas -> [QueryIds -> Entry]],
           \A r \in Replicas, q \in QueryIds : cache'[r][q].filter \in {cache[r][q].filter, "all"}
    PROVE  \A q : ManagerQid(q) => ManagerQid(q)'
BY DEF ManagerQid

\* ... and what the tabs still hold of their query ids.
LEMMA TabsForget ==
    ASSUME IInv, tab' = Forget(cache'), \A q : ManagerQid(q) => ManagerQid(q)'
    PROVE  /\ tab' \in [Tabs -> Tab]
           /\ \A t \in Tabs : tab'[t].screen = tab[t].screen /\ TabInv(t)'
<1>1. ASSUME NEW t \in Tabs
      PROVE  /\ tab'[t] \in Tab /\ tab'[t].screen = tab[t].screen
             /\ TabInv(t)'
  <2> DEFINE a == tab[t]
             b == [a EXCEPT !.rowsQid = Held(cache', a.rowsQid),
                            !.pagerQid = Held(cache', a.pagerQid),
                            !.toolbarQid = Held(cache', a.toolbarQid)]
             held == {Held(cache', q) : q \in Shown(a)}
  <2>1. a \in Tab /\ TabOK(a) /\ Shown(a) \subseteq QueryIds \cup {"none"}
    BY EntriesTyped DEF TabInv, Shown, Tab
  <2>2. tab'[t] = b
    BY DEF Forget
  <2>3. /\ Held(cache', a.rowsQid) \in QueryIds \cup {"none"}
        /\ Held(cache', a.pagerQid) \in QueryIds \cup {"none"}
        /\ Held(cache', a.toolbarQid) \in QueryIds \cup {"none"}
    BY <2>1, HeldIs DEF Shown
  <2>4. b \in Tab /\ b.screen = a.screen /\ Shown(b) \subseteq held
    <3>1. /\ b \in Tab /\ b.screen = a.screen /\ b.rowsQid = Held(cache', a.rowsQid)
          /\ b.pagerQid = Held(cache', a.pagerQid) /\ b.toolbarQid = Held(cache', a.toolbarQid)
      BY <2>1, <2>3 DEF Tab
    <3> HIDE DEF b
    <3>2. Shown(b) = {b.rowsQid, b.pagerQid, b.toolbarQid}
      BY DEF Shown
    <3>3. {a.rowsQid, a.pagerQid, a.toolbarQid} \subseteq Shown(a)
      BY DEF Shown
    <3>4. QED
      BY <3>1, <3>2, <3>3
  <2> HIDE DEF b
  <2>5. ASSUME NEW q \in held
        PROVE  /\ q = "none" \/ (\E r \in Replicas : cache'[r][q] # NoEntry)
               /\ a.screen = "manager"
                  => \A r \in Replicas : q \in QueryIds => cache'[r][q].filter = "all"
    <3>1. PICK x \in Shown(a) : q = Held(cache', x)
      OBVIOUS
    <3>2. /\ q = "none" \/ (\E r \in Replicas : cache'[r][q] # NoEntry)
          /\ q \in {x, "none"}
      BY <2>1, <3>1, HeldIs
    <3>3. a.screen = "manager" => ManagerQid(x)
      BY <2>1 DEF TabOK
    <3>4. a.screen = "manager"
          => \A r \in Replicas : x \in QueryIds => cache'[r][x].filter = "all"
      BY <3>3 DEF ManagerQid
    <3>5. QED
      BY <3>2, <3>4
  <2>6. TabInv(t)'
    BY <2>2, <2>4, <2>5 DEF TabInv, TabOK, Shown, ManagerQid
  <2>7. QED
    BY <2>2, <2>4, <2>6
<1>2. QED
  BY <1>1 DEF Forget

LEMMA RestartInv == ASSUME IInv, NEW r \in Replicas, Restart(r) PROVE IInv'
<1>1. /\ cache' = [cache EXCEPT ![r] = [q \in QueryIds |-> NoEntry]]
      /\ UNCHANGED <<holder, session, memory, req>> /\ tab' = Forget(cache')
  BY DEF Restart
<1>2. cache \in [Replicas -> [QueryIds -> Entry]] /\ NoEntry \in Entry
  BY NoEntryTyped DEF IInv, TypeOK
<1>3. /\ cache' \in [Replicas -> [QueryIds -> Entry]]
      /\ \A p \in Replicas, q \in QueryIds : cache'[p][q] \in {cache[p][q], NoEntry}
  BY <1>1, <1>2
<1>4. \A q : ManagerQid(q) => ManagerQid(q)'
  <2>1. NoEntry.filter = "all"
    BY DEF NoEntry
  <2>2. QED
    BY <1>3, <2>1, CachesShrink
<1>5. /\ tab' \in [Tabs -> Tab]
      /\ \A t \in Tabs : tab'[t].screen = tab[t].screen /\ TabInv(t)'
  BY <1>1, <1>4, TabsForget
<1>6. TypeOK' /\ \A t \in Tabs : RequestOK(t, req[t])'
  <2>1. TypeOK'
    BY <1>1, <1>3, <1>5 DEF IInv, TypeOK
  <2>2. \A t \in Tabs : RequestOK(t, req[t])'
    BY <1>1, <1>4, <1>5, EntriesTyped DEF RequestOK, Carried, Found, Mine, InTime
  <2>3. QED
    BY <2>1, <2>2
<1>7. ASSUME NEW s \in Sessions
      PROVE  SessionInv(s)'
  BY <1>1, <1>4, EntriesTyped DEF SessionInv, Mine, InTime
<1>8. ASSUME NEW p \in Replicas, NEW q \in QueryIds
      PROVE  CacheInv(p, q)'
  <2>1. CacheInv(p, q) /\ InTime(NoEntry) /\ NoEntry.counted = 0 /\ NoEntry.age = 0
    BY EntriesTyped, NoEntryTyped DEF NoEntry
  <2>2. QED
    BY <1>3, <2>1 DEF CacheInv, InTime
<1>9. QED
  BY <1>5, <1>6, <1>7, <1>8 DEF IInv

\* An entry a tick later.
LEMMA OlderTyped ==
    ASSUME NEW e \in Entry
    PROVE  /\ Older(e) \in Entry
           /\ Older(e).filter = e.filter /\ Older(e).qid = e.qid
           /\ Older(e).counted \in {e.counted, e.counted + 1}
           /\ e # NoEntry => Older(e).age = IF e.age < TTL THEN e.age + 1 ELSE e.age
           /\ e = NoEntry => Older(e) = NoEntry
<1>1. CASE e = NoEntry
  BY <1>1 DEF Older
<1>2. CASE e # NoEntry
  <2>1. /\ e.age \in 0..TTL /\ e.counted \in 0..(MaxAge + 1) /\ MaxAge \in Int
    BY DEF Entry, MaxAge
  <2>2. Older(e) = [e EXCEPT !.age = IF e.age < TTL THEN e.age + 1 ELSE e.age,
                             !.counted = IF e.counted <= MaxAge THEN e.counted + 1 ELSE e.counted]
    BY <1>2 DEF Older
  <2>3. (IF e.age < TTL THEN e.age + 1 ELSE e.age) \in 0..TTL
    BY <2>1
  <2>4. (IF e.counted <= MaxAge THEN e.counted + 1 ELSE e.counted) \in 0..(MaxAge + 1)
    BY <2>1
  <2>5. QED
    BY <1>2, <2>2, <2>3, <2>4 DEF Entry
<1>3. QED
  BY <1>1, <1>2

\* ... and what the caches and the blobs keep of it.
LEMMA AgedTyped ==
    ASSUME NEW e \in Entry
    PROVE  /\ Aged(e) \in Entry
           /\ Aged(e).filter \in {e.filter, "all"} /\ Aged(e).qid \in {e.qid, "none"}
           /\ Aged(e).qid = e.qid => Aged(e).filter = e.filter \/ Aged(e) = NoEntry
           /\ Aged(e) = NoEntry \/ Aged(e) = Older(e)
           /\ Aged(e).age < TTL
           /\ InTime(e) => InTime(Aged(e))
           /\ e.counted <= e.age => Aged(e).counted <= Aged(e).age
<1>1. NoEntry \in Entry /\ InTime(NoEntry) /\ NoEntry.age = 0 /\ NoEntry.counted = 0
      /\ NoEntry.qid = "none" /\ NoEntry.filter = "all"
  BY NoEntryTyped DEF NoEntry
<1>2. CASE Aged(e) = NoEntry
  BY <1>1, <1>2
<1>3. CASE Aged(e) # NoEntry
  <2>1. Aged(e) = Older(e) /\ ~Expired(Older(e)) /\ e # NoEntry
    BY <1>3, OlderTyped DEF Aged
  <2>2. Older(e).age < TTL /\ Older(e).age \in Int
    BY <2>1, OlderTyped DEF Expired, Entry
  <2>3. e.age \in 0..TTL /\ e.counted \in Int
    BY DEF Entry, MaxAge
  <2>4. Older(e).age = e.age + 1
    BY <2>1, <2>2, <2>3, OlderTyped
  <2>5. QED
    BY <2>1, <2>2, <2>3, <2>4, OlderTyped DEF InTime
<1>4. QED
  BY <1>2, <1>3

LEMMA TickInv == ASSUME IInv, Tick PROVE IInv'
<1> DEFINE later(t) == [req[t] EXCEPT !.took = req[t].took + 1, !.found = Older(req[t].found),
                                      !.copy = Aged(req[t].copy)]
<1>1. /\ \A t \in Tabs : req[t].pc # "idle" => req[t].took < Latency
      /\ cache' = [r \in Replicas |-> [q \in QueryIds |-> Aged(cache[r][q])]]
      /\ memory' = [s \in Sessions |-> Aged(memory[s])]
      /\ req' = [t \in Tabs |-> IF req[t].pc = "idle" THEN req[t] ELSE later(t)]
      /\ tab' = Forget(cache') /\ UNCHANGED <<holder, session>>
  BY DEF Tick
<1>2. /\ cache' \in [Replicas -> [QueryIds -> Entry]]
      /\ \A r \in Replicas, q \in QueryIds : cache'[r][q] = Aged(cache[r][q])
  BY <1>1, EntriesTyped, AgedTyped
<1>3. /\ memory' \in [Sessions -> Entry]
      /\ \A s \in Sessions : memory'[s] = Aged(memory[s])
  BY <1>1, EntriesTyped, AgedTyped
<1>4. ASSUME NEW t \in Tabs, req[t].pc # "idle"
      PROVE  /\ req'[t] \in Request
             /\ req'[t].found = Older(req[t].found) /\ req'[t].copy = Aged(req[t].copy)
             /\ req'[t].took = req[t].took + 1 /\ req'[t].pc = req[t].pc
             /\ req'[t].kind = req[t].kind /\ req'[t].qid = req[t].qid
             /\ req'[t].session = req[t].session /\ req'[t].replica = req[t].replica
  <2>1. /\ req[t] \in Request /\ req[t].took + 1 \in 0..Latency
        /\ Older(req[t].found) \in Entry /\ Aged(req[t].copy) \in Entry
    <3>1. req[t] \in Request /\ req[t].took < Latency
      BY <1>1, <1>4, EntriesTyped
    <3>2. req[t].found \in Entry /\ req[t].copy \in Entry /\ req[t].took \in 0..Latency
      BY <3>1 DEF Request
    <3>3. QED
      BY <3>1, <3>2, OlderTyped, AgedTyped
  <2>2. req'[t] = later(t)
    BY <1>1, <1>4
  <2>3. QED
    BY <2>1, <2>2 DEF Request
<1> HIDE DEF later
<1>5. \A q : ManagerQid(q) => ManagerQid(q)'
  <2>1. \A r \in Replicas, q \in QueryIds : cache'[r][q].filter \in {cache[r][q].filter, "all"}
    BY <1>2, EntriesTyped, AgedTyped
  <2>2. QED
    BY <1>2, <2>1, CachesShrink
<1>6. /\ tab' \in [Tabs -> Tab]
      /\ \A t \in Tabs : tab'[t].screen = tab[t].screen /\ TabInv(t)'
  BY <1>1, <1>5, TabsForget
<1>7. ManagerQid("none")'
  BY DEF ManagerQid
<1>8. TypeOK'
  <2>1. \A t \in Tabs : req'[t] \in Request
    BY <1>1, <1>4, EntriesTyped
  <2>2. req' \in [Tabs -> Request]
    BY <1>1, <2>1
  <2>3. QED
    BY <1>1, <1>2, <1>3, <1>6, <2>2 DEF IInv, TypeOK
<1>9. ASSUME NEW t \in Tabs
      PROVE  RequestOK(t, req[t])'
  <2>1. CASE req[t].pc = "idle"
    BY <1>1, <2>1 DEF RequestOK
  <2>2. CASE req[t].pc # "idle"
    <3> DEFINE a == req[t]
               b == req'[t]
    <3>1. a \in Request /\ Carried(t, a) /\ RequestOK(t, a)
      BY <2>2, Pending, EntriesTyped
    <3>2. a.found \in Entry /\ a.copy \in Entry /\ a.took \in 0..Latency
      BY <3>1 DEF Request
    <3>3. /\ Older(a.found).filter = a.found.filter /\ Older(a.found).qid = a.found.qid
          /\ Older(a.found).counted \in {a.found.counted, a.found.counted + 1}
          /\ a.found.counted \in Int
      BY <3>2, OlderTyped DEF Entry, MaxAge
    <3>4. /\ Aged(a.copy).filter \in {a.copy.filter, "all"}
          /\ Aged(a.copy).qid \in {a.copy.qid, "none"} /\ InTime(Aged(a.copy))
      BY <3>1, <3>2, AgedTyped DEF Carried
    <3>5. /\ b.found = Older(a.found) /\ b.copy = Aged(a.copy) /\ b.took = a.took + 1
          /\ b.pc = a.pc /\ b.kind = a.kind /\ b.qid = a.qid /\ b.session = a.session
          /\ b.replica = a.replica
      BY <1>4, <2>2
    <3>6. /\ a.session \in 1..session
          /\ a.kind # "load" => tab[t].screen = Role(holder[a.session])
          /\ holder[a.session] \in Managers
             => /\ ManagerQid(a.qid) /\ ManagerQid(a.copy.qid) /\ ManagerQid(a.found.qid)
                /\ a.copy.filter = "all" /\ a.found.filter = "all"
      BY <3>1 DEF Carried, Mine
    <3>7. /\ b.pc \in {"act", "save", "fallback", "count"} => b.replica \in Replicas
          /\ b.pc \in {"remember", "render"} => Found(a)
      BY <2>2, <3>1, <3>5 DEF RequestOK
    <3>8. b.pc \in {"remember", "render"}
          => /\ holder[b.session] \in Operators => b.found.filter = holder[b.session]
             /\ b.pc = "remember" => b.found.counted <= b.took
             /\ b.pc = "render" => b.found.counted <= TTL - 1 + Latency + b.took
      BY <3>2, <3>3, <3>5, <3>7 DEF Found
    <3>9. /\ b.copy.filter = "all" \/ b.copy.filter = a.copy.filter
          /\ b.copy.qid = "none" \/ b.copy.qid = a.copy.qid
          /\ b.found.filter = a.found.filter /\ b.found.qid = a.found.qid
          /\ InTime(b.copy)
      BY <3>3, <3>4, <3>5
    <3> HIDE DEF a, b
    <3>10. QED
      BY <1>1, <1>5, <1>6, <1>7, <3>5, <3>6, <3>7, <3>8, <3>9
         DEF RequestOK, Carried, Found, Mine, InTime, b
  <2>3. QED
    BY <2>1, <2>2
<1>10. ASSUME NEW s \in Sessions
       PROVE  SessionInv(s)'
  <2>1. SessionInv(s) /\ memory[s] \in Entry /\ memory'[s] = Aged(memory[s])
    BY <1>3, EntriesTyped
  <2>2. /\ Aged(memory[s]).filter \in {memory[s].filter, "all"}
        /\ Aged(memory[s]).qid \in {memory[s].qid, "none"} /\ InTime(Aged(memory[s]))
    BY <2>1, AgedTyped DEF SessionInv
  <2>3. memory[s] = NoEntry => Aged(memory[s]) = NoEntry
    BY <2>1, OlderTyped DEF Aged
  <2>4. QED
    BY <1>1, <1>5, <1>7, <2>1, <2>2, <2>3 DEF SessionInv, Mine, InTime
<1>11. ASSUME NEW r \in Replicas, NEW q \in QueryIds
       PROVE  CacheInv(r, q)'
  <2>1. CacheInv(r, q) /\ cache[r][q] \in Entry /\ cache'[r][q] = Aged(cache[r][q])
    BY <1>2, EntriesTyped
  <2>2. cache[r][q] = NoEntry => Aged(cache[r][q]) = NoEntry
    BY <2>1, OlderTyped DEF Aged
  <2>3. QED
    BY <2>1, <2>2, AgedTyped, OlderTyped DEF CacheInv
<1>12. QED
  BY <1>6, <1>8, <1>9, <1>10, <1>11 DEF IInv

-----------------------------------------------------------------------------
\* The invariant of the specification, and what follows from it.

LEMMA InitInv == Init => IInv
<1> SUFFICES ASSUME Init PROVE IInv
  OBVIOUS
<1>1. TypeOK
  BY NoEntryTyped, IdleTyped DEF Init, TypeOK, Tab
<1>2. \A t \in Tabs : RequestOK(t, req[t]) /\ TabInv(t)
  BY IdleTyped DEF Init, RequestOK, TabInv, TabOK, Shown
<1>3. \A s \in Sessions : SessionInv(s)
  BY NoEntryTyped DEF Init, SessionInv, Sessions
<1>4. \A r \in Replicas, q \in QueryIds : CacheInv(r, q)
  BY DEF Init, CacheInv, NoEntry
<1>5. QED
  BY <1>1, <1>2, <1>3, <1>4 DEF IInv

LEMMA NextInv == IInv /\ [Next]_vars => IInv'
<1> SUFFICES ASSUME IInv, [Next]_vars PROVE IInv'
  OBVIOUS
<1>1. ASSUME NEW t \in Tabs, NEW r \in Replicas,
             LoadPage(t, r) \/ Create(t, r) \/ Poll(t, r) \/ Turn(t, r) \/ Check(t, r)
             \/ CheckAll(t, r) \/ Bulk(t, r)
      PROVE  IInv'
  BY <1>1, LoadPageInv, CreateInv, PollInv, TurnInv, CheckInv, CheckAllInv,
     BulkInv
<1>2. ASSUME NEW t \in Tabs, Handler(t)
      PROVE  IInv'
  BY <1>2, ActedInv, SaveMemoryInv, FallbackInv, FallbackFailsInv, RememberInv, RenderInv, RecountInv
     DEF Handler
<1>3. ASSUME NEW u \in Users, Login(u)
      PROVE  IInv'
  BY <1>3, LoginInv
<1>4. ASSUME NEW r \in Replicas, Restart(r)
      PROVE  IInv'
  BY <1>4, RestartInv
<1>5. CASE Tick
  BY <1>5, TickInv
<1>6. CASE UNCHANGED vars
  BY <1>6 DEF vars, IInv, TypeOK, RequestOK, Carried, Found, Mine, InTime, ManagerQid, TabInv, TabOK,
              Shown,
              SessionInv, CacheInv
<1>7. QED
  BY <1>1, <1>2, <1>3, <1>4, <1>5, <1>6 DEF Next

\* Whatever the tabs, the replicas and the clock do, a query id and a total are
\* only ever carried by someone who may be shown them, and the total's age is
\* known (list_reviews_page, _pagination_fallback, _remember_pagination).
THEOREM PaginationInvariance == Spec => []IInv
BY InitInv, NextInv, PTL DEF Spec

\* The variables keep their types.
THEOREM PaginationTypeCorrect == Spec => []TypeOK
<1>1. IInv => TypeOK
  BY DEF IInv
<1>2. QED
  BY <1>1, PaginationInvariance, PTL

\* Operators see only their own requests and managers see all of them,
\* whatever query id a tab still holds from an earlier login and whichever
\* replica answers (the ownership checks of _resolve_operator_page and
\* _pagination_fallback).
THEOREM OwnListOnlyHolds == Spec => []OwnListOnly
<1>1. ASSUME IInv PROVE OwnListOnly
  <2> SUFFICES ASSUME NEW t \in Tabs, req[t].pc = "render"
               PROVE  req[t].found.filter = OwnFilter(holder[req[t].session])
    BY DEF OwnListOnly, Rendering, User
  <2>1. /\ holder[req[t].session] \in Users
        /\ Found(req[t]) /\ Carried(t, req[t])
    BY <1>1, Pending
  <2>2. QED
    BY <2>1 DEF Found, Carried, Mine, OwnFilter, Users
<1>2. QED
  BY <1>1, PaginationInvariance, PTL

\* A total is never shown later than its TTL after it was counted, but for the
\* time two requests took: what one tier has found is not remembered anew by
\* the other (_query_cache and the pagination of the ui-memory blob).
THEOREM TotalAgeBoundedHolds == Spec => []TotalAgeBounded
<1>1. ASSUME IInv PROVE TotalAgeBounded
  <2> SUFFICES ASSUME NEW t \in Tabs, req[t].pc = "render"
               PROVE  req[t].found.counted <= MaxAge
    BY DEF TotalAgeBounded, Rendering
  <2>1. req[t] \in Request /\ Found(req[t])
    BY <1>1, Pending
  <2>2. req[t].took \in 0..Latency /\ req[t].found.counted \in Int
    BY <2>1 DEF Request, Entry, MaxAge
  <2>3. QED
    BY <2>1, <2>2 DEF Found, MaxAge
<1>2. QED
  BY <1>1, PaginationInvariance, PTL
=============================================================================

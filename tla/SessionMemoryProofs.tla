------------------------ MODULE SessionMemoryProofs ------------------------
(***************************************************************************)
(* Proofs about SessionMemory, for any set of review requests, any number  *)
(* of requests in flight and any number of logins.  The inductive          *)
(* invariant IInv follows what each handler holds of the blob; its proof   *)
(* has one lemma per action, on what the action does to one handler and to *)
(* one blob.                                                               *)
(***************************************************************************)
EXTENDS SessionMemory, TLAPS

USE MaxSessionsAssumption DEF Sessions, Key

-----------------------------------------------------------------------------
\* What the actions are built from.

\* Every script is a sequence of operations, and none is empty.
LEMMA ScriptsTyped ==
    ASSUME NEW k \in Kinds, NEW todo \in Scripts[k]
    PROVE  k \in {"page", "look", "click", "execute"} /\ todo \in Seq(Ops) \ {<<>>}
<1>1. k \in {"page", "look", "click", "execute"}
  BY DEF Kinds, Scripts
<1>2. todo \in Seq(Ops) /\ Len(todo) > 0
  <2>1. /\ \A r \in Resolved : r \in Seq(Ops)
        /\ \A c \in Ops : <<c>> \in Seq(Ops) /\ Len(<<c>>) = 1
    BY DEF Resolved, Ops, Rewrites
  <2>2. \A a, b \in Seq(Ops) : a \o b \in Seq(Ops) /\ Len(a \o b) = Len(a) + Len(b)
    OBVIOUS
  <2>3. CASE k = "page"
    <3>1. todo = <<"clear", "get">>
      BY <2>3 DEF Scripts
    <3>2. QED
      BY <3>1 DEF Ops, Rewrites
  <2>4. CASE k = "look"
    <3>1. PICK r \in Resolved : todo = r \o <<"get">>
      BY <2>4 DEF Scripts
    <3>2. QED
      BY <3>1, <2>1, <2>2, "get" \in Ops DEF Ops
  <2>5. CASE k = "click"
    <3>1. PICK c \in {"select", "deselect"}, r \in Resolved : todo = <<c>> \o r
      BY <2>5 DEF Scripts
    <3>2. c \in Ops
      BY DEF Ops, Rewrites
    <3>3. QED
      BY <3>1, <3>2, <2>1, <2>2
  <2>6. CASE k = "execute"
    <3>1. PICK r \in Resolved : todo = <<"get", "act", "clear">> \o r \o <<"get">>
      BY <2>6 DEF Scripts
    <3>2. <<"get", "act", "clear">> \in Seq(Ops) /\ <<"get">> \in Seq(Ops) /\ Len(<<"get">>) = 1
      BY DEF Ops, Rewrites
    <3>3. <<"get", "act", "clear">> \o r \in Seq(Ops)
      BY <3>2, <2>1, <2>2
    <3>4. QED
      BY <3>1, <3>2, <3>3, <2>2
  <2>7. QED
    BY <1>1, <2>3, <2>4, <2>5, <2>6
<1>3. todo # <<>>
  BY <1>2
<1>4. QED
  BY <1>1, <1>2, <1>3

\* An idle slot.
LEMMA IdleTyped == Idle \in Request
BY DEF Idle, Request

\* A handler that goes on is typed, has no copy, and knows what it is told.
LEMMA GoesOnTyped ==
    ASSUME TypeOK, NEW t \in Slots, Busy(t), NEW ids \in SUBSET Ids
    PROVE  /\ GoesOn(t, ids) \in Request
           /\ ~GoesOn(t, ids).loaded
           /\ GoesOn(t, ids).copy = {}
           /\ GoesOn(t, ids).clicked = {}
           /\ \/ GoesOn(t, ids).shown = {}
              \/ /\ GoesOn(t, ids).shown = ids
                 /\ GoesOn(t, ids).session = req[t].session
<1>1. req[t] \in Request /\ req[t].todo \in Seq(Ops) /\ Tail(req[t].todo) \in Seq(Ops)
  BY DEF TypeOK, Request, Busy
<1>2. CASE Len(req[t].todo) = 1
  BY <1>2, IdleTyped DEF GoesOn, Idle
<1>3. CASE ~(Len(req[t].todo) = 1)
  BY <1>1, <1>3 DEF GoesOn, Request
<1>4. QED
  BY <1>2, <1>3

-----------------------------------------------------------------------------
\* What a step may do to the handlers.

\* HandlerInv of a handler a, over the blobs m and what was checked, c.
HandlerOK(a, m, c) ==
    /\ a.shown \cup a.copy \subseteq c[a.session]
    /\ (a.todo # <<>> /\ a.todo[1] = "select") => a.clicked \subseteq c[a.session]
    /\ a.loaded => a.todo # <<>>
    /\ (a.loaded /\ ~a.overlap) => a.copy = m[a.session]

LEMMA HandlerIsOK == \A t \in Slots : HandlerInv(t) <=> HandlerOK(req[t], memory, checked)
BY DEF HandlerInv, HandlerOK, Busy, Op

LEMMA HandlerIsOKNext ==
    \A t \in Slots : HandlerInv(t)' <=> HandlerOK(req'[t], memory', checked')
BY DEF HandlerInv, HandlerOK, Busy, Op

\* A handler of its own session's data only: more clicks do not harm it.
LEMMA MoreChecked ==
    ASSUME NEW a \in Request, NEW m, NEW c, NEW d, HandlerOK(a, m, c),
           \A s \in Sessions : c[s] \subseteq d[s]
    PROVE  HandlerOK(a, m, d)
<1>1. a.session \in Sessions
  BY DEF Request
<1>2. c[a.session] \subseteq d[a.session]
  BY <1>1
<1>3. QED
  BY <1>2 DEF HandlerOK

\* An idle slot, and a handler that has just gone on, hold nothing of the blob.
LEMMA HoldsNothing ==
    ASSUME NEW a \in Request, NEW m, NEW c, ~a.loaded, a.copy = {}, a.clicked = {},
           a.shown \subseteq c[a.session]
    PROVE  HandlerOK(a, m, c)
BY DEF HandlerOK

\* One handler changes, the blobs stay.
LEMMA OneHandler ==
    ASSUME IInv, NEW t \in Slots, NEW a \in Request,
           req' = [req EXCEPT ![t] = a], memory' = memory,
           \A s \in Sessions : checked[s] \subseteq checked'[s],
           HandlerOK(a, memory, checked')
    PROVE  /\ req' \in [Slots -> Request]
           /\ \A u \in Slots : HandlerInv(u)'
<1>1. req \in [Slots -> Request] /\ \A u \in Slots : HandlerOK(req[u], memory, checked)
  BY HandlerIsOK DEF IInv, TypeOK
<1>2. ASSUME NEW u \in Slots
      PROVE  HandlerOK(req'[u], memory', checked')
  <2>1. CASE u = t
    BY <1>1, <2>1
  <2>2. CASE u # t
    <3>1. req'[u] = req[u] /\ req[u] \in Request /\ HandlerOK(req[u], memory, checked)
      BY <1>1, <2>2
    <3>2. QED
      BY <3>1, MoreChecked
  <2>3. QED
    BY <2>1, <2>2
<1>3. QED
  BY <1>1, <1>2, HandlerIsOKNext

\* The blob of session s is rewritten: its other handlers are overtaken.
LEMMA BlobRewritten ==
    ASSUME IInv, NEW s \in Sessions, NEW selection \in SUBSET Ids
    PROVE  /\ Overtaken(s) \in [Slots -> Request]
           /\ \A u \in Slots :
                HandlerOK(Overtaken(s)[u], [memory EXCEPT ![s] = selection], checked)
<1> DEFINE m == [memory EXCEPT ![s] = selection]
<1>1. /\ req \in [Slots -> Request]
      /\ memory \in [Sessions -> SUBSET Ids]
      /\ \A u \in Slots : HandlerOK(req[u], memory, checked)
  BY HandlerIsOK DEF IInv, TypeOK
<1>2. ASSUME NEW u \in Slots
      PROVE  Overtaken(s)[u] \in Request /\ HandlerOK(Overtaken(s)[u], m, checked)
  <2>1. req[u] \in Request /\ req[u].session \in Sessions /\ HandlerOK(req[u], memory, checked)
    BY <1>1 DEF Request
  <2>2. CASE req[u].session = s /\ req[u].loaded
    <3>1. Overtaken(s)[u] = [req[u] EXCEPT !.overlap = TRUE]
      BY <2>2 DEF Overtaken
    <3>2. Overtaken(s)[u] \in Request
      BY <3>1, <2>1 DEF Request
    <3>3. /\ Overtaken(s)[u].shown = req[u].shown /\ Overtaken(s)[u].copy = req[u].copy
          /\ Overtaken(s)[u].session = req[u].session /\ Overtaken(s)[u].todo = req[u].todo
          /\ Overtaken(s)[u].clicked = req[u].clicked /\ Overtaken(s)[u].overlap
          /\ Overtaken(s)[u].loaded = req[u].loaded
      BY <3>1, <2>1 DEF Request
    <3>4. QED
      BY <2>1, <3>2, <3>3 DEF HandlerOK
  <2>3. CASE ~(req[u].session = s /\ req[u].loaded)
    <3>1. Overtaken(s)[u] = req[u]
      BY <2>3 DEF Overtaken
    <3>2. req[u].loaded => m[req[u].session] = memory[req[u].session]
      BY <1>1, <2>1, <2>3
    <3>3. QED
      BY <2>1, <3>1, <3>2 DEF HandlerOK
  <2>4. QED
    BY <2>2, <2>3
<1>3. Overtaken(s) \in [Slots -> Request]
  BY <1>2 DEF Overtaken
<1>4. QED
  BY <1>2, <1>3

-----------------------------------------------------------------------------
\* The invariant holds at first and is kept by every step.

LEMMA InitInv == Init => IInv
<1> SUFFICES ASSUME Init PROVE IInv
  OBVIOUS
<1>1. TypeOK
  BY IdleTyped DEF Init, TypeOK
<1>2. \A t \in Slots : HandlerInv(t)
  BY DEF Init, HandlerInv, Idle, Busy, Op
<1>3. SelectionIsWanted /\ \A s \in Sessions : memory[s] \subseteq checked[s]
  BY DEF Init, SelectionIsWanted
<1>4. QED
  BY <1>1, <1>2, <1>3 DEF IInv

LEMMA LoginInv == IInv /\ Login => IInv'
<1> SUFFICES ASSUME IInv, Login PROVE IInv'
  OBVIOUS
<1>1. TypeOK'
  BY DEF IInv, TypeOK, Login
<1>2. \A t \in Slots : HandlerInv(t)'
  BY DEF IInv, HandlerInv, Busy, Op, Login
<1>3. SelectionIsWanted' /\ \A s \in Sessions : memory'[s] \subseteq checked'[s]
  BY DEF IInv, SelectionIsWanted, Login
<1>4. QED
  BY <1>1, <1>2, <1>3 DEF IInv

LEMMA SendInv ==
    ASSUME IInv, NEW t \in Slots, NEW k \in Kinds, NEW ids \in SUBSET Ids,
           NEW todo \in Scripts[k], Send(t, k, todo, ids)
    PROVE  IInv'
<1> DEFINE a == [Idle EXCEPT !.kind = k, !.session = session, !.clicked = ids, !.todo = todo]
<1>1. session \in Sessions
  BY DEF IInv, TypeOK, Send, CanSend
<1>2. /\ checked' \in [Sessions -> SUBSET Ids]
      /\ \A s \in Sessions : checked[s] \subseteq checked'[s]
      /\ todo[1] = "select" => ids \subseteq checked'[session]
  BY <1>1 DEF IInv, TypeOK, Send
<1>3. /\ a \in Request
      /\ a.session = session /\ a.todo = todo /\ a.clicked = ids
      /\ ~a.loaded /\ a.copy = {} /\ a.shown = {}
  <2>1. k \in Kinds /\ todo \in Seq(Ops)
    BY ScriptsTyped
  <2>2. a \in Request
    BY <1>1, <2>1, IdleTyped DEF Request
  <2>3. a.session = session /\ a.todo = todo /\ a.clicked = ids
    BY IdleTyped DEF Request
  <2>4. ~a.loaded /\ a.copy = {} /\ a.shown = {}
    BY DEF Idle
  <2>5. QED
    BY <2>2, <2>3, <2>4
<1>4. HandlerOK(a, memory, checked')
  BY <1>2, <1>3 DEF HandlerOK
<1>5. req' = [req EXCEPT ![t] = a] /\ memory' = memory
  BY DEF Send
<1>6. /\ req' \in [Slots -> Request]
      /\ \A u \in Slots : HandlerInv(u)'
  <2> HIDE DEF a
  <2> QED
    BY <1>2, <1>3, <1>4, <1>5, OneHandler
<1>7. TypeOK'
  BY <1>2, <1>6 DEF IInv, TypeOK, Send
<1>8. SelectionIsWanted' /\ \A s \in Sessions : memory'[s] \subseteq checked'[s]
  BY <1>2 DEF IInv, SelectionIsWanted, Send
<1>9. QED
  BY <1>6, <1>7, <1>8 DEF IInv

\* A step that changes one handler, and nothing else that IInv is about.
LEMMA HandlerStep ==
    ASSUME IInv, NEW t \in Slots, NEW a \in Request, req' = [req EXCEPT ![t] = a],
           HandlerOK(a, memory, checked),
           UNCHANGED <<session, logins, memory, checked, wanted, disturbed>>
    PROVE  IInv'
<1>1. /\ req' \in [Slots -> Request]
      /\ \A u \in Slots : HandlerInv(u)'
  BY OneHandler
<1>2. TypeOK'
  BY <1>1 DEF IInv, TypeOK
<1>3. SelectionIsWanted' /\ \A s \in Sessions : memory'[s] \subseteq checked'[s]
  BY DEF IInv, SelectionIsWanted
<1>4. QED
  BY <1>1, <1>2, <1>3 DEF IInv

LEMMA LoadInv == ASSUME IInv, NEW t \in Slots, Load(t) PROVE IInv'
<1> DEFINE a == [req[t] EXCEPT !.loaded = TRUE, !.overlap = FALSE,
                               !.copy = memory[req[t].session]]
<1>1. /\ req[t] \in Request /\ req[t].session \in Sessions
      /\ memory[req[t].session] \in SUBSET Ids
      /\ memory[req[t].session] \subseteq checked[req[t].session]
      /\ HandlerOK(req[t], memory, checked)
  BY HandlerIsOK DEF IInv, TypeOK, Request
<1>2. a \in Request
  BY <1>1 DEF Request
<1>3. /\ a.loaded /\ ~a.overlap /\ a.copy = memory[req[t].session]
      /\ a.session = req[t].session /\ a.todo = req[t].todo /\ a.clicked = req[t].clicked
      /\ a.shown = req[t].shown
  BY <1>1 DEF Request
<1>4. HandlerOK(a, memory, checked)
  BY <1>1, <1>3 DEF HandlerOK, Load, Busy
<1>5. req' = [req EXCEPT ![t] = a]
  BY DEF Load
<1>6. QED
  <2> HIDE DEF a
  <2> QED
    BY <1>2, <1>4, <1>5, HandlerStep DEF Load

LEMMA GetInv == ASSUME IInv, NEW t \in Slots, Get(t) PROVE IInv'
<1>1. /\ req[t] \in Request /\ req[t].session \in Sessions
      /\ memory[req[t].session] \in SUBSET Ids
      /\ memory[req[t].session] \subseteq checked[req[t].session]
  BY DEF IInv, TypeOK, Request
<1>2. PICK shown \in {memory[req[t].session], {}} : req' = [req EXCEPT ![t] = GoesOn(t, shown)]
  BY DEF Get
<1>3. shown \in SUBSET Ids /\ shown \subseteq checked[req[t].session]
  BY <1>1
<1>4. Busy(t) /\ TypeOK
  BY DEF Get, IInv
<1>5. GoesOn(t, shown) \in Request /\ HandlerOK(GoesOn(t, shown), memory, checked)
  BY <1>3, <1>4, GoesOnTyped, HoldsNothing
<1>6. QED
  BY <1>2, <1>5, HandlerStep DEF Get

LEMMA ActInv == ASSUME IInv, NEW t \in Slots, Act(t) PROVE IInv'
<1>1. Busy(t) /\ TypeOK
  BY DEF Act, IInv
<1>2. GoesOn(t, {}) \in Request /\ HandlerOK(GoesOn(t, {}), memory, checked)
  BY <1>1, GoesOnTyped, HoldsNothing
<1>3. Idle \in Request /\ HandlerOK(Idle, memory, checked)
  BY IdleTyped, HoldsNothing DEF Idle
<1>4. CASE req' = [req EXCEPT ![t] = GoesOn(t, {})]
  BY <1>2, <1>4, HandlerStep DEF Act
<1>5. CASE req' = [req EXCEPT ![t] = Idle]
  BY <1>3, <1>5, HandlerStep DEF Act
<1>6. QED
  BY <1>4, <1>5 DEF Act

\* Requests fail to read the blob, or to write it.
LEMMA DisturbKeeps ==
    ASSUME IInv, NEW s \in Sessions, Disturb(s)
    PROVE  /\ wanted' \in [Sessions -> SUBSET Ids]
           /\ disturbed' \in [Sessions -> BOOLEAN]
           /\ \A r \in Sessions : ~disturbed'[r] => r # s /\ ~disturbed[r] /\ wanted'[r] = wanted[r]
BY DEF IInv, TypeOK, Disturb

LEMMA SettleKeeps ==
    ASSUME IInv, NEW s \in Sessions, Settle(s)
    PROVE  /\ wanted' \in [Sessions -> SUBSET Ids]
           /\ disturbed' \in [Sessions -> BOOLEAN]
           /\ wanted'[s] = {}
           /\ \A r \in Sessions \ {s} : disturbed'[r] = disturbed[r] /\ wanted'[r] = wanted[r]
BY DEF IInv, TypeOK, Settle

LEMMA LoadFailsInv == ASSUME IInv, NEW t \in Slots, LoadFails(t) PROVE IInv'
<1>1. req[t].session \in Sessions /\ Busy(t) /\ TypeOK
  BY DEF IInv, TypeOK, Request, LoadFails
<1>2. GoesOn(t, {}) \in Request /\ HandlerOK(GoesOn(t, {}), memory, checked)
  BY <1>1, GoesOnTyped, HoldsNothing
<1>3. memory' = memory /\ checked' = checked /\ req' = [req EXCEPT ![t] = GoesOn(t, {})]
  BY DEF LoadFails
<1>4. req' \in [Slots -> Request] /\ \A u \in Slots : HandlerInv(u)'
  BY <1>2, <1>3, OneHandler
<1>5. Disturb(req[t].session)
  BY DEF LoadFails
<1>6. TypeOK'
  BY <1>1, <1>4, <1>5, DisturbKeeps DEF IInv, TypeOK, LoadFails
<1>7. SelectionIsWanted' /\ \A s \in Sessions : memory'[s] \subseteq checked'[s]
  BY <1>1, <1>3, <1>5, DisturbKeeps DEF IInv, SelectionIsWanted
<1>8. QED
  BY <1>4, <1>6, <1>7 DEF IInv

\* The blob of a session is rewritten and one of its handlers goes on.
LEMMA RewriteKeeps ==
    ASSUME IInv, NEW t \in Slots, NEW s \in Sessions, NEW selection \in SUBSET Ids,
           selection \subseteq checked[s], Busy(t), checked' = checked,
           memory' = [memory EXCEPT ![s] = selection],
           req' = [Overtaken(s) EXCEPT ![t] = GoesOn(t, {})]
    PROVE  /\ req' \in [Slots -> Request]
           /\ memory' \in [Sessions -> SUBSET Ids]
           /\ \A u \in Slots : HandlerInv(u)'
           /\ \A r \in Sessions : memory'[r] \subseteq checked'[r]
<1>1. memory \in [Sessions -> SUBSET Ids] /\ TypeOK
  BY DEF IInv, TypeOK
<1>2. GoesOn(t, {}) \in Request /\ HandlerOK(GoesOn(t, {}), memory', checked)
  BY <1>1, GoesOnTyped, HoldsNothing
<1>3. Overtaken(s) \in [Slots -> Request]
      /\ \A u \in Slots : HandlerOK(Overtaken(s)[u], memory', checked)
  BY BlobRewritten
<1>4. req' \in [Slots -> Request] /\ \A u \in Slots : HandlerOK(req'[u], memory', checked')
  BY <1>2, <1>3
<1>5. \A r \in Sessions : memory'[r] \subseteq checked'[r]
  BY <1>1 DEF IInv
<1>6. QED
  BY <1>1, <1>4, <1>5, HandlerIsOKNext

\* What a handler writes was clicked in its session.
LEMMA ChangedChecked ==
    ASSUME IInv, NEW t \in Slots, req[t].loaded
    PROVE  /\ req[t].session \in Sessions
           /\ Busy(t)
           /\ Changed(Op(t), req[t].copy, req[t].clicked) \in SUBSET Ids
           /\ Changed(Op(t), req[t].copy, req[t].clicked) \subseteq checked[req[t].session]
<1>1. req[t] \in Request /\ HandlerInv(t)
  BY DEF IInv, TypeOK
<1>2. req[t].session \in Sessions /\ req[t].copy \in SUBSET Ids /\ req[t].clicked \in SUBSET Ids
  BY <1>1 DEF Request
<1>3. QED
  BY <1>1, <1>2 DEF HandlerInv, Changed

LEMMA SaveInv == ASSUME IInv, NEW t \in Slots, Save(t) PROVE IInv'
<1> DEFINE s == req[t].session
           new == Changed(Op(t), req[t].copy, req[t].clicked)
<1>1. /\ s \in Sessions /\ Busy(t)
      /\ new \in SUBSET Ids /\ new \subseteq checked[s]
  BY ChangedChecked DEF Save
<1>2. /\ memory' = [memory EXCEPT ![s] = new] /\ checked' = checked
      /\ req' = [Overtaken(s) EXCEPT ![t] = GoesOn(t, {})]
      /\ disturbed' = [disturbed EXCEPT ![s] = Op(t) # "clear" /\ (@ \/ req[t].overlap)]
      /\ wanted' = [wanted EXCEPT ![s] = IF disturbed'[s] THEN {}
                                         ELSE Changed(Op(t), @, req[t].clicked)]
      /\ UNCHANGED <<session, logins>>
  BY DEF Save
<1>3. /\ req' \in [Slots -> Request]
      /\ memory' \in [Sessions -> SUBSET Ids]
      /\ \A u \in Slots : HandlerInv(u)'
      /\ \A r \in Sessions : memory'[r] \subseteq checked'[r]
  <2> HIDE DEF new
  <2> QED
    BY <1>1, <1>2, RewriteKeeps
<1>4. /\ req[t].clicked \in SUBSET Ids /\ req[t].overlap \in BOOLEAN
      /\ wanted \in [Sessions -> SUBSET Ids] /\ disturbed \in [Sessions -> BOOLEAN]
      /\ memory \in [Sessions -> SUBSET Ids]
  BY DEF IInv, TypeOK, Request
<1>5. disturbed' \in [Sessions -> BOOLEAN] /\ wanted' \in [Sessions -> SUBSET Ids]
  <2>1. Changed(Op(t), wanted[s], req[t].clicked) \in SUBSET Ids
    BY <1>1, <1>4 DEF Changed
  <2>2. QED
    BY <1>1, <1>2, <1>4, <2>1
<1>6. SelectionIsWanted'
  <2> SUFFICES ASSUME NEW r \in Sessions, ~disturbed'[r]
               PROVE  memory'[r] = wanted'[r]
    BY DEF SelectionIsWanted
  <2>1. CASE r # s
    <3>1. ~disturbed[r]
      BY <1>1, <1>2, <1>4, <2>1
    <3>2. memory[r] = wanted[r]
      BY <3>1 DEF IInv, SelectionIsWanted
    <3>3. QED
      BY <1>2, <1>4, <2>1, <3>2
  <2>2. CASE r = s /\ Op(t) = "clear"
    <3>1. new = {} /\ Changed(Op(t), wanted[s], req[t].clicked) = {}
      BY <2>2 DEF Changed
    <3>2. QED
      BY <1>1, <1>2, <1>4, <2>2, <3>1
  <2>3. CASE r = s /\ Op(t) # "clear"
    <3>1. ~disturbed[s] /\ ~req[t].overlap
      BY <1>1, <1>2, <1>4, <2>3
    <3>2. req[t].copy = memory[s] /\ memory[s] = wanted[s]
      BY <1>1, <3>1 DEF IInv, HandlerInv, SelectionIsWanted, Save
    <3>3. memory'[s] = new /\ wanted'[s] = Changed(Op(t), wanted[s], req[t].clicked)
      BY <1>1, <1>2, <1>4, <2>3
    <3>4. QED
      BY <2>3, <3>2, <3>3
  <2>4. QED
    BY <2>1, <2>2, <2>3
<1>7. TypeOK'
  BY <1>2, <1>3, <1>5 DEF IInv, TypeOK
<1>8. QED
  BY <1>3, <1>6, <1>7 DEF IInv

LEMMA SaveFailsInv == ASSUME IInv, NEW t \in Slots, SaveFails(t) PROVE IInv'
<1> DEFINE s == req[t].session
           new == Changed(Op(t), req[t].copy, req[t].clicked)
<1>1. /\ s \in Sessions /\ Busy(t)
      /\ new \in SUBSET Ids /\ new \subseteq checked[s]
  BY ChangedChecked DEF SaveFails
<1>2. Disturb(s) /\ checked' = checked /\ UNCHANGED <<session, logins>>
  BY DEF SaveFails
<1>3. /\ req' \in [Slots -> Request]
      /\ memory' \in [Sessions -> SUBSET Ids]
      /\ \A u \in Slots : HandlerInv(u)'
      /\ \A r \in Sessions : memory'[r] \subseteq checked'[r]
      /\ \A r \in Sessions \ {s} : memory'[r] = memory[r]
  <2>1. CASE /\ memory' = [memory EXCEPT ![s] = new]
             /\ req' = [Overtaken(s) EXCEPT ![t] = GoesOn(t, {})]
    <3>1. \A r \in Sessions \ {s} : memory'[r] = memory[r]
      BY <2>1 DEF IInv, TypeOK
    <3> HIDE DEF new
    <3>2. QED
      BY <1>1, <1>2, <2>1, <3>1, RewriteKeeps
  <2>2. CASE req' = [req EXCEPT ![t] = GoesOn(t, {})] /\ memory' = memory
    <3>1. GoesOn(t, {}) \in Request /\ HandlerOK(GoesOn(t, {}), memory, checked')
      BY <1>1, <1>2, GoesOnTyped, HoldsNothing DEF IInv
    <3>2. req' \in [Slots -> Request] /\ \A u \in Slots : HandlerInv(u)'
      BY <1>2, <2>2, <3>1, OneHandler
    <3>3. QED
      BY <1>2, <2>2, <3>2 DEF IInv, TypeOK
  <2>3. QED
    BY <2>1, <2>2 DEF SaveFails, Key
<1>4. TypeOK'
  BY <1>1, <1>2, <1>3, DisturbKeeps DEF IInv, TypeOK
<1>5. SelectionIsWanted'
  BY <1>1, <1>2, <1>3, DisturbKeeps DEF IInv, SelectionIsWanted
<1>6. QED
  BY <1>3, <1>4, <1>5 DEF IInv

\* The blob of session s goes.
LEMMA BlobGone ==
    ASSUME IInv, NEW s \in Sessions, Settle(s), checked' = checked,
           memory' = [memory EXCEPT ![s] = {}], req' = Overtaken(s)
    PROVE  /\ req' \in [Slots -> Request]
           /\ memory' \in [Sessions -> SUBSET Ids]
           /\ \A u \in Slots : HandlerInv(u)'
           /\ \A r \in Sessions : memory'[r] \subseteq checked'[r]
           /\ SelectionIsWanted'
<1>1. memory \in [Sessions -> SUBSET Ids]
  BY DEF IInv, TypeOK
<1>2. /\ Overtaken(s) \in [Slots -> Request]
      /\ \A u \in Slots : HandlerOK(Overtaken(s)[u], memory', checked)
  BY BlobRewritten
<1>3. \A u \in Slots : HandlerInv(u)'
  BY <1>2, HandlerIsOKNext
<1>4. \A r \in Sessions : memory'[r] \subseteq checked'[r]
  BY <1>1 DEF IInv
<1>5. SelectionIsWanted'
  BY <1>1, SettleKeeps DEF IInv, SelectionIsWanted
<1>6. QED
  BY <1>1, <1>2, <1>3, <1>4, <1>5

LEMMA ExpireInv == ASSUME IInv, NEW s \in Sessions, Expire(s) PROVE IInv'
<1>1. /\ Settle(s) /\ checked' = checked
      /\ memory' = [memory EXCEPT ![s] = {}] /\ req' = Overtaken(s)
      /\ UNCHANGED <<session, logins>>
  BY DEF Expire
<1>2. TypeOK'
  BY <1>1, BlobGone, SettleKeeps DEF IInv, TypeOK
<1>3. QED
  BY <1>1, <1>2, BlobGone DEF IInv

LEMMA LogoutInv == IInv /\ Logout => IInv'
<1> SUFFICES ASSUME IInv, Logout PROVE IInv'
  OBVIOUS
<1>1. session \in Sessions /\ session' \in 0..logins' /\ logins' = logins /\ checked' = checked
  BY DEF IInv, TypeOK, Logout
<1>2. CASE /\ Settle(session) /\ memory' = [memory EXCEPT ![session] = {}]
           /\ req' = Overtaken(session)
  <2>1. TypeOK'
    BY <1>1, <1>2, BlobGone, SettleKeeps DEF IInv, TypeOK
  <2>2. QED
    BY <1>1, <1>2, <2>1, BlobGone DEF IInv
<1>3. CASE Disturb(session) /\ UNCHANGED <<memory, req>>
  <2>1. TypeOK'
    BY <1>1, <1>3, DisturbKeeps DEF IInv, TypeOK
  <2>2. \A u \in Slots : HandlerInv(u)'
    BY <1>1, <1>3 DEF IInv, HandlerInv, Busy, Op
  <2>3. SelectionIsWanted'
    BY <1>1, <1>3, DisturbKeeps DEF IInv, SelectionIsWanted
  <2>4. QED
    BY <1>1, <1>3, <2>1, <2>2, <2>3 DEF IInv
<1>4. QED
  BY <1>2, <1>3 DEF Logout

-----------------------------------------------------------------------------
\* The theorems.

\* IInv is an invariant of every behaviour.
THEOREM MemoryInvariance == Spec => []IInv
<1>1. Init => IInv
  BY InitInv
<1>2. IInv /\ [Next]_vars => IInv'
  <2> SUFFICES ASSUME IInv, [Next]_vars PROVE IInv'
    OBVIOUS
  <2>1. CASE Login
    BY <2>1, LoginInv
  <2>2. CASE Logout
    BY <2>2, LogoutInv
  <2>3. CASE \E t \in Slots, k \in Kinds, ids \in SUBSET Ids :
                \E todo \in Scripts[k] : Send(t, k, todo, ids)
    BY <2>3, SendInv
  <2>4. CASE \E t \in Slots : Handler(t)
    BY <2>4, LoadInv, SaveInv, SaveFailsInv, LoadFailsInv, GetInv, ActInv
       DEF Handler
  <2>5. CASE \E s \in Sessions : Expire(s)
    BY <2>5, ExpireInv
  <2>6. CASE UNCHANGED vars
    <3>1. TypeOK'
      BY <2>6 DEF IInv, TypeOK, vars
    <3>2. \A u \in Slots : HandlerInv(u)'
      BY <2>6 DEF IInv, HandlerInv, Busy, Op, vars
    <3>3. SelectionIsWanted' /\ \A s \in Sessions : memory'[s] \subseteq checked'[s]
      BY <2>6 DEF IInv, SelectionIsWanted, vars
    <3>4. QED
      BY <3>1, <3>2, <3>3 DEF IInv
  <2>7. QED
    BY <2>1, <2>2, <2>3, <2>4, <2>5, <2>6 DEF Next
<1>3. QED
  BY <1>1, <1>2, PTL DEF Spec

\* No bulk decision is submitted for a request that its login session did not
\* ask to select (_get_selection and bulk_submit_decision of both screens).
THEOREM ActedWereCheckedHolds == Spec => []ActedWereChecked
<1>1. IInv => ActedWereChecked
  BY DEF IInv, HandlerInv, ActedWereChecked
<1>2. QED
  BY <1>1, MemoryInvariance, PTL

\* The selection is what the clicks amount to, unless two rewrites of the blob
\* overlapped or failed since it was last cleared (SessionMemory.load and save).
THEOREM SelectionIsWantedHolds == Spec => []SelectionIsWanted
<1>1. IInv => SelectionIsWanted
  BY DEF IInv
<1>2. QED
  BY <1>1, MemoryInvariance, PTL

\* Types, which the rest of the argument needs at every record it takes apart.
THEOREM MemoryTypeCorrect == Spec => []TypeOK
<1>1. IInv => TypeOK
  BY DEF IInv
<1>2. QED
  BY <1>1, MemoryInvariance, PTL
=============================================================================

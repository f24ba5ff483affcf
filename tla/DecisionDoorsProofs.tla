------------------------ MODULE DecisionDoorsProofs ------------------------
(***************************************************************************)
(* Proofs about DecisionDoors, for any number of reviews, users, requests  *)
(* and permissions and any size of a bulk.  IInv follows each item of a    *)
(* request from the check of the permission to the claim of its review:    *)
(* what was checked before a signal is still true of it when the signal is *)
(* handled, and an item that was turned down never sent one.               *)
(***************************************************************************)
EXTENDS DecisionDoors, TLAPS

-----------------------------------------------------------------------------
\* The inductive invariant.

\* The items whose signal may have been accepted.
Sent == {"wait", "ok", "raised"}

\* The actor has the permission for the decision, or for what the manager's routes
\* take a CANCELLED for.  Whether it is the owner who cancels is another matter.
Allowed(r) ==
    /\ r.decision \in VALID_DECISIONS \ {"CANCELLED"}
       => _DECISION_PERMISSIONS[r.decision] \in Scopes[r.actor]
    /\ r.decision = "CANCELLED"
       => \/ "Cancel" \in Scopes[r.actor]
          \/ r.door \in {"manager", "manager_bulk"} /\ "Reject" \in Scopes[r.actor]

\* What holds of a request on its way to the service.
AskInv(b) ==
    /\ req[b].pc \in {"idle", "permission", "start"} => \A i \in Ids : item[b][i] = "none"
    /\ req[b].pc = "permission" /\ req[b].door \in {"operator", "operator_bulk"}
       => req[b].decision = "CANCELLED"
    /\ req[b].pc = "start" => Allowed(req[b])
    /\ req[b].answer # "none" => req[b].pc = "answered"
    /\ \A i \in Ids : item[b][i] # "none" => i \in req[b].ids
    /\ req[b].pc \in {"permission", "start", "gather"} /\ req[b].door \notin Bulk
       => \E i \in Ids : req[b].ids = {i}

\* A request that failed unhandled, and not for an RPCError, has done with its review.
Undone(b) ==
    /\ req[b].door = "manager"
    /\ \A i \in Ids : item[b][i] \in {"none"} \cup Failed

RaisedInv(b) == req[b].answer = "raised" => "raised" \in Results(b) \/ Undone(b)

\* What has been found out about an item ...
CheckedInv(b, i) ==
    /\ item[b][i] # "none" => req[b].decision \in VALID_DECISIONS /\ Allowed(req[b])
    /\ item[b][i] \in {"signal", "reconcile"} \cup Sent
       => /\ stage[i] # "absent"
          /\ req[b].decision = "CANCELLED" => Owner[i] = req[b].actor
    /\ item[b][i] = "reconcile" => ~running[i]
    /\ item[b][i] = "closed" => stage[i] \in {"decided", "detached"}

\* ... and what has become of its signal.
SignalInv(b, i) ==
    /\ item[b][i] \notin Sent => author[i] # b /\ b \notin mail[i]
    /\ item[b][i] \in {"wait", "ok"} /\ running[i] => winner[i] # "NONE" \/ b \in mail[i]

\* What holds of a review.
ReviewInv(i) ==
    /\ author[i] = "nobody" <=> winner[i] = "NONE"
    /\ author[i] \in Requests
       => winner[i] = req[author[i]].decision /\ author[i] \notin mail[i]
    /\ stage[i] = "decided" => winner[i] # "NONE" /\ verdict[i] = winner[i]
    /\ stage[i] = "detached" => verdict[i] # "NONE"
    /\ stage[i] = "detached" => ~running[i]

IInv ==
    /\ TypeOK
    /\ \A b \in Requests : AskInv(b)
    /\ \A b \in Requests, i \in Ids : CheckedInv(b, i)
    /\ \A b \in Requests, i \in Ids : SignalInv(b, i)
    /\ \A i \in Ids : ReviewInv(i)
    /\ \A b \in Requests : RaisedInv(b)

-----------------------------------------------------------------------------
\* What the helpers of the actions do.

States == {"none", "read", "signal", "reconcile", "wait"} \cup Settled

\* The record that stands for no request is one.
LEMMA NoRequestTyped == NoRequest \in Request
<1>1. (CHOOSE u \in Users : TRUE) \in Users
  BY UsersAssumption
<1>2. QED
  BY <1>1 DEF NoRequest, Request, Doors, Decisions

\* Item moves one item and no other.
LEMMA ItemEffect ==
    ASSUME TypeOK, NEW b \in Requests, NEW i \in Ids, NEW state \in States, Item(b, i, state)
    PROVE  /\ item' \in [Requests -> [Ids -> States]]
           /\ item'[b][i] = state
           /\ \A c \in Requests, j \in Ids : c # b \/ j # i => item'[c][j] = item[c][j]
<1>1. item \in [Requests -> [Ids -> States]]
  BY DEF TypeOK, States
<1>2. item' = [item EXCEPT ![b] = [item[b] EXCEPT ![i] = state]]
  BY DEF Item
<1>3. [item[b] EXCEPT ![i] = state] \in [Ids -> States]
  BY <1>1
<1>4. QED
  BY <1>1, <1>2, <1>3

\* Answer ends one request and leaves what it asked for.
LEMMA AnswerEffect ==
    ASSUME TypeOK, NEW b \in Requests, NEW a \in {"denied", "rejected", "results", "raised"},
           Answer(b, a)
    PROVE  /\ req' \in [Requests -> Request]
           /\ req'[b].pc = "answered" /\ req'[b].answer = a
           /\ req'[b].door = req[b].door /\ req'[b].actor = req[b].actor
           /\ req'[b].decision = req[b].decision /\ req'[b].ids = req[b].ids
           /\ \A c \in Requests : c # b => req'[c] = req[c]
<1>1. req \in [Requests -> Request]
  BY DEF TypeOK
<1>2. req' = [req EXCEPT ![b] = [req[b] EXCEPT !.pc = "answered", !.answer = a]]
  BY DEF Answer
<1>3. [req[b] EXCEPT !.pc = "answered", !.answer = a] \in Request
  BY <1>1 DEF Request
<1>4. QED
  BY <1>1, <1>2, <1>3 DEF Request

\* TurnAway ends one request and forgets it.
LEMMA TurnAwayEffect ==
    ASSUME TypeOK, NEW b \in Requests, NEW a \in {"denied", "rejected"}, TurnAway(b, a)
    PROVE  /\ req' \in [Requests -> Request]
           /\ req'[b].pc = "answered" /\ req'[b].answer = a
           /\ \A c \in Requests : c # b => req'[c] = req[c]
<1>1. req \in [Requests -> Request]
  BY DEF TypeOK
<1>2. req' = [req EXCEPT ![b] = [NoRequest EXCEPT !.pc = "answered", !.answer = a]]
  BY DEF TurnAway
<1>3. /\ [NoRequest EXCEPT !.pc = "answered", !.answer = a] \in Request
      /\ [NoRequest EXCEPT !.pc = "answered", !.answer = a].pc = "answered"
      /\ [NoRequest EXCEPT !.pc = "answered", !.answer = a].answer = a
  BY NoRequestTyped DEF Request
<1>4. QED
  BY <1>1, <1>2, <1>3

\* A request with an item that is no longer "none" has gone to the service.
LEMMA AtService ==
    ASSUME IInv, NEW b \in Requests, NEW i \in Ids, item[b][i] # "none"
    PROVE  req[b].pc \in {"gather", "answered"}
BY DEF IInv, AskInv, TypeOK, Request

\* The request whose signal a review waits for or has followed was sent there.
LEMMA MailIsSent ==
    ASSUME IInv, NEW b \in Requests, NEW i \in Ids, b \in mail[i] \/ author[i] = b
    PROVE  /\ item[b][i] \in Sent
           /\ stage[i] # "absent"
           /\ req[b].decision \in VALID_DECISIONS
           /\ Allowed(req[b])
           /\ req[b].decision = "CANCELLED" => Owner[i] = req[b].actor
<1>1. item[b][i] \in Sent
  BY DEF IInv, SignalInv
<1>2. item[b][i] # "none"
  BY <1>1 DEF Sent
<1>3. QED
  BY <1>1, <1>2 DEF IInv, CheckedInv

-----------------------------------------------------------------------------
\* The steps of requests and of items.

\* A step of requests alone: it may only change what has no item yet.
LEMMA RequestStep ==
    ASSUME IInv, req' \in [Requests -> Request], UNCHANGED <<reviewVars, mail, item>>,
           \A b \in Requests, i \in Ids :
              item[b][i] # "none" => /\ req'[b].decision = req[b].decision
                                     /\ req'[b].actor = req[b].actor
                                     /\ req'[b].door = req[b].door,
           \A b \in Requests : AskInv(b)' /\ RaisedInv(b)'
    PROVE  IInv'
<1>1. /\ stage' = stage /\ verdict' = verdict /\ winner' = winner /\ author' = author
      /\ running' = running /\ mail' = mail /\ item' = item
  BY DEF reviewVars
<1>2. TypeOK'
  BY <1>1 DEF IInv, TypeOK
<1>3. ASSUME NEW b \in Requests, NEW i \in Ids PROVE CheckedInv(b, i)' /\ SignalInv(b, i)'
  <2>1. CheckedInv(b, i) /\ SignalInv(b, i)
    BY DEF IInv
  <2>2. SignalInv(b, i)'
    BY <1>1, <2>1 DEF SignalInv
  <2>3. CASE item[b][i] = "none"
    BY <1>1, <2>1, <2>2, <2>3 DEF CheckedInv, Sent
  <2>4. CASE item[b][i] # "none"
    <3>1. /\ req'[b].decision = req[b].decision /\ req'[b].actor = req[b].actor
          /\ req'[b].door = req[b].door
      BY <2>4
    <3>2. CheckedInv(b, i)'
      BY <1>1, <2>1, <3>1 DEF CheckedInv, Allowed
    <3>3. QED
      BY <2>2, <3>2
  <2>5. QED
    BY <2>3, <2>4
<1>4. ASSUME NEW i \in Ids PROVE ReviewInv(i)'
  <2>1. ReviewInv(i)
    BY DEF IInv
  <2>2. author[i] \in Requests => req'[author[i]].decision = req[author[i]].decision
    BY MailIsSent DEF Sent
  <2>3. QED
    BY <1>1, <2>1, <2>2 DEF ReviewInv
<1>5. QED
  BY <1>2, <1>3, <1>4 DEF IInv

\* What a step of an item leaves of the requests.
LEMMA ItemStep ==
    ASSUME IInv, req' = req, NEW b \in Requests, NEW i \in Ids, NEW state \in States,
           Item(b, i, state), item[b][i] \in {"read", "signal", "reconcile", "wait"}
    PROVE  \A c \in Requests : AskInv(c)' /\ RaisedInv(c)'
<1>1. TypeOK
  BY DEF IInv
<1>2. /\ item' \in [Requests -> [Ids -> States]]
      /\ item'[b][i] = state
      /\ \A c \in Requests, j \in Ids : c # b \/ j # i => item'[c][j] = item[c][j]
  BY <1>1, ItemEffect
<1>3. req[b].pc \in {"gather", "answered"}
  BY AtService
<1>4. ASSUME NEW c \in Requests PROVE AskInv(c)'
  BY <1>2, <1>3 DEF AskInv, IInv, Allowed
<1>5. ASSUME NEW c \in Requests PROVE RaisedInv(c)'
  <2> SUFFICES ASSUME req[c].answer = "raised" PROVE "raised" \in Results(c)' \/ Undone(c)'
    BY DEF RaisedInv
  <2>1. "raised" \in Results(c) => "raised" \in Results(c)'
    <3> SUFFICES ASSUME NEW j \in req[c].ids, item[c][j] = "raised"
                 PROVE  item'[c][j] = "raised"
      BY DEF Results
    <3>1. j \in Ids
      BY <1>1 DEF TypeOK, Request
    <3>2. QED
      BY <1>2, <3>1
  <2>2. ASSUME Undone(c) PROVE Undone(c)'
    <3>1. c # b
      BY <2>2 DEF Undone, Failed
    <3>2. QED
      BY <1>2, <2>2, <3>1 DEF Undone
  <2>3. "raised" \in Results(c) \/ Undone(c)
    BY DEF IInv, RaisedInv
  <2>4. QED
    BY <2>1, <2>2, <2>3
<1>6. QED
  BY <1>4, <1>5

\* What a step of a review leaves of the requests.
LEMMA ReviewStep ==
    ASSUME IInv, UNCHANGED <<req, item>>
    PROVE  \A c \in Requests : AskInv(c)' /\ RaisedInv(c)'
<1>1. \A c \in Requests : AskInv(c)'
  BY DEF IInv, AskInv, Allowed
<1>2. \A c \in Requests : RaisedInv(c)'
  BY DEF IInv, RaisedInv, Undone, Results
<1>3. QED
  BY <1>1, <1>2

-----------------------------------------------------------------------------
\* Every action keeps the invariant: first those of the reviews.

LEMMA CreateKeeps == ASSUME IInv, NEW i \in Ids, Create(i) PROVE IInv'
<1>1. /\ stage' = [stage EXCEPT ![i] = "pending"] /\ stage[i] = "absent"
      /\ UNCHANGED <<verdict, winner, author, running, mail, req, item>>
  BY DEF Create
<1>2. stage \in [Ids -> {"absent", "pending", "decided", "detached"}]
  BY DEF IInv, TypeOK
<1>3. TypeOK'
  BY <1>1, <1>2 DEF IInv, TypeOK
<1>4. ASSUME NEW b \in Requests, NEW j \in Ids PROVE CheckedInv(b, j)'
  <2>1. CheckedInv(b, j)
    BY DEF IInv
  <2>2. QED
    BY <1>1, <1>2, <2>1 DEF CheckedInv, Allowed
<1>5. ASSUME NEW b \in Requests, NEW j \in Ids PROVE SignalInv(b, j)'
  BY <1>1 DEF IInv, SignalInv
<1>6. ASSUME NEW j \in Ids PROVE ReviewInv(j)'
  <2>1. ReviewInv(j)
    BY DEF IInv
  <2>2. QED
    BY <1>1, <1>2, <2>1 DEF ReviewInv
<1>7. QED
  BY <1>1, <1>3, <1>4, <1>5, <1>6, ReviewStep DEF IInv

LEMMA HandleKeeps ==
    ASSUME IInv, NEW i \in Ids, NEW b \in Requests, Handle(i, b) PROVE IInv'
<1>1. /\ running[i] /\ b \in mail[i]
      /\ mail' = [mail EXCEPT ![i] = mail[i] \ {b}]
      /\ UNCHANGED <<stage, verdict, running, req, item>>
  BY DEF Handle
<1>2. /\ winner \in [Ids -> VALID_DECISIONS \cup {"NONE"}]
      /\ author \in [Ids -> Requests \cup {"nobody", "temporal-admin"}]
      /\ mail \in [Ids -> SUBSET Requests]
  BY DEF IInv, TypeOK
<1>3. item[b][i] \in Sent /\ req[b].decision \in VALID_DECISIONS
  BY <1>1, MailIsSent
<1>4. \/ /\ winner[i] = "NONE"
         /\ winner' = [winner EXCEPT ![i] = req[b].decision]
         /\ author' = [author EXCEPT ![i] = b]
      \/ winner[i] # "NONE" /\ UNCHANGED <<winner, author>>
  BY DEF Handle
<1>5. req[b].decision # "NONE" /\ b # "nobody"
  BY <1>3, RequestsAssumption DEF VALID_DECISIONS
<1>6. TypeOK'
  <2>1. winner' \in [Ids -> VALID_DECISIONS \cup {"NONE"}]
    BY <1>2, <1>3, <1>4
  <2>2. author' \in [Ids -> Requests \cup {"nobody", "temporal-admin"}]
    BY <1>2, <1>4
  <2>3. mail' \in [Ids -> SUBSET Requests]
    BY <1>1, <1>2
  <2>4. QED
    BY <1>1, <2>1, <2>2, <2>3 DEF IInv, TypeOK
<1>7. ASSUME NEW c \in Requests, NEW j \in Ids PROVE CheckedInv(c, j)'
  BY <1>1 DEF IInv, CheckedInv, Allowed
<1>8. ASSUME NEW c \in Requests, NEW j \in Ids PROVE SignalInv(c, j)'
  <2>1. SignalInv(c, j)
    BY DEF IInv
  <2>2. CASE j # i
    <3>1. mail'[j] = mail[j] /\ winner'[j] = winner[j] /\ author'[j] = author[j]
      BY <1>1, <1>2, <1>4, <2>2
    <3>2. QED
      BY <1>1, <2>1, <3>1 DEF SignalInv
  <2>3. CASE j = i
    <3>1. mail'[i] = mail[i] \ {b} /\ winner'[i] # "NONE"
      BY <1>1, <1>2, <1>4, <1>5
    <3>2. author'[i] = b \/ author'[i] = author[i]
      BY <1>2, <1>4
    <3>3. QED
      BY <1>1, <1>3, <2>1, <2>3, <3>1, <3>2 DEF SignalInv
  <2>4. QED
    BY <2>2, <2>3
<1>9. ASSUME NEW j \in Ids PROVE ReviewInv(j)'
  <2>1. ReviewInv(j)
    BY DEF IInv
  <2>2. QED
    BY <1>1, <1>2, <1>4, <1>5, <2>1 DEF ReviewInv
<1>10. QED
  BY <1>1, <1>6, <1>7, <1>8, <1>9, ReviewStep DEF IInv

LEMMA ForceCancelKeeps == ASSUME IInv, NEW i \in Ids, ForceCancel(i) PROVE IInv'
<1>1. /\ stage[i] = "pending" /\ winner[i] = "NONE"
      /\ winner' = [winner EXCEPT ![i] = "CANCELLED"]
      /\ author' = [author EXCEPT ![i] = "temporal-admin"]
      /\ UNCHANGED <<stage, verdict, running, mail, req, item>>
  BY DEF ForceCancel
<1>2. /\ winner \in [Ids -> VALID_DECISIONS \cup {"NONE"}]
      /\ author \in [Ids -> Requests \cup {"nobody", "temporal-admin"}]
  BY DEF IInv, TypeOK
<1>3. /\ winner' \in [Ids -> VALID_DECISIONS \cup {"NONE"}]
      /\ author' \in [Ids -> Requests \cup {"nobody", "temporal-admin"}]
      /\ winner'[i] = "CANCELLED" /\ author'[i] = "temporal-admin"
      /\ \A j \in Ids : j # i => winner'[j] = winner[j] /\ author'[j] = author[j]
  BY <1>1, <1>2 DEF VALID_DECISIONS
<1>4. TypeOK'
  BY <1>1, <1>3 DEF IInv, TypeOK
<1>5. ASSUME NEW b \in Requests, NEW j \in Ids PROVE CheckedInv(b, j)'
  BY <1>1 DEF IInv, CheckedInv, Allowed
<1>6. ASSUME NEW b \in Requests, NEW j \in Ids PROVE SignalInv(b, j)'
  <2>1. SignalInv(b, j) /\ b # "temporal-admin"
    BY RequestsAssumption DEF IInv
  <2>2. QED
    BY <1>1, <1>3, <2>1 DEF SignalInv
<1>7. ASSUME NEW j \in Ids PROVE ReviewInv(j)'
  <2>1. ReviewInv(j) /\ "temporal-admin" \notin Requests
    BY RequestsAssumption DEF IInv
  <2>2. QED
    BY <1>1, <1>3, <2>1 DEF ReviewInv
<1>8. QED
  BY <1>1, <1>4, <1>5, <1>6, <1>7, ReviewStep DEF IInv

LEMMA PersistKeeps == ASSUME IInv, NEW i \in Ids, Persist(i) PROVE IInv'
<1>1. /\ stage[i] \in {"pending", "detached"} /\ winner[i] # "NONE"
      /\ verdict' = [verdict EXCEPT ![i] = winner[i]]
      /\ stage' = [stage EXCEPT ![i] = IF stage[i] = "pending" THEN "decided" ELSE stage[i]]
      /\ UNCHANGED <<winner, author, running, mail, req, item>>
  BY DEF Persist
<1>2. /\ stage \in [Ids -> {"absent", "pending", "decided", "detached"}]
      /\ verdict \in [Ids -> VALID_DECISIONS \cup {"LOST", "NONE"}]
      /\ winner \in [Ids -> VALID_DECISIONS \cup {"NONE"}]
  BY DEF IInv, TypeOK
<1>3. TypeOK'
  <2>1. /\ stage' \in [Ids -> {"absent", "pending", "decided", "detached"}]
        /\ verdict' \in [Ids -> VALID_DECISIONS \cup {"LOST", "NONE"}]
    BY <1>1, <1>2
  <2>2. QED
    BY <1>1, <2>1 DEF IInv, TypeOK
<1>4. stage'[i] \in {"decided", "detached"} /\ \A j \in Ids : j # i => stage'[j] = stage[j]
  BY <1>1, <1>2
<1>5. ASSUME NEW b \in Requests, NEW j \in Ids PROVE CheckedInv(b, j)'
  <2>1. CheckedInv(b, j)
    BY DEF IInv
  <2>2. QED
    BY <1>1, <1>4, <2>1 DEF CheckedInv, Allowed
<1>6. ASSUME NEW b \in Requests, NEW j \in Ids PROVE SignalInv(b, j)'
  BY <1>1 DEF IInv, SignalInv
<1>7. ASSUME NEW j \in Ids PROVE ReviewInv(j)'
  <2>1. ReviewInv(j)
    BY DEF IInv
  <2>2. stage'[j] = "detached" => stage[j] = "detached"
    BY <1>1, <1>2, <1>4
  <2>3. CASE j = i
    <3>1. verdict'[i] = winner[i]
      BY <1>1, <1>2
    <3>2. QED
      BY <1>1, <2>1, <2>2, <2>3, <3>1 DEF ReviewInv
  <2>4. CASE j # i
    <3>1. stage'[j] = stage[j] /\ verdict'[j] = verdict[j]
      BY <1>1, <1>2, <1>4, <2>4
    <3>2. QED
      BY <1>1, <2>1, <3>1 DEF ReviewInv
  <2>5. QED
    BY <2>3, <2>4
<1>8. QED
  BY <1>1, <1>3, <1>5, <1>6, <1>7, ReviewStep DEF IInv

LEMMA EndKeeps == ASSUME IInv, NEW i \in Ids, End(i) PROVE IInv'
<1>1. /\ running' = [running EXCEPT ![i] = FALSE] /\ mail' = [mail EXCEPT ![i] = {}]
      /\ UNCHANGED <<stage, verdict, winner, author, req, item>>
  BY DEF End
<1>2. running \in [Ids -> BOOLEAN] /\ mail \in [Ids -> SUBSET Requests]
  BY DEF IInv, TypeOK
<1>3. /\ running' \in [Ids -> BOOLEAN] /\ mail' \in [Ids -> SUBSET Requests]
      /\ ~running'[i] /\ mail'[i] = {}
      /\ \A j \in Ids : j # i => running'[j] = running[j] /\ mail'[j] = mail[j]
  <2>1. running' \in [Ids -> BOOLEAN] /\ ~running'[i]
    BY <1>1, <1>2
  <2>2. mail' \in [Ids -> SUBSET Requests] /\ mail'[i] = {}
    BY <1>1, <1>2
  <2>3. \A j \in Ids : j # i => running'[j] = running[j] /\ mail'[j] = mail[j]
    BY <1>1, <1>2
  <2>4. QED
    BY <2>1, <2>2, <2>3
<1>4. TypeOK'
  BY <1>1, <1>3 DEF IInv, TypeOK
<1>5. ASSUME NEW b \in Requests, NEW j \in Ids PROVE CheckedInv(b, j)'
  <2>1. CheckedInv(b, j)
    BY DEF IInv
  <2>2. ~running[j] => ~running'[j]
    BY <1>3
  <2>3. QED
    BY <1>1, <2>1, <2>2 DEF CheckedInv, Allowed
<1>6. ASSUME NEW b \in Requests, NEW j \in Ids PROVE SignalInv(b, j)'
  <2>1. SignalInv(b, j)
    BY DEF IInv
  <2>2. QED
    BY <1>1, <1>3, <2>1 DEF SignalInv
<1>7. ASSUME NEW j \in Ids PROVE ReviewInv(j)'
  <2>1. ReviewInv(j)
    BY DEF IInv
  <2>2. ~running[j] => ~running'[j]
    BY <1>3
  <2>3. QED
    BY <1>1, <2>1, <2>2 DEF ReviewInv
<1>8. QED
  BY <1>1, <1>4, <1>5, <1>6, <1>7, ReviewStep DEF IInv

-----------------------------------------------------------------------------
\* The items, from await to await.

\* What any step of one item leaves of the other items, when the reviews stay.
LEMMA OtherItems ==
    ASSUME IInv, NEW b \in Requests, NEW i \in Ids, NEW state \in States,
           Item(b, i, state), UNCHANGED <<reviewVars, mail, req>>,
           NEW c \in Requests, NEW j \in Ids, c # b \/ j # i
    PROVE  CheckedInv(c, j)' /\ SignalInv(c, j)'
<1>1. item'[c][j] = item[c][j]
  BY ItemEffect DEF IInv
<1>2. /\ stage' = stage /\ winner' = winner /\ author' = author
      /\ running' = running /\ mail' = mail /\ req' = req
  BY DEF reviewVars
<1>3. CheckedInv(c, j) /\ SignalInv(c, j)
  BY DEF IInv
<1>4. CheckedInv(c, j)'
  BY <1>1, <1>2, <1>3 DEF CheckedInv, Allowed
<1>5. SignalInv(c, j)'
  BY <1>1, <1>2, <1>3 DEF SignalInv
<1>6. QED
  BY <1>4, <1>5

\* A step of one item alone keeps the invariant if the item's new state is true.
LEMMA ItemAlone ==
    ASSUME IInv, NEW b \in Requests, NEW i \in Ids, NEW state \in States,
           Item(b, i, state), UNCHANGED <<reviewVars, mail, req>>,
           item[b][i] \in {"read", "signal", "reconcile", "wait"},
           CheckedInv(b, i)', SignalInv(b, i)'
    PROVE  IInv'
<1>1. /\ stage' = stage /\ verdict' = verdict /\ winner' = winner /\ author' = author
      /\ running' = running /\ mail' = mail /\ req' = req
  BY DEF reviewVars
<1>2. item' \in [Requests -> [Ids -> States]]
  BY ItemEffect DEF IInv
<1>3. TypeOK'
  BY <1>1, <1>2 DEF IInv, TypeOK, States
<1>4. ASSUME NEW c \in Requests, NEW j \in Ids PROVE CheckedInv(c, j)' /\ SignalInv(c, j)'
  <2>1. CASE c = b /\ j = i
    BY <2>1
  <2>2. CASE c # b \/ j # i
    BY <2>2, OtherItems
  <2>3. QED
    BY <2>1, <2>2
<1>5. \A j \in Ids : ReviewInv(j)'
  BY <1>1 DEF IInv, ReviewInv
<1>6. \A c \in Requests : AskInv(c)' /\ RaisedInv(c)'
  BY <1>1, ItemStep
<1>7. QED
  BY <1>3, <1>4, <1>5, <1>6 DEF IInv

LEMMA ReadKeeps ==
    ASSUME IInv, NEW b \in Requests, NEW i \in Ids, Read(b, i) PROVE IInv'
<1> DEFINE state == Finding(b, i)
<1>1. /\ item[b][i] = "read" /\ Item(b, i, state)
      /\ UNCHANGED <<reviewVars, mail, req>>
  BY DEF Read
<1>2. stage' = stage /\ running' = running /\ mail' = mail /\ author' = author /\ req' = req
  BY <1>1 DEF reviewVars
<1>3. state \in {"not_found", "closed", "not_owner", "signal"}
  BY DEF Finding
<1>4. state \in States
  BY <1>3 DEF States, Settled, Failed
<1>5. item'[b][i] = state
  BY <1>1, <1>4, ItemEffect DEF IInv
<1>6. /\ CheckedInv(b, i) /\ SignalInv(b, i)
      /\ stage[i] \in {"absent", "pending", "decided", "detached"}
  BY DEF IInv, TypeOK
<1>7. /\ state = "closed" => stage[i] \in {"decided", "detached"}
      /\ state = "signal" => /\ stage[i] # "absent"
                             /\ req[b].decision = "CANCELLED" => Owner[i] = req[b].actor
  BY <1>6 DEF Finding
<1>. HIDE DEF state
<1>8. CheckedInv(b, i)'
  <2>1. /\ item'[b][i] \notin Sent /\ item'[b][i] # "reconcile"
        /\ req[b].decision \in VALID_DECISIONS /\ Allowed(req[b])
    BY <1>1, <1>3, <1>5, <1>6 DEF Sent, CheckedInv
  <2>2. QED
    BY <1>2, <1>5, <1>7, <2>1 DEF CheckedInv, Allowed
<1>9. SignalInv(b, i)'
  BY <1>1, <1>2, <1>3, <1>5, <1>6 DEF SignalInv, Sent
<1>10. QED
  BY <1>1, <1>4, <1>8, <1>9, ItemAlone

\* The signal of b to i is on its way, and the item goes on as state.
LEMMA SignalSent ==
    ASSUME IInv, NEW b \in Requests, NEW i \in Ids, NEW state \in {"wait", "raised"},
           item[b][i] = "signal", Item(b, i, state),
           \/ running[i] /\ mail' = [mail EXCEPT ![i] = mail[i] \cup {b}]
           \/ state = "raised" /\ mail' = mail,
           UNCHANGED <<reviewVars, req>>
    PROVE  IInv'
<1>1. /\ stage' = stage /\ verdict' = verdict /\ winner' = winner /\ author' = author
      /\ running' = running /\ req' = req
  BY DEF reviewVars
<1>2. /\ mail \in [Ids -> SUBSET Requests] /\ state \in States
      /\ CheckedInv(b, i) /\ SignalInv(b, i)
  BY DEF IInv, TypeOK, States, Settled
<1>3. /\ item' \in [Requests -> [Ids -> States]] /\ item'[b][i] = state
      /\ \A c \in Requests, j \in Ids : c # b \/ j # i => item'[c][j] = item[c][j]
  BY <1>2, ItemEffect DEF IInv
<1>4. /\ mail' \in [Ids -> SUBSET Requests]
      /\ \A j \in Ids : j # i => mail'[j] = mail[j]
      /\ mail[i] \subseteq mail'[i] /\ mail'[i] \subseteq mail[i] \cup {b}
      /\ state = "wait" => b \in mail'[i]
  BY <1>2
<1>5. TypeOK'
  BY <1>1, <1>3, <1>4 DEF IInv, TypeOK, States
<1>6. ASSUME NEW c \in Requests, NEW j \in Ids PROVE CheckedInv(c, j)'
  <2>1. CheckedInv(c, j)
    BY DEF IInv
  <2>2. CASE c = b /\ j = i
    <3>1. /\ stage[i] # "absent"
          /\ req[b].decision = "CANCELLED" => Owner[i] = req[b].actor
          /\ req[b].decision \in VALID_DECISIONS /\ Allowed(req[b])
      BY <1>2 DEF CheckedInv
    <3>2. QED
      BY <1>1, <1>3, <2>2, <3>1 DEF CheckedInv, Allowed
  <2>3. CASE c # b \/ j # i
    BY <1>1, <1>3, <2>1, <2>3 DEF CheckedInv, Allowed
  <2>4. QED
    BY <2>2, <2>3
<1>7. ASSUME NEW c \in Requests, NEW j \in Ids PROVE SignalInv(c, j)'
  <2>1. SignalInv(c, j)
    BY DEF IInv
  <2>2. CASE c = b /\ j = i
    BY <1>1, <1>3, <1>4, <2>2 DEF SignalInv, Sent
  <2>3. CASE c # b \/ j # i
    <3>1. c \in mail'[j] <=> c \in mail[j]
      BY <1>4, <2>3
    <3>2. item'[c][j] = item[c][j]
      BY <1>3, <2>3
    <3>3. QED
      BY <1>1, <2>1, <3>1, <3>2 DEF SignalInv
  <2>4. QED
    BY <2>2, <2>3
<1>8. ASSUME NEW j \in Ids PROVE ReviewInv(j)'
  <2>1. ReviewInv(j)
    BY DEF IInv
  <2>2. author[i] # b
    BY <1>2 DEF SignalInv, Sent
  <2>3. author[j] \notin mail[j] => author[j] \notin mail'[j]
    BY <1>4, <2>2
  <2>4. QED
    BY <1>1, <2>1, <2>3 DEF ReviewInv
<1>9. \A c \in Requests : AskInv(c)' /\ RaisedInv(c)'
  BY <1>1, <1>2, ItemStep
<1>10. QED
  BY <1>5, <1>6, <1>7, <1>8, <1>9 DEF IInv

LEMMA SignalKeeps ==
    ASSUME IInv, NEW b \in Requests, NEW i \in Ids, Signal(b, i) PROVE IInv'
<1>1. item[b][i] = "signal" /\ UNCHANGED <<reviewVars, req>>
  BY DEF Signal
<1>2. CASE /\ running[i] /\ mail' = [mail EXCEPT ![i] = mail[i] \cup {b}]
           /\ Item(b, i, "wait")
  BY <1>1, <1>2, SignalSent
<1>3. CASE ~running[i] /\ Item(b, i, "reconcile") /\ UNCHANGED mail
  <2>1. /\ stage' = stage /\ running' = running /\ author' = author /\ winner' = winner
        /\ mail' = mail /\ req' = req
    BY <1>1, <1>3 DEF reviewVars
  <2>2. CheckedInv(b, i) /\ SignalInv(b, i) /\ "reconcile" \in States
    BY DEF IInv, States
  <2>3. item'[b][i] = "reconcile"
    BY <1>3, <2>2, ItemEffect DEF IInv
  <2>4. CheckedInv(b, i)'
    BY <1>1, <1>3, <2>1, <2>2, <2>3 DEF CheckedInv, Allowed
  <2>5. SignalInv(b, i)'
    BY <1>1, <2>1, <2>2, <2>3 DEF SignalInv, Sent
  <2>6. QED
    BY <1>1, <1>3, <2>2, <2>4, <2>5, ItemAlone
<1>4. QED
  BY <1>2, <1>3 DEF Signal

LEMMA RpcErrorKeeps ==
    ASSUME IInv, NEW b \in Requests, NEW i \in Ids, RpcError(b, i) PROVE IInv'
BY SignalSent DEF RpcError

LEMMA ReconcileKeeps ==
    ASSUME IInv, NEW b \in Requests, NEW i \in Ids, Reconcile(b, i) PROVE IInv'
<1>1. /\ item[b][i] = "reconcile" /\ Item(b, i, "closed")
      /\ winner' = winner /\ author' = author /\ running' = running
      /\ mail' = mail /\ req' = req
      /\ \/ /\ stage[i] = "pending"
            /\ stage' = [stage EXCEPT ![i] = "detached"]
            /\ verdict' = [verdict EXCEPT ![i] = "LOST"]
         \/ stage[i] # "pending" /\ UNCHANGED <<stage, verdict>>
  BY DEF Reconcile
<1>2. /\ stage \in [Ids -> {"absent", "pending", "decided", "detached"}]
      /\ verdict \in [Ids -> VALID_DECISIONS \cup {"LOST", "NONE"}]
      /\ CheckedInv(b, i) /\ SignalInv(b, i) /\ "closed" \in States
  BY DEF IInv, TypeOK, States, Settled, Failed
<1>3. /\ item' \in [Requests -> [Ids -> States]] /\ item'[b][i] = "closed"
      /\ \A c \in Requests, j \in Ids : c # b \/ j # i => item'[c][j] = item[c][j]
  BY <1>1, <1>2, ItemEffect DEF IInv
<1>4. /\ stage' \in [Ids -> {"absent", "pending", "decided", "detached"}]
      /\ verdict' \in [Ids -> VALID_DECISIONS \cup {"LOST", "NONE"}]
      /\ \A j \in Ids : j # i => stage'[j] = stage[j]
      /\ \A j \in Ids : stage[j] # "absent" => stage'[j] # "absent"
      /\ stage[i] # "absent" => stage'[i] \in {"decided", "detached"}
      /\ stage'[i] = "decided" => stage[i] = "decided"
  BY <1>1, <1>2
<1>5. stage[i] # "absent" /\ ~running[i]
  BY <1>1, <1>2 DEF CheckedInv
<1>6. TypeOK'
  BY <1>1, <1>3, <1>4 DEF IInv, TypeOK, States
<1>7. ASSUME NEW c \in Requests, NEW j \in Ids PROVE CheckedInv(c, j)'
  <2>1. CheckedInv(c, j)
    BY DEF IInv
  <2>2. CASE c = b /\ j = i
    <3>1. req[b].decision \in VALID_DECISIONS /\ Allowed(req[b])
      BY <1>1, <1>2 DEF CheckedInv
    <3>2. QED
      BY <1>1, <1>3, <1>4, <1>5, <2>2, <3>1 DEF CheckedInv, Allowed, Sent
  <2>3. CASE c # b \/ j # i
    <3>1. stage[j] \in {"decided", "detached"} => stage'[j] \in {"decided", "detached"}
      BY <1>4, <1>5
    <3>2. item'[c][j] = item[c][j]
      BY <1>3, <2>3
    <3>3. stage[j] # "absent" => stage'[j] # "absent"
      BY <1>4
    <3>4. QED
      BY <1>1, <2>1, <3>1, <3>2, <3>3 DEF CheckedInv, Allowed
  <2>4. QED
    BY <2>2, <2>3
<1>8. ASSUME NEW c \in Requests, NEW j \in Ids PROVE SignalInv(c, j)'
  <2>1. SignalInv(c, j)
    BY DEF IInv
  <2>2. CASE c = b /\ j = i
    BY <1>1, <1>2, <1>3, <2>2 DEF SignalInv, Sent
  <2>3. CASE c # b \/ j # i
    BY <1>1, <1>3, <2>1, <2>3 DEF SignalInv
  <2>4. QED
    BY <2>2, <2>3
<1>9. ASSUME NEW j \in Ids PROVE ReviewInv(j)'
  <2>1. ReviewInv(j)
    BY DEF IInv
  <2>2. CASE j = i
    <3>1. \/ stage'[i] = stage[i] /\ verdict'[i] = verdict[i]
          \/ stage'[i] = "detached" /\ verdict'[i] = "LOST"
      BY <1>1, <1>2
    <3>2. QED
      BY <1>1, <1>5, <2>1, <2>2, <3>1 DEF ReviewInv
  <2>3. CASE j # i
    <3>1. stage'[j] = stage[j] /\ verdict'[j] = verdict[j]
      BY <1>1, <1>2, <2>3
    <3>2. QED
      BY <1>1, <2>1, <3>1 DEF ReviewInv
  <2>4. QED
    BY <2>2, <2>3
<1>10. \A c \in Requests : AskInv(c)' /\ RaisedInv(c)'
  BY <1>1, <1>2, ItemStep
<1>11. QED
  BY <1>6, <1>7, <1>8, <1>9, <1>10 DEF IInv

LEMMA WaitKeeps ==
    ASSUME IInv, NEW b \in Requests, NEW i \in Ids, Wait(b, i) PROVE IInv'
<1>1. item[b][i] = "wait" /\ Item(b, i, "ok") /\ UNCHANGED <<reviewVars, mail, req>>
  BY DEF Wait
<1>2. /\ stage' = stage /\ running' = running /\ author' = author /\ winner' = winner
      /\ mail' = mail /\ req' = req
  BY <1>1 DEF reviewVars
<1>3. CheckedInv(b, i) /\ SignalInv(b, i) /\ "ok" \in States
  BY DEF IInv, States, Settled
<1>4. item'[b][i] = "ok"
  BY <1>1, <1>3, ItemEffect DEF IInv
<1>5. CheckedInv(b, i)'
  BY <1>1, <1>2, <1>3, <1>4 DEF CheckedInv, Allowed, Sent
<1>6. SignalInv(b, i)'
  BY <1>1, <1>2, <1>3, <1>4 DEF SignalInv, Sent
<1>7. QED
  BY <1>1, <1>3, <1>5, <1>6, ItemAlone

-----------------------------------------------------------------------------
\* The handlers.

\* A request that is answered keeps the invariant, whatever it then says, if what
\* it was asked is kept or there never was an item, and a "raised" is known.
LEMMA AnsweredKeeps ==
    ASSUME IInv, NEW b \in Requests, req' \in [Requests -> Request],
           req'[b].pc = "answered", \A c \in Requests : c # b => req'[c] = req[c],
           \/ /\ req'[b].decision = req[b].decision /\ req'[b].actor = req[b].actor
              /\ req'[b].door = req[b].door /\ req'[b].ids = req[b].ids
           \/ \A i \in Ids : item[b][i] = "none",
           UNCHANGED <<reviewVars, mail, item>>,
           req'[b].answer = "raised" => "raised" \in Results(b)' \/ Undone(b)'
    PROVE  IInv'
<1>1. item' = item
  OBVIOUS
<1>2. ASSUME NEW c \in Requests PROVE AskInv(c)'
  <2>1. CASE c = b
    BY <1>1, <2>1 DEF IInv, AskInv
  <2>2. CASE c # b
    BY <1>1, <2>2 DEF IInv, AskInv, Allowed
  <2>3. QED
    BY <2>1, <2>2
<1>3. ASSUME NEW c \in Requests PROVE RaisedInv(c)'
  <2>1. CASE c = b
    BY <2>1 DEF RaisedInv
  <2>2. CASE c # b
    BY <1>1, <2>2 DEF IInv, RaisedInv, Undone, Results
  <2>3. QED
    BY <2>1, <2>2
<1>4. QED
  BY <1>2, <1>3, RequestStep

LEMMA SubmitKeeps ==
    ASSUME IInv, NEW b \in Requests, NEW m \in Menu, Submit(b, m) PROVE IInv'
<1> DEFINE new == [door |-> m.door, actor |-> m.actor, decision |-> m.decision,
                   ids |-> m.ids, pc |-> "permission", answer |-> "none"]
<1>1. /\ req[b].pc = "idle" /\ req' = [req EXCEPT ![b] = new]
      /\ UNCHANGED <<reviewVars, mail, item>>
  BY DEF Submit
<1>2. Asked(m)
  BY MenuAssumption
<1>3. new \in Request
  BY <1>2 DEF Asked, Request
<1>4. /\ new.pc = "permission" /\ new.answer = "none"
      /\ new.door \in {"operator", "operator_bulk"} => new.decision = "CANCELLED"
      /\ new.door \notin Bulk => \E i \in Ids : new.ids = {i}
  BY <1>2 DEF Asked
<1>. HIDE DEF new
<1>5. /\ req' \in [Requests -> Request] /\ req'[b] = new
      /\ \A c \in Requests : c # b => req'[c] = req[c]
  BY <1>1, <1>3 DEF IInv, TypeOK
<1>6. \A i \in Ids : item[b][i] = "none"
  BY <1>1 DEF IInv, AskInv
<1>7. ASSUME NEW c \in Requests PROVE AskInv(c)'
  <2>1. CASE c = b
    BY <1>1, <1>4, <1>5, <1>6, <2>1 DEF AskInv
  <2>2. CASE c # b
    BY <1>1, <1>5, <2>2 DEF IInv, AskInv, Allowed
  <2>3. QED
    BY <2>1, <2>2
<1>8. ASSUME NEW c \in Requests PROVE RaisedInv(c)'
  BY <1>1, <1>4, <1>5 DEF IInv, RaisedInv, Undone, Results
<1>9. QED
  BY <1>1, <1>5, <1>6, <1>7, <1>8, RequestStep

\* A door that lets a decision pass has seen the permission for it.
LEMMA RequiredIsAsked ==
    ASSUME NEW r \in Request, Permitted(r),
           r.door \in {"operator", "operator_bulk"} => r.decision = "CANCELLED"
    PROVE  Allowed(r)
<1>1. CASE r.door \in {"operator", "operator_bulk"}
  <2>1. r.decision = "CANCELLED" /\ "Cancel" \in Scopes[r.actor]
    BY <1>1 DEF Permitted, Required
  <2>2. QED
    BY <2>1 DEF Allowed
<1>2. CASE r.door \in {"manager", "manager_bulk"}
  <2>1. (IF r.decision = "APPROVED" THEN "Approve" ELSE "Reject") \in Scopes[r.actor]
    BY <1>2 DEF Permitted, Required
  <2>2. QED
    BY <1>2, <2>1 DEF Allowed, VALID_DECISIONS, _DECISION_PERMISSIONS
<1>3. CASE /\ r.door \notin {"operator", "operator_bulk"}
           /\ r.door \notin {"manager", "manager_bulk"}
  <2>1. {_DECISION_PERMISSIONS[x] : x \in {r.decision} \cap VALID_DECISIONS} \subseteq Scopes[r.actor]
    BY <1>3 DEF Permitted, Required
  <2>2. r.decision \in VALID_DECISIONS => _DECISION_PERMISSIONS[r.decision] \in Scopes[r.actor]
    BY <2>1
  <2>3. QED
    BY <2>2 DEF Allowed, VALID_DECISIONS, _DECISION_PERMISSIONS
<1>4. QED
  BY <1>1, <1>2, <1>3

LEMMA CheckPermissionKeeps ==
    ASSUME IInv, NEW b \in Requests, CheckPermission(b) PROVE IInv'
<1>1. req[b].pc = "permission" /\ UNCHANGED <<reviewVars, mail, item>>
  BY DEF CheckPermission
<1>2. /\ req \in [Requests -> Request]
      /\ \A i \in Ids : item[b][i] = "none"
  BY <1>1 DEF IInv, TypeOK, AskInv
<1>3. CASE TurnAway(b, "denied")
  <2>1. /\ req' \in [Requests -> Request] /\ req'[b].pc = "answered" /\ req'[b].answer = "denied"
        /\ \A c \in Requests : c # b => req'[c] = req[c]
    BY <1>3, TurnAwayEffect DEF IInv
  <2>2. QED
    BY <1>1, <1>2, <2>1, AnsweredKeeps
<1>4. CASE /\ Permitted(req[b])
           /\ req' = [req EXCEPT ![b] = [req[b] EXCEPT !.pc = "start"]]
  <2>1. Allowed(req[b])
    BY <1>1, <1>2, <1>4, RequiredIsAsked DEF IInv, AskInv
  <2>2. [req[b] EXCEPT !.pc = "start"] \in Request
    BY <1>2 DEF Request
  <2>3. /\ req' \in [Requests -> Request] /\ req'[b] = [req[b] EXCEPT !.pc = "start"]
        /\ \A c \in Requests : c # b => req'[c] = req[c]
    BY <1>2, <1>4, <2>2
  <2>4. /\ req'[b].pc = "start" /\ req'[b].answer = req[b].answer
        /\ req'[b].decision = req[b].decision /\ req'[b].actor = req[b].actor
        /\ req'[b].door = req[b].door /\ req'[b].ids = req[b].ids
    BY <1>2, <2>3 DEF Request
  <2>5. req[b].answer = "none"
    BY <1>1 DEF IInv, AskInv
  <2>6. ASSUME NEW c \in Requests PROVE AskInv(c)'
    <3>1. CASE c = b
      BY <1>1, <1>2, <2>1, <2>4, <2>5, <3>1 DEF IInv, AskInv, Allowed
    <3>2. CASE c # b
      BY <1>1, <2>3, <3>2 DEF IInv, AskInv, Allowed
    <3>3. QED
      BY <3>1, <3>2
  <2>7. ASSUME NEW c \in Requests PROVE RaisedInv(c)'
    <3>1. CASE c = b
      BY <2>4, <2>5, <3>1 DEF RaisedInv
    <3>2. CASE c # b
      BY <1>1, <2>3, <3>2 DEF IInv, RaisedInv, Undone, Results
    <3>3. QED
      BY <3>1, <3>2
  <2>8. QED
    BY <1>1, <1>2, <2>3, <2>6, <2>7, RequestStep
<1>5. QED
  BY <1>3, <1>4 DEF CheckPermission

\* The same of the three ways to answer.
LEMMA AnswerKeeps ==
    ASSUME IInv, NEW b \in Requests, NEW a \in {"rejected", "results", "raised"},
           Answer(b, a), UNCHANGED <<reviewVars, mail, item>>,
           a = "raised" => "raised" \in Results(b) \/ Undone(b)
    PROVE  IInv'
<1>1. /\ req' \in [Requests -> Request]
      /\ req'[b].pc = "answered" /\ req'[b].answer = a
      /\ req'[b].door = req[b].door /\ req'[b].actor = req[b].actor
      /\ req'[b].decision = req[b].decision /\ req'[b].ids = req[b].ids
      /\ \A c \in Requests : c # b => req'[c] = req[c]
  BY AnswerEffect DEF IInv
<1>2. Results(b)' = Results(b) /\ Undone(b)' = Undone(b)
  BY <1>1 DEF Results, Undone
<1>3. QED
  BY <1>1, <1>2, AnsweredKeeps

LEMMA StartKeeps == ASSUME IInv, NEW b \in Requests, Start(b) PROVE IInv'
<1>1. req[b].pc = "start" /\ UNCHANGED <<reviewVars, mail>>
  BY DEF Start
<1>2. /\ req \in [Requests -> Request] /\ item \in [Requests -> [Ids -> States]]
      /\ Allowed(req[b])
      /\ \A i \in Ids : item[b][i] = "none"
  BY <1>1 DEF IInv, TypeOK, AskInv, States
<1>3. CASE TurnAway(b, "rejected") /\ UNCHANGED item
  <2>1. /\ req' \in [Requests -> Request] /\ req'[b].pc = "answered" /\ req'[b].answer = "rejected"
        /\ \A c \in Requests : c # b => req'[c] = req[c]
    BY <1>3, TurnAwayEffect DEF IInv
  <2>2. QED
    BY <1>1, <1>2, <1>3, <2>1, AnsweredKeeps
<1>4. ASSUME NEW ids \in Batches(b), Acceptable(b, ids),
             req' = [req EXCEPT ![b] = [req[b] EXCEPT !.pc = "gather", !.ids = ids]],
             item' = [item EXCEPT ![b] = [i \in Ids |-> IF i \in ids THEN "read" ELSE "none"]]
      PROVE  IInv'
  <2>1. ids \subseteq Ids /\ req[b].decision \in VALID_DECISIONS
    BY <1>2, <1>4 DEF Batches, Listed, Acceptable, Request
  <2>2. [req[b] EXCEPT !.pc = "gather", !.ids = ids] \in Request
    <3>1. req[b] \in Request /\ ids \in SUBSET Ids
      BY <1>2, <2>1
    <3>2. QED
      BY <3>1 DEF Request
  <2>3. /\ req' \in [Requests -> Request]
        /\ req'[b] = [req[b] EXCEPT !.pc = "gather", !.ids = ids]
        /\ \A c \in Requests : c # b => req'[c] = req[c]
    BY <1>2, <1>4, <2>2
  <2>4. /\ req'[b].pc = "gather" /\ req'[b].answer = req[b].answer /\ req'[b].ids = ids
        /\ req'[b].decision = req[b].decision /\ req'[b].actor = req[b].actor
        /\ req'[b].door = req[b].door
    BY <1>2, <2>3 DEF Request
  <2>5. /\ item' \in [Requests -> [Ids -> States]]
        /\ \A i \in Ids : item'[b][i] \in {"read", "none"} /\ (item'[b][i] # "none" => i \in ids)
        /\ \A c \in Requests : c # b => item'[c] = item[c]
    BY <1>2, <1>4 DEF States
  <2>6. /\ stage' = stage /\ verdict' = verdict /\ winner' = winner /\ author' = author
        /\ running' = running /\ mail' = mail
    BY <1>1 DEF reviewVars
  <2>7. req[b].answer = "none"
    BY <1>1 DEF IInv, AskInv
  <2>8. TypeOK'
    BY <2>3, <2>5, <2>6 DEF IInv, TypeOK, States
  <2>9. ASSUME NEW c \in Requests PROVE AskInv(c)'
    <3>1. CASE c = b
      <4>1. req[b].door \notin Bulk => \E i \in Ids : ids = {i}
        BY <1>1, <1>4 DEF IInv, AskInv, Batches, Bulk, Selecting
      <4>2. QED
        BY <2>4, <2>5, <2>7, <3>1, <4>1 DEF AskInv
    <3>2. CASE c # b
      BY <2>3, <2>5, <3>2 DEF IInv, AskInv, Allowed
    <3>3. QED
      BY <3>1, <3>2
  <2>10. ASSUME NEW c \in Requests, NEW i \in Ids PROVE CheckedInv(c, i)' /\ SignalInv(c, i)'
    <3>1. CheckedInv(c, i) /\ SignalInv(c, i)
      BY DEF IInv
    <3>2. CASE c = b
      <4>1. author[i] # b /\ b \notin mail[i]
        BY <1>2, <3>1, <3>2 DEF SignalInv, Sent
      <4>2. item'[b][i] \in {"read", "none"}
        BY <2>5
      <4>3. CheckedInv(b, i)'
        BY <1>2, <2>1, <2>4, <4>2 DEF CheckedInv, Allowed, Sent
      <4>4. SignalInv(b, i)'
        BY <2>6, <4>1, <4>2 DEF SignalInv
      <4>5. QED
        BY <3>2, <4>3, <4>4
    <3>3. CASE c # b
      <4>1. req'[c] = req[c] /\ item'[c] = item[c]
        BY <2>3, <2>5, <3>3
      <4>2. CheckedInv(c, i)'
        BY <2>6, <3>1, <4>1 DEF CheckedInv, Allowed
      <4>3. SignalInv(c, i)'
        BY <2>6, <3>1, <4>1 DEF SignalInv
      <4>4. QED
        BY <4>2, <4>3
    <3>4. QED
      BY <3>2, <3>3
  <2>11. ASSUME NEW i \in Ids PROVE ReviewInv(i)'
    <3>1. ReviewInv(i)
      BY DEF IInv
    <3>2. \A c \in Requests : req'[c].decision = req[c].decision
      BY <2>3, <2>4
    <3>3. QED
      BY <2>6, <3>1, <3>2 DEF ReviewInv
  <2>12. ASSUME NEW c \in Requests PROVE RaisedInv(c)'
    <3>1. CASE c = b
      BY <2>4, <2>7, <3>1 DEF RaisedInv
    <3>2. CASE c # b
      <4>1. req'[c] = req[c] /\ item'[c] = item[c]
        BY <2>3, <2>5, <3>2
      <4>2. QED
        BY <4>1 DEF IInv, RaisedInv, Undone, Results
    <3>3. QED
      BY <3>1, <3>2
  <2>13. QED
    BY <2>8, <2>9, <2>10, <2>11, <2>12 DEF IInv
<1>5. ASSUME NEW ids \in Batches(b), NEW i \in ids, Undrawable(b, i), Answer(b, "raised"),
             UNCHANGED item
      PROVE  IInv'
  <2>1. Undone(b)
    BY <1>2, <1>5 DEF Undone, Undrawable
  <2>2. QED
    BY <1>1, <1>5, <2>1, AnswerKeeps
<1>6. QED
  BY <1>3, <1>4, <1>5 DEF Start

LEMMA GatheredKeeps == ASSUME IInv, NEW b \in Requests, Gathered(b) PROVE IInv'
BY AnswerKeeps DEF Gathered

LEMMA GatherRaisesKeeps == ASSUME IInv, NEW b \in Requests, GatherRaises(b) PROVE IInv'
BY AnswerKeeps DEF GatherRaises

LEMMA ReplyKeeps == ASSUME IInv, NEW b \in Requests, Reply(b) PROVE IInv'
<1>1. PICK i \in req[b].ids : /\ item[b][i] \in {"ok"} \cup Failed
                             /\ Answer(b, AnswerOf(b, i))
  BY DEF Reply
<1>2. UNCHANGED <<reviewVars, mail, item>>
  BY DEF Reply
<1>3. AnswerOf(b, i) \in {"rejected", "results", "raised"}
  BY DEF AnswerOf
<1>4. ASSUME AnswerOf(b, i) = "raised" PROVE Undone(b)
  <2>1. /\ req[b].pc = "gather" /\ req[b].door \notin Bulk /\ req[b].door = "manager"
        /\ item[b][i] \in Failed
    BY <1>1, <1>4 DEF Reply, AnswerOf, Undrawable
  <2>2. \A j \in Ids : item[b][j] # "none" => j = i
    BY <2>1 DEF IInv, AskInv
  <2>3. QED
    BY <2>1, <2>2 DEF Undone
<1>5. QED
  BY <1>1, <1>2, <1>3, <1>4, AnswerKeeps

-----------------------------------------------------------------------------
\* Together.

LEMMA InitKeeps == Init => IInv
<1> SUFFICES ASSUME Init PROVE IInv
  OBVIOUS
<1>1. TypeOK
  <2>1. req \in [Requests -> Request]
    BY NoRequestTyped DEF Init
  <2>2. QED
    BY <2>1 DEF Init, TypeOK
<1>2. \A b \in Requests : req[b].pc = "idle" /\ req[b].answer = "none"
  BY DEF Init, NoRequest
<1>3. \A b \in Requests : AskInv(b)
  BY <1>2 DEF Init, AskInv
<1>4. ASSUME NEW b \in Requests, NEW i \in Ids PROVE CheckedInv(b, i) /\ SignalInv(b, i)
  <2>1. item[b][i] = "none" /\ author[i] = "nobody" /\ mail[i] = {}
    BY DEF Init
  <2>2. QED
    BY <2>1, RequestsAssumption DEF CheckedInv, SignalInv, Sent
<1>5. \A i \in Ids : ReviewInv(i)
  BY RequestsAssumption DEF Init, ReviewInv
<1>6. \A b \in Requests : RaisedInv(b)
  BY <1>2 DEF RaisedInv
<1>7. QED
  BY <1>1, <1>3, <1>4, <1>5, <1>6 DEF IInv

LEMMA StutterKeeps == IInv /\ UNCHANGED vars => IInv'
<1> SUFFICES ASSUME IInv, UNCHANGED vars PROVE IInv'
  OBVIOUS
<1>1. UNCHANGED <<reviewVars, mail, req, item>>
  BY DEF vars
<1>2. \A c \in Requests : AskInv(c)' /\ RaisedInv(c)'
  BY <1>1, ReviewStep
<1>3. QED
  BY <1>1, <1>2, RequestStep DEF IInv, TypeOK

LEMMA NextKeeps == IInv /\ [Next]_vars => IInv'
<1> SUFFICES ASSUME IInv, [Next]_vars PROVE IInv'
  OBVIOUS
<1>1. ASSUME NEW i \in Ids, Reviews(i) PROVE IInv'
  BY <1>1, CreateKeeps, ForceCancelKeeps, PersistKeeps, EndKeeps, HandleKeeps DEF Reviews
<1>2. ASSUME NEW b \in Requests, NEW m \in Menu, Submit(b, m) PROVE IInv'
  BY <1>2, SubmitKeeps
<1>3. ASSUME NEW b \in Requests, Handler(b) PROVE IInv'
  BY <1>3, CheckPermissionKeeps, StartKeeps, GatheredKeeps, GatherRaisesKeeps, ReplyKeeps
     DEF Handler
<1>4. ASSUME NEW b \in Requests, NEW i \in Ids, Decide(b, i) PROVE IInv'
  BY <1>4, ReadKeeps, SignalKeeps, RpcErrorKeeps, ReconcileKeeps, WaitKeeps DEF Decide
<1>5. CASE UNCHANGED vars
  BY <1>5, StutterKeeps
<1>6. QED
  BY <1>1, <1>2, <1>3, <1>4, <1>5 DEF Next

-----------------------------------------------------------------------------
\* The theorems.

\* IInv is an invariant of every behaviour of the doors.
THEOREM DoorsInvariance == Spec => []IInv
<1>1. QED
  BY InitKeeps, NextKeeps, PTL DEF Spec

\* Types of the reviews, the requests and their items.
THEOREM DoorsTypeCorrect == Spec => []TypeOK
<1>1. IInv => TypeOK
  BY DEF IInv
<1>2. QED
  BY <1>1, DoorsInvariance, PTL

\* An item that submit_decision turned down (LookupError, PermissionError,
\* ValueError) sent no signal, in a bulk or alone, then or later.
THEOREM FailedDidNotWinHolds == Spec => []FailedDidNotWin
<1>1. IInv => FailedDidNotWin
  <2>1. Failed \cap Sent = {}
    BY DEF Failed, Sent
  <2>2. QED
    BY <2>1 DEF IInv, SignalInv, FailedDidNotWin
<1>2. QED
  BY <1>1, DoorsInvariance, PTL

\* "Already decided" and "marked cancelled" are only ever said of a closed review.
THEOREM FailureIsTrueHolds == Spec => []FailureIsTrue
<1>1. IInv => FailureIsTrue
  BY DEF IInv, CheckedInv, FailureIsTrue
<1>2. QED
  BY <1>1, DoorsInvariance, PTL

\* An item that _one reports as ok was accepted by its review's execution.
THEOREM OkWasAcceptedHolds == Spec => []OkWasAccepted
<1>1. IInv => OkWasAccepted
  BY DEF IInv, SignalInv, OkWasAccepted
<1>2. QED
  BY <1>1, DoorsInvariance, PTL

\* What the actor of the request that won may do, and who he is when he cancels.
LEMMA WinnerIsAllowed ==
    ASSUME IInv, NEW i \in Ids, author[i] \in Requests
    PROVE  /\ winner[i] = req[author[i]].decision
           /\ winner[i] \in VALID_DECISIONS
           /\ Allowed(req[author[i]])
           /\ winner[i] = "CANCELLED" => Owner[i] = req[author[i]].actor
<1>1. winner[i] = req[author[i]].decision
  BY DEF IInv, ReviewInv
<1>2. QED
  BY <1>1, MailIsSent

\* Every verdict was permitted to whoever took it, as far as the doors ask for it:
\* check_permission at each door, the ownership check in submit_decision.
THEOREM VerdictPermittedHolds == Spec => []VerdictPermitted
<1>1. IInv => VerdictPermitted
  BY WinnerIsAllowed DEF Allowed, VerdictPermitted
<1>2. QED
  BY <1>1, DoorsInvariance, PTL

\* The permission of the very decision is all that ever decided a review where whoever
\* owns a review and may reject may also cancel: so long as nobody who created a review
\* has become a manager, since the realm lets no manager create one.
THEOREM DecisionPermittedIfOwnersMayCancel ==
    ASSUME \A i \in Ids : "Reject" \in Scopes[Owner[i]] => "Cancel" \in Scopes[Owner[i]]
    PROVE  Spec => []DecisionPermitted
<1>1. IInv => DecisionPermitted
  <2> SUFFICES ASSUME IInv, NEW i \in Ids, author[i] \in Requests
               PROVE  _DECISION_PERMISSIONS[winner[i]] \in Scopes[req[author[i]].actor]
    BY DEF DecisionPermitted
  <2>1. CASE winner[i] = "CANCELLED"
    <3>1. /\ Allowed(req[author[i]]) /\ req[author[i]].decision = "CANCELLED"
          /\ Owner[i] = req[author[i]].actor
      BY <2>1, WinnerIsAllowed
    <3>2. "Cancel" \in Scopes[req[author[i]].actor]
      BY <3>1 DEF Allowed
    <3>3. QED
      BY <2>1, <3>2 DEF _DECISION_PERMISSIONS
  <2>2. CASE winner[i] # "CANCELLED"
    BY <2>2, WinnerIsAllowed DEF Allowed
  <2>3. QED
    BY <2>1, <2>2
<1>2. QED
  BY <1>1, DoorsInvariance, PTL

\* A request that fails unhandled without an RPCError is one of manager_decision: the
\* PermissionError or the record it did not find.  No signal of it is anywhere.
THEOREM UnhandledDecidedNothingHolds == Spec => []UnhandledDecidedNothing
<1>1. IInv => UnhandledDecidedNothing
  <2> SUFFICES ASSUME IInv, NEW b \in Requests,
                      req[b].answer = "raised", "raised" \notin Results(b)
               PROVE  /\ req[b].door = "manager"
                      /\ \A i \in Ids : author[i] # b /\ b \notin mail[i]
    BY DEF UnhandledDecidedNothing
  <2>1. Undone(b)
    BY DEF IInv, RaisedInv
  <2>2. ({"none"} \cup Failed) \cap Sent = {}
    BY DEF Failed, Sent
  <2>3. QED
    BY <2>1, <2>2 DEF Undone, IInv, SignalInv
<1>2. QED
  BY <1>1, DoorsInvariance, PTL

-----------------------------------------------------------------------------
\* The doors and the contract of each review.

\* What review i has of its own, and what the contract takes of the requests.
Alike(i) ==
    /\ stage'[i] = stage[i] /\ verdict'[i] = verdict[i] /\ winner'[i] = winner[i]
    /\ author'[i] = author[i] /\ running'[i] = running[i] /\ mail'[i] = mail[i]

Asking == [b \in Requests |-> req[b].decision]

\* A step that leaves a review and what is asked leaves its contract where it was.
LEMMA AlikeStutters ==
    ASSUME NEW i \in Ids, Alike(i), Asking' = Asking
    PROVE  UNCHANGED Review(i)!vars
BY DEF Alike, Asking, Review!vars

\* A request that has no item anywhere may ask for something else: of every review.
LEMMA AsksAnew ==
    ASSUME IInv, NEW i \in Ids, NEW b \in Requests, item[b][i] = "none",
           req' \in [Requests -> Request], \A c \in Requests : c # b => req'[c] = req[c],
           UNCHANGED <<reviewVars, mail>>
    PROVE  Review(i)!Next
<1>1. b \notin mail[i] /\ b # author[i]
  BY DEF IInv, SignalInv, Sent
<1>2. PICK d \in Decisions : d = req'[b].decision
  BY DEF Request
<1>3. Asking' = [Asking EXCEPT ![b] = d]
  BY <1>2 DEF Asking
<1>4. Review(i)!Ask(b, d)
  BY <1>1, <1>3 DEF Review!Ask, Review!Free, Asking, reviewVars
<1>5. QED
  BY <1>4 DEF Review!Next

\* A signal that is accepted was not sent before, and its row is there.
LEMMA AcceptsSignal ==
    ASSUME IInv, NEW i \in Ids, NEW b \in Requests, item[b][i] = "signal", running[i],
           mail' = [mail EXCEPT ![i] = mail[i] \cup {b}], UNCHANGED <<reviewVars, req>>
    PROVE  Review(i)!Next
<1>1. b \notin mail[i] /\ b # author[i] /\ stage[i] # "absent"
  BY DEF IInv, SignalInv, CheckedInv, Sent
<1>2. mail'[i] = mail[i] \cup {b}
  BY DEF IInv, TypeOK
<1>3. PICK d \in Decisions : d = req[b].decision
  BY DEF IInv, TypeOK, Request
<1>4. Asking' = [Asking EXCEPT ![b] = d]
  BY <1>3 DEF Asking
<1>5. Review(i)!Accept(b, d)
  BY <1>1, <1>2, <1>4 DEF Review!Accept, Review!Free, Asking, reviewVars
<1>6. QED
  BY <1>5 DEF Review!Next

\* What a review does by itself is what the contract lets it do by itself.
LEMMA ReviewKeepsOn ==
    ASSUME IInv, NEW i \in Ids, Reviews(i) PROVE Review(i)!Own
<1>1. /\ stage \in [Ids -> {"absent", "pending", "decided", "detached"}]
      /\ verdict \in [Ids -> VALID_DECISIONS \cup {"LOST", "NONE"}]
      /\ winner \in [Ids -> VALID_DECISIONS \cup {"NONE"}]
      /\ author \in [Ids -> Requests \cup {"nobody", "temporal-admin"}]
      /\ running \in [Ids -> BOOLEAN] /\ mail \in [Ids -> SUBSET Requests]
  BY DEF IInv, TypeOK
<1>2. CASE Create(i)
  <2>1. Review(i)!Create
    BY <1>1, <1>2 DEF Create, Review!Create
  <2>2. QED
    BY <2>1 DEF Review!Own
<1>3. CASE ForceCancel(i)
  <2>1. Review(i)!ForceCancel
    BY <1>1, <1>3 DEF ForceCancel, Review!ForceCancel
  <2>2. QED
    BY <2>1 DEF Review!Own
<1>4. CASE Persist(i)
  <2>1. Review(i)!Persist
    BY <1>1, <1>4 DEF Persist, Review!Persist
  <2>2. QED
    BY <2>1 DEF Review!Own
<1>5. CASE End(i)
  <2>1. running[i] /\ running'[i] = FALSE /\ mail'[i] = {}
    BY <1>1, <1>5 DEF End
  <2>2. Review(i)!End
    BY <1>5, <2>1 DEF End, Review!End
  <2>3. QED
    BY <2>2 DEF Review!Own
<1>6. ASSUME NEW b \in Requests, Handle(i, b) PROVE Review(i)!Own
  <2>1. req[b].decision \in VALID_DECISIONS
    BY <1>6, MailIsSent DEF Handle
  <2>2. mail'[i] = mail[i] \ {b}
    BY <1>1, <1>6 DEF Handle
  <2>3. \/ /\ winner[i] = "NONE" /\ winner'[i] = req[b].decision /\ author'[i] = b
        \/ winner[i] # "NONE" /\ UNCHANGED <<winner, author>>
    BY <1>1, <1>6 DEF Handle
  <2>4. Review(i)!Handle(b)
    BY <1>6, <2>1, <2>2, <2>3 DEF Handle, Review!Handle
  <2>5. QED
    BY <2>4 DEF Review!Own
<1>7. QED
  BY <1>2, <1>3, <1>4, <1>5, <1>6 DEF Reviews

\* What happens to one review leaves the others alike.
LEMMA OthersAlike ==
    ASSUME IInv, NEW j \in Ids,
           Reviews(j) \/ \E b \in Requests : Signal(b, j) \/ RpcError(b, j) \/ Reconcile(b, j)
    PROVE  (\A i \in Ids : i # j => Alike(i)) /\ Asking' = Asking
<1>1. /\ stage \in [Ids -> {"absent", "pending", "decided", "detached"}]
      /\ verdict \in [Ids -> VALID_DECISIONS \cup {"LOST", "NONE"}]
      /\ winner \in [Ids -> VALID_DECISIONS \cup {"NONE"}]
      /\ author \in [Ids -> Requests \cup {"nobody", "temporal-admin"}]
      /\ running \in [Ids -> BOOLEAN] /\ mail \in [Ids -> SUBSET Requests]
  BY DEF IInv, TypeOK
<1>2. CASE Create(j)
  BY <1>1, <1>2 DEF Create, Alike, Asking
<1>3. CASE ForceCancel(j)
  BY <1>1, <1>3 DEF ForceCancel, Alike, Asking
<1>4. CASE Persist(j)
  BY <1>1, <1>4 DEF Persist, Alike, Asking
<1>5. CASE End(j)
  BY <1>1, <1>5 DEF End, Alike, Asking
<1>6. ASSUME NEW b \in Requests, Handle(j, b)
      PROVE  (\A i \in Ids : i # j => Alike(i)) /\ Asking' = Asking
  BY <1>1, <1>6 DEF Handle, Alike, Asking
<1>7. ASSUME NEW b \in Requests, Signal(b, j) \/ RpcError(b, j)
      PROVE  (\A i \in Ids : i # j => Alike(i)) /\ Asking' = Asking
  BY <1>1, <1>7 DEF Signal, RpcError, Alike, Asking, reviewVars
<1>8. ASSUME NEW b \in Requests, Reconcile(b, j)
      PROVE  (\A i \in Ids : i # j => Alike(i)) /\ Asking' = Asking
  BY <1>1, <1>8 DEF Reconcile, Alike, Asking
<1>9. QED
  BY <1>2, <1>3, <1>4, <1>5, <1>6, <1>7, <1>8 DEF Reviews

\* What a request does at one review is what the contract lets others do to it.
LEMMA DecideKeepsOn ==
    ASSUME IInv, NEW b \in Requests, NEW i \in Ids,
           Signal(b, i) \/ RpcError(b, i) \/ Reconcile(b, i)
    PROVE  Review(i)!Next \/ UNCHANGED Review(i)!vars
<1>1. CASE Signal(b, i) \/ RpcError(b, i)
  <2>1. item[b][i] = "signal" /\ UNCHANGED <<reviewVars, req>>
    BY <1>1 DEF Signal, RpcError
  <2>2. CASE running[i] /\ mail' = [mail EXCEPT ![i] = mail[i] \cup {b}]
    BY <2>1, <2>2, AcceptsSignal
  <2>3. CASE mail' = mail
    <3>1. Alike(i) /\ Asking' = Asking
      BY <2>1, <2>3 DEF Alike, Asking, reviewVars
    <3>2. QED
      BY <3>1, AlikeStutters
  <2>4. QED
    BY <1>1, <2>2, <2>3 DEF Signal, RpcError
<1>2. CASE Reconcile(b, i)
  <2>1. item[b][i] = "reconcile" /\ UNCHANGED <<winner, author, running, mail, req>>
    BY <1>2 DEF Reconcile
  <2>2. CASE /\ stage[i] = "pending" /\ stage' = [stage EXCEPT ![i] = "detached"]
             /\ verdict' = [verdict EXCEPT ![i] = "LOST"]
    <3>1. ~running[i]
      BY <2>1 DEF IInv, CheckedInv
    <3>2. stage'[i] = "detached" /\ verdict'[i] = "LOST"
      BY <2>2 DEF IInv, TypeOK
    <3>3. Review(i)!Detach
      BY <2>1, <2>2, <3>1, <3>2 DEF Review!Detach
    <3>4. QED
      BY <3>3 DEF Review!Next
  <2>3. CASE UNCHANGED <<stage, verdict>>
    <3>1. Alike(i) /\ Asking' = Asking
      BY <2>1, <2>3 DEF Alike, Asking
    <3>2. QED
      BY <3>1, AlikeStutters
  <2>4. QED
    BY <1>2, <2>2, <2>3 DEF Reconcile
<1>3. QED
  BY <1>1, <1>2

\* What a handler does is to ask anew, or nothing that a review takes notice of.
LEMMA HandlerKeepsOn ==
    ASSUME IInv, NEW b \in Requests, NEW i \in Ids,
           Handler(b) \/ \E m \in Menu : Submit(b, m)
    PROVE  Review(i)!Next \/ UNCHANGED Review(i)!vars
<1>1. UNCHANGED <<reviewVars, mail>>
  BY DEF Handler, CheckPermission, Start, Gathered, GatherRaises, Reply, Submit
<1>2. req' \in [Requests -> Request]
  <2>1. CASE Handler(b)
    BY <2>1, CheckPermissionKeeps, StartKeeps, GatheredKeeps, GatherRaisesKeeps, ReplyKeeps
       DEF Handler, IInv, TypeOK
  <2>2. ASSUME NEW m \in Menu, Submit(b, m) PROVE req' \in [Requests -> Request]
    BY <2>2, SubmitKeeps DEF IInv, TypeOK
  <2>3. QED
    BY <2>1, <2>2
<1>3. CASE req[b].pc \in {"idle", "permission", "start"}
  <2>1. item[b][i] = "none"
    BY <1>3 DEF IInv, AskInv
  <2>2. \A c \in Requests : c # b => req'[c] = req[c]
    BY DEF Handler, CheckPermission, Start, Gathered, GatherRaises, Reply, Submit,
           Answer, TurnAway, IInv, TypeOK
  <2>3. QED
    BY <1>1, <1>2, <2>1, <2>2, AsksAnew
<1>4. CASE Gathered(b) \/ GatherRaises(b) \/ Reply(b)
  <2>1. ASSUME NEW a \in {"rejected", "results", "raised"}, Answer(b, a) PROVE Asking' = Asking
    <3>1. \A c \in Requests : req'[c].decision = req[c].decision
      BY <2>1, AnswerEffect DEF IInv
    <3>2. QED
      BY <3>1 DEF Asking
  <2>2. Asking' = Asking
    BY <1>4, <2>1 DEF Gathered, GatherRaises, Reply, AnswerOf
  <2>3. Alike(i)
    BY <1>1 DEF Alike, reviewVars
  <2>4. QED
    BY <2>2, <2>3, AlikeStutters
<1>5. QED
  BY <1>3, <1>4 DEF Handler, CheckPermission, Start, Submit

\* What a step does to one review is a step of its contract, or nothing.
LEMMA KeepsOn ==
    ASSUME IInv, [Next]_vars, NEW i \in Ids
    PROVE  Review(i)!Next \/ UNCHANGED Review(i)!vars
<1>1. ASSUME NEW j \in Ids, Reviews(j)
      PROVE  Review(i)!Next \/ UNCHANGED Review(i)!vars
  <2>1. CASE j = i
    BY <1>1, <2>1, ReviewKeepsOn DEF Review!Next
  <2>2. CASE j # i
    BY <1>1, <2>2, OthersAlike, AlikeStutters
  <2>3. QED
    BY <2>1, <2>2
<1>2. ASSUME NEW b \in Requests, NEW j \in Ids, Signal(b, j) \/ RpcError(b, j) \/ Reconcile(b, j)
      PROVE  Review(i)!Next \/ UNCHANGED Review(i)!vars
  <2>1. CASE j = i
    BY <1>2, <2>1, DecideKeepsOn
  <2>2. CASE j # i
    BY <1>2, <2>2, OthersAlike, AlikeStutters
  <2>3. QED
    BY <2>1, <2>2
<1>3. ASSUME NEW b \in Requests, NEW j \in Ids, Read(b, j) \/ Wait(b, j)
      PROVE  Review(i)!Next \/ UNCHANGED Review(i)!vars
  <2>1. Alike(i) /\ Asking' = Asking
    BY <1>3 DEF Read, Wait, Alike, Asking, reviewVars
  <2>2. QED
    BY <2>1, AlikeStutters
<1>4. CASE UNCHANGED vars
  <2>1. Alike(i) /\ Asking' = Asking
    BY <1>4 DEF vars, Alike, Asking, reviewVars
  <2>2. QED
    BY <2>1, AlikeStutters
<1>5. QED
  BY <1>1, <1>2, <1>3, <1>4, HandlerKeepsOn DEF Next, Decide

\* Every review records what the request that won it had asked for, whatever was asked
\* of it besides, and by whom.
THEOREM EveryWinnerWasAskedHolds == Spec => []EveryWinnerWasAsked
<1>1. IInv => EveryWinnerWasAsked
  <2> SUFFICES ASSUME IInv, NEW i \in Known PROVE Review(i)!WinnerWasAsked
    BY DEF EveryWinnerWasAsked
  <2>1. /\ i \in Ids /\ ReviewInv(i)
        /\ stage[i] = "decided" => verdict[i] # "NONE"
    BY DEF IInv, Known, ReviewInv
  <2>2. QED
    BY <2>1 DEF ReviewInv, Review!WinnerWasAsked
<1>2. QED
  BY <1>1, DoorsInvariance, PTL

\* The doors are entitled to the contract: they meet what it supposes.
LEMMA ContractSupposed ==
    ASSUME NEW i \in Ids PROVE Review(i)!Apart /\ Review(i)!Recordable
BY RequestsAssumption DEF Review!Apart, Review!Recordable, VALID_DECISIONS, Decisions

\* The doors keep the contract of every review they reach.
THEOREM EveryReviewKeepsContractHolds == Spec => EveryReviewKeepsContract
<1>1. Init => \A i \in Known : Review(i)!Init
  <2> SUFFICES ASSUME Init, NEW i \in Known PROVE Review(i)!Init
    OBVIOUS
  <2>1. i \in Ids /\ running[i] = TRUE
    BY DEF Init, Known
  <2>2. Asking \in [Requests -> Decisions]
    BY NoRequestTyped DEF Init, Asking, Request
  <2>3. QED
    BY <2>1, <2>2 DEF Init, Review!Init, Asking
<1>2. IInv /\ [Next]_vars => \A i \in Known : [Review(i)!Next]_(Review(i)!vars)
  BY KeepsOn DEF Known
<1>3. QED
  BY <1>1, <1>2, DoorsInvariance, PTL DEF Spec, EveryReviewKeepsContract

\* And they take away nothing of it: what the contract lets a review do by itself
\* (and so whatever ReviewWorkflow's execution does with the signals it was sent) a
\* review of the doors may do, when executions can be lost and cancelled.
THEOREM ReviewsAreContracts ==
    ASSUME IInv, TypeOK', NEW i \in Known, {"lost", "native_cancel"} \subseteq Faults,
           Review(i)!Own, \A j \in Ids : j # i => Alike(j), UNCHANGED <<req, item>>
    PROVE  Reviews(i)
<1>1. i \in Ids /\ i \notin Unknown
  BY DEF Known
<1>2. /\ stage' = [stage EXCEPT ![i] = stage'[i]]
      /\ verdict' = [verdict EXCEPT ![i] = verdict'[i]]
      /\ winner' = [winner EXCEPT ![i] = winner'[i]]
      /\ author' = [author EXCEPT ![i] = author'[i]]
      /\ running' = [running EXCEPT ![i] = running'[i]]
      /\ mail' = [mail EXCEPT ![i] = mail'[i]]
  BY <1>1 DEF IInv, TypeOK, Alike
<1>3. /\ stage = [stage EXCEPT ![i] = stage[i]]
      /\ verdict = [verdict EXCEPT ![i] = verdict[i]]
      /\ winner = [winner EXCEPT ![i] = winner[i]]
      /\ author = [author EXCEPT ![i] = author[i]]
      /\ running = [running EXCEPT ![i] = running[i]]
      /\ mail = [mail EXCEPT ![i] = mail[i]]
  BY <1>1 DEF IInv, TypeOK
<1>4. CASE Review(i)!Create
  <2>1. Create(i)
    BY <1>1, <1>2, <1>3, <1>4 DEF Review!Create, Create
  <2>2. QED
    BY <2>1 DEF Reviews
<1>5. CASE Review(i)!ForceCancel
  <2>1. ForceCancel(i)
    BY <1>1, <1>2, <1>3, <1>5 DEF Review!ForceCancel, ForceCancel
  <2>2. QED
    BY <2>1 DEF Reviews
<1>6. CASE Review(i)!Persist
  <2>1. Persist(i)
    BY <1>1, <1>2, <1>3, <1>6 DEF Review!Persist, Persist
  <2>2. QED
    BY <2>1 DEF Reviews
<1>7. CASE Review(i)!End
  <2>1. End(i)
    BY <1>1, <1>2, <1>3, <1>7 DEF Review!End, End
  <2>2. QED
    BY <2>1 DEF Reviews
<1>8. ASSUME NEW b \in Requests, Review(i)!Handle(b) PROVE Reviews(i)
  <2>1. Handle(i, b)
    BY <1>1, <1>2, <1>3, <1>8 DEF Review!Handle, Handle
  <2>2. QED
    BY <2>1 DEF Reviews
<1>9. QED
  BY <1>4, <1>5, <1>6, <1>7, <1>8 DEF Review!Own
=============================================================================

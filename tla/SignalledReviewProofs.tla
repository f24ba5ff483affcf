---------------------- MODULE SignalledReviewProofs ----------------------
(***************************************************************************)
(* Proofs about the contract of SignalledReview, for any set of requests   *)
(* and of decisions: it keeps its types, what wins is what its author      *)
(* asked for, and the row lives the life of ReviewLifecycle.               *)
(***************************************************************************)
EXTENDS SignalledReview, TLAPS

\* Signals reach a row that is there, and a running review was not detached.
RowInv ==
    /\ mail # {} \/ winner # "NONE" => stage # "absent"
    /\ stage = "detached" => ~running

IInv == TypeOK /\ WinnerWasAsked /\ RowInv

\* The first state satisfies the invariant.
LEMMA InitIInv == ASSUME Apart, Init PROVE IInv
BY DEF Apart, Init, IInv, TypeOK, WinnerWasAsked, RowInv

\* Every step keeps it: nobody asks anew while he waits or after he has won.
LEMMA NextIInv == ASSUME Apart, Recordable, IInv, [Next]_vars PROVE IInv'
<1>. USE DEF Apart, Recordable, IInv, TypeOK, WinnerWasAsked, RowInv
<1>1. ASSUME NEW b \in Requests, NEW d \in Asks, Ask(b, d) PROVE IInv'
  BY <1>1 DEF Ask, Free
<1>2. CASE Create
  BY <1>2 DEF Create
<1>3. ASSUME NEW b \in Requests, NEW d \in Asks, Accept(b, d) PROVE IInv'
  BY <1>3 DEF Accept, Free
<1>4. ASSUME NEW b \in Requests, Handle(b) PROVE IInv'
  BY <1>4 DEF Handle
<1>5. CASE ForceCancel
  BY <1>5 DEF ForceCancel
<1>6. CASE Persist
  BY <1>6 DEF Persist
<1>7. CASE End
  BY <1>7 DEF End
<1>8. CASE Detach
  BY <1>8 DEF Detach
<1>9. CASE UNCHANGED vars
  BY <1>9 DEF vars
<1>. QED BY <1>1, <1>2, <1>3, <1>4, <1>5, <1>6, <1>7, <1>8, <1>9 DEF Next, Own

\* IInv is an invariant of the contract, whoever signals and whatever is asked.
THEOREM ContractInvariance == ASSUME Apart, Recordable PROVE Spec => []IInv
BY InitIInv, NextIInv, PTL DEF Spec

\* The decision that won is the one its author's signal carried, no signal of his is
\* still to be handled, and a closed row shows the winner or the reconciliation.
THEOREM WinnerWasAskedHolds == ASSUME Apart, Recordable PROVE Spec => []WinnerWasAsked
<1>1. IInv => WinnerWasAsked
  BY DEF IInv
<1>. QED BY <1>1, ContractInvariance, PTL

\* The contract implements ReviewLifecycle: the row is created once, claimed once and
\* closed by what was claimed, or detached and then closed late.
THEOREM LivesOnceHolds == ASSUME Apart, Recordable PROVE Spec => LivesOnce
<1>1. Init => Lifecycle!Init
  BY DEF Init, Lifecycle!Init
<1>2. ASSUME IInv, [Next]_vars PROVE [Lifecycle!Next]_(Lifecycle!vars)
  <2>. USE DEF Lifecycle!Next, Lifecycle!vars
  <2>1. CASE Create
    BY <2>1 DEF Create, Lifecycle!Create
  <2>2. ASSUME NEW b \in Requests, Handle(b) PROVE [Lifecycle!Next]_(Lifecycle!vars)
    <3>1. CASE winner = "NONE"
      <4>1. asked[b] \in Valid /\ winner' = asked[b] /\ stage = "pending" /\ UNCHANGED <<stage, verdict>>
        BY <1>2, <2>2, <3>1 DEF Handle, IInv, TypeOK, RowInv, WinnerWasAsked
      <4>2. Lifecycle!Claim(asked[b])
        BY <3>1, <4>1 DEF Lifecycle!Claim
      <4>. QED BY <4>1, <4>2
    <3>2. CASE winner # "NONE"
      BY <2>2, <3>2 DEF Handle
    <3>. QED BY <3>1, <3>2
  <2>3. CASE ForceCancel
    <3>1. Lifecycle!Claim("CANCELLED")
      BY <2>3 DEF ForceCancel, Lifecycle!Claim
    <3>. QED BY <3>1 DEF Recordable
  <2>4. CASE Persist
    BY <2>4 DEF Persist, Lifecycle!Decide
  <2>5. CASE Detach
    BY <2>5 DEF Detach, Lifecycle!Detach
  <2>6. CASE End \/ \E b \in Requests, d \in Asks : Ask(b, d) \/ Accept(b, d)
    BY <2>6 DEF End, Ask, Accept
  <2>7. CASE UNCHANGED vars
    BY <2>7 DEF vars
  <2>. QED BY <1>2, <2>1, <2>2, <2>3, <2>4, <2>5, <2>6, <2>7 DEF Next, Own
<1>. QED BY <1>1, <1>2, ContractInvariance, PTL DEF Spec, LivesOnce, Lifecycle!Spec
=========================================================================

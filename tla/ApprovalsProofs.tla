-------------------------- MODULE ApprovalsProofs --------------------------
(***************************************************************************)
(* The safety of Approvals, for any requests, staff and sweep runs and any *)
(* number of faults.  Most actions change the requests in one way: one of  *)
(* them starts, or some that are pending end together (RequestStep).       *)
(***************************************************************************)
EXTENDS Approvals, TLAPS

Status == {"none", "pending", "overdue", "rejected", "executed", "failed", "cancelled", "expired"}
OneStep == {"rejected", "failed", "cancelled", "expired"}

(* The story grows by one event at the end of a pending request. *)
LEMMA StoryEnds ==
    ASSUME NEW status \in OneStep
    PROVE  Story(status) = <<"requested">> \o <<status>>
BY DEF Story, OneStep

LEMMA StoryExecuted ==
    Story("executed") = <<"requested">> \o <<"approved", "executed">>
BY DEF Story

LEMMA StoryPending == Story("pending") = <<"requested">> /\ Story("overdue") = <<"requested">>
BY DEF Story

-----------------------------------------------------------------------------
(* Become keeps the type of the rows, and Done that of the deciders. *)
LEMMA BecomeType ==
    ASSUME RequestsOK, NEW S, NEW status \in Status, Become(S, status)
    PROVE  RequestsOK'
<1>1. \A i \in Requests : [req[i] EXCEPT !.status = status] \in Request
  BY DEF RequestsOK, Request, Status
<1> QED
  BY <1>1 DEF RequestsOK, Become

LEMMA DoneType ==
    ASSUME DecidersOK, NEW d \in Deciders, Done(d)
    PROVE  DecidersOK'
<1>1. /\ pc' \in [Deciders -> {"idle", "loaded", "deciding", "failing"}]
      /\ doing' \in [Deciders -> Requests \cup {Nobody}]
  BY DEF DecidersOK, Done
<1>2. ASSUME NEW e \in Deciders
      PROVE  (pc'[e] = "idle") <=> (doing'[e] = Nobody)
  BY <1>2 DEF DecidersOK, Done
<1> QED
  BY <1>1, <1>2 DEF DecidersOK

LEMMA TypeInit == Init => TypeOK
BY ApprovalsAssumption DEF Init, TypeOK, RequestsOK, DecidersOK, SweepsOK, RestOK, Request, NoRequest, NoLock, People

LEMMA TypeStep == TypeOK /\ [Next]_vars => TypeOK'
<1> SUFFICES ASSUME TypeOK, [Next]_vars
             PROVE  TypeOK'
  OBVIOUS
<1> USE ApprovalsAssumption DEF TypeOK, decideVars, sweepVars
<1>1. ASSUME NEW i \in Requests, NEW a \in Requesters, Gate(i, a)
      PROVE  TypeOK'
  <2>1. [status |-> "pending", text |-> TRUE, by |-> a] \in Request
    BY DEF Request
  <2>2. \A o \in Requests : [req[o] EXCEPT !.status = "expired"] \in Request
    BY DEF RequestsOK, Request
  <2>3. RequestsOK'
    BY <1>1, <2>1, <2>2 DEF Gate, RequestsOK
  <2> QED
    BY <1>1, <2>3 DEF Gate, DecidersOK, SweepsOK, RestOK
<1>2. ASSUME NEW i \in Requests, Cancel(i) \/ Overdue(i)
      PROVE  TypeOK'
  <2>1. RequestsOK'
    BY <1>2, BecomeType DEF Cancel, Overdue, Status
  <2> QED
    BY <1>2, <2>1 DEF Cancel, Overdue, DecidersOK, SweepsOK, RestOK
<1>3. ASSUME NEW d \in Deciders, NEW i \in Requests, Load(d, i)
      PROVE  TypeOK'
  <2>1. DecidersOK'
    BY <1>3 DEF Load, DecidersOK
  <2> QED
    BY <1>3, <2>1 DEF Load, RequestsOK, SweepsOK, RestOK
<1>4. ASSUME NEW d \in Deciders, CheckPeople(d)
      PROVE  TypeOK'
  <2>1. DecidersOK'
    BY <1>4 DEF CheckPeople, DecidersOK
  <2> QED
    BY <1>4, <2>1 DEF CheckPeople, RequestsOK, SweepsOK, RestOK
<1>5. ASSUME NEW d \in Deciders, GiveUp(d) \/ ClaimLost(d)
      PROVE  TypeOK'
  <2>1. DecidersOK' /\ RequestsOK'
    BY <1>5, DoneType DEF GiveUp, ClaimLost, RequestsOK
  <2>2. SweepsOK' /\ RestOK'
    BY <1>5 DEF GiveUp, ClaimLost, Fault, SweepsOK, RestOK
  <2> QED
    BY <2>1, <2>2
<1>6. ASSUME NEW d \in Deciders, Reject(d)
      PROVE  TypeOK'
  <2>1. RequestsOK' /\ DecidersOK'
    BY <1>6, BecomeType, DoneType DEF Reject, Status
  <2> QED
    BY <1>6, <2>1 DEF Reject, SweepsOK, RestOK
<1>7. ASSUME NEW d \in Deciders, Approve(d)
      PROVE  TypeOK'
  <2>1. CASE Become({doing[d]}, "executed") /\ Done(d) /\ effects' = [effects EXCEPT ![doing[d]] = @ + 1]
    <3>1. RequestsOK' /\ DecidersOK'
      BY <2>1, BecomeType, DoneType DEF Status
    <3>2. effects' \in [Requests -> Nat]
      <4>1. doing[d] \in Requests
        BY <1>7 DEF Approve, DecidersOK
      <4> QED
        BY <2>1, <4>1 DEF RestOK
    <3> QED
      BY <1>7, <3>1, <3>2 DEF Approve, SweepsOK, RestOK
  <2>2. CASE pc' = [pc EXCEPT ![d] = "failing"] /\ UNCHANGED <<req, doing, told, effects>>
    <3>1. DecidersOK'
      BY <1>7, <2>2 DEF Approve, DecidersOK
    <3> QED
      BY <1>7, <2>2, <3>1 DEF Approve, RequestsOK, SweepsOK, RestOK
  <2> QED
    BY <1>7, <2>1, <2>2 DEF Approve
<1>8. ASSUME NEW d \in Deciders, RecordFailure(d)
      PROVE  TypeOK'
  <2>1. RequestsOK'
    BY <1>8, BecomeType DEF RecordFailure, Status, RequestsOK
  <2>2. DecidersOK'
    BY <1>8, DoneType DEF RecordFailure
  <2> QED
    BY <1>8, <2>1, <2>2 DEF RecordFailure, SweepsOK, RestOK
<1>9. ASSUME NEW u \in Requesters \cup {Subject}, CloseForDeletedUser(u)
      PROVE  TypeOK'
  <2>1. \A i \in Requests : req'[i] \in Request
    BY <1>9 DEF CloseForDeletedUser, RequestsOK, Request
  <2>2. RequestsOK'
    BY <1>9, <2>1 DEF CloseForDeletedUser, RequestsOK
  <2> QED
    BY <1>9, <2>2 DEF CloseForDeletedUser, DecidersOK, SweepsOK, RestOK, People
<1>10. ASSUME NEW s \in Sweeps, Acquire(s)
       PROVE  TypeOK'
  BY <1>10 DEF Acquire, RequestsOK, DecidersOK, SweepsOK, RestOK
<1>11. ASSUME NEW s \in Sweeps, Batch(s)
       PROVE  TypeOK'
  <2>1. RequestsOK'
    BY <1>11, BecomeType DEF Batch, Status
  <2> QED
    BY <1>11, <2>1 DEF Batch, DecidersOK, SweepsOK, RestOK
<1>12. ASSUME NEW s \in Sweeps, Finish(s)
       PROVE  TypeOK'
  <2>1. Released(s) \in [owner : Sweeps \cup {Nobody}, live : BOOLEAN]
    BY DEF Released, NoLock, SweepsOK
  <2>2. lock' \in [owner : Sweeps \cup {Nobody}, live : BOOLEAN]
    BY <1>12, <2>1 DEF Finish, SweepsOK
  <2>3. faults' \in 0..FaultBound
    BY <1>12 DEF Finish, Fault, RestOK
  <2> QED
    BY <1>12, <2>2, <2>3 DEF Finish, RequestsOK, DecidersOK, SweepsOK, RestOK
<1>13. CASE LeaseEnds
  BY <1>13 DEF LeaseEnds, RequestsOK, DecidersOK, SweepsOK, RestOK
<1>14. CASE UNCHANGED vars
  BY <1>14 DEF vars, RequestsOK, DecidersOK, SweepsOK, RestOK
<1> QED
  BY <1>1, <1>2, <1>3, <1>4, <1>5, <1>6, <1>7, <1>8, <1>9, <1>10, <1>11, <1>12, <1>13, <1>14
  DEF Next

(* Every variable keeps its type, and no decider works on a request it did  *)
(* not read (decide).                                                       *)
THEOREM TypeCorrect == Spec => []TypeOK
BY TypeInit, TypeStep, PTL DEF Spec

-----------------------------------------------------------------------------
(* The sweep lease: whoever is trusted owns the running lease, so there is  *)
(* one such run at a time, and only its own release or the end of the term  *)
(* takes the lease away.                                                    *)
LEMMA LeaseStep == TypeOK /\ LeaseIsItsOwners /\ [Next]_vars => LeaseIsItsOwners'
<1> SUFFICES ASSUME TypeOK, LeaseIsItsOwners, [Next]_vars
             PROVE  LeaseIsItsOwners'
  OBVIOUS
<1>1. ASSUME NEW s \in Sweeps, Acquire(s)
      PROVE  LeaseIsItsOwners'
  <2>1. trusted = {}
    BY <1>1 DEF Acquire, MayAcquire, LeaseIsItsOwners
  <2> QED
    BY <1>1, <2>1 DEF Acquire, LeaseIsItsOwners
<1>2. ASSUME NEW s \in Sweeps, Finish(s)
      PROVE  LeaseIsItsOwners'
  <2>1. \A t \in trusted' : t # s /\ lock = [owner |-> t, live |-> TRUE]
    BY <1>2 DEF Finish, LeaseIsItsOwners
  <2>2. \A t \in trusted' : Released(s) = lock
    BY <2>1 DEF Released
  <2> QED
    BY <1>2, <2>1, <2>2 DEF Finish, LeaseIsItsOwners
<1>3. CASE LeaseEnds
  BY <1>3 DEF LeaseEnds, LeaseIsItsOwners
<1>4. CASE UNCHANGED <<lock, trusted>>
  BY <1>4 DEF LeaseIsItsOwners
<1> QED
  BY <1>1, <1>2, <1>3, <1>4
  DEF Next, vars, sweepVars, Gate, Cancel, Load, Overdue, CheckPeople, GiveUp, ClaimLost, Reject,
      Approve, RecordFailure, CloseForDeletedUser, Batch

-----------------------------------------------------------------------------
(* Endings.  What a step does to one request: nothing to its story, or it   *)
(* starts, grows overdue, or ends, pending before, with the events of that  *)
(* ending and, if it is executed, with its effect.                          *)
Kept(i) == req'[i].status = req[i].status /\ told'[i] = told[i] /\ effects'[i] = effects[i]
Started(i) ==
    /\ req[i].status = "none" /\ req'[i].status = "pending"
    /\ told'[i] = <<"requested">> /\ effects'[i] = effects[i]
Delayed(i) ==
    /\ PendingAndLive(i) /\ req'[i].status = "overdue"
    /\ told'[i] = told[i] /\ effects'[i] = effects[i]
Ended(i) ==
    /\ Pending(i)
    /\ \/ /\ req'[i].status \in OneStep /\ effects'[i] = effects[i]
          /\ told'[i] = told[i] \o <<req'[i].status>>
       \/ /\ req'[i].status = "executed" /\ effects'[i] = effects[i] + 1
          /\ told'[i] = told[i] \o <<"approved", "executed">>

(* No step does anything else to any request. *)
LEMMA RequestStep ==
    ASSUME TypeOK, OneEnding, [Next]_vars, NEW i \in Requests
    PROVE  Kept(i) \/ Started(i) \/ Delayed(i) \/ Ended(i)
<1> USE DEF TypeOK, decideVars, sweepVars
<1>0. req[i] \in Request /\ effects[i] \in Nat
  BY DEF RequestsOK, RestOK
<1>1. ASSUME NEW o \in Requests, NEW a \in Requesters, Gate(o, a)
      PROVE  Kept(i) \/ Started(i) \/ Ended(i)
  <2>1. CASE i = o
    BY <1>1, <2>1 DEF Gate, Started
  <2>2. CASE i # o /\ PendingAndDue(i)
    <3>1. told'[i] = Append(told[i], "expired") /\ req'[i] = [req[i] EXCEPT !.status = "expired"]
      BY <1>1, <2>2 DEF Gate
    <3>2. told[i] = <<"requested">>
      BY <2>2 DEF OneEnding, Story, PendingAndDue
    <3>3. Append(<<"requested">>, "expired") = <<"requested">> \o <<"expired">>
      OBVIOUS
    <3> QED
      BY <1>0, <1>1, <2>2, <3>1, <3>2, <3>3 DEF Gate, Ended, OneStep, Pending, Request
  <2>3. CASE i # o /\ ~PendingAndDue(i)
    BY <1>1, <2>3 DEF Gate, Kept
  <2> QED
    BY <2>1, <2>2, <2>3
<1>2. ASSUME NEW S, NEW status \in OneStep, \A o \in S \cap Requests : Pending(o),
             Become(S, status), Announce(S, <<status>>), effects' = effects
      PROVE  Kept(i) \/ Ended(i)
  BY <1>0, <1>2 DEF Become, Announce, Kept, Ended, Request
<1>3. ASSUME NEW o \in Requests, Cancel(o)
      PROVE  Kept(i) \/ Ended(i)
  BY <1>2, <1>3 DEF Cancel, Pending, OneStep
<1>4. ASSUME NEW o \in Requests, Overdue(o)
      PROVE  Kept(i) \/ Delayed(i)
  BY <1>0, <1>4 DEF Overdue, Become, Kept, Delayed, Request
<1>5. ASSUME NEW d \in Deciders, Reject(d)
      PROVE  Kept(i) \/ Ended(i)
  <2> DEFINE S == {doing[d]}
  <2>1. /\ \A o \in S \cap Requests : Pending(o)
        /\ Become(S, "rejected") /\ Announce(S, <<"rejected">>) /\ effects' = effects
    BY <1>5 DEF Reject, Claimable, Pending
  <2> QED
    BY <1>2, <2>1 DEF OneStep
<1>6. ASSUME NEW d \in Deciders, Approve(d)
      PROVE  Kept(i) \/ Ended(i)
  <2>1. CASE UNCHANGED <<req, told, effects>>
    BY <2>1 DEF Kept
  <2>2. CASE /\ Become({doing[d]}, "executed") /\ Announce({doing[d]}, <<"approved", "executed">>)
             /\ effects' = [effects EXCEPT ![doing[d]] = @ + 1]
    <3>1. CASE i = doing[d]
      BY <1>0, <1>6, <2>2, <3>1 DEF Approve, Claimable, Pending, Become, Announce, Ended, Request, RestOK
    <3>2. CASE i # doing[d]
      BY <2>2, <3>2 DEF Become, Announce, Kept, RestOK
    <3> QED
      BY <3>1, <3>2
  <2> QED
    BY <1>6, <2>1, <2>2 DEF Approve
<1>7. ASSUME NEW d \in Deciders, RecordFailure(d)
      PROVE  Kept(i) \/ Ended(i)
  <2>1. CASE MayFail(doing[d])
    <3> DEFINE S == {doing[d]}
    <3>1. /\ \A o \in S \cap Requests : Pending(o)
          /\ Become(S, "failed") /\ Announce(S, <<"failed">>) /\ effects' = effects
      BY <1>7, <2>1 DEF RecordFailure, MayFail
    <3> QED
      BY <1>2, <3>1 DEF OneStep
  <2>2. CASE ~MayFail(doing[d])
    BY <1>7, <2>2 DEF RecordFailure, Kept
  <2> QED
    BY <2>1, <2>2
<1>8. ASSUME NEW u \in Requesters \cup {Subject}, CloseForDeletedUser(u)
      PROVE  Kept(i) \/ Ended(i)
  <2>1. CASE Closable(i, u)
    BY <1>0, <1>8, <2>1 DEF CloseForDeletedUser, Announce, Closable, Ended, OneStep, Request
  <2>2. CASE ~Closable(i, u)
    BY <1>0, <1>8, <2>2 DEF CloseForDeletedUser, Announce, Kept, Request
  <2> QED
    BY <2>1, <2>2
<1>9. ASSUME NEW s \in Sweeps, Batch(s)
      PROVE  Kept(i) \/ Ended(i)
  <2>1. PICK S \in SUBSET {o \in Requests : PendingAndDue(o)} :
               Become(S, "expired") /\ Announce(S, <<"expired">>)
    BY <1>9 DEF Batch
  <2>2. effects' = effects /\ \A o \in S \cap Requests : Pending(o)
    BY <1>9, <2>1 DEF Batch, Pending
  <2> QED
    BY <1>2, <2>1, <2>2 DEF OneStep
<1>10. CASE UNCHANGED <<req, told, effects>>
  BY <1>10 DEF Kept
<1> QED
  BY <1>1, <1>3, <1>4, <1>5, <1>6, <1>7, <1>8, <1>9, <1>10
  DEF Next, vars, Load, CheckPeople, GiveUp, ClaimLost, Acquire, Finish, LeaseEnds

(* Each of those keeps the story of the request that of its status. *)
LEMMA EndingStep == TypeOK /\ OneEnding /\ [Next]_vars => OneEnding'
<1> SUFFICES ASSUME TypeOK, OneEnding, [Next]_vars, NEW i \in Requests
             PROVE  /\ told'[i] = Story(req'[i].status)
                    /\ effects'[i] = (IF req'[i].status = "executed" THEN 1 ELSE 0)
  BY DEF OneEnding
<1>1. told[i] = Story(req[i].status) /\ effects[i] = (IF req[i].status = "executed" THEN 1 ELSE 0)
  BY DEF OneEnding
<1>2. Kept(i) \/ Started(i) \/ Delayed(i) \/ Ended(i)
  BY RequestStep
<1>3. CASE Kept(i)
  BY <1>1, <1>3 DEF Kept
<1>4. CASE Started(i)
  BY <1>1, <1>4, StoryPending DEF Started
<1>5. CASE Delayed(i)
  BY <1>1, <1>5, StoryPending DEF Delayed, PendingAndLive
<1>6. CASE Ended(i)
  <2>1. told[i] = <<"requested">> /\ effects[i] = 0
    BY <1>1, <1>6, StoryPending DEF Ended, Pending, PendingAndLive, PendingAndDue
  <2>2. CASE req'[i].status \in OneStep /\ told'[i] = told[i] \o <<req'[i].status>> /\ effects'[i] = effects[i]
    <3>1. told'[i] = Story(req'[i].status)
      BY <2>1, <2>2, StoryEnds
    <3> QED
      BY <2>1, <2>2, <3>1 DEF OneStep
  <2>3. CASE /\ req'[i].status = "executed" /\ told'[i] = told[i] \o <<"approved", "executed">>
             /\ effects'[i] = effects[i] + 1
    BY <2>1, <2>3, StoryExecuted
  <2> QED
    BY <1>6, <2>2, <2>3 DEF Ended
<1> QED
  BY <1>2, <1>3, <1>4, <1>5, <1>6

-----------------------------------------------------------------------------
(* Closures.  Only the gate opens a request or gives it a text and an       *)
(* owner, and it counts one about somebody already closed as late.          *)
ClosedAt(i) ==
    /\ closed \cap {req[i].by, Subject} # {} => ~Pending(i)
    /\ Subject \in closed => ~req[i].text

(* A step that closes nobody and does not reopen a request leaves it so.    *)
LEMMA ClosedKept ==
    ASSUME NEW i \in Requests, ClosedAt(i), closed' = closed,
           req'[i].by = req[i].by, req'[i].text = req[i].text, Pending(i)' => Pending(i)
    PROVE  ClosedAt(i)'
BY DEF ClosedAt

LEMMA BecomeKept ==
    ASSUME RequestsOK, NEW i \in Requests, NEW S, NEW status, Become(S, status)
    PROVE  /\ req'[i].by = req[i].by /\ req'[i].text = req[i].text
           /\ req'[i].status = IF i \in S THEN status ELSE req[i].status
BY DEF RequestsOK, Request, Become

LEMMA ClosedStep == TypeOK /\ DeletedStaysClosed /\ [Next]_vars => DeletedStaysClosed'
<1> SUFFICES ASSUME TypeOK, DeletedStaysClosed, [Next]_vars, NEW i \in Requests, i \notin late'
             PROVE  ClosedAt(i)'
  BY DEF DeletedStaysClosed, ClosedAt
<1> USE DEF TypeOK, decideVars, sweepVars, Pending, PendingAndLive, PendingAndDue
<1>0. req[i] \in Request /\ (i \notin late => ClosedAt(i))
  BY DEF RequestsOK, DeletedStaysClosed, ClosedAt
<1>1. ASSUME NEW o \in Requests, NEW a \in Requesters, Gate(o, a)
      PROVE  ClosedAt(i)'
  <2>1. i \notin late
    BY <1>1 DEF Gate
  <2>2. CASE i = o
    BY <1>1, <2>2 DEF Gate, ClosedAt
  <2>3. CASE i # o
    BY <1>0, <1>1, <2>1, <2>3, ClosedKept DEF Gate, Request
  <2> QED
    BY <2>2, <2>3
<1>2. ASSUME NEW u \in Requesters \cup {Subject}, CloseForDeletedUser(u)
      PROVE  ClosedAt(i)'
  <2>1. /\ req'[i].by = req[i].by /\ req'[i].text = (req[i].text /\ u # Subject)
        /\ req'[i].status = IF Closable(i, u) THEN "cancelled" ELSE req[i].status
        /\ closed' = closed \cup {u}
    BY <1>0, <1>2 DEF CloseForDeletedUser, Request
  <2>2. u # Subject => i \notin late
    BY <1>2 DEF CloseForDeletedUser
  <2>3. CASE u = Subject
    BY <2>1, <2>3 DEF ClosedAt, Closable
  <2>4. CASE u # Subject
    BY <1>0, <2>1, <2>2, <2>4 DEF ClosedAt, Closable
  <2> QED
    BY <2>3, <2>4
<1>3. CASE closed' = closed /\ late' = late /\ req' = req
  BY <1>0, <1>3, ClosedKept
<1>4. ASSUME NEW S, NEW status, Become(S, status), closed' = closed, late' = late,
             \A o \in S \cap Requests : Pending(o)
      PROVE  ClosedAt(i)'
  <2>1. Pending(i)' => Pending(i)
    BY <1>4, BecomeKept
  <2> QED
    BY <1>0, <1>4, <2>1, BecomeKept, ClosedKept
<1>5. ASSUME NEW o \in Requests, Cancel(o) \/ Overdue(o)
      PROVE  ClosedAt(i)'
  BY <1>4, <1>5 DEF Cancel, Overdue
<1>6. ASSUME NEW d \in Deciders, Reject(d)
      PROVE  ClosedAt(i)'
  <2> DEFINE S == {doing[d]}
  <2>1. Become(S, "rejected") /\ \A o \in S \cap Requests : Pending(o)
    BY <1>6 DEF Reject, Claimable
  <2> QED
    BY <1>4, <1>6, <2>1 DEF Reject
<1>7. ASSUME NEW d \in Deciders, Approve(d)
      PROVE  ClosedAt(i)'
  <2> DEFINE S == {doing[d]}
  <2>1. Become(S, "executed") \/ req' = req
    BY <1>7 DEF Approve
  <2>2. \A o \in S \cap Requests : Pending(o)
    BY <1>7 DEF Approve, Claimable
  <2> QED
    BY <1>3, <1>4, <1>7, <2>1, <2>2 DEF Approve
<1>8. ASSUME NEW d \in Deciders, RecordFailure(d)
      PROVE  ClosedAt(i)'
  <2> DEFINE S == {doing[d]}
  <2>1. req' = req \/ (Become(S, "failed") /\ \A o \in S \cap Requests : Pending(o))
    BY <1>8 DEF RecordFailure, MayFail
  <2> QED
    BY <1>3, <1>4, <1>8, <2>1 DEF RecordFailure
<1>9. ASSUME NEW s \in Sweeps, Batch(s)
      PROVE  ClosedAt(i)'
  <2>1. PICK S \in SUBSET {o \in Requests : PendingAndDue(o)} : Become(S, "expired")
    BY <1>9 DEF Batch
  <2> QED
    BY <1>4, <1>9, <2>1 DEF Batch
<1> QED
  BY <1>1, <1>2, <1>3, <1>5, <1>6, <1>7, <1>8, <1>9
  DEF Next, vars, Load, CheckPeople, GiveUp, ClaimLost, Acquire, Finish, LeaseEnds

-----------------------------------------------------------------------------
LEMMA SafeInit == Init => LeaseIsItsOwners /\ OneEnding /\ DeletedStaysClosed
BY DEF Init, LeaseIsItsOwners, OneEnding, Story, NoRequest, DeletedStaysClosed

(* However decisions, withdrawals, expiry and deletions race (claim,        *)
(* markExecuted, markFailed, expireDue, closeForDeletedUser), each request  *)
(* has one ending, announced as such, and its action is carried out once if *)
(* that ending is its execution, else never.                                *)
THEOREM EachHasOneEnding == Spec => []OneEnding
<1>1. Init => TypeOK /\ OneEnding
  BY TypeInit, SafeInit
<1>2. TypeOK /\ OneEnding /\ [Next]_vars => (TypeOK /\ OneEnding)'
  BY TypeStep, EndingStep
<1> QED
  BY <1>1, <1>2, PTL DEF Spec

(* A deletion that was handled stays so: no decision or sweep under way     *)
(* leaves a request by or about that person open, or its text in place,     *)
(* unless the gate stored it later (closeForDeletedUser).                   *)
THEOREM DeletionCloses == Spec => []DeletedStaysClosed
<1>1. Init => TypeOK /\ DeletedStaysClosed
  BY TypeInit, SafeInit
<1>2. TypeOK /\ DeletedStaysClosed /\ [Next]_vars => (TypeOK /\ DeletedStaysClosed)'
  BY TypeStep, ClosedStep
<1> QED
  BY <1>1, <1>2, PTL DEF Spec

(* A sweep run keeps its label for the term of its lease, whatever runs     *)
(* outlived theirs (acquireSweepLease, releaseSweepLease).                  *)
THEOREM LeaseIsSafe == Spec => []LeaseIsItsOwners
<1>1. Init => TypeOK /\ LeaseIsItsOwners
  BY TypeInit, SafeInit
<1>2. TypeOK /\ LeaseIsItsOwners /\ [Next]_vars => (TypeOK /\ LeaseIsItsOwners)'
  BY TypeStep, LeaseStep
<1> QED
  BY <1>1, <1>2, PTL DEF Spec

=============================================================================

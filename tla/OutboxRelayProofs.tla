------------------------- MODULE OutboxRelayProofs -------------------------
(***************************************************************************)
(* Proofs about OutboxRelay, for every set of events, handlers and relays, *)
(* every subscription map and every lease, retry and attempt setting.      *)
(***************************************************************************)
EXTENDS OutboxRelay, FiniteSetTheorems, TLAPS

(* The constants of failureSchedule only yield delays the table can store. *)
LEMMA DelaysAreNat ==
    ASSUME NEW r, NEW e
    PROVE  FailureDelays(r, e) \subseteq Nat
BY ConstantsAssumption DEF FailureDelays, ConstantsAssumption

LEMMA NoticeIsId ==
    ASSUME NEW e \in Events
    PROVE  Notice(e) \in Ids /\ Notice(e) \notin Events
BY ConstantsAssumption DEF Ids, Notices, ConstantsAssumption

LEMMA NewRowType == NoRow \in Row /\ NewRow \in Row
BY DEF NoRow, NewRow, Row

LEMMA NoJobType == NoJob \in Job
BY DEF NoJob, Job

(* Updating fields of a row or of a job keeps its type; a job keeps its     *)
(* token through everything but a claim.                                    *)
LEMMA RowUpdates ==
    ASSUME NEW w \in Row, NEW a \in Nat, NEW n \in Nat \cup {Null}
    PROVE  /\ [w EXCEPT !.attempts = a, !.next = n] \in Row
           /\ [w EXCEPT !.next = n] \in Row
           /\ [w EXCEPT !.status = "purged"] \in Row
BY DEF Row

LEMMA JobPhase ==
    ASSUME NEW k \in Job, NEW v \in {"none", "queued", "running", "interrupted"}
    PROVE  /\ [k EXCEPT !.phase = v] \in Job
           /\ [k EXCEPT !.phase = v].token = k.token
BY DEF Job

LEMMA JobOutcome ==
    ASSUME NEW k \in Job, NEW v \in SUBSET Handlers
    PROVE  /\ [k EXCEPT !.ok = v] \in Job /\ [k EXCEPT !.bad = v] \in Job
           /\ [k EXCEPT !.ok = v].token = k.token /\ [k EXCEPT !.bad = v].token = k.token
BY DEF Job

LEMMA JobTimed ==
    ASSUME NEW k \in Job, NEW v \in Nat
    PROVE  /\ [k EXCEPT !.left = v] \in Job
           /\ [k EXCEPT !.left = v].token = k.token
           /\ [k EXCEPT !.left = v].phase = k.phase
BY DEF Job

LEMMA JobLost ==
    ASSUME NEW k \in Job
    PROVE  /\ [k EXCEPT !.lost = TRUE] \in Job
           /\ [k EXCEPT !.lost = TRUE].token = k.token
           /\ [k EXCEPT !.lost = TRUE].phase = k.phase
BY DEF Job

LEMMA JobSet ==
    ASSUME job \in [Relays -> [Ids -> Job]], NEW r \in Relays, NEW e \in Ids,
           NEW k \in Job, job' = [job EXCEPT ![r][e] = k]
    PROVE  /\ job' \in [Relays -> [Ids -> Job]]
           /\ \A p \in Relays, i \in Ids :
                 job'[p][i] = IF p = r /\ i = e THEN k ELSE job[p][i]
OBVIOUS

LEMMA IdsFinite == IsFiniteSet(Ids)
<1>1. IsFiniteSet(Events)
  BY ConstantsAssumption
<1> DEFINE f == [e \in Events |-> Notice(e)]
<1>2. f \in Surjection(Events, Notices)
  BY DEF Surjection, Notices
<1>3. IsFiniteSet(Notices)
  BY <1>1, <1>2, FS_Surjection
<1>4. QED
  BY <1>1, <1>3, FS_Union DEF Ids

LEMMA ClaimedRowType ==
    ASSUME NEW w \in Row
    PROVE  ClaimedRow(w) \in Row /\ ClaimedRow(w).attempts > 0
<1>1. w.attempts \in Nat
  BY DEF Row
<1>2. w.attempts + 1 \in Nat /\ w.attempts + 1 > 0 /\ Lease \in Nat
  BY <1>1, ConstantsAssumption
<1>3. ClaimedRow(w) \in Row
  BY <1>2, RowUpdates DEF ClaimedRow
<1>4. ClaimedRow(w).attempts = w.attempts + 1
  BY DEF ClaimedRow, Row
<1>5. QED
  BY <1>2, <1>3, <1>4

LEMMA ClaimedJobType ==
    ASSUME NEW w \in Row
    PROVE  ClaimedJob(w) \in Job
<1>1. /\ w.attempts \in Nat /\ w.dead \in BOOLEAN /\ w.deliveries \in SUBSET Handlers
  BY DEF Row
<1>2. Lease \in Nat
  BY ConstantsAssumption
<1>3. QED
  BY <1>1, <1>2 DEF ClaimedJob, NoJob, Job

(* The guard of a release implies that there is an attempt to give back. *)
LEMMA ReleaseType ==
    ASSUME NEW w \in Row, w.attempts > 0
    PROVE  ReleasedRow(w) \in Row
<1>1. w.attempts \in Nat
  BY DEF Row
<1>2. w.attempts - 1 \in Nat
  BY <1>1
<1>3. QED
  BY <1>2, RowUpdates DEF ReleasedRow

LEMMA SettledTypes ==
    ASSUME NEW w \in Row, NEW ok \in SUBSET Handlers, NEW d \in Nat, NEW b \in BOOLEAN
    PROVE  DeliveredRow(w, ok) \in Row /\ FailedRow(w, ok, d, b) \in Row
BY DEF DeliveredRow, FailedRow, Row

LEMMA Minus1Type ==
    ASSUME NEW n
    PROVE  /\ n \in Nat => Minus1(n) \in Nat
           /\ n \in Nat \cup {Null} => Minus1(n) \in Nat \cup {Null}
           /\ n \in Nat /\ n > 0 => Minus1(n) = n - 1
BY DEF Minus1

LEMMA TickTypes ==
    ASSUME NEW w \in Row, NEW k \in Job
    PROVE  /\ [w EXCEPT !.next = Minus1(@)] \in Row
           /\ [k EXCEPT !.left = Minus1(@)] \in Job
           /\ [k EXCEPT !.left = Minus1(@)].token = k.token
           /\ [k EXCEPT !.left = Minus1(@)].phase = k.phase
<1>1. w.next \in Nat \cup {Null} /\ k.left \in Nat
  BY DEF Row, Job
<1>2. Minus1(w.next) \in Nat \cup {Null} /\ Minus1(k.left) \in Nat
  BY <1>1, Minus1Type
<1>3. QED
  BY <1>2, RowUpdates, JobTimed

-----------------------------------------------------------------------------
(* Type correctness.  It is not inductive alone: release subtracts one from *)
(* attempts, so every held token must be known to be positive.              *)
TokensPositive == \A r \in Relays, e \in Ids : Holds(r, e) => job[r][e].token > 0

LEMMA TypeInit == Init => TypeOK /\ TokensPositive
<1> SUFFICES ASSUME Init PROVE TypeOK /\ TokensPositive
  OBVIOUS
<1>1. FaultBound \in Nat /\ StopBound \in Nat
  BY ConstantsAssumption
<1>2. TypeOK
  BY <1>1, NewRowType, NoJobType DEF Init, TypeOK
<1>3. TokensPositive
  BY DEF Init, TokensPositive, Holds, NoJob
<1>4. QED
  BY <1>2, <1>3

LEMMA TypeStep ==
    TypeOK /\ TokensPositive /\ [Next]_vars => TypeOK' /\ TokensPositive'
<1> SUFFICES ASSUME TypeOK, TokensPositive, [Next]_vars
             PROVE  TypeOK' /\ TokensPositive'
  OBVIOUS
<1>a. row \in [Ids -> Row] /\ job \in [Relays -> [Ids -> Job]]
  BY DEF TypeOK
<1>b. \A r \in Relays, e \in Ids : job[r][e] \in Job
  BY <1>a
<1>c. ASSUME NEW r \in Relays, NEW e \in Ids, NEW k \in Job,
             job' = [job EXCEPT ![r][e] = k], k.phase # "none" => k.token > 0
      PROVE  job' \in [Relays -> [Ids -> Job]] /\ TokensPositive'
  <2>1. /\ job' \in [Relays -> [Ids -> Job]]
        /\ \A p \in Relays, i \in Ids :
              job'[p][i] = IF p = r /\ i = e THEN k ELSE job[p][i]
    BY <1>a, <1>c, JobSet
  <2>2. QED BY <1>c, <2>1 DEF TokensPositive, Holds
<1>d. ASSUME NEW r \in Relays, NEW e \in Ids, job' = [job EXCEPT ![r][e] = NoJob]
      PROVE  job' \in [Relays -> [Ids -> Job]] /\ TokensPositive'
  <2>1. NoJob.phase = "none" BY DEF NoJob
  <2>2. QED BY <2>1, <1>c, <1>d, NoJobType
<1>e. ASSUME job' = job PROVE TokensPositive'
  BY <1>e DEF TokensPositive, Holds
<1>1. ASSUME NEW e \in Events, Enqueue(e) PROVE TypeOK' /\ TokensPositive'
  BY <1>1, <1>e, NewRowType DEF Enqueue, Ids, TypeOK
<1>2. ASSUME NEW r \in Relays, Claim(r) PROVE TypeOK' /\ TokensPositive'
  <2>1. PICK S \in SUBSET (LiveDue \cup DeadDue) :
          /\ row' = [e \in Ids |-> IF e \in S THEN ClaimedRow(row[e]) ELSE row[e]]
          /\ job' = [p \in Relays |-> [e \in Ids |->
                      IF e \notin S THEN job[p][e]
                      ELSE IF p = r THEN ClaimedJob(ClaimedRow(row[e]))
                      ELSE IF Holds(p, e) THEN [job[p][e] EXCEPT !.lost = TRUE]
                      ELSE job[p][e]]]
          /\ lanes' = [lanes EXCEPT ![r] = LanesFor(S)]
    BY <1>2 DEF Claim
  <2>2. row' \in [Ids -> Row]
    BY <1>a, <2>1, ClaimedRowType
  <2>3. job' \in [Relays -> [Ids -> Job]]
    BY <1>a, <1>b, <2>1, JobLost, ClaimedRowType, ClaimedJobType
  <2>4. LanesFor(S) \in Int
    <3>1. S \subseteq Ids BY DEF LiveDue, DeadDue
    <3>2. Cardinality(S) \in Nat BY <3>1, IdsFinite, FS_Subset, FS_CardinalityType
    <3>3. QED BY <3>2, ConstantsAssumption DEF LanesFor
  <2>5. faults' \in 0..FaultBound
    BY <1>2, ConstantsAssumption DEF Claim, Fault, TypeOK
  <2>6. TypeOK'
    BY <1>2, <2>1, <2>2, <2>3, <2>4, <2>5 DEF Claim, TypeOK
  <2>7. ASSUME NEW p \in Relays, NEW e \in Ids, Holds(p, e)' PROVE job'[p][e].token > 0
    <3>1. CASE e \notin S
      BY <2>7, <3>1, <2>1 DEF TokensPositive, Holds
    <3>2. CASE e \in S /\ p = r
      <4>1. job'[p][e].token = ClaimedRow(row[e]).attempts
        BY <3>2, <2>1 DEF ClaimedJob, NoJob
      <4>2. QED BY <1>a, <4>1, ClaimedRowType
    <3>3. CASE e \in S /\ p # r
      <4>1. job'[p][e] = IF Holds(p, e) THEN [job[p][e] EXCEPT !.lost = TRUE]
                                        ELSE job[p][e]
        BY <3>3, <2>1
      <4>2. job'[p][e].token = job[p][e].token /\ job'[p][e].phase = job[p][e].phase
        BY <1>b, <4>1, JobLost
      <4>3. QED BY <2>7, <4>2 DEF TokensPositive, Holds
    <3>4. QED BY <3>1, <3>2, <3>3
  <2>8. QED BY <2>6, <2>7 DEF TokensPositive
<1>3. ASSUME NEW r \in Relays, NEW e \in Ids, Start(r, e) PROVE TypeOK' /\ TokensPositive'
  <2> DEFINE k == [job[r][e] EXCEPT !.phase = "running"]
  <2>1. k \in Job /\ k.token = job[r][e].token BY <1>b, JobPhase
  <2>2. job' = [job EXCEPT ![r][e] = k] BY <1>3 DEF Start
  <2>3. job[r][e].token > 0 BY <1>3 DEF Start, TokensPositive, Holds
  <2> HIDE DEF k
  <2>4. job' \in [Relays -> [Ids -> Job]] /\ TokensPositive' BY <2>1, <2>2, <2>3, <1>c
  <2>5. QED BY <1>3, <2>4 DEF Start, TypeOK
<1>4. ASSUME NEW r \in Relays, NEW e \in Ids, NEW h \in Handlers, HandlerOk(r, e, h)
      PROVE TypeOK' /\ TokensPositive'
  <2> DEFINE k == [job[r][e] EXCEPT !.ok = @ \cup {h}]
  <2>0. job[r][e].ok \cup {h} \in SUBSET Handlers BY <1>b DEF Job
  <2>1. k \in Job /\ k.token = job[r][e].token BY <1>b, <2>0, JobOutcome
  <2>2. job' = [job EXCEPT ![r][e] = k] BY <1>4 DEF HandlerOk
  <2>3. job[r][e].token > 0 BY <1>4 DEF HandlerOk, TokensPositive, Holds
  <2> HIDE DEF k
  <2>4. job' \in [Relays -> [Ids -> Job]] /\ TokensPositive' BY <2>1, <2>2, <2>3, <1>c
  <2>5. QED BY <1>4, <2>4 DEF HandlerOk, TypeOK
<1>5. ASSUME NEW r \in Relays, NEW e \in Ids, NEW h \in Handlers, HandlerFail(r, e, h)
      PROVE TypeOK' /\ TokensPositive'
  <2> DEFINE k == [job[r][e] EXCEPT !.bad = @ \cup {h}]
  <2>0. job[r][e].bad \cup {h} \in SUBSET Handlers BY <1>b DEF Job
  <2>1. k \in Job /\ k.token = job[r][e].token BY <1>b, <2>0, JobOutcome
  <2>2. job' = [job EXCEPT ![r][e] = k] BY <1>5 DEF HandlerFail
  <2>3. job[r][e].token > 0 BY <1>5 DEF HandlerFail, TokensPositive, Holds
  <2> HIDE DEF k
  <2>4. job' \in [Relays -> [Ids -> Job]] /\ TokensPositive' BY <2>1, <2>2, <2>3, <1>c
  <2>5. ran' \in [Ids -> SUBSET Handlers] BY <1>5 DEF HandlerFail, TypeOK
  <2>6. faults' \in 0..FaultBound BY <1>5, ConstantsAssumption DEF HandlerFail, Fault, TypeOK
  <2>7. QED BY <1>5, <2>4, <2>5, <2>6 DEF HandlerFail, TypeOK
<1>6. ASSUME NEW r \in Relays, NEW e \in Ids, MarkDelivered(r, e)
      PROVE TypeOK' /\ TokensPositive'
  <2>1. job[r][e].ok \in SUBSET Handlers BY <1>b DEF Job
  <2>2. DeliveredRow(row[e], job[r][e].ok) \in Row BY <1>a, <2>1, SettledTypes
  <2>3. row' \in [Ids -> Row] BY <1>a, <1>6, <2>2 DEF MarkDelivered
  <2>4. job' \in [Relays -> [Ids -> Job]] /\ TokensPositive' BY <1>6, <1>d DEF MarkDelivered
  <2>5. QED BY <1>6, <2>3, <2>4 DEF MarkDelivered, TypeOK
<1>7. ASSUME NEW r \in Relays, NEW e \in Ids, MarkFailed(r, e)
      PROVE TypeOK' /\ TokensPositive'
  <2>1. job[r][e].ok \in SUBSET Handlers /\ job[r][e].token \in Nat BY <1>b DEF Job
  <2>2. GoesDead(r, e) \in BOOLEAN BY <1>b DEF GoesDead, Job
  <2>3. \A d \in FailureDelays(r, e) :
          FailedRow(row[e], job[r][e].ok, d, GoesDead(r, e)) \in Row
    BY <1>a, <2>1, <2>2, SettledTypes, DelaysAreNat
  <2>4. row' \in [Ids -> Row] BY <1>a, <1>7, <2>3, NewRowType DEF MarkFailed
  <2>5. announced' \in [Ids -> Nat] BY <1>7 DEF MarkFailed, TypeOK
  <2>6. floor' \in [Ids -> Nat] BY <1>7, <2>1 DEF MarkFailed, TypeOK
  <2>7. job' \in [Relays -> [Ids -> Job]] /\ TokensPositive' BY <1>7, <1>d DEF MarkFailed
  <2>8. QED BY <1>7, <2>4, <2>5, <2>6, <2>7 DEF MarkFailed, TypeOK
<1>8. ASSUME NEW r \in Relays, NEW e \in Ids, Release(r, e)
      PROVE TypeOK' /\ TokensPositive'
  <2>1. Holds(r, e) BY <1>8 DEF Release, Releasing, Holds
  <2>2. LeaseMatches(r, e) => ReleasedRow(row[e]) \in Row
    BY <1>a, <2>1, ReleaseType DEF LeaseMatches, TokensPositive
  <2>3. row' \in [Ids -> Row] BY <1>a, <1>8, <2>2 DEF Release
  <2>4. job' \in [Relays -> [Ids -> Job]] /\ TokensPositive' BY <1>8, <1>d DEF Release
  <2>5. QED BY <1>8, <2>3, <2>4 DEF Release, TypeOK
<1>9. ASSUME NEW r \in Relays, NEW e \in Ids, SettleError(r, e)
      PROVE TypeOK' /\ TokensPositive'
  <2>1. \A p \in Relays, i \in Ids : job'[p][i] = job[p][i] \/ job'[p][i] = NoJob
    BY <1>a, <1>9 DEF SettleError
  <2>2. job' \in [Relays -> [Ids -> Job]] BY <1>a, <1>9, NoJobType DEF SettleError
  <2>3. TokensPositive' BY <2>1 DEF TokensPositive, Holds, NoJob
  <2>4. faults' \in 0..FaultBound BY <1>9, ConstantsAssumption DEF SettleError, Fault, TypeOK
  <2>5. QED BY <1>9, <2>2, <2>3, <2>4 DEF SettleError, TypeOK
<1>10. ASSUME NEW r \in Relays, Halt(r) PROVE TypeOK' /\ TokensPositive'
  BY <1>10, <1>e, ConstantsAssumption DEF Halt, TypeOK
<1>11. ASSUME NEW r \in Relays, AbandonInFlight(r) PROVE TypeOK' /\ TokensPositive'
  <2>1. \A i \in Ids : LET k == [job[r][i] EXCEPT !.phase = "interrupted"]
                        IN k \in Job /\ k.token = job[r][i].token
    BY <1>b, JobPhase
  <2>2. job' \in [Relays -> [Ids -> Job]] BY <1>a, <1>11, <2>1 DEF AbandonInFlight
  <2>3. ASSUME NEW p \in Relays, NEW i \in Ids, Holds(p, i)' PROVE job'[p][i].token > 0
    <3>1. CASE p = r /\ job[r][i].phase = "running" /\ Pending(r, i) # {}
      BY <1>a, <1>11, <2>1, <3>1 DEF AbandonInFlight, TokensPositive, Holds
    <3>2. CASE ~(p = r /\ job[r][i].phase = "running" /\ Pending(r, i) # {})
      <4>1. job'[p][i] = job[p][i] BY <1>a, <1>11, <3>2 DEF AbandonInFlight
      <4>2. QED BY <2>3, <4>1 DEF TokensPositive, Holds
    <3>3. QED BY <3>1, <3>2
  <2>4. QED BY <1>11, <2>2, <2>3 DEF AbandonInFlight, TypeOK, TokensPositive
<1>12. ASSUME NEW r \in Relays, Stopped(r) \/ Restart(r) PROVE TypeOK' /\ TokensPositive'
  BY <1>12, <1>e DEF Stopped, Restart, TypeOK
<1>13. ASSUME NEW r \in Relays, Crash(r) PROVE TypeOK' /\ TokensPositive'
  <2>1. \A p \in Relays, i \in Ids : job'[p][i] = job[p][i] \/ job'[p][i] = NoJob
    BY <1>a, <1>13 DEF Crash
  <2>2. job' \in [Relays -> [Ids -> Job]] BY <1>a, <1>13, NoJobType DEF Crash
  <2>3. TokensPositive' BY <2>1 DEF TokensPositive, Holds, NoJob
  <2>4. faults' \in 0..FaultBound BY <1>13, ConstantsAssumption DEF Crash, Fault, TypeOK
  <2>5. QED BY <1>13, <2>2, <2>3, <2>4 DEF Crash, TypeOK
<1>14. ASSUME NEW e \in Ids, RequeueDead(e) \/ Purge(e) PROVE TypeOK' /\ TokensPositive'
  <2>1. [row[e] EXCEPT !.next = 0] \in Row /\ [row[e] EXCEPT !.status = "purged"] \in Row
    BY <1>a, RowUpdates
  <2>2. row' \in [Ids -> Row] BY <1>a, <1>14, <2>1 DEF RequeueDead, Purge
  <2>3. QED BY <1>14, <1>e, <2>2 DEF RequeueDead, Purge, TypeOK
<1>15. ASSUME Tick PROVE TypeOK' /\ TokensPositive'
  <2>1. faults' \in 0..FaultBound BY <1>15, ConstantsAssumption DEF Tick, Fault, TypeOK
  <2>2. \A k \in Job, w \in Row :
          /\ [w EXCEPT !.next = Minus1(@)] \in Row
          /\ [k EXCEPT !.left = Minus1(@)] \in Job
          /\ [k EXCEPT !.left = Minus1(@)].token = k.token
          /\ [k EXCEPT !.left = Minus1(@)].phase = k.phase
    BY TickTypes
  <2>3. row' \in [Ids -> Row] BY <1>a, <1>15, <2>2, NoJobType DEF Tick
  <2>4. job' \in [Relays -> [Ids -> Job]] BY <1>a, <1>15, <2>2, NewRowType DEF Tick
  <2>5. ASSUME NEW p \in Relays, NEW i \in Ids
        PROVE  job'[p][i].token = job[p][i].token /\ job'[p][i].phase = job[p][i].phase
    <3>1. job'[p][i] = [job[p][i] EXCEPT !.left = Minus1(@)] BY <1>15 DEF Tick
    <3>2. QED BY <1>b, <2>2, <3>1, NewRowType
  <2>6. TokensPositive' BY <2>5 DEF TokensPositive, Holds
  <2>7. QED BY <1>15, <2>1, <2>3, <2>4, <2>6 DEF Tick, TypeOK
<1>16. ASSUME UNCHANGED vars PROVE TypeOK' /\ TokensPositive'
  BY <1>16, <1>e DEF vars, TypeOK
<1>17. ASSUME NEW r \in Relays, EmptyDrain(r) PROVE TypeOK' /\ TokensPositive'
  BY <1>16, <1>17 DEF EmptyDrain
<1>18. QED
  BY <1>1, <1>2, <1>3, <1>4, <1>5, <1>6, <1>7, <1>8, <1>9, <1>10, <1>11, <1>12, <1>13,
     <1>14, <1>15, <1>16, <1>17 DEF Next, Settle

(* Every reachable state is well typed, so a release never drives attempts  *)
(* below zero (releasedSet), whatever the constants.                        *)
THEOREM TypeCorrect == Spec => []TypeOK
<1>1. Init => TypeOK /\ TokensPositive BY TypeInit
<1>2. TypeOK /\ TokensPositive /\ [Next]_vars => (TypeOK /\ TokensPositive)' BY TypeStep
<1>3. QED BY <1>1, <1>2, PTL DEF Spec

-----------------------------------------------------------------------------
(* The inductive invariant behind fencing, lease exclusivity and fresh      *)
(* snapshots, row by row.  Its key part is the floor: the token of the last *)
(* failure written.  Releases may take attempts back down, but never below  *)
(* the floor, and nobody holds the floor itself; a holder above the floor   *)
(* claimed after that failure, so it read what the row still says.          *)
CoreAt(e) ==
    /\ floor[e] <= row[e].attempts
    /\ row[e].status = "absent" => row[e].attempts = 0
    /\ \A p \in Relays : Holds(p, e) =>
         /\ row[e].status # "absent"
         /\ job[p][e].token <= row[e].attempts
         /\ job[p][e].token # floor[e]
         /\ row[e].status = "pending" /\ job[p][e].token > floor[e] =>
              job[p][e].wasDead = row[e].dead /\ job[p][e].seen = row[e].deliveries
         /\ \A q \in Relays \ {p} : Holds(q, e) => job[p][e].token # job[q][e].token
    /\ \A p \in Relays : job[p][e].left > 0 =>
         /\ Holds(p, e) /\ LeaseMatches(p, e)
         /\ row[e].next = job[p][e].left /\ job[p][e].left <= Lease

CoreInv == \A e \in Ids : CoreAt(e)

(* A step keeps p's hold on e when it drops it, or leaves the token, the    *)
(* snapshot and the lease as they were.                                     *)
Keeps(p, e) ==
    /\ job'[p][e].phase # "none" =>
         /\ job[p][e].phase # "none"
         /\ job'[p][e].token = job[p][e].token
         /\ job'[p][e].wasDead = job[p][e].wasDead
         /\ job'[p][e].seen = job[p][e].seen
    /\ job'[p][e].left > 0 =>
         job'[p][e].left = job[p][e].left /\ job'[p][e].phase # "none"

LEMMA CoreImplies ==
    TypeOK /\ CoreInv => Fencing /\ LeaseHonoured /\ SnapshotFresh
<1> SUFFICES ASSUME TypeOK, CoreInv PROVE Fencing /\ LeaseHonoured /\ SnapshotFresh
  OBVIOUS
<1>1. \A p \in Relays, e \in Ids : job[p][e] \in Job /\ row[e] \in Row /\ floor[e] \in Nat
  BY DEF TypeOK
<1>2. \A p \in Relays, e \in Ids : job[p][e].left \in Nat /\ job[p][e].token \in Nat
  BY <1>1 DEF Job
<1>3. Fencing
  BY DEF CoreInv, CoreAt, Fencing
<1>4. LeaseHonoured
  <2>1. ASSUME NEW p \in Relays, NEW q \in Relays, NEW e \in Ids, p # q,
               job[p][e].left > 0, job[q][e].left > 0
        PROVE  FALSE
    BY <2>1 DEF CoreInv, CoreAt, LeaseMatches
  <2>2. QED BY <1>2, <2>1 DEF CoreInv, CoreAt, LeaseHonoured
<1>5. SnapshotFresh
  <2>1. ASSUME NEW p \in Relays, NEW e \in Ids, Holds(p, e), LeaseMatches(p, e)
        PROVE  job[p][e].wasDead = row[e].dead /\ job[p][e].seen = row[e].deliveries
    <3>1. /\ floor[e] <= row[e].attempts /\ job[p][e].token # floor[e]
          /\ job[p][e].token > floor[e] =>
               job[p][e].wasDead = row[e].dead /\ job[p][e].seen = row[e].deliveries
          /\ row[e].attempts = job[p][e].token
      BY <2>1 DEF CoreInv, CoreAt, LeaseMatches
    <3>2. job[p][e].token > floor[e] BY <1>1, <1>2, <3>1
    <3>3. QED BY <3>1, <3>2
  <2>2. QED BY <2>1 DEF SnapshotFresh
<1>6. QED BY <1>3, <1>4, <1>5

LEMMA CoreInit == Init => CoreInv
BY DEF Init, CoreInv, CoreAt, Holds, NoJob, NoRow

(* A row that the step does not write keeps its invariant. *)
LEMMA CoreFrame ==
    ASSUME NEW e \in Ids, CoreAt(e), row'[e] = row[e], floor'[e] = floor[e],
           \A p \in Relays : Keeps(p, e)
    PROVE  CoreAt(e)'
BY DEF CoreAt, Keeps, Holds, LeaseMatches

LEMMA KeepsSame ==
    ASSUME NEW p \in Relays, NEW e \in Ids, job'[p][e] = job[p][e], CoreAt(e)
    PROVE  Keeps(p, e)
BY DEF Keeps, CoreAt, Holds

LEMMA KeepsDropped ==
    ASSUME NEW p \in Relays, NEW e \in Ids, job'[p][e] = NoJob
    PROVE  Keeps(p, e)
BY DEF Keeps, NoJob

(* Running a handler or interrupting one changes the phase and the outcomes *)
(* of a job, nothing that the invariant speaks of.                          *)
LEMMA KeepsProgress ==
    ASSUME NEW p \in Relays, NEW e \in Ids, job[p][e] \in Job,
           job[p][e].phase # "none",
           NEW v \in {"queued", "running", "interrupted"}, NEW hs \in SUBSET Handlers,
           \/ job'[p][e] = [job[p][e] EXCEPT !.phase = v]
           \/ job'[p][e] = [job[p][e] EXCEPT !.ok = hs]
           \/ job'[p][e] = [job[p][e] EXCEPT !.bad = hs]
    PROVE  Keeps(p, e)
BY DEF Keeps, Job

(* Steps that write neither the table nor the floor, and keep every hold. *)
LEMMA CoreQuiet ==
    ASSUME CoreInv, row' = row, floor' = floor,
           \A p \in Relays, e \in Ids : Keeps(p, e)
    PROVE  CoreInv'
<1> SUFFICES ASSUME NEW e \in Ids PROVE CoreAt(e)'
  BY DEF CoreInv
<1>1. QED
  BY CoreFrame DEF CoreInv

(* The settle of relay r on row e when its guard matches nothing. *)
LEMMA CoreDrop ==
    ASSUME TypeOK, CoreInv, NEW r \in Relays, NEW e \in Ids,
           job' = [job EXCEPT ![r][e] = NoJob]
    PROVE  \A p \in Relays, i \in Ids :
             /\ Keeps(p, i)
             /\ job'[p][i] = IF p = r /\ i = e THEN NoJob ELSE job[p][i]
<1>1. job \in [Relays -> [Ids -> Job]]
  BY DEF TypeOK
<1>2. \A p \in Relays, i \in Ids :
        job'[p][i] = IF p = r /\ i = e THEN NoJob ELSE job[p][i]
  BY <1>1, NoJobType, JobSet
<1>3. QED
  BY <1>2, KeepsSame, KeepsDropped DEF CoreInv

(* Facts about a row's holders that every settle uses: the one whose token  *)
(* matches is alone at the top, and no other lease on the row still runs.   *)
LEMMA OthersBelow ==
    ASSUME TypeOK, NEW r \in Relays, NEW e \in Ids, CoreAt(e),
           Holds(r, e), LeaseMatches(r, e)
    PROVE  /\ row[e].attempts \in Nat /\ floor[e] \in Nat
           /\ floor[e] < row[e].attempts
           /\ \A q \in Relays \ {r} :
                /\ job[q][e].left = 0
                /\ Holds(q, e) => job[q][e].token < row[e].attempts
<1>1. \A p \in Relays : job[p][e] \in Job
  BY DEF TypeOK
<1>2. \A p \in Relays : job[p][e].left \in Nat /\ job[p][e].token \in Nat
  BY <1>1 DEF Job
<1>3. row[e].attempts \in Nat /\ floor[e] \in Nat
  <2>1. row[e] \in Row /\ floor[e] \in Nat BY DEF TypeOK
  <2>2. QED BY <2>1 DEF Row
<1>4. floor[e] < row[e].attempts
  BY <1>2, <1>3 DEF CoreAt, LeaseMatches
<1>5. ASSUME NEW q \in Relays \ {r}, Holds(q, e)
      PROVE  job[q][e].token < row[e].attempts
  BY <1>2, <1>3, <1>5 DEF CoreAt, LeaseMatches
<1>6. ASSUME NEW q \in Relays \ {r} PROVE job[q][e].left = 0
  BY <1>2, <1>3, <1>5, <1>6 DEF CoreAt, LeaseMatches
<1>7. QED
  BY <1>3, <1>4, <1>5, <1>6

(* A row that becomes visible has no holder and no failure behind it. *)
LEMMA CoreNewRow ==
    ASSUME TypeOK, NEW e \in Ids, CoreAt(e), row[e].status = "absent",
           row'[e] = NewRow, floor'[e] = floor[e], \A p \in Relays : Keeps(p, e)
    PROVE  CoreAt(e)'
<1>1. floor[e] \in Nat
  BY DEF TypeOK
<1>2. floor[e] = 0
  BY <1>1 DEF CoreAt
<1>3. \A p \in Relays : ~Holds(p, e)
  BY DEF CoreAt
<1>4. \A p \in Relays : job'[p][e].phase = "none" /\ ~(job'[p][e].left > 0)
  BY <1>3 DEF Keeps, Holds
<1>5. NewRow.attempts = 0 /\ NewRow.status = "pending"
  BY DEF NewRow, NoRow
<1>6. QED
  BY <1>2, <1>4, <1>5 DEF CoreAt, Holds

LEMMA CoreClaim ==
    ASSUME TypeOK, CoreInv, NEW r \in Relays, Claim(r)
    PROVE  CoreInv'
<1>1. PICK S \in SUBSET (LiveDue \cup DeadDue) :
        /\ row' = [e \in Ids |-> IF e \in S THEN ClaimedRow(row[e]) ELSE row[e]]
        /\ job' = [p \in Relays |-> [e \in Ids |->
                    IF e \notin S THEN job[p][e]
                    ELSE IF p = r THEN ClaimedJob(ClaimedRow(row[e]))
                    ELSE IF Holds(p, e) THEN [job[p][e] EXCEPT !.lost = TRUE]
                    ELSE job[p][e]]]
  BY DEF Claim
<1>2. floor' = floor /\ Idle(r)
  BY DEF Claim
<1> SUFFICES ASSUME NEW e \in Ids PROVE CoreAt(e)'
  BY DEF CoreInv
<1>3. CoreAt(e) /\ row[e] \in Row /\ floor[e] \in Nat
  BY DEF CoreInv, TypeOK
<1>4. CASE e \notin S
  <2>1. \A p \in Relays : Keeps(p, e) BY <1>1, <1>3, <1>4, KeepsSame
  <2>2. QED BY <1>1, <1>2, <1>3, <1>4, <2>1, CoreFrame
<1>5. CASE e \in S
  <2> DEFINE a == row[e].attempts
  <2>1. a \in Nat /\ Lease \in Nat BY <1>3, ConstantsAssumption DEF Row
  <2>2. row[e].status = "pending" /\ row[e].next \in {Null, 0}
    BY <1>5 DEF LiveDue, DeadDue
  <2>3. \A p \in Relays : job[p][e] \in Job BY DEF TypeOK
  <2>4. \A p \in Relays : job[p][e].token \in Nat /\ job[p][e].left \in Nat BY <2>3 DEF Job
  <2>5. \A p \in Relays : ~(job[p][e].left > 0)
    BY <1>3, <2>2, <2>4, ConstantsAssumption DEF CoreAt
  <2>6. /\ row'[e].attempts = a + 1 /\ row'[e].next = Lease
        /\ row'[e].status = "pending" /\ row'[e].dead = row[e].dead
        /\ row'[e].deliveries = row[e].deliveries
    BY <1>1, <1>3, <1>5, <2>2 DEF ClaimedRow, Row
  <2>7. /\ job'[r][e].token = a + 1 /\ job'[r][e].phase = "queued"
        /\ job'[r][e].wasDead = row[e].dead /\ job'[r][e].seen = row[e].deliveries
        /\ job'[r][e].left = Lease
    <3>1. job'[r][e] = ClaimedJob(row'[e]) BY <1>1, <1>5
    <3>2. QED BY <2>6, <3>1 DEF ClaimedJob, NoJob
  <2>8. \A p \in Relays \ {r} :
          /\ job'[p][e].token = job[p][e].token /\ job'[p][e].phase = job[p][e].phase
          /\ job'[p][e].wasDead = job[p][e].wasDead /\ job'[p][e].seen = job[p][e].seen
          /\ job'[p][e].left = job[p][e].left
    <3>1. \A p \in Relays \ {r} : \/ job'[p][e] = job[p][e]
                                   \/ job'[p][e] = [job[p][e] EXCEPT !.lost = TRUE]
      BY <1>1, <1>5
    <3>2. ASSUME NEW p \in Relays \ {r}
          PROVE  /\ job'[p][e].token = job[p][e].token /\ job'[p][e].phase = job[p][e].phase
                 /\ job'[p][e].wasDead = job[p][e].wasDead /\ job'[p][e].seen = job[p][e].seen
                 /\ job'[p][e].left = job[p][e].left
      <4>1. job[p][e] \in Job BY <2>3
      <4>2. CASE job'[p][e] = job[p][e] BY <4>2
      <4>3. CASE job'[p][e] = [job[p][e] EXCEPT !.lost = TRUE] BY <4>1, <4>3 DEF Job
      <4>4. QED BY <3>1, <4>2, <4>3
    <3>3. QED BY <3>2
  <2>9. floor'[e] = floor[e] BY <1>2
  <2>10. \A p \in Relays \ {r} : Holds(p, e)' => Holds(p, e) /\ job'[p][e].token <= a
    BY <1>3, <2>8 DEF CoreAt, Holds
  <2>11. ASSUME NEW p \in Relays, Holds(p, e)'
         PROVE  /\ job'[p][e].token <= row'[e].attempts
                /\ job'[p][e].token # floor'[e]
                /\ row'[e].status = "pending" /\ job'[p][e].token > floor'[e] =>
                     job'[p][e].wasDead = row'[e].dead /\ job'[p][e].seen = row'[e].deliveries
                /\ \A q \in Relays \ {p} : Holds(q, e)' => job'[p][e].token # job'[q][e].token
    <3>1. CASE p = r
      BY <3>1, <1>3, <2>1, <2>4, <2>6, <2>7, <2>8, <2>9, <2>10 DEF CoreAt
    <3>2. CASE p # r
      BY <3>2, <1>3, <2>1, <2>2, <2>4, <2>6, <2>7, <2>8, <2>9, <2>10, <2>11 DEF CoreAt
    <3>3. QED BY <3>1, <3>2
  <2>12. ASSUME NEW p \in Relays, job'[p][e].left > 0
         PROVE  p = r
    BY <2>5, <2>8, <2>12
  <2>13. QED
    BY <1>3, <2>1, <2>6, <2>7, <2>9, <2>11, <2>12 DEF CoreAt, Holds, LeaseMatches
<1>6. QED
  BY <1>4, <1>5

LEMMA CoreMarkDelivered ==
    ASSUME TypeOK, CoreInv, NEW r \in Relays, NEW e \in Ids, MarkDelivered(r, e)
    PROVE  CoreInv'
<1>1. \A p \in Relays, i \in Ids :
        /\ Keeps(p, i)
        /\ job'[p][i] = IF p = r /\ i = e THEN NoJob ELSE job[p][i]
  BY CoreDrop DEF MarkDelivered
<1>2. floor' = floor
  BY DEF MarkDelivered
<1>3. CASE ~LeaseMatches(r, e)
  BY <1>1, <1>2, <1>3, CoreQuiet DEF MarkDelivered
<1>4. CASE LeaseMatches(r, e)
  <2> SUFFICES ASSUME NEW i \in Ids PROVE CoreAt(i)'
    BY DEF CoreInv
  <2>1. row \in [Ids -> Row] BY DEF TypeOK
  <2>2. CoreAt(i) BY DEF CoreInv
  <2>3. CASE i # e
    <3>1. row'[i] = row[i] BY <1>4, <2>1, <2>3 DEF MarkDelivered
    <3>2. QED BY <1>1, <1>2, <2>2, <3>1, CoreFrame
  <2>4. CASE i = e
    <3>1. Holds(r, e) BY DEF MarkDelivered, Finished, Holds
    <3>2. \A q \in Relays \ {r} : job[q][e].left = 0
      BY <1>4, <2>2, <2>4, <3>1, OthersBelow
    <3>3. row'[e].status = "dispatched" /\ row'[e].attempts = row[e].attempts
      BY <1>4, <2>1 DEF MarkDelivered, DeliveredRow, Row
    <3>4. \A p \in Relays : ~(job'[p][e].left > 0)
      BY <1>1, <3>2 DEF NoJob
    <3>5. ~Holds(r, e)'
      BY <1>1 DEF Holds, NoJob
    <3>6. QED
      BY <1>1, <1>2, <2>2, <2>4, <3>3, <3>4, <3>5 DEF CoreAt, Holds
  <2>5. QED BY <2>3, <2>4
<1>5. QED
  BY <1>3, <1>4

LEMMA CoreMarkFailed ==
    ASSUME TypeOK, CoreInv, NEW r \in Relays, NEW e \in Ids, MarkFailed(r, e)
    PROVE  CoreInv'
<1>1. \A p \in Relays, i \in Ids :
        /\ Keeps(p, i)
        /\ job'[p][i] = IF p = r /\ i = e THEN NoJob ELSE job[p][i]
  BY CoreDrop DEF MarkFailed
<1>2. PICK d \in FailureDelays(r, e) :
        row' = [i \in Ids |->
           CASE i = e /\ LeaseMatches(r, e) ->
                  FailedRow(row[i], job[r][e].ok, d, GoesDead(r, e))
             [] i # e /\ Announces(r, e) /\ i = Notice(e) /\ row[i].status = "absent" -> NewRow
             [] OTHER -> row[i]]
  BY DEF MarkFailed
<1>3. floor' = [floor EXCEPT ![e] = IF LeaseMatches(r, e) THEN job[r][e].token ELSE @]
  BY DEF MarkFailed
<1>4. row \in [Ids -> Row] /\ floor \in [Ids -> Nat]
  BY DEF TypeOK
<1> SUFFICES ASSUME NEW i \in Ids PROVE CoreAt(i)'
  BY DEF CoreInv
<1>5. CoreAt(i)
  BY DEF CoreInv
<1>6. CASE i # e
  <2>1. floor'[i] = floor[i] BY <1>3, <1>4, <1>6
  <2>2. \/ row'[i] = row[i]
        \/ row[i].status = "absent" /\ row'[i] = NewRow
    BY <1>2, <1>6
  <2>3. QED BY <1>1, <1>5, <2>1, <2>2, CoreFrame, CoreNewRow
<1>7. CASE i = e /\ ~LeaseMatches(r, e)
  <2>1. row'[i] = row[i] /\ floor'[i] = floor[i] BY <1>2, <1>3, <1>4, <1>7
  <2>2. QED BY <1>1, <1>5, <2>1, CoreFrame
<1>8. CASE i = e /\ LeaseMatches(r, e)
  <2>1. Holds(r, e) BY DEF MarkFailed, Finished, Holds
  <2>2. /\ row[e].attempts \in Nat
        /\ \A q \in Relays \ {r} :
             /\ job[q][e].left = 0
             /\ Holds(q, e) => job[q][e].token < row[e].attempts
    BY <1>5, <1>8, <2>1, OthersBelow
  <2>3. row'[e] = FailedRow(row[e], job[r][e].ok, d, GoesDead(r, e))
    BY <1>2, <1>8
  <2>4. row'[e].attempts = row[e].attempts /\ row'[e].status = "pending"
    BY <1>4, <1>8, <2>3 DEF FailedRow, Row, LeaseMatches
  <2>5. floor'[e] = row[e].attempts
    BY <1>3, <1>4, <1>8 DEF LeaseMatches
  <2>6. \A p \in Relays : ~(job'[p][e].left > 0)
    BY <1>1, <2>2 DEF NoJob
  <2>7. ~Holds(r, e)'
    BY <1>1 DEF Holds, NoJob
  <2>8. \A q \in Relays \ {r} : job'[q][e] = job[q][e]
    BY <1>1
  <2>9. \A q \in Relays : Holds(q, e)' => q # r /\ Holds(q, e)
    BY <2>7, <2>8 DEF Holds
  <2>10. \A q \in Relays : job[q][e].token \in Nat
    <3>1. \A q \in Relays : job[q][e] \in Job BY DEF TypeOK
    <3>2. QED BY <3>1 DEF Job
  <2>11. QED
    BY <1>5, <1>8, <2>2, <2>4, <2>5, <2>6, <2>8, <2>9, <2>10 DEF CoreAt
<1>9. QED
  BY <1>6, <1>7, <1>8

LEMMA CoreRelease ==
    ASSUME TypeOK, CoreInv, NEW r \in Relays, NEW e \in Ids, Release(r, e)
    PROVE  CoreInv'
<1>1. \A p \in Relays, i \in Ids :
        /\ Keeps(p, i)
        /\ job'[p][i] = IF p = r /\ i = e THEN NoJob ELSE job[p][i]
  BY CoreDrop DEF Release
<1>2. floor' = floor
  BY DEF Release
<1>3. CASE ~LeaseMatches(r, e)
  BY <1>1, <1>2, <1>3, CoreQuiet DEF Release
<1>4. CASE LeaseMatches(r, e)
  <2> SUFFICES ASSUME NEW i \in Ids PROVE CoreAt(i)'
    BY DEF CoreInv
  <2>1. row \in [Ids -> Row] BY DEF TypeOK
  <2>2. CoreAt(i) BY DEF CoreInv
  <2>3. CASE i # e
    <3>1. row'[i] = row[i] BY <1>4, <2>1, <2>3 DEF Release
    <3>2. QED BY <1>1, <1>2, <2>2, <3>1, CoreFrame
  <2>4. CASE i = e
    <3>1. Holds(r, e) BY DEF Release, Releasing, Holds
    <3>2. /\ row[e].attempts \in Nat /\ floor[e] \in Nat
          /\ floor[e] < row[e].attempts
          /\ \A q \in Relays \ {r} :
               /\ job[q][e].left = 0
               /\ Holds(q, e) => job[q][e].token < row[e].attempts
      BY <1>4, <2>2, <2>4, <3>1, OthersBelow
    <3>3. /\ row'[e].status = "pending" /\ row'[e].attempts = row[e].attempts - 1
          /\ row'[e].dead = row[e].dead /\ row'[e].deliveries = row[e].deliveries
      BY <1>4, <2>1 DEF Release, ReleasedRow, Row, LeaseMatches
    <3>4. \A p \in Relays : ~(job'[p][e].left > 0)
      BY <1>1, <3>2 DEF NoJob
    <3>5. ~Holds(r, e)'
      BY <1>1 DEF Holds, NoJob
    <3>6. \A q \in Relays \ {r} : job'[q][e] = job[q][e]
      BY <1>1
    <3>7. \A q \in Relays : Holds(q, e)' => q # r /\ Holds(q, e)
      BY <3>5, <3>6 DEF Holds
    <3>8. \A q \in Relays : job[q][e].token \in Nat
      <4>1. \A q \in Relays : job[q][e] \in Job BY DEF TypeOK
      <4>2. QED BY <4>1 DEF Job
    <3>9. row[e].status = "pending" BY <1>4 DEF LeaseMatches
    <3>10. floor'[e] = floor[e] BY <1>2
    <3>11. QED
      BY <2>2, <2>4, <3>2, <3>3, <3>4, <3>6, <3>7, <3>8, <3>9, <3>10 DEF CoreAt
  <2>5. QED BY <2>3, <2>4
<1>5. QED
  BY <1>3, <1>4

(* The requeue guard: a row whose lease still runs is at most one lease     *)
(* away, so nothing that is being replayed is made due.                     *)
LEMMA CoreRequeueOrPurge ==
    ASSUME TypeOK, CoreInv, NEW e \in Ids, RequeueDead(e) \/ Purge(e)
    PROVE  CoreInv'
<1>1. job' = job /\ floor' = floor
  BY DEF RequeueDead, Purge
<1>2. row \in [Ids -> Row]
  BY DEF TypeOK
<1> SUFFICES ASSUME NEW i \in Ids PROVE CoreAt(i)'
  BY DEF CoreInv
<1>3. CoreAt(i)
  BY DEF CoreInv
<1>4. CASE i # e
  <2>1. row'[i] = row[i] BY <1>2, <1>4 DEF RequeueDead, Purge
  <2>2. \A p \in Relays : Keeps(p, i) BY <1>1, <1>3, KeepsSame
  <2>3. QED BY <1>1, <1>3, <2>1, <2>2, CoreFrame
<1>5. CASE i = e
  <2>1. \A p \in Relays : ~(job[p][e].left > 0)
    <3>1. \A p \in Relays : job[p][e] \in Job BY DEF TypeOK
    <3>2. \A p \in Relays : job[p][e].left \in Nat BY <3>1 DEF Job
    <3>3. CASE RequeueDead(e)
      <4>1. row[e].next \in Nat /\ row[e].next > Lease
        BY <1>2, <3>3 DEF RequeueDead, Requeueable, Row
      <4>2. QED BY <1>3, <1>5, <3>2, <4>1, ConstantsAssumption DEF CoreAt
    <3>4. CASE Purge(e)
      BY <1>3, <1>5, <3>4 DEF Purge, Purgeable, CoreAt, LeaseMatches
    <3>5. QED BY <3>3, <3>4
  <2>2. CASE RequeueDead(e)
    <3>1. /\ row'[e].status = row[e].status /\ row'[e].attempts = row[e].attempts
          /\ row'[e].dead = row[e].dead /\ row'[e].deliveries = row[e].deliveries
      BY <1>2, <2>2 DEF RequeueDead, Row
    <3>2. QED BY <1>1, <1>3, <1>5, <2>1, <3>1 DEF CoreAt, Holds
  <2>3. CASE Purge(e)
    <3>1. row'[e].status = "purged" /\ row'[e].attempts = row[e].attempts
      BY <1>2, <2>3 DEF Purge, Row
    <3>2. QED BY <1>1, <1>3, <1>5, <2>1, <3>1 DEF CoreAt, Holds
  <2>4. QED BY <2>2, <2>3
<1>6. QED
  BY <1>4, <1>5

LEMMA CoreTick ==
    ASSUME TypeOK, CoreInv, Tick
    PROVE  CoreInv'
<1> SUFFICES ASSUME NEW e \in Ids PROVE CoreAt(e)'
  BY DEF CoreInv
<1>1. CoreAt(e) /\ row[e] \in Row /\ \A p \in Relays : job[p][e] \in Job
  BY DEF CoreInv, TypeOK
<1>2. row'[e] = [row[e] EXCEPT !.next = Minus1(@)] /\ floor' = floor
  BY DEF Tick
<1>3. \A p \in Relays : job'[p][e] = [job[p][e] EXCEPT !.left = Minus1(@)]
  BY DEF Tick
<1>4. /\ row'[e].status = row[e].status /\ row'[e].attempts = row[e].attempts
      /\ row'[e].dead = row[e].dead /\ row'[e].deliveries = row[e].deliveries
      /\ row'[e].next = Minus1(row[e].next)
  BY <1>1, <1>2 DEF Row
<1>5. \A p \in Relays :
        /\ job'[p][e].phase = job[p][e].phase /\ job'[p][e].token = job[p][e].token
        /\ job'[p][e].wasDead = job[p][e].wasDead /\ job'[p][e].seen = job[p][e].seen
        /\ job'[p][e].left = Minus1(job[p][e].left)
  BY <1>1, <1>3 DEF Job
<1>6. \A p \in Relays : job[p][e].left \in Nat
  BY <1>1 DEF Job
<1>7. ASSUME NEW p \in Relays, job'[p][e].left > 0
      PROVE  /\ Holds(p, e)' /\ LeaseMatches(p, e)'
             /\ row'[e].next = job'[p][e].left /\ job'[p][e].left <= Lease
  <2>1. job[p][e].left > 0 /\ job'[p][e].left = job[p][e].left - 1
    BY <1>5, <1>6, <1>7 DEF Minus1
  <2>2. Holds(p, e) /\ LeaseMatches(p, e) /\ row[e].next = job[p][e].left
        /\ job[p][e].left <= Lease
    BY <1>1, <2>1 DEF CoreAt
  <2>3. row'[e].next = job'[p][e].left
    BY <1>4, <1>5, <2>2
  <2>4. job'[p][e].left <= Lease
    BY <1>6, <2>1, <2>2, ConstantsAssumption
  <2>5. QED
    BY <1>4, <1>5, <2>2, <2>3, <2>4 DEF Holds, LeaseMatches
<1>8. QED
  BY <1>1, <1>2, <1>4, <1>5, <1>7 DEF CoreAt, Holds

LEMMA CoreStep == TypeOK /\ CoreInv /\ [Next]_vars => CoreInv'
<1> SUFFICES ASSUME TypeOK, CoreInv, [Next]_vars PROVE CoreInv'
  OBVIOUS
<1>a. job \in [Relays -> [Ids -> Job]] /\ row \in [Ids -> Row]
  BY DEF TypeOK
<1>b. \A i \in Ids : CoreAt(i) /\ \A p \in Relays : job[p][i] \in Job
  BY <1>a DEF CoreInv
<1>c. ASSUME row' = row, floor' = floor, job' = job PROVE CoreInv'
  BY <1>b, <1>c, KeepsSame, CoreQuiet
<1>d. ASSUME row' = row, floor' = floor,
             \A p \in Relays, i \in Ids : job'[p][i] = job[p][i] \/ job'[p][i] = NoJob
      PROVE  CoreInv'
  BY <1>b, <1>d, KeepsSame, KeepsDropped, CoreQuiet
<1>1. ASSUME NEW e \in Events, Enqueue(e) PROVE CoreInv'
  <2> SUFFICES ASSUME NEW i \in Ids PROVE CoreAt(i)'
    BY DEF CoreInv
  <2>1. \A p \in Relays : Keeps(p, i) BY <1>1, <1>b, KeepsSame DEF Enqueue
  <2>2. floor'[i] = floor[i] /\ CoreAt(i) BY <1>1, <1>b DEF Enqueue
  <2>3. CASE i = e
    <3>1. row[i].status = "absent" /\ row'[i] = NewRow BY <1>1, <1>a, <2>3 DEF Enqueue
    <3>2. QED BY <2>1, <2>2, <3>1, CoreNewRow
  <2>4. CASE i # e
    <3>1. row'[i] = row[i] BY <1>1, <1>a, <2>4 DEF Enqueue
    <3>2. QED BY <2>1, <2>2, <3>1, CoreFrame
  <2>5. QED BY <2>3, <2>4
<1>2. ASSUME NEW r \in Relays, Claim(r) PROVE CoreInv'
  BY <1>2, CoreClaim
<1>3. ASSUME NEW r \in Relays, NEW e \in Ids, Start(r, e) PROVE CoreInv'
  <2>1. \A p \in Relays, i \in Ids :
          \/ job'[p][i] = job[p][i]
          \/ job[p][i].phase # "none" /\ job'[p][i] = [job[p][i] EXCEPT !.phase = "running"]
    BY <1>a, <1>3 DEF Start
  <2>2. ASSUME NEW p \in Relays, NEW i \in Ids PROVE Keeps(p, i)
    <3>1. CASE job'[p][i] = job[p][i] BY <1>b, <3>1, KeepsSame
    <3>2. CASE job[p][i].phase # "none" /\ job'[p][i] = [job[p][i] EXCEPT !.phase = "running"]
      BY <1>b, <3>2, KeepsProgress
    <3>3. QED BY <2>1, <3>1, <3>2
  <2>3. QED BY <1>3, <2>2, CoreQuiet DEF Start
<1>4. ASSUME NEW r \in Relays, NEW e \in Ids, NEW h \in Handlers, HandlerOk(r, e, h)
      PROVE CoreInv'
  <2>1. \A p \in Relays, i \in Ids :
          \/ job'[p][i] = job[p][i]
          \/ /\ job[p][i].phase # "none"
             /\ job'[p][i] = [job[p][i] EXCEPT !.ok = job[r][e].ok \cup {h}]
    BY <1>a, <1>4 DEF HandlerOk
  <2>2. job[r][e].ok \cup {h} \in SUBSET Handlers BY <1>b DEF Job
  <2>3. ASSUME NEW p \in Relays, NEW i \in Ids PROVE Keeps(p, i)
    <3>1. CASE job'[p][i] = job[p][i] BY <1>b, <3>1, KeepsSame
    <3>2. CASE /\ job[p][i].phase # "none"
               /\ job'[p][i] = [job[p][i] EXCEPT !.ok = job[r][e].ok \cup {h}]
      BY <1>b, <2>2, <3>2, KeepsProgress
    <3>3. QED BY <2>1, <3>1, <3>2
  <2>4. QED BY <1>4, <2>3, CoreQuiet DEF HandlerOk
<1>5. ASSUME NEW r \in Relays, NEW e \in Ids, NEW h \in Handlers, HandlerFail(r, e, h)
      PROVE CoreInv'
  <2>1. \A p \in Relays, i \in Ids :
          \/ job'[p][i] = job[p][i]
          \/ /\ job[p][i].phase # "none"
             /\ job'[p][i] = [job[p][i] EXCEPT !.bad = job[r][e].bad \cup {h}]
    BY <1>a, <1>5 DEF HandlerFail
  <2>2. job[r][e].bad \cup {h} \in SUBSET Handlers BY <1>b DEF Job
  <2>3. ASSUME NEW p \in Relays, NEW i \in Ids PROVE Keeps(p, i)
    <3>1. CASE job'[p][i] = job[p][i] BY <1>b, <3>1, KeepsSame
    <3>2. CASE /\ job[p][i].phase # "none"
               /\ job'[p][i] = [job[p][i] EXCEPT !.bad = job[r][e].bad \cup {h}]
      BY <1>b, <2>2, <3>2, KeepsProgress
    <3>3. QED BY <2>1, <3>1, <3>2
  <2>4. QED BY <1>5, <2>3, CoreQuiet DEF HandlerFail
<1>6. ASSUME NEW r \in Relays, NEW e \in Ids, Settle(r, e) PROVE CoreInv'
  BY <1>6, CoreMarkDelivered, CoreMarkFailed, CoreRelease DEF Settle
<1>7. ASSUME NEW r \in Relays, NEW e \in Ids, SettleError(r, e) PROVE CoreInv'
  BY <1>7, <1>a, <1>d DEF SettleError
<1>8. ASSUME NEW r \in Relays, Halt(r) \/ Stopped(r) \/ Restart(r) PROVE CoreInv'
  BY <1>8, <1>c DEF Halt, Stopped, Restart
<1>9. ASSUME NEW r \in Relays, AbandonInFlight(r) PROVE CoreInv'
  <2>1. \A p \in Relays, i \in Ids :
          \/ job'[p][i] = job[p][i]
          \/ /\ job[p][i].phase # "none"
             /\ job'[p][i] = [job[p][i] EXCEPT !.phase = "interrupted"]
    BY <1>a, <1>9 DEF AbandonInFlight
  <2>2. ASSUME NEW p \in Relays, NEW i \in Ids PROVE Keeps(p, i)
    <3>1. CASE job'[p][i] = job[p][i] BY <1>b, <3>1, KeepsSame
    <3>2. CASE /\ job[p][i].phase # "none"
               /\ job'[p][i] = [job[p][i] EXCEPT !.phase = "interrupted"]
      BY <1>b, <3>2, KeepsProgress
    <3>3. QED BY <2>1, <3>1, <3>2
  <2>3. QED BY <1>9, <2>2, CoreQuiet DEF AbandonInFlight
<1>10. ASSUME NEW r \in Relays, Crash(r) PROVE CoreInv'
  BY <1>10, <1>a, <1>d DEF Crash
<1>11. ASSUME NEW e \in Ids, RequeueDead(e) \/ Purge(e) PROVE CoreInv'
  BY <1>11, CoreRequeueOrPurge
<1>12. ASSUME Tick PROVE CoreInv'
  BY <1>12, CoreTick
<1>13. ASSUME UNCHANGED vars PROVE CoreInv'
  BY <1>13, <1>c DEF vars
<1>14. ASSUME NEW r \in Relays, EmptyDrain(r) PROVE CoreInv'
  BY <1>13, <1>14 DEF EmptyDrain
<1>15. QED
  BY <1>1, <1>2, <1>3, <1>4, <1>5, <1>6, <1>7, <1>8, <1>9, <1>10, <1>11, <1>12, <1>13, <1>14
     DEF Next

(* The lease protocol is safe for any number of relays, rows and faults:    *)
(* tokens of concurrent holders differ, a running lease is exclusive and    *)
(* certain to settle, and a settle that gets through acts on fresh data,    *)
(* although releases let attempt numbers be used twice (lease.ts).          *)
THEOREM LeaseProtocolSafe == Spec => [](Fencing /\ LeaseHonoured /\ SnapshotFresh)
<1> DEFINE Ind == TypeOK /\ TokensPositive /\ CoreInv
<1>1. Init => Ind BY TypeInit, CoreInit
<1>2. Ind /\ [Next]_vars => Ind' BY TypeStep, CoreStep
<1>3. Ind => Fencing /\ LeaseHonoured /\ SnapshotFresh BY CoreImplies
<1>4. QED BY <1>1, <1>2, <1>3, PTL DEF Spec

(* Two holders of one row never carry the same token (leasedBy).            *)
THEOREM TokensFence == Spec => []Fencing
BY LeaseProtocolSafe, PTL

(* What a matching settle read at claim time still holds (releasedSet).     *)
THEOREM SettlesAreFresh == Spec => []SnapshotFresh
BY LeaseProtocolSafe, PTL

-----------------------------------------------------------------------------
(* An event is marked dispatched only when the handlers of some process     *)
(* all had it.                                                              *)

(* Deliveries recorded in a row, or about to be, took effect.  Inductive    *)
(* with SnapshotFresh: the handlers a relay skipped are the row's.          *)
HandledAt(e) ==
    /\ row[e].deliveries \subseteq ran[e]
    /\ \A p \in Relays : job[p][e].ok \subseteq ran[e]
    /\ row[e].status \in {"dispatched", "purged"} =>
         \E r \in Relays : Subscribed[r] # {} /\ Subscribed[r] \subseteq row[e].deliveries

HandledInv == \A e \in Ids : HandledAt(e)

LEMMA HandledInit == Init => HandledInv
BY DEF Init, HandledInv, HandledAt, NoRow, NoJob

(* What a step that settles nothing does to e: it drops outcomes with their *)
(* job, or adds one that took effect.                                       *)
HandledKept(e) ==
    /\ ran[e] \subseteq ran'[e]
    /\ row'[e].deliveries = row[e].deliveries
    /\ \/ row'[e].status = row[e].status
       \/ row[e].status = "dispatched" /\ row'[e].status = "purged"
    /\ \A p \in Relays : job'[p][e].ok \subseteq job[p][e].ok \cup ran'[e]

LEMMA HandledFrame ==
    ASSUME NEW e \in Ids, HandledAt(e), HandledKept(e)
    PROVE  HandledAt(e)'
<1>1. row'[e].deliveries \subseteq ran'[e]
  BY DEF HandledAt, HandledKept
<1>2. \A p \in Relays : job'[p][e].ok \subseteq ran'[e]
  BY DEF HandledAt, HandledKept
<1>3. row'[e].status \in {"dispatched", "purged"} =>
        \E r \in Relays : Subscribed[r] # {} /\ Subscribed[r] \subseteq row'[e].deliveries
  BY DEF HandledAt, HandledKept
<1>4. QED
  BY <1>1, <1>2, <1>3 DEF HandledAt

LEMMA HandledQuiet ==
    ASSUME HandledInv, \A e \in Ids : HandledKept(e)
    PROVE  HandledInv'
BY HandledFrame DEF HandledInv

LEMMA RowDeliveries ==
    ASSUME NEW w \in Row, NEW n
    PROVE  /\ ClaimedRow(w).deliveries = w.deliveries /\ ClaimedRow(w).status = w.status
           /\ ReleasedRow(w).deliveries = w.deliveries /\ ReleasedRow(w).status = w.status
           /\ [w EXCEPT !.next = n].deliveries = w.deliveries
           /\ [w EXCEPT !.next = n].status = w.status
           /\ [w EXCEPT !.status = n].deliveries = w.deliveries
           /\ [w EXCEPT !.status = n].status = n
BY DEF ClaimedRow, ReleasedRow, Row

LEMMA DeliveredDeliveries ==
    ASSUME NEW w \in Row, NEW ok
    PROVE  DeliveredRow(w, ok).deliveries = w.deliveries \cup ok
BY DEF DeliveredRow, Row

LEMMA JobOk ==
    ASSUME NEW k \in Job, NEW v
    PROVE  /\ [k EXCEPT !.phase = v].ok = k.ok /\ [k EXCEPT !.left = v].ok = k.ok
           /\ [k EXCEPT !.lost = v].ok = k.ok /\ [k EXCEPT !.bad = v].ok = k.ok
           /\ [k EXCEPT !.ok = v].ok = v
BY DEF Job

LEMMA EmptyOk == NoJob.ok = {} /\ \A w : ClaimedJob(w).ok = {}
BY DEF NoJob, ClaimedJob

(* Dropping one job, the end of every settle. *)
LEMMA DroppedOk ==
    ASSUME TypeOK, NEW r \in Relays, NEW e \in Ids, job' = [job EXCEPT ![r][e] = NoJob]
    PROVE  \A p \in Relays, i \in Ids : job'[p][i].ok \subseteq job[p][i].ok
<1>1. \A p \in Relays, i \in Ids :
        job'[p][i] = IF p = r /\ i = e THEN NoJob ELSE job[p][i]
  BY NoJobType, JobSet DEF TypeOK
<1>2. QED
  BY <1>1, EmptyOk

LEMMA HandledClaim ==
    ASSUME TypeOK, HandledInv, NEW r \in Relays, Claim(r)
    PROVE  HandledInv'
<1>1. PICK S \in SUBSET (LiveDue \cup DeadDue) :
         /\ row' = [e \in Ids |-> IF e \in S THEN ClaimedRow(row[e]) ELSE row[e]]
         /\ job' = [p \in Relays |-> [e \in Ids |->
                      IF e \notin S THEN job[p][e]
                      ELSE IF p = r THEN ClaimedJob(ClaimedRow(row[e]))
                      ELSE IF Holds(p, e) THEN [job[p][e] EXCEPT !.lost = TRUE]
                      ELSE job[p][e]]]
  BY DEF Claim
<1>2. SUFFICES ASSUME NEW e \in Ids PROVE HandledKept(e)
  BY HandledQuiet
<1>3. row[e] \in Row /\ ran' = ran
  BY DEF Claim, TypeOK
<1>4. row'[e] = IF e \in S THEN ClaimedRow(row[e]) ELSE row[e]
  BY <1>1
<1>5. row'[e].deliveries = row[e].deliveries /\ row'[e].status = row[e].status
  BY <1>3, <1>4, RowDeliveries
<1>6. ASSUME NEW p \in Relays PROVE job'[p][e].ok \subseteq job[p][e].ok
  <2>1. job[p][e] \in Job
    BY DEF TypeOK
  <2>2. job'[p][e] = IF e \notin S THEN job[p][e]
                     ELSE IF p = r THEN ClaimedJob(ClaimedRow(row[e]))
                     ELSE IF Holds(p, e) THEN [job[p][e] EXCEPT !.lost = TRUE]
                     ELSE job[p][e]
    BY <1>1
  <2>3. [job[p][e] EXCEPT !.lost = TRUE].ok = job[p][e].ok
    BY <2>1, JobOk
  <2>4. QED
    BY <2>2, <2>3, EmptyOk
<1>7. QED
  BY <1>3, <1>5, <1>6 DEF HandledKept

(* The handlers that succeeded join the row as they leave the job. *)
LEMMA HandledMarkDelivered ==
    ASSUME TypeOK, SnapshotFresh, HandledInv, NEW r \in Relays, NEW e \in Ids,
           MarkDelivered(r, e)
    PROVE  HandledInv'
<1>1. /\ row' = IF LeaseMatches(r, e) THEN [row EXCEPT ![e] = DeliveredRow(@, job[r][e].ok)] ELSE row
      /\ job' = [job EXCEPT ![r][e] = NoJob] /\ ran' = ran
      /\ row \in [Ids -> Row]
  BY DEF MarkDelivered, TypeOK
<1>2. \A p \in Relays, i \in Ids : job'[p][i].ok \subseteq job[p][i].ok
  BY <1>1, DroppedOk
<1>3. ASSUME NEW i \in Ids, i # e \/ ~LeaseMatches(r, e) PROVE HandledAt(i)'
  <2>1. row'[i] = row[i]
    BY <1>1, <1>3
  <2>2. HandledKept(i)
    BY <1>1, <1>2, <2>1 DEF HandledKept
  <2>3. QED
    BY <2>2, HandledFrame DEF HandledInv
<1>4. ASSUME LeaseMatches(r, e) PROVE HandledAt(e)'
  <2>1. row'[e] = DeliveredRow(row[e], job[r][e].ok)
    BY <1>1, <1>4
  <2>2. row'[e].deliveries = row[e].deliveries \cup job[r][e].ok
    BY <1>1, <2>1, DeliveredDeliveries
  <2>3. HandledAt(e)
    BY DEF HandledInv
  <2>4. Holds(r, e) /\ Pending(r, e) = {} /\ Subscribed[r] # {} /\ job[r][e].bad = {}
    BY DEF MarkDelivered, Finished, Holds, FailedDelivery
  <2>5. job[r][e].seen = row[e].deliveries
    BY <1>4, <2>4 DEF SnapshotFresh
  <2>6. Subscribed[r] \subseteq row'[e].deliveries
    BY <2>2, <2>4, <2>5 DEF Pending
  <2>7. row'[e].deliveries \subseteq ran'[e]
    BY <1>1, <2>2, <2>3 DEF HandledAt
  <2>8. \A p \in Relays : job'[p][e].ok \subseteq ran'[e]
    BY <1>1, <1>2, <2>3 DEF HandledAt
  <2>9. QED
    BY <2>4, <2>6, <2>7, <2>8 DEF HandledAt
<1>5. QED
  BY <1>3, <1>4 DEF HandledInv

LEMMA HandledMarkFailed ==
    ASSUME TypeOK, HandledInv, NEW r \in Relays, NEW e \in Ids, MarkFailed(r, e)
    PROVE  HandledInv'
<1>1. PICK d \in FailureDelays(r, e) :
        row' = [i \in Ids |->
           CASE i = e /\ LeaseMatches(r, e) ->
                  FailedRow(row[i], job[r][e].ok, d, GoesDead(r, e))
             [] i # e /\ Announces(r, e) /\ i = Notice(e) /\ row[i].status = "absent" -> NewRow
             [] OTHER -> row[i]]
  BY DEF MarkFailed
<1>2. /\ job' = [job EXCEPT ![r][e] = NoJob] /\ ran' = ran
      /\ row \in [Ids -> Row]
  BY DEF MarkFailed, TypeOK
<1>3. \A p \in Relays, i \in Ids : job'[p][i].ok \subseteq job[p][i].ok
  BY <1>2, DroppedOk
<1>4. SUFFICES ASSUME NEW i \in Ids PROVE HandledAt(i)'
  BY DEF HandledInv
<1>5. HandledAt(i)
  BY DEF HandledInv
<1>6. CASE row'[i] = row[i]
  <2>1. HandledKept(i)
    BY <1>2, <1>3, <1>6 DEF HandledKept
  <2>2. QED
    BY <1>5, <2>1, HandledFrame
<1>7. \A p \in Relays : job'[p][i].ok \subseteq ran'[i]
  BY <1>2, <1>3, <1>5 DEF HandledAt
<1>8. CASE row'[i] = NewRow
  <2>1. row'[i].deliveries = {} /\ row'[i].status = "pending"
    BY <1>8 DEF NewRow, NoRow
  <2>2. QED
    BY <1>7, <2>1 DEF HandledAt
<1>9. CASE i = e /\ LeaseMatches(r, e)
  <2>1. row'[e] = FailedRow(row[e], job[r][e].ok, d, GoesDead(r, e))
    BY <1>1, <1>9
  <2>2. row'[e].deliveries = row[e].deliveries \cup job[r][e].ok /\ row'[e].status = "pending"
    BY <1>2, <1>9, <2>1 DEF FailedRow, Row, LeaseMatches
  <2>3. row'[e].deliveries \subseteq ran'[e]
    BY <1>2, <1>5, <1>9, <2>2 DEF HandledAt
  <2>4. QED
    BY <1>7, <1>9, <2>2, <2>3 DEF HandledAt
<1>10. QED
  BY <1>1, <1>6, <1>8, <1>9

(* A handler that reports success took effect. *)
LEMMA HandledHandlers ==
    ASSUME TypeOK, HandledInv, NEW r \in Relays, NEW e \in Ids, NEW h \in Handlers,
           HandlerOk(r, e, h) \/ HandlerFail(r, e, h)
    PROVE  HandledInv'
<1>1. row' = row /\ job \in [Relays -> [Ids -> Job]] /\ ran \in [Ids -> SUBSET Handlers]
  BY DEF HandlerOk, HandlerFail, TypeOK
<1>2. \A i \in Ids : ran[i] \subseteq ran'[i]
  BY <1>1 DEF HandlerOk, HandlerFail
<1>3. ASSUME NEW p \in Relays, NEW i \in Ids
      PROVE  job'[p][i].ok \subseteq job[p][i].ok \cup ran'[i]
  <2>1. CASE HandlerOk(r, e, h)
    <3>1. h \in ran'[e]
      BY <1>1, <2>1 DEF HandlerOk
    <3>2. job'[p][i] = IF p = r /\ i = e
                         THEN [job[r][e] EXCEPT !.ok = job[r][e].ok \cup {h}] ELSE job[p][i]
      BY <1>1, <2>1 DEF HandlerOk
    <3>3. [job[r][e] EXCEPT !.ok = job[r][e].ok \cup {h}].ok = job[r][e].ok \cup {h}
      BY <1>1, JobOk
    <3>4. QED
      BY <3>1, <3>2, <3>3
  <2>2. CASE HandlerFail(r, e, h)
    <3>1. job'[p][i] = IF p = r /\ i = e
                         THEN [job[r][e] EXCEPT !.bad = job[r][e].bad \cup {h}] ELSE job[p][i]
      BY <1>1, <2>2 DEF HandlerFail
    <3>2. [job[r][e] EXCEPT !.bad = job[r][e].bad \cup {h}].ok = job[r][e].ok
      BY <1>1, JobOk
    <3>3. QED
      BY <3>1, <3>2
  <2>3. QED
    BY <2>1, <2>2
<1>4. QED
  <2>1. \A i \in Ids : HandledKept(i)
    BY <1>1, <1>2, <1>3 DEF HandledKept
  <2>2. QED
    BY <2>1, HandledQuiet

LEMMA HandledRelease ==
    ASSUME TypeOK, HandledInv, NEW r \in Relays, NEW e \in Ids, Release(r, e)
    PROVE  HandledInv'
<1>1. /\ row' = IF LeaseMatches(r, e) THEN [row EXCEPT ![e] = ReleasedRow(@)] ELSE row
      /\ ran' = ran /\ row \in [Ids -> Row]
  BY DEF Release, TypeOK
<1>2. \A p \in Relays, i \in Ids : job'[p][i].ok \subseteq job[p][i].ok
  BY DroppedOk DEF Release
<1>3. ASSUME NEW i \in Ids
      PROVE  row'[i].deliveries = row[i].deliveries /\ row'[i].status = row[i].status
  <2>1. row'[i] = IF i = e /\ LeaseMatches(r, e) THEN ReleasedRow(row[i]) ELSE row[i]
    BY <1>1
  <2>2. QED
    BY <1>1, <2>1, RowDeliveries
<1>4. \A i \in Ids : HandledKept(i)
  BY <1>1, <1>2, <1>3 DEF HandledKept
<1>5. QED
  BY <1>4, HandledQuiet

LEMMA HandledTick ==
    ASSUME TypeOK, HandledInv, Tick
    PROVE  HandledInv'
<1>1. ran' = ran /\ row \in [Ids -> Row] /\ job \in [Relays -> [Ids -> Job]]
  BY DEF Tick, TypeOK
<1>2. ASSUME NEW i \in Ids
      PROVE  row'[i].deliveries = row[i].deliveries /\ row'[i].status = row[i].status
  <2>1. row'[i] = [row[i] EXCEPT !.next = Minus1(row[i].next)]
    BY DEF Tick
  <2>2. QED
    BY <1>1, <2>1, RowDeliveries
<1>3. ASSUME NEW p \in Relays, NEW i \in Ids PROVE job'[p][i].ok \subseteq job[p][i].ok
  <2>1. job'[p][i] = [job[p][i] EXCEPT !.left = Minus1(job[p][i].left)]
    BY DEF Tick
  <2>2. QED
    BY <1>1, <2>1, JobOk
<1>4. \A i \in Ids : HandledKept(i)
  BY <1>1, <1>2, <1>3 DEF HandledKept
<1>5. QED
  BY <1>4, HandledQuiet

LEMMA HandledStep ==
    ASSUME TypeOK, SnapshotFresh, HandledInv, [Next]_vars
    PROVE  HandledInv'
<1>1. row \in [Ids -> Row] /\ job \in [Relays -> [Ids -> Job]]
  BY DEF TypeOK
<1>2. CASE UNCHANGED vars
  BY <1>2 DEF vars, HandledInv, HandledAt
<1>3. ASSUME NEW e \in Events, Enqueue(e) PROVE HandledInv'
  <2>1. /\ ran' = ran /\ job' = job
        /\ \A i \in Ids : row'[i] = IF i = e THEN NewRow ELSE row[i]
    BY <1>1, <1>3 DEF Enqueue
  <2>2. NewRow.deliveries = {} /\ NewRow.status = "pending"
    BY DEF NewRow, NoRow
  <2>3. ASSUME NEW i \in Ids PROVE HandledAt(i)'
    <3>1. HandledAt(i) /\ row'[i] = IF i = e THEN NewRow ELSE row[i]
      BY <2>1 DEF HandledInv
    <3>2. QED
      BY <2>1, <2>2, <3>1 DEF HandledAt
  <2>4. QED
    BY <2>3 DEF HandledInv
<1>4. ASSUME NEW r \in Relays,
             EmptyDrain(r) \/ Halt(r) \/ Stopped(r) \/ Restart(r)
      PROVE  HandledInv'
  <2>1. \A i \in Ids : HandledKept(i)
    BY <1>4 DEF EmptyDrain, Halt, Stopped, Restart, vars, HandledKept
  <2>2. QED
    BY <2>1, HandledQuiet
<1>5. ASSUME NEW r \in Relays, AbandonInFlight(r) PROVE HandledInv'
  <2>1. ASSUME NEW p \in Relays, NEW i \in Ids PROVE job'[p][i].ok \subseteq job[p][i].ok
    <3>1. job'[p][i] = job[p][i] \/ job'[p][i] = [job[p][i] EXCEPT !.phase = "interrupted"]
      BY <1>1, <1>5 DEF AbandonInFlight
    <3>2. [job[p][i] EXCEPT !.phase = "interrupted"].ok = job[p][i].ok
      BY <1>1, JobOk
    <3>3. QED
      BY <3>1, <3>2
  <2>2. row' = row /\ ran' = ran
    BY <1>5 DEF AbandonInFlight
  <2>3. \A i \in Ids : HandledKept(i)
    BY <2>1, <2>2 DEF HandledKept
  <2>4. QED
    BY <2>3, HandledQuiet
<1>6. ASSUME NEW r \in Relays, Crash(r) PROVE HandledInv'
  <2>1. ASSUME NEW p \in Relays, NEW i \in Ids PROVE job'[p][i].ok \subseteq job[p][i].ok
    <3>1. job'[p][i] = job[p][i] \/ job'[p][i] = NoJob
      BY <1>1, <1>6 DEF Crash
    <3>2. QED
      BY <3>1, EmptyOk
  <2>2. row' = row /\ ran' = ran
    BY <1>6 DEF Crash
  <2>3. \A i \in Ids : HandledKept(i)
    BY <2>1, <2>2 DEF HandledKept
  <2>4. QED
    BY <2>3, HandledQuiet
<1>7. ASSUME NEW r \in Relays, NEW e \in Ids, Start(r, e) PROVE HandledInv'
  <2>1. ASSUME NEW p \in Relays, NEW i \in Ids PROVE job'[p][i].ok \subseteq job[p][i].ok
    <3>1. job'[p][i] = job[p][i] \/ job'[p][i] = [job[p][i] EXCEPT !.phase = "running"]
      BY <1>1, <1>7 DEF Start
    <3>2. [job[p][i] EXCEPT !.phase = "running"].ok = job[p][i].ok
      BY <1>1, JobOk
    <3>3. QED
      BY <3>1, <3>2
  <2>2. row' = row /\ ran' = ran
    BY <1>7 DEF Start
  <2>3. \A i \in Ids : HandledKept(i)
    BY <2>1, <2>2 DEF HandledKept
  <2>4. QED
    BY <2>3, HandledQuiet
<1>8. ASSUME NEW r \in Relays, NEW e \in Ids, SettleError(r, e) PROVE HandledInv'
  <2>1. ASSUME NEW p \in Relays, NEW i \in Ids PROVE job'[p][i].ok \subseteq job[p][i].ok
    <3>1. job'[p][i] = job[p][i] \/ job'[p][i] = NoJob
      BY <1>1, <1>8 DEF SettleError
    <3>2. QED
      BY <3>1, EmptyOk
  <2>2. row' = row /\ ran' = ran
    BY <1>8 DEF SettleError
  <2>3. \A i \in Ids : HandledKept(i)
    BY <2>1, <2>2 DEF HandledKept
  <2>4. QED
    BY <2>3, HandledQuiet
<1>9. ASSUME NEW e \in Ids, RequeueDead(e) \/ Purge(e) PROVE HandledInv'
  <2>1. ASSUME NEW i \in Ids
        PROVE  /\ row'[i].deliveries = row[i].deliveries
               /\ \/ row'[i].status = row[i].status
                  \/ row[i].status = "dispatched" /\ row'[i].status = "purged"
    <3>1. \/ row'[i] = row[i]
          \/ row'[i] = [row[i] EXCEPT !.next = 0]
          \/ row[i].status = "dispatched" /\ row'[i] = [row[i] EXCEPT !.status = "purged"]
      BY <1>1, <1>9 DEF RequeueDead, Purge, Purgeable
    <3>2. /\ [row[i] EXCEPT !.next = 0].deliveries = row[i].deliveries
          /\ [row[i] EXCEPT !.next = 0].status = row[i].status
          /\ [row[i] EXCEPT !.status = "purged"].deliveries = row[i].deliveries
          /\ [row[i] EXCEPT !.status = "purged"].status = "purged"
      BY <1>1, RowDeliveries
    <3>3. QED
      BY <3>1, <3>2
  <2>2. job' = job /\ ran' = ran
    BY <1>9 DEF RequeueDead, Purge
  <2>3. \A i \in Ids : HandledKept(i)
    BY <2>1, <2>2 DEF HandledKept
  <2>4. QED
    BY <2>3, HandledQuiet
<1>10. QED
  BY <1>2, <1>3, <1>4, <1>5, <1>6, <1>7, <1>8, <1>9, HandledClaim, HandledMarkDelivered,
     HandledMarkFailed, HandledHandlers, HandledRelease, HandledTick DEF Next, Settle

-----------------------------------------------------------------------------
(* A dispatched event was handled by every handler of a process that        *)
(* subscribes to it, however many attempts, relays and crashes it took, and *)
(* deliveries lists only handlers that took effect (markDelivered, merged). *)
THEOREM DispatchedIsHandled == Spec => []DispatchedImpliesHandled
<1> DEFINE Ind == TypeOK /\ TokensPositive /\ CoreInv /\ HandledInv
<1>1. Init => Ind
  BY TypeInit, CoreInit, HandledInit
<1>2. Ind /\ [Next]_vars => Ind'
  BY TypeStep, CoreStep, CoreImplies, HandledStep
<1>3. Ind => DispatchedImpliesHandled
  BY DEF HandledInv, HandledAt, DispatchedImpliesHandled
<1>4. QED
  BY <1>1, <1>2, <1>3, PTL DEF Spec

-----------------------------------------------------------------------------
(* OutboxRelay implements DeliveryQueue: under its refinement mapping each  *)
(* of its steps is a step of the queue or leaves it alone.                  *)

(* What the mapping looks at: the status and the death of an event, and how *)
(* often its death was announced.                                           *)
Same(e) ==
    /\ row'[e].status = row[e].status /\ row'[e].dead = row[e].dead
    /\ announced'[e] = announced[e]

QueueUnchanged == UNCHANGED <<ItemStatus, ItemTold>>

LEMMA SameStutters ==
    ASSUME \A e \in Events : Same(e)
    PROVE  QueueUnchanged
<1>1. \A e \in Events : QueueStatus(e)' = QueueStatus(e)
  BY DEF Same, QueueStatus
<1>2. ItemStatus' = ItemStatus
  BY <1>1 DEF ItemStatus
<1>3. ItemTold' = ItemTold
  BY DEF Same, ItemTold
<1>4. QED
  BY <1>2, <1>3 DEF QueueUnchanged

(* A step that writes one row and announces nothing moves one item, unless  *)
(* the row is a notice.                                                     *)
LEMMA OneMoves ==
    ASSUME NEW x \in Events, \A e \in Events \ {x} : Same(e), announced'[x] = announced[x],
           NEW from, NEW to, QueueStatus(x) \in from, QueueStatus(x)' = to
    PROVE  Queue!Move({x}, from, to) /\ UNCHANGED ItemTold
<1>1. \A e \in Events : ItemStatus[e] = QueueStatus(e)
  BY DEF ItemStatus
<1>2. \A e \in Events \ {x} : QueueStatus(e)' = QueueStatus(e)
  BY DEF Same, QueueStatus
<1>3. ItemStatus' = [e \in Events |-> IF e \in {x} THEN to ELSE ItemStatus[e]]
  BY <1>1, <1>2 DEF ItemStatus
<1>4. ItemTold' = ItemTold
  BY DEF Same, ItemTold
<1>5. QED
  BY <1>1, <1>3, <1>4 DEF Queue!Move

LEMMA QueueInit == Init => Queue!Init
BY DEF Init, Queue!Init, ItemStatus, ItemTold, QueueStatus, NoRow, Ids

(* Claims, releases and the clock leave status and death alone. *)
LEMMA RowKept ==
    ASSUME NEW w \in Row, NEW n
    PROVE  /\ ClaimedRow(w).status = w.status /\ ClaimedRow(w).dead = w.dead
           /\ ReleasedRow(w).status = w.status /\ ReleasedRow(w).dead = w.dead
           /\ [w EXCEPT !.next = n].status = w.status /\ [w EXCEPT !.next = n].dead = w.dead
BY DEF ClaimedRow, ReleasedRow, Row

-----------------------------------------------------------------------------
LEMMA EnqueueRefines ==
    ASSUME TypeOK, NEW e \in Events, Enqueue(e)
    PROVE  Queue!Next
<1>1. \A i \in Events \ {e} : Same(i)
  BY DEF Enqueue, Same, TypeOK, Ids
<1>2. QueueStatus(e) \in {"absent"}
  BY DEF Enqueue, QueueStatus
<1>3. QueueStatus(e)' = "pending" /\ announced'[e] = announced[e]
  BY DEF Enqueue, QueueStatus, TypeOK, Ids, NewRow, NoRow
<1>4. Queue!Enqueue({e})
  BY <1>1, <1>2, <1>3, OneMoves DEF Queue!Enqueue
<1>5. QED
  BY <1>4 DEF Queue!Next

LEMMA MarkDeliveredRefines ==
    ASSUME TypeOK, NEW r \in Relays, NEW e \in Ids, MarkDelivered(r, e)
    PROVE  Queue!Next \/ QueueUnchanged
<1>1. CASE LeaseMatches(r, e) /\ e \in Events
  <2>1. \A i \in Events \ {e} : Same(i)
    BY <1>1 DEF MarkDelivered, Same, TypeOK, Ids
  <2>2. QueueStatus(e) \in {"pending", "dead"}
    BY <1>1 DEF LeaseMatches, QueueStatus
  <2>3. row'[e].status = "dispatched" /\ announced'[e] = announced[e]
    BY <1>1 DEF MarkDelivered, TypeOK, DeliveredRow, Row
  <2>4. QueueStatus(e)' = "settled"
    BY <2>3 DEF QueueStatus
  <2>5. Queue!Deliver({e})
    BY <1>1, <2>1, <2>2, <2>3, <2>4, OneMoves DEF Queue!Deliver
  <2>6. QED
    BY <1>1, <2>5 DEF Queue!Next
<1>2. CASE ~(LeaseMatches(r, e) /\ e \in Events)
  <2>1. \A i \in Events : Same(i)
    BY <1>2 DEF MarkDelivered, Same, TypeOK, Ids
  <2>2. QED
    BY <2>1, SameStutters
<1>3. QED
  BY <1>1, <1>2

LEMMA PurgeRefines ==
    ASSUME TypeOK, NEW e \in Ids, Purge(e)
    PROVE  Queue!Next \/ QueueUnchanged
<1>1. CASE e \in Events
  <2>1. \A i \in Events \ {e} : Same(i)
    BY <1>1 DEF Purge, Same, TypeOK, Ids
  <2>2. QueueStatus(e) \in {"settled"}
    BY DEF Purge, Purgeable, QueueStatus
  <2>3. row'[e].status = "purged" /\ announced'[e] = announced[e]
    BY <1>1 DEF Purge, TypeOK, Row
  <2>4. QueueStatus(e)' = "gone"
    BY <2>3 DEF QueueStatus
  <2>5. Queue!Remove({e})
    BY <1>1, <2>1, <2>2, <2>3, <2>4, OneMoves DEF Queue!Remove
  <2>6. QED
    BY <1>1, <2>5 DEF Queue!Next
<1>2. CASE e \notin Events
  <2>1. \A i \in Events : Same(i)
    BY <1>2 DEF Purge, Same, TypeOK, Ids
  <2>2. QED
    BY <2>1, SameStutters
<1>3. QED
  BY <1>1, <1>2

(* The one step that tells: a first death, by a settle whose snapshot is    *)
(* fresh, so that the row it kills is alive.  A failure that is no death, a *)
(* second death and a settle that matches nothing leave the queue alone.    *)
LEMMA MarkFailedRefines ==
    ASSUME TypeOK, SnapshotFresh, NEW r \in Relays, NEW e \in Ids, MarkFailed(r, e)
    PROVE  Queue!Next \/ QueueUnchanged
<1>1. PICK d \in FailureDelays(r, e) :
        row' = [i \in Ids |->
           CASE i = e /\ LeaseMatches(r, e) ->
                  FailedRow(row[i], job[r][e].ok, d, GoesDead(r, e))
             [] i # e /\ Announces(r, e) /\ i = Notice(e) /\ row[i].status = "absent" -> NewRow
             [] OTHER -> row[i]]
  BY DEF MarkFailed
<1>2. /\ announced' = [announced EXCEPT ![e] = IF Announces(r, e) THEN @ + 1 ELSE @]
      /\ row \in [Ids -> Row] /\ announced \in [Ids -> Nat] /\ Events \subseteq Ids
  BY DEF MarkFailed, TypeOK, Ids
<1>3. Holds(r, e)
  BY DEF MarkFailed, Finished, Holds
<1>4. \A i \in Events \ {e} : Same(i)
  <2>1. \A i \in Events \ {e} : Announces(r, e) => i # Notice(e)
    BY NoticeIsId DEF Announces
  <2>2. \A i \in Events \ {e} : row'[i] = row[i]
    BY <1>1, <1>2, <2>1
  <2>3. QED
    BY <1>2, <2>2 DEF Same
<1>5. CASE Announces(r, e)
  <2>1. e \in Events /\ LeaseMatches(r, e) /\ GoesDead(r, e) /\ ~job[r][e].wasDead
    BY <1>5 DEF Announces
  <2>2. row[e].status = "pending" /\ ~row[e].dead
    BY <1>3, <2>1 DEF SnapshotFresh, LeaseMatches
  <2>3. row'[e] = FailedRow(row[e], job[r][e].ok, d, GoesDead(r, e))
    BY <1>1, <2>1
  <2>4. row'[e].status = "pending" /\ row'[e].dead
    BY <1>2, <2>1, <2>2, <2>3 DEF FailedRow, Row
  <2>5. QueueStatus(e) = "pending" /\ QueueStatus(e)' = "dead"
    BY <2>2, <2>4 DEF QueueStatus
  <2>6. \A i \in Events \ {e} : QueueStatus(i)' = QueueStatus(i)
    BY <1>4 DEF Same, QueueStatus
  <2>7. Queue!Move({e}, {"pending"}, "dead")
    BY <2>1, <2>5, <2>6 DEF Queue!Move, ItemStatus
  <2>8. ItemTold' = [i \in Events |-> IF i \in {e} THEN ItemTold[i] + 1 ELSE ItemTold[i]]
    BY <1>2, <1>5, <2>1 DEF ItemTold
  <2>9. QED
    BY <2>1, <2>7, <2>8 DEF Queue!Next, Queue!Die
<1>6. CASE ~Announces(r, e)
  <2>1. ASSUME e \in Events PROVE Same(e)
    <3>1. announced'[e] = announced[e]
      BY <1>2, <1>6
    <3>2. CASE ~LeaseMatches(r, e)
      <4>1. row'[e] = row[e] BY <1>1, <3>2
      <4>2. QED BY <3>1, <4>1 DEF Same
    <3>3. CASE LeaseMatches(r, e)
      <4>1. row'[e] = FailedRow(row[e], job[r][e].ok, d, GoesDead(r, e))
        BY <1>1, <3>3
      <4>2. row'[e].status = row[e].status /\ row'[e].dead = (row[e].dead \/ GoesDead(r, e))
        BY <1>2, <4>1 DEF FailedRow, Row
      <4>3. GoesDead(r, e) => row[e].dead = TRUE
        <5>1. GoesDead(r, e) => job[r][e].wasDead
          BY <1>6, <2>1, <3>3 DEF Announces
        <5>2. job[r][e].wasDead = row[e].dead /\ row[e].dead \in BOOLEAN
          BY <1>2, <1>3, <3>3 DEF SnapshotFresh, Row
        <5>3. QED BY <5>1, <5>2
      <4>4. row[e].dead \in BOOLEAN
        BY <1>2 DEF Row
      <4>5. row'[e].dead = row[e].dead
        BY <4>2, <4>3, <4>4
      <4>6. QED BY <3>1, <4>2, <4>5 DEF Same
    <3>4. QED BY <3>2, <3>3
  <2>2. QED
    BY <1>4, <2>1, SameStutters
<1>7. QED
  BY <1>5, <1>6

-----------------------------------------------------------------------------
(* Everything else leaves status, death and announcements alone. *)
LEMMA ClaimStutters ==
    ASSUME TypeOK, NEW r \in Relays, Claim(r)
    PROVE  QueueUnchanged
<1>1. \A e \in Ids : row'[e] \in {row[e], ClaimedRow(row[e])}
  BY DEF Claim
<1>2. \A e \in Events : Same(e)
  <2>1. SUFFICES ASSUME NEW e \in Events PROVE Same(e)
    OBVIOUS
  <2>2. e \in Ids /\ row[e] \in Row /\ announced' = announced
    BY DEF Ids, TypeOK, Claim
  <2>3. QED
    BY <1>1, <2>2, RowKept DEF Same
<1>3. QED
  BY <1>2, SameStutters

LEMMA ReleaseStutters ==
    ASSUME TypeOK, NEW r \in Relays, NEW e \in Ids, Release(r, e)
    PROVE  QueueUnchanged
<1>1. /\ \A i \in Ids : row'[i] \in {row[i], ReleasedRow(row[i])}
      /\ announced' = announced /\ row \in [Ids -> Row]
  BY DEF Release, TypeOK
<1>2. \A i \in Events : Same(i)
  BY <1>1, RowKept DEF Same, Ids
<1>3. QED
  BY <1>2, SameStutters

LEMMA NextAttemptStutters ==
    ASSUME TypeOK, (\E e \in Ids : RequeueDead(e)) \/ Tick
    PROVE  QueueUnchanged
<1>1. row \in [Ids -> Row] /\ announced' = announced
  BY DEF RequeueDead, Tick, TypeOK
<1>2. \A i \in Ids : row'[i] = row[i] \/ \E n : row'[i] = [row[i] EXCEPT !.next = n]
  BY <1>1 DEF RequeueDead, Tick
<1>3. ASSUME NEW i \in Events PROVE Same(i)
  <2>1. row[i] \in Row /\ i \in Ids
    BY <1>1 DEF Ids
  <2>2. row'[i].status = row[i].status /\ row'[i].dead = row[i].dead
    <3>1. ASSUME NEW n, row'[i] = [row[i] EXCEPT !.next = n]
          PROVE  row'[i].status = row[i].status /\ row'[i].dead = row[i].dead
      <4>1. /\ [row[i] EXCEPT !.next = n].status = row[i].status
            /\ [row[i] EXCEPT !.next = n].dead = row[i].dead
        BY <2>1, RowKept
      <4>2. QED BY <3>1, <4>1
    <3>2. QED BY <1>2, <2>1, <3>1
  <2>3. QED
    BY <1>1, <2>2 DEF Same
<1>4. QED
  BY <1>3, SameStutters

LEMMA OthersStutter ==
    ASSUME row' = row, announced' = announced
    PROVE  QueueUnchanged
<1>1. \A e \in Events : Same(e)
  BY DEF Same
<1>2. QED
  BY <1>1, SameStutters

LEMMA QueueStep ==
    TypeOK /\ SnapshotFresh /\ [Next]_vars => [Queue!Next]_<<ItemStatus, ItemTold>>
<1> SUFFICES ASSUME TypeOK, SnapshotFresh, [Next]_vars
             PROVE  Queue!Next \/ QueueUnchanged
  BY DEF QueueUnchanged
<1>1. ASSUME NEW e \in Events, Enqueue(e) PROVE Queue!Next
  BY <1>1, EnqueueRefines
<1>2. ASSUME NEW r \in Relays, Claim(r) PROVE QueueUnchanged
  BY <1>2, ClaimStutters
<1>3. ASSUME NEW r \in Relays,
             EmptyDrain(r) \/ Halt(r) \/ AbandonInFlight(r) \/ Stopped(r) \/ Crash(r) \/ Restart(r)
      PROVE  QueueUnchanged
  BY <1>3, OthersStutter
     DEF EmptyDrain, Halt, AbandonInFlight, Stopped, Crash, Restart, vars
<1>4. ASSUME NEW r \in Relays, NEW e \in Ids, Start(r, e) \/ SettleError(r, e)
      PROVE  QueueUnchanged
  BY <1>4, OthersStutter DEF Start, SettleError
<1>5. ASSUME NEW r \in Relays, NEW e \in Ids, Settle(r, e)
      PROVE  Queue!Next \/ QueueUnchanged
  BY <1>5, MarkDeliveredRefines, MarkFailedRefines, ReleaseStutters DEF Settle
<1>6. ASSUME NEW r \in Relays, NEW e \in Ids, NEW h \in Handlers,
             HandlerOk(r, e, h) \/ HandlerFail(r, e, h)
      PROVE  QueueUnchanged
  BY <1>6, OthersStutter DEF HandlerOk, HandlerFail
<1>7. ASSUME NEW e \in Ids, Purge(e) PROVE Queue!Next \/ QueueUnchanged
  BY <1>7, PurgeRefines
<1>8. ASSUME (\E e \in Ids : RequeueDead(e)) \/ Tick PROVE QueueUnchanged
  BY <1>8, NextAttemptStutters
<1>9. ASSUME UNCHANGED vars PROVE QueueUnchanged
  BY <1>9, OthersStutter DEF vars
<1>10. QED
  BY <1>1, <1>2, <1>3, <1>4, <1>5, <1>6, <1>7, <1>8, <1>9 DEF Next

(* Whatever the numbers of events, handlers, relays and lanes, the settings *)
(* and the faults, the outbox table behaves as a DeliveryQueue: the first   *)
(* death of an event, and nothing else, is announced with it, a dead row    *)
(* may still be delivered, and only delivered rows are purged.              *)
THEOREM RelayImplementsQueue == Spec => ImplementsQueue
<1> DEFINE Ind == TypeOK /\ TokensPositive /\ CoreInv
<1>1. Init => Ind BY TypeInit, CoreInit
<1>2. Ind /\ [Next]_vars => Ind' BY TypeStep, CoreStep
<1>3. Ind => TypeOK /\ SnapshotFresh BY CoreImplies
<1>4. Init => Queue!Init BY QueueInit
<1>5. TypeOK /\ SnapshotFresh /\ [Next]_vars => [Queue!Next]_<<ItemStatus, ItemTold>>
  BY QueueStep
<1>6. QED BY <1>1, <1>2, <1>3, <1>4, <1>5, PTL DEF Spec, ImplementsQueue, Queue!Spec

-----------------------------------------------------------------------------
(* Attempts.  An attempt taken is under a lease that runs, by a relay none  *)
(* of whose handlers failed, or it was paid for by a fault: a release gives *)
(* back the former, and the latter need no release.                         *)
Unspoilt(r, e) == job[r][e].left > 0 /\ job[r][e].bad = {} /\ Subscribed[r] # {}
InHand(e) == IF \E r \in Relays : Unspoilt(r, e) THEN 1 ELSE 0
PaidAt(e) == row[e].status = "pending" => row[e].attempts <= faults + InHand(e)

AttemptsPaid == \A e \in Ids : PaidAt(e)

LEMMA PaidInit == Init => AttemptsPaid
BY DEF Init, AttemptsPaid, PaidAt, NoRow

(* Starting, interrupting and succeeding leave the lease as it is. *)
LEMMA JobLease ==
    ASSUME NEW p \in Relays, NEW i \in Ids, job[p][i] \in Job,
           NEW v \in {"running", "interrupted"}, NEW hs \in SUBSET Handlers,
           \/ job'[p][i] = job[p][i]
           \/ job'[p][i] = [job[p][i] EXCEPT !.phase = v]
           \/ job'[p][i] = [job[p][i] EXCEPT !.ok = hs]
    PROVE  job'[p][i].left = job[p][i].left /\ job'[p][i].bad = job[p][i].bad
BY DEF Job

LEMMA FaultKinds ==
    ASSUME TypeOK, UNCHANGED faults \/ Fault
    PROVE  faults \in Nat /\ faults' \in {faults, faults + 1}
BY ConstantsAssumption DEF TypeOK, Fault

(* A step that takes no attempt of e, and loses a lease only to a fault.    *)
LEMMA PaidKept ==
    ASSUME TypeOK, NEW e \in Ids, PaidAt(e), UNCHANGED faults \/ Fault,
           row'[e].status = "pending" =>
             row[e].status = "pending" /\ row'[e].attempts = row[e].attempts,
           ~Fault => \A p \in Relays : Unspoilt(p, e) => Unspoilt(p, e)'
    PROVE  PaidAt(e)'
<1>1. row[e].attempts \in Nat
  BY DEF TypeOK, Row
<1>2. faults \in Nat /\ faults' \in {faults, faults + 1}
  BY FaultKinds
<1>3. InHand(e) \in {0, 1} /\ InHand(e)' \in {0, 1}
  BY DEF InHand
<1>4. ~Fault => InHand(e) <= InHand(e)'
  BY DEF InHand
<1>5. Fault => faults' = faults + 1
  BY DEF Fault
<1> QED
  BY <1>1, <1>2, <1>3, <1>4, <1>5 DEF PaidAt

LEMMA PaidQuiet ==
    ASSUME TypeOK, AttemptsPaid, row' = row, UNCHANGED faults \/ Fault,
           \A p \in Relays, e \in Ids : ~Fault => (Unspoilt(p, e) => Unspoilt(p, e)')
    PROVE  AttemptsPaid'
BY PaidKept DEF AttemptsPaid

LEMMA PaidClaim ==
    ASSUME TypeOK, CoreInv, AttemptsPaid, NEW r \in Relays, Claim(r)
    PROVE  AttemptsPaid'
<1>1. PICK S \in SUBSET (LiveDue \cup DeadDue) :
        /\ row' = [e \in Ids |-> IF e \in S THEN ClaimedRow(row[e]) ELSE row[e]]
        /\ job' = [p \in Relays |-> [e \in Ids |->
                    IF e \notin S THEN job[p][e]
                    ELSE IF p = r THEN ClaimedJob(ClaimedRow(row[e]))
                    ELSE IF Holds(p, e) THEN [job[p][e] EXCEPT !.lost = TRUE]
                    ELSE job[p][e]]]
  BY DEF Claim
<1>2. UNCHANGED faults \/ Fault
  BY DEF Claim
<1> SUFFICES ASSUME NEW e \in Ids PROVE PaidAt(e)'
  BY DEF AttemptsPaid
<1>3. PaidAt(e) /\ CoreAt(e) /\ row[e] \in Row /\ row[e].attempts \in Nat
  BY DEF AttemptsPaid, CoreInv, TypeOK, Row
<1>4. CASE e \notin S
  <2>1. row'[e] = row[e] /\ \A p \in Relays : job'[p][e] = job[p][e]
    BY <1>1, <1>4
  <2> QED
    BY <1>2, <1>3, <2>1, PaidKept DEF Unspoilt
<1>5. CASE e \in S
  <2>1. row[e].status = "pending" /\ row[e].next \in {Null, 0}
    BY <1>5 DEF LiveDue, DeadDue
  <2>2. \A p \in Relays : job[p][e].left \in Nat
    BY DEF TypeOK, Job
  <2>3. \A p \in Relays : ~(job[p][e].left > 0)
    BY <1>3, <2>1, <2>2, ConstantsAssumption DEF CoreAt
  <2>4. row[e].attempts <= faults
    <3>1. InHand(e) = 0
      BY <2>3 DEF InHand, Unspoilt
    <3> QED
      BY <1>3, <2>1, <3>1, FaultKinds, <1>2 DEF PaidAt
  <2>5. row'[e].attempts = row[e].attempts + 1
    BY <1>1, <1>3, <1>5 DEF ClaimedRow, Row
  <2>6. faults \in Nat /\ faults' \in {faults, faults + 1}
    BY <1>2, FaultKinds
  <2>7. CASE Subscribed[r] = {}
    <3>1. faults' = faults + 1
      BY <2>7 DEF Claim, Fault
    <3>2. InHand(e)' \in {0, 1}
      BY DEF InHand
    <3> QED
      BY <1>3, <2>4, <2>5, <2>6, <3>1, <3>2 DEF PaidAt
  <2>8. CASE Subscribed[r] # {}
    <3>1. job'[r][e] = ClaimedJob(ClaimedRow(row[e]))
      BY <1>1, <1>5
    <3>2. job'[r][e].left = Lease /\ job'[r][e].bad = {}
      BY <3>1 DEF ClaimedJob, NoJob
    <3>3. Unspoilt(r, e)'
      BY <2>8, <3>2, ConstantsAssumption DEF Unspoilt
    <3>4. InHand(e)' = 1
      BY <3>3 DEF InHand
    <3> QED
      BY <1>3, <2>4, <2>5, <2>6, <3>4 DEF PaidAt
  <2> QED
    BY <2>7, <2>8
<1> QED
  BY <1>4, <1>5

(* A hold that is given up costs nothing if its guard no longer matched.    *)
LEMMA LateIsSpoilt ==
    ASSUME TypeOK, CoreInv, NEW r \in Relays, NEW e \in Ids, ~LeaseMatches(r, e)
    PROVE  ~Unspoilt(r, e)
BY DEF CoreInv, CoreAt, Unspoilt

LEMMA PaidSettle ==
    ASSUME TypeOK, CoreInv, AttemptsPaid, NEW r \in Relays, NEW e \in Ids,
           MarkDelivered(r, e) \/ MarkFailed(r, e)
    PROVE  AttemptsPaid'
<1>1. job' = [job EXCEPT ![r][e] = NoJob] /\ faults' = faults
  BY DEF MarkDelivered, MarkFailed
<1>2. \A p \in Relays, i \in Ids : job'[p][i] = IF p = r /\ i = e THEN NoJob ELSE job[p][i]
  BY <1>1, JobSet, NoJobType DEF TypeOK
<1>3. \A p \in Relays, i \in Ids : p # r \/ i # e => (Unspoilt(p, i) => Unspoilt(p, i)')
  BY <1>2 DEF Unspoilt
<1>4. \A i \in Ids : row[i] \in Row
  BY DEF TypeOK
<1> SUFFICES ASSUME NEW i \in Ids PROVE PaidAt(i)'
  BY DEF AttemptsPaid
<1>5. PaidAt(i)
  BY DEF AttemptsPaid
<1>6. CASE MarkDelivered(r, e)
  <2>1. row'[i].status = "pending" => row'[i] = row[i] /\ (i = e => ~LeaseMatches(r, e))
    BY <1>4, <1>6 DEF MarkDelivered, DeliveredRow, TypeOK, Row
  <2>2. CASE row'[i].status = "pending"
    BY <1>1, <1>3, <1>5, <2>1, <2>2, LateIsSpoilt, PaidKept
  <2>3. CASE row'[i].status # "pending"
    BY <2>3 DEF PaidAt
  <2> QED
    BY <2>2, <2>3
<1>7. CASE MarkFailed(r, e)
  <2>1. ~Unspoilt(r, e)
    BY <1>7 DEF MarkFailed, FailedDelivery, Unspoilt
  <2>2. PICK d \in FailureDelays(r, e) :
          row'[i] = CASE i = e /\ LeaseMatches(r, e) ->
                           FailedRow(row[i], job[r][e].ok, d, GoesDead(r, e))
                      [] i # e /\ Announces(r, e) /\ i = Notice(e) /\ row[i].status = "absent" -> NewRow
                      [] OTHER -> row[i]
    BY <1>7 DEF MarkFailed
  <2>3. CASE row'[i] = NewRow
    BY <1>1, <2>3, FaultKinds DEF PaidAt, NewRow, NoRow, InHand
  <2>4. CASE row'[i].status = row[i].status /\ row'[i].attempts = row[i].attempts
    BY <1>1, <1>3, <1>5, <2>1, <2>4, PaidKept
  <2>5. \A w \in Row : \A ok, a, b : FailedRow(w, ok, a, b).status = w.status
                                     /\ FailedRow(w, ok, a, b).attempts = w.attempts
    BY DEF FailedRow, Row
  <2>6. row'[i] \in {NewRow, row[i], FailedRow(row[i], job[r][e].ok, d, GoesDead(r, e))}
    BY <2>2
  <2> QED
    BY <1>4, <2>3, <2>4, <2>5, <2>6
<1> QED
  BY <1>6, <1>7

LEMMA PaidRelease ==
    ASSUME TypeOK, CoreInv, AttemptsPaid, NEW r \in Relays, NEW e \in Ids, Release(r, e)
    PROVE  AttemptsPaid'
<1>1. job' = [job EXCEPT ![r][e] = NoJob] /\ faults' = faults
  BY DEF Release
<1>2. \A p \in Relays, i \in Ids : job'[p][i] = IF p = r /\ i = e THEN NoJob ELSE job[p][i]
  BY <1>1, JobSet, NoJobType DEF TypeOK
<1>3. \A p \in Relays, i \in Ids : p # r \/ i # e => (Unspoilt(p, i) => Unspoilt(p, i)')
  BY <1>2 DEF Unspoilt
<1> SUFFICES ASSUME NEW i \in Ids PROVE PaidAt(i)'
  BY DEF AttemptsPaid
<1>4. PaidAt(i) /\ row[i] \in Row /\ row[i].attempts \in Nat
  BY DEF AttemptsPaid, TypeOK, Row
<1>5. CASE i # e \/ ~LeaseMatches(r, e)
  <2>1. row'[i] = row[i]
    BY <1>5 DEF Release, TypeOK
  <2> QED
    BY <1>1, <1>3, <1>4, <1>5, <2>1, LateIsSpoilt, PaidKept
<1>6. CASE i = e /\ LeaseMatches(r, e)
  <2>1. row'[i] = ReleasedRow(row[i])
    BY <1>6 DEF Release, TypeOK
  <2>2. row'[i].attempts = row[i].attempts - 1 /\ row'[i].status = row[i].status
    BY <1>4, <2>1 DEF ReleasedRow, Row
  <2>3. InHand(i) \in {0, 1} /\ InHand(i)' \in {0, 1} /\ faults \in Nat
    BY <1>1, FaultKinds DEF InHand
  <2> QED
    BY <1>1, <1>4, <2>2, <2>3 DEF PaidAt
<1> QED
  BY <1>5, <1>6

LEMMA PaidTick ==
    ASSUME TypeOK, AttemptsPaid, Tick
    PROVE  AttemptsPaid'
<1> SUFFICES ASSUME NEW e \in Ids PROVE PaidAt(e)'
  BY DEF AttemptsPaid
<1>1. PaidAt(e) /\ row[e] \in Row /\ \A p \in Relays : job[p][e] \in Job
  BY DEF AttemptsPaid, TypeOK
<1>2. row'[e] = [row[e] EXCEPT !.next = Minus1(@)] /\ (UNCHANGED faults \/ Fault)
  BY DEF Tick
<1>3. row'[e].status = row[e].status /\ row'[e].attempts = row[e].attempts
  BY <1>1, <1>2 DEF Row
<1>4. ASSUME NEW p \in Relays, ~Fault, Unspoilt(p, e)
      PROVE  Unspoilt(p, e)'
  <2>1. job[p][e].left # 1 /\ job[p][e].left \in Nat
    BY <1>1, <1>4 DEF Tick, Expiring, Job
  <2>2. job'[p][e] = [job[p][e] EXCEPT !.left = Minus1(@)]
    BY DEF Tick
  <2>3. job'[p][e].left = Minus1(job[p][e].left) /\ job'[p][e].bad = job[p][e].bad
    BY <1>1, <2>2 DEF Job
  <2>4. job'[p][e].left > 0
    BY <1>4, <2>1, <2>3 DEF Minus1, Unspoilt
  <2> QED
    BY <1>4, <2>3, <2>4 DEF Unspoilt
<1> QED
  BY <1>1, <1>2, <1>3, <1>4, PaidKept

LEMMA PaidStep == TypeOK /\ CoreInv /\ AttemptsPaid /\ [Next]_vars => AttemptsPaid'
<1> SUFFICES ASSUME TypeOK, CoreInv, AttemptsPaid, [Next]_vars
             PROVE  AttemptsPaid'
  OBVIOUS
<1>0. \A p \in Relays, i \in Ids : job[p][i] \in Job
  BY DEF TypeOK
<1>1. ASSUME NEW e \in Events, Enqueue(e) PROVE AttemptsPaid'
  <2> SUFFICES ASSUME NEW i \in Ids PROVE PaidAt(i)'
    BY DEF AttemptsPaid
  <2>1. CASE i = e
    <3>1. row'[i] = NewRow
      BY <1>1, <2>1 DEF Enqueue, TypeOK
    <3>2. faults' \in Nat /\ InHand(i)' \in {0, 1}
      BY <1>1, FaultKinds DEF Enqueue, InHand
    <3> QED
      BY <3>1, <3>2 DEF PaidAt, NewRow, NoRow
  <2>2. CASE i # e
    <3>1. row'[i] = row[i] /\ job' = job /\ faults' = faults
      BY <1>1, <2>2 DEF Enqueue, TypeOK
    <3> QED
      BY <3>1, PaidKept DEF AttemptsPaid, Unspoilt
  <2> QED
    BY <2>1, <2>2
<1>2. ASSUME NEW r \in Relays,
             EmptyDrain(r) \/ Halt(r) \/ Stopped(r) \/ Restart(r) \/ UNCHANGED vars
      PROVE  AttemptsPaid'
  BY <1>2 DEF EmptyDrain, Halt, Stopped, Restart, vars, AttemptsPaid, PaidAt, InHand, Unspoilt
<1>3. ASSUME NEW r \in Relays, AbandonInFlight(r) PROVE AttemptsPaid'
  <2>1. \A p \in Relays, i \in Ids :
          \/ job'[p][i] = job[p][i] \/ job'[p][i] = [job[p][i] EXCEPT !.phase = "interrupted"]
    BY <1>3 DEF AbandonInFlight, TypeOK
  <2>2. \A p \in Relays, i \in Ids : job'[p][i].left = job[p][i].left /\ job'[p][i].bad = job[p][i].bad
    BY <1>0, <2>1, JobLease
  <2> QED
    BY <1>3, <2>2, PaidQuiet DEF AbandonInFlight, Unspoilt
<1>4. ASSUME NEW r \in Relays, NEW e \in Ids,
             Start(r, e) \/ (\E h \in Handlers : HandlerOk(r, e, h))
      PROVE  AttemptsPaid'
  <2>1. \A p \in Relays, i \in Ids :
          \/ job'[p][i] = job[p][i] \/ job'[p][i] = [job[p][i] EXCEPT !.phase = "running"]
          \/ \E hs \in SUBSET Handlers : job'[p][i] = [job[p][i] EXCEPT !.ok = hs]
    <3>1. CASE Start(r, e)
      BY <3>1 DEF Start, TypeOK
    <3>2. ASSUME NEW h \in Handlers, HandlerOk(r, e, h)
          PROVE  \A p \in Relays, i \in Ids :
                   \/ job'[p][i] = job[p][i]
                   \/ \E hs \in SUBSET Handlers : job'[p][i] = [job[p][i] EXCEPT !.ok = hs]
      <4>1. job[r][e].ok \cup {h} \in SUBSET Handlers
        BY <1>0, <3>2 DEF Job
      <4>2. \A p \in Relays, i \in Ids :
              \/ job'[p][i] = job[p][i]
              \/ job'[p][i] = [job[p][i] EXCEPT !.ok = job[r][e].ok \cup {h}]
        BY <3>2 DEF HandlerOk, TypeOK
      <4> QED
        BY <4>1, <4>2
    <3> QED
      BY <1>4, <3>1, <3>2
  <2>2. \A p \in Relays, i \in Ids : job'[p][i].left = job[p][i].left /\ job'[p][i].bad = job[p][i].bad
    BY <1>0, <2>1, JobLease
  <2>3. row' = row /\ faults' = faults
    BY <1>4 DEF Start, HandlerOk
  <2> QED
    BY <2>2, <2>3, PaidQuiet DEF Unspoilt
<1>5. ASSUME Fault, row' = row
      PROVE  AttemptsPaid'
  BY <1>5, PaidQuiet
<1>6. ASSUME NEW e \in Ids, RequeueDead(e) \/ Purge(e) PROVE AttemptsPaid'
  <2> SUFFICES ASSUME NEW i \in Ids PROVE PaidAt(i)'
    BY DEF AttemptsPaid
  <2>1. row'[i].status = "pending" =>
          row[i].status = "pending" /\ row'[i].attempts = row[i].attempts
    <3>1. CASE RequeueDead(e)
      BY <3>1 DEF RequeueDead, TypeOK, Row
    <3>2. CASE Purge(e)
      BY <3>2 DEF Purge, TypeOK, Row
    <3> QED
      BY <1>6, <3>1, <3>2
  <2>2. job' = job /\ faults' = faults
    BY <1>6 DEF RequeueDead, Purge
  <2> QED
    BY <2>1, <2>2, PaidKept DEF AttemptsPaid, Unspoilt
<1>7. ASSUME NEW r \in Relays,
             Crash(r) \/ (\E e \in Ids : SettleError(r, e) \/ \E h \in Handlers : HandlerFail(r, e, h))
      PROVE  AttemptsPaid'
  BY <1>5, <1>7 DEF Crash, SettleError, HandlerFail
<1>8. CASE UNCHANGED vars
  BY <1>8 DEF vars, AttemptsPaid, PaidAt, InHand, Unspoilt
<1> QED
  BY <1>1, <1>2, <1>3, <1>4, <1>6, <1>7, <1>8, PaidClaim, PaidSettle, PaidRelease, PaidTick
     DEF Next, Settle

(* A deploy burns no attempt: for any number of relays, graceful stops at   *)
(* any point of a drain and releases late or in time, what a row's counter  *)
(* holds is the faults so far and the holds of now (release,                *)
(* abandonInFlight).                                                        *)
THEOREM StopsBurnNothing == Spec => []DeployBurnsNothing
<1> DEFINE Ind == TypeOK /\ TokensPositive /\ CoreInv /\ AttemptsPaid
<1>1. Init => Ind
  BY TypeInit, CoreInit, PaidInit
<1>2. Ind /\ [Next]_vars => Ind'
  BY TypeStep, CoreStep, PaidStep
<1>3. Ind => DeployBurnsNothing
  <2> SUFFICES ASSUME Ind, NEW e \in Ids, row[e].status = "pending"
               PROVE  row[e].attempts <= faults + Cardinality({r \in Relays : Holds(r, e)})
    BY DEF DeployBurnsNothing
  <2> DEFINE H == {r \in Relays : Holds(r, e)}
  <2>1. IsFiniteSet(H) /\ Cardinality(H) \in Nat
    BY FS_Subset, FS_CardinalityType, ConstantsAssumption
  <2>2. InHand(e) <= Cardinality(H) /\ InHand(e) \in {0, 1}
    <3>1. \A r \in Relays : Unspoilt(r, e) => r \in H
      BY DEF CoreInv, CoreAt, Unspoilt
    <3>2. H # {} => Cardinality(H) # 0
      BY <2>1, FS_EmptySet
    <3> HIDE DEF H
    <3> QED
      BY <2>1, <3>1, <3>2 DEF InHand
  <2>3. row[e].attempts \in Nat /\ faults \in Nat
    BY ConstantsAssumption DEF TypeOK, Row
  <2>4. row[e].attempts <= faults + InHand(e)
    BY DEF AttemptsPaid, PaidAt
  <2> HIDE DEF H
  <2>5. row[e].attempts <= faults + Cardinality(H)
    BY <2>1, <2>2, <2>3, <2>4
  <2> QED
    BY <2>5 DEF H
<1> QED
  BY <1>1, <1>2, <1>3, PTL DEF Spec

=============================================================================

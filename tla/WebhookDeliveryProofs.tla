----------------------- MODULE WebhookDeliveryProofs -----------------------
(***************************************************************************)
(* Proofs about WebhookDelivery, for any deliveries, workers and bounds.   *)
(* Leases: whoever holds a delivery has its own attempt number, and only a *)
(* worker that claimed it dead can hold the current one of a dead row.     *)
(* Requests: every worker that may still reach the customer, and the row   *)
(* if it may be claimed again, is paid for by a fault or is the first.     *)
(* Notices: past its lookup, a worker is in "others" and settles once.     *)
(***************************************************************************)
EXTENDS WebhookDelivery, FiniteSetTheorems, TLAPS

Holds(w, d) == d \in DOMAIN hold[w]

(* Where a worker is, it has what it needs, and an outcome only to settle. *)
WorkersOK ==
    \A w \in Workers :
        /\ pc[w] = "idle" => DOMAIN hold[w] = {}
        /\ pc[w] \in {"sending", "settling"} => Holds(w, cur[w])
        /\ pc[w] # "settling" => outcome[w] = Failure

(* No two holders have the same attempt; who holds a dead row's attempt     *)
(* claimed it dead, and releasing it cannot bring an older one back.        *)
LeaseOK(d) ==
    \A w \in Workers : Holds(w, d) =>
        /\ row[d].status # "absent"
        /\ hold[w][d].wasDead => row[d].status # "live"
        /\ row[d].status \in {"live", "dead"} =>
             /\ hold[w][d].attempts <= row[d].attempts
             /\ \A v \in Workers \ {w} : Holds(v, d) => hold[v][d].attempts # hold[w][d].attempts
        /\ row[d].status = "dead" /\ ~hold[w][d].wasDead =>
             /\ hold[w][d].attempts < row[d].attempts
             /\ \A v \in Workers : Holds(v, d) /\ hold[v][d].wasDead =>
                  hold[w][d].attempts + 1 < hold[v][d].attempts
LeasesOK == \A d \in Deliveries : LeaseOK(d)

(* The counter is the number of those that died, each counted once. *)
CountersOK ==
    /\ endpoint.failures = Cardinality(victims)
    /\ \A d \in victims \cup nameless : row[d].status \notin {"absent", "live"}

PastLookup == {w \in Workers : pc[w] = "sending" \/ outcome[w].org}

(* Who may still announce the endpoint has not yet. *)
NoticesOK ==
    /\ notices = 0 => others = {}
    /\ notices > 0 => /\ endpoint.state # "enabled"
                      /\ PastLookup \subseteq others
                      /\ notices + Cardinality(PastLookup) <= 1 + Cardinality(others)

(* Who may still send d, and whether d may be claimed again. *)
Senders(d) == {w \in Workers : Holds(w, d) /\ ~(cur[w] = d /\ outcome[w].ok)}
Current(w, d) == Holds(w, d) /\ hold[w][d].attempts = row[d].attempts
Claimable(d) == /\ row[d].status \in {"live", "dead"}
                /\ row[d].next # "later" \/ \A w \in Workers : ~Current(w, d)
Open(d) == Cardinality(Senders(d)) + (IF Claimable(d) THEN 1 ELSE 0)

RequestOK(d) ==
    /\ ~Exists(d) => taken[d] = 0
    /\ Exists(d) => taken[d] + Open(d) <= faults + 1
RequestsOK == \A d \in Deliveries : RequestOK(d)

IInv == TypeOK /\ WorkersOK /\ LeasesOK /\ CountersOK /\ NoticesOK /\ RequestsOK

-----------------------------------------------------------------------------
(* What an action does to the rows, the claims and the outcomes, for the    *)
(* parts of the invariant.                                                  *)

LEMMA RowTypes ==
    ASSUME TypeOK, NEW d \in Deliveries
    PROVE  /\ row[d] \in Row /\ row[d].attempts \in 0..AttemptBound /\ row[d].attempts \in Nat
           /\ row[d].status \in {"absent", "live", "dead", "success", "gone"}
           /\ row[d].next \in {"null", "due", "later"} /\ taken[d] \in Nat /\ told[d] \in Nat
<1>1. row[d] \in Row
  BY DEF TypeOK
<1> QED
  BY <1>1, WebhookAssumption DEF Row, TypeOK

LEMMA HoldTypes ==
    ASSUME TypeOK, NEW w \in Workers, NEW d \in DOMAIN hold[w]
    PROVE  /\ d \in Deliveries /\ hold[w][d] \in Job
           /\ hold[w][d].attempts \in 1..AttemptBound /\ hold[w][d].attempts \in Nat \ {0}
           /\ hold[w][d].wasDead \in BOOLEAN
<1>1. d \in Deliveries /\ hold[w][d] \in Job
  BY DEF TypeOK
<1> QED
  BY <1>1, WebhookAssumption DEF Job

(* Dropping, or forgetting everything. *)
LEMMA DropHold ==
    ASSUME TypeOK, NEW w \in Workers, NEW d,
           \/ hold' = [hold EXCEPT ![w] = Drop(w, d)] \/ hold' = [hold EXCEPT ![w] = NoHold]
    PROVE  /\ DOMAIN hold' = Workers
           /\ \A v \in Workers : /\ DOMAIN hold'[v] \subseteq Deliveries
                                 /\ hold'[v] \in [DOMAIN hold'[v] -> Job]
           /\ \A v \in Workers : v # w => hold'[v] = hold[v]
           /\ DOMAIN hold'[w] \subseteq DOMAIN hold[w] \ {d} \/ DOMAIN hold'[w] = {}
           /\ \A e \in DOMAIN hold'[w] : hold'[w][e] = hold[w][e]
<1>1. hold[w] \in [DOMAIN hold[w] -> Job] /\ DOMAIN hold[w] \subseteq Deliveries
  BY DEF TypeOK
<1>2. CASE hold' = [hold EXCEPT ![w] = Drop(w, d)]
  <2>1. hold'[w] = Drop(w, d) /\ DOMAIN hold' = Workers /\ \A v \in Workers : v # w => hold'[v] = hold[v]
    BY <1>2 DEF TypeOK
  <2>2. /\ DOMAIN Drop(w, d) = DOMAIN hold[w] \ {d}
        /\ \A e \in DOMAIN hold[w] \ {d} : Drop(w, d)[e] = hold[w][e]
        /\ Drop(w, d) \in [DOMAIN hold[w] \ {d} -> Job]
    BY <1>1 DEF Drop
  <2> QED
    BY <1>1, <2>1, <2>2 DEF TypeOK
<1>3. CASE hold' = [hold EXCEPT ![w] = NoHold]
  <2>1. hold'[w] = NoHold /\ DOMAIN hold' = Workers /\ \A v \in Workers : v # w => hold'[v] = hold[v]
    BY <1>3 DEF TypeOK
  <2>2. DOMAIN NoHold = {} /\ NoHold \in [{} -> Job]
    BY DEF NoHold
  <2> QED
    BY <1>1, <2>1, <2>2 DEF TypeOK
<1> QED
  BY <1>2, <1>3

LEMMA RowUpdate ==
    ASSUME TypeOK, NEW d \in Deliveries, NEW r \in Row, row' = [row EXCEPT ![d] = r]
    PROVE  /\ row' \in [Deliveries -> Row] /\ row'[d] = r
           /\ \A e \in Deliveries : e # d => row'[e] = row[e]
BY DEF TypeOK

(* A new delivery, and what is left of one. *)
LEMMA NewRow ==
    ASSUME NEW next \in {"null", "due"}
    PROVE  /\ [Absent EXCEPT !.status = "live", !.next = next] \in Row
           /\ [Absent EXCEPT !.status = "gone"] \in Row /\ Absent \in Row
<1>1. AttemptBound \in Nat \ {0} /\ 0 \in 0..AttemptBound
  BY WebhookAssumption
<1> QED
  BY <1>1 DEF Absent, Row

(* Claims, leases that end, releases and settles keep what the row says     *)
(* besides.                                                                 *)
LEMMA ClaimedType ==
    ASSUME NEW r \in Row, r.attempts < AttemptBound
    PROVE  /\ ClaimedRow(r) \in Row /\ ClaimedRow(r).status = r.status
           /\ ClaimedRow(r).attempts = r.attempts + 1 /\ ClaimedRow(r).next = "later"
<1>1. r.attempts + 1 \in 0..AttemptBound
  BY WebhookAssumption DEF Row
<1> QED
  BY <1>1 DEF ClaimedRow, Row

LEMMA SettledType ==
    ASSUME NEW w \in Workers, NEW r \in Row
    PROVE  /\ SettledRow(w, r) \in Row /\ SettledRow(w, r).attempts = r.attempts
           /\ SettledRow(w, r).status = IF outcome[w].ok THEN "success"
                                        ELSE IF Dies(w) THEN "dead" ELSE r.status
BY DEF SettledRow, Row

LEMMA OutcomeTypes ==
    /\ Failure \in Outcome
    /\ [Failure EXCEPT !.terminal = TRUE] \in Outcome
    /\ \A public \in BOOLEAN :
         [Failure EXCEPT !.org = TRUE, !.terminal = ~public, !.logs = ~public] \in Outcome
    /\ \A ok \in BOOLEAN :
         [ok |-> ok, terminal |-> FALSE, org |-> TRUE, logs |-> TRUE, sent |-> TRUE] \in Outcome
BY DEF Failure, Outcome

(* One fault at most. *)
LEMMA FaultTypes ==
    ASSUME TypeOK, UNCHANGED faults \/ Fault
    PROVE  faults' \in 0..FaultBound /\ faults' \in {faults, faults + 1} /\ faults \in Nat
<1>1. faults \in Nat /\ faults <= FaultBound /\ FaultBound \in Nat
  BY WebhookAssumption DEF TypeOK
<1> QED
  BY <1>1 DEF Fault

LEMMA EndpointTypes ==
    ASSUME TypeOK
    PROVE  /\ endpoint \in Endpoint /\ endpoint.failures \in Nat
           /\ Reset(endpoint) \in Endpoint /\ Reset(endpoint).failures = 0
           /\ Reset(endpoint).state = endpoint.state
           /\ [Reset(endpoint) EXCEPT !.state = "enabled"] \in Endpoint
           /\ [Reset(endpoint) EXCEPT !.state = "enabled"].failures = 0
           /\ Bumped \in Endpoint /\ Bumped.failures = endpoint.failures + 1
           /\ Bumped.state = endpoint.state
           /\ [Bumped EXCEPT !.state = "disabled"] \in Endpoint
           /\ [Bumped EXCEPT !.state = "disabled"].failures = endpoint.failures + 1
           /\ [Bumped EXCEPT !.state = "disabled"].state = "disabled"
<1>1. endpoint \in Endpoint /\ endpoint.failures \in Nat
  BY DEF TypeOK, Endpoint
<1>2. /\ Reset(endpoint) \in Endpoint /\ Reset(endpoint).failures = 0
      /\ Reset(endpoint).state = endpoint.state
  BY <1>1 DEF Endpoint, Reset
<1>3. /\ [Reset(endpoint) EXCEPT !.state = "enabled"] \in Endpoint
      /\ [Reset(endpoint) EXCEPT !.state = "enabled"].failures = 0
  BY <1>2 DEF Endpoint
<1>4. Bumped \in Endpoint /\ Bumped.failures = endpoint.failures + 1 /\ Bumped.state = endpoint.state
  BY <1>1 DEF Endpoint, Bumped
<1>5. /\ [Bumped EXCEPT !.state = "disabled"] \in Endpoint
      /\ [Bumped EXCEPT !.state = "disabled"].failures = endpoint.failures + 1
      /\ [Bumped EXCEPT !.state = "disabled"].state = "disabled"
  BY <1>4 DEF Endpoint
<1> QED
  BY <1>1, <1>2, <1>3, <1>4, <1>5

(* The two ends of a lookup: a request to make, or an outcome to settle.    *)
LEMMA LookupEffect ==
    ASSUME TypeOK, NEW w \in Workers, NEW d \in Deliveries, Lookup(w, d)
    PROVE  /\ UNCHANGED faults \/ Fault
           /\ \/ pc' = [pc EXCEPT ![w] = "sending"] /\ outcome' = outcome /\ Finds
              \/ /\ pc' = [pc EXCEPT ![w] = "settling"]
                 /\ \E o \in Outcome : /\ outcome' = [outcome EXCEPT ![w] = o]
                                       /\ ~o.ok /\ (o.org => Finds)
<1>1. CASE ~Finds /\ UNCHANGED faults
           /\ outcome' = [outcome EXCEPT ![w] = [Failure EXCEPT !.terminal = TRUE]]
           /\ pc' = [pc EXCEPT ![w] = "settling"]
  <2>1. ~[Failure EXCEPT !.terminal = TRUE].ok /\ ~[Failure EXCEPT !.terminal = TRUE].org
    BY DEF Failure
  <2> QED
    BY <1>1, <2>1, OutcomeTypes
<1>2. CASE Fault /\ outcome' = [outcome EXCEPT ![w] = Failure] /\ pc' = [pc EXCEPT ![w] = "settling"]
  <2>1. ~Failure.ok /\ ~Failure.org
    BY DEF Failure
  <2> QED
    BY <1>2, <2>1, OutcomeTypes
<1>3. ASSUME Finds, Fault, pc' = [pc EXCEPT ![w] = "settling"], NEW public \in BOOLEAN,
             outcome' = [outcome EXCEPT ![w] =
               [Failure EXCEPT !.org = TRUE, !.terminal = ~public, !.logs = ~public]]
      PROVE  \E o \in Outcome : outcome' = [outcome EXCEPT ![w] = o] /\ ~o.ok /\ (o.org => Finds)
  <2>1. ~[Failure EXCEPT !.org = TRUE, !.terminal = ~public, !.logs = ~public].ok
    BY DEF Failure
  <2> QED
    BY <1>3, <2>1, OutcomeTypes
<1>4. CASE Finds /\ pc' = [pc EXCEPT ![w] = "sending"] /\ UNCHANGED <<outcome, faults>>
  BY <1>4
<1> QED
  BY <1>1, <1>2, <1>3, <1>4 DEF Lookup

-----------------------------------------------------------------------------
LEMMA Initially == Init => IInv
<1> SUFFICES ASSUME Init
             PROVE  IInv
  OBVIOUS
<1>1. Cardinality({}) = 0
  BY FS_EmptySet
<1>2. \A w \in Workers : hold[w] = NoHold /\ DOMAIN hold[w] = {}
  BY DEF Init, NoHold
<1>3. TypeOK
  <2>1. \A w \in Workers : hold[w] \in [DOMAIN hold[w] -> Job]
    BY <1>2 DEF NoHold
  <2>2. row \in [Deliveries -> Row] /\ outcome \in [Workers -> Outcome] /\ endpoint \in Endpoint
    BY NewRow, OutcomeTypes DEF Init, Endpoint
  <2> QED
    BY <1>2, <2>1, <2>2, WebhookAssumption DEF Init, TypeOK
<1>4. WorkersOK /\ LeasesOK
  BY <1>2 DEF Init, WorkersOK, LeasesOK, LeaseOK, Holds
<1>5. CountersOK /\ NoticesOK
  BY <1>1 DEF Init, CountersOK, NoticesOK
<1>6. RequestsOK
  BY DEF Init, RequestsOK, RequestOK, Exists, Absent
<1> QED
  BY <1>3, <1>4, <1>5, <1>6 DEF IInv

-----------------------------------------------------------------------------
(* One lemma per action for the types and the workers. *)

Base == TypeOK /\ WorkersOK

LEMMA InsertBase ==
    ASSUME Base, NEW d \in Deliveries, NEW next \in {"null", "due"}, Insert(d, next),
           UNCHANGED <<endpoint, worker, history, faults>>
    PROVE  Base'
<1>1. row' \in [Deliveries -> Row]
  BY NewRow DEF Insert, Base, TypeOK
<1> QED
  BY <1>1 DEF Base, TypeOK, WorkersOK, Holds, worker, history

LEMMA ClaimBase ==
    ASSUME Base, NEW w \in Workers, Claim(w)
    PROVE  Base'
<1> PICK S \in SUBSET {d \in LiveDue \cup DeadDue : row[d].attempts < AttemptBound} :
      /\ row' = [d \in Deliveries |-> IF d \in S THEN ClaimedRow(row[d]) ELSE row[d]]
      /\ hold' = [hold EXCEPT ![w] = [d \in S |->
                    [attempts |-> row[d].attempts + 1, wasDead |-> row[d].status = "dead"]]]
  BY DEF Claim
<1>0. TypeOK
  BY DEF Base
<1>1. S \subseteq Deliveries
  BY DEF LiveDue, DeadDue
<1>2. row' \in [Deliveries -> Row]
  BY <1>0, <1>1, RowTypes, ClaimedType
<1>3. \A d \in S : [attempts |-> row[d].attempts + 1, wasDead |-> row[d].status = "dead"] \in Job
  <2> SUFFICES ASSUME NEW d \in S
               PROVE  row[d].attempts + 1 \in 1..AttemptBound
    BY DEF Job
  <2>1. row[d].attempts \in Nat /\ row[d].attempts < AttemptBound /\ AttemptBound \in Nat
    BY <1>0, <1>1, RowTypes, WebhookAssumption
  <2> QED
    BY <2>1
<1>4. /\ DOMAIN hold' = Workers /\ \A v \in Workers : v # w => hold'[v] = hold[v]
      /\ DOMAIN hold'[w] = S /\ hold'[w] \in [S -> Job]
  BY <1>0, <1>3 DEF TypeOK
<1>5. TypeOK'
  <2>1. \A v \in Workers : DOMAIN hold'[v] \subseteq Deliveries /\ hold'[v] \in [DOMAIN hold'[v] -> Job]
    BY <1>0, <1>1, <1>4 DEF TypeOK
  <2>2. pc' \in [Workers -> {"idle", "looping", "releasing", "sending", "settling"}]
    BY <1>0 DEF TypeOK, Claim
  <2> QED
    BY <1>0, <1>2, <1>4, <2>1, <2>2 DEF TypeOK, Claim, history
<1>6. WorkersOK'
  BY <1>0, <1>4 DEF Base, Claim, TypeOK, WorkersOK, Holds
<1> QED
  BY <1>5, <1>6 DEF Base

LEMMA StepsBase ==
    ASSUME Base, NEW w \in Workers,
           GiveUpRest(w) \/ BatchDone(w) \/ (\E d \in Deliveries : Lookup(w, d))
    PROVE  Base'
<1>1. CASE GiveUpRest(w) \/ BatchDone(w)
  <2>1. DOMAIN NoHold = {}
    BY DEF NoHold
  <2> QED
    BY <1>1, <2>1 DEF Base, TypeOK, WorkersOK, GiveUpRest, BatchDone, history, Holds
<1>2. ASSUME NEW d \in Deliveries, Lookup(w, d)
      PROVE  Base'
  <2>1. /\ pc' \in [Workers -> {"idle", "looping", "releasing", "sending", "settling"}]
        /\ cur' \in [Workers -> Deliveries \cup {NoDelivery}] /\ outcome' \in [Workers -> Outcome]
    <3>1. /\ \E p \in {"sending", "settling"} : pc' = [pc EXCEPT ![w] = p]
          /\ cur' = [cur EXCEPT ![w] = d]
          /\ \/ outcome' = outcome
             \/ \E o \in Outcome : outcome' = [outcome EXCEPT ![w] = o]
      <4>1. cur' = [cur EXCEPT ![w] = d]
        BY <1>2 DEF Lookup
      <4> QED
        BY <1>2, <4>1, LookupEffect DEF Base
    <3> QED
      BY <3>1 DEF Base, TypeOK
  <2>2. faults' \in 0..FaultBound
    BY <1>2, LookupEffect, FaultTypes DEF Base
  <2>3. TypeOK'
    BY <1>2, <2>1, <2>2 DEF Base, TypeOK, Lookup, history
  <2>4. WorkersOK'
    <3>1. \A v \in Workers : v # w => pc'[v] = pc[v] /\ cur'[v] = cur[v] /\ outcome'[v] = outcome[v]
      BY <1>2 DEF Base, TypeOK, Lookup
    <3>2. cur'[w] = d /\ Holds(w, d) /\ hold' = hold
      BY <1>2 DEF Base, TypeOK, Lookup, Holds
    <3>3. pc'[w] = "settling" \/ (pc'[w] = "sending" /\ outcome'[w] = outcome[w])
      BY <1>2, LookupEffect DEF Base, TypeOK
    <3>4. outcome[w] = Failure
      BY <1>2 DEF Base, WorkersOK, Lookup
    <3> QED
      BY <3>1, <3>2, <3>3, <3>4 DEF Base, WorkersOK, Holds
  <2> QED
    BY <2>3, <2>4 DEF Base
<1> QED
  BY <1>1, <1>2

LEMMA SendBase ==
    ASSUME Base, NEW w \in Workers, Send(w)
    PROVE  Base'
<1>1. cur[w] \in Deliveries /\ Holds(w, cur[w])
  BY DEF Base, WorkersOK, Send, TypeOK, Holds
<1>2. taken' \in [Deliveries -> Nat]
  BY <1>1 DEF Base, TypeOK, Send, Took
<1>3. outcome' \in [Workers -> Outcome]
  BY OutcomeTypes DEF Base, TypeOK, Send
<1>4. faults' \in 0..FaultBound
  BY FaultTypes DEF Base, Send
<1>5. pc' = [pc EXCEPT ![w] = "settling"] /\ UNCHANGED <<row, endpoint, hold, cur, told, notices,
        others, victims, nameless>> /\ \A v \in Workers : v # w => outcome'[v] = outcome[v]
  BY DEF Base, TypeOK, Send
<1> QED
  BY <1>1, <1>2, <1>3, <1>4, <1>5 DEF Base, TypeOK, WorkersOK, Holds

LEMMA ReleaseBase ==
    ASSUME Base, NEW w \in Workers, NEW d \in Deliveries, Release(w, d)
    PROVE  Base'
<1>0. TypeOK /\ Holds(w, d)
  BY DEF Base, Release, Holds
<1>1. row' \in [Deliveries -> Row]
  <2>1. CASE Leased(w, d)
    <3>1. row[d].attempts - 1 \in 0..AttemptBound
      BY <1>0, <2>1, HoldTypes, RowTypes, WebhookAssumption DEF Leased, Holds
    <3>2. [row[d] EXCEPT !.attempts = @ - 1, !.next = "due"] \in Row
      BY <1>0, <3>1, RowTypes DEF Row
    <3> QED
      BY <1>0, <2>1, <3>2 DEF Release, TypeOK
  <2> QED
    BY <1>0, <2>1 DEF Release, TypeOK
<1>2. faults' \in 0..FaultBound
  BY <1>0, FaultTypes DEF Release
<1>3. hold' = [hold EXCEPT ![w] = Drop(w, d)] /\ UNCHANGED <<endpoint, pc, cur, outcome, history>>
      /\ pc[w] = "releasing"
  BY DEF Release
<1>4. TypeOK'
  BY <1>0, <1>1, <1>2, <1>3, DropHold DEF TypeOK, history
<1>5. WorkersOK'
  <2>1. \A v \in Workers : v # w => hold'[v] = hold[v]
    BY <1>0, <1>3, DropHold
  <2> QED
    BY <1>3, <2>1 DEF Base, WorkersOK, Holds
<1> QED
  BY <1>4, <1>5 DEF Base

LEMMA SettleBase ==
    ASSUME Base, NEW w \in Workers, Settle(w)
    PROVE  Base'
<1> DEFINE d == cur[w]
<1>0. TypeOK /\ Holds(w, d) /\ d \in Deliveries
  BY DEF Base, Settle, WorkersOK, TypeOK, Holds
<1>1. /\ row' \in [Deliveries -> Row] /\ endpoint' \in Endpoint
      /\ told' \in [Deliveries -> Nat] /\ taken' = taken /\ notices' \in Nat
      /\ others' \subseteq Workers /\ victims' \subseteq Deliveries /\ nameless' \subseteq Deliveries
      /\ faults' \in 0..FaultBound
  <2>1. CASE SaveOutcome(w, d) /\ Leased(w, d)
    <3>1. row' = [row EXCEPT ![d] = SettledRow(w, row[d])]
      BY <1>0, <2>1 DEF SaveOutcome, TypeOK
    <3>2. row' \in [Deliveries -> Row]
      BY <1>0, <3>1, RowTypes, SettledType DEF TypeOK
    <3>3. Reset(endpoint) \in Endpoint /\ Bumped \in Endpoint
          /\ [Bumped EXCEPT !.state = "disabled"] \in Endpoint
      BY <1>0, EndpointTypes
    <3>4. endpoint' \in Endpoint
      BY <1>0, <2>1, <3>3 DEF SaveOutcome, TerminalFailureBlock, TypeOK
    <3>5. told' \in [Deliveries -> Nat] /\ notices' \in Nat
      BY <1>0, <2>1 DEF SaveOutcome, TerminalFailureBlock, TypeOK
    <3>6. others' \subseteq Workers /\ victims' \subseteq Deliveries /\ nameless' \subseteq Deliveries
      BY <1>0, <2>1 DEF SaveOutcome, TerminalFailureBlock, TypeOK
    <3> QED
      BY <1>0, <2>1, <3>2, <3>4, <3>5, <3>6 DEF SaveOutcome, TypeOK
  <2>2. CASE SaveOutcome(w, d) /\ ~Leased(w, d)
    BY <1>0, <2>2 DEF SaveOutcome, TypeOK
  <2>3. CASE UNCHANGED <<row, endpoint, history, faults>>
    BY <1>0, <2>3 DEF TypeOK, history
  <2>4. CASE Fault /\ UNCHANGED <<row, endpoint, history>>
    BY <1>0, <2>4, FaultTypes DEF TypeOK, history
  <2> QED
    BY <2>1, <2>2, <2>3, <2>4 DEF Settle
<1>2. /\ hold' = [hold EXCEPT ![w] = Drop(w, d)] /\ pc' = [pc EXCEPT ![w] = "looping"]
      /\ outcome' = [outcome EXCEPT ![w] = Failure] /\ cur' = [cur EXCEPT ![w] = NoDelivery]
  BY DEF Settle
<1>3. TypeOK'
  <2>1. /\ pc' \in [Workers -> {"idle", "looping", "releasing", "sending", "settling"}]
        /\ cur' \in [Workers -> Deliveries \cup {NoDelivery}] /\ outcome' \in [Workers -> Outcome]
    BY <1>0, <1>2, OutcomeTypes DEF TypeOK
  <2>2. /\ DOMAIN hold' = Workers
        /\ \A v \in Workers : DOMAIN hold'[v] \subseteq Deliveries /\ hold'[v] \in [DOMAIN hold'[v] -> Job]
    BY <1>0, <1>2, DropHold
  <2> QED
    BY <1>0, <1>1, <2>1, <2>2 DEF TypeOK
<1>4. WorkersOK'
  <2>1. \A v \in Workers : v # w => hold'[v] = hold[v]
    BY <1>0, <1>2, DropHold
  <2> QED
    BY <1>0, <1>2, <2>1 DEF Base, WorkersOK, Holds, TypeOK
<1> QED
  BY <1>3, <1>4 DEF Base

LEMMA CrashBase ==
    ASSUME Base, NEW w \in Workers, Crash(w)
    PROVE  Base'
<1>0. TypeOK
  BY DEF Base
<1>1. /\ DOMAIN hold' = Workers
      /\ \A v \in Workers : DOMAIN hold'[v] \subseteq Deliveries /\ hold'[v] \in [DOMAIN hold'[v] -> Job]
      /\ \A v \in Workers : v # w => hold'[v] = hold[v]
      /\ DOMAIN hold'[w] = {}
  <2>1. hold' = [hold EXCEPT ![w] = NoHold] /\ DOMAIN NoHold = {}
    BY DEF Crash, NoHold
  <2> QED
    BY <1>0, <2>1, DropHold DEF TypeOK
<1>2. faults' \in 0..FaultBound
  BY <1>0, FaultTypes DEF Crash
<1>3. TypeOK'
  BY <1>0, <1>1, <1>2, OutcomeTypes DEF TypeOK, Crash, history
<1>4. WorkersOK'
  BY <1>0, <1>1 DEF Base, WorkersOK, Holds, TypeOK, Crash
<1> QED
  BY <1>3, <1>4 DEF Base

LEMMA OthersBase ==
    ASSUME Base,
           \/ \E d \in Deliveries : ComesDue(d) \/ Sweep(d)
           \/ DaysPass \/ Enable \/ Disable \/ Delete
    PROVE  Base'
<1>0. TypeOK
  BY DEF Base
<1>1. WorkersOK'
  BY DEF Base, WorkersOK, Holds, worker, ComesDue, Sweep, DaysPass, Enable, Disable, Delete, Remove
<1>2. ASSUME NEW d \in Deliveries, ComesDue(d)
      PROVE  TypeOK'
  <2>1. [row[d] EXCEPT !.next = "due"] \in Row
    BY <1>0, RowTypes DEF Row
  <2>2. row' \in [Deliveries -> Row]
    BY <1>0, <1>2, <2>1 DEF ComesDue, TypeOK
  <2>3. faults' \in 0..FaultBound
    BY <1>0, <1>2, FaultTypes DEF ComesDue
  <2> QED
    BY <1>0, <1>2, <2>2, <2>3 DEF ComesDue, TypeOK, worker, history
<1>3. ASSUME NEW S, Remove(S), endpoint' \in Endpoint
      PROVE  TypeOK'
  <2>1. row' \in [Deliveries -> Row] /\ taken' \in [Deliveries -> Nat]
    BY <1>0, <1>3, NewRow DEF Remove, TypeOK
  <2> QED
    BY <1>0, <1>3, <2>1 DEF Remove, TypeOK, worker
<1>4. ASSUME DaysPass \/ Enable \/ Disable
      PROVE  TypeOK'
  <2>1. endpoint' \in Endpoint
    <3>1. [endpoint EXCEPT !.old = TRUE] \in Endpoint /\ [endpoint EXCEPT !.state = "disabled"] \in Endpoint
      BY <1>0 DEF TypeOK, Endpoint
    <3> QED
      BY <1>0, <1>4, <3>1, EndpointTypes DEF DaysPass, Enable, Disable
  <2>2. others' \subseteq Workers /\ victims' \subseteq Deliveries /\ notices' \in Nat
    BY <1>0, <1>4 DEF DaysPass, Enable, Disable, TypeOK, history
  <2> QED
    <3>1. UNCHANGED <<row, worker, told, nameless, taken, faults>>
      BY <1>4 DEF DaysPass, Enable, Disable, history
    <3> QED
      BY <1>0, <2>1, <2>2, <3>1 DEF TypeOK, worker
<1>5. ASSUME Delete
      PROVE  TypeOK'
  <2>1. [endpoint EXCEPT !.state = "deleted"] \in Endpoint
    BY <1>0 DEF TypeOK, Endpoint
  <2> QED
    BY <1>3, <1>5, <2>1 DEF Delete
<1>6. ASSUME NEW d \in Deliveries, Sweep(d)
      PROVE  TypeOK'
  BY <1>0, <1>3, <1>6 DEF Sweep, TypeOK
<1> QED
  BY <1>1, <1>2, <1>4, <1>5, <1>6 DEF Base

LEMMA BaseStep == Base /\ [Next]_vars => Base'
<1> SUFFICES ASSUME Base, [Next]_vars
             PROVE  Base'
  OBVIOUS
<1>1. ASSUME NEW d \in Deliveries,
             FanOut(d) \/ SendTest(d) \/ (\E old \in Deliveries : ReplayDelivery(d, old))
      PROVE  Base'
  BY <1>1, InsertBase DEF FanOut, SendTest, ReplayDelivery
<1>2. ASSUME NEW w \in Workers,
             \/ Claim(w) \/ GiveUpRest(w) \/ BatchDone(w) \/ Send(w) \/ Settle(w) \/ Crash(w)
             \/ (\E d \in Deliveries : Release(w, d) \/ Lookup(w, d))
      PROVE  Base'
  BY <1>2, ClaimBase, StepsBase, SendBase, SettleBase, CrashBase, ReleaseBase
<1>3. CASE UNCHANGED vars
  BY <1>3 DEF vars, worker, history, Base, TypeOK, WorkersOK, Holds
<1> QED
  BY <1>1, <1>2, <1>3, OthersBase DEF Next

-----------------------------------------------------------------------------
(* Leases. *)

LEMMA HoldsShrink ==
    ASSUME TypeOK, NEW w \in Workers, NEW x,
           \/ hold' = [hold EXCEPT ![w] = Drop(w, x)] \/ hold' = [hold EXCEPT ![w] = NoHold]
    PROVE  /\ \A d \in Deliveries, v \in Workers :
                Holds(v, d)' => Holds(v, d) /\ hold'[v][d] = hold[v][d]
           /\ x \notin DOMAIN hold'[w]
           /\ \A d \in Deliveries, v \in Workers \ {w} : Holds(v, d)' <=> Holds(v, d)
BY DropHold DEF Holds

LEMMA DropKeepsOthers ==
    ASSUME TypeOK, NEW w \in Workers, NEW x, hold' = [hold EXCEPT ![w] = Drop(w, x)]
    PROVE  \A d \in Deliveries \ {x}, v \in Workers : Holds(v, d)' <=> Holds(v, d)
<1>1. hold'[w] = Drop(w, x) /\ \A v \in Workers \ {w} : hold'[v] = hold[v]
  BY DEF TypeOK
<1> QED
  BY <1>1 DEF Holds, Drop

(* Dropped, forgotten or kept claims, on a row that keeps its status and    *)
(* attempts or is out of the queue.                                         *)
LEMMA LeaseKept ==
    ASSUME NEW d \in Deliveries, LeaseOK(d),
           \A v \in Workers : Holds(v, d)' => Holds(v, d) /\ hold'[v][d] = hold[v][d],
           \/ row'[d].status = row[d].status /\ row'[d].attempts = row[d].attempts
           \/ row'[d].status \in {"success", "gone"}
    PROVE  LeaseOK(d)'
BY DEF LeaseOK

(* Whose lease holds knows whether the row had died. *)
LEMMA LeaseKnows ==
    ASSUME TypeOK, NEW d \in Deliveries, LeaseOK(d), NEW w \in Workers, Holds(w, d), Leased(w, d)
    PROVE  row[d].status = IF hold[w][d].wasDead THEN "dead" ELSE "live"
<1>1. hold[w][d].attempts \in Nat /\ hold[w][d].attempts = row[d].attempts
  BY HoldTypes DEF Holds, Leased
<1> QED
  BY <1>1 DEF LeaseOK, Leased

LEMMA SettleEffect ==
    ASSUME Base, NEW w \in Workers, Settle(w)
    PROVE  /\ cur[w] \in Deliveries /\ Holds(w, cur[w])
           /\ hold' = [hold EXCEPT ![w] = Drop(w, cur[w])] /\ taken' = taken
           /\ UNCHANGED faults \/ Fault
           /\ \/ UNCHANGED <<row, endpoint, told, notices, others, victims, nameless>>
              \/ /\ SaveOutcome(w, cur[w]) /\ Leased(w, cur[w])
                 /\ row' = [row EXCEPT ![cur[w]] = SettledRow(w, row[cur[w]])]
<1>1. cur[w] \in Deliveries /\ Holds(w, cur[w])
  BY DEF Base, WorkersOK, Settle, TypeOK, Holds
<1>2. CASE SaveOutcome(w, cur[w])
  BY <1>1, <1>2 DEF SaveOutcome, Settle, Base, TypeOK
<1>3. CASE UNCHANGED <<row, endpoint, history, faults>>
  BY <1>1, <1>3 DEF history, Settle
<1>4. CASE Fault /\ UNCHANGED <<row, endpoint, history>>
  BY <1>1, <1>4 DEF history, Settle
<1> QED
  BY <1>2, <1>3, <1>4 DEF Settle

LEMMA ClaimLeases ==
    ASSUME Base, LeasesOK, NEW w \in Workers, Claim(w)
    PROVE  LeasesOK'
<1> SUFFICES ASSUME NEW d \in Deliveries
             PROVE  LeaseOK(d)'
  BY DEF LeasesOK
<1> PICK S \in SUBSET {e \in LiveDue \cup DeadDue : row[e].attempts < AttemptBound} :
      /\ row' = [e \in Deliveries |-> IF e \in S THEN ClaimedRow(row[e]) ELSE row[e]]
      /\ hold' = [hold EXCEPT ![w] = [e \in S |->
                    [attempts |-> row[e].attempts + 1, wasDead |-> row[e].status = "dead"]]]
  BY DEF Claim
<1>0. TypeOK /\ LeaseOK(d) /\ DOMAIN hold[w] = {}
  BY DEF Base, WorkersOK, LeasesOK, Claim
<1>1. /\ hold'[w] = [e \in S |-> [attempts |-> row[e].attempts + 1, wasDead |-> row[e].status = "dead"]]
      /\ \A v \in Workers \ {w} : hold'[v] = hold[v]
  BY <1>0 DEF TypeOK
<1>2. \A v \in Workers \ {w} : /\ Holds(v, d)' <=> Holds(v, d)
                               /\ hold'[v][d] = hold[v][d]
  BY <1>1 DEF Holds
<1>3. (Holds(w, d)' <=> d \in S) /\ ~Holds(w, d)
  BY <1>0, <1>1 DEF Holds
<1>4. CASE d \notin S
  <2>1. row'[d] = row[d]
    BY <1>4
  <2> QED
    BY <1>0, <1>2, <1>3, <1>4, <2>1, LeaseKept
<1>5. CASE d \in S
  <2>1. /\ hold'[w][d].attempts = row[d].attempts + 1
        /\ hold'[w][d].wasDead <=> row[d].status = "dead"
    <3>1. hold'[w][d] = [attempts |-> row[d].attempts + 1, wasDead |-> row[d].status = "dead"]
      BY <1>1, <1>5
    <3>2. hold'[w][d].attempts = row[d].attempts + 1
      BY <3>1
    <3>3. \A b \in BOOLEAN : [attempts |-> row[d].attempts + 1, wasDead |-> b].wasDead = b
      OBVIOUS
    <3>4. (row[d].status = "dead") \in BOOLEAN
      OBVIOUS
    <3>5. hold'[w][d].wasDead = (row[d].status = "dead")
      BY <3>1, <3>3, <3>4, Zenon
    <3> QED
      BY <3>2, <3>5
  <2>2. row[d].status \in {"live", "dead"} /\ row[d].attempts < AttemptBound
    BY <1>5 DEF LiveDue, DeadDue
  <2>3. row'[d].status = row[d].status /\ row'[d].attempts = row[d].attempts + 1
    BY <1>0, <1>5, <2>2, ClaimedType, RowTypes
  <2>4. row[d].attempts \in Nat /\ \A v \in Workers : Holds(v, d) => hold[v][d].attempts \in Nat
    BY <1>0, RowTypes, HoldTypes DEF Holds
  <2>5. \A v \in Workers \ {w} : Holds(v, d) =>
          /\ hold[v][d].attempts <= row[d].attempts
          /\ hold[v][d].wasDead => row[d].status # "live"
          /\ \A u \in Workers \ {v} : Holds(u, d) => hold[u][d].attempts # hold[v][d].attempts
    BY <1>0, <2>2 DEF LeaseOK
  <2>6. \A v \in Workers \ {w} : Holds(v, d) /\ row[d].status = "dead" /\ ~hold[v][d].wasDead =>
          /\ hold[v][d].attempts < row[d].attempts
          /\ \A u \in Workers : Holds(u, d) /\ hold[u][d].wasDead =>
               hold[v][d].attempts + 1 < hold[u][d].attempts
    BY <1>0 DEF LeaseOK
  <2>7. ASSUME NEW v \in Workers, v # w, Holds(v, d)
        PROVE  /\ row'[d].status # "absent"
               /\ hold'[v][d].wasDead => row'[d].status # "live"
               /\ hold'[v][d].attempts <= row'[d].attempts
               /\ \A u \in Workers \ {v} : Holds(u, d)' => hold'[u][d].attempts # hold'[v][d].attempts
               /\ row'[d].status = "dead" /\ ~hold'[v][d].wasDead =>
                    /\ hold'[v][d].attempts < row'[d].attempts
                    /\ \A u \in Workers : Holds(u, d)' /\ hold'[u][d].wasDead =>
                         hold'[v][d].attempts + 1 < hold'[u][d].attempts
    <3>1. hold'[v][d] = hold[v][d] /\ hold[v][d].attempts \in Nat /\ row[d].attempts \in Nat
      BY <1>2, <2>4, <2>7
    <3>2. hold[v][d].attempts <= row[d].attempts /\ (hold[v][d].wasDead => row[d].status # "live")
      BY <2>5, <2>7
    <3>3. \A u \in Workers \ {v} : Holds(u, d)' => hold'[u][d].attempts # hold'[v][d].attempts
      BY <1>2, <2>1, <2>5, <2>7, <3>1, <3>2
    <3>4. ASSUME row'[d].status = "dead", ~hold'[v][d].wasDead
          PROVE  /\ hold'[v][d].attempts < row'[d].attempts
                 /\ \A u \in Workers : Holds(u, d)' /\ hold'[u][d].wasDead =>
                      hold'[v][d].attempts + 1 < hold'[u][d].attempts
      <4>1. hold[v][d].attempts < row[d].attempts
        BY <2>3, <2>6, <2>7, <3>1, <3>4
      <4>2. ASSUME NEW u \in Workers, Holds(u, d)', hold'[u][d].wasDead
            PROVE  hold'[v][d].attempts + 1 < hold'[u][d].attempts
        BY <1>2, <2>1, <2>3, <2>6, <2>7, <3>1, <3>4, <4>1, <4>2
      <4> QED
        BY <2>3, <3>1, <4>1, <4>2
    <3>5. /\ row'[d].status # "absent" /\ (hold'[v][d].wasDead => row'[d].status # "live")
          /\ hold'[v][d].attempts <= row'[d].attempts
      BY <2>2, <2>3, <3>1, <3>2
    <3> QED
      BY <3>3, <3>4, <3>5
  <2>8. /\ row'[d].status # "absent"
        /\ hold'[w][d].wasDead => row'[d].status # "live"
        /\ hold'[w][d].attempts <= row'[d].attempts
        /\ \A u \in Workers \ {w} : Holds(u, d)' => hold'[u][d].attempts # hold'[w][d].attempts
        /\ row'[d].status = "dead" => hold'[w][d].wasDead
    BY <1>2, <2>1, <2>2, <2>3, <2>4, <2>5
  <2> QED
    BY <1>2, <2>7, <2>8 DEF LeaseOK
<1> QED
  BY <1>4, <1>5

(* A released lease is the newest: what is left is older, and in a dead row *)
(* what was claimed before the death is older still.                        *)
LEMMA ReleaseLeases ==
    ASSUME Base, LeasesOK, NEW w \in Workers, NEW x \in Deliveries, Release(w, x)
    PROVE  LeasesOK'
<1> SUFFICES ASSUME NEW d \in Deliveries
             PROVE  LeaseOK(d)'
  BY DEF LeasesOK
<1>0. TypeOK /\ LeaseOK(d) /\ Holds(w, x) /\ hold' = [hold EXCEPT ![w] = Drop(w, x)]
  BY DEF Base, LeasesOK, Release, Holds
<1>1. /\ \A v \in Workers : Holds(v, d)' => Holds(v, d) /\ hold'[v][d] = hold[v][d]
      /\ x \notin DOMAIN hold'[w]
  BY <1>0, HoldsShrink
<1>2. CASE row'[d] = row[d]
  BY <1>0, <1>1, <1>2, LeaseKept
<1>3. CASE row'[d] # row[d]
  <2>1. d = x /\ Leased(w, d) /\ row' = [row EXCEPT ![d].attempts = @ - 1, ![d].next = "due"]
    BY <1>0, <1>3 DEF Release, TypeOK
  <2>2. row'[d].status = row[d].status /\ row'[d].attempts = row[d].attempts - 1
    BY <1>0, <2>1, RowTypes DEF TypeOK, Row
  <2>3. row[d].attempts \in Nat /\ \A v \in Workers : Holds(v, d) => hold[v][d].attempts \in Nat
    BY <1>0, RowTypes, HoldTypes DEF Holds
  <2>4. hold[w][d].attempts = row[d].attempts /\ row[d].status \in {"live", "dead"}
    BY <2>1 DEF Leased
  <2>5. row[d].status = "dead" => hold[w][d].wasDead
    BY <1>0, <2>1, LeaseKnows
  <2> SUFFICES ASSUME NEW v \in Workers, Holds(v, d)'
               PROVE  /\ row'[d].status # "absent"
                      /\ hold'[v][d].wasDead => row'[d].status # "live"
                      /\ hold'[v][d].attempts <= row'[d].attempts
                      /\ \A u \in Workers \ {v} : Holds(u, d)' =>
                           hold'[u][d].attempts # hold'[v][d].attempts
                      /\ row'[d].status = "dead" /\ ~hold'[v][d].wasDead =>
                           /\ hold'[v][d].attempts < row'[d].attempts
                           /\ \A u \in Workers : Holds(u, d)' /\ hold'[u][d].wasDead =>
                                hold'[v][d].attempts + 1 < hold'[u][d].attempts
    BY DEF LeaseOK
  <2>6. v # w /\ Holds(v, d) /\ hold'[v][d] = hold[v][d]
    BY <1>1, <2>1 DEF Holds
  <2>7. hold[v][d].attempts <= row[d].attempts /\ hold[v][d].attempts # hold[w][d].attempts
    BY <1>0, <2>1, <2>4, <2>6 DEF LeaseOK
  <2>8. (hold[v][d].wasDead => row[d].status # "live")
        /\ \A u \in Workers \ {v} : Holds(u, d) => hold[u][d].attempts # hold[v][d].attempts
    BY <1>0, <2>4, <2>6 DEF LeaseOK
  <2>9. row[d].status = "dead" /\ ~hold[v][d].wasDead =>
          \A u \in Workers : Holds(u, d) /\ hold[u][d].wasDead =>
            hold[v][d].attempts + 1 < hold[u][d].attempts
    BY <1>0, <2>6 DEF LeaseOK
  <2>10. row[d].status = "dead" /\ ~hold[v][d].wasDead => hold[v][d].attempts + 1 < row[d].attempts
    BY <1>0, <2>1, <2>4, <2>5, <2>9
  <2>11. hold'[v][d].attempts <= row'[d].attempts
    BY <2>2, <2>3, <2>4, <2>6, <2>7
  <2>12. row'[d].status = "dead" /\ ~hold'[v][d].wasDead => hold'[v][d].attempts < row'[d].attempts
    BY <2>2, <2>3, <2>6, <2>10
  <2> QED
    BY <1>1, <2>2, <2>4, <2>6, <2>8, <2>9, <2>11, <2>12
<1> QED
  BY <1>2, <1>3

(* Only the first death of a row makes its older claims stale. *)
LEMMA SettleLeases ==
    ASSUME Base, LeasesOK, NEW w \in Workers, Settle(w)
    PROVE  LeasesOK'
<1> DEFINE x == cur[w]
<1> SUFFICES ASSUME NEW d \in Deliveries
             PROVE  LeaseOK(d)'
  BY DEF LeasesOK
<1>0. TypeOK /\ LeaseOK(d) /\ x \in Deliveries /\ Holds(w, x) /\ hold' = [hold EXCEPT ![w] = Drop(w, x)]
  BY SettleEffect DEF Base, LeasesOK
<1>1. /\ \A v \in Workers : Holds(v, d)' => Holds(v, d) /\ hold'[v][d] = hold[v][d]
      /\ x \notin DOMAIN hold'[w]
  BY <1>0, HoldsShrink
<1>2. CASE row'[d] = row[d]
  BY <1>0, <1>1, <1>2, LeaseKept
<1>3. CASE row'[d] # row[d]
  <2>1. d = x /\ Leased(w, d) /\ row'[d] = SettledRow(w, row[d])
    BY <1>0, <1>3, SettleEffect DEF TypeOK
  <2>2. /\ row'[d].attempts = row[d].attempts
        /\ row'[d].status = IF outcome[w].ok THEN "success" ELSE IF Dies(w) THEN "dead" ELSE row[d].status
    BY <1>0, <2>1, RowTypes, SettledType
  <2>3. CASE row'[d].status \in {row[d].status, "success"}
    BY <1>0, <1>1, <2>2, <2>3, LeaseKept
  <2>4. CASE row'[d].status \notin {row[d].status, "success"}
    <3>1. row'[d].status = "dead" /\ row[d].status = "live" /\ hold[w][d].attempts = row[d].attempts
      BY <2>1, <2>2, <2>4 DEF Leased
    <3>2. row[d].attempts \in Nat /\ \A v \in Workers : Holds(v, d) => hold[v][d].attempts \in Nat
      BY <1>0, RowTypes, HoldTypes DEF Holds
    <3> SUFFICES ASSUME NEW v \in Workers, Holds(v, d)'
                 PROVE  /\ hold'[v][d].attempts < row'[d].attempts /\ ~hold'[v][d].wasDead
                        /\ \A u \in Workers \ {v} : Holds(u, d)' =>
                             ~hold'[u][d].wasDead /\ hold'[u][d].attempts # hold'[v][d].attempts
      BY <1>1, <2>2, <3>1, <3>2 DEF LeaseOK
    <3>3. v # w /\ Holds(v, d) /\ hold'[v][d] = hold[v][d]
      BY <1>1, <2>1 DEF Holds
    <3>4. /\ hold[v][d].attempts <= row[d].attempts /\ hold[v][d].attempts # hold[w][d].attempts
          /\ \A u \in Workers : Holds(u, d) => ~hold[u][d].wasDead
          /\ \A u \in Workers \ {v} : Holds(u, d) => hold[u][d].attempts # hold[v][d].attempts
      BY <1>0, <2>1, <3>1, <3>3 DEF LeaseOK
    <3> QED
      BY <1>1, <2>2, <3>1, <3>2, <3>3, <3>4
  <2> QED
    BY <2>3, <2>4
<1> QED
  BY <1>2, <1>3

LEMMA OtherLeases ==
    ASSUME Base, LeasesOK,
           \/ \E d \in Deliveries : ComesDue(d) \/ Sweep(d)
           \/ Delete \/ UNCHANGED <<row, hold>>
    PROVE  LeasesOK'
<1> SUFFICES ASSUME NEW d \in Deliveries
             PROVE  LeaseOK(d)'
  BY DEF LeasesOK
<1>0. TypeOK /\ LeaseOK(d)
  BY DEF Base, LeasesOK
<1>1. hold' = hold
  BY DEF ComesDue, Sweep, Delete, Remove, worker
<1>2. \/ row'[d].status = row[d].status /\ row'[d].attempts = row[d].attempts
      \/ row'[d].status = "gone"
  <2>1. ASSUME NEW x \in Deliveries, ComesDue(x)
        PROVE  row'[d].status = row[d].status /\ row'[d].attempts = row[d].attempts
    <3>1. row[d] \in Row /\ row'[d] \in {row[d], [row[d] EXCEPT !.next = "due"]}
      BY <1>0, <2>1, RowTypes DEF ComesDue, TypeOK
    <3> QED
      BY <3>1 DEF Row
  <2>2. ASSUME NEW S, Remove(S)
        PROVE  row'[d] = row[d] \/ row'[d].status = "gone"
    <3>1. row'[d] \in {row[d], [Absent EXCEPT !.status = "gone"]}
      BY <2>2 DEF Remove
    <3> QED
      BY <3>1 DEF Absent
  <2>3. CASE Delete
    BY <2>2, <2>3 DEF Delete
  <2>4. ASSUME NEW x \in Deliveries, Sweep(x)
        PROVE  row'[d] = row[d] \/ row'[d].status = "gone"
    BY <2>2, <2>4 DEF Sweep
  <2> QED
    BY <2>1, <2>3, <2>4
<1> QED
  BY <1>0, <1>1, <1>2, LeaseKept DEF Holds

(* Nobody holds a delivery before it exists. *)
LEMMA InsertLeases ==
    ASSUME Base, LeasesOK, NEW x \in Deliveries, NEW next \in {"null", "due"},
           row[x].status = "absent", Insert(x, next), hold' = hold
    PROVE  LeasesOK'
<1> SUFFICES ASSUME NEW d \in Deliveries
             PROVE  LeaseOK(d)'
  BY DEF LeasesOK
<1>0. TypeOK /\ LeaseOK(d)
  BY DEF Base, LeasesOK
<1>1. CASE d = x
  BY <1>0, <1>1 DEF LeaseOK, Holds
<1>2. CASE d # x
  <2>1. row'[d] = row[d]
    BY <1>0, <1>2 DEF Insert, TypeOK
  <2> QED
    BY <1>0, <2>1, LeaseKept DEF Holds
<1> QED
  BY <1>1, <1>2

LEMMA LeasesStep == Base /\ LeasesOK /\ [Next]_vars => LeasesOK'
<1> SUFFICES ASSUME Base, LeasesOK, [Next]_vars
             PROVE  LeasesOK'
  OBVIOUS
<1>1. ASSUME NEW d \in Deliveries,
             FanOut(d) \/ SendTest(d) \/ (\E old \in Deliveries : ReplayDelivery(d, old))
      PROVE  LeasesOK'
  BY <1>1, InsertLeases DEF FanOut, SendTest, ReplayDelivery, worker
<1>2. ASSUME NEW w \in Workers,
             GiveUpRest(w) \/ BatchDone(w) \/ Send(w) \/ (\E d \in Deliveries : Lookup(w, d))
      PROVE  LeasesOK'
  <2>1. UNCHANGED <<row, hold>>
    BY <1>2 DEF GiveUpRest, BatchDone, Send, Lookup
  <2> QED
    BY <2>1, OtherLeases
<1>3. ASSUME NEW w \in Workers, Crash(w)
      PROVE  LeasesOK'
  <2>1. TypeOK /\ hold' = [hold EXCEPT ![w] = NoHold] /\ row' = row
    BY <1>3 DEF Crash, Base
  <2> QED
    BY <2>1, HoldsShrink, LeaseKept DEF LeasesOK
<1>4. CASE DaysPass \/ Enable \/ Disable \/ UNCHANGED vars
  <2>1. UNCHANGED <<row, hold>>
    BY <1>4 DEF DaysPass, Enable, Disable, vars, worker
  <2> QED
    BY <2>1, OtherLeases
<1>5. ASSUME NEW w \in Workers,
             Claim(w) \/ Settle(w) \/ (\E d \in Deliveries : Release(w, d))
      PROVE  LeasesOK'
  BY <1>5, ClaimLeases, SettleLeases, ReleaseLeases
<1> QED
  BY <1>1, <1>2, <1>3, <1>4, <1>5, OtherLeases DEF Next

-----------------------------------------------------------------------------
(* What becomes of a delivery: the four ends of a settle, and the steps     *)
(* that leave every status alone.                                           *)

Statuses(d) == \A e \in Deliveries : e # d => row'[e].status = row[e].status
Kept == \A e \in Deliveries : row'[e].status = row[e].status

Delivered(d) ==
    /\ Statuses(d) /\ row[d].status \in {"live", "dead"} /\ row'[d].status = "success"
    /\ endpoint' = Reset(endpoint) /\ victims' = {}
    /\ UNCHANGED <<told, notices, others, nameless>>
Died(d) == Statuses(d) /\ row[d].status = "live" /\ row'[d].status = "dead"
Nothing == Kept /\ UNCHANGED <<endpoint, told, notices, others, victims, nameless>>

LEMMA SettleMoves ==
    ASSUME Base, LeasesOK, NEW w \in Workers, Settle(w)
    PROVE  \/ Nothing
           \/ Delivered(cur[w])
           \/ /\ Died(cur[w]) /\ outcome[w].org /\ TerminalFailureBlock(w, cur[w])
              /\ nameless' = nameless
           \/ /\ Died(cur[w]) /\ nameless' = nameless \cup {cur[w]}
              /\ UNCHANGED <<endpoint, told, notices, others, victims>>
<1> DEFINE d == cur[w]
<1>0. TypeOK /\ d \in Deliveries /\ Holds(w, d) /\ LeaseOK(d)
  BY SettleEffect DEF Base, LeasesOK
<1>1. CASE UNCHANGED <<row, endpoint, told, notices, others, victims, nameless>>
  BY <1>1 DEF Nothing, Kept
<1>2. ASSUME SaveOutcome(w, d), Leased(w, d), row' = [row EXCEPT ![d] = SettledRow(w, row[d])]
      PROVE  \/ Nothing \/ Delivered(d)
             \/ Died(d) /\ outcome[w].org /\ TerminalFailureBlock(w, d) /\ nameless' = nameless
             \/ /\ Died(d) /\ nameless' = nameless \cup {d}
                /\ UNCHANGED <<endpoint, told, notices, others, victims>>
  <2>1. Statuses(d) /\ row'[d] = SettledRow(w, row[d])
    BY <1>0, <1>2 DEF Statuses, TypeOK
  <2>2. row'[d].status = IF outcome[w].ok THEN "success" ELSE IF Dies(w) THEN "dead" ELSE row[d].status
    BY <1>0, <2>1, SettledType, RowTypes
  <2>3. row[d].status = IF hold[w][d].wasDead THEN "dead" ELSE "live"
    BY <1>0, <1>2, LeaseKnows
  <2>4. CASE outcome[w].ok
    BY <1>2, <2>1, <2>2, <2>3, <2>4 DEF SaveOutcome, Delivered
  <2>5. CASE ~outcome[w].ok /\ ~FirstDeath(w)
    <3>1. row'[d].status = row[d].status
      BY <2>2, <2>3, <2>5 DEF FirstDeath, Dies
    <3> QED
      BY <1>2, <2>1, <2>5, <3>1 DEF SaveOutcome, Nothing, Kept, Statuses
  <2>6. CASE ~outcome[w].ok /\ FirstDeath(w)
    <3>1. Died(d)
      BY <2>1, <2>2, <2>3, <2>6 DEF FirstDeath, Died
    <3>2. CASE outcome[w].org
      BY <1>2, <2>6, <3>1, <3>2 DEF SaveOutcome
    <3>3. CASE ~outcome[w].org
      BY <1>2, <2>6, <3>1, <3>3 DEF SaveOutcome
    <3> QED
      BY <3>2, <3>3
  <2> QED
    BY <2>4, <2>5, <2>6
<1> QED
  BY <1>1, <1>2, SettleEffect

LEMMA QuietSteps ==
    ASSUME TypeOK,
           \/ \E w \in Workers :
                \/ Claim(w) \/ GiveUpRest(w) \/ BatchDone(w) \/ Send(w) \/ Crash(w)
                \/ \E d \in Deliveries : Release(w, d) \/ Lookup(w, d)
           \/ \E d \in Deliveries : ComesDue(d)
           \/ DaysPass \/ Enable \/ Disable \/ UNCHANGED vars
    PROVE  Kept /\ told' = told /\ nameless' = nameless
<1>1. CASE row' = row
  <2>1. told' = told /\ nameless' = nameless
    BY DEF Claim, GiveUpRest, BatchDone, Send, Crash, Release, Lookup, ComesDue, DaysPass, Enable,
       Disable, vars, history
  <2> QED
    BY <1>1, <2>1 DEF Kept
<1>2. ASSUME NEW w \in Workers, Claim(w)
      PROVE  Kept /\ told' = told /\ nameless' = nameless
  <2> PICK S \in SUBSET {d \in LiveDue \cup DeadDue : row[d].attempts < AttemptBound} :
        row' = [d \in Deliveries |-> IF d \in S THEN ClaimedRow(row[d]) ELSE row[d]]
    BY <1>2 DEF Claim
  <2>1. Kept
    BY RowTypes, ClaimedType DEF Kept
  <2> QED
    BY <1>2, <2>1 DEF Claim, history
<1>3. ASSUME NEW w \in Workers, NEW d \in Deliveries, Release(w, d), row' # row
      PROVE  Kept /\ told' = told /\ nameless' = nameless
  <2>1. row' = [row EXCEPT ![d].attempts = @ - 1, ![d].next = "due"]
    BY <1>3 DEF Release
  <2>2. Kept
    BY <2>1, RowTypes DEF Kept, TypeOK, Row
  <2> QED
    BY <1>3, <2>2 DEF Release, history
<1>4. ASSUME NEW d \in Deliveries, ComesDue(d)
      PROVE  Kept /\ told' = told /\ nameless' = nameless
  <2>1. Kept
    BY <1>4, RowTypes DEF ComesDue, Kept, TypeOK, Row
  <2> QED
    BY <1>4, <2>1 DEF ComesDue, history
<1>5. ASSUME NEW w \in Workers,
             GiveUpRest(w) \/ BatchDone(w) \/ Send(w) \/ Crash(w) \/ (\E d \in Deliveries : Lookup(w, d))
      PROVE  row' = row
  BY <1>5 DEF GiveUpRest, BatchDone, Send, Crash, Lookup
<1>6. CASE DaysPass \/ Enable \/ Disable \/ UNCHANGED vars
  BY <1>1, <1>6 DEF DaysPass, Enable, Disable, vars
<1> QED
  BY <1>1, <1>2, <1>3, <1>4, <1>5, <1>6

-----------------------------------------------------------------------------
(* The counter and the deliveries that died. *)

LEMMA VictimsFinite ==
    ASSUME TypeOK
    PROVE  IsFiniteSet(victims) /\ Cardinality(victims) \in Nat
BY FS_Subset, FS_CardinalityType, WebhookAssumption DEF TypeOK

(* A removal forgets no death, and an insertion is none. *)
LEMMA CountersKept ==
    ASSUME CountersOK, TypeOK, UNCHANGED <<victims, nameless>>,
           endpoint'.failures = endpoint.failures,
           \A d \in Deliveries : \/ row'[d].status = row[d].status
                                 \/ row'[d].status = "gone" \/ row[d].status = "absent"
    PROVE  CountersOK'
BY DEF CountersOK, TypeOK

LEMMA SettleCounters ==
    ASSUME Base, LeasesOK, CountersOK, NEW w \in Workers, Settle(w)
    PROVE  CountersOK'
<1> DEFINE d == cur[w]
<1>0. TypeOK /\ d \in Deliveries /\ victims \subseteq Deliveries /\ nameless \subseteq Deliveries
  BY SettleEffect DEF Base, TypeOK
<1>1. CASE Nothing
  BY <1>0, <1>1, CountersKept DEF Nothing, Kept
<1>2. CASE Delivered(d)
  BY <1>0, <1>2, EndpointTypes, FS_EmptySet DEF Delivered, CountersOK, Statuses
<1>3. CASE Died(d) /\ TerminalFailureBlock(w, d) /\ nameless' = nameless
  <2>1. d \notin victims /\ victims' = victims \cup {d}
    BY <1>3 DEF CountersOK, Died, TerminalFailureBlock
  <2>2. Cardinality(victims') = Cardinality(victims) + 1
    BY <1>0, <2>1, VictimsFinite, FS_AddElement
  <2>3. endpoint'.failures = endpoint.failures + 1
    BY <1>0, <1>3, EndpointTypes DEF TerminalFailureBlock
  <2> QED
    BY <1>0, <1>3, <2>1, <2>2, <2>3 DEF CountersOK, Died, Statuses
<1>4. CASE /\ Died(d) /\ nameless' = nameless \cup {d}
           /\ UNCHANGED <<endpoint, told, notices, others, victims>>
  BY <1>0, <1>4 DEF CountersOK, Died, Statuses
<1> QED
  BY <1>1, <1>2, <1>3, <1>4, SettleMoves

LEMMA RemoveMoves ==
    ASSUME TypeOK, NEW S, Remove(S)
    PROVE  /\ \A d \in Deliveries : row'[d].status = IF d \in S THEN "gone" ELSE row[d].status
           /\ UNCHANGED <<worker, told, notices, others, victims, nameless, faults>>
<1>1. [Absent EXCEPT !.status = "gone"].status = "gone"
  BY DEF Absent
<1> QED
  BY <1>1 DEF Remove

LEMMA InsertMoves ==
    ASSUME TypeOK, NEW x \in Deliveries, NEW next \in {"null", "due"}, Insert(x, next)
    PROVE  /\ row'[x].status = "live" /\ Statuses(x)
           /\ row'[x].attempts = 0 /\ \A d \in Deliveries : d # x => row'[d] = row[d]
<1>1. row' = [row EXCEPT ![x] = [Absent EXCEPT !.status = "live", !.next = next]]
  BY DEF Insert
<1>2. /\ [Absent EXCEPT !.status = "live", !.next = next].status = "live"
      /\ [Absent EXCEPT !.status = "live", !.next = next].attempts = 0
  BY DEF Absent
<1> QED
  BY <1>1, <1>2 DEF TypeOK, Statuses

LEMMA CountersStep == Base /\ LeasesOK /\ CountersOK /\ [Next]_vars => CountersOK'
<1> SUFFICES ASSUME Base, LeasesOK, CountersOK, [Next]_vars
             PROVE  CountersOK'
  OBVIOUS
<1>0. TypeOK
  BY DEF Base
<1>1. ASSUME NEW d \in Deliveries,
             FanOut(d) \/ SendTest(d) \/ (\E old \in Deliveries : ReplayDelivery(d, old))
      PROVE  CountersOK'
  <2>1. row[d].status = "absent" /\ UNCHANGED <<endpoint, history>>
        /\ \E next \in {"null", "due"} : Insert(d, next)
    BY <1>1 DEF FanOut, SendTest, ReplayDelivery
  <2>2. \A e \in Deliveries : row'[e].status = row[e].status \/ row[e].status = "absent"
    BY <1>0, <2>1, InsertMoves DEF Statuses
  <2> QED
    BY <1>0, <2>1, <2>2, CountersKept DEF history
<1>2. ASSUME NEW w \in Workers,
             \/ Claim(w) \/ GiveUpRest(w) \/ BatchDone(w) \/ Send(w) \/ Crash(w)
             \/ (\E d \in Deliveries : Release(w, d) \/ Lookup(w, d))
      PROVE  CountersOK'
  <2>1. UNCHANGED <<endpoint, victims, nameless>>
    BY <1>2 DEF Claim, GiveUpRest, BatchDone, Send, Crash, Release, Lookup, history
  <2>2. Kept
    BY <1>0, <1>2, QuietSteps
  <2> QED
    BY <1>0, <2>1, <2>2, CountersKept DEF Kept
<1>3. CASE DaysPass \/ Disable \/ UNCHANGED vars \/ \E d \in Deliveries : ComesDue(d)
  <2>1. UNCHANGED <<victims, nameless>>
    BY <1>3 DEF DaysPass, Disable, vars, ComesDue, history
  <2>2. endpoint'.failures = endpoint.failures
    BY <1>0, <1>3, EndpointTypes DEF DaysPass, Disable, vars, ComesDue, Endpoint
  <2>3. Kept
    BY <1>0, <1>3, QuietSteps
  <2> QED
    BY <1>0, <2>1, <2>2, <2>3, CountersKept DEF Kept
<1>4. CASE Enable
  BY <1>0, <1>4, EndpointTypes, FS_EmptySet DEF Enable, CountersOK, TypeOK
<1>5. CASE Delete
  <2>1. endpoint'.failures = endpoint.failures
    BY <1>0, <1>5, EndpointTypes DEF Delete, Endpoint
  <2>2. PICK S : Remove(S)
    BY <1>5 DEF Delete
  <2> QED
    BY <1>0, <2>1, <2>2, RemoveMoves, CountersKept
<1>6. ASSUME NEW d \in Deliveries, Sweep(d)
      PROVE  CountersOK'
  <2>1. Remove({d}) /\ endpoint' = endpoint
    BY <1>6 DEF Sweep
  <2> QED
    BY <1>0, <2>1, RemoveMoves, CountersKept
<1>7. ASSUME NEW w \in Workers, Settle(w)
      PROVE  CountersOK'
  BY <1>7, SettleCounters
<1> QED
  BY <1>1, <1>2, <1>3, <1>4, <1>5, <1>6, <1>7 DEF Next

-----------------------------------------------------------------------------
(* Announcements. *)

LEMMA PastLookupFinite ==
    ASSUME TypeOK
    PROVE  /\ IsFiniteSet(PastLookup) /\ Cardinality(PastLookup) \in Nat
           /\ IsFiniteSet(others) /\ Cardinality(others) \in Nat
<1>1. PastLookup \subseteq Workers /\ others \subseteq Workers
  BY DEF PastLookup, TypeOK
<1> QED
  BY <1>1, FS_Subset, FS_CardinalityType, WebhookAssumption

(* Nobody gets past a lookup of a disabled endpoint. *)
LEMMA NoticesKept ==
    ASSUME TypeOK, NoticesOK, UNCHANGED <<notices, others>>,
           notices > 0 => PastLookup' \subseteq PastLookup /\ endpoint'.state # "enabled"
    PROVE  NoticesOK'
<1>1. CASE notices = 0
  BY <1>1 DEF NoticesOK
<1>2. CASE notices > 0
  <2>1. PastLookup' \subseteq PastLookup
    BY <1>2
  <2>2. Cardinality(PastLookup') <= Cardinality(PastLookup) /\ Cardinality(PastLookup') \in Nat
    BY <2>1, PastLookupFinite, FS_Subset, FS_CardinalityType
  <2>3. notices \in Nat /\ notices + Cardinality(PastLookup) <= 1 + Cardinality(others)
    BY <1>2 DEF NoticesOK, TypeOK
  <2>4. notices + Cardinality(PastLookup') <= 1 + Cardinality(others)
    BY <2>2, <2>3, PastLookupFinite
  <2> QED
    BY <1>2, <2>1, <2>4 DEF NoticesOK
<1> QED
  BY <1>1, <1>2 DEF TypeOK

LEMMA SettleNotices ==
    ASSUME Base, LeasesOK, NoticesOK, NEW w \in Workers, Settle(w)
    PROVE  NoticesOK'
<1> DEFINE d == cur[w]
<1>0. TypeOK /\ d \in Deliveries /\ endpoint \in Endpoint
  BY SettleEffect DEF Base, TypeOK
<1>1. PastLookup' = PastLookup \ {w}
  <2>1. /\ pc' = [pc EXCEPT ![w] = "looping"] /\ outcome' = [outcome EXCEPT ![w] = Failure]
        /\ ~Failure.org
    BY DEF Settle, Failure
  <2> QED
    BY <1>0, <2>1 DEF PastLookup, TypeOK
<1>2. CASE endpoint'.state = endpoint.state /\ UNCHANGED <<notices, others>>
  BY <1>0, <1>1, <1>2, NoticesKept DEF NoticesOK
<1>3. CASE outcome[w].org /\ TerminalFailureBlock(w, d) /\ AutoDisables(Bumped)
  <2>1. endpoint'.state = "disabled" /\ notices' = notices + 1
    BY <1>0, <1>3, EndpointTypes DEF TerminalFailureBlock
  <2>2. w \in PastLookup
    BY <1>3 DEF PastLookup
  <2>3. /\ Cardinality(PastLookup') = Cardinality(PastLookup) - 1
        /\ Cardinality(PastLookup) \in Nat /\ Cardinality(PastLookup') \in Nat
    BY <1>0, <1>1, <2>2, PastLookupFinite, FS_RemoveElement, FS_CardinalityType
  <2>4. CASE notices > 0
    <3>1. others' = others
      BY <1>3, <2>4 DEF TerminalFailureBlock
    <3>2. notices' + Cardinality(PastLookup') <= 1 + Cardinality(others')
      BY <1>0, <2>1, <2>3, <2>4, <3>1, PastLookupFinite DEF NoticesOK, TypeOK
    <3> QED
      BY <1>0, <1>1, <2>1, <2>4, <3>1, <3>2 DEF NoticesOK, TypeOK
  <2>5. CASE notices = 0
    <3>1. others' = PastLookup'
      BY <1>1, <1>3, <2>5 DEF TerminalFailureBlock, PastLookup
    <3> QED
      BY <2>1, <2>3, <2>5, <3>1 DEF NoticesOK
  <2> QED
    BY <1>0, <2>4, <2>5 DEF TypeOK
<1>4. CASE TerminalFailureBlock(w, d) /\ ~AutoDisables(Bumped)
  BY <1>0, <1>2, <1>4, EndpointTypes DEF TerminalFailureBlock
<1>5. CASE Nothing
  BY <1>2, <1>5 DEF Nothing
<1>6. CASE Delivered(d)
  BY <1>0, <1>2, <1>6, EndpointTypes DEF Delivered
<1> QED
  BY <1>2, <1>3, <1>4, <1>5, <1>6, SettleMoves

LEMMA NoticesStep == Base /\ LeasesOK /\ NoticesOK /\ [Next]_vars => NoticesOK'
<1> SUFFICES ASSUME Base, LeasesOK, NoticesOK, [Next]_vars
             PROVE  NoticesOK'
  OBVIOUS
<1>0. TypeOK /\ endpoint \in Endpoint
  BY DEF Base, TypeOK
<1>1. ASSUME UNCHANGED <<notices, others, pc, outcome>>,
             endpoint'.state = endpoint.state \/ endpoint'.state # "enabled"
      PROVE  NoticesOK'
  BY <1>0, <1>1, NoticesKept DEF NoticesOK, PastLookup
<1>2. ASSUME NEW d \in Deliveries,
             \/ FanOut(d) \/ SendTest(d) \/ ComesDue(d) \/ Sweep(d)
             \/ (\E old \in Deliveries : ReplayDelivery(d, old))
      PROVE  NoticesOK'
  BY <1>1, <1>2 DEF FanOut, SendTest, ReplayDelivery, ComesDue, Sweep, Remove, worker, history
<1>3. CASE DaysPass \/ Disable \/ Delete \/ UNCHANGED vars
  <2>1. UNCHANGED <<notices, others, pc, outcome>>
    BY <1>3 DEF DaysPass, Disable, Delete, Remove, vars, worker, history
  <2>2. endpoint'.state = endpoint.state \/ endpoint'.state # "enabled"
    BY <1>0, <1>3 DEF DaysPass, Disable, Delete, vars, Endpoint
  <2> QED
    BY <1>1, <2>1, <2>2
<1>4. CASE Enable
  BY <1>4 DEF Enable, NoticesOK
<1>5. ASSUME NEW w \in Workers,
             Claim(w) \/ GiveUpRest(w) \/ BatchDone(w) \/ (\E d \in Deliveries : Release(w, d))
      PROVE  NoticesOK'
  <2>1. UNCHANGED <<endpoint, notices, others, outcome>>
    BY <1>5 DEF Claim, GiveUpRest, BatchDone, Release, history
  <2>2. PastLookup' \subseteq PastLookup
    BY <1>0, <1>5, <2>1 DEF Claim, GiveUpRest, BatchDone, Release, PastLookup, TypeOK
  <2> QED
    BY <1>0, <2>1, <2>2, NoticesKept DEF NoticesOK
<1>6. ASSUME NEW w \in Workers, Crash(w)
      PROVE  NoticesOK'
  <2>1. PastLookup' \subseteq PastLookup
    BY <1>0, <1>6 DEF Crash, PastLookup, TypeOK, Failure
  <2> QED
    BY <1>0, <1>6, <2>1, NoticesKept DEF NoticesOK, Crash, history
<1>7. ASSUME NEW w \in Workers, NEW d \in Deliveries, Lookup(w, d)
      PROVE  NoticesOK'
  <2>1. UNCHANGED <<endpoint, notices, others>>
    BY <1>7 DEF Lookup, history
  <2>2. ASSUME notices > 0
        PROVE  PastLookup' \subseteq PastLookup
    <3>1. ~Finds
      BY <2>2 DEF NoticesOK, Finds
    <3>2. PICK o \in Outcome : /\ pc' = [pc EXCEPT ![w] = "settling"]
                               /\ outcome' = [outcome EXCEPT ![w] = o] /\ ~o.org
      BY <1>0, <1>7, <3>1, LookupEffect
    <3> QED
      BY <1>0, <3>2 DEF PastLookup, TypeOK
  <2> QED
    BY <1>0, <2>1, <2>2, NoticesKept DEF NoticesOK
<1>8. ASSUME NEW w \in Workers, Send(w)
      PROVE  NoticesOK'
  <2>1. PastLookup' \subseteq PastLookup
    <3>1. \A v \in Workers : v # w => pc'[v] = pc[v] /\ outcome'[v] = outcome[v]
      BY <1>0, <1>8 DEF Send, TypeOK
    <3>2. w \in PastLookup
      BY <1>8 DEF Send, PastLookup
    <3> QED
      BY <3>1, <3>2 DEF PastLookup
  <2> QED
    BY <1>0, <1>8, <2>1, NoticesKept DEF NoticesOK, Send
<1>9. ASSUME NEW w \in Workers, Settle(w)
      PROVE  NoticesOK'
  BY <1>9, SettleNotices
<1> QED
  BY <1>2, <1>3, <1>4, <1>5, <1>6, <1>7, <1>8, <1>9 DEF Next

-----------------------------------------------------------------------------
(* Requests: what a step does to those that may still send a delivery. *)

LEMMA SendersFinite ==
    ASSUME TypeOK, NEW d \in Deliveries
    PROVE  /\ IsFiniteSet(Senders(d)) /\ Cardinality(Senders(d)) \in Nat /\ Open(d) \in Nat
           /\ Cardinality(Senders(d)) <= Open(d) /\ Open(d) <= Cardinality(Senders(d)) + 1
<1>1. Senders(d) \subseteq Workers
  BY DEF Senders
<1>2. IsFiniteSet(Senders(d)) /\ Cardinality(Senders(d)) \in Nat
  BY <1>1, FS_Subset, FS_CardinalityType, WebhookAssumption
<1> QED
  BY <1>2 DEF Open

LEMMA FewerSenders ==
    ASSUME TypeOK, NEW d \in Deliveries, Senders(d)' \subseteq Senders(d)
    PROVE  /\ Open(d) \in Nat /\ Open(d)' \in Nat /\ Open(d)' <= Open(d) + 1
           /\ (Claimable(d)' => Claimable(d)) => Open(d)' <= Open(d)
           /\ \A w \in Senders(d) \ Senders(d)' : Open(d)' <= Open(d)
<1>1. /\ Cardinality(Senders(d)') \in Nat /\ Cardinality(Senders(d)') <= Cardinality(Senders(d))
      /\ IsFiniteSet(Senders(d)')
  BY SendersFinite, FS_Subset, FS_CardinalityType
<1>2. Open(d)' = Cardinality(Senders(d)') + IF Claimable(d)' THEN 1 ELSE 0
  BY DEF Open
<1>3. /\ Cardinality(Senders(d)) \in Nat /\ Open(d) \in Nat
      /\ Open(d) = Cardinality(Senders(d)) + IF Claimable(d) THEN 1 ELSE 0
  BY SendersFinite DEF Open
<1>4. ASSUME NEW w \in Senders(d) \ Senders(d)'
      PROVE  Cardinality(Senders(d)') <= Cardinality(Senders(d)) - 1
  <2>1. Senders(d)' \subseteq Senders(d) \ {w}
    BY <1>4
  <2>2. /\ IsFiniteSet(Senders(d) \ {w})
        /\ Cardinality(Senders(d) \ {w}) = Cardinality(Senders(d)) - 1
    BY SendersFinite, FS_RemoveElement
  <2>3. Cardinality(Senders(d)') <= Cardinality(Senders(d) \ {w})
    BY <2>1, <2>2, FS_Subset
  <2> QED
    BY <2>2, <2>3
<1>5. Open(d)' \in Nat /\ Open(d)' <= Open(d) + 1
  BY <1>1, <1>2, <1>3
<1>6. (Claimable(d)' => Claimable(d)) => Open(d)' <= Open(d)
  BY <1>1, <1>2, <1>3
<1>7. \A w \in Senders(d) \ Senders(d)' : Open(d)' <= Open(d)
  BY <1>1, <1>2, <1>3, <1>4
<1> QED
  BY <1>3, <1>5, <1>6, <1>7

(* A request that costs nothing: nobody new may send, or a fault pays. *)
LEMMA RequestKept ==
    ASSUME TypeOK, NEW d \in Deliveries, RequestOK(d), Senders(d)' \subseteq Senders(d),
           taken'[d] = taken[d], Exists(d)' = Exists(d), UNCHANGED faults \/ Fault,
           \/ Fault \/ (Claimable(d)' => Claimable(d)) \/ Senders(d) \ Senders(d)' # {}
    PROVE  RequestOK(d)'
<1>1. /\ faults \in Nat /\ faults' \in Nat /\ taken[d] \in Nat
      /\ faults' \in {faults, faults + 1} /\ (Fault => faults' = faults + 1)
  BY FaultTypes, RowTypes DEF Fault
<1>2. /\ Open(d) \in Nat /\ Open(d)' \in Nat
      /\ Open(d)' <= Open(d) \/ (Fault /\ Open(d)' <= Open(d) + 1)
  BY FewerSenders
<1>3. CASE Exists(d)
  <2>1. taken[d] + Open(d) <= faults + 1
    BY <1>3 DEF RequestOK
  <2>2. taken'[d] + Open(d)' <= faults' + 1
    BY <1>1, <1>2, <2>1
  <2> QED
    BY <1>3, <2>2 DEF RequestOK
<1>4. CASE ~Exists(d)
  BY <1>4 DEF RequestOK
<1> QED
  BY <1>3, <1>4

LEMMA GoneRequest ==
    ASSUME NEW d \in Deliveries, ~Exists(d)', taken'[d] = 0
    PROVE  RequestOK(d)'
BY DEF RequestOK

(* A delivery that keeps its row, its holders and its outcomes. *)
LEMMA SameRequest ==
    ASSUME TypeOK, NEW d \in Deliveries, RequestOK(d), row'[d] = row[d], hold' = hold,
           taken'[d] = taken[d], UNCHANGED faults \/ Fault,
           \A w \in Workers : Holds(w, d) =>
             (cur'[w] = d /\ outcome'[w].ok <=> cur[w] = d /\ outcome[w].ok)
    PROVE  RequestOK(d)'
<1>1. Senders(d)' \subseteq Senders(d)
  BY DEF Senders, Holds
<1>2. (Claimable(d)' <=> Claimable(d)) /\ Exists(d)' = Exists(d)
  BY DEF Claimable, Current, Holds, Exists
<1> QED
  BY <1>1, <1>2, RequestKept

LEMMA InsertRequests ==
    ASSUME Base, LeasesOK, RequestsOK, NEW x \in Deliveries, NEW next \in {"null", "due"},
           row[x].status = "absent", Insert(x, next), UNCHANGED <<endpoint, worker, history, faults>>
    PROVE  RequestsOK'
<1> SUFFICES ASSUME NEW d \in Deliveries
             PROVE  RequestOK(d)'
  BY DEF RequestsOK
<1>0. TypeOK /\ RequestOK(d) /\ LeaseOK(d) /\ UNCHANGED <<hold, cur, outcome, taken, faults>>
  BY DEF Base, RequestsOK, LeasesOK, worker, history
<1>1. CASE d = x
  <2>1. Senders(d) = {} /\ Senders(d)' = {}
    BY <1>0, <1>1 DEF LeaseOK, Senders, Holds
  <2>2. Cardinality(Senders(d)') = 0
    BY <2>1, FS_EmptySet
  <2>3. Open(d)' <= 1 /\ Open(d)' \in Nat
    BY <2>2 DEF Open
  <2>4. taken'[d] = 0 /\ faults' \in Nat
    BY <1>0, <1>1, FaultTypes DEF RequestOK, Exists
  <2>5. Exists(d)'
    BY <1>0, <1>1, InsertMoves DEF Exists
  <2> QED
    BY <2>3, <2>4, <2>5 DEF RequestOK
<1>2. CASE d # x
  <2>1. row'[d] = row[d]
    BY <1>0, <1>2, InsertMoves
  <2> QED
    BY <1>0, <2>1, SameRequest
<1> QED
  BY <1>1, <1>2

(* A claim hands the row's turn to one worker. *)
LEMMA ClaimRequests ==
    ASSUME Base, LeasesOK, RequestsOK, NEW w \in Workers, Claim(w)
    PROVE  RequestsOK'
<1> SUFFICES ASSUME NEW d \in Deliveries
             PROVE  RequestOK(d)'
  BY DEF RequestsOK
<1> PICK S \in SUBSET {e \in LiveDue \cup DeadDue : row[e].attempts < AttemptBound} :
      /\ row' = [e \in Deliveries |-> IF e \in S THEN ClaimedRow(row[e]) ELSE row[e]]
      /\ hold' = [hold EXCEPT ![w] = [e \in S |->
                    [attempts |-> row[e].attempts + 1, wasDead |-> row[e].status = "dead"]]]
  BY DEF Claim
<1>0. /\ TypeOK /\ RequestOK(d) /\ DOMAIN hold[w] = {}
      /\ UNCHANGED <<cur, outcome, taken, faults>>
  BY DEF Base, WorkersOK, RequestsOK, Claim, history
<1>1. /\ hold'[w] = [e \in S |-> [attempts |-> row[e].attempts + 1, wasDead |-> row[e].status = "dead"]]
      /\ \A v \in Workers \ {w} : hold'[v] = hold[v]
  BY <1>0 DEF TypeOK
<1>2. /\ DOMAIN hold'[w] = S
      /\ \A v \in Workers \ {w} : (Holds(v, d)' <=> Holds(v, d)) /\ hold'[v][d] = hold[v][d]
  BY <1>1 DEF Holds
<1>3. CASE d \notin S
  <2>1. row'[d] = row[d] /\ ~Holds(w, d) /\ ~Holds(w, d)'
    BY <1>0, <1>2, <1>3 DEF Holds
  <2>2. Senders(d)' \subseteq Senders(d)
    BY <1>0, <1>2, <2>1 DEF Senders
  <2>3. (Claimable(d)' <=> Claimable(d)) /\ Exists(d)' = Exists(d)
    BY <1>2, <2>1 DEF Claimable, Current, Exists
  <2> QED
    BY <1>0, <2>2, <2>3, RequestKept
<1>4. CASE d \in S
  <2>1. /\ hold'[w][d].attempts = row[d].attempts + 1 /\ Holds(w, d)' /\ w \notin Senders(d)
    BY <1>0, <1>1, <1>4 DEF Holds, Senders
  <2>2. row[d].status \in {"live", "dead"} /\ row[d].next # "later" /\ row[d].attempts < AttemptBound
    BY <1>4 DEF LiveDue, DeadDue
  <2>3. /\ row'[d].status = row[d].status /\ row'[d].attempts = row[d].attempts + 1
        /\ row'[d].next = "later"
    BY <1>0, <1>4, <2>2, ClaimedType, RowTypes
  <2>4. Claimable(d) /\ ~Claimable(d)' /\ Exists(d) /\ Exists(d)'
    BY <2>1, <2>2, <2>3 DEF Claimable, Current, Exists
  <2>5. Senders(d)' \subseteq Senders(d) \cup {w}
    BY <1>0, <1>2 DEF Senders
  <2>6. /\ Cardinality(Senders(d)') <= Cardinality(Senders(d)) + 1
        /\ Cardinality(Senders(d)') \in Nat /\ Cardinality(Senders(d)) \in Nat
    <3>1. /\ IsFiniteSet(Senders(d) \cup {w})
          /\ Cardinality(Senders(d) \cup {w}) = Cardinality(Senders(d)) + 1
      BY <1>0, <2>1, SendersFinite, FS_AddElement
    <3> QED
      BY <1>0, <2>5, <3>1, SendersFinite, FS_Subset, FS_CardinalityType
  <2>7. Open(d) = Cardinality(Senders(d)) + 1 /\ Open(d)' = Cardinality(Senders(d)')
    BY <2>4, <2>6 DEF Open
  <2>8. taken'[d] + Open(d)' <= faults' + 1
    <3>1. taken[d] + Open(d) <= faults + 1 /\ taken[d] \in Nat /\ faults \in Nat
      BY <1>0, <2>4, RowTypes, FaultTypes DEF RequestOK
    <3>2. taken'[d] = taken[d] /\ faults' = faults
      BY <1>0
    <3> QED
      BY <2>6, <2>7, <3>1, <3>2
  <2> QED
    BY <2>4, <2>8 DEF RequestOK
<1> QED
  BY <1>3, <1>4

LEMMA StepRequests ==
    ASSUME Base, RequestsOK, NEW w \in Workers,
           GiveUpRest(w) \/ BatchDone(w) \/ (\E x \in Deliveries : Lookup(w, x))
    PROVE  RequestsOK'
<1> SUFFICES ASSUME NEW d \in Deliveries
             PROVE  RequestOK(d)'
  BY DEF RequestsOK
<1>0. TypeOK /\ RequestOK(d) /\ UNCHANGED <<row, hold, taken>>
  BY DEF Base, RequestsOK, GiveUpRest, BatchDone, Lookup, history
<1>1. CASE GiveUpRest(w) \/ BatchDone(w)
  <2>1. UNCHANGED <<cur, outcome, faults>>
    BY <1>1 DEF GiveUpRest, BatchDone
  <2> QED
    BY <1>0, <2>1, SameRequest
<1>2. ASSUME NEW x \in Deliveries, Lookup(w, x)
      PROVE  RequestOK(d)'
  <2>1. UNCHANGED faults \/ Fault
    BY <1>0, <1>2, LookupEffect
  <2>2. ~outcome[w].ok /\ ~outcome'[w].ok
    <3>1. outcome[w] = Failure /\ ~Failure.ok
      BY <1>2 DEF Base, WorkersOK, Lookup, Failure
    <3>2. outcome' = outcome \/ \E o \in Outcome : outcome' = [outcome EXCEPT ![w] = o] /\ ~o.ok
      BY <1>0, <1>2, LookupEffect
    <3> QED
      BY <1>0, <3>1, <3>2 DEF TypeOK
  <2>3. \A v \in Workers : v # w => cur'[v] = cur[v] /\ outcome'[v] = outcome[v]
    BY <1>0, <1>2 DEF Lookup, TypeOK
  <2> QED
    BY <1>0, <2>1, <2>2, <2>3, SameRequest
<1> QED
  BY <1>1, <1>2

(* The request itself: who has it answered will not send again, and a lost  *)
(* answer is a fault.                                                       *)
LEMMA SendRequests ==
    ASSUME Base, RequestsOK, NEW w \in Workers, Send(w)
    PROVE  RequestsOK'
<1> DEFINE x == cur[w]
<1> SUFFICES ASSUME NEW d \in Deliveries
             PROVE  RequestOK(d)'
  BY DEF RequestsOK
<1>0. /\ TypeOK /\ RequestOK(d) /\ UNCHANGED <<row, hold, cur>>
      /\ x \in Deliveries /\ Holds(w, x) /\ ~outcome[w].ok
  <2>1. outcome[w] = Failure /\ ~Failure.ok
    BY DEF Base, WorkersOK, Send, Failure
  <2> QED
    BY <2>1 DEF Base, WorkersOK, RequestsOK, Send, TypeOK, Holds
<1>1. \A v \in Workers : v # w => outcome'[v] = outcome[v]
  BY <1>0 DEF Send, TypeOK
<1>2. /\ (Claimable(d)' <=> Claimable(d)) /\ Exists(d)' = Exists(d)
      /\ \A v \in Workers : Holds(v, d)' <=> Holds(v, d)
  BY <1>0 DEF Claimable, Current, Holds, Exists
<1>3. Senders(d)' \subseteq Senders(d)
  BY <1>0, <1>1, <1>2 DEF Senders
<1>4. UNCHANGED faults \/ Fault
  BY DEF Send
<1>5. CASE taken'[d] = taken[d]
  BY <1>0, <1>2, <1>3, <1>4, <1>5, RequestKept
<1>6. CASE taken'[d] # taken[d]
  <2>1. d = x /\ Exists(d) /\ taken'[d] = taken[d] + 1
    BY <1>0, <1>6 DEF Send, Took, TypeOK
  <2>2. outcome'[w].ok \/ Fault
    <3>1. CASE Fault
      BY <3>1
    <3>2. CASE taken' = taken
      BY <1>6, <3>2
    <3>3. CASE outcome' = [outcome EXCEPT ![w] =
                 [ok |-> TRUE, terminal |-> FALSE, org |-> TRUE, logs |-> TRUE, sent |-> TRUE]]
      BY <1>0, <3>3 DEF TypeOK
    <3> QED
      BY <3>1, <3>2, <3>3 DEF Send
  <2>3. /\ taken[d] + Open(d) <= faults + 1 /\ taken[d] \in Nat /\ faults \in Nat
        /\ faults' \in Nat /\ Open(d) \in Nat /\ Open(d)' \in Nat /\ Open(d)' <= Open(d)
    BY <1>0, <1>2, <1>3, <1>4, <2>1, RowTypes, FaultTypes, FewerSenders DEF RequestOK
  <2>4. CASE Fault
    <3>1. faults' = faults + 1
      BY <2>4 DEF Fault
    <3>2. taken'[d] + Open(d)' <= faults' + 1
      BY <2>1, <2>3, <3>1
    <3> QED
      BY <1>2, <2>1, <3>2 DEF RequestOK
  <2>5. CASE outcome'[w].ok /\ ~Fault
    <3>1. w \in Senders(d) /\ w \notin Senders(d)'
      BY <1>0, <2>1, <2>5 DEF Senders
    <3>2. Open(d)' <= Open(d) - 1
      <4>1. Senders(d)' \subseteq Senders(d) \ {w}
        BY <1>3, <3>1
      <4>2. /\ IsFiniteSet(Senders(d) \ {w})
            /\ Cardinality(Senders(d) \ {w}) = Cardinality(Senders(d)) - 1
        BY <1>0, <3>1, SendersFinite, FS_RemoveElement
      <4>3. Cardinality(Senders(d)') <= Cardinality(Senders(d)) - 1
        BY <4>1, <4>2, FS_Subset
      <4>4. Cardinality(Senders(d)') \in Nat /\ Cardinality(Senders(d)) \in Nat
        BY <1>0, <4>1, <4>2, SendersFinite, FS_Subset, FS_CardinalityType
      <4>5. Open(d)' = Cardinality(Senders(d)') + IF Claimable(d)' THEN 1 ELSE 0
        BY DEF Open
      <4>6. Open(d) = Cardinality(Senders(d)) + IF Claimable(d) THEN 1 ELSE 0
        BY DEF Open
      <4> QED
        BY <1>2, <4>3, <4>4, <4>5, <4>6
    <3>3. faults' = faults
      BY <1>4, <2>5
    <3>4. taken'[d] + Open(d)' <= faults' + 1
      BY <2>1, <2>3, <3>2, <3>3
    <3> QED
      BY <1>2, <2>1, <3>4 DEF RequestOK
  <2> QED
    BY <2>2, <2>4, <2>5
<1> QED
  BY <1>5, <1>6

LEMMA ReleaseRequests ==
    ASSUME Base, RequestsOK, NEW w \in Workers, NEW x \in Deliveries, Release(w, x)
    PROVE  RequestsOK'
<1> SUFFICES ASSUME NEW d \in Deliveries
             PROVE  RequestOK(d)'
  BY DEF RequestsOK
<1>0. /\ TypeOK /\ RequestOK(d) /\ UNCHANGED <<cur, outcome, taken>> /\ Holds(w, x) /\ ~outcome[w].ok
      /\ hold' = [hold EXCEPT ![w] = Drop(w, x)]
  <2>1. outcome[w] = Failure /\ ~Failure.ok
    BY DEF Base, WorkersOK, Release, Failure
  <2> QED
    BY <2>1 DEF Base, RequestsOK, Release, Holds, history
<1>1. /\ \A v \in Workers : Holds(v, d)' => Holds(v, d) /\ hold'[v][d] = hold[v][d]
      /\ x \notin DOMAIN hold'[w]
  BY <1>0, HoldsShrink
<1>2. Senders(d)' \subseteq Senders(d)
  BY <1>0, <1>1 DEF Senders
<1>3. UNCHANGED faults \/ Fault
  BY DEF Release
<1>4. Exists(d)' = Exists(d)
  BY <1>0, QuietSteps DEF Kept, Exists
<1>5. CASE d = x
  <2>1. w \in Senders(d) \ Senders(d)'
    BY <1>0, <1>1, <1>5 DEF Senders, Holds
  <2> QED
    BY <1>0, <1>2, <1>3, <1>4, <2>1, RequestKept
<1>6. CASE d # x
  <2>1. \A v \in Workers : Holds(v, d)' <=> Holds(v, d)
    BY <1>0, <1>6, DropKeepsOthers
  <2>2. row'[d] = row[d]
    BY <1>0, <1>6 DEF Release, TypeOK
  <2>3. Claimable(d)' <=> Claimable(d)
    BY <1>1, <2>1, <2>2 DEF Claimable, Current
  <2> QED
    BY <1>0, <1>2, <1>3, <1>4, <2>3, RequestKept
<1> QED
  BY <1>5, <1>6

(* A settle that fails on this side is a fault; otherwise a delivered row   *)
(* is out of the queue, and who had not delivered it gives its turn back.   *)
LEMMA SettleRequests ==
    ASSUME Base, LeasesOK, RequestsOK, NEW w \in Workers, Settle(w)
    PROVE  RequestsOK'
<1> DEFINE x == cur[w]
<1> SUFFICES ASSUME NEW d \in Deliveries
             PROVE  RequestOK(d)'
  BY DEF RequestsOK
<1>0. /\ TypeOK /\ RequestOK(d) /\ x \in Deliveries /\ Holds(w, x)
      /\ hold' = [hold EXCEPT ![w] = Drop(w, x)] /\ taken' = taken
      /\ UNCHANGED faults \/ Fault
  BY SettleEffect DEF Base, RequestsOK
<1>1. /\ \A v \in Workers : Holds(v, d)' => Holds(v, d) /\ hold'[v][d] = hold[v][d]
      /\ x \notin DOMAIN hold'[w]
      /\ \A v \in Workers \ {w} : Holds(v, d)' <=> Holds(v, d)
  BY <1>0, HoldsShrink
<1>2. \A v \in Workers : v # w => cur'[v] = cur[v] /\ outcome'[v] = outcome[v]
  BY <1>0 DEF Settle, TypeOK
<1>3. Exists(d)' = Exists(d)
  BY <1>0, SettleMoves DEF Nothing, Kept, Delivered, Died, Statuses, Exists
<1>4. CASE d # x
  <2>1. row'[d] = row[d]
    BY <1>0, <1>4, SettleEffect DEF TypeOK
  <2>2. \A v \in Workers : Holds(v, d)' <=> Holds(v, d)
    BY <1>0, <1>4, DropKeepsOthers
  <2>3. Claimable(d)' <=> Claimable(d)
    BY <1>1, <2>1, <2>2 DEF Claimable, Current
  <2>4. Senders(d)' \subseteq Senders(d)
    BY <1>2, <1>4, <2>2 DEF Senders
  <2> QED
    BY <1>0, <1>3, <2>3, <2>4, RequestKept
<1>5. CASE d = x
  <2>1. Senders(d)' \subseteq Senders(d) /\ ~Holds(w, d)'
    BY <1>1, <1>2, <1>5 DEF Senders, Holds
  <2>2. CASE ~outcome[w].ok
    <3>1. w \in Senders(d) \ Senders(d)'
      BY <1>0, <1>5, <2>1, <2>2 DEF Senders
    <3> QED
      BY <1>0, <1>3, <2>1, <3>1, RequestKept
  <2>3. CASE Fault
    BY <1>0, <1>3, <2>1, <2>3, RequestKept
  <2>4. CASE ~Exists(d)
    BY <1>0, <1>3, <2>4 DEF RequestOK
  <2>5. CASE outcome[w].ok /\ ~Fault /\ Exists(d)
    <3>1. SaveOutcome(w, d)
      BY <1>5, <2>5 DEF Settle
    <3>2. CASE Leased(w, d)
      <4>1. row'[d] = SettledRow(w, row[d])
        BY <1>0, <1>5, <3>1, <3>2 DEF SaveOutcome, TypeOK
      <4>2. row'[d].status = "success"
        BY <1>0, <2>5, <4>1, SettledType, RowTypes
      <4>3. ~Claimable(d)'
        BY <4>2 DEF Claimable
      <4> QED
        BY <1>0, <1>3, <2>1, <4>3, RequestKept
    <3>3. CASE ~Leased(w, d)
      <4>1. row' = row
        BY <3>1, <3>3 DEF SaveOutcome
      <4>2. ASSUME Claimable(d)'
            PROVE  Claimable(d)
        <5>1. row[d].status \in {"live", "dead"}
          BY <4>1, <4>2 DEF Claimable
        <5>2. CASE row[d].next # "later"
          BY <5>1, <5>2 DEF Claimable
        <5>3. CASE row[d].next = "later"
          <6>1. ~Current(w, d)
            BY <3>3, <5>1, <5>3 DEF Leased, Current
          <6>2. \A v \in Workers : ~Current(v, d)'
            BY <4>1, <4>2, <5>3 DEF Claimable
          <6>3. \A v \in Workers \ {w} : ~Current(v, d)
            BY <1>1, <4>1, <6>2 DEF Current
          <6> QED
            BY <5>1, <6>1, <6>3 DEF Claimable
        <5> QED
          BY <5>2, <5>3
      <4> QED
        BY <1>0, <1>3, <2>1, <4>2, RequestKept
    <3> QED
      BY <3>2, <3>3
  <2> QED
    BY <2>2, <2>3, <2>4, <2>5
<1> QED
  BY <1>4, <1>5

LEMMA CrashRequests ==
    ASSUME Base, RequestsOK, NEW w \in Workers, Crash(w)
    PROVE  RequestsOK'
<1> SUFFICES ASSUME NEW d \in Deliveries
             PROVE  RequestOK(d)'
  BY DEF RequestsOK
<1>0. TypeOK /\ RequestOK(d) /\ UNCHANGED <<row, taken>> /\ Fault
      /\ hold' = [hold EXCEPT ![w] = NoHold]
  BY DEF Base, RequestsOK, Crash, history
<1>1. /\ \A v \in Workers : Holds(v, d)' => Holds(v, d)
      /\ d \notin DOMAIN hold'[w]
  BY <1>0, HoldsShrink
<1>2. \A v \in Workers : v # w => cur'[v] = cur[v] /\ outcome'[v] = outcome[v]
  BY <1>0 DEF Crash, TypeOK
<1>3. Senders(d)' \subseteq Senders(d)
  BY <1>1, <1>2 DEF Senders, Holds
<1>4. Exists(d)' = Exists(d)
  BY <1>0 DEF Exists
<1> QED
  BY <1>0, <1>3, <1>4, RequestKept

(* A lease that ends under its holder is a fault; otherwise the row was     *)
(* already open to be claimed.                                              *)
LEMMA ComesDueRequests ==
    ASSUME Base, RequestsOK, NEW x \in Deliveries, ComesDue(x)
    PROVE  RequestsOK'
<1> SUFFICES ASSUME NEW d \in Deliveries
             PROVE  RequestOK(d)'
  BY DEF RequestsOK
<1>0. TypeOK /\ RequestOK(d) /\ UNCHANGED <<hold, cur, outcome, taken>>
  BY DEF Base, RequestsOK, ComesDue, worker, history
<1>1. UNCHANGED faults \/ Fault
  BY DEF ComesDue
<1>2. CASE d # x
  <2>1. row'[d] = row[d]
    BY <1>0, <1>2 DEF ComesDue, TypeOK
  <2> QED
    BY <1>0, <1>1, <2>1, SameRequest
<1>3. CASE d = x
  <2>1. Senders(d)' \subseteq Senders(d)
    BY <1>0 DEF Senders, Holds
  <2>2. Exists(d)' = Exists(d)
    BY <1>0, QuietSteps DEF Kept, Exists
  <2>3. CASE Fault
    BY <1>0, <2>1, <2>2, <2>3, RequestKept
  <2>4. CASE ~Fault
    <3>1. \A w \in Workers : ~(d \in DOMAIN hold[w] /\ hold[w][d].attempts = row[d].attempts)
      BY <1>3, <2>4 DEF ComesDue
    <3>2. Claimable(d)
      BY <1>3, <3>1 DEF Claimable, Current, Holds, ComesDue
    <3> QED
      BY <1>0, <1>1, <2>1, <2>2, <3>2, RequestKept
  <2> QED
    BY <2>3, <2>4
<1> QED
  BY <1>2, <1>3

LEMMA RemoveRequests ==
    ASSUME Base, RequestsOK, NEW S, Remove(S)
    PROVE  RequestsOK'
<1> SUFFICES ASSUME NEW d \in Deliveries
             PROVE  RequestOK(d)'
  BY DEF RequestsOK
<1>0. TypeOK /\ RequestOK(d) /\ UNCHANGED <<hold, cur, outcome, faults>>
  BY DEF Base, RequestsOK, Remove, worker
<1>1. CASE d \in S
  <2>1. row'[d].status = "gone" /\ taken'[d] = 0
    BY <1>0, <1>1, RemoveMoves DEF Remove
  <2> QED
    BY <2>1, GoneRequest DEF Exists
<1>2. CASE d \notin S
  <2>1. row'[d] = row[d] /\ taken'[d] = taken[d]
    BY <1>2 DEF Remove
  <2> QED
    BY <1>0, <2>1, SameRequest
<1> QED
  BY <1>1, <1>2

LEMMA RequestsStep == Base /\ LeasesOK /\ RequestsOK /\ [Next]_vars => RequestsOK'
<1> SUFFICES ASSUME Base, LeasesOK, RequestsOK, [Next]_vars
             PROVE  RequestsOK'
  OBVIOUS
<1>1. ASSUME NEW d \in Deliveries,
             FanOut(d) \/ SendTest(d) \/ (\E old \in Deliveries : ReplayDelivery(d, old))
      PROVE  RequestsOK'
  <2>1. row[d].status = "absent" /\ UNCHANGED <<endpoint, worker, history, faults>>
        /\ \E next \in {"null", "due"} : Insert(d, next)
    BY <1>1 DEF FanOut, SendTest, ReplayDelivery
  <2> QED
    BY <2>1, InsertRequests
<1>2. ASSUME NEW w \in Workers,
             \/ Claim(w) \/ GiveUpRest(w) \/ BatchDone(w) \/ Send(w) \/ Settle(w) \/ Crash(w)
             \/ (\E d \in Deliveries : Release(w, d) \/ Lookup(w, d))
      PROVE  RequestsOK'
  BY <1>2, ClaimRequests, StepRequests, SendRequests, SettleRequests, CrashRequests, ReleaseRequests
<1>3. CASE DaysPass \/ Enable \/ Disable \/ UNCHANGED vars
  <2>1. UNCHANGED <<row, hold, cur, outcome, taken, faults>>
    BY <1>3 DEF DaysPass, Enable, Disable, vars, worker, history
  <2> QED
    BY <2>1, SameRequest DEF Base, RequestsOK
<1>4. CASE Delete \/ \E d \in Deliveries : Sweep(d)
  <2>1. PICK S : Remove(S)
    BY <1>4 DEF Delete, Sweep
  <2> QED
    BY <2>1, RemoveRequests
<1>5. ASSUME NEW d \in Deliveries, ComesDue(d)
      PROVE  RequestsOK'
  BY <1>5, ComesDueRequests
<1> QED
  BY <1>1, <1>2, <1>3, <1>4, <1>5 DEF Next

-----------------------------------------------------------------------------
(* The invariant, and what follows from it. *)

LEMMA Inductive == IInv /\ [Next]_vars => IInv'
BY BaseStep, LeasesStep, CountersStep, NoticesStep, RequestsStep DEF IInv, Base

LEMMA Invariance == Spec => []IInv
<1>1. Init => IInv
  BY Initially
<1>2. IInv /\ [Next]_vars => IInv'
  BY Inductive
<1> QED
  BY <1>1, <1>2, PTL DEF Spec

(* Every variable keeps its type. *)
THEOREM TypeCorrect == Spec => []TypeOK
<1>1. IInv => TypeOK
  BY DEF IInv
<1> QED
  BY <1>1, Invariance, PTL

(* However many workers look the endpoint up and settle, it is announced as *)
(* disabled once, and once more at most for each of the others that were    *)
(* past their lookup at the first announcement (findEnabledById,            *)
(* markDisabled).                                                           *)
THEOREM LookupsEndTheNotices == Spec => []NoticesExplained
<1>1. IInv => NoticesExplained
  <2> SUFFICES ASSUME IInv
               PROVE  notices <= 1 + Cardinality(others)
    BY DEF NoticesExplained
  <2>1. /\ Cardinality(PastLookup) \in Nat /\ Cardinality(others) \in Nat /\ notices \in Nat
    BY PastLookupFinite DEF IInv, TypeOK
  <2>2. notices > 0 => notices + Cardinality(PastLookup) <= 1 + Cardinality(others)
    BY DEF IInv, NoticesOK
  <2> QED
    BY <2>1, <2>2
<1> QED
  BY <1>1, Invariance, PTL

(* Whatever is claimed, released, replayed and retried, and by how many     *)
(* workers, a delivery is taken once, and once more at most for every fault *)
(* so far (claim, leasedBy, settle).                                        *)
THEOREM FaultsPayForDuplicates == Spec => []DuplicatesNeedFaults
<1>1. IInv => DuplicatesNeedFaults
  <2> SUFFICES ASSUME IInv, NEW d \in Deliveries
               PROVE  taken[d] <= faults + 1
    BY DEF DuplicatesNeedFaults
  <2>1. Open(d) \in Nat /\ taken[d] \in Nat /\ faults \in Nat
    BY SendersFinite, FaultTypes, RowTypes, WebhookAssumption DEF IInv, TypeOK
  <2>2. RequestOK(d)
    BY DEF IInv, RequestsOK
  <2>3. CASE Exists(d)
    BY <2>1, <2>2, <2>3 DEF RequestOK
  <2>4. CASE ~Exists(d)
    BY <2>1, <2>2, <2>4 DEF RequestOK
  <2> QED
    BY <2>3, <2>4
<1> QED
  BY <1>1, Invariance, PTL

-----------------------------------------------------------------------------
(* Only a settle announces. *)
LEMMA SettleNotifies ==
    ASSUME IInv, NEW w \in Workers, Settle(w), notices' > notices
    PROVE  Cardinality(victims') >= MinFailures
<1>1. TypeOK /\ notices \in Nat
  BY DEF IInv, TypeOK
<1>2. TerminalFailureBlock(w, cur[w]) /\ AutoDisables(Bumped)
  BY <1>1, SettleMoves DEF IInv, Base, Nothing, Delivered, TerminalFailureBlock
<1>3. endpoint'.failures = Bumped.failures /\ Bumped.failures >= MinFailures
  BY <1>1, <1>2, EndpointTypes DEF TerminalFailureBlock, AutoDisables
<1>4. CountersOK'
  BY SettleCounters DEF IInv, Base
<1> QED
  BY <1>3, <1>4 DEF CountersOK

LEMMA OthersNotify ==
    ASSUME TypeOK, [Next]_vars, ~\E w \in Workers : Settle(w)
    PROVE  ~(notices' > notices)
<1>1. notices \in Nat
  BY DEF TypeOK
<1>2. notices' \in {notices, 0}
  <2>1. ASSUME NEW d \in Deliveries,
               FanOut(d) \/ SendTest(d) \/ ComesDue(d) \/ (\E old \in Deliveries : ReplayDelivery(d, old))
        PROVE  notices' = notices
    BY <2>1 DEF FanOut, SendTest, ComesDue, ReplayDelivery, history
  <2>2. ASSUME NEW w \in Workers,
               \/ Claim(w) \/ GiveUpRest(w) \/ BatchDone(w) \/ Send(w) \/ Crash(w)
               \/ (\E d \in Deliveries : Release(w, d) \/ Lookup(w, d))
        PROVE  notices' = notices
    BY <2>2 DEF Claim, GiveUpRest, BatchDone, Send, Crash, Release, Lookup, history
  <2>3. CASE DaysPass \/ Enable \/ Disable \/ UNCHANGED vars
    BY <2>3 DEF DaysPass, Enable, Disable, vars, history
  <2>4. CASE Delete \/ \E d \in Deliveries : Sweep(d)
    <3>1. PICK S : Remove(S)
      BY <2>4 DEF Delete, Sweep
    <3> QED
      BY <3>1 DEF Remove
  <2> QED
    BY <2>1, <2>2, <2>3, <2>4 DEF Next
<1> QED
  BY <1>1, <1>2

(* For any thresholds and any number of workers, an endpoint is disabled by *)
(* the worker only after enough different deliveries died with no success   *)
(* and no enabling in between (bumpFailure, resetFailure,                   *)
(* shouldAutoDisable).                                                      *)
THEOREM DisablingHasCause == Spec => DisabledForCause
<1>1. IInv /\ [Next]_vars => [notices' > notices => Cardinality(victims') >= MinFailures]_vars
  BY SettleNotifies, OthersNotify DEF IInv
<1> QED
  BY <1>1, Invariance, PTL DEF Spec, DisabledForCause

-----------------------------------------------------------------------------
(* The refinement of DeliveryQueue, step by step. *)

LEMMA ItemsMove ==
    ASSUME NEW S \in SUBSET Deliveries, NEW from, NEW to,
           \A d \in S : QueueStatus(d) \in from /\ QueueStatus(d)' = to,
           \A d \in Deliveries \ S : row'[d].status = row[d].status
    PROVE  Queue!Move(S, from, to)
<1>1. \A d \in Deliveries \ S : QueueStatus(d)' = QueueStatus(d)
  BY DEF QueueStatus
<1>2. \A d \in Deliveries : ItemStatus[d] = QueueStatus(d)
  BY DEF ItemStatus
<1>3. ItemStatus' = [d \in Deliveries |-> IF d \in S THEN to ELSE ItemStatus[d]]
  BY <1>1, <1>2 DEF ItemStatus
<1> QED
  BY <1>2, <1>3 DEF Queue!Move

LEMMA TheSameTold ==
    ASSUME told' = told, nameless' = nameless
    PROVE  ItemTold' = ItemTold
BY DEF ItemTold

LEMMA KeptStutters ==
    ASSUME Kept, told' = told, nameless' = nameless
    PROVE  UNCHANGED <<ItemStatus, ItemTold>>
<1>1. \A d \in Deliveries : QueueStatus(d)' = QueueStatus(d)
  BY DEF Kept, QueueStatus
<1>2. ItemStatus' = ItemStatus
  BY <1>1 DEF ItemStatus
<1> QED
  BY <1>2, TheSameTold

LEMMA QueueInit == Init => Queue!Init
BY DEF Init, Queue!Init, ItemStatus, ItemTold, QueueStatus, Absent

LEMMA InsertRefines ==
    ASSUME TypeOK, NEW d \in Deliveries,
           FanOut(d) \/ SendTest(d) \/ (\E old \in Deliveries : ReplayDelivery(d, old))
    PROVE  Queue!Next
<1>1. PICK next \in {"null", "due"} : Insert(d, next)
  BY DEF FanOut, SendTest, ReplayDelivery
<1>2. row[d].status = "absent" /\ told' = told /\ nameless' = nameless
  BY DEF FanOut, SendTest, ReplayDelivery, history
<1>3. row'[d].status = "live" /\ Statuses(d)
  BY <1>1, InsertMoves
<1>4. QueueStatus(d) = "absent" /\ QueueStatus(d)' = "pending"
  BY <1>2, <1>3 DEF QueueStatus
<1>5. Queue!Move({d}, {"absent"}, "pending")
  BY <1>3, <1>4, ItemsMove DEF Statuses
<1> QED
  BY <1>2, <1>5, TheSameTold DEF Queue!Next, Queue!Enqueue

(* The first death is told by the event, or by the row alone. *)
LEMMA DiedRefines ==
    ASSUME TypeOK, CountersOK, NEW d \in Deliveries, Died(d),
           \/ told' = [told EXCEPT ![d] = @ + 1] /\ nameless' = nameless
           \/ told' = told /\ nameless' = nameless \cup {d}
    PROVE  Queue!Next
<1>1. QueueStatus(d) = "pending" /\ QueueStatus(d)' = "dead"
  BY DEF Died, QueueStatus
<1>2. Queue!Move({d}, {"pending"}, "dead")
  BY <1>1, ItemsMove DEF Died, Statuses
<1>3. d \notin nameless
  BY DEF CountersOK, Died
<1>4. ItemTold' = [e \in Deliveries |-> IF e \in {d} THEN ItemTold[e] + 1 ELSE ItemTold[e]]
  <2>1. CASE told' = [told EXCEPT ![d] = @ + 1] /\ nameless' = nameless
    BY <1>3, <2>1 DEF ItemTold, TypeOK
  <2>2. CASE told' = told /\ nameless' = nameless \cup {d}
    BY <1>3, <2>2 DEF ItemTold, TypeOK
  <2> QED
    BY <2>1, <2>2
<1> QED
  BY <1>2, <1>4 DEF Queue!Next, Queue!Die

LEMMA DeliveredRefines ==
    ASSUME NEW d \in Deliveries, Delivered(d)
    PROVE  Queue!Next
<1>1. QueueStatus(d) \in {"pending", "dead"} /\ QueueStatus(d)' = "settled"
  BY DEF Delivered, QueueStatus
<1>2. Queue!Move({d}, {"pending", "dead"}, "settled")
  BY <1>1, ItemsMove DEF Delivered, Statuses
<1>3. ItemTold' = ItemTold
  BY TheSameTold DEF Delivered
<1> QED
  BY <1>2, <1>3 DEF Queue!Next, Queue!Deliver

LEMMA SettleRefines ==
    ASSUME IInv, NEW w \in Workers, Settle(w)
    PROVE  Queue!Next \/ UNCHANGED <<ItemStatus, ItemTold>>
<1> DEFINE d == cur[w]
<1>0. TypeOK /\ CountersOK /\ d \in Deliveries
  BY SettleEffect DEF IInv, Base
<1>1. CASE Nothing
  BY <1>1, KeptStutters DEF Nothing
<1>2. CASE Delivered(d)
  BY <1>0, <1>2, DeliveredRefines
<1>3. CASE Died(d) /\ TerminalFailureBlock(w, d) /\ nameless' = nameless
  BY <1>0, <1>3, DiedRefines DEF TerminalFailureBlock
<1>4. CASE Died(d) /\ nameless' = nameless \cup {d} /\ told' = told
  BY <1>0, <1>4, DiedRefines
<1> QED
  BY <1>1, <1>2, <1>3, <1>4, SettleMoves DEF IInv, Base

LEMMA RemoveRefines ==
    ASSUME TypeOK, NEW S \in SUBSET Deliveries, Remove(S), \A d \in S : Exists(d)
    PROVE  Queue!Next
<1>1. /\ \A d \in Deliveries : row'[d].status = IF d \in S THEN "gone" ELSE row[d].status
      /\ told' = told /\ nameless' = nameless
  BY RemoveMoves
<1>2. \A d \in S : QueueStatus(d) \in {"pending", "dead", "settled"} /\ QueueStatus(d)' = "gone"
  BY <1>1 DEF Exists, QueueStatus
<1>3. Queue!Move(S, {"pending", "dead", "settled"}, "gone")
  BY <1>1, <1>2, ItemsMove
<1> QED
  BY <1>1, <1>3, TheSameTold DEF Queue!Next, Queue!Remove

LEMMA QueueStep == IInv /\ [Next]_vars => [Queue!Next]_<<ItemStatus, ItemTold>>
<1> SUFFICES ASSUME IInv, [Next]_vars
             PROVE  Queue!Next \/ UNCHANGED <<ItemStatus, ItemTold>>
  OBVIOUS
<1>0. TypeOK
  BY DEF IInv
<1>1. ASSUME NEW d \in Deliveries,
             FanOut(d) \/ SendTest(d) \/ (\E old \in Deliveries : ReplayDelivery(d, old))
      PROVE  Queue!Next
  BY <1>0, <1>1, InsertRefines
<1>2. ASSUME NEW w \in Workers, Settle(w)
      PROVE  Queue!Next \/ UNCHANGED <<ItemStatus, ItemTold>>
  BY <1>2, SettleRefines
<1>3. ASSUME NEW d \in Deliveries, Sweep(d)
      PROVE  Queue!Next
  BY <1>0, <1>3, RemoveRefines DEF Sweep, Exists
<1>4. CASE Delete
  <2>1. {d \in Deliveries : Exists(d)} \in SUBSET Deliveries
    OBVIOUS
  <2> QED
    BY <1>0, <1>4, <2>1, RemoveRefines DEF Delete
<1>5. ASSUME \/ \E w \in Workers :
                  \/ Claim(w) \/ GiveUpRest(w) \/ BatchDone(w) \/ Send(w) \/ Crash(w)
                  \/ \E d \in Deliveries : Release(w, d) \/ Lookup(w, d)
             \/ \E d \in Deliveries : ComesDue(d)
             \/ DaysPass \/ Enable \/ Disable \/ UNCHANGED vars
      PROVE  UNCHANGED <<ItemStatus, ItemTold>>
  BY <1>0, <1>5, QuietSteps, KeptStutters
<1> QED
  BY <1>1, <1>2, <1>3, <1>4, <1>5 DEF Next

(* Whatever the deliveries, the workers and the limits, the table behaves   *)
(* as a DeliveryQueue: a first death is told in the step that writes it, no *)
(* late settle revives a row or tells it again, and rows go in one piece    *)
(* (settle, runTerminalFailureBlock, deleteEndpoint, the sweep).            *)
THEOREM DeliveriesAreAQueue == Spec => ImplementsQueue
<1>1. Init => Queue!Init
  BY QueueInit
<1>2. IInv /\ [Next]_vars => [Queue!Next]_<<ItemStatus, ItemTold>>
  BY QueueStep
<1> QED
  BY <1>1, <1>2, Invariance, PTL DEF Spec, ImplementsQueue, Queue!Spec

=============================================================================

-------------------------- MODULE WebhookDelivery --------------------------
(***************************************************************************)
(* Webhook deliveries to one endpoint of one organization: rows fanned out *)
(* by the outbox subscriber, sent for a test or replayed; the workers that *)
(* claim them by lease, look the endpoint up, post and settle; the         *)
(* endpoint's failure counters, which disable it; what the organization    *)
(* does to the endpoint meanwhile; the retention sweep.                    *)
(*                                                                         *)
(* A settle is one unit of work.  A statement of it that fails, even one   *)
(* whose failure is only logged, aborts the transaction: nothing is saved. *)
(***************************************************************************)
EXTENDS Integers, FiniteSets

CONSTANTS
    Deliveries,
    Workers,
    ClaimLimit,    \* rows in one claim
    MaxAttempts,   \* WEBHOOK_MAX_ATTEMPTS
    MinFailures,   \* WEBHOOK_AUTO_DISABLE_MIN_FAILURES
    AttemptBound,  \* bound: claims of one delivery
    FaultBound     \* bound: everything that goes wrong on this side, and lost answers

ASSUME WebhookAssumption ==
    /\ IsFiniteSet(Deliveries) /\ IsFiniteSet(Workers)
    /\ {ClaimLimit, MaxAttempts, MinFailures, AttemptBound} \subseteq Nat \ {0}
    /\ FaultBound \in Nat

VARIABLES
    row,       \* webhook_delivery
    endpoint,  \* webhook_endpoint: state, consecutive failures, firstFailedAt long ago
    pc,        \* per worker: the step of drainBatch
    hold,      \* per worker: claimed deliveries not yet settled, as the claim returned them
    cur,       \* per worker: the delivery in hand
    outcome,   \* per worker: the outcome of its processing
    told,      \* webhook.delivery.exhausted events per delivery
    notices,   \* webhook.endpoint.disabled events since the endpoint was last enabled
    others,    \* history: workers past their lookup when the first of those was emitted
    victims,   \* history: deliveries that first died since the last success or enabling
    nameless,  \* history: deliveries that first died without a known organization
    taken,     \* history: requests the customer took, per existing delivery
    faults

worker == <<pc, hold, cur, outcome>>
history == <<told, notices, others, victims, nameless, taken>>
vars == <<row, endpoint, worker, history, faults>>

Row == [status : {"absent", "live", "dead", "success", "gone"}, attempts : 0..AttemptBound,
        next : {"null", "due", "later"}]
Job == [attempts : 1..AttemptBound, wasDead : BOOLEAN]
Endpoint == [state : {"enabled", "disabled", "deleted"}, failures : Nat, old : BOOLEAN]
Outcome == [ok : BOOLEAN, terminal : BOOLEAN, org : BOOLEAN, logs : BOOLEAN, sent : BOOLEAN]

Absent == [status |-> "absent", attempts |-> 0, next |-> "null"]
Failure == [ok |-> FALSE, terminal |-> FALSE, org |-> FALSE, logs |-> FALSE, sent |-> FALSE]

Fault == faults < FaultBound /\ faults' = faults + 1
Exists(d) == row[d].status \in {"live", "dead", "success"}
NoHold == [d \in {} |-> 0]
NoDelivery == "none"
Drop(w, d) == [f \in DOMAIN hold[w] \ {d} |-> hold[w][f]]

-----------------------------------------------------------------------------
(* New deliveries. *)

Insert(d, next) == row' = [row EXCEPT ![d] = [Absent EXCEPT !.status = "live", !.next = next]]

(* handle: an event for an enabled endpoint; a redelivered event conflicts  *)
(* on the idempotency key and inserts nothing.                              *)
FanOut(d) ==
    /\ row[d].status = "absent" /\ endpoint.state = "enabled"
    /\ Insert(d, "due")
    /\ UNCHANGED <<endpoint, worker, history, faults>>

(* sendTest: any endpoint, no next attempt yet. *)
SendTest(d) ==
    /\ row[d].status = "absent" /\ endpoint.state # "deleted"
    /\ Insert(d, "null")
    /\ UNCHANGED <<endpoint, worker, history, faults>>

(* replayDelivery: a new row; the old one stays as it is. *)
ReplayDelivery(d, old) ==
    /\ row[d].status = "absent" /\ Exists(old)
    /\ Insert(d, "due")
    /\ UNCHANGED <<endpoint, worker, history, faults>>

-----------------------------------------------------------------------------
(* claim *)

LiveDue == {d \in Deliveries : row[d].status = "live" /\ row[d].next \in {"null", "due"}}
DeadDue == {d \in Deliveries : row[d].status = "dead" /\ row[d].next = "due"}
DeadShare == (ClaimLimit + 3) \div 4

(* claimedSet. *)
(* Mutant: the claimed row stays due. *)
ClaimedRow_StillDue(r) == [r EXCEPT !.attempts = @ + 1]
ClaimedRow(r) == [r EXCEPT !.attempts = @ + 1, !.next = "later"]

Claim(w) ==
    /\ pc[w] = "idle"
    /\ \E S \in SUBSET {d \in LiveDue \cup DeadDue : row[d].attempts < AttemptBound} :
        /\ S # {} /\ Cardinality(S) <= ClaimLimit /\ Cardinality(S \cap DeadDue) <= DeadShare
        /\ row' = [d \in Deliveries |-> IF d \in S THEN ClaimedRow(row[d]) ELSE row[d]]
        /\ hold' = [hold EXCEPT ![w] = [d \in S |->
                      [attempts |-> row[d].attempts + 1, wasDead |-> row[d].status = "dead"]]]
    /\ pc' = [pc EXCEPT ![w] = "looping"]
    /\ UNCHANGED <<endpoint, cur, outcome, history, faults>>

(* leasedBy and unsettled. *)
Leased(w, d) ==
    /\ row[d].status \in {"live", "dead"} /\ row[d].next # "null"
    /\ row[d].attempts = hold[w][d].attempts

-----------------------------------------------------------------------------
(* drainBatch *)

(* A stop, or a lease that does not cover another delivery. *)
GiveUpRest(w) ==
    /\ pc[w] = "looping" /\ hold[w] # NoHold
    /\ pc' = [pc EXCEPT ![w] = "releasing"]
    /\ UNCHANGED <<row, endpoint, hold, cur, outcome, history, faults>>

(* release: row by row; a failed one waits for its lease. *)
Release(w, d) ==
    /\ pc[w] = "releasing" /\ d \in DOMAIN hold[w]
    /\ \/ /\ row' = IF Leased(w, d)
                      THEN [row EXCEPT ![d].attempts = @ - 1, ![d].next = "due"] ELSE row
          /\ UNCHANGED faults
       \/ Fault /\ UNCHANGED row
    /\ hold' = [hold EXCEPT ![w] = Drop(w, d)]
    /\ UNCHANGED <<endpoint, pc, cur, outcome, history>>

BatchDone(w) ==
    /\ pc[w] \in {"looping", "releasing"} /\ hold[w] = NoHold
    /\ pc' = [pc EXCEPT ![w] = "idle"]
    /\ UNCHANGED <<row, endpoint, hold, cur, outcome, history, faults>>

(* findEnabledById. *)
(* Mutant: a disabled endpoint is found too. *)
Finds_Any == endpoint.state # "deleted"
Finds == endpoint.state = "enabled"

(* processDelivery up to the request.  The lookup or anything after it may  *)
(* fail; only after a successful lookup is the organization known.          *)
Lookup(w, d) ==
    /\ pc[w] = "looping" /\ d \in DOMAIN hold[w]
    /\ cur' = [cur EXCEPT ![w] = d]
    /\ \/ /\ ~Finds
          /\ pc' = [pc EXCEPT ![w] = "settling"]
          /\ outcome' = [outcome EXCEPT ![w] = [Failure EXCEPT !.terminal = TRUE]]
          /\ UNCHANGED faults
       \/ /\ Fault  \* the lookup fails, or processing throws
          /\ pc' = [pc EXCEPT ![w] = "settling"]
          /\ outcome' = [outcome EXCEPT ![w] = Failure]
       \/ /\ Finds /\ Fault  \* host lookup times out, no master key, bad secret; not public
          /\ pc' = [pc EXCEPT ![w] = "settling"]
          /\ \E public \in BOOLEAN :
               outcome' = [outcome EXCEPT ![w] =
                 [Failure EXCEPT !.org = TRUE, !.terminal = ~public, !.logs = ~public]]
       \/ /\ Finds
          /\ pc' = [pc EXCEPT ![w] = "sending"]
          /\ UNCHANGED <<outcome, faults>>
    /\ UNCHANGED <<row, endpoint, hold, history>>

(* The history follows a delivery as long as it exists. *)
Took(d) == IF Exists(d) THEN [taken EXCEPT ![d] = @ + 1] ELSE taken

(* The request, its answer or its timeout.  A lost answer may be a success  *)
(* on the other side.                                                       *)
Send(w) ==
    /\ pc[w] = "sending"
    /\ LET d == cur[w]
           Answer(ok) == outcome' = [outcome EXCEPT ![w] =
             [ok |-> ok, terminal |-> FALSE, org |-> TRUE, logs |-> TRUE, sent |-> TRUE]]
       IN /\ \/ /\ Answer(TRUE)
                /\ taken' = Took(d)
                /\ UNCHANGED faults
             \/ Answer(FALSE) /\ UNCHANGED <<taken, faults>>
             \/ /\ Answer(FALSE) /\ Fault
                /\ taken' = Took(d)
    /\ pc' = [pc EXCEPT ![w] = "settling"]
    /\ UNCHANGED <<row, endpoint, hold, cur, told, notices, others, victims, nameless>>

-----------------------------------------------------------------------------
(* settle *)

(* failureOf *)
Dies(w) == LET job == hold[w][cur[w]]
           IN outcome[w].terminal \/ job.wasDead \/ job.attempts >= MaxAttempts

(* Mutant: every failed replay of a dead delivery counts. *)
FirstDeath_Every(w) == Dies(w)
FirstDeath(w) == Dies(w) /\ ~hold[w][cur[w]].wasDead

SettledRow(w, r) ==
    IF outcome[w].ok THEN [r EXCEPT !.status = "success", !.next = "null"]
    ELSE IF Dies(w)
      THEN [r EXCEPT !.status = "dead", !.next = IF outcome[w].terminal THEN "null" ELSE "later"]
      ELSE [r EXCEPT !.next = "later"]

(* recordAttempt: also a request made under a lease that was lost since. *)
Records(w) == outcome[w].logs /\ (Leased(w, cur[w]) \/ outcome[w].sent)

(* resetFailure. *)
(* Mutant: a success does not reset the counter. *)
Reset_Never(e) == e
Reset(e) == [e EXCEPT !.failures = 0, !.old = FALSE]

(* bumpFailure, shouldAutoDisable, markDisabled: one row lock from the      *)
(* increment to the commit.                                                 *)
Bumped == [endpoint EXCEPT !.failures = @ + 1]
AutoDisables(e) == e.failures >= MinFailures /\ e.old

(* runTerminalFailureBlock: exhausted event, counter, disabling. *)
TerminalFailureBlock(w, d) ==
    /\ told' = [told EXCEPT ![d] = @ + 1]
    /\ victims' = victims \cup {d}
    /\ IF AutoDisables(Bumped)
         THEN /\ endpoint' = [Bumped EXCEPT !.state = "disabled"]
              /\ notices' = notices + 1
              /\ others' = IF notices > 0 THEN others ELSE
                   {v \in Workers \ {w} : pc[v] = "sending" \/ outcome[v].org}
         ELSE endpoint' = Bumped /\ UNCHANGED <<notices, others>>

SaveOutcome(w, d) ==
    /\ Records(w) => Exists(d)  \* the attempt's foreign key
    /\ IF ~Leased(w, d) THEN UNCHANGED <<row, endpoint, told, notices, others, victims, nameless>>
       ELSE /\ row' = [row EXCEPT ![d] = SettledRow(w, @)]
            /\ nameless' = IF ~outcome[w].ok /\ FirstDeath(w) /\ ~outcome[w].org
                             THEN nameless \cup {d} ELSE nameless
            /\ IF outcome[w].ok
                 THEN endpoint' = Reset(endpoint) /\ victims' = {} /\ UNCHANGED <<told, notices, others>>
               ELSE IF FirstDeath(w) /\ outcome[w].org THEN TerminalFailureBlock(w, d)
               ELSE UNCHANGED <<endpoint, told, notices, others, victims>>
    /\ UNCHANGED <<taken, faults>>

Settle(w) ==
    /\ pc[w] = "settling"
    /\ LET d == cur[w]
       IN /\ \/ SaveOutcome(w, d)
             \/ /\ Records(w) /\ ~Exists(d)  \* the attempt is refused, the transaction aborts
                /\ UNCHANGED <<row, endpoint, history, faults>>
             \/ Fault /\ UNCHANGED <<row, endpoint, history>>
          /\ hold' = [hold EXCEPT ![w] = Drop(w, d)]
    /\ pc' = [pc EXCEPT ![w] = "looping"]
    /\ outcome' = [outcome EXCEPT ![w] = Failure]
    /\ cur' = [cur EXCEPT ![w] = NoDelivery]

(* The process dies: nothing is released. *)
Crash(w) ==
    /\ pc[w] # "idle" /\ Fault
    /\ pc' = [pc EXCEPT ![w] = "idle"]
    /\ hold' = [hold EXCEPT ![w] = NoHold]
    /\ outcome' = [outcome EXCEPT ![w] = Failure]
    /\ cur' = [cur EXCEPT ![w] = NoDelivery]
    /\ UNCHANGED <<row, endpoint, history>>

-----------------------------------------------------------------------------
(* Time. *)

(* A retry or a dead replay comes due, or a lease ends: under a worker that *)
(* still holds it, a fault.                                                 *)
ComesDue(d) ==
    /\ row[d].status \in {"live", "dead"} /\ row[d].next = "later"
    /\ IF \E w \in Workers : d \in DOMAIN hold[w] /\ hold[w][d].attempts = row[d].attempts
         THEN Fault ELSE UNCHANGED faults
    /\ row' = [row EXCEPT ![d].next = "due"]
    /\ UNCHANGED <<endpoint, worker, history>>

(* More than autoDisableAfterDays since firstFailedAt. *)
DaysPass ==
    /\ endpoint.failures > 0 /\ ~endpoint.old
    /\ endpoint' = [endpoint EXCEPT !.old = TRUE]
    /\ UNCHANGED <<row, worker, history, faults>>

-----------------------------------------------------------------------------
(* The organization and the sweep. *)

(* updateEndpoint with enabled = true, whatever it was before. *)
Enable ==
    /\ endpoint.state # "deleted"
    /\ endpoint' = [Reset(endpoint) EXCEPT !.state = "enabled"]
    /\ victims' = {} /\ notices' = 0 /\ others' = {}
    /\ UNCHANGED <<row, worker, told, nameless, taken, faults>>

(* updateEndpoint with enabled = false. *)
Disable ==
    /\ endpoint.state = "enabled"
    /\ endpoint' = [endpoint EXCEPT !.state = "disabled"]
    /\ UNCHANGED <<row, worker, history, faults>>

(* Rows are removed for good, with their attempts. *)
Remove(S) ==
    /\ row' = [d \in Deliveries |-> IF d \in S THEN [Absent EXCEPT !.status = "gone"] ELSE row[d]]
    /\ taken' = [d \in Deliveries |-> IF d \in S THEN 0 ELSE taken[d]]
    /\ UNCHANGED <<worker, told, notices, others, victims, nameless, faults>>

(* deleteEndpoint: its deliveries go with it. *)
Delete ==
    /\ endpoint.state # "deleted"
    /\ endpoint' = [endpoint EXCEPT !.state = "deleted"]
    /\ Remove({d \in Deliveries : Exists(d)})

(* sweep-webhook-delivery: an old row, whether delivered or dead, even      *)
(* under a worker that replays it.                                          *)
Sweep(d) ==
    /\ row[d].status \in {"success", "dead"}
    /\ Remove({d})
    /\ UNCHANGED endpoint

-----------------------------------------------------------------------------
Init ==
    /\ row = [d \in Deliveries |-> Absent]
    /\ endpoint = [state |-> "enabled", failures |-> 0, old |-> FALSE]
    /\ pc = [w \in Workers |-> "idle"] /\ hold = [w \in Workers |-> NoHold]
    /\ cur = [w \in Workers |-> NoDelivery] /\ outcome = [w \in Workers |-> Failure]
    /\ told = [d \in Deliveries |-> 0] /\ notices = 0
    /\ others = {} /\ victims = {} /\ nameless = {}
    /\ taken = [d \in Deliveries |-> 0]
    /\ faults = 0

Next ==
    \/ \E d \in Deliveries :
        \/ FanOut(d) \/ SendTest(d) \/ ComesDue(d) \/ Sweep(d)
        \/ (\E old \in Deliveries : ReplayDelivery(d, old))
    \/ \E w \in Workers :
        \/ Claim(w) \/ GiveUpRest(w) \/ BatchDone(w) \/ Send(w) \/ Settle(w) \/ Crash(w)
        \/ (\E d \in Deliveries : Release(w, d) \/ Lookup(w, d))
    \/ DaysPass \/ Enable \/ Disable \/ Delete

Spec == Init /\ [][Next]_vars

-----------------------------------------------------------------------------
(* Properties. *)

(* Every variable keeps its type. *)
TypeOK ==
    /\ row \in [Deliveries -> Row] /\ endpoint \in Endpoint
    /\ pc \in [Workers -> {"idle", "looping", "releasing", "sending", "settling"}]
    /\ DOMAIN hold = Workers
    /\ \A w \in Workers : DOMAIN hold[w] \subseteq Deliveries /\ hold[w] \in [DOMAIN hold[w] -> Job]
    /\ cur \in [Workers -> Deliveries \cup {NoDelivery}] /\ outcome \in [Workers -> Outcome]
    /\ told \in [Deliveries -> Nat] /\ taken \in [Deliveries -> Nat] /\ notices \in Nat
    /\ others \subseteq Workers /\ victims \subseteq Deliveries /\ nameless \subseteq Deliveries
    /\ faults \in 0..FaultBound

(* The worker disables an endpoint only when enough different deliveries    *)
(* died, each counted at its first death however often it is replayed and   *)
(* whoever settles it, with no success and no enabling in between           *)
(* (bumpFailure, resetFailure, shouldAutoDisable).                          *)
DisabledForCause ==
    [][notices' > notices => Cardinality(victims') >= MinFailures]_vars

(* An endpoint is announced as disabled once, and once more for every       *)
(* worker that was already past its lookup then: no lookup made after it    *)
(* leads to another announcement (findEnabledById, markDisabled).           *)
NoticesExplained == notices <= 1 + Cardinality(others)

(* A customer that answered takes a delivery twice only through a fault: a  *)
(* crash, a lost answer, a failed settle or a lease that ran out.           *)
DuplicatesNeedFaults == \A d \in Deliveries : taken[d] <= faults + 1

-----------------------------------------------------------------------------
(* The refinement mapping to DeliveryQueue.  Rows are removed by the sweep  *)
(* and with the endpoint.  A death without a known organization is told by  *)
(* the row alone (docs/EVENTS.md, known quirk).                             *)
QueueStatus(d) ==
    CASE row[d].status = "live" -> "pending"
      [] row[d].status = "success" -> "settled"
      [] OTHER -> row[d].status

ItemStatus == [d \in Deliveries |-> QueueStatus(d)]
ItemTold == [d \in Deliveries |-> IF d \in nameless THEN told[d] + 1 ELSE told[d]]

Queue == INSTANCE DeliveryQueue WITH
           Items <- Deliveries, Losable <- {"pending", "dead", "settled"},
           status <- ItemStatus, told <- ItemTold

(* Over every overlap of workers, lookups and removals, the table behaves   *)
(* as a DeliveryQueue: exhaustion is emitted once, in the step that writes  *)
(* the first death, or never if the organization was unknown then, and no   *)
(* late settle revives a row (settle, runTerminalFailureBlock).             *)
ImplementsQueue == Queue!Spec

=============================================================================

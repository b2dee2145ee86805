---------------------------- MODULE OutboxRelay ----------------------------
(***************************************************************************)
(* The transactional outbox after COMMIT: the outbox_event table and the   *)
(* relays that drain it (packages/outbox: OutboxRelay,                     *)
(* DrizzleOutboxRepository; packages/drizzle: lease).                      *)
(*                                                                         *)
(* A relay claims due rows in one statement (attempts + 1 is the fencing   *)
(* token, next_attempt_at = now + lease hides the row), runs the named     *)
(* handlers that the row does not list as delivered, and settles the row   *)
(* with an UPDATE guarded by "attempts = token and not dispatched".        *)
(*                                                                         *)
(* Time is relative: row.next counts the ticks until next_attempt_at, 0    *)
(* when it is past.  A relay may be arbitrarily slow: its lease may run    *)
(* out while its handlers run.                                             *)
(***************************************************************************)
EXTENDS Integers, FiniteSets

CONSTANTS
    Events,       \* business events published through the outbox
    Handlers,     \* persisted handler names
    Relays,       \* API processes, one OutboxRelay each
    Subscribed,   \* Subscribed[r]: handlers registered in process r
    ClaimLimit,   \* claimLimitOf(options): most rows in one claim
    Concurrency,  \* OUTBOX_CONCURRENCY: parallel lanes of a drain
    MaxAttempts,  \* OUTBOX_MAX_ATTEMPTS
    Lease,        \* OUTBOX_LEASE_SECONDS, in ticks
    RetryCap,     \* longest jittered retry delay, in ticks
    DeadRetry,    \* OUTBOX_DEAD_RETRY_HOURS, in ticks
    FaultBound,   \* bound: failures, crashes, lost writes, expired leases
    StopBound,    \* bound: graceful stops (deploys)
    Null          \* SQL NULL

(* The row announcing the death of e: an outbox.event_dead event. *)
Notice(e) == <<"outbox.event_dead", e>>
Notices == {Notice(e) : e \in Events}
Ids == Events \cup Notices

ASSUME ConstantsAssumption ==
    /\ IsFiniteSet(Events) /\ IsFiniteSet(Relays)
    /\ Events \cap Notices = {}
    /\ Subscribed \in [Relays -> SUBSET Handlers]
    /\ ClaimLimit \in Nat \ {0} /\ Concurrency \in Nat \ {0}
    /\ MaxAttempts \in Nat \ {0}
    /\ Lease \in Nat \ {0} /\ RetryCap \in Nat \ {0} /\ DeadRetry \in Nat \ {0}
    /\ FaultBound \in Nat /\ StopBound \in Nat
    /\ Null \notin Nat

VARIABLES
    row,        \* the outbox_event table
    job,        \* job[r][e]: what relay r holds of row e, NoJob when nothing
    proc,       \* life cycle of each relay's process
    lanes,      \* lanes still alive in the running drain
    ran,        \* history: handlers that took effect, per row
    announced,  \* history: deaths announced, per row
    floor,      \* history: token of the last failure written, per row
    faults,     \* faults spent
    stops       \* graceful stops spent

vars == <<row, job, proc, lanes, ran, announced, floor, faults, stops>>

Row == [status : {"absent", "pending", "dispatched", "purged"},
        attempts : Nat,
        next : Nat \cup {Null},
        dead : BOOLEAN,
        deliveries : SUBSET Handlers]

Job == [phase : {"none", "queued", "running", "interrupted"},
        token : Nat,
        wasDead : BOOLEAN,
        seen : SUBSET Handlers,
        ok : SUBSET Handlers,
        bad : SUBSET Handlers,
        left : Nat,        \* ticks of lease left
        lost : BOOLEAN]    \* history: another relay claimed the row since

NoRow == [status |-> "absent", attempts |-> 0, next |-> Null,
          dead |-> FALSE, deliveries |-> {}]
NewRow == [NoRow EXCEPT !.status = "pending"]

NoJob == [phase |-> "none", token |-> 0, wasDead |-> FALSE,
          seen |-> {}, ok |-> {}, bad |-> {}, left |-> 0,
          lost |-> FALSE]

-----------------------------------------------------------------------------
(* Reading the table and the relays. *)

Holds(r, e) == job[r][e].phase # "none"
Idle(r) == \A e \in Ids : ~Holds(r, e)

(* Mutant: the guard forgets the claimed attempts. *)
LeaseMatches_NoToken(r, e) == row[e].status = "pending"

(* leased(lease): the guard of every settle. *)
LeaseMatches(r, e) ==
    /\ row[e].status = "pending"
    /\ row[e].attempts = job[r][e].token

(* isDue / isDeadDue: a live row is due with no next attempt or a past one, *)
(* a dead row only with a past one.                                         *)
LiveDue == {e \in Ids : /\ row[e].status = "pending" /\ ~row[e].dead
                        /\ row[e].next \in {Null, 0}}
(* Mutant: the claim leaves out the dead rows. *)
DeadDue_Never == {}
DeadDue == {e \in Ids : /\ row[e].status = "pending" /\ row[e].dead
                        /\ row[e].next = 0}

(* deadShareOf: a claim takes at most a quarter of dead rows, rounded up. *)
DeadShare == (ClaimLimit + 3) \div 4

Busy(r) == {e \in Ids : job[r][e].phase \in {"running", "interrupted"}}
FreeLane(r) == Cardinality(Busy(r)) < lanes[r]
Pending(r, e) == Subscribed[r] \ (job[r][e].seen \cup job[r][e].ok \cup job[r][e].bad)
(* Mutant: settle as soon as one handler is done. *)
Finished_Any(r, e) == job[r][e].phase = "running" /\ job[r][e].ok \cup job[r][e].bad # {}
Finished(r, e) == job[r][e].phase = "running" /\ Pending(r, e) = {}

(* eachBounded opens one lane per record, up to the concurrency. *)
LanesFor(S) == IF Cardinality(S) < Concurrency THEN Cardinality(S) ELSE Concurrency

(* failureSchedule: dead on the last attempt or when it already was. *)
GoesDead(r, e) == job[r][e].wasDead \/ job[r][e].token >= MaxAttempts
FailureDelays(r, e) == IF GoesDead(r, e) THEN {DeadRetry} ELSE 1..RetryCap

(* A delivery with no subscriber in the process counts as a failure. *)
(* Mutant: no handler, no failure. *)
FailedDelivery_Vacuous(r, e) == job[r][e].bad # {}
FailedDelivery(r, e) == Subscribed[r] = {} \/ job[r][e].bad # {}

(* settleFailure announces the first death of anything but a notice. *)
(* Mutant: every failed replay announces. *)
Announces_EveryDeath(r, e) == LeaseMatches(r, e) /\ GoesDead(r, e) /\ e \in Events
Announces(r, e) ==
    LeaseMatches(r, e) /\ GoesDead(r, e) /\ ~job[r][e].wasDead /\ e \in Events

(* claimedSet, releasedSet and the changes of the two settles. *)
(* Mutants: the release does not give back, or gives back too much.         *)
ReleasedRow_Kept(w) == [w EXCEPT !.next = 0]
ReleasedRow_Reset(w) == [w EXCEPT !.attempts = 0, !.next = 0]
ClaimedRow(w) == [w EXCEPT !.attempts = @ + 1, !.next = Lease]
ReleasedRow(w) == [w EXCEPT !.attempts = @ - 1, !.next = 0]
DeliveredRow(w, ok) == [w EXCEPT !.status = "dispatched", !.next = Null,
                                 !.dead = FALSE, !.deliveries = @ \cup ok]
FailedRow(w, ok, delay, dies) == [w EXCEPT !.next = delay, !.dead = @ \/ dies,
                                           !.deliveries = @ \cup ok]

(* The relay's copy of the row it just claimed (the RETURNING clause). *)
ClaimedJob(w) == [NoJob EXCEPT !.phase = "queued", !.token = w.attempts,
                               !.wasDead = w.dead, !.seen = w.deliveries,
                               !.left = Lease]

(* requeueDead: only rows further than one lease away, so that a row under  *)
(* replay is left alone.                                                    *)
(* Mutant: any dead row. *)
Requeueable_Leased(e) == row[e].status = "pending" /\ row[e].dead
Requeueable(e) ==
    /\ row[e].status = "pending" /\ row[e].dead
    /\ row[e].next # Null /\ row[e].next > Lease

(* buildPurgeFilter: dispatched rows only. *)
Purgeable(e) == row[e].status = "dispatched"

Fault == faults < FaultBound /\ faults' = faults + 1

-----------------------------------------------------------------------------
(* enqueue: the row becomes visible when the business transaction commits. *)
Enqueue(e) ==
    /\ row[e].status = "absent"
    /\ row' = [row EXCEPT ![e] = NewRow]
    /\ UNCHANGED <<job, proc, lanes, ran, announced, floor, faults, stops>>

(* drainOnce, first half: one claim statement.  SKIP LOCKED may hide any    *)
(* row another statement is writing, so the batch is any set within the     *)
(* limits.  A relay without subscribers is a misconfiguration: a fault.     *)
Claim(r) ==
    /\ proc[r] = "up"
    /\ Idle(r)
    /\ IF Subscribed[r] = {} THEN Fault ELSE UNCHANGED faults
    /\ \E S \in SUBSET (LiveDue \cup DeadDue) :
         /\ S # {}
         /\ Cardinality(S) <= ClaimLimit
         /\ Cardinality(S \cap DeadDue) <= DeadShare
         /\ row' = [e \in Ids |-> IF e \in S THEN ClaimedRow(row[e]) ELSE row[e]]
         /\ job' = [p \in Relays |-> [e \in Ids |->
                      IF e \notin S THEN job[p][e]
                      ELSE IF p = r THEN ClaimedJob(ClaimedRow(row[e]))
                      ELSE IF Holds(p, e) THEN [job[p][e] EXCEPT !.lost = TRUE]
                      ELSE job[p][e]]]
         /\ lanes' = [lanes EXCEPT ![r] = LanesFor(S)]
    /\ UNCHANGED <<proc, ran, announced, floor, stops>>

(* drainOnce on a table with nothing due. *)
EmptyDrain(r) ==
    /\ proc[r] = "up"
    /\ Idle(r)
    /\ LiveDue \cup DeadDue = {}
    /\ UNCHANGED vars

(* eachBounded: a free lane takes the next record and starts its handlers. *)
Start(r, e) ==
    /\ proc[r] = "up"
    /\ job[r][e].phase = "queued"
    /\ FreeLane(r)
    /\ job' = [job EXCEPT ![r][e].phase = "running"]
    /\ UNCHANGED <<row, proc, lanes, ran, announced, floor, faults, stops>>

(* runOne: the handler took effect and reported success. *)
HandlerOk(r, e, h) ==
    /\ job[r][e].phase = "running"
    /\ h \in Pending(r, e)
    /\ job' = [job EXCEPT ![r][e].ok = @ \cup {h}]
    /\ ran' = [ran EXCEPT ![e] = @ \cup {h}]
    /\ UNCHANGED <<row, proc, lanes, announced, floor, faults, stops>>

(* runOne: the handler threw, returned a failed Result or outlived its      *)
(* budget.  A timed-out handler is not cancelled: it may have taken effect. *)
HandlerFail(r, e, h) ==
    /\ job[r][e].phase = "running"
    /\ h \in Pending(r, e)
    /\ Fault
    /\ job' = [job EXCEPT ![r][e].bad = @ \cup {h}]
    /\ \/ UNCHANGED ran
       \/ ran' = [ran EXCEPT ![e] = @ \cup {h}]
    /\ UNCHANGED <<row, proc, lanes, announced, floor, stops>>

(* settle, every handler succeeded: markDelivered under the lease guard.  A *)
(* guard that matches nothing writes nothing and counts nothing.            *)
MarkDelivered(r, e) ==
    /\ Finished(r, e)
    /\ ~FailedDelivery(r, e)
    /\ row' = IF LeaseMatches(r, e)
                THEN [row EXCEPT ![e] = DeliveredRow(@, job[r][e].ok)]
                ELSE row
    /\ job' = [job EXCEPT ![r][e] = NoJob]
    /\ UNCHANGED <<proc, lanes, ran, announced, floor, faults, stops>>

(* settleFailure: one unit of work writes the failure and, when the row     *)
(* dies for the first time, announces it; outbox.event_dead rows die mute.  *)
MarkFailed(r, e) ==
    /\ Finished(r, e)
    /\ FailedDelivery(r, e)
    /\ job' = [job EXCEPT ![r][e] = NoJob]
    /\ \E d \in FailureDelays(r, e) :
         row' = [i \in Ids |->
           CASE i = e /\ LeaseMatches(r, e) ->
                  FailedRow(row[i], job[r][e].ok, d, GoesDead(r, e))
             [] i # e /\ Announces(r, e) /\ i = Notice(e) /\ row[i].status = "absent" -> NewRow
             [] OTHER -> row[i]]
    /\ announced' = [announced EXCEPT ![e] = IF Announces(r, e) THEN @ + 1 ELSE @]
    /\ floor' = [floor EXCEPT ![e] = IF LeaseMatches(r, e) THEN job[r][e].token ELSE @]
    /\ UNCHANGED <<proc, lanes, ran, faults, stops>>

(* release: an interrupted record, or one that a lane takes after the halt, *)
(* gives its attempt back.                                                  *)
Releasing(r, e) ==
    \/ job[r][e].phase = "interrupted"
    \/ job[r][e].phase = "queued" /\ proc[r] # "up" /\ FreeLane(r)

Release(r, e) ==
    /\ Releasing(r, e)
    /\ row' = IF LeaseMatches(r, e) THEN [row EXCEPT ![e] = ReleasedRow(@)] ELSE row
    /\ job' = [job EXCEPT ![r][e] = NoJob]
    /\ UNCHANGED <<proc, lanes, ran, announced, floor, faults, stops>>

(* A settle or a release that the database refuses throws: its lane ends.   *)
(* When the last lane ends the drain fails and drops what it never started. *)
SettleError(r, e) ==
    /\ Finished(r, e) \/ Releasing(r, e)
    /\ Fault
    /\ lanes' = [lanes EXCEPT ![r] = @ - 1]
    /\ job' = [job EXCEPT ![r] = [i \in Ids |->
                 IF i = e \/ (lanes[r] = 1 /\ job[r][i].phase = "queued")
                   THEN NoJob ELSE job[r][i]]]
    /\ UNCHANGED <<row, proc, ran, announced, floor, stops>>

-----------------------------------------------------------------------------
(* Process life cycle: stop = halt, then abandonInFlight after the grace. *)

Halt(r) ==
    /\ proc[r] = "up"
    /\ stops < StopBound /\ stops' = stops + 1
    /\ proc' = [proc EXCEPT ![r] = "halted"]
    /\ UNCHANGED <<row, job, lanes, ran, announced, floor, faults>>

AbandonInFlight(r) ==
    /\ proc[r] = "halted"
    /\ ~Idle(r)
    /\ proc' = [proc EXCEPT ![r] = "abandoned"]
    /\ job' = [job EXCEPT ![r] = [e \in Ids |->
                 IF job[r][e].phase = "running" /\ Pending(r, e) # {}
                   THEN [job[r][e] EXCEPT !.phase = "interrupted"]
                   ELSE job[r][e]]]
    /\ UNCHANGED <<row, lanes, ran, announced, floor, faults, stops>>

Stopped(r) ==
    /\ proc[r] \in {"halted", "abandoned"}
    /\ Idle(r)
    /\ proc' = [proc EXCEPT ![r] = "down"]
    /\ UNCHANGED <<row, job, lanes, ran, announced, floor, faults, stops>>

Crash(r) ==
    /\ proc[r] # "down"
    /\ Fault
    /\ proc' = [proc EXCEPT ![r] = "down"]
    /\ job' = [job EXCEPT ![r] = [e \in Ids |-> NoJob]]
    /\ UNCHANGED <<row, lanes, ran, announced, floor, stops>>

Restart(r) ==
    /\ proc[r] = "down"
    /\ proc' = [proc EXCEPT ![r] = "up"]
    /\ UNCHANGED <<row, job, lanes, ran, announced, floor, faults, stops>>

-----------------------------------------------------------------------------
(* requeueDead, from the admin console: due now, on the normal replay path. *)
RequeueDead(e) ==
    /\ Requeueable(e)
    /\ row' = [row EXCEPT ![e].next = 0]
    /\ UNCHANGED <<job, proc, lanes, ran, announced, floor, faults, stops>>

(* sweep-outbox: the retention sweep deletes dispatched rows only. *)
Purge(e) ==
    /\ Purgeable(e)
    /\ row' = [row EXCEPT ![e].status = "purged"]
    /\ UNCHANGED <<job, proc, lanes, ran, announced, floor, faults, stops>>

Minus1(n) == IF n \in Nat /\ n > 0 THEN n - 1 ELSE n
Expiring == \E r \in Relays, e \in Ids : job[r][e].left = 1

(* One tick of the database clock.  A lease that runs out under its holder  *)
(* is a fault: claimLimitOf and the handler budget keep a healthy relay     *)
(* within its lease.                                                        *)
Tick ==
    /\ \/ \E e \in Ids : row[e].next \notin {Null, 0}
       \/ \E r \in Relays, e \in Ids : job[r][e].left > 0
    /\ IF Expiring THEN Fault ELSE UNCHANGED faults
    /\ row' = [e \in Ids |-> [row[e] EXCEPT !.next = Minus1(@)]]
    /\ job' = [r \in Relays |-> [e \in Ids |-> [job[r][e] EXCEPT !.left = Minus1(@)]]]
    /\ UNCHANGED <<proc, lanes, ran, announced, floor, stops>>

-----------------------------------------------------------------------------
Init ==
    /\ row = [e \in Ids |-> NoRow]
    /\ job = [r \in Relays |-> [e \in Ids |-> NoJob]]
    /\ proc = [r \in Relays |-> "up"]
    /\ lanes = [r \in Relays |-> 0]
    /\ ran = [e \in Ids |-> {}]
    /\ announced = [e \in Ids |-> 0]
    /\ floor = [e \in Ids |-> 0]
    /\ faults = 0
    /\ stops = 0

Settle(r, e) == MarkDelivered(r, e) \/ MarkFailed(r, e) \/ Release(r, e)

Next ==
    \/ \E e \in Events : Enqueue(e)
    \/ \E r \in Relays : Claim(r) \/ EmptyDrain(r) \/ Halt(r) \/ AbandonInFlight(r)
                         \/ Stopped(r) \/ Crash(r) \/ Restart(r)
    \/ \E r \in Relays, e \in Ids : Start(r, e) \/ Settle(r, e) \/ SettleError(r, e)
    \/ \E r \in Relays, e \in Ids, h \in Handlers :
         HandlerOk(r, e, h) \/ HandlerFail(r, e, h)
    \/ \E e \in Ids : RequeueDead(e) \/ Purge(e)
    \/ Tick

Spec == Init /\ [][Next]_vars

(* Handlers run under a budget, drains loop and the clock advances; nothing *)
(* is assumed of the operator, of the sweep or of the faults.               *)
Fairness ==
    /\ WF_vars(Tick)
    /\ \A r \in Relays :
         /\ WF_vars(Claim(r)) /\ WF_vars(Stopped(r)) /\ WF_vars(Restart(r))
         /\ WF_vars(AbandonInFlight(r))
         /\ \A e \in Ids :
              /\ WF_vars(Start(r, e)) /\ WF_vars(Settle(r, e))
              /\ \A h \in Handlers : WF_vars(HandlerOk(r, e, h))

FairSpec == Spec /\ Fairness

-----------------------------------------------------------------------------
(* Properties. *)

(* Every variable keeps its type; in particular attempts, which release     *)
(* decrements, never goes below zero.                                       *)
TypeOK ==
    /\ row \in [Ids -> Row]
    /\ job \in [Relays -> [Ids -> Job]]
    /\ proc \in [Relays -> {"up", "halted", "abandoned", "down"}]
    /\ lanes \in [Relays -> Int]
    /\ ran \in [Ids -> SUBSET Handlers]
    /\ announced \in [Ids -> Nat]
    /\ floor \in [Ids -> Nat]
    /\ faults \in 0..FaultBound
    /\ stops \in 0..StopBound

(* Fencing (leasedBy, releasedSet): although a release gives the attempt    *)
(* number back, two relays that hold one row never carry the same token,    *)
(* and no token is ahead of the row.                                        *)
Fencing ==
    \A e \in Ids : \A p \in Relays : Holds(p, e) =>
        /\ job[p][e].token <= row[e].attempts
        /\ \A q \in Relays \ {p} : Holds(q, e) => job[p][e].token # job[q][e].token

(* A relay whose lease still runs is the only one with a running lease on   *)
(* the row and its settle is certain to match (claimedSet, requeueDead).    *)
LeaseHonoured ==
    \A r \in Relays, e \in Ids : job[r][e].left > 0 =>
        /\ LeaseMatches(r, e)
        /\ \A q \in Relays \ {r} : job[q][e].left = 0

(* When a settle gets through its guard, what the relay read at claim time  *)
(* is still what the row says: the death flag that decides the announcement *)
(* and the deliveries that decide which handlers ran (settle, deliver).     *)
SnapshotFresh ==
    \A r \in Relays, e \in Ids : Holds(r, e) /\ LeaseMatches(r, e) =>
        /\ job[r][e].wasDead = row[e].dead
        /\ job[r][e].seen = row[e].deliveries

(* A dispatched event was handled by every handler of the process that      *)
(* settled it, over however many attempts, relays and crashes; a handler    *)
(* recorded in deliveries took effect (markDelivered, merged).              *)
DispatchedImpliesHandled ==
    \A e \in Ids :
        /\ row[e].deliveries \subseteq ran[e]
        /\ row[e].status \in {"dispatched", "purged"} =>
             \E r \in Relays : Subscribed[r] # {} /\ Subscribed[r] \subseteq row[e].deliveries

(* Only faults burn attempts: a graceful stop, at any point of a drain,     *)
(* gives back every attempt it took (release, abandonInFlight).             *)
DeployBurnsNothing ==
    \A e \in Ids : row[e].status = "pending" =>
        row[e].attempts <= faults + Cardinality({r \in Relays : Holds(r, e)})

(* Every enqueued event is eventually dispatched once faults cease, however *)
(* many attempts it took and even if it died meanwhile.                     *)
EventuallyDispatched ==
    \A e \in Events :
        row[e].status = "pending" ~> row[e].status \in {"dispatched", "purged"}

-----------------------------------------------------------------------------
(* The refinement mapping to DeliveryQueue: pending rows are dead or alive, *)
(* a purged row is gone; notices are how deaths are told, not items.        *)
QueueStatus(e) ==
    IF row[e].status = "pending" /\ row[e].dead THEN "dead"
    ELSE IF row[e].status = "dispatched" THEN "settled"
    ELSE IF row[e].status = "purged" THEN "gone" ELSE row[e].status
ItemStatus == [e \in Events |-> QueueStatus(e)]
ItemTold == [e \in Events |-> announced[e]]

Queue == INSTANCE DeliveryQueue WITH Items <- Events, Losable <- {"settled"},
                                     status <- ItemStatus, told <- ItemTold

(* Over every interleaving of relays, expired leases, late settles, crashes *)
(* and deploys the table behaves as a DeliveryQueue in which only delivered *)
(* events are removed (markDelivered, settleFailure, purge): the first      *)
(* death, and no other failure, is announced in the step that writes it.    *)
ImplementsQueue == Queue!Spec

=============================================================================

--------------------------- MODULE EmailDelivery ---------------------------
(***************************************************************************)
(* The email queue (packages/email): workers claim rows by lease, group    *)
(* them in chunks, pin a batch key on each chunk, send it to the provider  *)
(* under an idempotency key derived from the batch key and the entries,    *)
(* and settle row by row.  Workers crash, answers are lost, leases expire  *)
(* under a stalled worker, and the provider may refuse single entries.     *)
(***************************************************************************)
EXTENDS Integers, FiniteSets

CONSTANTS
    Workers,
    EmailBound,    \* emails are 1..EmailBound, in creation order
    ChunkSize,     \* EMAIL_BATCH_CHUNK_SIZE
    ClaimLimit,    \* rows a claim picks before it adds their batch siblings
    MaxAttempts,   \* EMAIL_MAX_ATTEMPTS
    AttemptBound,  \* bound: claims of one email
    FaultBound     \* bound: everything that goes wrong

ASSUME EmailAssumption ==
    /\ {ChunkSize, ClaimLimit, MaxAttempts, AttemptBound} \subseteq Nat \ {0}
    /\ {EmailBound, FaultBound} \subseteq Nat

Emails == 1..EmailBound

VARIABLES
    row,       \* email_message
    poison,    \* emails that never render
    stale,     \* emails past the dead replay window
    pc,        \* per worker: the step of drainOnce and sendChunk
    hold,      \* per worker: the claimed rows not settled yet, as read by the claim
    chunk,     \* per worker: the chunk in hand
    key,       \* per worker: the batch key of that chunk
    answer,    \* per worker: what batchSend returned
    refused,   \* per worker: the entries the provider refused
    accepted,  \* provider: the requests it took, by idempotency key
    delivered, \* provider: how often it sent each email
    announced, \* email.delivery.exhausted events per email
    loose,     \* history: emails whose batch was broken up or joined late, or whose
               \* old lease was revived
    faults

workerVars == <<pc, hold, chunk, key, answer, refused>>
vars == <<row, poison, stale, workerVars, accepted, delivered, announced, loose, faults>>

Row == [status : {"none", "pending", "sent", "failed", "dead"}, attempts : 0..AttemptBound,
        due : BOOLEAN, batch : SUBSET Emails]
Job == [attempts : 1..AttemptBound, status : {"pending", "dead"}, batch : SUBSET Emails,
        unsettled : Nat]

Fault == faults < FaultBound /\ faults' = faults + 1
Unsettled(e) == row[e].status \in {"pending", "dead"}
NoHold == [e \in {} |-> 0]

(* enqueue *)
Enqueue(e) ==
    /\ row[e].status = "none"
    /\ row' = [row EXCEPT ![e] = [status |-> "pending", attempts |-> 0, due |-> TRUE,
                                  batch |-> {}]]
    /\ UNCHANGED <<poison, stale, workerVars, accepted, delivered, announced, loose, faults>>

-----------------------------------------------------------------------------
(* claim *)

Replayable(e) == row[e].status = "pending" \/ (row[e].status = "dead" /\ e \notin stale)
Claimable(e) == row[e].due /\ Replayable(e) /\ row[e].attempts < AttemptBound
Siblings(e) == {f \in Emails : row[f].batch = row[e].batch /\ row[e].batch # {}}

(* Mutant: siblings are not brought along, nor missed. *)
UnsettledInBatch_Ignored(e) == 0
UnsettledInBatch(e) == Cardinality({f \in Siblings(e) : Unsettled(f) /\ Replayable(f)})

(* claimedSet. *)
ClaimedAttempts(e) == row[e].attempts + 1

(* claimQuery: rows picked, then every due sibling that no concurrent       *)
(* statement has locked.                                                    *)
Claim(w) ==
    /\ pc[w] = "idle"
    /\ \E picked \in SUBSET {e \in Emails : Claimable(e)} :
        /\ picked # {} /\ Cardinality(picked) <= ClaimLimit
        /\ LET siblings == {f \in Emails : Claimable(f) /\ \E e \in picked : f \in Siblings(e)}
           IN \E locked \in SUBSET (siblings \ picked) :
                LET taken == picked \cup (siblings \ locked)
                IN /\ IF locked = {} THEN UNCHANGED faults ELSE Fault
                   /\ hold' = [hold EXCEPT ![w] =
                        [e \in taken |-> [attempts |-> ClaimedAttempts(e),
                                          status |-> row[e].status, batch |-> row[e].batch,
                                          unsettled |-> UnsettledInBatch(e)]]]
                   /\ row' = [e \in Emails |->
                        IF e \in taken
                          THEN [row[e] EXCEPT !.attempts = ClaimedAttempts(e), !.due = FALSE]
                          ELSE row[e]]
    /\ pc' = [pc EXCEPT ![w] = "claimed"]
    /\ UNCHANGED <<poison, stale, chunk, key, answer, refused, accepted, delivered,
                   announced, loose>>

-----------------------------------------------------------------------------
(* Guarded writes: leasedBy and unsettled. *)

Leased(w, S) == {e \in S : Unsettled(e) /\ row[e].attempts = hold[w][e].attempts}

(* Batch siblings a write of S leaves behind. *)
LeftBehind(S) ==
    {f \in Emails \ S : Unsettled(f) /\ row[f].batch # {} /\ \E e \in S : f \in Siblings(e)}

Drop(w, S) == [e \in DOMAIN hold[w] \ S |-> hold[w][e]]

(* Giving back the attempt makes the lease of an earlier, overtaken claim   *)
(* match again.                                                             *)
Revived(w, S) ==
    {e \in Leased(w, S) : \E v \in Workers \ {w} :
        e \in DOMAIN hold[v] /\ hold[v][e].attempts = row[e].attempts - 1}

(* release: the attempt is given back; or the write fails and the rows wait *)
(* for their lease.                                                         *)
Release(w, S, due) ==
    \/ /\ row' = [e \in Emails |-> IF e \in Leased(w, S)
                                     THEN [row[e] EXCEPT !.attempts = @ - 1, !.due = due]
                                     ELSE row[e]]
       /\ loose' = loose \cup Revived(w, S) \cup LeftBehind(Revived(w, S))
       /\ UNCHANGED faults
    \/ S # {} /\ Fault /\ UNCHANGED <<row, loose>>

(* The rows of S take a final or dead status in one unit of work with the   *)
(* events of those that were not dead before; or the write fails and        *)
(* nothing happened.                                                        *)
(* Mutant: a settle that wrote nothing announces. *)
Announces_Always(w, S, e) == e \in S
Announces(w, S, e) == e \in Leased(w, S) /\ hold[w][e].status # "dead"

SettleFailures(w, S, status) ==
    \/ /\ row' = [e \in Emails |-> IF e \in Leased(w, S)
                                     THEN [row[e] EXCEPT !.status = status, !.due = FALSE]
                                     ELSE row[e]]
       /\ announced' = [e \in Emails |->
            IF status # "pending" /\ Announces(w, S, e)
              THEN announced[e] + 1 ELSE announced[e]]
       /\ loose' = IF status = "failed" THEN loose \cup LeftBehind(Leased(w, S)) ELSE loose
       /\ UNCHANGED faults
    \/ /\ Fault
       /\ UNCHANGED <<row, announced, loose>>

-----------------------------------------------------------------------------
(* drainOnce *)

Lane(e, w) == IF hold[w][e].status = "dead" THEN "dead" ELSE "live"

(* groupRows: by batch key, or by lane and attempts. *)
Group(w, e) ==
    {f \in DOMAIN hold[w] :
        /\ hold[w][f].batch = hold[w][e].batch
        /\ hold[w][e].batch = {} => /\ Lane(f, w) = Lane(e, w)
                                    /\ hold[w][f].attempts = hold[w][e].attempts}

IsWholeBatch(w, g) == \A f \in g : Cardinality(g) >= hold[w][f].unsettled

ReleaseIncomplete(w) ==
    /\ pc[w] = "claimed"
    /\ LET broken == {e \in DOMAIN hold[w] : ~IsWholeBatch(w, Group(w, e))}
       IN /\ hold' = [hold EXCEPT ![w] = Drop(w, broken)]
          /\ Release(w, broken, TRUE)
    /\ pc' = [pc EXCEPT ![w] = "looping"]
    /\ UNCHANGED <<poison, stale, chunk, key, answer, refused, accepted, delivered, announced>>

NextChunk(w) ==
    /\ pc[w] = "looping" /\ hold[w] # NoHold
    /\ \E first \in DOMAIN hold[w] :
        LET group == Group(w, first)
        IN chunk' = [chunk EXCEPT ![w] =
             {e \in group : Cardinality({f \in group : f < e}) < ChunkSize}]
    /\ pc' = [pc EXCEPT ![w] = "rendering"]
    /\ UNCHANGED <<row, poison, stale, hold, key, answer, refused, accepted, delivered,
                   announced, loose, faults>>

(* A stop, or a lease that does not cover another chunk. *)
ReleaseRest(w) ==
    /\ pc[w] = "looping" /\ hold[w] # NoHold
    /\ Release(w, DOMAIN hold[w], TRUE)
    /\ hold' = [hold EXCEPT ![w] = NoHold]
    /\ UNCHANGED <<poison, stale, pc, chunk, key, answer, refused, accepted, delivered,
                   announced>>

DrainDone(w) ==
    /\ pc[w] = "looping" /\ hold[w] = NoHold
    /\ pc' = [pc EXCEPT ![w] = "idle"]
    /\ UNCHANGED <<row, poison, stale, hold, chunk, key, answer, refused, accepted, delivered,
                   announced, loose, faults>>

-----------------------------------------------------------------------------
(* sendChunk *)

RenderFails(w, e) ==
    /\ pc[w] = "rendering" /\ e \in chunk[w] \cap poison
    /\ SettleFailures(w, {e}, "failed")
    /\ chunk' = [chunk EXCEPT ![w] = @ \ {e}]
    /\ hold' = [hold EXCEPT ![w] = Drop(w, {e})]
    /\ UNCHANGED <<poison, stale, pc, key, answer, refused, accepted, delivered>>

(* assignBatch, before the send: every row of the chunk, or no send. *)
(* Mutant: a chunk whose rows are not all held is sent all the same. *)
MaySend_Partly(w) == Leased(w, chunk[w]) # {}
MaySend(w) == Leased(w, chunk[w]) = chunk[w]

(* Rows of S join a batch that has others already: somebody else's lease on *)
(* them expired and was revived in between.                                 *)
Joined(S, batch) ==
    IF \E e \in S : row[e].batch # batch THEN {f \in Emails : row[f].batch = batch} ELSE {}

AssignBatch(w) ==
    /\ pc[w] = "rendering" /\ chunk[w] \cap poison = {}
    /\ LET carried == {hold[w][e].batch : e \in chunk[w]}
           batch == IF carried = {{}} THEN chunk[w] ELSE CHOOSE b \in carried : b # {}
       IN IF chunk[w] = {}
            THEN /\ pc' = [pc EXCEPT ![w] = "looping"]
                 /\ UNCHANGED <<row, key, answer, loose, faults>>
          ELSE \/ /\ row' = [e \in Emails |-> IF e \in Leased(w, chunk[w])
                                                THEN [row[e] EXCEPT !.batch = batch] ELSE row[e]]
                  /\ key' = [key EXCEPT ![w] = batch]
                  /\ pc' = [pc EXCEPT ![w] = IF MaySend(w) THEN "sending" ELSE "settling"]
                  /\ answer' = [answer EXCEPT ![w] = "unsent"]
                  /\ loose' = loose \cup Joined(Leased(w, chunk[w]), batch)
                  /\ UNCHANGED faults
               \/ /\ Fault
                  /\ pc' = [pc EXCEPT ![w] = "settling"]
                  /\ answer' = [answer EXCEPT ![w] = "unsent"]
                  /\ UNCHANGED <<row, key, loose>>
    /\ UNCHANGED <<poison, stale, hold, chunk, refused, accepted, delivered, announced>>

(* The provider takes a request it has no key for, entry by entry. *)
IdempotencyKey(w) == <<key[w], chunk[w]>>

ProviderAccepts(w) ==
    /\ pc[w] = "sending"
    /\ ~\E a \in accepted : a.key = IdempotencyKey(w)
    /\ \E no \in SUBSET chunk[w] :
        /\ IF no = {} THEN UNCHANGED faults ELSE Fault
        /\ accepted' = accepted \cup {[key |-> IdempotencyKey(w), refused |-> no]}
        /\ delivered' = [e \in Emails |-> IF e \in chunk[w] \ no THEN delivered[e] + 1
                                                                ELSE delivered[e]]
    /\ pc' = [pc EXCEPT ![w] = "waiting"]
    /\ UNCHANGED <<row, poison, stale, hold, chunk, key, answer, refused, announced, loose>>

(* A key it knows: it sends nothing again. *)
ProviderRecalls(w) ==
    /\ pc[w] = "sending"
    /\ \E a \in accepted : a.key = IdempotencyKey(w)
    /\ pc' = [pc EXCEPT ![w] = "waiting"]
    /\ UNCHANGED <<row, poison, stale, hold, chunk, key, answer, refused, accepted, delivered,
                   announced, loose, faults>>

Answered(w) ==
    /\ pc[w] = "waiting"
    /\ pc' = [pc EXCEPT ![w] = "settling"]
    /\ \/ \E a \in accepted :
            /\ a.key = IdempotencyKey(w)
            /\ answer' = [answer EXCEPT ![w] = "ok"]
            /\ refused' = [refused EXCEPT ![w] = a.refused]
            /\ UNCHANGED faults
       \/ \E kind \in {"retryable", "in_flight"} :
            /\ Fault
            /\ answer' = [answer EXCEPT ![w] = kind] /\ UNCHANGED refused
    /\ UNCHANGED <<row, poison, stale, hold, chunk, key, accepted, delivered, announced, loose>>

(* The request never got through, or is refused as a whole. *)
Unsent(w) ==
    /\ pc[w] = "sending"
    /\ ~\E a \in accepted : a.key = IdempotencyKey(w)
    /\ Fault
    /\ \E kind \in {"retryable", "rejected"} : answer' = [answer EXCEPT ![w] = kind]
    /\ pc' = [pc EXCEPT ![w] = "settling"]
    /\ UNCHANGED <<row, poison, stale, hold, chunk, key, refused, accepted, delivered,
                   announced, loose>>

-----------------------------------------------------------------------------
(* Settling the chunk. *)

Forget(w) ==
    /\ chunk' = [chunk EXCEPT ![w] = {}] /\ key' = [key EXCEPT ![w] = {}]
    /\ answer' = [answer EXCEPT ![w] = "unsent"] /\ refused' = [refused EXCEPT ![w] = {}]

ChunkDone(w) ==
    /\ pc' = [pc EXCEPT ![w] = "looping"]
    /\ hold' = [hold EXCEPT ![w] = Drop(w, chunk[w])]
    /\ Forget(w)
    /\ UNCHANGED <<poison, stale, accepted, delivered>>

ReleaseChunk(w) ==
    /\ pc[w] = "settling" /\ answer[w] \in {"unsent", "in_flight"}
    /\ Release(w, chunk[w], answer[w] = "unsent")
    /\ ChunkDone(w)
    /\ UNCHANGED announced

(* failureOfChunk: one fate for the whole chunk. *)
Dead(w) == \/ \E e \in chunk[w] : hold[w][e].status = "dead"
           \/ \E e \in chunk[w] : hold[w][e].attempts >= MaxAttempts

SettleRejected(w) ==
    /\ pc[w] = "settling" /\ answer[w] \in {"retryable", "rejected"}
    /\ IF answer[w] = "rejected" THEN SettleFailures(w, chunk[w], "failed")
       ELSE IF Dead(w) THEN SettleFailures(w, chunk[w], "dead")
       ELSE SettleFailures(w, chunk[w], "pending")
    /\ ChunkDone(w)

(* Mutant: the errors of single entries are not looked at. *)
Refusals_Ignored(w) == {}
Refusals(w) == refused[w] \cap chunk[w]

SettleRefused(w, e) ==
    /\ pc[w] = "settling" /\ answer[w] = "ok"
    /\ e \in Refusals(w)
    /\ SettleFailures(w, {e}, "failed")
    /\ chunk' = [chunk EXCEPT ![w] = @ \ {e}]
    /\ hold' = [hold EXCEPT ![w] = Drop(w, {e})]
    /\ UNCHANGED <<poison, stale, pc, key, answer, refused, accepted, delivered>>

MarkSent(w) ==
    /\ pc[w] = "settling" /\ answer[w] = "ok" /\ Refusals(w) = {}
    /\ \/ /\ row' = [e \in Emails |-> IF e \in Leased(w, chunk[w])
                                        THEN [row[e] EXCEPT !.status = "sent", !.due = FALSE]
                                        ELSE row[e]]
          /\ loose' = loose \cup LeftBehind(Leased(w, chunk[w]))
          /\ UNCHANGED faults
       \/ Fault /\ UNCHANGED <<row, loose>>
    /\ ChunkDone(w)
    /\ UNCHANGED announced

-----------------------------------------------------------------------------
(* Time and crashes. *)

(* A retry comes due, or a lease expires: under a live worker, a fault.     *)
ComesDue(e) ==
    /\ Unsettled(e) /\ ~row[e].due
    /\ IF \E w \in Workers : e \in DOMAIN hold[w] /\ hold[w][e].attempts = row[e].attempts
         THEN Fault ELSE UNCHANGED faults
    /\ row' = [row EXCEPT ![e].due = TRUE]
    /\ UNCHANGED <<poison, stale, workerVars, accepted, delivered, announced, loose>>

LeavesWindow(e) ==
    /\ row[e].status = "dead" /\ e \notin stale
    /\ stale' = stale \cup {e}
    /\ loose' = loose \cup LeftBehind({e})
    /\ UNCHANGED <<row, poison, workerVars, accepted, delivered, announced, faults>>

(* The process dies, or the unit of work throws out of drainOnce: no row    *)
(* is released.                                                             *)
Crash(w) ==
    /\ pc[w] # "idle" /\ Fault
    /\ pc' = [pc EXCEPT ![w] = "idle"]
    /\ hold' = [hold EXCEPT ![w] = NoHold]
    /\ Forget(w)
    /\ UNCHANGED <<row, poison, stale, accepted, delivered, announced, loose>>

-----------------------------------------------------------------------------
Init ==
    /\ row = [e \in Emails |-> [status |-> "none", attempts |-> 0, due |-> FALSE, batch |-> {}]]
    /\ poison \in SUBSET Emails /\ stale = {}
    /\ pc = [w \in Workers |-> "idle"] /\ hold = [w \in Workers |-> NoHold]
    /\ chunk = [w \in Workers |-> {}] /\ key = [w \in Workers |-> {}]
    /\ answer = [w \in Workers |-> "unsent"] /\ refused = [w \in Workers |-> {}]
    /\ accepted = {} /\ delivered = [e \in Emails |-> 0] /\ announced = [e \in Emails |-> 0]
    /\ loose = {} /\ faults = 0

Next ==
    \/ \E e \in Emails : Enqueue(e) \/ ComesDue(e) \/ LeavesWindow(e)
    \/ \E w \in Workers :
        \/ Claim(w) \/ ReleaseIncomplete(w) \/ NextChunk(w) \/ ReleaseRest(w) \/ DrainDone(w)
        \/ (\E e \in Emails : RenderFails(w, e) \/ SettleRefused(w, e))
        \/ AssignBatch(w) \/ ProviderAccepts(w) \/ ProviderRecalls(w) \/ Answered(w) \/ Unsent(w)
        \/ ReleaseChunk(w) \/ SettleRejected(w) \/ MarkSent(w) \/ Crash(w)

Spec == Init /\ [][Next]_vars

-----------------------------------------------------------------------------
(* Properties. *)

(* Rows, worker steps and provider counters are well formed. *)
TypeOK ==
    /\ row \in [Emails -> Row]
    /\ poison \in SUBSET Emails /\ stale \in SUBSET Emails /\ loose \in SUBSET Emails
    /\ pc \in [Workers -> {"idle", "claimed", "looping", "rendering", "sending", "waiting",
                           "settling"}]
    /\ answer \in [Workers -> {"unsent", "ok", "retryable", "in_flight", "rejected"}]
    /\ chunk \in [Workers -> SUBSET Emails] /\ key \in [Workers -> SUBSET Emails]
    /\ refused \in [Workers -> SUBSET Emails]
    /\ DOMAIN hold = Workers
    /\ \A w \in Workers : /\ DOMAIN hold[w] \subseteq Emails
                          /\ hold[w] \in [DOMAIN hold[w] -> Job]
    /\ accepted \subseteq [key : (SUBSET Emails) \X (SUBSET Emails), refused : SUBSET Emails]
    /\ delivered \in [Emails -> Nat] /\ announced \in [Emails -> Nat]
    /\ faults \in 0..FaultBound

(* An email goes out twice only if its batch was settled in parts, broken up *)
(* by the replay window or joined late, or a release revived the lease of   *)
(* an overtaken claim: a crash, a lost answer, a failed write or an expired *)
(* lease alone never duplicates it (batch_key and Idempotency-Key).         *)
DuplicatesAreExplained == \A e \in Emails : delivered[e] > 1 => e \in loose

(* An email marked sent was sent: no cached answer of another chunk, no     *)
(* settle of somebody else's claim (markSent).                              *)
SentWasDelivered == \A e \in Emails : row[e].status = "sent" => delivered[e] > 0

(* A chunk is sent only with its whole batch: every sibling that may still  *)
(* be sent, and renders, is in it (isWholeBatch), unless that sibling came  *)
(* loose: a worker whose lease a release revived may still pin it.          *)
BatchStaysTogether ==
    \A w \in Workers : pc[w] = "sending" =>
        \A e \in Emails \ (poison \cup loose) :
            Replayable(e) /\ row[e].batch = key[w] => e \in chunk[w]

-----------------------------------------------------------------------------
(* The refinement mapping to DeliveryQueue: "failed" is a death without a   *)
(* replay.                                                                  *)
QueueStatus(e) ==
    CASE row[e].status = "none" -> "absent"
      [] row[e].status = "sent" -> "settled"
      [] row[e].status = "failed" -> "dead"
      [] OTHER -> row[e].status

ItemStatus == [e \in Emails |-> QueueStatus(e)]

Queue == INSTANCE DeliveryQueue WITH
           Items <- Emails, Losable <- {}, status <- ItemStatus, told <- announced

(* However workers overlap, crash and settle late, the table behaves as a   *)
(* DeliveryQueue that loses nothing: email.delivery.exhausted is emitted    *)
(* with the first death and never again, not by a settle that wrote         *)
(* nothing nor by a replay that fails for good (settleFailures).            *)
ImplementsQueue == Queue!Spec

=============================================================================

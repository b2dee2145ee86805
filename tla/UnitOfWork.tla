----------------------------- MODULE UnitOfWork -----------------------------
(***************************************************************************)
(* The ambient unit of work: TransactionService.run and runOutermost       *)
(* (packages/drizzle), UnitOfWorkContext and EventCollector                *)
(* (packages/ddd-kit).  One asynchronous call chain opens transactions,    *)
(* nests runs in them, saves aggregates that raise events, fails, throws,  *)
(* swallows and rethrows.  An aggregate and the event its save raises      *)
(* share one identifier.                                                   *)
(***************************************************************************)
EXTENDS Integers, Sequences, FiniteSets

CONSTANTS
    Wired,       \* services with a flush handler (an outbox)
    Bare,        \* services without one
    SaveBound,   \* bound: aggregates saved
    TxBound,     \* bound: transactions opened
    DepthBound   \* bound: runs open at once

ASSUME UnitOfWorkAssumption ==
    /\ Wired \cap Bare = {}
    /\ SaveBound \in Nat /\ TxBound \in Nat /\ DepthBound \in Nat

Services == Wired \cup Bare
Aggregates == 1..SaveBound
Txs == 1..TxBound

VARIABLES
    stack,    \* the open scopes, innermost last
    tx,       \* per transaction: its state, its doom and what it has written
    opened,   \* transactions opened so far
    saved,    \* aggregates saved so far
    pitched,  \* the exception in the air: "no", "rollback" (FailedResultRollback) or "error"
    rows,     \* committed aggregates
    outbox,   \* committed outbox events
    closed,   \* history: some scope has closed
    lost,     \* history: saves without an event, or made after their scope closed
    failedIn, \* history: transactions in which a nested run failed or threw
    unheard   \* history: transactions whose COMMIT landed but was never acknowledged

vars == <<stack, tx, opened, saved, pitched, rows, outbox, closed, lost, failedIn, unheard>>

Scope == [kind : {"outermost", "nested"}, service : Services, tx : Txs, events : SUBSET Aggregates]

(* OutermostRun plus the transaction's own writes and the caller's answer. *)
Transaction ==
    [state   : {"unused", "open", "committed", "rolledback"},
     aborted : BOOLEAN,
     doom    : {"none", "failed", "thrown"},
     pending : [Services -> SUBSET Aggregates],
     rows    : SUBSET Aggregates,
     answer  : {"none", "ok", "failed", "thrown"}]

Unused == [state |-> "unused", aborted |-> FALSE, doom |-> "none",
           pending |-> [s \in Services |-> {}], rows |-> {}, answer |-> "none"]

Top == stack[Len(stack)]
(* Mutant: the scope stays open after its run. *)
CloseScope_Leaves == stack' = stack /\ closed' = TRUE
CloseScope == stack' = SubSeq(stack, 1, Len(stack) - 1) /\ closed' = TRUE
Running == stack # <<>> /\ pitched = "no"

-----------------------------------------------------------------------------
(* Entering a run. *)

(* db.transaction: a fresh transaction, its run the outermost one. *)
OpenTransaction(s) ==
    /\ opened < TxBound /\ Len(stack) < DepthBound
    /\ opened' = opened + 1
    /\ tx' = [tx EXCEPT ![opened + 1].state = "open"]
    /\ stack' = Append(stack, [kind |-> "outermost", service |-> s, tx |-> opened + 1,
                               events |-> {}])
    /\ UNCHANGED <<saved, pitched, rows, outbox, closed, lost, failedIn, unheard>>

Run(s) ==
    /\ pitched = "no"
    /\ IF stack = <<>>
         THEN OpenTransaction(s)
         ELSE /\ Len(stack) < DepthBound
              /\ stack' = Append(stack, [kind |-> "nested", service |-> s, tx |-> Top.tx,
                                         events |-> {}])
              /\ UNCHANGED <<tx, opened, saved, pitched, rows, outbox, closed, lost, failedIn,
                             unheard>>

(* A BetterAuth transaction: never joins the ambient one. *)
RunOutermost(s) == Running /\ OpenTransaction(s)

-----------------------------------------------------------------------------
(* Inside the work callback. *)

(* A repository writes through resolveExecutor and collects what the        *)
(* aggregate raised.  raises is FALSE too for a save by a promise the work  *)
(* does not await: its row is written while the flush runs, after its event *)
(* could still be collected.                                                *)
Save(raises) ==
    /\ Running /\ ~tx[Top.tx].aborted
    /\ saved < SaveBound
    /\ saved' = saved + 1
    /\ tx' = [tx EXCEPT ![Top.tx].rows = @ \cup {saved + 1}]
    /\ IF raises
         THEN /\ stack' = [stack EXCEPT ![Len(stack)].events = @ \cup {saved + 1}]
              /\ UNCHANGED lost
         ELSE lost' = lost \cup {saved + 1} /\ UNCHANGED stack
    /\ UNCHANGED <<opened, pitched, rows, outbox, closed, failedIn, unheard>>

(* A statement fails inside the transaction; the repository catches it and  *)
(* the caller only logs the failed Result.  PostgreSQL refuses every later  *)
(* statement of the transaction.                                            *)
StatementFails ==
    /\ Running
    /\ tx' = [tx EXCEPT ![Top.tx].aborted = TRUE]
    /\ UNCHANGED <<stack, opened, saved, pitched, rows, outbox, closed, lost, failedIn, unheard>>

(* A save by a promise that outlived its run: the scope is closed, so the *)
(* write goes to the pool and the event is only logged.                     *)
LateSave ==
    /\ closed
    /\ saved < SaveBound
    /\ saved' = saved + 1
    /\ rows' = rows \cup {saved + 1}
    /\ lost' = lost \cup {saved + 1}
    /\ UNCHANGED <<stack, tx, opened, pitched, outbox, closed, failedIn, unheard>>

(* The caller catches what a run it awaited threw, and carries on. *)
Swallow ==
    /\ pitched # "no" /\ stack # <<>>
    /\ pitched' = "no"
    /\ UNCHANGED <<stack, tx, opened, saved, rows, outbox, closed, lost, failedIn, unheard>>

-----------------------------------------------------------------------------
(* Leaving a nested run: runNested. *)

(* doom: the first cause stays. *)
(* Mutant: only an exception dooms the transaction. *)
Doom_ThrownOnly(d, cause) == IF d = "none" /\ cause = "thrown" THEN cause ELSE d
Doom(d, cause) == IF d = "none" THEN cause ELSE d

(* collect: the scope's events, filed under its service's flush handler. *)
(* Mutant: they replace what an earlier run filed there. *)
Collect_Replacing(t) == [tx[t].pending EXCEPT ![Top.service] = Top.events]
Collect(t) == [tx[t].pending EXCEPT ![Top.service] = @ \cup Top.events]

NestedReturns ==
    /\ Running /\ Top.kind = "nested"
    /\ CloseScope
    /\ tx' = [tx EXCEPT ![Top.tx].pending = Collect(Top.tx)]
    /\ UNCHANGED <<opened, saved, pitched, rows, outbox, lost, failedIn, unheard>>

(* The work resolves to a failed Result. *)
NestedFails ==
    /\ Running /\ Top.kind = "nested"
    /\ CloseScope
    /\ tx' = [tx EXCEPT ![Top.tx].doom = Doom(@, "failed")]
    /\ pitched' = "rollback"
    /\ failedIn' = failedIn \cup {Top.tx}
    /\ UNCHANGED <<opened, saved, rows, outbox, lost, unheard>>

(* The work throws, or does not catch what a run inside it threw. *)
NestedThrows ==
    /\ stack # <<>> /\ Top.kind = "nested"
    /\ CloseScope
    /\ IF pitched = "rollback"
         THEN UNCHANGED <<tx, pitched>>
         ELSE /\ tx' = [tx EXCEPT ![Top.tx].doom = Doom(@, "thrown")]
              /\ pitched' = "error"
    /\ failedIn' = failedIn \cup {Top.tx}
    /\ UNCHANGED <<opened, saved, rows, outbox, lost, unheard>>

-----------------------------------------------------------------------------
(* Leaving an outermost run: complete, then openTransaction's catch. *)

(* flush: the events of every handler, unless some run that raised any has  *)
(* no handler.                                                              *)
FlushRefuses(pending) == \E s \in Bare : pending[s] # {}
Flushed(pending) == UNION {pending[s] : s \in Wired}

(* What an enclosing unit sees of a transaction that rolled back: the error *)
(* itself, or the one asUnitOfWork makes of a failed Result.                *)
(* Mutant: the enclosing unit gets the other unit's FailedResultRollback.   *)
Rethrown_Marker == IF pitched = "rollback" THEN pitched ELSE "error"
Rethrown == "error"

RollBack(t, answer) ==
    /\ tx' = [tx EXCEPT ![t].state = "rolledback", ![t].answer = answer]
    /\ pitched' = IF stack' = <<>> THEN "no" ELSE Rethrown
    /\ UNCHANGED <<rows, outbox>>

MayCommit(t) == tx[t].doom = "none"

Commit(t, pending, answer) ==
    /\ tx' = [tx EXCEPT ![t].state = "committed", ![t].answer = answer, ![t].pending = pending]
    /\ rows' = rows \cup tx[t].rows
    /\ outbox' = outbox \cup Flushed(pending)

(* The work resolves with success; the COMMIT of an aborted transaction is  *)
(* a ROLLBACK that raises no error.                                         *)
OutermostReturns ==
    /\ Running /\ Top.kind = "outermost"
    /\ CloseScope
    /\ LET t == Top.tx
           pending == Collect(t)
       IN IF ~MayCommit(t)
            THEN RollBack(t, tx[t].doom)
          ELSE IF FlushRefuses(pending) \/ (tx[t].aborted /\ Flushed(pending) # {})
            THEN RollBack(t, "thrown")
          ELSE IF tx[t].aborted
            THEN /\ tx' = [tx EXCEPT ![t].state = "rolledback", ![t].answer = "ok"]
                 /\ UNCHANGED <<pitched, rows, outbox>>
          ELSE Commit(t, pending, "ok") /\ UNCHANGED pitched
    /\ UNCHANGED <<opened, saved, lost, failedIn, unheard>>

(* The flush fails, or the COMMIT does not land. *)
OutermostCommitFails ==
    /\ Running /\ Top.kind = "outermost" /\ MayCommit(Top.tx)
    /\ CloseScope
    /\ RollBack(Top.tx, "thrown")
    /\ UNCHANGED <<opened, saved, lost, failedIn, unheard>>

(* The COMMIT lands and its acknowledgement is lost: db.transaction rejects *)
(* with the connection's error, and run() rethrows it.                      *)
OutermostUnheard ==
    /\ Running /\ Top.kind = "outermost"
    /\ MayCommit(Top.tx) /\ ~tx[Top.tx].aborted /\ ~FlushRefuses(Collect(Top.tx))
    /\ CloseScope
    /\ Commit(Top.tx, Collect(Top.tx), "thrown")
    /\ pitched' = IF stack' = <<>> THEN "no" ELSE Rethrown
    /\ unheard' = unheard \cup {Top.tx}
    /\ UNCHANGED <<opened, saved, lost, failedIn>>

(* The work resolves to a failed Result. *)
OutermostFails ==
    /\ Running /\ Top.kind = "outermost"
    /\ CloseScope
    /\ RollBack(Top.tx, "failed")
    /\ UNCHANGED <<opened, saved, lost, failedIn, unheard>>

(* openTransaction's catch: FailedResultRollback ends here, as the failed   *)
(* Result it carries; anything else is rethrown.                            *)
(* Mutant: every error is swallowed. *)
AnswerOf_CatchAll(air) == IF air = "rollback" THEN "failed" ELSE "ok"
AnswerOf(air) == IF air = "rollback" THEN "failed" ELSE "thrown"

(* The work throws, or lets an exception through. *)
OutermostThrows ==
    /\ stack # <<>> /\ Top.kind = "outermost"
    /\ CloseScope
    /\ RollBack(Top.tx, AnswerOf(pitched))
    /\ UNCHANGED <<opened, saved, lost, failedIn, unheard>>

-----------------------------------------------------------------------------
Init ==
    /\ stack = <<>>
    /\ tx = [t \in Txs |-> Unused]
    /\ opened = 0 /\ saved = 0 /\ pitched = "no"
    /\ rows = {} /\ outbox = {} /\ closed = FALSE /\ lost = {} /\ failedIn = {}
    /\ unheard = {}

Next ==
    \/ \E s \in Services : Run(s) \/ RunOutermost(s)
    \/ \E raises \in BOOLEAN : Save(raises)
    \/ StatementFails \/ LateSave \/ Swallow
    \/ NestedReturns \/ NestedFails \/ NestedThrows
    \/ OutermostReturns \/ OutermostCommitFails \/ OutermostUnheard
    \/ OutermostFails \/ OutermostThrows

Spec == Init /\ [][Next]_vars

-----------------------------------------------------------------------------
(* Properties. *)

(* Scopes, transactions and the exception in the air are well formed. *)
TypeOK ==
    /\ stack \in Seq(Scope) /\ Len(stack) <= DepthBound
    /\ tx \in [Txs -> Transaction]
    /\ opened \in 0..TxBound /\ saved \in 0..SaveBound
    /\ pitched \in {"no", "rollback", "error"}
    /\ closed \in BOOLEAN
    /\ rows \subseteq Aggregates /\ outbox \subseteq Aggregates /\ lost \subseteq Aggregates
    /\ failedIn \subseteq Txs /\ unheard \subseteq Txs

(* A write is committed exactly when its event is in the outbox, whatever   *)
(* runs were nested, in whichever services (complete, flush); the only      *)
(* exceptions raise none, or come from a promise that outlived its run.     *)
EventsFollowRows == outbox = rows \ lost

(* A nested run that failed or threw rolls the whole unit back, even if its *)
(* caller swallowed the exception (doom).                                   *)
FailureRollsBack == \A t \in failedIn : tx[t].state # "committed"

(* What the caller of the outermost run may conclude (openTransaction): a   *)
(* failed Result means that everything was rolled back, and so does an      *)
(* exception, unless it is a COMMIT's lost acknowledgement; a success means *)
(* that it was committed, unless a statement failed unnoticed.  So what was *)
(* committed was answered ok or not acknowledged at all.                    *)
AnswerIsTrue ==
    \A t \in Txs :
        /\ tx[t].answer = "failed" => tx[t].state = "rolledback"
        /\ tx[t].answer = "thrown" => tx[t].state = "rolledback" \/ t \in unheard
        /\ tx[t].answer = "ok" => tx[t].state = "committed" \/ tx[t].aborted
        /\ tx[t].state = "committed" => tx[t].answer = "ok" \/ t \in unheard

(* What check-uow-rollback.ts asserts: the writes of a successful run are   *)
(* committed.                                                               *)
SuccessIsCommitted == \A t \in Txs : tx[t].answer = "ok" => tx[t].rows \subseteq rows

(* No open scope hands out a finished transaction (UnitOfWorkContext.run).  *)
NeverFinishedTransaction == \A i \in 1..Len(stack) : tx[stack[i].tx].state = "open"

(* No exception of a finished unit is left in the air, and FailedResult-    *)
(* Rollback never leaves the transaction that it rolls back.                *)
RollbackStaysInside ==
    /\ stack = <<>> => pitched = "no"
    /\ pitched = "rollback" => Top.tx \in failedIn

=============================================================================

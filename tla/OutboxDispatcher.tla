-------------------------- MODULE OutboxDispatcher --------------------------
(***************************************************************************)
(* When a process drains (packages/outbox: OutboxDispatcher): wakes by     *)
(* NOTIFY, by timer and at start are coalesced into one drain loop that    *)
(* sleeps until the next row is due, at most the poll interval.  Rows are  *)
(* only counted; OutboxRelay tells what a drain does to each of them.      *)
(***************************************************************************)
EXTENDS Integers

CONSTANTS
    DrainBound,    \* bound: drain loops running at once
    CommitBound,   \* bound: rows committed by business transactions
    FaultBound,    \* bound: failed drains, failed rows, lost NOTIFYs
    ClaimLimit     \* most rows a drain claims

ASSUME DispatcherAssumption ==
    /\ DrainBound \in Nat \ {0} /\ ClaimLimit \in Nat \ {0}
    /\ CommitBound \in Nat /\ FaultBound \in Nat

Drains == 1..DrainBound
NoDrain == 0

VARIABLES
    boot,      \* start(): "off", "listening" (the listener runs), "up"
    stopped,   \* this.stopped; the relay is halted from then on
    returned,  \* stop() has resolved
    draining,  \* this.draining
    again,     \* this.wakeRequested
    timer,     \* this.timer: "none", "soon" (a due row, a retry) or "poll"
    inFlight,  \* this.inFlight: the loop stop() awaits, NoDrain at first
    loop,      \* the running calls of drainUntilQuiet, each with its own locals
    due,       \* rows due now
    later,     \* rows whose next attempt is ahead
    notes,     \* NOTIFYs on their way to this process
    blind,     \* history: a NOTIFY was lost and no drain has begun since
    commits,
    faults

vars == <<boot, stopped, returned, draining, again, timer, inFlight, loop, due, later,
          notes, blind, commits, faults>>

(* A call of drainUntilQuiet: where it is, the rows it has claimed, whether *)
(* it settled any, and nextWakeMs as "now" (0), "soon" or "poll".           *)
Loop == [pc : {"idle", "claiming", "settling", "planning", "turn"}, held : 0..ClaimLimit,
         worked : BOOLEAN, plan : {"now", "soon", "poll"}]
Idle == [pc |-> "idle", held |-> 0, worked |-> FALSE, plan |-> "poll"]
Begun == [Idle EXCEPT !.pc = "claiming"]

Running(d) == loop[d].pc # "idle"
Goes(d, to) == loop' = [loop EXCEPT ![d] = to]

Fault == faults < FaultBound /\ faults' = faults + 1

-----------------------------------------------------------------------------
(* wake: the variables a wake-up writes. *)
flags == <<draining, again, timer, inFlight, loop, blind>>

BeginDrain ==
    /\ timer' = "none" /\ draining' = TRUE /\ again' = FALSE /\ blind' = FALSE
    /\ \E d \in Drains : ~Running(d) /\ inFlight' = d /\ Goes(d, Begun)

(* Mutant: wake does not look at draining. *)
Wake_Unguarded == IF stopped THEN UNCHANGED flags ELSE BeginDrain
Wake ==
    IF stopped THEN UNCHANGED flags
    ELSE IF draining THEN again' = TRUE /\ UNCHANGED <<draining, timer, inFlight, loop, blind>>
    ELSE BeginDrain

(* start, up to the running listener, then its own first wake. *)
StartListening ==
    /\ boot = "off"
    /\ boot' = "listening" /\ stopped' = FALSE
    /\ UNCHANGED <<returned, draining, again, timer, inFlight, loop, due, later, notes, blind,
                   commits, faults>>

StartWake ==
    /\ boot = "listening"
    /\ boot' = "up"
    /\ Wake
    /\ UNCHANGED <<stopped, returned, due, later, notes, commits, faults>>

(* A business transaction commits; its NOTIFY is sent or lost. *)
Commit ==
    /\ commits < CommitBound
    /\ commits' = commits + 1 /\ due' = due + 1
    /\ \/ notes' = notes + 1 /\ UNCHANGED <<blind, faults>>
       \/ Fault /\ blind' = TRUE /\ UNCHANGED notes
    /\ UNCHANGED <<boot, stopped, returned, draining, again, timer, inFlight, loop, later>>

NotifyArrives ==
    /\ notes > 0
    /\ notes' = notes - 1
    /\ IF boot = "off" THEN UNCHANGED flags ELSE Wake
    /\ UNCHANGED <<boot, stopped, returned, due, later, commits, faults>>

TimerFires ==
    /\ timer # "none"
    /\ Wake
    /\ UNCHANGED <<boot, stopped, returned, due, later, notes, commits, faults>>

(* A retry becomes due. *)
Ripen ==
    /\ later > 0
    /\ later' = later - 1 /\ due' = due + 1
    /\ UNCHANGED <<boot, stopped, returned, draining, again, timer, inFlight, loop, notes, blind,
                   commits, faults>>

-----------------------------------------------------------------------------
(* drainUntilQuiet and drainThenPlanNextWake, by loop d. *)

ClaimSize == IF due < ClaimLimit THEN due ELSE ClaimLimit

(* drainOnce claims, unless the relay was halted. *)
DrainClaim(d) ==
    LET n == IF stopped THEN 0 ELSE ClaimSize
    IN /\ loop[d].pc = "claiming"
       /\ Goes(d, [loop[d] EXCEPT !.pc = "settling", !.held = n, !.worked = FALSE])
       /\ due' = due - n
       /\ UNCHANGED <<boot, stopped, returned, draining, again, timer, inFlight, later, notes,
                      blind, commits, faults>>

(* A claimed row is dispatched, fails, or is released by a halted relay. *)
RowSettles(d) ==
    LET Settled(worked) == [loop[d] EXCEPT !.held = @ - 1, !.worked = worked]
    IN /\ loop[d].pc = "settling" /\ loop[d].held > 0
       /\ \/ Goes(d, Settled(TRUE)) /\ UNCHANGED <<due, later, faults>>
          \/ Goes(d, Settled(TRUE)) /\ Fault /\ later' = later + 1 /\ UNCHANGED due
          \/ stopped /\ Goes(d, Settled(loop[d].worked)) /\ due' = due + 1 /\ UNCHANGED <<later, faults>>
       /\ UNCHANGED <<boot, stopped, returned, draining, again, timer, inFlight, notes, blind, commits>>

DrainDone(d) ==
    /\ loop[d].pc = "settling" /\ loop[d].held = 0
    /\ Goes(d, [loop[d] EXCEPT !.pc = "planning"])
    /\ UNCHANGED <<boot, stopped, returned, draining, again, timer, inFlight, due, later, notes,
                   blind, commits, faults>>

(* pendingState: the delay the loop will sleep, read before it is used. *)
NextWake(worked) ==
    IF due > 0 THEN IF worked THEN "now" ELSE "soon"
    ELSE IF later > 0 THEN "soon" ELSE "poll"

PendingState(d) ==
    /\ loop[d].pc = "planning"
    /\ Goes(d, [loop[d] EXCEPT !.pc = "turn", !.plan = NextWake(loop[d].worked)])
    /\ UNCHANGED <<boot, stopped, returned, draining, again, timer, inFlight, due, later, notes,
                   blind, commits, faults>>

(* drainOnce or pendingState throws: what was claimed waits for its lease.  *)
DrainFails(d) ==
    /\ loop[d].pc \in {"claiming", "settling", "planning"}
    /\ Fault
    /\ Goes(d, [loop[d] EXCEPT !.pc = "turn", !.held = 0, !.plan = "soon"])
    /\ later' = later + loop[d].held
    /\ UNCHANGED <<boot, stopped, returned, draining, again, timer, inFlight, due, notes, blind, commits>>

(* The condition of the do-while: drain again, or sleep. *)
(* Mutants: wake-ups are ignored; an empty queue arms no timer. *)
GoesAround_Deaf(plan) == ~stopped /\ plan = "now"
GoesAround(plan) == ~stopped /\ (again \/ plan = "now")
SleepTimer_NoPoll(plan) == IF stopped THEN timer ELSE IF plan = "poll" THEN "none" ELSE plan
SleepTimer(plan) == IF stopped THEN timer ELSE plan

LoopTurn(d) ==
    /\ loop[d].pc = "turn"
    /\ IF GoesAround(loop[d].plan)
         THEN /\ Goes(d, Begun) /\ again' = FALSE /\ blind' = FALSE
              /\ UNCHANGED <<draining, timer>>
         ELSE /\ Goes(d, Idle) /\ draining' = FALSE /\ timer' = SleepTimer(loop[d].plan)
              /\ UNCHANGED <<again, blind>>
    /\ UNCHANGED <<boot, stopped, returned, inFlight, due, later, notes, commits, faults>>

(* stop, and its return once inFlight has settled. *)
Stop ==
    /\ boot = "up" /\ ~stopped
    /\ stopped' = TRUE
    /\ timer' = "none"
    /\ UNCHANGED <<boot, returned, draining, again, inFlight, loop, due, later, notes, blind,
                   commits, faults>>

(* Mutant: stop does not wait for the running drain. *)
StopMayReturn_AtOnce == stopped
StopMayReturn == stopped /\ (inFlight # NoDrain => ~Running(inFlight))

StopReturns ==
    /\ boot = "up" /\ StopMayReturn /\ ~returned
    /\ returned' = TRUE
    /\ UNCHANGED <<boot, stopped, draining, again, timer, inFlight, loop, due, later, notes, blind,
                   commits, faults>>

(* The process may stay stopped. *)
Terminated == returned /\ UNCHANGED vars

-----------------------------------------------------------------------------
Init ==
    /\ boot = "off" /\ stopped = TRUE /\ returned = FALSE
    /\ draining = FALSE /\ again = FALSE /\ timer = "none"
    /\ inFlight = NoDrain /\ loop = [d \in Drains |-> Idle]
    /\ due = 0 /\ later = 0 /\ notes = 0 /\ blind = FALSE /\ commits = 0 /\ faults = 0

DrainStep(d) ==
    \/ DrainClaim(d) \/ RowSettles(d) \/ DrainDone(d) \/ PendingState(d) \/ DrainFails(d)
    \/ LoopTurn(d)

Next ==
    \/ StartListening \/ StartWake \/ Commit \/ NotifyArrives \/ TimerFires \/ Ripen
    \/ (\E d \in Drains : DrainStep(d))
    \/ Stop \/ StopReturns \/ Terminated

Spec == Init /\ [][Next]_vars

(* Timers fire, retries ripen, awaited statements settle; NOTIFYs need not  *)
(* arrive.                                                                  *)
Fairness ==
    /\ WF_vars(StartListening) /\ WF_vars(StartWake)
    /\ WF_vars(TimerFires) /\ WF_vars(Ripen) /\ WF_vars(StopReturns)
    /\ \A d \in Drains :
          /\ WF_vars(DrainClaim(d)) /\ WF_vars(RowSettles(d)) /\ WF_vars(DrainDone(d))
          /\ WF_vars(PendingState(d)) /\ WF_vars(LoopTurn(d))

FairSpec == Spec /\ Fairness

-----------------------------------------------------------------------------
(* Properties. *)

(* Flags, counters and the drain loops stay in range. *)
TypeOK ==
    /\ boot \in {"off", "listening", "up"}
    /\ stopped \in BOOLEAN /\ returned \in BOOLEAN /\ draining \in BOOLEAN
    /\ again \in BOOLEAN /\ blind \in BOOLEAN
    /\ timer \in {"none", "soon", "poll"}
    /\ inFlight \in {NoDrain} \cup Drains /\ loop \in [Drains -> Loop]
    /\ due \in Nat /\ later \in Nat /\ notes \in Nat
    /\ commits \in 0..CommitBound /\ faults \in 0..FaultBound

(* One drain at a time: no two loops run, whoever wakes the dispatcher and  *)
(* whenever, and none runs while a timer is armed that would start another  *)
(* (wake).                                                                  *)
OneDrain ==
    /\ \A d, e \in Drains : Running(d) /\ Running(e) => d = e
    /\ timer # "none" => \A d \in Drains : ~Running(d)

(* No lost wake-up: it sleeps the whole poll interval over a pending row    *)
(* only if a NOTIFY is on its way or was lost (drainUntilQuiet).            *)
NoLongSleepOverWork ==
    timer = "poll" /\ ~stopped => due + later = 0 \/ notes > 0 \/ blind

(* When stop() resolves, no loop runs or holds a row, and no timer is left  *)
(* to start one; nothing changes that afterwards.  stop() awaits the loop   *)
(* started last, so it rests on there being no other.                       *)
StopWaits ==
    returned => timer = "none" /\ \A d \in Drains : ~Running(d) /\ loop[d].held = 0

(* Every committed row is drained, even if every NOTIFY is lost.            *)
EventuallyDrained == (due + later > 0) ~> (due + later = 0 \/ stopped)

=============================================================================

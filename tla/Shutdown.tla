------------------------------ MODULE Shutdown ------------------------------
(***************************************************************************)
(* The ordered shutdown of the api process (apps/api: shared/shutdown.ts   *)
(* and the steps of index.ts): each step raced against its own budget, the *)
(* whole against a deadline, a second signal cutting everything.  Time is  *)
(* an explicit clock; a timer fires at most lag units after it is due.     *)
(***************************************************************************)
EXTENDS Integers, FiniteSets

CONSTANTS
    Runners,          \* the background runners the workers step stops
    GraceMs, StepMs, WorkersMs,                    \* SHUTDOWN_* settings
    GraceMargin, Telemetry, TelemetryMargin, Flush, \* fixed budgets of shutdown.ts
    Lag,              \* bound: how late an event loop can be
    Horizon           \* bound: the clock stops counting here

ASSUME ShutdownAssumption ==
    /\ {GraceMs, StepMs, WorkersMs, GraceMargin, Telemetry, TelemetryMargin, Flush}
         \subseteq Nat \ {0}
    /\ Lag \in Nat /\ Horizon \in Nat

VARIABLES
    phase,     \* "up", "stopping", "flushing" (past the deadline), "exited"
    code,      \* process exit code, -1 while running
    step,      \* the step runAll is in: 1..5, or 6 when it has returned
    since,     \* when the current step, or the deadline flush, began
    begun,     \* when the signal came
    now,
    timedOut,  \* steps that timed out
    allDone,   \* runAll: no step failed or timed out so far
    draining,  \* lifecycleState.isShuttingDown: readyz answers 503
    runners,   \* runners still running
    server,    \* the http server: "open", "closing", "closed"
    pool,      \* the database pools, likewise
    lag        \* how late this event loop fires a due timer, at most

vars == <<phase, code, step, since, begun, now, timedOut, allDone, draining, runners,
          server, pool, lag>>

Grace == 1
Http == 2
Workers == 3
Pool == 4
TelemetryFlush == 5
Returned == 6

(* timeoutMs of each step. *)
Budget == [s \in 1..5 |->
    CASE s = Grace -> GraceMs + GraceMargin
      [] s = Workers -> WorkersMs
      [] s = TelemetryFlush -> Telemetry + TelemetryMargin
      [] OTHER -> StepMs]

(* worstCaseShutdownMs; validateEnvBounds refuses a deadline below it. *)
(* Mutant: the workers step is not counted. *)
WorstCase_NoWorkers == GraceMs + GraceMargin + 2 * StepMs + Telemetry + TelemetryMargin + Flush
WorstCase ==
    GraceMs + GraceMargin + 2 * StepMs + WorkersMs + Telemetry + TelemetryMargin + Flush

Alive == phase \in {"stopping", "flushing"}
InStep == Alive /\ step \in 1..5

-----------------------------------------------------------------------------
(* skipAfterTimeoutOf: the pool stays open when the workers timed out.      *)
(* Mutant: a timed-out step holds nothing back. *)
Skipped_Never(s, late) == FALSE
Skipped(s, late) == s = Pool /\ Workers \in late

(* runAll moves on to the first step after s that is not skipped. *)
Enter(s, late) ==
    LET next == IF Skipped(s + 1, late) THEN s + 2 ELSE s + 1
    IN /\ step' = next
       /\ since' = now
       /\ draining' = (draining \/ next = Grace)

(* Entering the step that closes the server or the pools begins to close    *)
(* it, finishing that step has closed it.                                   *)
Closed(own, it, finished) ==
    IF finished /\ step = own THEN "closed" ELSE IF step' = own THEN "closing" ELSE it
Closing(finished) ==
    server' = Closed(Http, server, finished) /\ pool' = Closed(Pool, pool, finished)

(* installShutdown's handler. *)
Signal ==
    /\ phase = "up"
    /\ phase' = "stopping" /\ begun' = now
    /\ Enter(0, {}) /\ Closing(FALSE)
    /\ UNCHANGED <<code, now, timedOut, allDone, runners, lag>>

SecondSignal ==
    /\ Alive
    /\ phase' = "exited" /\ code' = 1
    /\ UNCHANGED <<step, since, begun, now, timedOut, allDone, draining, runners,
                   server, pool, lag>>

(* A runner's stop() resolves: any time after the workers step began, even  *)
(* after that step was given up.                                            *)
RunnerStops(r) ==
    /\ Alive /\ step >= Workers
    /\ r \in runners
    /\ runners' = runners \ {r}
    /\ UNCHANGED <<phase, code, step, since, begun, now, timedOut, allDone, draining,
                   server, pool, lag>>

(* The step's own work can have ended by now. *)
CanFinish(s) ==
    CASE s = Grace -> now - since >= GraceMs
      [] s = Workers -> runners = {}
      [] OTHER -> TRUE

StepDone ==
    /\ InStep /\ CanFinish(step)
    /\ Enter(step, timedOut) /\ Closing(TRUE)
    /\ UNCHANGED <<phase, code, begun, now, timedOut, allDone, runners, lag>>

(* server.stop, a pool's end or the telemetry flush rejects; the timer of   *)
(* the grace and the runners' stop() never do.                              *)
StepFails ==
    /\ InStep /\ step \in {Http, Pool, TelemetryFlush}
    /\ Enter(step, timedOut) /\ Closing(FALSE)
    /\ allDone' = FALSE
    /\ UNCHANGED <<phase, code, begun, now, timedOut, runners, lag>>

(* Mutant: a step that times out does not count against the exit code. *)
AfterTimeout_Forgiven == allDone
AfterTimeout == FALSE

StepTimesOut ==
    /\ InStep /\ now - since >= Budget[step]
    /\ timedOut' = timedOut \cup {step}
    /\ Enter(step, timedOut') /\ Closing(FALSE)
    /\ allDone' = AfterTimeout
    /\ UNCHANGED <<phase, code, begun, now, runners, lag>>

(* runShutdown: runAll returned first. *)
(* Mutant: only a clean shutdown exits. *)
Exit_WhenClean ==
    /\ phase = "stopping" /\ step = Returned /\ allDone
    /\ phase' = "exited" /\ code' = 0
    /\ UNCHANGED <<step, since, begun, now, timedOut, allDone, draining, runners,
                   server, pool, lag>>
Exit ==
    /\ phase = "stopping" /\ step = Returned
    /\ phase' = "exited" /\ code' = IF allDone THEN 0 ELSE 1
    /\ UNCHANGED <<step, since, begun, now, timedOut, allDone, draining, runners,
                   server, pool, lag>>

(* runShutdown: the deadline came first; the step in hand goes on, and what *)
(* runAll returns no longer matters.                                        *)
DeadlinePassed == now - begun >= WorstCase

DeadlineFires ==
    /\ phase = "stopping" /\ step # Returned /\ DeadlinePassed
    /\ phase' = "flushing"
    /\ UNCHANGED <<code, step, since, begun, now, timedOut, allDone, draining, runners,
                   server, pool, lag>>

FlushEnds ==
    /\ phase = "flushing"
    /\ phase' = "exited" /\ code' = 1
    /\ UNCHANGED <<step, since, begun, now, timedOut, allDone, draining, runners,
                   server, pool, lag>>

(* Time passes unless a timer is overdue by lag. *)
Tick ==
    /\ phase = "stopping" /\ step # Returned /\ now < Horizon
    /\ now - since < Budget[step] + lag
    /\ step = Grace => now - since < GraceMs + lag
    /\ now - begun < WorstCase + lag
    /\ now' = now + 1
    /\ UNCHANGED <<phase, code, step, since, begun, timedOut, allDone, draining, runners,
                   server, pool, lag>>

Exited == phase = "exited" /\ UNCHANGED vars

-----------------------------------------------------------------------------
Init ==
    /\ phase = "up" /\ code = -1 /\ step = 0 /\ since = 0 /\ begun = 0 /\ now = 0
    /\ timedOut = {} /\ allDone = TRUE /\ draining = FALSE /\ runners = Runners
    /\ server = "open" /\ pool = "open" /\ lag \in 0..Lag

Next ==
    \/ Signal \/ SecondSignal \/ (\E r \in Runners : RunnerStops(r))
    \/ StepDone \/ StepFails \/ StepTimesOut \/ Exit \/ DeadlineFires \/ FlushEnds
    \/ Tick \/ Exited

Spec == Init /\ [][Next]_vars

(* The event loop runs due timers and settled promises; no runner has to    *)
(* stop, no step but the grace timer has to finish.                         *)
Fairness ==
    /\ WF_vars(step = Grace /\ StepDone)
    /\ WF_vars(StepTimesOut) /\ WF_vars(Exit) /\ WF_vars(DeadlineFires)
    /\ WF_vars(FlushEnds) /\ WF_vars(Tick)

FairSpec == Spec /\ Fairness

-----------------------------------------------------------------------------
(* Properties. *)

(* Steps, clock and resources are in range. *)
TypeOK ==
    /\ phase \in {"up", "stopping", "flushing", "exited"} /\ code \in {-1, 0, 1}
    /\ step \in 0..Returned /\ timedOut \subseteq 1..5 /\ runners \subseteq Runners
    /\ since \in 0..Horizon /\ begun \in 0..Horizon /\ now \in 0..Horizon
    /\ allDone \in BOOLEAN /\ draining \in BOOLEAN
    /\ {server, pool} \subseteq {"open", "closing", "closed"} /\ lag \in 0..Lag

(* The pools are never closed under a running drain (skipAfterTimeoutOf):   *)
(* that would leave a sent but unmarked email.                              *)
PoolOutlivesRunners == pool # "open" => runners = {}

(* Exit code 0 means every step finished: the server closed, every runner   *)
(* stopped, the pools closed (runAll's allDone).                            *)
ZeroMeansClean ==
    code = 0 => server = "closed" /\ runners = {} /\ pool = "closed" /\ timedOut = {}

(* A shutdown whose timers fire on time is never cut by the deadline,       *)
(* whatever hangs (worstCaseShutdownMs against SHUTDOWN_DEADLINE_MS).       *)
DeadlineIsSlack == lag = 0 => phase # "flushing"

(* The first signal always ends in an exit, whatever hangs. *)
AlwaysExits == (phase = "stopping") ~> (phase = "exited")

=============================================================================

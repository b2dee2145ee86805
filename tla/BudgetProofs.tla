---------------------------- MODULE BudgetProofs ----------------------------
(***************************************************************************)
(* The time budgets the boot checks (env-bounds.ts), for every settings it *)
(* accepts.  Shutdown: the pools outlive the runners, exit code 0 tells    *)
(* the truth, and the smallest deadline never cuts a shutdown whose timers *)
(* are on time.  LeaseBudget: a claim is settled within its lease.         *)
(***************************************************************************)
EXTENDS Shutdown, LeaseBudget, FiniteSetTheorems, TLAPS

-----------------------------------------------------------------------------
(* The inductive invariant. *)

(* What the steps behind the current one have done.  Only a step that      *)
(* neither failed nor timed out leaves allDone, so only then is its work   *)
(* known to be done.                                                       *)
ProgressOK ==
    /\ phase = "up" <=> step = 0
    /\ step < Pool => pool = "open"
    /\ allDone => /\ timedOut = {}
                  /\ step > Http => server = "closed"
                  /\ step > Workers => runners = {}
                  /\ step > Pool => pool = "closed"

(* Exit code 0 is given once, at the end of a run of steps that all did    *)
(* their work.                                                             *)
CodeOK == code = 0 => phase = "exited" /\ step = Returned /\ allDone

(* The step that closes the pools is entered over stopped runners only.    *)
PoolStepOK == step = Pool => pool # "open"

(* The time the steps before s take at most, together. *)
TimeBefore == [s \in 0..Returned |->
    CASE s <= Grace -> 0
      [] s = Http -> GraceMs + GraceMargin
      [] s = Workers -> GraceMs + GraceMargin + StepMs
      [] s = Pool -> GraceMs + GraceMargin + StepMs + WorkersMs
      [] s = TelemetryFlush -> GraceMs + GraceMargin + 2 * StepMs + WorkersMs
      [] OTHER -> GraceMs + GraceMargin + 2 * StepMs + WorkersMs
                    + Telemetry + TelemetryMargin]

(* With timers on time no step outlives its budget, so the step in hand    *)
(* began within the budgets of the steps before it.                        *)
ClockOK ==
    lag = 0 /\ phase = "stopping" =>
        /\ step >= Grace
        /\ since - begun <= TimeBefore[step]
        /\ step # Returned => now - since <= Budget[step]

IInv ==
    /\ TypeOK /\ ProgressOK /\ CodeOK /\ PoolStepOK /\ ClockOK
    /\ PoolOutlivesRunners /\ DeadlineIsSlack

(* The numbers of the steps of index.ts are visible in every proof. *)
USE DEF Grace, Http, Workers, Pool, TelemetryFlush, Returned

-----------------------------------------------------------------------------
(* What a step of the protocol is.                                         *)

(* The settings are positive numbers. *)
LEMMA Settings ==
    /\ GraceMs \in Nat \ {0} /\ StepMs \in Nat \ {0} /\ WorkersMs \in Nat \ {0}
    /\ GraceMargin \in Nat \ {0} /\ Telemetry \in Nat \ {0}
    /\ TelemetryMargin \in Nat \ {0} /\ Flush \in Nat \ {0}
    /\ Lag \in Nat /\ Horizon \in Nat
BY ShutdownAssumption

(* The step that follows s, when runAll skips the pool after late workers. *)
LEMMA EnterMoves ==
    ASSUME NEW s \in 0..5, NEW late, Enter(s, late)
    PROVE  /\ step' = IF s = Workers /\ Workers \in late THEN TelemetryFlush ELSE s + 1
           /\ step' \in 1..Returned /\ step' > s
           /\ since' = now
           /\ draining' = (draining \/ step' = Grace)
BY DEF Enter, Skipped

(* The first signal enters the grace step. *)
LEMMA SignalMoves ==
    ASSUME TypeOK, Signal
    PROVE  /\ phase = "up" /\ phase' = "stopping"
           /\ step' = Grace /\ since' = now /\ begun' = now
           /\ server' = server /\ pool' = pool /\ draining'
           /\ UNCHANGED <<code, now, timedOut, allDone, runners, lag>>
<1>1. step' = 1
  BY DEF Signal, Enter, Skipped
<1>2. server' = server /\ pool' = pool
  BY <1>1 DEF Signal, Closing, Closed
<1>3. draining' /\ since' = now
  <2>1. draining' = (draining \/ 1 = Grace)
    BY DEF Signal, Enter, Skipped
  <2>2. draining'
    BY <2>1
  <2>. QED
    BY <2>2 DEF Signal, Enter, Skipped
<1>. QED
  BY <1>1, <1>2, <1>3 DEF Signal

(* runAll leaves the step in hand: it did its work, failed, or was late.   *)
Leaves == StepDone \/ StepFails \/ StepTimesOut

LEMMA LeavesMoves ==
    ASSUME TypeOK, Leaves
    PROVE  /\ step \in 1..5 /\ Alive
           /\ step' \in 1..Returned /\ step' > step
           /\ step' # step + 1 => step = Workers /\ step' = TelemetryFlush
           /\ since' = now
           /\ UNCHANGED <<phase, code, begun, now, runners, lag>>
<1>1. step \in 1..5 /\ Alive
  BY DEF Leaves, StepDone, StepFails, StepTimesOut, InStep
<1>2. CASE StepDone
  <2>. DEFINE next == IF Skipped(step + 1, timedOut) THEN step + 2 ELSE step + 1
  <2>1. step' = next /\ since' = now
    BY <1>2 DEF StepDone, Enter
  <2>. QED
    BY <1>1, <1>2, <2>1 DEF StepDone, Skipped
<1>3. CASE StepFails
  BY <1>1, <1>3, EnterMoves DEF StepFails
<1>4. CASE StepTimesOut
  BY <1>1, <1>4, EnterMoves DEF StepTimesOut
<1>. QED
  BY <1>2, <1>3, <1>4 DEF Leaves

(* What it leaves behind of the server, of the pools and of the record of  *)
(* the run.                                                                *)
LEMMA LeavesRecords ==
    ASSUME TypeOK, Leaves
    PROVE  /\ server' = Closed(Http, server, StepDone) /\ pool' = Closed(Pool, pool, StepDone)
           /\ allDone' => /\ StepDone /\ allDone /\ timedOut' = timedOut
           /\ timedOut' \subseteq timedOut \cup {step}
           /\ step = Workers /\ ~StepDone => step' = TelemetryFlush
           /\ step = Workers /\ StepDone => runners = {}
<1>1. step \in 1..5
  BY LeavesMoves
<1>2. CASE StepDone
  BY <1>1, <1>2 DEF StepDone, Enter, CanFinish, Closing, Closed, TypeOK
<1>3. CASE StepFails /\ ~StepDone
  BY <1>1, <1>3, EnterMoves DEF StepFails, Closing, Closed, TypeOK
<1>4. CASE StepTimesOut /\ ~StepDone
  BY <1>1, <1>4, EnterMoves DEF StepTimesOut, AfterTimeout, Closing, Closed
<1>. QED
  BY <1>2, <1>3, <1>4 DEF Leaves

(* The ways the process ends: cut by a signal, after its steps, or after   *)
(* the flush of the deadline.                                              *)
LEMMA Ends ==
    ASSUME SecondSignal \/ Exit \/ FlushEnds
    PROVE  /\ phase' = "exited" /\ phase \in {"stopping", "flushing"}
           /\ UNCHANGED <<step, since, begun, now, timedOut, allDone, draining, runners,
                          server, pool, lag>>
           /\ code' = 0 => step = Returned /\ allDone
BY DEF SecondSignal, Exit, FlushEnds, Alive

(* Every step of the specification, by what the proofs tell apart.         *)
LEMMA StepKinds ==
    ASSUME [Next]_vars
    PROVE  \/ Signal
           \/ Leaves
           \/ SecondSignal \/ Exit \/ FlushEnds
           \/ DeadlineFires
           \/ Tick
           \/ \E r \in Runners : RunnerStops(r)
           \/ UNCHANGED vars
BY DEF Next, Leaves, Exited

-----------------------------------------------------------------------------
(* Types. *)

LEMMA TypeInit == Init => TypeOK
<1>. SUFFICES ASSUME Init
              PROVE  TypeOK
  OBVIOUS
<1>1. /\ phase = "up" /\ server = "open" /\ pool = "open" /\ code = -1 /\ step = 0
      /\ since = 0 /\ begun = 0 /\ now = 0 /\ timedOut = {} /\ runners = Runners
      /\ lag \in 0..Lag
  BY DEF Init
<1>2. allDone \in BOOLEAN /\ draining \in BOOLEAN
  BY DEF Init
<1>. QED
  BY <1>1, <1>2, Settings DEF TypeOK

LEMMA TypeStep ==
    ASSUME TypeOK, [Next]_vars
    PROVE  TypeOK'
<1>1. CASE Signal
  <2>1. draining' \in BOOLEAN
    BY <1>1 DEF Signal, Enter
  <2>2. /\ allDone' \in BOOLEAN
        /\ timedOut' \subseteq 1..5 /\ runners' \subseteq Runners
    BY <1>1, SignalMoves DEF TypeOK
  <2>3. /\ phase' = "stopping" /\ step' = 1
        /\ since' \in 0..Horizon /\ begun' \in 0..Horizon /\ now' \in 0..Horizon
        /\ code' \in {-1, 0, 1} /\ lag' \in 0..Lag
        /\ {server', pool'} \subseteq {"open", "closing", "closed"}
    BY <1>1, SignalMoves DEF TypeOK
  <2>. QED
    BY <2>1, <2>2, <2>3 DEF TypeOK
<1>2. CASE Leaves
  <2>1. draining' \in BOOLEAN /\ allDone' \in BOOLEAN
    BY <1>2 DEF Leaves, StepDone, StepFails, StepTimesOut, Enter, AfterTimeout, TypeOK
  <2>2. {server', pool'} \subseteq {"open", "closing", "closed"}
    BY <1>2, LeavesRecords DEF Closed, TypeOK
  <2>3. timedOut' \subseteq 1..5
    BY <1>2, LeavesMoves, LeavesRecords DEF TypeOK
  <2>. QED
    BY <1>2, <2>1, <2>2, <2>3, LeavesMoves DEF TypeOK
<1>3. CASE SecondSignal \/ Exit \/ FlushEnds
  <2>1. code' \in {-1, 0, 1}
    BY <1>3 DEF SecondSignal, Exit, FlushEnds
  <2>. QED
    BY <1>3, <2>1, Ends DEF TypeOK
<1>4. CASE DeadlineFires
  BY <1>4 DEF DeadlineFires, TypeOK
<1>5. CASE Tick
  BY <1>5, Settings DEF Tick, TypeOK
<1>6. CASE \E r \in Runners : RunnerStops(r)
  BY <1>6 DEF RunnerStops, TypeOK
<1>7. CASE UNCHANGED vars
  BY <1>7 DEF vars, TypeOK
<1>. QED
  BY <1>1, <1>2, <1>3, <1>4, <1>5, <1>6, <1>7, StepKinds

(* Steps, clock and resources stay in range. *)
THEOREM TypeCorrect == Spec => []TypeOK
BY TypeInit, TypeStep, PTL DEF Spec

-----------------------------------------------------------------------------
(* The steps do what they are for: pools, runners, exit code.              *)

Steps == ProgressOK /\ CodeOK /\ PoolStepOK /\ PoolOutlivesRunners

LEMMA StepsInit == Init => Steps
BY DEF Init, Steps, ProgressOK, CodeOK, PoolStepOK, PoolOutlivesRunners

LEMMA StepsSignal ==
    ASSUME TypeOK, Steps, Signal
    PROVE  Steps'
BY SignalMoves DEF Steps, ProgressOK, CodeOK, PoolStepOK, PoolOutlivesRunners

(* The pool step is entered from the workers step only, and then it ended  *)
(* with every runner stopped: a late one is in timedOut and skips it.      *)
LEMMA StepsLeaves ==
    ASSUME TypeOK, Steps, Leaves
    PROVE  Steps'
<1>. USE LeavesMoves, LeavesRecords DEF Closed
<1>1. phase # "up" /\ phase' # "up" /\ step # Returned
  BY DEF Alive
<1>2. step' = Pool => runners = {}
  BY DEF TypeOK
<1>3. PoolStepOK' /\ CodeOK'
  BY <1>1 DEF Steps, PoolStepOK, CodeOK, Alive
<1>4. PoolOutlivesRunners'
  BY <1>2 DEF Steps, PoolOutlivesRunners, PoolStepOK
<1>5. step' < Pool => pool' = "open"
  BY DEF Steps, ProgressOK, TypeOK
<1>6. ASSUME allDone'
      PROVE  /\ timedOut' = {}
             /\ step' > Http => server' = "closed"
             /\ step' > Workers => runners' = {}
             /\ step' > Pool => pool' = "closed"
  <2>1. StepDone /\ allDone /\ timedOut' = {} /\ timedOut = {}
    BY <1>6 DEF Steps, ProgressOK
  <2>2. step' = step + 1
    BY <2>1, EnterMoves DEF StepDone, InStep, Enter, Skipped
  <2>. QED
    BY <2>1, <2>2 DEF Steps, ProgressOK, TypeOK
<1>. QED
  BY <1>1, <1>3, <1>4, <1>5, <1>6 DEF Steps, ProgressOK

LEMMA StepsStep ==
    ASSUME TypeOK, Steps, [Next]_vars
    PROVE  Steps'
<1>. USE DEF Steps, ProgressOK, CodeOK, PoolStepOK, PoolOutlivesRunners
<1>1. CASE SecondSignal \/ Exit \/ FlushEnds
  BY <1>1, Ends
<1>2. CASE DeadlineFires
  BY <1>2 DEF DeadlineFires
<1>3. CASE Tick
  BY <1>3 DEF Tick
<1>4. CASE \E r \in Runners : RunnerStops(r)
  BY <1>4 DEF RunnerStops
<1>5. CASE UNCHANGED vars
  BY <1>5 DEF vars
<1>. QED
  BY <1>1, <1>2, <1>3, <1>4, <1>5, StepsSignal, StepsLeaves, StepKinds

(* The pools are never closed while a runner still drains: a mark written  *)
(* late would find no connection (skipAfterTimeoutOf in index.ts).         *)
THEOREM PoolsCloseLast == Spec => []PoolOutlivesRunners
<1>1. Spec => [](TypeOK /\ Steps)
  BY TypeInit, TypeStep, StepsInit, StepsStep, PTL DEF Spec
<1>2. Steps => PoolOutlivesRunners
  BY DEF Steps
<1>. QED
  BY <1>1, <1>2, PTL

(* Exit code 0 is the truth: the server is closed, every runner stopped,   *)
(* the pools are closed and no step was late.  allDone of runAll carries   *)
(* it: a step left with allDone still true has finished its work.          *)
THEOREM ZeroIsTrue == Spec => []ZeroMeansClean
<1>1. Spec => [](TypeOK /\ Steps)
  BY TypeInit, TypeStep, StepsInit, StepsStep, PTL DEF Spec
<1>2. Steps => ZeroMeansClean
  BY DEF Steps, ProgressOK, CodeOK, ZeroMeansClean
<1>. QED
  BY <1>1, <1>2, PTL

-----------------------------------------------------------------------------
(* The deadline. *)

(* A step and its budget fit before the steps after it. *)
LEMMA BudgetsAddUp ==
    ASSUME NEW s \in 1..5, NEW t \in 1..Returned, t > s
    PROVE  /\ TimeBefore[s] \in Nat /\ TimeBefore[t] \in Nat /\ Budget[s] \in Nat
           /\ TimeBefore[s] + Budget[s] <= TimeBefore[t]
BY Settings DEF TimeBefore, Budget

(* The deadline lies beyond the budgets of all steps (worstCaseShutdownMs  *)
(* adds the flush). *)
LEMMA DeadlineIsBeyond ==
    ASSUME NEW s \in 1..5
    PROVE  /\ TimeBefore[s] \in Nat /\ Budget[s] \in Nat /\ WorstCase \in Nat
           /\ TimeBefore[s] + Budget[s] < WorstCase
BY Settings DEF TimeBefore, Budget, WorstCase

Clock == ClockOK /\ DeadlineIsSlack

LEMMA ClockInit == Init => Clock
BY DEF Init, Clock, ClockOK, DeadlineIsSlack

LEMMA ClockStep ==
    ASSUME TypeOK, ProgressOK, Clock, [Next]_vars
    PROVE  Clock'
<1>. USE DEF Clock, ClockOK, DeadlineIsSlack
<1>1. CASE Signal
  <2>2. TimeBefore[1] = 0 /\ Budget[1] \in Nat
    BY Settings DEF TimeBefore, Budget
  <2>. QED
    BY <1>1, <2>2, SignalMoves DEF TypeOK
<1>2. CASE Leaves
  <2>. SUFFICES ASSUME lag = 0, phase = "stopping"
                PROVE  Clock'
    BY <1>2, LeavesMoves
  <2>1. /\ step \in 1..5 /\ step' \in 1..Returned /\ step' > step /\ since' = now
        /\ UNCHANGED <<phase, begun, now, lag>>
    BY <1>2, LeavesMoves
  <2>2. now - since <= Budget[step] /\ since - begun <= TimeBefore[step]
    BY <2>1
  <2>3. /\ TimeBefore[step] \in Nat /\ TimeBefore[step'] \in Nat /\ Budget[step] \in Nat
        /\ TimeBefore[step] + Budget[step] <= TimeBefore[step']
    BY <2>1, BudgetsAddUp
  <2>4. since' - begun' <= TimeBefore[step']
    BY <2>1, <2>2, <2>3 DEF TypeOK
  <2>5. step' # Returned => now' - since' <= Budget[step']
    <3>1. step' # Returned => Budget[step'] \in Nat
      BY <2>1, DeadlineIsBeyond
    <3>. QED
      BY <2>1, <3>1 DEF TypeOK
  <2>. QED
    BY <2>1, <2>4, <2>5
<1>3. CASE SecondSignal \/ Exit \/ FlushEnds
  BY <1>3, Ends
<1>4. CASE DeadlineFires
  <2>. SUFFICES ASSUME lag = 0
                PROVE  FALSE
    BY <1>4 DEF DeadlineFires
  <2>1. step \in 1..5 /\ phase = "stopping" /\ now - begun >= WorstCase
    BY <1>4 DEF DeadlineFires, DeadlinePassed, TypeOK
  <2>2. now - since <= Budget[step] /\ since - begun <= TimeBefore[step]
    BY <2>1
  <2>. QED
    BY <2>1, <2>2, DeadlineIsBeyond DEF TypeOK
<1>5. CASE Tick
  <2>1. lag = 0 /\ phase = "stopping" => step \in 1..5
    BY <1>5 DEF Tick, TypeOK
  <2>2. step \in 1..5 => Budget[step] \in Nat
    BY DeadlineIsBeyond
  <2>3. lag = 0 /\ phase = "stopping" => now' - since' <= Budget[step']
    BY <1>5, <2>1, <2>2 DEF Tick, TypeOK
  <2>. QED
    BY <1>5, <2>3 DEF Tick
<1>6. CASE \E r \in Runners : RunnerStops(r)
  BY <1>6 DEF RunnerStops
<1>7. CASE UNCHANGED vars
  BY <1>7 DEF vars
<1>. QED
  BY <1>1, <1>2, <1>3, <1>4, <1>5, <1>6, <1>7, StepKinds

(* A shutdown whose timers are on time never meets its deadline, whatever  *)
(* hangs: worstCaseShutdownMs, which env-bounds.ts compares with           *)
(* SHUTDOWN_DEADLINE_MS, counts every step.                                *)
THEOREM DeadlineNeverCuts == Spec => []DeadlineIsSlack
<1>1. Steps => ProgressOK
  BY DEF Steps
<1>2. Spec => [](TypeOK /\ Steps /\ Clock)
  BY <1>1, TypeInit, TypeStep, StepsInit, StepsStep, ClockInit, ClockStep, PTL DEF Spec
<1>3. Clock => DeadlineIsSlack
  BY DEF Clock
<1>. QED
  BY <1>2, <1>3, PTL

-----------------------------------------------------------------------------
(* LeaseBudget: the inductive invariant. *)

BudgetTypeOK ==
  /\ size \in Nat /\ elapsed \in Nat /\ spent \in Nat
  /\ turn \in [Lanes -> Nat]
  /\ doing \in [Lanes -> {"idle", "working", "settling"}]
  /\ began \in [Lanes -> Nat]

\* A claim within its limit has at most UnitsWithinLease units for each lane.
SizeFits == ~Countdown => size <= UnitsWithinLease * Cardinality(Lanes)

\* A lane is never idle while units wait, so the time passed is covered by the
\* units it took, each at its budget, and by what the margin has covered.
Covered(lane) ==
  /\ doing[lane] # "idle" => turn[lane] > 0
  /\ doing[lane] = "idle" /\ Waiting /\ (Countdown => turn[lane] = 0)
       => elapsed <= turn[lane] * Unit + spent
  /\ doing[lane] = "working" /\ ~Countdown
       => began[lane] + Unit <= turn[lane] * Unit + spent
  /\ doing[lane] = "settling" /\ ~Countdown
       => elapsed <= turn[lane] * Unit + spent

\* What is left of the lease covers the rest of the unit and of the margin.
LeaseCovers(lane) ==
  /\ doing[lane] = "working" =>
       /\ elapsed <= began[lane] + Unit
       /\ began[lane] + Unit + Margin - spent <= Lease
  /\ doing[lane] = "settling" => elapsed + Margin - spent <= Lease

BudgetInv ==
  /\ BudgetTypeOK
  /\ SizeFits
  /\ spent <= Margin
  /\ \A lane \in Lanes : Covered(lane) /\ LeaseCovers(lane)

----------------------------------------------------------------------------

\* unitsWithinLease is a whole number of units that fits the lease.
LEMMA UnitsFit ==
  ASSUME Accepted
  PROVE  /\ UnitsWithinLease \in Nat \ {0}
         /\ UnitsWithinLease * Unit + Margin <= Lease
<1> DEFINE room == Lease - Margin
           units == room \div Unit
<1>1. room \in Nat /\ Unit \in Nat \ {0} /\ room >= Unit
  BY DEF Accepted
<1>2. units \in Int /\ units * Unit <= room
  <2> HIDE DEF room
  <2>1. room = Unit * units + (room % Unit) /\ units \in Int /\ room % Unit \in 0..(Unit - 1)
    BY <1>1
  <2>2. Unit * units = units * Unit
    BY <1>1, <2>1
  <2> QED
    BY <1>1, <2>1, <2>2
<1>3. UnitsWithinLease = IF units > 1 THEN units ELSE 1
  BY DEF UnitsWithinLease
<1>4. CASE units > 1
  BY <1>1, <1>2, <1>3, <1>4 DEF Accepted
<1>5. CASE ~(units > 1)
  <2>1. UnitsWithinLease = 1
    BY <1>3, <1>5
  <2> QED
    BY <1>1, <2>1 DEF Accepted
<1> QED
  BY <1>4, <1>5

\* Finitely many lanes that each took a number of units took finitely many.
LEMMA TurnsFinite ==
  ASSUME IsFiniteSet(Lanes), NEW t \in [Lanes -> Nat]
  PROVE  LET taken == UNION {{lane} \X (1..t[lane]) : lane \in Lanes}
         IN  IsFiniteSet(taken) /\ Cardinality(taken) \in Nat
<1> DEFINE parts == {{lane} \X (1..t[lane]) : lane \in Lanes}
           part == [lane \in Lanes |-> {lane} \X (1..t[lane])]
<1>1. ASSUME NEW lane \in Lanes
      PROVE  IsFiniteSet({lane} \X (1..t[lane]))
  <2>1. IsFiniteSet({lane})
    BY FS_Singleton
  <2>2. IsFiniteSet(1..t[lane])
    BY FS_Interval
  <2> QED
    BY <2>1, <2>2, FS_Product
<1>2. IsFiniteSet(parts)
  <2>1. part \in Surjection(Lanes, parts)
    BY DEF Surjection
  <2> QED
    BY <2>1, FS_Surjection
<1>3. IsFiniteSet(UNION parts)
  <2>1. \A T \in parts : IsFiniteSet(T)
    BY <1>1
  <2> QED
    BY <1>2, <2>1, FS_UNION
<1> QED
  BY <1>3, FS_CardinalityType

\* While units wait, some lane has taken fewer than UnitsWithinLease of them: a
\* claim has no more than that for each lane.
LEMMA SomeLaneBehind ==
  ASSUME Accepted, BudgetTypeOK, SizeFits, ~Countdown, Waiting
  PROVE  \E lane \in Lanes : turn[lane] < UnitsWithinLease
<1> DEFINE rounds == UnitsWithinLease
<1>1. rounds \in Nat \ {0} /\ IsFiniteSet(Lanes)
  BY UnitsFit DEF Accepted
<1> SUFFICES ASSUME \A lane \in Lanes : turn[lane] >= rounds
             PROVE  FALSE
  BY <1>1 DEF BudgetTypeOK
<1> HIDE DEF rounds
<1>2. Lanes \X (1..rounds) \subseteq Taken
  BY <1>1 DEF Taken, BudgetTypeOK
<1>3. /\ IsFiniteSet(1..rounds) /\ Cardinality(1..rounds) = rounds
  BY <1>1, FS_Interval
<1>4. Cardinality(Lanes \X (1..rounds)) = Cardinality(Lanes) * rounds
  BY <1>1, <1>3, FS_Product
<1>5. Cardinality(Lanes) * rounds <= Cardinality(Taken)
  BY <1>1, <1>2, <1>4, TurnsFinite, FS_Subset DEF BudgetTypeOK, Taken
<1>6. Cardinality(Lanes) \in Nat /\ Cardinality(Taken) \in Nat
  BY <1>1, TurnsFinite, FS_CardinalityType DEF BudgetTypeOK, Taken
<1>7. size <= rounds * Cardinality(Lanes)
  BY DEF SizeFits, rounds
<1>8. rounds * Cardinality(Lanes) = Cardinality(Lanes) * rounds
  BY <1>1, <1>6
<1>9. size \in Nat /\ Cardinality(Taken) < size
  BY DEF Waiting, BudgetTypeOK
<1>10. size <= Cardinality(Lanes) * rounds /\ Cardinality(Lanes) * rounds \in Nat
  BY <1>1, <1>6, <1>7, <1>8
<1> QED
  BY <1>5, <1>6, <1>9, <1>10

\* One more unit takes one more budget, and fewer units take no more.
LEMMA UnitsAdd ==
  ASSUME NEW n \in Nat, NEW u \in Nat
  PROVE  /\ n * u \in Nat
         /\ (n + 1) * u = n * u + u
         /\ \A m \in Nat : m < n => m * u + u <= n * u
<1>1. n * u \in Nat /\ (n + 1) * u = n * u + u
  OBVIOUS
<1>2. ASSUME NEW m \in Nat, m < n
      PROVE  m * u + u <= n * u
  <2> DEFINE d == n - (m + 1)
  <2>1. d \in Nat /\ n = (m + 1) + d
    BY <1>2
  <2> HIDE DEF d
  <2>2. n * u = (m + 1) * u + d * u /\ d * u \in Nat /\ (m + 1) * u = m * u + u
    BY <2>1
  <2>3. m * u \in Nat
    OBVIOUS
  <2> QED
    BY <2>2, <2>3
<1> QED
  BY <1>1, <1>2

\* The initial states satisfy the invariant.
LEMMA BudgetInit ==
  ASSUME Accepted, Claimed
  PROVE  BudgetInv
<1>1. Cardinality(Lanes) \in Nat /\ UnitsWithinLease \in Nat
  BY UnitsFit, FS_CardinalityType DEF Accepted
<1>2. UnitsWithinLease * Cardinality(Lanes) \in Nat
  BY <1>1
<1>3. ClaimLimit \in Nat /\ (~Countdown => ClaimLimit <= UnitsWithinLease * Cardinality(Lanes))
  BY <1>2 DEF ClaimLimit, Accepted
<1>4. BudgetTypeOK
  BY <1>3 DEF Claimed, BudgetTypeOK, Accepted
<1>5. SizeFits
  BY <1>2, <1>3 DEF Claimed, SizeFits
<1>6. spent <= Margin
  BY DEF Claimed, Accepted
<1>7. ASSUME NEW lane \in Lanes
      PROVE  Covered(lane) /\ LeaseCovers(lane)
  <2>1. doing[lane] = "idle" /\ turn[lane] = 0 /\ elapsed = spent /\ elapsed \in Nat /\ Unit \in Nat
    BY <1>7 DEF Claimed, Accepted
  <2> QED
    BY <2>1 DEF Covered, LeaseCovers
<1> QED
  BY <1>4, <1>5, <1>6, <1>7 DEF BudgetInv

\* Taking a unit: the lane is covered up to now, and so is the new unit.
LEMMA BudgetTake ==
  ASSUME Accepted, BudgetInv, NEW lane \in Lanes, Take(lane)
  PROVE  BudgetInv'
<1>1. BudgetTypeOK'
  BY DEF BudgetInv, BudgetTypeOK, Take
<1>2. SizeFits'
  BY DEF BudgetInv, SizeFits, Take
<1>3. (spent <= Margin)'
  BY DEF BudgetInv, Take, Accepted
<1>4. Waiting' => Waiting
  <2>1. Taken \subseteq Taken'
    <3>1. \A l \in Lanes : 1..turn[l] \subseteq 1..turn'[l]
      BY DEF Take, BudgetInv, BudgetTypeOK
    <3> QED
      BY <3>1 DEF Taken
  <2>2. turn' \in [Lanes -> Nat] /\ IsFiniteSet(Lanes)
    BY <1>1 DEF BudgetTypeOK, Accepted
  <2>3. IsFiniteSet(Taken') /\ Cardinality(Taken') \in Nat
    BY <2>2, TurnsFinite DEF Taken
  <2>4. Cardinality(Taken) \in Nat /\ Cardinality(Taken) <= Cardinality(Taken')
    BY <2>1, <2>2, <2>3, TurnsFinite, FS_Subset DEF BudgetInv, BudgetTypeOK, Taken
  <2> QED
    BY <2>3, <2>4 DEF Waiting, Take, BudgetInv, BudgetTypeOK
<1>5. /\ size \in Nat /\ elapsed \in Nat /\ spent \in Nat /\ turn[lane] \in Nat
      /\ Unit \in Nat /\ Margin \in Nat /\ Lease \in Nat
  BY DEF BudgetInv, BudgetTypeOK, Accepted
<1>6. ASSUME NEW l \in Lanes
      PROVE  Covered(l)'
  <2>1. CASE l # lane
    <3>1. ~Countdown
      BY <2>1 DEF Accepted
    <3> QED
      BY <1>4, <2>1, <3>1 DEF Covered, Take, BudgetInv, BudgetTypeOK
  <2>2. CASE l = lane
    <3>1. (turn[lane] + 1) * Unit = turn[lane] * Unit + Unit /\ turn[lane] * Unit \in Nat
      BY <1>5, UnitsAdd
    <3>2. ~Countdown => elapsed <= turn[lane] * Unit + spent
      BY DEF BudgetInv, Covered, Take
    <3>3. /\ doing'[lane] = "working" /\ turn'[lane] = turn[lane] + 1
          /\ began'[lane] = elapsed /\ (~Countdown => spent' = spent)
      BY DEF Take, BudgetInv, BudgetTypeOK
    <3>4. ~Countdown => elapsed + Unit <= (turn[lane] + 1) * Unit + spent
      BY <1>5, <3>1, <3>2
    <3> QED
      BY <1>5, <2>2, <3>3, <3>4 DEF Covered
  <2> QED
    BY <2>1, <2>2
<1>7. elapsed + Unit + Margin - spent' <= Lease
  <2>1. CASE ~Countdown
    <3>1. PICK behind \in Lanes : turn[behind] < UnitsWithinLease
      BY <2>1, SomeLaneBehind DEF BudgetInv, Take
    <3>2. /\ turn[behind] \in Nat /\ began[behind] \in Nat
          /\ doing[behind] \in {"idle", "working", "settling"}
      BY DEF BudgetInv, BudgetTypeOK
    <3>3. turn[behind] * Unit \in Nat
      BY <1>5, <3>2, UnitsAdd
    <3>4. Covered(behind) /\ LeaseCovers(behind) /\ Waiting
      BY DEF BudgetInv, Take
    <3>5. elapsed <= turn[behind] * Unit + spent
      BY <1>5, <2>1, <3>2, <3>3, <3>4 DEF Covered, LeaseCovers
    <3>6. UnitsWithinLease \in Nat /\ UnitsWithinLease * Unit + Margin <= Lease
      BY UnitsFit
    <3>7. turn[behind] * Unit + Unit <= UnitsWithinLease * Unit /\ UnitsWithinLease * Unit \in Nat
      BY <1>5, <3>1, <3>2, <3>6, UnitsAdd
    <3>8. spent' = spent
      BY <2>1 DEF Take
    <3> QED
      BY <1>5, <3>3, <3>5, <3>6, <3>7, <3>8
  <2>2. CASE Countdown /\ turn[lane] = 0
    <3>1. turn[lane] * Unit = 0
      BY <1>5, <2>2
    <3>2. elapsed <= spent /\ spent' = spent
      BY <1>5, <2>2, <3>1 DEF BudgetInv, Covered, Take
    <3> QED
      BY <1>5, <3>2 DEF Accepted
  <2>3. CASE Countdown /\ turn[lane] > 0
    BY <1>5, <2>3 DEF Take, MayStart, CoversNextUnit
  <2> QED
    BY <1>5, <2>1, <2>2, <2>3 DEF Accepted
<1>8. ASSUME NEW l \in Lanes
      PROVE  LeaseCovers(l)'
  <2>1. CASE l # lane
    <3>1. ~Countdown
      BY <2>1 DEF Accepted
    <3> QED
      BY <2>1, <3>1 DEF LeaseCovers, Take, BudgetInv, BudgetTypeOK
  <2>2. CASE l = lane
    BY <1>5, <1>7, <2>2 DEF LeaseCovers, Take, BudgetInv, BudgetTypeOK
  <2> QED
    BY <2>1, <2>2
<1> QED
  BY <1>1, <1>2, <1>3, <1>6, <1>8 DEF BudgetInv

\* The work ends by the time its timer cuts it.
LEMMA BudgetWork ==
  ASSUME Accepted, BudgetInv, NEW lane \in Lanes, Work(lane)
  PROVE  BudgetInv'
<1>1. BudgetTypeOK' /\ SizeFits' /\ (spent <= Margin)'
  BY DEF BudgetInv, BudgetTypeOK, SizeFits, Work
<1>2. /\ elapsed \in Nat /\ spent \in Nat /\ turn[lane] \in Nat /\ began[lane] \in Nat
      /\ Unit \in Nat /\ Margin \in Nat /\ Lease \in Nat
  BY DEF BudgetInv, BudgetTypeOK, Accepted
<1>3. Covered(lane) /\ LeaseCovers(lane)
  BY DEF BudgetInv
<1>4. turn[lane] * Unit \in Nat
  BY <1>2, UnitsAdd
<1>5. ASSUME NEW l \in Lanes
      PROVE  Covered(l)' /\ LeaseCovers(l)'
  <2>1. CASE l # lane
    BY <2>1 DEF Covered, LeaseCovers, Work, BudgetInv, BudgetTypeOK, Waiting, Taken
  <2>2. CASE l = lane
    <3>1. doing[lane] = "working" /\ doing'[lane] = "settling"
      BY DEF Work, BudgetInv, BudgetTypeOK
    <3>2. /\ elapsed <= began[lane] + Unit /\ elapsed + Margin - spent <= Lease /\ turn[lane] > 0
          /\ ~Countdown => elapsed <= turn[lane] * Unit + spent
      BY <1>2, <1>3, <1>4, <3>1 DEF Covered, LeaseCovers
    <3> QED
      BY <2>2, <3>1, <3>2 DEF Covered, LeaseCovers, Work
  <2> QED
    BY <2>1, <2>2
<1> QED
  BY <1>1, <1>5 DEF BudgetInv

\* A settle frees the lane; its time was covered.
LEMMA BudgetSettle ==
  ASSUME Accepted, BudgetInv, NEW lane \in Lanes, Settle(lane)
  PROVE  BudgetInv'
<1>1. BudgetTypeOK' /\ SizeFits' /\ (spent <= Margin)'
  BY DEF BudgetInv, BudgetTypeOK, SizeFits, Settle
<1>2. ASSUME NEW l \in Lanes
      PROVE  Covered(l)' /\ LeaseCovers(l)'
  <2>1. CASE l # lane
    BY <2>1 DEF Covered, LeaseCovers, Settle, BudgetInv, BudgetTypeOK, Waiting, Taken
  <2>2. CASE l = lane
    <3>1. doing[lane] = "settling" /\ doing'[lane] = "idle" /\ turn[lane] \in Nat
      BY DEF Settle, BudgetInv, BudgetTypeOK
    <3>2. turn[lane] > 0 /\ (~Countdown => elapsed <= turn[lane] * Unit + spent)
      BY <3>1 DEF BudgetInv, Covered
    <3> QED
      BY <2>2, <3>1, <3>2 DEF Covered, LeaseCovers, Settle
  <2> QED
    BY <2>1, <2>2
<1> QED
  BY <1>1, <1>2 DEF BudgetInv

\* Time passes in a lane that works or settles, never in one that could start.
LEMMA BudgetTick ==
  ASSUME Accepted, BudgetInv, TimePasses
  PROVE  BudgetInv'
<1>1. BudgetTypeOK' /\ SizeFits'
  BY DEF BudgetInv, BudgetTypeOK, SizeFits, TimePasses
<1>2. (spent <= Margin)'
  BY DEF BudgetInv, BudgetTypeOK, TimePasses, Accepted
<1>3. ASSUME NEW lane \in Lanes
      PROVE  Covered(lane)' /\ LeaseCovers(lane)'
  <2>1. /\ elapsed \in Nat /\ spent \in Nat /\ turn[lane] \in Nat /\ began[lane] \in Nat
        /\ Unit \in Nat /\ Margin \in Nat /\ Lease \in Nat
        /\ doing[lane] \in {"idle", "working", "settling"}
    BY DEF BudgetInv, BudgetTypeOK, Accepted
  <2>2. turn[lane] * Unit \in Nat
    BY <2>1, UnitsAdd
  <2>3. Covered(lane) /\ LeaseCovers(lane)
    BY DEF BudgetInv
  <2>4. /\ elapsed' = elapsed + 1 /\ spent' \in {spent, spent + 1}
        /\ turn' = turn /\ began' = began /\ doing' = doing
    BY DEF TimePasses
  <2>5. CASE doing[lane] = "idle"
    <3>1. Waiting' => Waiting
      BY DEF TimePasses, Waiting, Taken
    <3>2. ~(Waiting /\ (Countdown => turn[lane] = 0))
      BY <2>1, <2>5 DEF TimePasses, MayStart
    <3> QED
      BY <2>4, <2>5, <3>1, <3>2 DEF Covered, LeaseCovers
  <2>6. CASE doing[lane] = "working"
    <3>1. elapsed < began[lane] + Unit
      BY <2>6 DEF TimePasses
    <3> QED
      BY <2>1, <2>2, <2>3, <2>4, <2>6, <3>1 DEF Covered, LeaseCovers
  <2>7. CASE doing[lane] = "settling"
    <3>1. spent' = spent + 1
      BY <2>7 DEF TimePasses, Settling
    <3> QED
      BY <2>1, <2>2, <2>3, <2>4, <2>7, <3>1 DEF Covered, LeaseCovers
  <2> QED
    BY <2>1, <2>5, <2>6, <2>7
<1> QED
  BY <1>1, <1>2, <1>3 DEF BudgetInv

\* The size of a claim (claimLimitOf, unitsWithinLease), the countdown of the
\* loops and the floors of the boot checks together keep the promise of
\* docs/EVENTS.md: whatever the settings the boot accepted, every unit of a claim
\* is settled before its lease runs out.
THEOREM ClaimFitsLease ==
  ASSUME Accepted
  PROVE  ClaimSpec => []SettledWithinLease
<1>1. Claimed => BudgetInv
  BY BudgetInit
<1>2. BudgetInv /\ [LaneStep]_budgetVars => BudgetInv'
  <2> SUFFICES ASSUME BudgetInv, [LaneStep]_budgetVars
               PROVE  BudgetInv'
    OBVIOUS
  <2>1. CASE TimePasses
    BY <2>1, BudgetTick
  <2>2. ASSUME NEW lane \in Lanes, Take(lane)
        PROVE  BudgetInv'
    BY <2>2, BudgetTake
  <2>3. ASSUME NEW lane \in Lanes, Work(lane)
        PROVE  BudgetInv'
    BY <2>3, BudgetWork
  <2>4. ASSUME NEW lane \in Lanes, Settle(lane)
        PROVE  BudgetInv'
    BY <2>4, BudgetSettle
  <2>5. CASE UNCHANGED budgetVars
    BY <2>5 DEF budgetVars, BudgetInv, BudgetTypeOK, SizeFits, Covered, LeaseCovers, Waiting, Taken
  <2> QED
    BY <2>1, <2>2, <2>3, <2>4, <2>5 DEF LaneStep
<1>3. BudgetInv => SettledWithinLease
  <2> SUFFICES ASSUME BudgetInv, NEW lane \in Lanes, doing[lane] # "idle"
               PROVE  elapsed <= Lease
    BY DEF SettledWithinLease
  <2>1. /\ elapsed \in Nat /\ spent \in Nat /\ began[lane] \in Nat /\ spent <= Margin
        /\ Unit \in Nat /\ Margin \in Nat /\ Lease \in Nat
        /\ doing[lane] \in {"working", "settling"}
    BY DEF BudgetInv, BudgetTypeOK, Accepted
  <2>2. LeaseCovers(lane)
    BY DEF BudgetInv
  <2> QED
    BY <2>1, <2>2 DEF LeaseCovers
<1> QED
  BY <1>1, <1>2, <1>3, PTL DEF ClaimSpec

=============================================================================

-------------------------- MODULE OutboxWakeProofs --------------------------
(***************************************************************************)
(* What wakes the relay: proofs about OutboxDispatcher, for any number of  *)
(* loops, commits and faults and any claim size, and about PgListener, for *)
(* any number of clients and broken connections.                           *)
(***************************************************************************)
EXTENDS OutboxDispatcher, PgListener, FiniteSetTheorems, TLAPS

(* The loop stop() awaits is the only one, and draining says whether it     *)
(* runs: what makes one flag enough to keep a second loop from starting.    *)
OnlyInFlight ==
    /\ draining => inFlight \in Drains
    /\ \A d \in Drains : Running(d) <=> draining /\ d = inFlight
    /\ timer # "none" => ~draining

(* Rows are held only while they are settled. *)
HeldOK == \A d \in Drains : loop[d].pc # "settling" => loop[d].held = 0

(* A stopped dispatcher arms no timer, and before start() nothing runs.     *)
TimersOK ==
    /\ stopped => timer = "none"
    /\ boot = "off" => timer = "none" /\ ~draining
    /\ returned => stopped /\ boot = "up" /\ ~draining

(* The plan to sleep the whole poll interval is what NoLongSleepOverWork    *)
(* says of the armed timer: what came after the look at the table sets      *)
(* again, is still on its way, or was lost.                                 *)
PlanOK ==
    \A d \in Drains :
        loop[d].pc = "turn" /\ loop[d].plan = "poll" /\ ~again /\ ~stopped =>
            due + later = 0 \/ notes > 0 \/ blind

IInv == TypeOK /\ OnlyInFlight /\ HeldOK /\ TimersOK /\ PlanOK /\ NoLongSleepOverWork

(* What a loop that moves leaves alone. *)
LEMMA Going ==
    ASSUME loop \in [Drains -> Loop], NEW d \in Drains, NEW to \in Loop, Goes(d, to)
    PROVE  /\ loop' \in [Drains -> Loop] /\ loop'[d] = to
           /\ \A e \in Drains : e # d => loop'[e] = loop[e]
BY DEF Goes

LEMMA LoopTypes ==
    /\ Idle \in Loop /\ Idle.pc = "idle" /\ Idle.held = 0
    /\ Begun \in Loop /\ Begun.pc = "claiming" /\ Begun.held = 0
<1>1. 0 \in 0..ClaimLimit
  BY DispatcherAssumption
<1>2. Idle \in Loop /\ Idle.pc = "idle" /\ Idle.held = 0
  BY <1>1 DEF Idle, Loop
<1>3. Begun \in Loop /\ Begun.pc = "claiming" /\ Begun.held = 0
  BY <1>2 DEF Begun, Loop
<1> QED
  BY <1>2, <1>3

LEMMA Initially == Init => IInv
<1> SUFFICES ASSUME Init
             PROVE  IInv
  OBVIOUS
<1>1. loop \in [Drains -> Loop] /\ \A d \in Drains : loop[d] = Idle
  BY LoopTypes DEF Init
<1>2. TypeOK
  <2>1. 0 \in 0..CommitBound /\ 0 \in 0..FaultBound
    BY DispatcherAssumption
  <2> QED
    BY <1>1, <2>1 DEF Init, TypeOK
<1>3. OnlyInFlight /\ HeldOK /\ PlanOK
  BY <1>1, LoopTypes DEF Init, OnlyInFlight, Running, HeldOK, PlanOK
<1>4. TimersOK /\ NoLongSleepOverWork
  BY DEF Init, TimersOK, NoLongSleepOverWork
<1> QED
  BY <1>2, <1>3, <1>4 DEF IInv

LEMMA FaultTypes ==
    ASSUME TypeOK, UNCHANGED faults \/ Fault
    PROVE  faults' \in 0..FaultBound
BY DispatcherAssumption DEF TypeOK, Fault

(* The fields no loop step but its own writes. *)
loops == <<draining, inFlight, timer, loop>>

LEMMA LoopsAlone ==
    ASSUME OnlyInFlight, UNCHANGED loops
    PROVE  OnlyInFlight'
BY DEF OnlyInFlight, Running, loops

-----------------------------------------------------------------------------
(* A wake-up, whoever asks for it. *)
LEMMA Beginning ==
    ASSUME IInv, BeginDrain, ~stopped, ~draining, boot # "off"
    PROVE  /\ loop' \in [Drains -> Loop] /\ inFlight' \in Drains
           /\ OnlyInFlight' /\ HeldOK'
           /\ \A d \in Drains : loop'[d].pc # "turn"
<1>1. PICK d \in Drains : inFlight' = d /\ Goes(d, Begun)
  BY DEF BeginDrain
<1>2. /\ loop' \in [Drains -> Loop] /\ loop'[d] = Begun
      /\ \A e \in Drains : e # d => loop'[e] = loop[e]
  BY <1>1, Going, LoopTypes DEF IInv, TypeOK
<1>3. \A e \in Drains : loop[e].pc = "idle"
  BY DEF IInv, OnlyInFlight, Running
<1>4. draining' = TRUE /\ timer' = "none"
  BY DEF BeginDrain
<1>5. OnlyInFlight'
  BY <1>1, <1>2, <1>3, <1>4, LoopTypes DEF OnlyInFlight, Running
<1>6. HeldOK'
  BY <1>2, <1>3, LoopTypes DEF IInv, HeldOK
<1>7. \A e \in Drains : loop'[e].pc # "turn"
  BY <1>2, <1>3, LoopTypes
<1> QED
  BY <1>1, <1>2, <1>5, <1>6, <1>7

LEMMA WakeStep ==
    ASSUME IInv, Wake, boot # "off", notes' \in Nat, notes' <= notes,
           boot' \in {boot, "up"}, boot = "up" => boot' = "up",
           UNCHANGED <<stopped, returned, due, later, commits, faults>>
    PROVE  IInv'
<1>1. CASE stopped
  <2>1. UNCHANGED <<draining, again, timer, inFlight, loop, blind>>
    BY <1>1 DEF Wake, flags
  <2>2. OnlyInFlight'
    BY <2>1, LoopsAlone DEF IInv, loops
  <2> QED
    BY <1>1, <2>1, <2>2 DEF IInv, TypeOK, HeldOK, TimersOK, PlanOK, NoLongSleepOverWork
<1>2. CASE ~stopped /\ draining
  <2>1. again' = TRUE /\ UNCHANGED <<draining, timer, inFlight, loop, blind>>
    BY <1>2 DEF Wake
  <2>2. OnlyInFlight' /\ timer = "none"
    BY <1>2, <2>1, LoopsAlone DEF IInv, OnlyInFlight, loops
  <2> QED
    BY <1>2, <2>1, <2>2 DEF IInv, TypeOK, HeldOK, TimersOK, PlanOK, NoLongSleepOverWork
<1>3. CASE ~stopped /\ ~draining
  <2>1. BeginDrain
    BY <1>3 DEF Wake
  <2>2. timer' = "none" /\ draining' = TRUE /\ again' = FALSE /\ blind' = FALSE
    BY <2>1 DEF BeginDrain
  <2>3. /\ loop' \in [Drains -> Loop] /\ inFlight' \in Drains
        /\ OnlyInFlight' /\ HeldOK'
        /\ \A d \in Drains : loop'[d].pc # "turn"
    BY <1>3, <2>1, Beginning
  <2>4. TypeOK'
    BY <2>2, <2>3 DEF IInv, TypeOK
  <2>5. PlanOK' /\ NoLongSleepOverWork' /\ TimersOK'
    BY <1>3, <2>2, <2>3 DEF IInv, PlanOK, NoLongSleepOverWork, TimersOK
  <2> QED
    BY <2>3, <2>4, <2>5 DEF IInv
<1> QED
  BY <1>1, <1>2, <1>3 DEF IInv, TypeOK

LEMMA Waking ==
    ASSUME IInv, StartWake \/ NotifyArrives \/ TimerFires
    PROVE  IInv'
<1>0. notes \in Nat
  BY DEF IInv, TypeOK
<1>1. CASE StartWake
  BY <1>0, <1>1, WakeStep DEF StartWake
<1>2. CASE NotifyArrives /\ boot # "off"
  <2>1. notes' \in Nat /\ notes' <= notes
    BY <1>0, <1>2 DEF NotifyArrives
  <2> QED
    BY <1>2, <2>1, WakeStep DEF NotifyArrives
<1>3. CASE NotifyArrives /\ boot = "off"
  <2>1. OnlyInFlight' /\ ~draining
    BY <1>3, LoopsAlone DEF NotifyArrives, flags, loops, IInv, TimersOK
  <2>2. \A d \in Drains : loop[d].pc # "turn"
    BY <2>1 DEF IInv, OnlyInFlight, Running
  <2> QED
    BY <1>0, <1>3, <2>1, <2>2 DEF NotifyArrives, flags, IInv, TypeOK, HeldOK, TimersOK, PlanOK,
       NoLongSleepOverWork
<1>4. CASE TimerFires
  BY <1>0, <1>4, WakeStep DEF TimerFires, IInv, TimersOK
<1> QED
  BY <1>1, <1>2, <1>3, <1>4

LEMMA Surroundings ==
    ASSUME IInv, StartListening \/ Commit \/ Ripen \/ Stop \/ StopReturns \/ UNCHANGED vars
    PROVE  IInv'
<1>1. CASE StartListening
  <2>1. OnlyInFlight' /\ ~draining
    BY <1>1, LoopsAlone DEF StartListening, loops, IInv, TimersOK
  <2>2. \A d \in Drains : loop[d].pc # "turn"
    BY <2>1 DEF IInv, OnlyInFlight, Running
  <2> QED
    BY <1>1, <2>1, <2>2 DEF StartListening, IInv, TypeOK, HeldOK, TimersOK, PlanOK, NoLongSleepOverWork
<1>2. CASE Stop
  <2>1. OnlyInFlight'
    BY <1>2 DEF Stop, IInv, OnlyInFlight, Running
  <2> QED
    BY <1>2, <2>1 DEF Stop, IInv, TypeOK, HeldOK, TimersOK, PlanOK, NoLongSleepOverWork
<1>3. CASE StopReturns
  <2>1. OnlyInFlight'
    BY <1>3, LoopsAlone DEF StopReturns, loops, IInv
  <2>2. ~draining
    <3>1. draining => inFlight \in Drains /\ Running(inFlight)
      BY DEF IInv, OnlyInFlight
    <3>2. inFlight \in Drains => inFlight # NoDrain
      BY DispatcherAssumption DEF Drains, NoDrain
    <3> QED
      BY <1>3, <3>1, <3>2 DEF StopReturns, StopMayReturn
  <2> QED
    BY <1>3, <2>1, <2>2 DEF StopReturns, StopMayReturn, IInv, TypeOK, HeldOK, TimersOK, PlanOK,
       NoLongSleepOverWork
<1>4. CASE UNCHANGED vars
  <2>1. OnlyInFlight'
    BY <1>4, LoopsAlone DEF vars, loops, IInv
  <2> QED
    BY <1>4, <2>1 DEF vars, IInv, TypeOK, HeldOK, TimersOK, PlanOK, NoLongSleepOverWork
<1>5. CASE Commit
  <2>1. faults' \in 0..FaultBound
    BY <1>5, FaultTypes DEF Commit, IInv
  <2>2. commits' \in 0..CommitBound
    BY <1>5, DispatcherAssumption DEF Commit, IInv, TypeOK
  <2>3. notes \in Nat /\ blind \in BOOLEAN
    BY DEF IInv, TypeOK
  <2>4. (blind' = TRUE /\ notes' = notes) \/ (notes' = notes + 1 /\ blind' = blind)
    BY <1>5 DEF Commit
  <2>5. notes' > 0 \/ blind'
    BY <2>3, <2>4
  <2>6. notes' \in Nat
    BY <2>3, <2>4
  <2>7. blind' \in BOOLEAN
    BY <2>3, <2>4, Zenon
  <2>8. TypeOK'
    BY <1>5, <2>1, <2>2, <2>6, <2>7 DEF Commit, IInv, TypeOK
  <2>9. OnlyInFlight'
    BY <1>5, LoopsAlone DEF Commit, loops, IInv
  <2> QED
    BY <1>5, <2>5, <2>8, <2>9 DEF Commit, IInv, HeldOK, TimersOK, PlanOK, NoLongSleepOverWork
<1>6. CASE Ripen
  <2>1. OnlyInFlight'
    BY <1>6, LoopsAlone DEF Ripen, loops, IInv
  <2> QED
    BY <1>6, <2>1 DEF Ripen, IInv, TypeOK, HeldOK, TimersOK, PlanOK, NoLongSleepOverWork
<1> QED
  BY <1>1, <1>2, <1>3, <1>4, <1>5, <1>6

-----------------------------------------------------------------------------
(* The steps of the drain loop. *)

(* Whoever takes a step is the loop in flight, with no timer armed.         *)
LEMMA InLoop ==
    ASSUME IInv, NEW d \in Drains, DrainStep(d)
    PROVE  /\ draining /\ d = inFlight /\ timer = "none" /\ boot # "off"
           /\ loop[d] \in Loop /\ loop[d].held \in 0..ClaimLimit
<1>1. Running(d)
  BY DEF DrainStep, DrainClaim, RowSettles, DrainDone, PendingState, DrainFails, LoopTurn, Running
<1>2. draining /\ d = inFlight /\ timer = "none"
  BY <1>1 DEF IInv, OnlyInFlight
<1> QED
  BY <1>2 DEF IInv, TypeOK, TimersOK, Loop

(* A loop that goes on to another of its statements keeps what is said of   *)
(* the loops and the timer.                                                 *)
LEMMA GoesOn ==
    ASSUME IInv, NEW d \in Drains, DrainStep(d), NEW to \in Loop, Goes(d, to),
           to.pc # "idle", to.pc # "settling" => to.held = 0,
           to.pc # "turn" \/ to.plan # "poll" \/ due' + later' = 0,
           UNCHANGED <<draining, inFlight, timer, stopped, boot, returned>>
    PROVE  /\ loop' \in [Drains -> Loop]
           /\ OnlyInFlight' /\ HeldOK' /\ TimersOK' /\ PlanOK' /\ NoLongSleepOverWork'
<1>1. /\ loop' \in [Drains -> Loop] /\ loop'[d] = to
      /\ \A e \in Drains : e # d => loop'[e] = loop[e]
  BY Going DEF IInv, TypeOK
<1>2. draining /\ d = inFlight /\ timer = "none"
  BY InLoop
<1>3. \A e \in Drains : e # d => loop'[e].pc = "idle"
  BY <1>1, <1>2 DEF IInv, OnlyInFlight, Running
<1>4. OnlyInFlight'
  BY <1>1, <1>2, <1>3 DEF IInv, OnlyInFlight, Running
<1>5. HeldOK'
  BY <1>1 DEF IInv, HeldOK
<1>6. TimersOK'
  BY DEF IInv, TimersOK
<1>7. PlanOK'
  BY <1>1, <1>3 DEF PlanOK
<1>8. NoLongSleepOverWork'
  BY <1>2 DEF NoLongSleepOverWork
<1> QED
  BY <1>1, <1>4, <1>5, <1>6, <1>7, <1>8

LEMMA Draining ==
    ASSUME IInv, NEW d \in Drains,
           DrainClaim(d) \/ RowSettles(d) \/ DrainDone(d) \/ PendingState(d) \/ DrainFails(d)
    PROVE  IInv'
<1>0. /\ DrainStep(d) /\ loop[d] \in Loop /\ loop[d].held \in 0..ClaimLimit
      /\ due \in Nat /\ later \in Nat /\ ClaimLimit \in Nat
  BY InLoop, DispatcherAssumption DEF DrainStep, IInv, TypeOK
<1>1. CASE DrainClaim(d)
  <2> DEFINE n == IF stopped THEN 0 ELSE ClaimSize
             to == [loop[d] EXCEPT !.pc = "settling", !.held = n, !.worked = FALSE]
  <2>1. n \in 0..ClaimLimit /\ n <= due
    BY <1>0 DEF ClaimSize
  <2>2. to \in Loop /\ to.pc = "settling"
    BY <1>0, <2>1 DEF Loop
  <2>3. Goes(d, to) /\ due' = due - n
    BY <1>1 DEF DrainClaim
  <2>4. due' \in Nat
    BY <1>0, <2>1, <2>3
  <2> HIDE DEF n, to
  <2> QED
    BY <1>0, <1>1, <2>2, <2>3, <2>4, GoesOn DEF DrainClaim, IInv, TypeOK
<1>2. CASE RowSettles(d)
  <2>1. PICK w \in BOOLEAN : Goes(d, [loop[d] EXCEPT !.held = @ - 1, !.worked = w])
    BY <1>0, <1>2 DEF RowSettles, Loop
  <2> DEFINE to == [loop[d] EXCEPT !.held = @ - 1, !.worked = w]
  <2>2. to \in Loop /\ to.pc = "settling"
    <3>1. loop[d].pc = "settling" /\ loop[d].held - 1 \in 0..ClaimLimit
      BY <1>0, <1>2 DEF RowSettles
    <3> QED
      BY <1>0, <3>1 DEF Loop
  <2>3. faults' \in 0..FaultBound
    BY <1>2, FaultTypes DEF RowSettles, IInv
  <2>4. due' \in Nat /\ later' \in Nat
    BY <1>0, <1>2 DEF RowSettles
  <2>5. Goes(d, to)
    BY <2>1
  <2> HIDE DEF to
  <2> QED
    BY <1>0, <1>2, <2>2, <2>3, <2>4, <2>5, GoesOn DEF RowSettles, IInv, TypeOK
<1>3. CASE DrainDone(d)
  <2> DEFINE to == [loop[d] EXCEPT !.pc = "planning"]
  <2>1. to \in Loop /\ to.pc = "planning" /\ to.held = 0 /\ Goes(d, to)
    BY <1>0, <1>3 DEF DrainDone, Loop
  <2> HIDE DEF to
  <2> QED
    BY <1>0, <1>3, <2>1, GoesOn DEF DrainDone, IInv, TypeOK
<1>4. CASE PendingState(d)
  <2> DEFINE p == NextWake(loop[d].worked)
             to == [loop[d] EXCEPT !.pc = "turn", !.plan = p]
  <2>1. p \in {"now", "soon", "poll"} /\ (p = "poll" => due + later = 0)
    BY <1>0 DEF NextWake
  <2>2. loop[d].held = 0
    BY <1>4 DEF PendingState, IInv, HeldOK
  <2>3. to \in Loop /\ to.pc = "turn" /\ to.held = 0 /\ to.plan = p /\ Goes(d, to)
    BY <1>0, <1>4, <2>1, <2>2 DEF PendingState, Loop
  <2> HIDE DEF p, to
  <2> QED
    BY <1>0, <1>4, <2>1, <2>3, GoesOn DEF PendingState, IInv, TypeOK
<1>5. CASE DrainFails(d)
  <2> DEFINE to == [loop[d] EXCEPT !.pc = "turn", !.held = 0, !.plan = "soon"]
  <2>1. to \in Loop /\ to.pc = "turn" /\ to.held = 0 /\ to.plan = "soon" /\ Goes(d, to)
    <3>1. 0 \in 0..ClaimLimit
      BY <1>0
    <3> QED
      BY <1>0, <1>5, <3>1 DEF DrainFails, Loop
  <2>2. faults' \in 0..FaultBound
    BY <1>5, FaultTypes DEF DrainFails, IInv
  <2>3. later' \in Nat
    BY <1>0, <1>5 DEF DrainFails
  <2> HIDE DEF to
  <2> QED
    BY <1>0, <1>5, <2>1, <2>2, <2>3, GoesOn DEF DrainFails, IInv, TypeOK
<1> QED
  BY <1>1, <1>2, <1>3, <1>4, <1>5

LEMMA Turning ==
    ASSUME IInv, NEW d \in Drains, LoopTurn(d)
    PROVE  IInv'
<1>0. /\ DrainStep(d) /\ draining /\ d = inFlight /\ timer = "none" /\ boot # "off"
      /\ loop[d] \in Loop
  BY InLoop DEF DrainStep
<1> DEFINE p == loop[d].plan
<1>1. CASE GoesAround(p)
  <2>1. /\ Goes(d, Begun) /\ again' = FALSE /\ blind' = FALSE
        /\ UNCHANGED <<draining, timer>>
    BY <1>1 DEF LoopTurn
  <2> QED
    BY <1>0, <2>1, GoesOn, LoopTypes DEF LoopTurn, IInv, TypeOK
<1>2. CASE ~GoesAround(p)
  <2>1. /\ Goes(d, Idle) /\ draining' = FALSE /\ timer' = SleepTimer(p)
        /\ UNCHANGED <<again, blind>> /\ loop[d].pc = "turn"
        /\ UNCHANGED <<boot, stopped, returned, inFlight, due, later, notes, commits, faults>>
    BY <1>2 DEF LoopTurn
  <2>2. stopped => timer' = "none"
    BY <1>0, <2>1 DEF SleepTimer
  <2>3. ~stopped => timer' = p /\ p \in {"soon", "poll"} /\ ~again
    BY <1>0, <1>2, <2>1 DEF SleepTimer, GoesAround, Loop
  <2>4. /\ loop' \in [Drains -> Loop] /\ loop'[d] = Idle
        /\ \A e \in Drains : e # d => loop'[e] = loop[e]
    BY <2>1, Going, LoopTypes DEF IInv, TypeOK
  <2>5. \A e \in Drains : loop'[e].pc = "idle"
    BY <1>0, <2>4, LoopTypes DEF IInv, OnlyInFlight, Running
  <2>6. OnlyInFlight'
    BY <2>1, <2>5 DEF OnlyInFlight, Running
  <2>7. HeldOK' /\ PlanOK'
    BY <2>4, <2>5, LoopTypes DEF IInv, HeldOK, PlanOK
  <2>8. TypeOK'
    BY <2>1, <2>2, <2>3, <2>4 DEF IInv, TypeOK
  <2>9. TimersOK'
    BY <1>0, <2>1, <2>2 DEF IInv, TimersOK
  <2>10. NoLongSleepOverWork'
    BY <2>1, <2>2, <2>3 DEF IInv, PlanOK, NoLongSleepOverWork
  <2> QED
    BY <2>6, <2>7, <2>8, <2>9, <2>10 DEF IInv
<1> QED
  BY <1>1, <1>2

LEMMA Inductive == IInv /\ [Next]_vars => IInv'
BY Waking, Surroundings, Draining, Turning DEF Next, DrainStep, Terminated

LEMMA Invariance == Spec => []IInv
<1>1. Init => IInv
  BY Initially
<1>2. IInv /\ [Next]_vars => IInv'
  BY Inductive
<1> QED
  BY <1>1, <1>2, PTL DEF Spec

-----------------------------------------------------------------------------
(* Flags, counters and the drain loop stay in range. *)
THEOREM TypeCorrect == Spec => []TypeOK
<1>1. IInv => TypeOK
  BY DEF IInv
<1> QED
  BY <1>1, Invariance, PTL

(* Whoever wakes it and whenever, a process runs one drain at a time, and   *)
(* arms no timer that could start another meanwhile: however many loops the *)
(* dispatcher had room for, the look at draining lets no second one start   *)
(* (wake, drainUntilQuiet).                                                 *)
THEOREM DrainsAreAlone == Spec => []OneDrain
<1>1. IInv => OneDrain
  BY DEF IInv, OnlyInFlight, OneDrain
<1> QED
  BY <1>1, Invariance, PTL

(* No wake-up is lost between the look at the table and the sleep, for any  *)
(* number of commits: over pending rows the dispatcher sleeps the whole     *)
(* poll interval only if a NOTIFY is still on its way, or was lost          *)
(* (drainUntilQuiet, drainThenPlanNextWake).                                *)
THEOREM WakesAreKept == Spec => []NoLongSleepOverWork
<1>1. IInv => NoLongSleepOverWork
  BY DEF IInv
<1> QED
  BY <1>1, Invariance, PTL

(* A resolved stop() leaves nothing held, running or armed, for good (stop).*)
THEOREM StopIsFinal == Spec => []StopWaits
<1>1. IInv => StopWaits
  BY DEF IInv, StopWaits, TimersOK, HeldOK, OnlyInFlight, Running
<1> QED
  BY <1>1, Invariance, PTL

-----------------------------------------------------------------------------
(* PgListener: the inductive invariants. *)

(* A started listener has one thing going on, and a stopped one nothing.    *)
LifeOK ==
    /\ stopping => started /\ timers = 0 /\ live = NoClient
    /\ ~started => created = 0 /\ timers = 0

(* Whatever the timing of pg, these hold. *)
ListenerInv == ListenerTypeOK /\ LifeOK /\ live \notin disposed /\ NeverStuck

(* Handlers are attached to the live client and to the connect that can     *)
(* still be adopted, and the heartbeat is the live client's.                *)
WiredOK ==
    /\ wired = (pending \ disposed) \cup ({live} \ {NoClient})
    /\ live \notin pending
    /\ beat = live

(* There is one client or one armed timer, and a torn down connect that has *)
(* not settled leaves a timer armed: so its catch block arms no second one. *)
OneAttempt ==
    /\ \A c, d \in wired : c = d
    /\ timers \in {0, 1}
    /\ timers > 0 => wired = {}
    /\ ~stopping /\ pending \cap disposed # {} => timers > 0
    /\ ~stopping => asking \subseteq disposed \cup {live}

(* The types, conjunct by conjunct. *)
FlagTypes ==
    /\ stopping \in BOOLEAN /\ started \in BOOLEAN /\ ever \in BOOLEAN
    /\ missed \subseteq {"early", "later"}
ClientTypes ==
    /\ created \in 0..ClientBound
    /\ live \in 0..created /\ beat \in 0..created
    /\ pending \subseteq 1..created /\ wired \subseteq 1..created
    /\ disposed \subseteq 1..created /\ asking \subseteq 1..created
    /\ broken \subseteq 1..created
CounterTypes ==
    timers \in Nat /\ backoff \in 0..MaxBackoff /\ breakages \in 0..BreakageBound

LEMMA ListenerTypes == ListenerTypeOK <=> FlagTypes /\ ClientTypes /\ CounterTypes
<1>1. {stopping, started, ever} \subseteq BOOLEAN /\ missed \subseteq {"early", "later"}
        <=> FlagTypes
  BY Zenon DEF FlagTypes
<1>2. {live, beat} \subseteq 0..created <=> live \in 0..created /\ beat \in 0..created
  OBVIOUS
<1>3. pending \cup wired \cup disposed \cup asking \cup broken \subseteq 1..created
        <=> /\ pending \subseteq 1..created /\ wired \subseteq 1..created
            /\ disposed \subseteq 1..created /\ asking \subseteq 1..created
            /\ broken \subseteq 1..created
  OBVIOUS
<1> QED
  BY <1>1, <1>2, <1>3 DEF ListenerTypeOK, ClientTypes, CounterTypes

LEMMA ListenerTypesNext == (FlagTypes /\ ClientTypes /\ CounterTypes)' => ListenerTypeOK'
BY ListenerTypes, PTL

LEMMA ListenerStarts == ListenerInit => ListenerInv /\ WiredOK /\ OneAttempt
<1> SUFFICES ASSUME ListenerInit
             PROVE  ListenerInv /\ WiredOK /\ OneAttempt
  OBVIOUS
<1>1. 0 \in 0..ClientBound /\ 0 \in 0..MaxBackoff /\ 0 \in 0..BreakageBound
  BY ListenerAssumption
<1>2. ListenerTypeOK
  <2>1. FlagTypes
    BY DEF ListenerInit, FlagTypes
  <2>2. ClientTypes
    BY <1>1 DEF ListenerInit, ClientTypes, NoClient
  <2>3. CounterTypes
    BY <1>1 DEF ListenerInit, CounterTypes
  <2> QED
    BY <2>1, <2>2, <2>3, ListenerTypes
<1>3. LifeOK /\ live \notin disposed /\ NeverStuck
  BY DEF ListenerInit, LifeOK, NeverStuck
<1>4. WiredOK /\ OneAttempt
  BY DEF ListenerInit, WiredOK, OneAttempt, NoClient
<1> QED
  BY <1>2, <1>3, <1>4 DEF ListenerInv

(* A client is torn down and a reconnect scheduled: the catch block of a    *)
(* connect, the error and end events, a heartbeat without an answer.        *)
TornDown(c) ==
    /\ c \in 1..created
    /\ Dispose(c) /\ ScheduleReconnect
    /\ pending' \in {pending, pending \ {c}}
    /\ asking' \in {asking, asking \ {c}}
    /\ breakages' \in 0..BreakageBound
    /\ UNCHANGED <<stopping, started, ever, created, broken, missed>>

LEMMA ScheduleTypes ==
    ASSUME ListenerTypeOK, ScheduleReconnect
    PROVE  /\ timers' \in Nat /\ backoff' \in 0..MaxBackoff
           /\ ~stopping => timers' > 0
           /\ stopping => UNCHANGED timers
           /\ timers > 0 => UNCHANGED timers
           /\ timers = 0 /\ ~stopping => timers' = 1
<1>1. timers \in Nat /\ backoff \in 0..MaxBackoff /\ MaxBackoff \in Nat
  BY ListenerTypes, ListenerAssumption DEF CounterTypes
<1>2. NextBackoff \in 0..MaxBackoff
  BY <1>1 DEF NextBackoff
<1>3. CASE stopping \/ timers > 0
  BY <1>1, <1>3 DEF ScheduleReconnect
<1>4. CASE ~(stopping \/ timers > 0)
  BY <1>1, <1>2, <1>4 DEF ScheduleReconnect
<1> QED
  BY <1>3, <1>4

LEMMA TearingDown ==
    ASSUME ListenerInv, NEW c, TornDown(c)
    PROVE  ListenerInv'
<1> USE DEF ListenerInv
<1>1. created \in Nat /\ c \in 1..created /\ started
  BY ListenerTypes, ListenerAssumption DEF TornDown, LifeOK, ClientTypes
<1>2. /\ timers' \in Nat /\ backoff' \in 0..MaxBackoff /\ (~stopping => timers' > 0)
      /\ stopping => UNCHANGED timers
  BY ScheduleTypes DEF TornDown
<1>3. /\ disposed' = disposed \cup {c} /\ wired' = wired \ {c}
      /\ live' \in {live, NoClient} /\ beat' \in {beat, NoClient}
      /\ live = c => live' = NoClient
  BY DEF TornDown, Dispose
<1>4. UNCHANGED <<stopping, started, ever, created, broken, missed>>
  BY DEF TornDown
<1>5. ListenerTypeOK'
  <2>1. FlagTypes'
    BY <1>4, ListenerTypes DEF FlagTypes
  <2>2. ClientTypes'
    <3>1. ClientTypes
      BY ListenerTypes
    <3>2. live' \in 0..created' /\ beat' \in 0..created'
      BY <1>1, <1>3, <1>4, <3>1 DEF ClientTypes, NoClient
    <3> QED
      BY <1>1, <1>3, <1>4, <3>1, <3>2 DEF ClientTypes, TornDown
  <2>3. CounterTypes'
    BY <1>2 DEF CounterTypes, TornDown
  <2> QED
    BY <2>1, <2>2, <2>3, ListenerTypesNext
<1>6. LifeOK'
  BY <1>1, <1>2, <1>3, <1>4 DEF LifeOK
<1>7. (live \notin disposed)'
  BY <1>1, <1>3, ListenerTypes DEF ClientTypes, NoClient
<1>8. NeverStuck'
  BY <1>2, <1>4 DEF NeverStuck
<1> QED
  BY <1>5, <1>6, <1>7, <1>8

LEMMA TearingDownAlone ==
    ASSUME ListenerInv, WiredOK, OneAttempt, NEW c, TornDown(c),
           c \in wired \/ c \in pending \/ (c \in asking /\ c \notin disposed)
    PROVE  (WiredOK /\ OneAttempt)'
<1>1. created \in Nat /\ c \in 1..created /\ c # NoClient
  BY ListenerTypes, ListenerAssumption DEF ListenerInv, ClientTypes, TornDown, NoClient
<1>2. /\ timers' \in Nat
      /\ ~stopping => timers' > 0
      /\ stopping => UNCHANGED timers
      /\ timers > 0 => UNCHANGED timers
      /\ timers = 0 /\ ~stopping => timers' = 1
  BY ScheduleTypes DEF ListenerInv, TornDown
<1>3. /\ disposed' = disposed \cup {c} /\ wired' = wired \ {c}
      /\ live' = IF live = c THEN NoClient ELSE live
      /\ pending' \in {pending, pending \ {c}} /\ asking' \in {asking, asking \ {c}}
      /\ stopping' = stopping
  BY DEF TornDown, Dispose
<1>4. beat' = live'
  BY <1>3 DEF TornDown, Dispose, WiredOK, ListenerInv
<1>5. WiredOK'
  <2>1. wired' = (pending' \ disposed') \cup ({live'} \ {NoClient})
    BY <1>1, <1>3 DEF WiredOK
  <2>2. live' \notin pending'
    <3>1. NoClient \notin pending
      BY <1>1, ListenerTypes DEF ListenerInv, ClientTypes, NoClient
    <3> QED
      BY <1>3, <3>1 DEF WiredOK
  <2> QED
    BY <1>4, <2>1, <2>2 DEF WiredOK
<1>6. OneAttempt'
  <2>1. \A d, e \in wired' : d = e
    BY <1>3 DEF OneAttempt
  <2>2. timers' \in {0, 1}
    BY <1>2 DEF OneAttempt
  <2>3. timers' > 0 => wired' = {}
    <3>1. CASE c \in wired
      BY <1>3, <3>1 DEF OneAttempt
    <3>2. CASE c \notin wired
      <4>1. ~stopping => timers > 0
        BY <1>1, <3>2 DEF OneAttempt, WiredOK
      <4> QED
        BY <1>2, <1>3, <4>1 DEF OneAttempt, LifeOK, ListenerInv
    <3> QED
      BY <3>1, <3>2
  <2>4. ~stopping' => asking' \subseteq disposed' \cup {live'}
    BY <1>3 DEF OneAttempt
  <2> QED
    BY <1>2, <1>3, <2>1, <2>2, <2>3, <2>4 DEF OneAttempt
<1> QED
  BY <1>5, <1>6

(* The first connect, and the one the reconnect timer makes. *)
Connects ==
    /\ Connect
    /\ timers' \in {timers, timers - 1} /\ timers' \in Nat
    /\ started' = TRUE
    /\ UNCHANGED <<stopping, live, backoff, beat, ever, disposed, asking, broken, missed,
                   breakages>>

LEMMA Connecting ==
    ASSUME ListenerInv, Connects, timers > 0 \/ ~started
    PROVE  ListenerInv'
<1> USE DEF ListenerInv
<1>0. FlagTypes /\ ClientTypes /\ CounterTypes
  BY ListenerTypes
<1>1. CASE stopping
  <2>1. FALSE
    BY <1>0, <1>1 DEF LifeOK, CounterTypes
  <2> QED
    BY <2>1
<1>2. CASE ~stopping
  <2> DEFINE c == created + 1
  <2>1. /\ created < ClientBound /\ created' = c
        /\ pending' = pending \cup {c} /\ wired' = wired \cup {c}
    BY <1>2 DEF Connects, Connect
  <2>2. created \in Nat /\ ClientBound \in Nat /\ c \notin disposed
    BY <1>0, ListenerAssumption DEF ClientTypes
  <2>3. FlagTypes'
    BY <1>0 DEF FlagTypes, Connects
  <2>4. ClientTypes'
    <3>1. created' \in 0..ClientBound /\ 0..created \subseteq 0..created'
          /\ 1..created \subseteq 1..created' /\ c \in 1..created'
      BY <2>1, <2>2
    <3> QED
      BY <1>0, <2>1, <3>1 DEF ClientTypes, Connects
  <2>5. CounterTypes'
    BY <1>0 DEF CounterTypes, Connects
  <2>6. LifeOK' /\ (live \notin disposed)'
    BY <1>2 DEF LifeOK, Connects
  <2>7. NeverStuck'
    BY <2>1, <2>2 DEF NeverStuck, Connects
  <2> QED
    BY <2>3, <2>4, <2>5, <2>6, <2>7, ListenerTypesNext
<1> QED
  BY <1>1, <1>2

LEMMA ConnectingAlone ==
    ASSUME ListenerInv, WiredOK, OneAttempt, Connects,
           \/ timers' = timers - 1 /\ timers > 0 /\ pending \cap disposed = {}
           \/ timers' = timers /\ ~started
    PROVE  (WiredOK /\ OneAttempt)'
<1> USE DEF ListenerInv
<1>0. ClientTypes /\ timers \in Nat
  BY ListenerTypes DEF CounterTypes
<1>1. ~stopping
  BY <1>0 DEF LifeOK
<1> DEFINE c == created + 1
<1>2. pending' = pending \cup {c} /\ wired' = wired \cup {c}
  BY <1>1 DEF Connects, Connect
<1>3. created \in Nat /\ c \notin disposed /\ c # live
  BY <1>0, ListenerAssumption DEF ClientTypes
<1>4. wired = {} /\ timers' = 0 /\ pending \cap disposed = {}
  <2>1. CASE started
    BY <2>1, <1>0 DEF OneAttempt
  <2>2. CASE ~started
    <3>1. created = 0 /\ timers = 0
      BY <2>2 DEF LifeOK
    <3>2. 1..created = {}
      BY <3>1
    <3> QED
      BY <1>0, <2>2, <3>1, <3>2 DEF ClientTypes, Connects
  <2> QED
    BY <2>1, <2>2
<1>5. WiredOK'
  BY <1>2, <1>3, <1>4 DEF WiredOK, Connects
<1>6. OneAttempt'
  BY <1>2, <1>3, <1>4 DEF OneAttempt, Connects
<1> QED
  BY <1>5, <1>6

(* A connect that succeeded. *)
LEMMA Adopting ==
    ASSUME ListenerInv, NEW c, ConnectOk(c)
    PROVE  ListenerInv'
<1> USE DEF ListenerInv
<1>0. FlagTypes /\ ClientTypes /\ CounterTypes
  BY ListenerTypes
<1>1. c \in 1..created /\ created \in Nat /\ started
  BY <1>0, ListenerAssumption DEF ConnectOk, ClientTypes, LifeOK
<1>2. CASE MayAdopt(c)
  <2>1. /\ live' = c /\ beat' = c /\ backoff' = 0 /\ ever' = TRUE
        /\ missed' \subseteq {"early", "later"} /\ c \notin disposed /\ ~stopping
        /\ pending' = pending \ {c}
        /\ UNCHANGED <<stopping, started, timers, created, asking, broken, breakages, wired,
                       disposed>>
    BY <1>0, <1>2 DEF ConnectOk, MayAdopt, FlagTypes
  <2>2. FlagTypes'
    BY <1>0, <2>1 DEF FlagTypes
  <2>3. ClientTypes'
    BY <1>0, <1>1, <2>1 DEF ClientTypes
  <2>4. CounterTypes'
    BY <1>0, <2>1, ListenerAssumption DEF CounterTypes
  <2>5. LifeOK' /\ (live \notin disposed)' /\ NeverStuck'
    BY <1>1, <2>1 DEF LifeOK, NeverStuck, NoClient
  <2> QED
    BY <2>2, <2>3, <2>4, <2>5, ListenerTypesNext
<1>3. CASE ~MayAdopt(c)
  <2>1. /\ disposed' = disposed \cup {c} /\ wired' = wired \ {c}
        /\ live' \in {live, NoClient} /\ beat' \in {beat, NoClient}
        /\ live' = live \/ live = c
        /\ c \in disposed \/ stopping
        /\ pending' = pending \ {c}
        /\ UNCHANGED <<stopping, started, timers, created, asking, broken, breakages, backoff,
                       ever, missed>>
    BY <1>3 DEF ConnectOk, MayAdopt, Dispose
  <2>2. FlagTypes'
    BY <1>0, <2>1 DEF FlagTypes
  <2>3. ClientTypes'
    <3>1. live' \in 0..created /\ beat' \in 0..created
      BY <1>0, <1>1, <2>1 DEF ClientTypes, NoClient
    <3> QED
      BY <1>0, <1>1, <2>1, <3>1 DEF ClientTypes
  <2>4. CounterTypes'
    BY <1>0, <2>1 DEF CounterTypes
  <2>5. LifeOK'
    BY <1>1, <2>1 DEF LifeOK
  <2>6. live' \notin disposed'
    <3>1. live' # c
      BY <1>1, <1>3 DEF ConnectOk, Dispose, NoClient
    <3>2. NoClient \notin disposed
      BY <1>0, <1>1 DEF ClientTypes, NoClient
    <3> QED
      BY <2>1, <3>1, <3>2
  <2>7. NeverStuck'
    BY <2>1 DEF NeverStuck
  <2> QED
    BY <2>2, <2>3, <2>4, <2>5, <2>6, <2>7, ListenerTypesNext
<1> QED
  BY <1>2, <1>3

LEMMA AdoptingAlone ==
    ASSUME ListenerInv, WiredOK, OneAttempt, NEW c, ConnectOk(c)
    PROVE  (WiredOK /\ OneAttempt)'
<1> USE DEF ListenerInv
<1>0. ClientTypes
  BY ListenerTypes
<1>1. c \in pending /\ c # NoClient /\ pending' = pending \ {c}
  BY <1>0, ListenerAssumption DEF ConnectOk, ClientTypes, NoClient
<1>2. CASE MayAdopt(c)
  <2>1. /\ live' = c /\ beat' = c /\ c \notin disposed /\ ~stopping
        /\ UNCHANGED <<stopping, timers, asking, wired, disposed>>
    BY <1>2 DEF ConnectOk, MayAdopt
  <2>2. wired = {c} /\ live = NoClient /\ timers = 0 /\ pending \ disposed = {c}
    BY <1>1, <2>1 DEF OneAttempt, WiredOK
  <2>3. WiredOK'
    BY <1>1, <2>1, <2>2 DEF WiredOK
  <2>4. asking \subseteq disposed
    <3>1. NoClient \notin asking
      BY <1>0, ListenerAssumption DEF ClientTypes, NoClient
    <3> QED
      BY <2>1, <2>2, <3>1 DEF OneAttempt
  <2>5. OneAttempt'
    BY <1>1, <2>1, <2>2, <2>4 DEF OneAttempt
  <2> QED
    BY <2>3, <2>5
<1>3. CASE ~MayAdopt(c)
  <2>1. /\ disposed' = disposed \cup {c} /\ wired' = wired \ {c}
        /\ live' = live /\ beat' = beat
        /\ c \in disposed \/ stopping
        /\ UNCHANGED <<stopping, timers, asking>>
    BY <1>1, <1>3 DEF ConnectOk, MayAdopt, Dispose, WiredOK
  <2>2. WiredOK'
    BY <1>1, <2>1 DEF WiredOK
  <2>3. OneAttempt'
    BY <1>1, <2>1 DEF OneAttempt, LifeOK
  <2> QED
    BY <2>2, <2>3
<1> QED
  BY <1>2, <1>3

LEMMA StoppingListener ==
    ASSUME ListenerInv, StopListening
    PROVE  /\ ListenerInv'
           /\ WiredOK /\ OneAttempt => (WiredOK /\ OneAttempt)'
<1> USE DEF ListenerInv
<1>0. FlagTypes /\ ClientTypes /\ CounterTypes
  BY ListenerTypes
<1>1. /\ stopping' = TRUE /\ timers' = 0 /\ beat' = NoClient /\ live' = NoClient
      /\ wired' = wired \ {live} /\ started
      /\ UNCHANGED <<started, backoff, ever, created, pending, disposed, asking, broken, missed,
                     breakages>>
  BY DEF StopListening
<1>2. FlagTypes' /\ CounterTypes'
  BY <1>0, <1>1 DEF FlagTypes, CounterTypes
<1>3. ClientTypes'
  BY <1>0, <1>1, ListenerAssumption DEF ClientTypes, NoClient
<1>4. NoClient \notin disposed /\ NoClient \notin pending
  BY <1>0, ListenerAssumption DEF ClientTypes, NoClient
<1>5. LifeOK' /\ NeverStuck' /\ (live \notin disposed)'
  BY <1>1, <1>4 DEF LifeOK, NeverStuck
<1>6. WiredOK /\ OneAttempt => WiredOK' /\ OneAttempt'
  BY <1>1, <1>4 DEF WiredOK, OneAttempt
<1> QED
  BY <1>2, <1>3, <1>5, <1>6, ListenerTypesNext

(* The heartbeat, a backend that breaks, a NOTIFY: clients and timers stay  *)
(* as they are.                                                             *)
LEMMA Listening ==
    ASSUME ListenerInv,
           \/ Heartbeat \/ Notify \/ UNCHANGED listenerVars
           \/ \E c \in Clients : HeartbeatOk(c) \/ Break(c)
    PROVE  /\ ListenerInv'
           /\ WiredOK /\ OneAttempt => (WiredOK /\ OneAttempt)'
<1> USE DEF ListenerInv
<1>0. FlagTypes /\ ClientTypes /\ CounterTypes
  BY ListenerTypes
<1>1. /\ UNCHANGED <<stopping, started, live, timers, backoff, beat, ever, created, pending,
                     wired, disposed>>
      /\ missed' \subseteq {"early", "later"}
  BY <1>0 DEF Heartbeat, Notify, HeartbeatOk, Break, listenerVars, FlagTypes
<1>2. broken' \subseteq 1..created /\ breakages' \in 0..BreakageBound
  <2>1. broken \subseteq 1..created /\ breakages \in 0..BreakageBound
    BY <1>0 DEF ClientTypes, CounterTypes
  <2>2. CASE \E c \in Clients : Break(c)
    <3>1. PICK c \in Clients : Break(c)
      BY <2>2
    <3>2. broken' = broken \cup {c} /\ c \in 1..created
      BY <3>1 DEF Break
    <3>3. breakages' \in 0..BreakageBound
      BY <2>1, <3>1, ListenerAssumption DEF Break, Breakage
    <3> QED
      BY <2>1, <3>2, <3>3
  <2>3. CASE ~\E c \in Clients : Break(c)
    <3>1. UNCHANGED <<broken, breakages>>
      BY <2>3 DEF Heartbeat, Notify, HeartbeatOk, listenerVars
    <3> QED
      BY <2>1, <3>1
  <2> QED
    BY <2>2, <2>3
<1>3. /\ asking' \subseteq 1..created
      /\ asking' \subseteq asking \cup ({beat} \ {NoClient})
  <2>1. asking \subseteq 1..created /\ beat \in 0..created /\ created \in Nat
    BY <1>0, ListenerAssumption DEF ClientTypes
  <2>2. CASE Heartbeat
    <3>1. asking' = asking \cup {beat} /\ beat # NoClient
      BY <2>2 DEF Heartbeat
    <3> QED
      BY <2>1, <3>1 DEF NoClient
  <2>3. CASE ~Heartbeat
    <3>1. asking' \subseteq asking
      BY <2>3 DEF Notify, HeartbeatOk, Break, listenerVars
    <3> QED
      BY <2>1, <3>1
  <2> QED
    BY <2>2, <2>3
<1>4. FlagTypes'
  BY <1>0, <1>1 DEF FlagTypes
<1>5. ClientTypes' /\ CounterTypes'
  BY <1>0, <1>1, <1>2, <1>3 DEF ClientTypes, CounterTypes
<1>6. LifeOK' /\ NeverStuck' /\ (live \notin disposed)'
  BY <1>1 DEF LifeOK, NeverStuck
<1>7. WiredOK /\ OneAttempt => WiredOK' /\ OneAttempt'
  BY <1>1, <1>3 DEF WiredOK, OneAttempt
<1> QED
  BY <1>4, <1>5, <1>6, <1>7, ListenerTypesNext

(* What tears a client down. *)
LEMMA Failing ==
    ASSUME ListenerInv, NEW c \in Clients,
           \/ ConnectFail(c) \/ ClientError(c) \/ ClientEnd(c)
           \/ HeartbeatFail(c) /\ c \notin disposed
    PROVE  TornDown(c) /\ (c \in wired \/ c \in pending \/ (c \in asking /\ c \notin disposed))
<1> USE DEF ListenerInv
<1>0. ClientTypes /\ breakages \in 0..BreakageBound
  BY ListenerTypes DEF CounterTypes
<1>1. c \in wired \/ c \in pending \/ (c \in asking /\ c \notin disposed)
  BY DEF ConnectFail, ClientError, ClientEnd, HeartbeatFail
<1>2. c \in 1..created
  BY <1>0, <1>1 DEF ClientTypes
<1>3. breakages' \in 0..BreakageBound
  BY <1>0, ListenerAssumption DEF ConnectFail, ClientError, ClientEnd, HeartbeatFail, Breakage
<1>4. Dispose(c) /\ ScheduleReconnect
  BY DEF ConnectFail, ClientError, ClientEnd, HeartbeatFail
<1>5. /\ pending' \in {pending, pending \ {c}} /\ asking' \in {asking, asking \ {c}}
      /\ UNCHANGED <<stopping, started, ever, created, broken, missed>>
  BY DEF ConnectFail, ClientError, ClientEnd, HeartbeatFail
<1> QED
  BY <1>1, <1>2, <1>3, <1>4, <1>5 DEF TornDown

(* The answer of a heartbeat that outlived its client changes nothing. *)
LEMMA LateHeartbeat ==
    ASSUME ListenerInv, NEW c \in Clients, HeartbeatFail(c), c \in disposed
    PROVE  /\ ListenerInv'
           /\ WiredOK /\ OneAttempt => (WiredOK /\ OneAttempt)'
<1> USE DEF ListenerInv
<1>0. FlagTypes /\ ClientTypes /\ CounterTypes
  BY ListenerTypes
<1>1. /\ asking' = asking \ {c}
      /\ UNCHANGED <<disposed, wired, live, beat, timers, backoff, stopping, started, ever,
                     created, pending, broken, missed, breakages>>
  BY DEF HeartbeatFail
<1>2. FlagTypes' /\ ClientTypes' /\ CounterTypes'
  BY <1>0, <1>1 DEF FlagTypes, ClientTypes, CounterTypes
<1>3. LifeOK' /\ NeverStuck' /\ (live \notin disposed)'
  BY <1>1 DEF LifeOK, NeverStuck
<1>4. WiredOK /\ OneAttempt => WiredOK' /\ OneAttempt'
  BY <1>1 DEF WiredOK, OneAttempt
<1> QED
  BY <1>2, <1>3, <1>4, ListenerTypesNext

LEMMA StartConnects ==
    ASSUME ListenerInv, Start
    PROVE  Connects /\ ~started /\ timers' = timers
<1>1. timers \in Nat
  BY ListenerTypes DEF ListenerInv, CounterTypes
<1> QED
  BY <1>1 DEF Start, Connects

LEMMA ReconnectConnects ==
    ASSUME ListenerInv, Reconnect
    PROVE  Connects /\ timers > 0 /\ timers' = timers - 1
<1>1. timers \in Nat /\ started \in BOOLEAN
  BY ListenerTypes DEF ListenerInv, CounterTypes, FlagTypes
<1>2. timers > 0 /\ timers' = timers - 1
  BY DEF Reconnect
<1>3. started
  BY <1>1, <1>2 DEF ListenerInv, LifeOK
<1>4. timers' \in Nat
  BY <1>1, <1>2
<1> QED
  BY <1>1, <1>2, <1>3, <1>4, Zenon DEF Reconnect, Connects

LEMMA ListenerStep == ListenerInv /\ [ListenerNext]_listenerVars => ListenerInv'
<1> SUFFICES ASSUME ListenerInv, [ListenerNext]_listenerVars
             PROVE  ListenerInv'
  OBVIOUS
<1>1. CASE Start
  BY <1>1, StartConnects, Connecting
<1>2. CASE Reconnect
  BY <1>2, ReconnectConnects, Connecting
<1>3. CASE StopListening
  BY <1>3, StoppingListener
<1>4. CASE \/ Heartbeat \/ Notify \/ UNCHANGED listenerVars
           \/ \E c \in Clients : HeartbeatOk(c) \/ Break(c)
  BY <1>4, Listening
<1>5. ASSUME NEW c \in Clients, ConnectOk(c)
      PROVE  ListenerInv'
  BY <1>5, Adopting
<1>6. ASSUME NEW c \in Clients, ConnectFail(c) \/ ClientError(c) \/ ClientEnd(c)
      PROVE  ListenerInv'
  BY <1>6, Failing, TearingDown
<1>7. ASSUME NEW c \in Clients, HeartbeatFail(c)
      PROVE  ListenerInv'
  BY <1>7, Failing, TearingDown, LateHeartbeat
<1> QED
  BY <1>1, <1>2, <1>3, <1>4, <1>5, <1>6, <1>7 DEF ListenerNext, Stopped

LEMMA AloneStep ==
    ~LateSettle /\ ListenerInv /\ WiredOK /\ OneAttempt /\ [ListenerNext]_listenerVars
      => (WiredOK /\ OneAttempt)'
<1> SUFFICES ASSUME ~LateSettle, ListenerInv, WiredOK, OneAttempt, [ListenerNext]_listenerVars
             PROVE  (WiredOK /\ OneAttempt)'
  OBVIOUS
<1>1. CASE Start
  BY <1>1, StartConnects, ConnectingAlone
<1>2. CASE Reconnect
  <2>1. pending \cap disposed = {}
    BY <1>2 DEF Reconnect
  <2> QED
    BY <1>2, <2>1, ReconnectConnects, ConnectingAlone
<1>3. CASE StopListening
  BY <1>3, StoppingListener
<1>4. CASE \/ Heartbeat \/ Notify \/ UNCHANGED listenerVars
           \/ \E c \in Clients : HeartbeatOk(c) \/ Break(c)
  BY <1>4, Listening
<1>5. ASSUME NEW c \in Clients, ConnectOk(c)
      PROVE  (WiredOK /\ OneAttempt)'
  BY <1>5, AdoptingAlone
<1>6. ASSUME NEW c \in Clients, ConnectFail(c) \/ ClientError(c) \/ ClientEnd(c)
      PROVE  (WiredOK /\ OneAttempt)'
  BY <1>6, Failing, TearingDownAlone
<1>7. ASSUME NEW c \in Clients, HeartbeatFail(c)
      PROVE  (WiredOK /\ OneAttempt)'
  BY <1>7, Failing, TearingDownAlone, LateHeartbeat
<1> QED
  BY <1>1, <1>2, <1>3, <1>4, <1>5, <1>6, <1>7 DEF ListenerNext, Stopped

(* The fields keep their types, and clients that do not exist are never     *)
(* referred to, whatever pg does and whenever.                              *)
THEOREM ListenerTypeCorrect == ListenerSpec => []ListenerTypeOK
<1>1. ListenerInv => ListenerTypeOK
  BY DEF ListenerInv
<1>2. ListenerInit => ListenerInv
  BY ListenerStarts
<1> QED
  BY <1>1, <1>2, ListenerStep, PTL DEF ListenerSpec

(* The deadlock scheduleReconnect warns of never happens: a started         *)
(* listener has a live client, a connect that can still be adopted or an    *)
(* armed timer, even when connects of torn down clients settle late.        *)
THEOREM ReconnectNeverStops == ListenerSpec => []NeverStuck
<1>1. ListenerInv => NeverStuck
  BY DEF ListenerInv
<1>2. ListenerInit => ListenerInv
  BY ListenerStarts
<1> QED
  BY <1>1, <1>2, ListenerStep, PTL DEF ListenerSpec

LEMMA AloneInvariance ==
    ASSUME ~LateSettle
    PROVE  ListenerSpec => [](ListenerInv /\ WiredOK /\ OneAttempt)
<1>1. ListenerInit => ListenerInv /\ WiredOK /\ OneAttempt
  BY ListenerStarts
<1>2. ListenerInv /\ WiredOK /\ OneAttempt /\ [ListenerNext]_listenerVars
        => (ListenerInv /\ WiredOK /\ OneAttempt)'
  BY ListenerStep, AloneStep
<1> QED
  BY <1>1, <1>2, PTL DEF ListenerSpec

(* When the connect of a torn down client settles before the reconnect      *)
(* backoff has elapsed, a dead connection is replaced exactly once: no two  *)
(* clients are wired to the channel (the class comment of PgListener).      *)
THEOREM OneClientIsWired ==
    ASSUME ~LateSettle
    PROVE  ListenerSpec => []SingleClient
<1>1. OneAttempt => SingleClient
  <2> SUFFICES ASSUME OneAttempt
               PROVE  Cardinality(wired) <= 1
    BY DEF SingleClient
  <2>1. CASE wired = {}
    BY <2>1, FS_EmptySet
  <2>2. CASE wired # {}
    <3>1. PICK c : c \in wired
      BY <2>2
    <3>2. wired = {c}
      BY <3>1 DEF OneAttempt
    <3>3. Cardinality({c}) = 1
      BY FS_Singleton
    <3> QED
      BY <3>2, <3>3
  <2> QED
    BY <2>1, <2>2
<1> QED
  BY <1>1, AloneInvariance, PTL

(* A stopped listener falls silent: once the connects in flight have        *)
(* settled, nothing relays, beats or reconnects (stop).                     *)
THEOREM StoppedListenerIsQuiet ==
    ASSUME ~LateSettle
    PROVE  ListenerSpec => []QuietAfterStop
<1>1. ListenerInv /\ WiredOK => QuietAfterStop
  BY DEF ListenerInv, LifeOK, WiredOK, QuietAfterStop
<1> QED
  BY <1>1, AloneInvariance, PTL

=============================================================================

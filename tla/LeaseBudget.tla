---------------------------- MODULE LeaseBudget ----------------------------
(***************************************************************************)
(* The arithmetic that keeps one claim inside its lease, over time: how    *)
(* many units of work (an event's handlers, a chunk of emails, a webhook   *)
(* delivery) a claim may hold, when a loop may start the next one, and     *)
(* which settings the boot accepts.  The outbox relay runs the units of a  *)
(* claim in several lanes and relies on the size of the claim alone; the   *)
(* email and webhook workers run them one after the other and look at the  *)
(* clock before each but the first.                                        *)
(*                                                                         *)
(* Time is counted from the instant the claim is sent, in the unit of the  *)
(* settings.  A handler, a send or a post races a timer of Unit; the       *)
(* statements of a claim and its settles take at most Margin, which is     *)
(* what the margin is for.  A lane that throws or a halt only starts fewer *)
(* units and has no action here (OutboxRelay models both).                 *)
(***************************************************************************)
EXTENDS Integers, FiniteSets

CONSTANTS
  Lanes,      \* the lanes of eachBounded; one for the email and webhook loops
  Lease,      \* OUTBOX_, EMAIL_ or WEBHOOK_LEASE_SECONDS
  Unit,       \* the time a unit of work gets before it is cut
  Margin,     \* the time left for the claim and the settles
  BatchSize,  \* the most a claim takes, whatever its lease
  Countdown   \* the loop asks leaseCountdown before each unit but the first

VARIABLES
  size,    \* how many units the claim returned
  elapsed, \* the time since the claim was sent
  spent,   \* how much of it the margin has to cover
  turn,    \* how many units each lane has taken
  doing,   \* what each lane does: idle, working, settling
  began    \* when each lane began its unit

budgetVars == <<size, elapsed, spent, turn, doing, began>>

\* The settings the boot accepts: positive numbers, and a lease that covers a
\* unit and the margin.
Accepted ==
  /\ IsFiniteSet(Lanes) /\ Lanes # {}
  /\ Lease \in Nat /\ Margin \in Nat /\ BatchSize \in Nat /\ Unit \in Nat \ {0}
  /\ Lease >= Unit + Margin
  /\ Countdown \in BOOLEAN
  /\ Countdown => \E lane \in Lanes : Lanes = {lane}

UnitsWithinLease ==
  LET units == (Lease - Margin) \div Unit
  IN  IF units > 1 THEN units ELSE 1

\* A claim of emails may hold more chunks than its limit was computed from (each
\* template starts a chunk of its own), so nothing but BatchSize bounds it.
ClaimLimit ==
  LET fitting == UnitsWithinLease * Cardinality(Lanes)
  IN  IF Countdown \/ BatchSize < fitting THEN BatchSize ELSE fitting

\* The units taken so far, each named by its lane and its turn there.
Taken == UNION {{lane} \X (1..turn[lane]) : lane \in Lanes}

Waiting == Cardinality(Taken) < size

CoversNextUnit == Lease - elapsed >= Unit + Margin

----------------------------------------------------------------------------

\* The claim has been answered, after a time the margin has to cover.
Claimed ==
  /\ size \in 0..ClaimLimit
  /\ elapsed \in 0..Margin
  /\ spent = elapsed
  /\ turn = [lane \in Lanes |-> 0]
  /\ doing = [lane \in Lanes |-> "idle"]
  /\ began = [lane \in Lanes |-> 0]

\* What keeps a countdown loop from starting another unit.
MayStart(lane) == Countdown /\ turn[lane] > 0 => CoversNextUnit

\* The lane takes the next unit.  The margin of a countdown is left for it again.
Take(lane) ==
  /\ doing[lane] = "idle"
  /\ Waiting
  /\ MayStart(lane)
  /\ turn' = [turn EXCEPT ![lane] = @ + 1]
  /\ doing' = [doing EXCEPT ![lane] = "working"]
  /\ began' = [began EXCEPT ![lane] = elapsed]
  /\ spent' = IF Countdown /\ turn[lane] > 0 THEN 0 ELSE spent
  /\ UNCHANGED <<size, elapsed>>

\* The work of the unit is done, or cut at its budget.
Work(lane) ==
  /\ doing[lane] = "working"
  /\ doing' = [doing EXCEPT ![lane] = "settling"]
  /\ UNCHANGED <<size, elapsed, spent, turn, began>>

Settle(lane) ==
  /\ doing[lane] = "settling"
  /\ doing' = [doing EXCEPT ![lane] = "idle"]
  /\ UNCHANGED <<size, elapsed, spent, turn, began>>

Settling == \E lane \in Lanes : doing[lane] = "settling"

\* Time passes: a lane with a unit to start starts it at once, a unit is cut when
\* its time is up, and statements take no more than the margin.
TimePasses ==
  /\ \E lane \in Lanes : doing[lane] # "idle"
  /\ \A lane \in Lanes :
       /\ doing[lane] = "idle" => ~(Waiting /\ MayStart(lane))
       /\ doing[lane] = "working" => elapsed < began[lane] + Unit
  /\ Settling => spent < Margin
  /\ elapsed' = elapsed + 1
  /\ spent' = IF Settling THEN spent + 1 ELSE spent
  /\ UNCHANGED <<size, turn, doing, began>>

LaneStep == TimePasses \/ \E lane \in Lanes : Take(lane) \/ Work(lane) \/ Settle(lane)

ClaimSpec == Claimed /\ [][LaneStep]_budgetVars

----------------------------------------------------------------------------

\* docs/EVENTS.md:190: the claim is capped "so a claimed row is settled before its
\* lease runs out".  Whatever lane a unit is in, and however late it was started,
\* its lease runs for as long as it is worked on and settled.
SettledWithinLease == \A lane \in Lanes : doing[lane] # "idle" => elapsed <= Lease

=============================================================================

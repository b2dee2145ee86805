\* Two lanes of a relay whose lease holds two rounds, and a batch that would hold more.
SPECIFICATION ClaimSpec
CONSTANTS
  Lanes = {a, b}
  Lease = 9
  Unit = 3
  Margin = 2
  BatchSize = 6
  Countdown = FALSE
INVARIANT SettledWithinLease
CHECK_DEADLOCK FALSE

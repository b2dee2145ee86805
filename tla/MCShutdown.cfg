\* Half-second units.  With lag 0 timers are on time; with lag 1 every timer may
\* fire one unit late and the deadline can cut the shutdown anywhere.
CONSTANTS
    Runners = {webhook, email, outbox, hub}
    GraceMs = 2
    StepMs = 2
    WorkersMs = 6
    GraceMargin = 2
    Telemetry = 4
    TelemetryMargin = 1
    Flush = 2
    Lag = 1
    Horizon = 30
SPECIFICATION FairSpec
INVARIANTS
    PoolOutlivesRunners
    ZeroMeansClean
    DeadlineIsSlack
PROPERTIES
    AlwaysExits

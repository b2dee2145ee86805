----------------------------- MODULE PgListener -----------------------------
(***************************************************************************)
(* The dedicated LISTEN connection that survives its backend dying         *)
(* (packages/outbox: PgListener).  Clients are the pg clients it creates,  *)
(* one after the other.  What pg does is external: a connect settles       *)
(* either way, a backend dies silently, a dead connection emits error or   *)
(* end or is found out by the heartbeat.                                   *)
(***************************************************************************)
EXTENDS Integers, FiniteSets

CONSTANTS
    ClientBound,   \* bound: clients ever created
    BreakageBound, \* bound: refused connects and dead backends
    MaxBackoff,    \* doublings before reconnectMaxBackoffMs caps the delay
    LateSettle     \* may connect() of a torn down client outlive the backoff?

ASSUME ListenerAssumption ==
    /\ ClientBound \in Nat \ {0} /\ BreakageBound \in Nat /\ MaxBackoff \in Nat
    /\ LateSettle \in BOOLEAN

Clients == 1..ClientBound
NoClient == 0

VARIABLES
    stopping,   \* this.stopping
    started,    \* start() was called
    live,       \* this.listenClient
    timers,     \* reconnect timers armed; reconnectTimer !== null when positive
    backoff,    \* this.reconnectBackoff, in doublings
    beat,       \* the client whose heartbeat interval runs
    ever,       \* this.everConnected
    created,    \* clients created so far
    pending,    \* clients whose connect() or LISTEN is in flight
    wired,      \* clients whose event handlers are attached
    disposed,   \* this.disposed
    asking,     \* clients with a heartbeat query in flight
    broken,     \* external: clients whose backend is gone
    missed,     \* history: NOTIFYs lost since the last catch-up, those before the
                \* first connect that succeeded ("early") told from "later" ones
    breakages   \* breakages so far

listenerVars == <<stopping, started, live, timers, backoff, beat, ever, created, pending,
                  wired, disposed, asking, broken, missed, breakages>>

Relaying == {c \in wired : c \notin pending /\ c \notin broken}

-----------------------------------------------------------------------------
(* The private methods.  Each is an effect on the variables it names.       *)

(* disposerFor: idempotent, stops the heartbeat of the live client only. *)
Dispose(c) ==
    /\ disposed' = disposed \cup {c}
    /\ wired' = wired \ {c}
    /\ live' = IF live = c THEN NoClient ELSE live
    /\ beat' = IF live = c /\ c \notin disposed THEN NoClient ELSE beat

NextBackoff == IF backoff < MaxBackoff THEN backoff + 1 ELSE backoff

(* Mutants: no single-flight guard; the guard "am I connecting?". *)
ScheduleReconnect_Unguarded ==
    IF stopping THEN UNCHANGED <<timers, backoff>>
    ELSE timers' = timers + 1 /\ backoff' = NextBackoff
ScheduleReconnect_WhenIdle ==
    IF stopping \/ timers > 0 \/ pending # {} THEN UNCHANGED <<timers, backoff>>
    ELSE timers' = timers + 1 /\ backoff' = NextBackoff
ScheduleReconnect ==
    IF stopping \/ timers > 0 THEN UNCHANGED <<timers, backoff>>
    ELSE timers' = timers + 1 /\ backoff' = NextBackoff

(* connect, up to its first await. *)
Connect ==
    IF stopping THEN UNCHANGED <<created, pending, wired>>
    ELSE /\ created < ClientBound
         /\ created' = created + 1
         /\ pending' = pending \cup {created + 1}
         /\ wired' = wired \cup {created + 1}

Breakage == breakages < BreakageBound /\ breakages' = breakages + 1

-----------------------------------------------------------------------------
Start ==
    /\ ~started
    /\ started' = TRUE
    /\ Connect
    /\ UNCHANGED <<stopping, live, timers, backoff, beat, ever, disposed, asking,
                   broken, missed, breakages>>

(* connect() and LISTEN both succeeded: adopt the client unless it was torn *)
(* down meanwhile.                                                          *)
(* Mutant: adopt without looking again. *)
MayAdopt_Stale(c) == TRUE
MayAdopt(c) == c \notin disposed /\ ~stopping

(* onReconnect: on every adoption but the first. *)
CatchesUp == ever

ConnectOk(c) ==
    /\ c \in pending
    /\ pending' = pending \ {c}
    /\ IF MayAdopt(c)
         THEN /\ live' = c /\ beat' = c /\ backoff' = 0
              /\ ever' = TRUE
              /\ missed' = IF CatchesUp THEN {} ELSE missed
              /\ UNCHANGED <<wired, disposed>>
         ELSE Dispose(c) /\ UNCHANGED <<backoff, ever, missed>>
    /\ UNCHANGED <<stopping, started, timers, created, asking, broken, breakages>>

(* connect() or LISTEN rejected: the catch block. *)
ConnectFail(c) ==
    /\ c \in pending
    /\ IF c \in broken \cup disposed THEN UNCHANGED breakages ELSE Breakage
    /\ pending' = pending \ {c}
    /\ Dispose(c)
    /\ ScheduleReconnect
    /\ UNCHANGED <<stopping, started, ever, created, asking, broken, missed>>

(* The error event of a wired client. *)
ClientError(c) ==
    /\ c \in wired /\ c \in broken
    /\ Dispose(c)
    /\ ScheduleReconnect
    /\ UNCHANGED <<stopping, started, ever, created, pending, asking, broken, missed, breakages>>

(* The end event: ignored while stopping. *)
ClientEnd(c) ==
    /\ c \in wired /\ c \in broken /\ ~stopping
    /\ Dispose(c)
    /\ ScheduleReconnect
    /\ UNCHANGED <<stopping, started, ever, created, pending, asking, broken, missed, breakages>>

(* The heartbeat interval of the live client, and its answer. *)
(* Mutant: no heartbeat. *)
Heartbeat_Off == FALSE /\ UNCHANGED listenerVars
Heartbeat ==
    /\ beat # NoClient
    /\ asking' = asking \cup {beat}
    /\ UNCHANGED <<stopping, started, live, timers, backoff, beat, ever, created, pending,
                   wired, disposed, broken, missed, breakages>>

HeartbeatOk(c) ==
    /\ c \in asking /\ c \notin broken
    /\ asking' = asking \ {c}
    /\ UNCHANGED <<stopping, started, live, timers, backoff, beat, ever, created, pending,
                   wired, disposed, broken, missed, breakages>>

HeartbeatFail(c) ==
    /\ c \in asking /\ c \in broken
    /\ asking' = asking \ {c}
    /\ IF c \in disposed
         THEN UNCHANGED <<disposed, wired, live, beat, timers, backoff>>
         ELSE Dispose(c) /\ ScheduleReconnect
    /\ UNCHANGED <<stopping, started, ever, created, pending, broken, missed, breakages>>

(* The reconnect timer.  Unless LateSettle, the connect() of a client that  *)
(* was torn down settles before the backoff has elapsed.                    *)
Reconnect ==
    /\ timers > 0
    /\ LateSettle \/ pending \cap disposed = {}
    /\ timers' = timers - 1
    /\ Connect
    /\ UNCHANGED <<stopping, started, live, backoff, beat, ever, disposed, asking,
                   broken, missed, breakages>>

(* stop tears the live client down by itself, not through its disposer. *)
StopListening ==
    /\ started /\ ~stopping
    /\ stopping' = TRUE
    /\ timers' = 0
    /\ beat' = NoClient
    /\ live' = NoClient
    /\ wired' = wired \ {live}
    /\ UNCHANGED <<started, backoff, ever, created, pending, disposed, asking,
                   broken, missed, breakages>>

(* External: a backend dies without a word. *)
Break(c) ==
    /\ c \in 1..created /\ c \notin broken /\ c \notin disposed
    /\ Breakage
    /\ broken' = broken \cup {c}
    /\ UNCHANGED <<stopping, started, live, timers, backoff, beat, ever, created, pending,
                   wired, disposed, asking, missed>>

(* External: a NOTIFY, seen by the clients that relay. *)
Notify ==
    /\ started /\ ~stopping
    /\ missed' = missed \cup IF Relaying # {} THEN {} ELSE IF ever THEN {"later"} ELSE {"early"}
    /\ UNCHANGED <<stopping, started, live, timers, backoff, beat, ever, created, pending,
                   wired, disposed, asking, broken, breakages>>

(* A stopped listener stays stopped. *)
Stopped == stopping /\ pending = {} /\ asking = {} /\ UNCHANGED listenerVars

-----------------------------------------------------------------------------
ListenerInit ==
    /\ stopping = FALSE /\ started = FALSE /\ live = NoClient /\ timers = 0
    /\ backoff = 0 /\ beat = NoClient /\ ever = FALSE /\ created = 0
    /\ pending = {} /\ wired = {} /\ disposed = {} /\ asking = {} /\ broken = {}
    /\ missed = {} /\ breakages = 0

ListenerNext ==
    \/ Start \/ Reconnect \/ StopListening \/ Heartbeat \/ Notify \/ Stopped
    \/ \E c \in Clients : ConnectOk(c) \/ ConnectFail(c) \/ ClientError(c) \/ ClientEnd(c)
                          \/ HeartbeatOk(c) \/ HeartbeatFail(c) \/ Break(c)

ListenerSpec == ListenerInit /\ [][ListenerNext]_listenerVars

(* Connects and queries have a timeout, so they settle; timers fire.        *)
(* Nothing makes pg emit error or end for a silently dead backend.          *)
ListenerFairness ==
    /\ WF_listenerVars(Reconnect) /\ WF_listenerVars(Heartbeat)
    /\ \A c \in Clients : /\ WF_listenerVars(ConnectOk(c) \/ ConnectFail(c))
                          /\ WF_listenerVars(HeartbeatOk(c) \/ HeartbeatFail(c))

FairListenerSpec == ListenerSpec /\ ListenerFairness

-----------------------------------------------------------------------------
(* Properties. *)

(* The fields keep their types, and only clients that exist are referred to. *)
ListenerTypeOK ==
    /\ {stopping, started, ever} \subseteq BOOLEAN /\ missed \subseteq {"early", "later"}
    /\ created \in 0..ClientBound
    /\ {live, beat} \subseteq 0..created
    /\ pending \cup wired \cup disposed \cup asking \cup broken \subseteq 1..created
    /\ timers \in Nat /\ backoff \in 0..MaxBackoff
    /\ breakages \in 0..BreakageBound

(* The contract of the class comment: a dead connection is replaced exactly *)
(* once, without ever leaving two clients wired to the same channel.        *)
SingleClient == Cardinality(wired) <= 1

(* The part of it that outlives a stop: no NOTIFY is relayed twice. *)
SingleRelay == Cardinality(Relaying) <= 1

(* The deadlock scheduleReconnect warns of: a started listener always has a *)
(* live client, a connect that can still be adopted or an armed timer.      *)
NeverStuck ==
    started /\ ~stopping => live # NoClient \/ timers > 0 \/ pending \ disposed # {}

(* After stop nothing relays, beats or reconnects, once connects settled. *)
QuietAfterStop ==
    stopping /\ pending = {} => wired = {} /\ timers = 0 /\ beat = NoClient

(* A NOTIFY lost by a listener that was connected once is eventually caught *)
(* up, even when the backend died silently and only the heartbeat can tell. *)
(* One lost before that, by a start() whose connect failed, is not: the     *)
(* first adoption does not call onReconnect, and the dispatcher's own wake  *)
(* and poll have to find the row (OutboxDispatcher's EventuallyDrained).    *)
MissedIsCaughtUp == ("later" \in missed) ~> ("later" \notin missed \/ stopping)

=============================================================================

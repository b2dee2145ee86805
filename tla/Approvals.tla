----------------------------- MODULE Approvals -----------------------------
(***************************************************************************)
(* Four-eyes approvals of one action on one subject (ApprovalService,      *)
(* DrizzleApprovalStore), the sweep that expires them under a lease of its *)
(* own (runRetentionSweep, sweep-lock), and the closure when somebody is   *)
(* deleted.  A decision is several round trips: read the request, check    *)
(* the people, claim and execute in one unit of work, and, when that is    *)
(* rolled back, record the failure in another.                             *)
(***************************************************************************)
EXTENDS Integers, Sequences, FiniteSets

CONSTANTS
    Requests,     \* ids of admin_approval rows, all about one action and subject
    Subject,
    Requesters,
    Deciders,     \* staff with the decision's permissions
    Sweeps,       \* runs of /internal/sweep-admin-approvals
    BatchSize,
    FaultBound,   \* bound: crashes, failed writes, sweeps out of time
    Nobody

People == Requesters \cup Deciders \cup {Subject}

ASSUME ApprovalsAssumption ==
    /\ IsFiniteSet(Requests) /\ Nobody \notin People \cup Sweeps \cup Requests
    /\ BatchSize \in Nat \ {0} /\ FaultBound \in Nat

VARIABLES
    req,       \* admin_approval
    pc,        \* per decider: the step of decide
    doing,     \* per decider: the request it read
    lock,      \* sweep_lock under this label
    sweep,     \* the sweep runs under way
    told,      \* events announced about each request, in order
    effects,   \* how often the requested action was carried out
    closed,    \* people whose USER_DELETED was handled
    late,      \* history: requests stored after a closure
    trusted,   \* history: runs within the term of their own lease
    faults

vars == <<req, pc, doing, lock, sweep, told, effects, closed, late, trusted, faults>>
decideVars == <<pc, doing>>
sweepVars == <<lock, sweep, trusted>>

(* "overdue" is a pending row whose expires_at has passed. *)
Request == [status : {"none", "pending", "overdue", "rejected", "executed", "failed",
                      "cancelled", "expired"},
            text : BOOLEAN, by : Requesters \cup {Nobody}]
NoRequest == [status |-> "none", text |-> FALSE, by |-> Nobody]
NoLock == [owner |-> Nobody, live |-> FALSE]

Fault == faults < FaultBound /\ faults' = faults + 1
PendingAndLive(i) == req[i].status = "pending"
PendingAndDue(i) == req[i].status = "overdue"
Pending(i) == PendingAndLive(i) \/ PendingAndDue(i)

(* announce: one outbox event per request of S, in the same transaction. *)
Announce(S, events) == told' = [i \in Requests |-> IF i \in S THEN told[i] \o events ELSE told[i]]
Become(S, status) ==
    req' = [i \in Requests |-> IF i \in S THEN [req[i] EXCEPT !.status = status] ELSE req[i]]

-----------------------------------------------------------------------------
(* gate: overdue requests make room, then one pending row per action and    *)
(* subject.  Asking again for what is pending changes nothing.              *)
Gate(i, a) ==
    /\ req[i].status = "none" /\ a # Subject
    /\ ~\E o \in Requests : PendingAndLive(o)
    /\ LET due == {o \in Requests : PendingAndDue(o)}
       IN /\ req' = [o \in Requests |->
                IF o = i THEN [status |-> "pending", text |-> TRUE, by |-> a]
                ELSE IF o \in due THEN [req[o] EXCEPT !.status = "expired"] ELSE req[o]]
          /\ told' = [o \in Requests |-> IF o = i THEN <<"requested">>
                                         ELSE IF o \in due THEN Append(told[o], "expired")
                                         ELSE told[o]]
    /\ late' = IF closed \cap {a, Subject} = {} THEN late ELSE late \cup {i}
    /\ UNCHANGED <<decideVars, sweepVars, effects, closed, faults>>

(* cancel: the requester withdraws. *)
Cancel(i) ==
    /\ PendingAndLive(i)
    /\ Become({i}, "cancelled") /\ Announce({i}, <<"cancelled">>)
    /\ UNCHANGED <<decideVars, sweepVars, effects, closed, late, faults>>

-----------------------------------------------------------------------------
(* decide *)

(* get and refusal. *)
Load(d, i) ==
    /\ pc[d] = "idle"
    /\ PendingAndLive(i) /\ d \notin {req[i].by, Subject}
    /\ pc' = [pc EXCEPT ![d] = "loaded"]
    /\ doing' = [doing EXCEPT ![d] = i]
    /\ UNCHANGED <<req, sweepVars, told, effects, closed, late, faults>>

Done(d) ==
    /\ pc' = [pc EXCEPT ![d] = "idle"]
    /\ doing' = [doing EXCEPT ![d] = Nobody]

(* authorizeAction and requesterHolds: the requester may have lost the      *)
(* power since, and may lose it right after.                                *)
CheckPeople(d) ==
    /\ pc[d] = "loaded"
    /\ \E step \in {"deciding", "failing"} : pc' = [pc EXCEPT ![d] = step]
    /\ UNCHANGED <<req, doing, sweepVars, told, effects, closed, late, faults>>

(* A refused or broken decision ends without a trace. *)
GiveUp(d) ==
    /\ pc[d] # "idle"
    /\ Fault
    /\ Done(d)
    /\ UNCHANGED <<req, sweepVars, told, effects, closed, late>>

(* claim. *)
Claimable(i) == PendingAndLive(i)

(* reject and approve on a request that is no longer there to claim. *)
ClaimLost(d) ==
    /\ pc[d] = "deciding" /\ ~Claimable(doing[d])
    /\ Done(d)
    /\ UNCHANGED <<req, sweepVars, told, effects, closed, late, faults>>

Reject(d) ==
    /\ pc[d] = "deciding"
    /\ LET i == doing[d]
       IN Claimable(i) /\ Become({i}, "rejected") /\ Announce({i}, <<"rejected">>)
    /\ Done(d)
    /\ UNCHANGED <<sweepVars, effects, closed, late, faults>>

(* approve: claim, execute, markExecuted and both events in one unit of     *)
(* work; an action that is refused rolls all of it back.                    *)
Approve(d) ==
    /\ pc[d] = "deciding"
    /\ LET i == doing[d]
       IN /\ Claimable(i)
          /\ \/ /\ Become({i}, "executed") /\ Announce({i}, <<"approved", "executed">>)
                /\ effects' = [effects EXCEPT ![i] = @ + 1]
                /\ Done(d)
             \/ /\ pc' = [pc EXCEPT ![d] = "failing"]
                /\ UNCHANGED <<req, doing, told, effects>>
    /\ UNCHANGED <<sweepVars, closed, late, faults>>

(* markFailed. *)
(* Mutant: the failure is written whatever happened to the request since.   *)
MayFail_Any(i) == TRUE
MayFail(i) == Pending(i)

RecordFailure(d) ==
    /\ pc[d] = "failing"
    /\ LET i == doing[d]
       IN IF MayFail(i) THEN Become({i}, "failed") /\ Announce({i}, <<"failed">>)
                        ELSE UNCHANGED <<req, told>>
    /\ Done(d)
    /\ UNCHANGED <<sweepVars, effects, closed, late, faults>>

-----------------------------------------------------------------------------
(* closeForDeletedUser: on USER_DELETED, once or more often.                *)
(* Mutant: requests that are overdue are left to the sweep. *)
Closable_Live(i, u) == PendingAndLive(i) /\ u \in {req[i].by, Subject}
Closable(i, u) == Pending(i) /\ u \in {req[i].by, Subject}

CloseForDeletedUser(u) ==
    /\ LET open == {i \in Requests : Closable(i, u)}
       IN /\ Announce(open, <<"cancelled">>)
          /\ req' = [i \in Requests |->
               [req[i] EXCEPT !.status = IF i \in open THEN "cancelled" ELSE @,
                              !.text = @ /\ u # Subject]]
    /\ closed' = closed \cup {u}
    /\ late' = IF u = Subject THEN {} ELSE late
    /\ UNCHANGED <<decideVars, sweepVars, effects, faults>>

-----------------------------------------------------------------------------
(* The expiry sweep. *)

Overdue(i) ==
    /\ PendingAndLive(i)
    /\ Become({i}, "overdue")
    /\ UNCHANGED <<decideVars, sweepVars, told, effects, closed, late, faults>>

(* acquireSweepLease: a fresh row, or one whose term is over. *)
(* Mutant: an old lease is never taken over. *)
MayAcquire_Free == lock.owner = Nobody
MayAcquire == ~lock.live

Acquire(s) ==
    /\ s \notin sweep /\ MayAcquire
    /\ lock' = [owner |-> s, live |-> TRUE]
    /\ sweep' = sweep \cup {s}
    /\ trusted' = trusted \cup {s}
    /\ UNCHANGED <<req, decideVars, told, effects, closed, late, faults>>

(* expireDue under withSweepGuards: a batch of what no one else has locked. *)
Batch(s) ==
    /\ s \in sweep
    /\ \E S \in SUBSET {i \in Requests : PendingAndDue(i)} :
        /\ S # {} /\ Cardinality(S) <= BatchSize
        /\ Become(S, "expired") /\ Announce(S, <<"expired">>)
    /\ UNCHANGED <<decideVars, sweepVars, effects, closed, late, faults>>

(* releaseSweepLease. *)
(* Mutant: by label alone. *)
Released_ByLabel(s) == NoLock
Released(s) == IF lock.owner = s THEN NoLock ELSE lock

(* Nothing left; or, with work left, out of time, at its batch cap, broken  *)
(* off by a failed batch or by a crash.  A failed release is swallowed.     *)
Finish(s) ==
    /\ s \in sweep
    /\ \/ /\ ~\E i \in Requests : PendingAndDue(i)
          /\ lock' = Released(s) /\ UNCHANGED faults
       \/ Fault /\ lock' \in {lock, Released(s)}
    /\ sweep' = sweep \ {s}
    /\ trusted' = trusted \ {s}
    /\ UNCHANGED <<req, decideVars, told, effects, closed, late>>

(* Its term passes, whether or not its owner still runs. *)
LeaseEnds ==
    /\ lock.live
    /\ lock' = [lock EXCEPT !.live = FALSE]
    /\ trusted' = trusted \ {lock.owner}
    /\ UNCHANGED <<req, decideVars, sweep, told, effects, closed, late, faults>>

-----------------------------------------------------------------------------
Init ==
    /\ req = [i \in Requests |-> NoRequest]
    /\ pc = [d \in Deciders |-> "idle"] /\ doing = [d \in Deciders |-> Nobody]
    /\ lock = NoLock /\ sweep = {}
    /\ told = [i \in Requests |-> <<>>] /\ effects = [i \in Requests |-> 0]
    /\ closed = {} /\ late = {} /\ trusted = {} /\ faults = 0

Next ==
    \/ \E i \in Requests :
        \/ Cancel(i) \/ Overdue(i)
        \/ (\E a \in Requesters : Gate(i, a))
        \/ (\E d \in Deciders : Load(d, i))
    \/ \E d \in Deciders : CheckPeople(d) \/ GiveUp(d) \/ ClaimLost(d) \/ Reject(d) \/ Approve(d)
                           \/ RecordFailure(d)
    \/ \E u \in Requesters \cup {Subject} : CloseForDeletedUser(u)
    \/ \E s \in Sweeps : Acquire(s) \/ Batch(s) \/ Finish(s)
    \/ LeaseEnds

Spec == Init /\ [][Next]_vars

(* Cron starts runs, a run goes on batch after batch and ends, and the term *)
(* of a lease passes.  Nothing is assumed of people.                        *)
FairSpec ==
    /\ Spec
    /\ WF_vars(LeaseEnds)
    /\ \A s \in Sweeps : WF_vars(Acquire(s)) /\ WF_vars(Batch(s)) /\ WF_vars(Finish(s))

-----------------------------------------------------------------------------
(* Properties. *)

(* Every variable keeps its type, and a decider has a request in hand from  *)
(* reading it until the decision is over.                                   *)
RequestsOK == req \in [Requests -> Request]
DecidersOK ==
    /\ pc \in [Deciders -> {"idle", "loaded", "deciding", "failing"}]
    /\ doing \in [Deciders -> Requests \cup {Nobody}]
    /\ \A d \in Deciders : (pc[d] = "idle") <=> (doing[d] = Nobody)
SweepsOK ==
    /\ lock \in [owner : Sweeps \cup {Nobody}, live : BOOLEAN]
    /\ sweep \subseteq Sweeps /\ trusted \subseteq Sweeps
RestOK ==
    /\ effects \in [Requests -> Nat] /\ closed \subseteq People
    /\ late \subseteq Requests /\ faults \in 0..FaultBound
TypeOK == RequestsOK /\ DecidersOK /\ SweepsOK /\ RestOK

(* Whoever decides, cancels, expires, closes or fails a request at the same *)
(* time, its events are those of one ending, in order, the ending the row   *)
(* shows; the action was carried out once if that is "executed", else not   *)
(* at all (claim, markExecuted, markFailed, expireDue, closeForDeletedUser).*)
Story(status) ==
    CASE status = "none" -> <<>>
      [] status \in {"pending", "overdue"} -> <<"requested">>
      [] status = "executed" -> <<"requested", "approved", "executed">>
      [] OTHER -> <<"requested", status>>

OneEnding ==
    \A i \in Requests : /\ told[i] = Story(req[i].status)
                        /\ effects[i] = (IF req[i].status = "executed" THEN 1 ELSE 0)

(* docs/FEATURES.md, four-eyes: deleting a user cancels their open requests *)
(* and erases the free text of requests about them.  It stays so, whatever  *)
(* decision or sweep was under way; only requests stored after the closure, *)
(* by a gate that never looks at the deletion, escape it.                   *)
DeletedStaysClosed ==
    \A i \in Requests \ late :
        /\ closed \cap {req[i].by, Subject} # {} => ~Pending(i)
        /\ Subject \in closed => ~req[i].text

(* A sweep run keeps the label for the whole term of its lease: one that    *)
(* outlived its own never frees it under a successor (releaseSweepLease).   *)
LeaseIsItsOwners == \A s \in trusted : lock = [owner |-> s, live |-> TRUE]

(* A request nobody settles in time expires, even if sweep runs crash or    *)
(* fail to release their lease.                                             *)
OverdueExpires == \A i \in Requests : PendingAndDue(i) ~> ~Pending(i)

=============================================================================

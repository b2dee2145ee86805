------------------------------ MODULE Accounts ------------------------------
(***************************************************************************)
(* Staff access and account deletion on the same rows (StaffService,       *)
(* StaffAccessService, RgpdService and their stores).  A change of staff   *)
(* access locks the manager rows before it counts who is left, so it is    *)
(* one step here.  Asking for, cancelling and carrying out a deletion read *)
(* before they write, without that lock: those are several steps each, and *)
(* sweep runs may overlap, for this sweep takes no lease.                  *)
(* Whoever changes somebody's access was let in before the lock was taken  *)
(* and may have lost their own since: an actor is anybody else.            *)
(***************************************************************************)
EXTENDS Integers, FiniteSets

CONSTANTS
    People,
    Sweeps,       \* runs of /internal/rgpd-sweep
    BatchSize,
    Nobody

ASSUME AccountsAssumption ==
    /\ IsFiniteSet(People) /\ Nobody \notin People /\ BatchSize \in Nat \ {0}

VARIABLES
    listed,      \* PLATFORM_ADMIN_IDS of the deployment
    user,        \* per person: banned, pending_deletion_until, deleted_at
    staff,       \* per person: the staff_member row and the deny override
    asking,      \* per person: the step of requestAccountDeletion
    cancelling,  \* people in cancelAccountDeletion
    batch,       \* per sweep run: people it found ready and has not come to
    wiping,      \* per sweep run: whom it is about to wipe
    deletions,   \* USER_DELETED events about each person
    spared       \* history: cancelled with no wipe past its own look

vars == <<listed, user, staff, asking, cancelling, batch, wiping, deletions, spared>>
sweepVars == <<batch, wiping>>

User == [banned : BOOLEAN, pending : {"no", "waiting", "due"}, deleted : BOOLEAN]

(* env: the row's source; denied: a live override denies staff.manage. *)
Row == {r \in [role : {"none", "support", "manager"}, env : BOOLEAN, denied : BOOLEAN] :
          (r.role = "none" => ~r.denied) /\ (r.env => r.role = "manager")}
NoRow == [role |-> "none", env |-> FALSE, denied |-> FALSE]

(* grantingRow: an env row counts only while its person is listed. *)
Grants(u) == staff[u].role # "none" /\ (staff[u].env => u \in listed)
IsManager(u) == Grants(u) /\ staff[u].role = "manager"

(* lockActiveManagers and stillManages: those that count. *)
(* Mutant: somebody about to be deleted still counts. *)
Counts_Pending(u) == ~user[u].deleted /\ ~user[u].banned
Counts(u) == ~user[u].deleted /\ user[u].pending = "no" /\ ~user[u].banned
Counted == {u \in People : /\ IsManager(u) /\ Counts(u)
                           /\ staff[u].denied => u \in listed}

(* isLastManager. *)
IsLast(u) == Counted \subseteq {u}

-----------------------------------------------------------------------------
(* Staff changes: each one transaction under the manager lock. *)

SetRow(u, row) ==
    /\ staff' = [staff EXCEPT ![u] = row]
    /\ UNCHANGED <<listed, user, asking, cancelling, sweepVars, deletions, spared>>

(* assignRole, add. *)
AssignRole(u, role) ==
    /\ u \notin listed
    /\ Grants(u) => /\ staff[u].role # role
                    /\ ~(IsManager(u) /\ IsLast(u))
    /\ SetRow(u, [staff[u] EXCEPT !.role = role, !.env = FALSE])

(* revocableRole, revoke. *)
Revoke(u) ==
    /\ u \notin listed /\ Grants(u)
    /\ ~(IsManager(u) /\ IsLast(u))
    /\ SetRow(u, NoRow)

(* overrideRefusal, setOverride: denies staff.manage. *)
Deny(u) ==
    /\ u \notin listed /\ Grants(u)
    /\ ~(IsManager(u) /\ ~staff[u].denied /\ IsLast(u))
    /\ SetRow(u, [staff[u] EXCEPT !.denied = TRUE])

(* removeOverride, a grant in its place, or its end date. *)
Lift(u) == staff[u].denied /\ SetRow(u, [staff[u] EXCEPT !.denied = FALSE])

(* bootstrapFromEnv, when somebody listed who has no row comes by. *)
Bootstrap(u) ==
    /\ u \in listed /\ staff[u].role = "none"
    /\ ~user[u].banned /\ ~user[u].deleted
    /\ SetRow(u, [NoRow EXCEPT !.role = "manager", !.env = TRUE])

SetBan(u, banned) ==
    /\ user' = [user EXCEPT ![u].banned = banned]
    /\ UNCHANGED <<listed, staff, asking, cancelling, sweepVars, deletions, spared>>

(* banRefusal, ban. *)
Ban(u) ==
    /\ ~user[u].banned
    /\ ~((u \in listed \/ IsManager(u)) /\ IsLast(u))
    /\ SetBan(u, TRUE)

(* unban, or the end of a temporary ban. *)
Unban(u) == user[u].banned /\ SetBan(u, FALSE)

-----------------------------------------------------------------------------
(* requestAccountDeletion *)

(* loadDeletionState and the confirmation by password or code. *)
Ask(u) ==
    /\ asking[u] = "no" /\ ~user[u].deleted /\ user[u].pending = "no"
    /\ asking' = [asking EXCEPT ![u] = "asked"]
    /\ UNCHANGED <<listed, user, staff, cancelling, sweepVars, deletions, spared>>

(* refusedLastManager up to findActive: who is listed or no manager then is *)
(* let through, anybody else goes on to the lock.                           *)
LookUp(u) ==
    /\ asking[u] = "asked"
    /\ asking' = [asking EXCEPT ![u] = IF u \notin listed /\ IsManager(u) THEN "manager" ELSE "free"]
    /\ UNCHANGED <<listed, user, staff, cancelling, sweepVars, deletions, spared>>

(* The rest of the transaction.  markPendingDeletion has no condition. *)
Refused(u) == asking[u] = "manager" /\ IsLast(u)

MarkPending(u) ==
    /\ asking[u] \in {"manager", "free"}
    /\ IF Refused(u) THEN UNCHANGED <<user, spared>>
       ELSE /\ user' = [user EXCEPT ![u].pending = "waiting"]
            /\ spared' = spared \ {u}
    /\ asking' = [asking EXCEPT ![u] = "no"]
    /\ UNCHANGED <<listed, staff, cancelling, sweepVars, deletions>>

(* cancelAccountDeletion: loadDeletionState. *)
Cancel(u) ==
    /\ u \notin cancelling /\ ~user[u].deleted /\ user[u].pending # "no"
    /\ cancelling' = cancelling \cup {u}
    /\ UNCHANGED <<listed, user, staff, asking, sweepVars, deletions, spared>>

(* clearPendingDeletion has no condition either. *)
ClearPending(u) ==
    /\ u \in cancelling
    /\ user' = [user EXCEPT ![u].pending = "no"]
    /\ cancelling' = cancelling \ {u}
    /\ spared' = IF user[u].deleted \/ \E s \in Sweeps : wiping[s] = u THEN spared
                 ELSE spared \cup {u}
    /\ UNCHANGED <<listed, staff, asking, sweepVars, deletions>>

(* A failed or refused request leaves no trace. *)
GiveUp(u) ==
    /\ asking[u] # "no" \/ u \in cancelling
    /\ asking' = [asking EXCEPT ![u] = "no"]
    /\ cancelling' = cancelling \ {u}
    /\ UNCHANGED <<listed, user, staff, sweepVars, deletions, spared>>

GracePasses(u) ==
    /\ user[u].pending = "waiting"
    /\ user' = [user EXCEPT ![u].pending = "due"]
    /\ UNCHANGED <<listed, staff, asking, cancelling, sweepVars, deletions, spared>>

-----------------------------------------------------------------------------
(* processPendingDeletions *)

(* findUsersReadyForWipe. *)
FindReady(s) ==
    /\ batch[s] = {} /\ wiping[s] = Nobody
    /\ \E S \in SUBSET {u \in People : user[u].pending = "due" /\ ~user[u].deleted} :
        /\ S # {} /\ Cardinality(S) <= BatchSize
        /\ batch' = [batch EXCEPT ![s] = S]
    /\ UNCHANGED <<listed, user, staff, asking, cancelling, wiping, deletions, spared>>

(* executeAccountWipe: its own look at the person. *)
(* Mutant: the batch is taken at its word. *)
MayWipe_AsFound(u) == ~user[u].deleted
MayWipe(u) == ~user[u].deleted /\ user[u].pending = "due"

LoadForWipe(s, u) ==
    /\ u \in batch[s] /\ wiping[s] = Nobody
    /\ batch' = [batch EXCEPT ![s] = @ \ {u}]
    /\ wiping' = [wiping EXCEPT ![s] = IF MayWipe(u) THEN u ELSE Nobody]
    /\ UNCHANGED <<listed, user, staff, asking, cancelling, deletions, spared>>

(* executeWipe's condition. *)
(* Mutant: an overlapping run wipes and announces again. *)
AlreadyWiped_Never(u) == FALSE
AlreadyWiped(u) == user[u].deleted

Wiped(u) == [user[u] EXCEPT !.pending = "no", !.deleted = TRUE]

(* The transaction: anonymise, revokeStaffAccess, USER_DELETED. *)
Wipe(s) ==
    /\ wiping[s] # Nobody
    /\ LET u == wiping[s]
       IN IF AlreadyWiped(u) THEN UNCHANGED <<user, staff, deletions>>
          ELSE /\ user' = [user EXCEPT ![u] = Wiped(u)]
               /\ staff' = [staff EXCEPT ![u] = NoRow]
               /\ deletions' = [deletions EXCEPT ![u] = @ + 1]
    /\ wiping' = [wiping EXCEPT ![s] = Nobody]
    /\ UNCHANGED <<listed, asking, cancelling, batch, spared>>

(* A wipe rolled back, as when its mail cannot be queued; the run goes on. *)
WipeFails(s) ==
    /\ wiping[s] # Nobody
    /\ wiping' = [wiping EXCEPT ![s] = Nobody]
    /\ UNCHANGED <<listed, user, staff, asking, cancelling, batch, deletions, spared>>

(* Out of time between two wipes, or the process dies. *)
EndSweep(s) ==
    /\ batch[s] # {}
    /\ batch' = [batch EXCEPT ![s] = {}]
    /\ wiping' = [wiping EXCEPT ![s] = Nobody]
    /\ UNCHANGED <<listed, user, staff, asking, cancelling, deletions, spared>>

-----------------------------------------------------------------------------
Init ==
    /\ listed \in SUBSET People
    /\ user = [u \in People |-> [banned |-> FALSE, pending |-> "no", deleted |-> FALSE]]
    /\ staff \in [People -> Row] /\ Counted # {}
    /\ asking = [u \in People |-> "no"] /\ cancelling = {}
    /\ batch = [s \in Sweeps |-> {}] /\ wiping = [s \in Sweeps |-> Nobody]
    /\ deletions = [u \in People |-> 0] /\ spared = {}

Next ==
    \/ \E u \in People :
        \/ (\E role \in {"support", "manager"} : AssignRole(u, role))
        \/ Revoke(u) \/ Deny(u) \/ Lift(u) \/ Bootstrap(u) \/ Ban(u) \/ Unban(u)
        \/ Ask(u) \/ LookUp(u) \/ MarkPending(u) \/ Cancel(u) \/ ClearPending(u) \/ GiveUp(u)
        \/ GracePasses(u)
        \/ (\E s \in Sweeps : LoadForWipe(s, u))
    \/ \E s \in Sweeps : FindReady(s) \/ Wipe(s) \/ WipeFails(s) \/ EndSweep(s)

Spec == Init /\ [][Next]_vars

-----------------------------------------------------------------------------
(* Properties. *)

(* Every variable keeps its type. *)
TypeOK ==
    /\ listed \subseteq People /\ user \in [People -> User] /\ staff \in [People -> Row]
    /\ asking \in [People -> {"no", "asked", "manager", "free"}]
    /\ cancelling \subseteq People /\ spared \subseteq People
    /\ batch \in [Sweeps -> SUBSET People] /\ wiping \in [Sweeps -> People \cup {Nobody}]
    /\ deletions \in [People -> Nat]

(* docs/FEATURES.md, staff model: the last manager cannot change, be banned *)
(* or request deletion unless listed.  Whatever staff changes, bans and     *)
(* deletions interleave (isLastManager, refusedLastManager), the last one   *)
(* that counts goes only past the lock: by a deletion request let through   *)
(* as a listed person's or as no manager's, or by a wipe that was already   *)
(* under way when its person cancelled.                                     *)
Unchecked(u) ==
    \/ asking[u] = "free" /\ user[u].pending = "no" /\ user'[u].pending = "waiting"
    \/ user[u].pending = "no" /\ \E s \in Sweeps : wiping[s] = u /\ wiping'[s] = Nobody
LastManagerStays == [][Counted # {} /\ Counted' = {} => \E u \in Counted : Unchecked(u)]_vars

(* Who cancels is kept, even if sweep runs found them ready before, unless  *)
(* one had already taken its own look (executeAccountWipe).                 *)
CancelIsFinal == \A u \in spared : ~user[u].deleted

(* USER_DELETED is announced once for each wiped account and for no other,  *)
(* whichever runs overlap, fail or die (executeWipe's alreadyWiped).        *)
DeletedOnce == \A u \in People : deletions[u] = (IF user[u].deleted THEN 1 ELSE 0)

=============================================================================

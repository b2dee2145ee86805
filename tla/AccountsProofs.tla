--------------------------- MODULE AccountsProofs ---------------------------
(***************************************************************************)
(* The safety of Accounts, for any people and any number of overlapping    *)
(* deletion sweeps.                                                        *)
(***************************************************************************)
EXTENDS Accounts, TLAPS

LEMMA NoRowType == NoRow \in Row
BY DEF NoRow, Row

(* A change of one row of staff leaves everything else alone. *)
LEMMA SetRowType ==
    ASSUME TypeOK, NEW u \in People, NEW row \in Row, SetRow(u, row)
    PROVE  TypeOK'
BY DEF TypeOK, SetRow, sweepVars

(* Bans and deletion requests write one row of user and restore nobody.     *)
LEMMA UserUpdate ==
    ASSUME TypeOK, NEW u \in People,
           Ban(u) \/ Unban(u) \/ MarkPending(u) \/ ClearPending(u) \/ GracePasses(u)
    PROVE  \E w \in User : w.deleted = user[u].deleted /\ user' = [user EXCEPT ![u] = w]
<1>1. user[u] \in User
  BY DEF TypeOK
<1>2. /\ user[u].deleted = user[u].deleted /\ user = [user EXCEPT ![u] = user[u]]
  BY DEF TypeOK
<1>3. \A banned \in BOOLEAN :
        /\ [user[u] EXCEPT !.banned = banned] \in User
        /\ [user[u] EXCEPT !.banned = banned].deleted = user[u].deleted
  BY <1>1 DEF User
<1>4. \A pending \in {"no", "waiting", "due"} :
        /\ [user[u] EXCEPT !.pending = pending] \in User
        /\ [user[u] EXCEPT !.pending = pending].deleted = user[u].deleted
  BY <1>1 DEF User
<1>5. CASE Ban(u) \/ Unban(u)
  <2>1. PICK banned \in BOOLEAN : user' = [user EXCEPT ![u] = [user[u] EXCEPT !.banned = banned]]
    BY <1>5 DEF Ban, Unban, SetBan
  <2> QED
    BY <1>3, <2>1
<1>6. CASE MarkPending(u) \/ ClearPending(u) \/ GracePasses(u)
  <2>1. CASE user' = user
    BY <1>1, <1>2, <2>1
  <2>2. CASE \E pending \in {"no", "waiting", "due"} :
               user' = [user EXCEPT ![u] = [user[u] EXCEPT !.pending = pending]]
    BY <1>4, <2>2
  <2> QED
    BY <1>6, <2>1, <2>2 DEF MarkPending, ClearPending, GracePasses
<1> QED
  BY <1>5, <1>6

LEMMA TypeInit == Init => TypeOK
BY DEF Init, TypeOK, User, sweepVars

LEMMA TypeStep == TypeOK /\ [Next]_vars => TypeOK'
<1> SUFFICES ASSUME TypeOK, [Next]_vars
             PROVE  TypeOK'
  OBVIOUS
<1> USE AccountsAssumption DEF sweepVars
<1>1. ASSUME NEW u \in People, NEW role \in {"support", "manager"}, AssignRole(u, role)
      PROVE  TypeOK'
  <2>0. staff[u] \in Row
    BY DEF TypeOK
  <2>1. [staff[u] EXCEPT !.role = role, !.env = FALSE] \in Row
    BY <2>0 DEF Row
  <2> QED
    BY <1>1, <2>1, SetRowType DEF AssignRole
<1>2. ASSUME NEW u \in People, Revoke(u)
      PROVE  TypeOK'
  BY <1>2, NoRowType, SetRowType DEF Revoke
<1>3. ASSUME NEW u \in People, Deny(u)
      PROVE  TypeOK'
  <2>0. staff[u] \in Row /\ (staff[u].role # "none" \/ ~staff[u].env)
    BY <1>3 DEF TypeOK, Deny, Grants
  <2>1. [staff[u] EXCEPT !.denied = TRUE] \in Row
    BY <1>3, <2>0 DEF Row, Deny, Grants
  <2> QED
    BY <1>3, <2>1, SetRowType DEF Deny
<1>4. ASSUME NEW u \in People, Lift(u)
      PROVE  TypeOK'
  <2>1. [staff[u] EXCEPT !.denied = FALSE] \in Row
    BY <1>4 DEF TypeOK, Row, Lift
  <2> QED
    BY <1>4, <2>1, SetRowType DEF Lift
<1>5. ASSUME NEW u \in People, Bootstrap(u)
      PROVE  TypeOK'
  <2>1. [NoRow EXCEPT !.role = "manager", !.env = TRUE] \in Row
    BY DEF NoRow, Row
  <2> QED
    BY <1>5, <2>1, SetRowType DEF Bootstrap
<1>6. ASSUME NEW u \in People,
             Ban(u) \/ Unban(u) \/ MarkPending(u) \/ ClearPending(u) \/ GracePasses(u)
      PROVE  TypeOK'
  <2>1. user' \in [People -> User]
    BY <1>6, UserUpdate DEF TypeOK
  <2> QED
    BY <1>6, <2>1 DEF TypeOK, Ban, Unban, SetBan, MarkPending, ClearPending, GracePasses
<1>7. ASSUME NEW u \in People, Ask(u) \/ LookUp(u) \/ Cancel(u) \/ GiveUp(u)
      PROVE  TypeOK'
  BY <1>7 DEF TypeOK, Ask, LookUp, Cancel, GiveUp
<1>8. ASSUME NEW s \in Sweeps, FindReady(s) \/ WipeFails(s) \/ EndSweep(s)
      PROVE  TypeOK'
  BY <1>8 DEF TypeOK, FindReady, WipeFails, EndSweep
<1>9. ASSUME NEW s \in Sweeps, NEW u \in People, LoadForWipe(s, u)
       PROVE  TypeOK'
  BY <1>9 DEF TypeOK, LoadForWipe
<1>10. ASSUME NEW s \in Sweeps, Wipe(s)
       PROVE  TypeOK'
  <2>1. wiping[s] \in People /\ Wiped(wiping[s]) \in User
    <3>1. wiping[s] \in People
      BY <1>10 DEF TypeOK, Wipe
    <3>2. user[wiping[s]] \in User
      BY <3>1 DEF TypeOK
    <3>3. Wiped(wiping[s]) \in User
      BY <3>2 DEF Wiped, User
    <3> QED
      BY <3>1, <3>3
  <2>2. user' \in [People -> User] /\ staff' \in [People -> Row] /\ deletions' \in [People -> Nat]
    <3>1. \/ UNCHANGED <<user, staff, deletions>>
          \/ /\ user' = [user EXCEPT ![wiping[s]] = Wiped(wiping[s])]
             /\ staff' = [staff EXCEPT ![wiping[s]] = NoRow]
             /\ deletions' = [deletions EXCEPT ![wiping[s]] = @ + 1]
      BY <1>10 DEF Wipe
    <3> QED
      BY <2>1, <3>1, NoRowType DEF TypeOK
  <2> QED
    BY <1>10, <2>2 DEF TypeOK, Wipe
<1>11. CASE UNCHANGED vars
  BY <1>11 DEF TypeOK, vars
<1> QED
  BY <1>1, <1>2, <1>3, <1>4, <1>5, <1>6, <1>7, <1>8, <1>9, <1>10, <1>11 DEF Next

(* Every variable keeps its type; an env row is always a manager's, and     *)
(* only who has a row is denied anything.                                   *)
THEOREM TypeCorrect == Spec => []TypeOK
BY TypeInit, TypeStep, PTL DEF Spec

-----------------------------------------------------------------------------
(* USER_DELETED: the transaction of a wipe announces and marks at once, and *)
(* nobody is ever restored.                                                 *)
LEMMA DeletedStep == TypeOK /\ DeletedOnce /\ [Next]_vars => DeletedOnce'
<1> SUFFICES ASSUME TypeOK, DeletedOnce, [Next]_vars
             PROVE  DeletedOnce'
  OBVIOUS
<1>1. ASSUME NEW s \in Sweeps, Wipe(s)
      PROVE  DeletedOnce'
  <2>1. CASE AlreadyWiped(wiping[s])
    BY <1>1, <2>1 DEF Wipe, DeletedOnce
  <2>2. CASE ~AlreadyWiped(wiping[s])
    <3>1. wiping[s] \in People
      BY <1>1 DEF Wipe, TypeOK
    <3>2. /\ user' = [user EXCEPT ![wiping[s]] = Wiped(wiping[s])]
          /\ deletions' = [deletions EXCEPT ![wiping[s]] = @ + 1]
      BY <1>1, <2>2 DEF Wipe
    <3>3. Wiped(wiping[s]).deleted /\ deletions[wiping[s]] = 0
      BY <2>2, <3>1 DEF AlreadyWiped, DeletedOnce, Wiped, TypeOK, User
    <3> QED
      BY <3>1, <3>2, <3>3 DEF DeletedOnce, TypeOK
  <2> QED
    BY <2>1, <2>2
<1>2. ASSUME NEW u \in People, Ban(u) \/ Unban(u) \/ MarkPending(u) \/ ClearPending(u) \/ GracePasses(u)
      PROVE  DeletedOnce'
  <2>1. deletions' = deletions /\ \A v \in People : user'[v].deleted = user[v].deleted
    <3>1. PICK w \in User : w.deleted = user[u].deleted /\ user' = [user EXCEPT ![u] = w]
      BY <1>2, UserUpdate
    <3> QED
      BY <1>2, <3>1 DEF Ban, Unban, SetBan, MarkPending, ClearPending, GracePasses, TypeOK
  <2> QED
    BY <2>1 DEF DeletedOnce
<1>3. CASE UNCHANGED <<user, deletions>>
  BY <1>3 DEF DeletedOnce
<1> QED
  BY <1>1, <1>2, <1>3
  DEF Next, vars, sweepVars, SetRow, AssignRole, Revoke, Deny, Lift, Bootstrap, Ask, LookUp,
      Cancel, GiveUp, FindReady, LoadForWipe, WipeFails, EndSweep

-----------------------------------------------------------------------------
(* Cancellations.  Whoever is spared is not waiting for a wipe and is in no *)
(* run's hands: a run takes in hand only who is due by its own look, and    *)
(* whoever asks again is spared no longer.                                  *)
Spared(u) == ~user[u].deleted /\ user[u].pending = "no" /\ \A s \in Sweeps : wiping[s] # u
SparedInv == \A u \in spared : Spared(u)

LEMMA SparedStep == TypeOK /\ SparedInv /\ [Next]_vars => SparedInv'
<1> SUFFICES ASSUME TypeOK, SparedInv, [Next]_vars, NEW v \in spared'
             PROVE  Spared(v)'
  BY DEF SparedInv
<1> USE AccountsAssumption
<1>0. v \in spared => v \in People /\ Spared(v)
  BY DEF SparedInv, TypeOK
<1>1. ASSUME NEW u \in People, MarkPending(u)
      PROVE  Spared(v)'
  BY <1>0, <1>1 DEF MarkPending, Spared, TypeOK, sweepVars
<1>2. ASSUME NEW u \in People, ClearPending(u)
      PROVE  Spared(v)'
  <2>1. CASE v = u
    <3>1. (user[u].deleted = FALSE /\ \A s \in Sweeps : wiping[s] # u) \/ u \in spared
      BY <1>2, <2>1 DEF ClearPending, TypeOK, User
    <3> QED
      BY <1>0, <1>2, <2>1, <3>1 DEF ClearPending, Spared, TypeOK, User, sweepVars
  <2>2. CASE v # u
    BY <1>0, <1>2, <2>2 DEF ClearPending, Spared, TypeOK, sweepVars
  <2> QED
    BY <2>1, <2>2
<1>3. ASSUME NEW u \in People, Ban(u) \/ Unban(u) \/ GracePasses(u)
      PROVE  Spared(v)'
  <2>1. spared' = spared /\ wiping' = wiping
    BY <1>3 DEF Ban, Unban, SetBan, GracePasses, sweepVars
  <2>2. user'[v].deleted = user[v].deleted /\ (user[v].pending = "no" => user'[v].pending = "no")
    <3>1. v \in People /\ user[v] \in User /\ user[u] \in User
      BY <1>0, <2>1 DEF TypeOK
    <3>2. CASE v # u
      BY <1>3, <3>1, <3>2 DEF Ban, Unban, SetBan, GracePasses, TypeOK
    <3>3. CASE v = u /\ (Ban(u) \/ Unban(u))
      BY <3>1, <3>3 DEF Ban, Unban, SetBan, TypeOK, User
    <3>4. CASE v = u /\ GracePasses(u)
      BY <3>1, <3>4 DEF GracePasses, TypeOK, User
    <3> QED
      BY <1>3, <3>2, <3>3, <3>4
  <2> QED
    BY <1>0, <2>1, <2>2 DEF Spared
<1>4. ASSUME NEW s \in Sweeps, NEW u \in People, LoadForWipe(s, u)
      PROVE  Spared(v)'
  BY <1>0, <1>4 DEF LoadForWipe, MayWipe, Spared, TypeOK
<1>5. ASSUME NEW s \in Sweeps, Wipe(s)
      PROVE  Spared(v)'
  <2>1. v \in spared /\ wiping[s] \in People /\ wiping[s] # v
    BY <1>0, <1>5 DEF Wipe, Spared, TypeOK
  <2>2. user'[v] = user[v]
    BY <1>0, <1>5, <2>1 DEF Wipe, TypeOK
  <2> QED
    BY <1>0, <1>5, <2>1, <2>2 DEF Wipe, Spared, TypeOK
<1>6. ASSUME NEW s \in Sweeps, WipeFails(s) \/ EndSweep(s)
      PROVE  Spared(v)'
  BY <1>0, <1>6 DEF WipeFails, EndSweep, Spared, TypeOK
<1>7. CASE UNCHANGED <<user, wiping, spared>>
  BY <1>0, <1>7 DEF Spared
<1> QED
  BY <1>1, <1>2, <1>3, <1>4, <1>5, <1>6, <1>7
  DEF Next, vars, sweepVars, SetRow, AssignRole, Revoke, Deny, Lift, Bootstrap, Ask, LookUp,
      Cancel, GiveUp, FindReady

-----------------------------------------------------------------------------
(* The last manager.  Each step changes the standing of one person; those   *)
(* that go through the manager lock see that somebody else is left.         *)
AloneChanged(u) == \A v \in People \ {u} : v \in Counted => v \in Counted'

LEMMA OneRow ==
    ASSUME TypeOK, NEW u \in People, listed' = listed,
           \A v \in People \ {u} : user'[v] = user[v] /\ staff'[v] = staff[v]
    PROVE  AloneChanged(u)
BY DEF AloneChanged, Counted, Counts, IsManager, Grants

(* Who is not counted, or is not the last one, leaves another behind.       *)
LEMMA NotTheLast ==
    ASSUME NEW u \in People, AloneChanged(u), Counted # {}, u \notin Counted \/ ~IsLast(u)
    PROVE  Counted' # {}
<1>1. PICK v \in Counted : v # u
  BY DEF IsLast
<1>2. v \in People
  BY <1>1 DEF Counted
<1> QED
  BY <1>1, <1>2 DEF AloneChanged

LEMMA SetRowAlone ==
    ASSUME TypeOK, NEW u \in People, NEW row, SetRow(u, row)
    PROVE  AloneChanged(u)
BY OneRow DEF SetRow, TypeOK

LastManagerStep == Counted # {} /\ Counted' = {} => \E u \in Counted : Unchecked(u)

LEMMA ManagerStep == TypeOK /\ [Next]_vars => LastManagerStep
<1> SUFFICES ASSUME TypeOK, [Next]_vars, Counted # {}, Counted' = {}
             PROVE  \E u \in Counted : Unchecked(u)
  BY DEF LastManagerStep
<1> USE AccountsAssumption
<1>1. ASSUME NEW u \in People, NEW role \in {"support", "manager"}, AssignRole(u, role)
      PROVE  FALSE
  <2>1. u \notin Counted \/ ~IsLast(u)
    BY <1>1 DEF AssignRole, Counted, IsManager
  <2> QED
    BY <1>1, <2>1, SetRowAlone, NotTheLast DEF AssignRole
<1>2. ASSUME NEW u \in People, Revoke(u)
      PROVE  FALSE
  <2>1. u \notin Counted \/ ~IsLast(u)
    BY <1>2 DEF Revoke, Counted
  <2> QED
    BY <1>2, <2>1, SetRowAlone, NotTheLast DEF Revoke
<1>3. ASSUME NEW u \in People, Deny(u)
      PROVE  FALSE
  <2>1. u \notin Counted \/ ~IsLast(u)
    BY <1>3 DEF Deny, Counted
  <2> QED
    BY <1>3, <2>1, SetRowAlone, NotTheLast DEF Deny
<1>4. ASSUME NEW u \in People, Lift(u)
      PROVE  FALSE
  <2>1. u \in Counted => u \in Counted'
    BY <1>4 DEF Lift, SetRow, Counted, Counts, IsManager, Grants, TypeOK
  <2>2. AloneChanged(u)
    BY <1>4, SetRowAlone DEF Lift
  <2> QED
    BY <2>1, <2>2 DEF AloneChanged, Counted
<1>5. ASSUME NEW u \in People, Bootstrap(u)
      PROVE  FALSE
  <2>1. u \notin Counted
    BY <1>5 DEF Bootstrap, Counted, IsManager, Grants
  <2> QED
    BY <1>5, <2>1, SetRowAlone, NotTheLast DEF Bootstrap
<1>6. ASSUME NEW u \in People, Ban(u)
      PROVE  FALSE
  <2>1. AloneChanged(u)
    BY <1>6, OneRow DEF Ban, SetBan, TypeOK
  <2>2. u \notin Counted \/ ~IsLast(u)
    BY <1>6 DEF Ban, Counted
  <2> QED
    BY <2>1, <2>2, NotTheLast
<1>7. ASSUME NEW u \in People, Unban(u)
      PROVE  FALSE
  <2>1. AloneChanged(u)
    BY <1>7, OneRow DEF Unban, SetBan, TypeOK
  <2>2. u \notin Counted
    BY <1>7 DEF Unban, Counted, Counts
  <2> QED
    BY <2>1, <2>2, NotTheLast
<1>8. ASSUME NEW u \in People, MarkPending(u)
      PROVE  \E v \in Counted : Unchecked(v)
  <2>1. AloneChanged(u)
    BY <1>8, OneRow DEF MarkPending, TypeOK
  <2>2. u \in Counted /\ IsLast(u)
    BY <2>1, NotTheLast
  <2>3. asking[u] = "free"
    <3>1. CASE Refused(u)
      <4>1. Counted' = Counted
        BY <1>8, <3>1 DEF MarkPending, Counted, Counts, IsManager, Grants
      <4> QED
        BY <4>1
    <3>2. CASE ~Refused(u)
      BY <1>8, <2>2, <3>2 DEF Refused, MarkPending
    <3> QED
      BY <3>1, <3>2
  <2>4. user[u].pending = "no" /\ user'[u].pending = "waiting"
    BY <1>8, <2>2, <2>3 DEF MarkPending, Refused, Counted, Counts, TypeOK, User
  <2> QED
    BY <2>2, <2>3, <2>4 DEF Unchecked
<1>9. ASSUME NEW u \in People, ClearPending(u) \/ GracePasses(u)
      PROVE  FALSE
  <2>1. AloneChanged(u)
    BY <1>9, OneRow DEF ClearPending, GracePasses, TypeOK
  <2>2. u \in Counted => u \in Counted'
    BY <1>9 DEF ClearPending, GracePasses, Counted, Counts, IsManager, Grants, TypeOK, User
  <2> QED
    BY <2>1, <2>2 DEF AloneChanged, Counted
<1>10. ASSUME NEW s \in Sweeps, Wipe(s)
       PROVE  \E v \in Counted : Unchecked(v)
  <2> DEFINE u == wiping[s]
  <2>1. u \in People
    BY <1>10 DEF Wipe, TypeOK
  <2>2. AloneChanged(u)
    BY <1>10, <2>1, OneRow DEF Wipe, TypeOK
  <2>3. u \in Counted
    BY <2>1, <2>2, NotTheLast
  <2>4. user[u].pending = "no" /\ wiping'[s] = Nobody
    BY <1>10, <2>3 DEF Wipe, Counted, Counts, TypeOK
  <2> QED
    BY <2>3, <2>4 DEF Unchecked
<1>11. CASE UNCHANGED <<listed, user, staff>>
  <2>1. Counted' = Counted
    BY <1>11 DEF Counted, Counts, IsManager, Grants
  <2> QED
    BY <2>1
<1> QED
  BY <1>1, <1>2, <1>3, <1>4, <1>5, <1>6, <1>7, <1>8, <1>9, <1>10, <1>11
  DEF Next, vars, sweepVars, Ask, LookUp, Cancel, GiveUp, FindReady, LoadForWipe, WipeFails, EndSweep

-----------------------------------------------------------------------------
(* Whatever deletion runs overlap, fail or die, and whatever is asked or    *)
(* cancelled meanwhile, USER_DELETED is announced exactly once for each     *)
(* wiped account and for no other (executeWipe's alreadyWiped).             *)
THEOREM AnnouncedOnce == Spec => []DeletedOnce
<1>1. Init => TypeOK /\ DeletedOnce
  BY TypeInit DEF Init, DeletedOnce
<1>2. TypeOK /\ DeletedOnce /\ [Next]_vars => (TypeOK /\ DeletedOnce)'
  BY TypeStep, DeletedStep
<1> QED
  BY <1>1, <1>2, PTL DEF Spec

(* Who cancels before a run has taken its own look at them is never wiped,  *)
(* however stale the batch that run works from (executeAccountWipe).        *)
THEOREM CancelKeepsTheAccount == Spec => []CancelIsFinal
<1>1. Init => TypeOK /\ SparedInv
  BY TypeInit DEF Init, SparedInv
<1>2. TypeOK /\ SparedInv /\ [Next]_vars => (TypeOK /\ SparedInv)'
  BY TypeStep, SparedStep
<1>3. SparedInv => CancelIsFinal
  BY DEF SparedInv, Spared, CancelIsFinal
<1> QED
  BY <1>1, <1>2, <1>3, PTL DEF Spec

(* The last manager that counts is lost only past the lock, by one of the   *)
(* two ways that Unchecked names (isLastManager, refusedLastManager).       *)
THEOREM LastManagerIsKept == Spec => LastManagerStays
<1>1. TypeOK /\ [Next]_vars => [LastManagerStep]_vars
  BY ManagerStep
<1> QED
  BY <1>1, TypeCorrect, PTL DEF Spec, LastManagerStays, LastManagerStep

=============================================================================

-------------------------- MODULE UnitOfWorkProofs --------------------------
(***************************************************************************)
(* Proofs about UnitOfWork, for any services and any number of saves,      *)
(* transactions and nested runs.  The stack of scopes is a stack of        *)
(* transactions: a scope opens its own, or joins the one below it.  As     *)
(* long as nothing in a transaction has failed, the events filed under its *)
(* services and those of its open scopes are together the aggregates it    *)
(* has written.                                                            *)
(***************************************************************************)
EXTENDS UnitOfWork, SequenceTheorems, TLAPS

(* What a scope of the stack stands on. *)
StackOK ==
    \A i \in 1..Len(stack) :
        /\ stack[i].tx <= opened /\ tx[stack[i].tx].state = "open"
        /\ stack[i].kind = "nested" => i > 1 /\ stack[i].tx = stack[i - 1].tx
        /\ stack[i].kind = "outermost" => \A j \in 1..(i - 1) : stack[j].tx # stack[i].tx

(* An identifier is given out once. *)
SavedOK ==
    /\ rows \subseteq 1..saved /\ lost \subseteq 1..saved
    /\ \A t \in Txs : tx[t].rows \subseteq 1..saved

(* Nobody is answered before the end, and a failure is never forgotten. *)
TxsOK ==
    \A t \in Txs :
        /\ t > opened => tx[t] = Unused
        /\ tx[t].state = "open" => tx[t].answer = "none"
        /\ t \in failedIn => tx[t].doom # "none" /\ t <= opened

Collected(t, a) ==
    \/ \E s \in Services : a \in tx[t].pending[s]
    \/ \E i \in 1..Len(stack) : stack[i].tx = t /\ a \in stack[i].events

(* No event of an open transaction that may still commit is missing. *)
FiledOK ==
    \A t \in Txs : tx[t].state = "open" /\ tx[t].doom = "none" =>
        \A a \in Aggregates : a \in tx[t].rows /\ a \notin lost <=> Collected(t, a)

IInv ==
    /\ TypeOK /\ StackOK /\ SavedOK /\ TxsOK /\ FiledOK
    /\ RollbackStaysInside /\ FailureRollsBack /\ AnswerIsTrue /\ EventsFollowRows

-----------------------------------------------------------------------------
(* What entering and leaving a run does to the stack. *)

LEMMA Pushed ==
    ASSUME TypeOK, NEW sc \in Scope, stack' = Append(stack, sc)
    PROVE  /\ Len(stack) \in Nat /\ stack' \in Seq(Scope) /\ Len(stack') = Len(stack) + 1
           /\ \A i \in 1..Len(stack) : stack'[i] = stack[i]
           /\ stack'[Len(stack) + 1] = sc
BY DEF TypeOK

LEMMA TopOfStack ==
    ASSUME TypeOK, stack # <<>>
    PROVE  /\ Len(stack) \in Nat \ {0} /\ Top \in Scope
           /\ Top.tx \in Txs /\ Top.service \in Services /\ Top.events \subseteq Aggregates
<1>1. Len(stack) \in Nat \ {0}
  BY DEF TypeOK
<1>2. Top \in Scope
  BY <1>1 DEF TypeOK, Top
<1> QED
  BY <1>1, <1>2 DEF Scope

LEMMA ScopeTypes ==
    ASSUME TypeOK
    PROVE  /\ Len(stack) \in Nat /\ opened \in Nat /\ \A t \in Txs : t \in Nat
           /\ \A i \in 1..Len(stack) : /\ stack[i] \in Scope /\ stack[i].tx \in Txs
                                       /\ stack[i].events \subseteq Aggregates
<1>1. Len(stack) \in Nat /\ opened \in Nat /\ \A t \in Txs : t \in Nat
  BY DEF TypeOK, Txs
<1>2. \A i \in 1..Len(stack) : stack[i] \in Scope
  BY DEF TypeOK
<1> QED
  BY <1>1, <1>2 DEF Scope

LEMMA Popped ==
    ASSUME TypeOK, stack # <<>>, CloseScope
    PROVE  /\ stack' \in Seq(Scope) /\ Len(stack') = Len(stack) - 1
           /\ \A i \in 1..(Len(stack) - 1) : stack'[i] = stack[i]
<1>1. Len(stack) \in Nat \ {0}
  BY TopOfStack
<1>2. \A i \in 1..(Len(stack) - 1) : stack[i] \in Scope
  BY <1>1 DEF TypeOK
<1>3. stack' = SubSeq(stack, 1, Len(stack) - 1)
  BY DEF CloseScope
<1>4. Len(stack) - 1 \in Int /\ 1 \in Int
  BY <1>1
<1>5. /\ stack' \in Seq(Scope)
      /\ Len(stack') = IF 1 <= Len(stack) - 1 THEN Len(stack) - 1 - 1 + 1 ELSE 0
      /\ \A i \in 1..(Len(stack) - 1 - 1 + 1) : stack'[i] = stack[1 + i - 1]
  BY <1>2, <1>3, <1>4, SubSeqProperties
<1>6. Len(stack') = Len(stack) - 1
  <2>1. Len(stack') = IF 1 <= Len(stack) - 1 THEN Len(stack) - 1 - 1 + 1 ELSE 0
    BY <1>5
  <2>2. \A n \in Nat \ {0} : (IF 1 <= n - 1 THEN n - 1 - 1 + 1 ELSE 0) = n - 1
    OBVIOUS
  <2> QED
    BY <1>1, <2>1, <2>2
<1>7. ASSUME NEW i \in 1..(Len(stack) - 1)
      PROVE  stack'[i] = stack[i]
  <2>1. i \in 1..(Len(stack) - 1 - 1 + 1) /\ 1 + i - 1 = i
    BY <1>1
  <2> QED
    BY <1>5, <2>1
<1> QED
  BY <1>5, <1>6, <1>7

LEMMA TxUpdate ==
    ASSUME TypeOK, NEW t \in Txs, NEW r \in Transaction, tx' = [tx EXCEPT ![t] = r]
    PROVE  /\ tx' \in [Txs -> Transaction] /\ tx'[t] = r
           /\ \A x \in Txs : x # t => tx'[x] = tx[x]
BY DEF TypeOK

LEMMA Collects ==
    ASSUME TypeOK, stack # <<>>
    PROVE  Collect(Top.tx) \in [Services -> SUBSET Aggregates]
<1>1. tx[Top.tx].pending \in [Services -> SUBSET Aggregates]
  BY TopOfStack DEF TypeOK, Transaction
<1> QED
  BY <1>1, TopOfStack DEF Collect

-----------------------------------------------------------------------------
LEMMA Initially == Init => IInv
<1> SUFFICES ASSUME Init
             PROVE  IInv
  OBVIOUS
<1>1. Unused \in Transaction
  BY DEF Unused, Transaction
<1>2. TypeOK
  <2>1. stack \in Seq(Scope) /\ Len(stack) = 0
    BY DEF Init
  <2>2. tx \in [Txs -> Transaction]
    BY <1>1 DEF Init
  <2>3. Len(stack) <= DepthBound /\ opened \in 0..TxBound /\ saved \in 0..SaveBound
    BY <2>1, UnitOfWorkAssumption DEF Init
  <2> QED
    BY <2>1, <2>2, <2>3 DEF Init, TypeOK
<1>3. StackOK /\ SavedOK /\ TxsOK /\ FiledOK
  BY DEF Init, StackOK, SavedOK, TxsOK, FiledOK, Unused
<1>4. RollbackStaysInside /\ FailureRollsBack /\ AnswerIsTrue /\ EventsFollowRows
  BY DEF Init, RollbackStaysInside, FailureRollsBack, AnswerIsTrue, EventsFollowRows, Unused
<1> QED
  BY <1>2, <1>3, <1>4 DEF IInv

-----------------------------------------------------------------------------
(* Entering a run. *)

LEMMA OpenStep ==
    ASSUME IInv, NEW s \in Services, OpenTransaction(s), pitched = "no"
    PROVE  IInv'
<1> DEFINE t == opened + 1
           sc == [kind |-> "outermost", service |-> s, tx |-> t, events |-> {}]
<1>0. TypeOK /\ StackOK /\ SavedOK /\ TxsOK /\ FiledOK
  BY DEF IInv
<1>1. t \in Txs /\ tx[t] = Unused
  BY <1>0, UnitOfWorkAssumption DEF OpenTransaction, TypeOK, TxsOK, Txs
<1>2. [Unused EXCEPT !.state = "open"] \in Transaction
  BY DEF Unused, Transaction
<1>3. /\ tx' \in [Txs -> Transaction] /\ tx'[t] = [Unused EXCEPT !.state = "open"]
      /\ \A x \in Txs : x # t => tx'[x] = tx[x]
  BY <1>0, <1>1, <1>2, TxUpdate DEF OpenTransaction
<1>4. sc \in Scope /\ stack' = Append(stack, sc)
  BY <1>1 DEF Scope, OpenTransaction
<1>5. /\ Len(stack) \in Nat /\ stack' \in Seq(Scope) /\ Len(stack') = Len(stack) + 1
      /\ \A i \in 1..Len(stack) : stack'[i] = stack[i]
      /\ stack'[Len(stack) + 1] = sc
  BY <1>0, <1>4, Pushed
<1>6. \A i \in 1..Len(stack) : stack[i].tx \in Txs /\ stack[i].tx < t
  BY <1>0, ScopeTypes DEF StackOK
<1>7. TypeOK'
  BY <1>0, <1>3, <1>5, UnitOfWorkAssumption DEF TypeOK, OpenTransaction
<1>8. StackOK'
  <2>1. opened \in Nat /\ opened' = t
    BY <1>0 DEF OpenTransaction, TypeOK
  <2>2. ASSUME NEW i \in 1..Len(stack)
        PROVE  /\ stack'[i].tx <= opened' /\ tx'[stack'[i].tx].state = "open"
               /\ stack'[i].kind = "nested" => i > 1 /\ stack'[i].tx = stack'[i - 1].tx
               /\ stack'[i].kind = "outermost" =>
                    \A j \in 1..(i - 1) : stack'[j].tx # stack'[i].tx
    <3>1. stack'[i] = stack[i] /\ \A j \in 1..(i - 1) : stack'[j] = stack[j]
      BY <1>5
    <3>2. stack[i].tx \in Txs /\ stack[i].tx < t /\ stack[i].tx \in Nat
      BY <1>0, <1>6, ScopeTypes
    <3>3. tx'[stack[i].tx] = tx[stack[i].tx]
      BY <1>3, <3>2, <2>1
    <3>4. i > 1 => stack'[i - 1] = stack[i - 1]
      BY <3>1
    <3>5. /\ tx[stack[i].tx].state = "open"
          /\ stack[i].kind = "nested" => i > 1 /\ stack[i].tx = stack[i - 1].tx
          /\ stack[i].kind = "outermost" => \A j \in 1..(i - 1) : stack[j].tx # stack[i].tx
      BY <1>0 DEF StackOK
    <3>6. stack'[i].tx <= opened' /\ tx'[stack'[i].tx].state = "open"
      BY <2>1, <3>1, <3>2, <3>3, <3>5
    <3>7. stack'[i].kind = "nested" => i > 1 /\ stack'[i].tx = stack'[i - 1].tx
      BY <3>1, <3>4, <3>5
    <3>8. stack'[i].kind = "outermost" => \A j \in 1..(i - 1) : stack'[j].tx # stack'[i].tx
      BY <3>1, <3>5
    <3> QED
      BY <3>6, <3>7, <3>8
  <2>3. sc.kind = "outermost" /\ sc.tx = t /\ tx'[t].state = "open"
    BY <1>3 DEF Unused
  <2> QED
    BY <1>5, <1>6, <2>1, <2>2, <2>3 DEF StackOK
<1>9. SavedOK'
  BY <1>0, <1>3 DEF SavedOK, OpenTransaction, Unused
<1>10. TxsOK'
  <2>1. opened \in Nat /\ opened' = opened + 1 /\ failedIn' = failedIn /\ \A x \in Txs : x \in Int
    BY <1>0 DEF OpenTransaction, TypeOK, Txs
  <2>2. t \notin failedIn
    BY <1>0, <1>1, <2>1 DEF TxsOK
  <2>3. tx'[t].state = "open" /\ tx'[t].answer = "none" /\ t = opened'
    BY <1>3, <2>1 DEF Unused
  <2>4. ASSUME NEW x \in Txs
        PROVE  /\ x > opened' => tx'[x] = Unused
               /\ tx'[x].state = "open" => tx'[x].answer = "none"
               /\ x \in failedIn' => tx'[x].doom # "none" /\ x <= opened'
    <3>1. CASE x = t
      BY <2>1, <2>2, <2>3, <3>1
    <3>2. CASE x # t
      <4>1. tx'[x] = tx[x] /\ x \in Int
        BY <1>3, <2>1, <3>2
      <4> QED
        BY <1>0, <2>1, <3>2, <4>1 DEF TxsOK
    <3> QED
      BY <3>1, <3>2
  <2> QED
    BY <2>4 DEF TxsOK
<1>11. FiledOK'
  <2> SUFFICES ASSUME NEW x \in Txs, tx'[x].state = "open", tx'[x].doom = "none",
                      NEW a \in Aggregates
               PROVE  a \in tx'[x].rows /\ a \notin lost' <=> Collected(x, a)'
    BY DEF FiledOK
  <2>1. CASE x = t
    <3>1. tx'[x].rows = {} /\ \A y \in Services : tx'[x].pending[y] = {}
      BY <2>1, <1>3 DEF Unused
    <3>2. \A i \in 1..Len(stack') : stack'[i].tx = x => a \notin stack'[i].events
      BY <1>5, <1>6, <2>1
    <3> QED
      BY <3>1, <3>2 DEF Collected
  <2>2. CASE x # t
    <3>1. tx'[x] = tx[x] /\ lost' = lost
      BY <2>2, <1>3 DEF OpenTransaction
    <3>2. Collected(x, a)' <=> Collected(x, a)
      BY <1>5, <2>2, <3>1 DEF Collected
    <3> QED
      BY <1>0, <3>1, <3>2 DEF FiledOK
  <2> QED
    BY <2>1, <2>2
<1>12. (RollbackStaysInside /\ EventsFollowRows)'
  BY <1>5 DEF OpenTransaction, IInv, RollbackStaysInside, EventsFollowRows
<1>13. (FailureRollsBack /\ AnswerIsTrue)'
  BY <1>0, <1>3 DEF OpenTransaction, IInv, FailureRollsBack, AnswerIsTrue, Unused, TypeOK
<1> QED
  BY <1>7, <1>8, <1>9, <1>10, <1>11, <1>12, <1>13 DEF IInv

LEMMA JoinStep ==
    ASSUME IInv, NEW s \in Services, Run(s), stack # <<>>
    PROVE  IInv'
<1> DEFINE sc == [kind |-> "nested", service |-> s, tx |-> Top.tx, events |-> {}]
<1>0. TypeOK /\ StackOK /\ SavedOK /\ TxsOK /\ FiledOK
  BY DEF IInv
<1>1. sc \in Scope /\ stack' = Append(stack, sc)
  BY <1>0, TopOfStack DEF Scope, Run
<1>2. /\ UNCHANGED <<tx, opened, saved, pitched, rows, outbox, closed, lost, failedIn, unheard>>
      /\ pitched = "no"
  BY DEF Run
<1>3. /\ Len(stack) \in Nat \ {0} /\ stack' \in Seq(Scope) /\ Len(stack') = Len(stack) + 1
      /\ \A i \in 1..Len(stack) : stack'[i] = stack[i]
      /\ stack'[Len(stack) + 1] = sc
  BY <1>0, <1>1, Pushed, TopOfStack
<1>4. TypeOK'
  BY <1>0, <1>2, <1>3, UnitOfWorkAssumption DEF TypeOK, Run
<1>5. StackOK'
  BY <1>0, <1>2, <1>3 DEF StackOK, Top
<1>6. FiledOK'
  <2>1. \A x \in Txs, a \in Aggregates : Collected(x, a)' <=> Collected(x, a)
    BY <1>2, <1>3 DEF Collected
  <2> QED
    BY <1>0, <1>2, <2>1 DEF FiledOK
<1> QED
  BY <1>2, <1>3, <1>4, <1>5, <1>6 DEF IInv, SavedOK, TxsOK, RollbackStaysInside,
     FailureRollsBack, AnswerIsTrue, EventsFollowRows

-----------------------------------------------------------------------------
(* Inside the work callback. *)

LEMMA SaveStep ==
    ASSUME IInv, NEW raises \in BOOLEAN, Save(raises)
    PROVE  IInv'
<1> DEFINE a0 == saved + 1
           t0 == Top.tx
           n == Len(stack)
<1>0. TypeOK /\ StackOK /\ SavedOK /\ TxsOK /\ FiledOK
  BY DEF IInv
<1>1. stack # <<>> /\ n \in Nat \ {0} /\ t0 \in Txs /\ t0 = stack[n].tx
  BY <1>0, TopOfStack DEF Save, Running, Top
<1>2. /\ a0 \in Aggregates /\ saved \in Nat /\ saved' = a0
      /\ a0 \notin 1..saved /\ 1..saved \subseteq 1..a0 /\ a0 \in 1..a0
  BY <1>0, UnitOfWorkAssumption DEF Save, TypeOK, Aggregates
<1>3. [tx[t0] EXCEPT !.rows = @ \cup {a0}] \in Transaction
  <2>1. tx[t0] \in Transaction
    BY <1>0, <1>1 DEF TypeOK
  <2>2. tx[t0].rows \cup {a0} \subseteq Aggregates
    BY <1>2, <2>1 DEF Transaction
  <2> HIDE DEF t0, a0
  <2> QED
    BY <2>1, <2>2 DEF Transaction
<1>4. /\ tx' \in [Txs -> Transaction] /\ tx'[t0] = [tx[t0] EXCEPT !.rows = @ \cup {a0}]
      /\ \A x \in Txs : x # t0 => tx'[x] = tx[x]
  BY <1>0, <1>1, <1>3, TxUpdate DEF Save
<1>5. \A x \in Txs : /\ tx'[x].state = tx[x].state /\ tx'[x].answer = tx[x].answer
                     /\ tx'[x].doom = tx[x].doom /\ tx'[x].aborted = tx[x].aborted
                     /\ tx'[x].pending = tx[x].pending
                     /\ tx'[x].rows = IF x = t0 THEN tx[x].rows \cup {a0} ELSE tx[x].rows
  <2>1. ASSUME NEW x \in Txs, x # t0
        PROVE  tx'[x] = tx[x]
    BY <1>4, <2>1
  <2>2. tx[t0] \in Transaction
    BY <1>0, <1>1 DEF TypeOK
  <2>3. /\ tx'[t0].state = tx[t0].state /\ tx'[t0].answer = tx[t0].answer
        /\ tx'[t0].doom = tx[t0].doom /\ tx'[t0].aborted = tx[t0].aborted
        /\ tx'[t0].pending = tx[t0].pending /\ tx'[t0].rows = tx[t0].rows \cup {a0}
    BY <1>4, <2>2 DEF Transaction
  <2> HIDE DEF t0, a0
  <2> QED
    BY <2>1, <2>3
<1>6. UNCHANGED <<opened, pitched, rows, outbox, closed, failedIn, unheard>>
      /\ lost' = IF raises THEN lost ELSE lost \cup {a0}
  BY DEF Save
<1>7. /\ stack' \in Seq(Scope) /\ Len(stack') = n
      /\ \A i \in 1..n : /\ stack'[i].kind = stack[i].kind /\ stack'[i].tx = stack[i].tx
                         /\ stack'[i].events =
                              IF raises /\ i = n THEN stack[i].events \cup {a0} ELSE stack[i].events
  <2>1. CASE raises
    <3>1. stack' = [stack EXCEPT ![n].events = @ \cup {a0}]
      BY <2>1 DEF Save
    <3>2. \A i \in 1..n : stack[i] \in Scope
      BY <1>0, ScopeTypes
    <3>3. [stack[n] EXCEPT !.events = @ \cup {a0}] \in Scope
      BY <1>1, <1>2, <3>2 DEF Scope
    <3>4. stack \in Seq(Scope) /\ n \in 1..n
      BY <1>0, <1>1 DEF TypeOK
    <3>5. /\ stack' \in Seq(Scope) /\ Len(stack') = n
          /\ \A i \in 1..n : stack'[i] = IF i = n THEN [stack[n] EXCEPT !.events = @ \cup {a0}]
                                         ELSE stack[i]
      BY <3>1, <3>3, <3>4
    <3>6. /\ stack'[n].kind = stack[n].kind /\ stack'[n].tx = stack[n].tx
          /\ stack'[n].events = stack[n].events \cup {a0}
      BY <3>2, <3>4, <3>5 DEF Scope
    <3>7. \A i \in 1..n : i # n => stack'[i] = stack[i]
      BY <3>5
    <3> HIDE DEF n, a0
    <3> QED
      BY <2>1, <3>5, <3>6, <3>7
  <2>2. CASE ~raises
    BY <1>0, <2>2 DEF Save, TypeOK
  <2> QED
    BY <2>1, <2>2
<1>8. TypeOK'
  BY <1>0, <1>2, <1>4, <1>6, <1>7, UnitOfWorkAssumption DEF TypeOK, Save
<1>9. StackOK'
  <2> SUFFICES ASSUME NEW i \in 1..n
               PROVE  /\ stack'[i].tx <= opened' /\ tx'[stack'[i].tx].state = "open"
                      /\ stack'[i].kind = "nested" => i > 1 /\ stack'[i].tx = stack'[i - 1].tx
                      /\ stack'[i].kind = "outermost" =>
                           \A j \in 1..(i - 1) : stack'[j].tx # stack'[i].tx
    BY <1>7 DEF StackOK
  <2>1. stack[i].tx \in Txs /\ \A j \in 1..i : j \in 1..n
    BY <1>0, <1>1, ScopeTypes
  <2>2. stack'[i].tx = stack[i].tx /\ stack'[i].kind = stack[i].kind
    BY <1>7
  <2>3. tx'[stack[i].tx].state = tx[stack[i].tx].state /\ opened' = opened
    BY <1>5, <1>6, <2>1
  <2>4. \A j \in 1..(i - 1) : stack'[j].tx = stack[j].tx
    <3> SUFFICES ASSUME NEW j \in 1..(i - 1)
                 PROVE  stack'[j].tx = stack[j].tx
      OBVIOUS
    <3>1. j \in 1..n
      BY <1>1
    <3> QED
      BY <1>7, <3>1
  <2>5. i > 1 => i - 1 \in 1..(i - 1)
    BY <1>1
  <2>6. /\ stack[i].tx <= opened /\ tx[stack[i].tx].state = "open"
        /\ stack[i].kind = "nested" => i > 1 /\ stack[i].tx = stack[i - 1].tx
        /\ stack[i].kind = "outermost" => \A j \in 1..(i - 1) : stack[j].tx # stack[i].tx
    BY <1>0 DEF StackOK
  <2> QED
    BY <2>2, <2>3, <2>4, <2>5, <2>6
<1>10. SavedOK'
  <2>1. ASSUME NEW x \in Txs
        PROVE  tx'[x].rows \subseteq 1..saved'
    <3>1. tx[x].rows \subseteq 1..a0 /\ tx'[x].rows \subseteq tx[x].rows \cup {a0}
      BY <1>0, <1>2, <1>5 DEF SavedOK
    <3> QED
      BY <1>2, <3>1
  <2> QED
    BY <1>0, <1>2, <1>6, <2>1 DEF SavedOK
<1>11. TxsOK'
  <2>1. tx[t0] # Unused /\ t0 <= opened
    BY <1>0, <1>1 DEF StackOK, Unused
  <2>2. \A x \in Txs : x > opened => x # t0
    BY <1>0, <2>1, ScopeTypes, <1>1
  <2>3. ASSUME NEW x \in Txs
        PROVE  /\ x > opened' => tx'[x] = Unused
               /\ tx'[x].state = "open" => tx'[x].answer = "none"
               /\ x \in failedIn' => tx'[x].doom # "none" /\ x <= opened'
    <3>1. /\ x > opened => tx[x] = Unused
          /\ tx[x].state = "open" => tx[x].answer = "none"
          /\ x \in failedIn => tx[x].doom # "none" /\ x <= opened
      BY <1>0 DEF TxsOK
    <3>2. x > opened => tx'[x] = tx[x]
      BY <1>4, <2>2
    <3>3. /\ tx'[x].state = tx[x].state /\ tx'[x].answer = tx[x].answer
          /\ tx'[x].doom = tx[x].doom
      BY <1>5
    <3> QED
      BY <1>6, <3>1, <3>2, <3>3
  <2> QED
    BY <2>3 DEF TxsOK
<1>12. FiledOK'
  <2> SUFFICES ASSUME NEW x \in Txs, tx[x].state = "open", tx[x].doom = "none",
                      NEW a \in Aggregates
               PROVE  a \in tx'[x].rows /\ a \notin lost' <=> Collected(x, a)'
    BY <1>5 DEF FiledOK
  <2>1. a \in tx[x].rows /\ a \notin lost <=> Collected(x, a)
    BY <1>0 DEF FiledOK
  <2>2. Collected(x, a)' <=> Collected(x, a) \/ (raises /\ x = t0 /\ a = a0)
    <3>1. \A s \in Services : a \in tx'[x].pending[s] <=> a \in tx[x].pending[s]
      BY <1>5
    <3>2. ASSUME NEW i \in 1..n
          PROVE  stack'[i].tx = x /\ a \in stack'[i].events
                   <=> \/ stack[i].tx = x /\ a \in stack[i].events
                       \/ raises /\ i = n /\ x = t0 /\ a = a0
      BY <1>1, <1>7
    <3>3. n \in 1..n /\ Len(stack') = n
      BY <1>1, <1>7
    <3> HIDE DEF a0, t0
    <3> QED
      BY <3>1, <3>2, <3>3 DEF Collected
  <2>3. a0 \notin lost /\ \A y \in Txs : a0 \notin tx[y].rows
    BY <1>0, <1>2 DEF SavedOK
  <2>4. tx'[x].rows = IF x = t0 THEN tx[x].rows \cup {a0} ELSE tx[x].rows
    BY <1>5
  <2> HIDE DEF a0, t0
  <2> QED
    BY <1>6, <2>1, <2>2, <2>3, <2>4
<1>13. RollbackStaysInside'
  BY <1>1, <1>6, <1>7 DEF Save, Running, RollbackStaysInside
<1>14. (FailureRollsBack /\ AnswerIsTrue)'
  <2>1. failedIn \subseteq Txs /\ failedIn' = failedIn /\ unheard' = unheard
    BY <1>0, <1>6 DEF TypeOK
  <2>2. \A x \in Txs : /\ tx'[x].state = tx[x].state /\ tx'[x].answer = tx[x].answer
                       /\ tx'[x].aborted = tx[x].aborted
    BY <1>5
  <2> QED
    BY <2>1, <2>2 DEF IInv, FailureRollsBack, AnswerIsTrue
<1>15. EventsFollowRows'
  BY <1>0, <1>2, <1>6 DEF IInv, EventsFollowRows, SavedOK
<1> QED
  BY <1>8, <1>9, <1>10, <1>11, <1>12, <1>13, <1>14, <1>15 DEF IInv

LEMMA StatementFailsStep == ASSUME IInv, StatementFails
                            PROVE  IInv'
<1>0. TypeOK /\ StackOK /\ SavedOK /\ TxsOK /\ FiledOK
  BY DEF IInv
<1>1. stack # <<>> /\ Top.tx \in Txs /\ Len(stack) \in 1..Len(stack)
  BY <1>0, TopOfStack DEF StatementFails, Running
<1>2. [tx[Top.tx] EXCEPT !.aborted = TRUE] \in Transaction
  <2>1. tx[Top.tx] \in Transaction
    BY <1>0, <1>1 DEF TypeOK
  <2> QED
    BY <2>1 DEF Transaction
<1>3. /\ tx' \in [Txs -> Transaction] /\ tx'[Top.tx] = [tx[Top.tx] EXCEPT !.aborted = TRUE]
      /\ \A x \in Txs : x # Top.tx => tx'[x] = tx[x]
  BY <1>0, <1>1, <1>2, TxUpdate DEF StatementFails
<1>4. \A x \in Txs : /\ tx'[x].state = tx[x].state /\ tx'[x].answer = tx[x].answer
                     /\ tx'[x].doom = tx[x].doom /\ (tx[x].aborted => tx'[x].aborted)
                     /\ tx'[x].pending = tx[x].pending /\ tx'[x].rows = tx[x].rows
  BY <1>0, <1>3 DEF TypeOK, Transaction
<1>5. UNCHANGED <<stack, opened, saved, pitched, rows, outbox, closed, lost, failedIn, unheard>>
  BY DEF StatementFails
<1>6. TypeOK' /\ StackOK' /\ SavedOK'
  <2>1. TypeOK'
    BY <1>0, <1>3, <1>5 DEF TypeOK
  <2>2. StackOK'
    BY <1>0, <1>4, <1>5, ScopeTypes DEF StackOK
  <2> QED
    BY <1>0, <1>4, <1>5, <2>1, <2>2 DEF SavedOK
<1>7. TxsOK'
  <2>1. Top.tx <= opened
    BY <1>0, <1>1 DEF StackOK, Top
  <2>2. \A x \in Txs : x > opened => x # Top.tx
    BY <1>0, <1>1, <2>1, ScopeTypes
  <2> QED
    BY <1>0, <1>3, <1>4, <1>5, <2>2 DEF TxsOK
<1>8. FiledOK'
  <2>1. \A x \in Txs, a \in Aggregates : Collected(x, a)' <=> Collected(x, a)
    BY <1>4, <1>5 DEF Collected
  <2> QED
    BY <1>0, <1>4, <1>5, <2>1 DEF FiledOK
<1>9. (RollbackStaysInside /\ FailureRollsBack /\ AnswerIsTrue /\ EventsFollowRows)'
  BY <1>0, <1>4, <1>5 DEF IInv, RollbackStaysInside, FailureRollsBack, AnswerIsTrue,
     EventsFollowRows, Top, TypeOK
<1> QED
  BY <1>6, <1>7, <1>8, <1>9 DEF IInv

(* A late save is in no transaction, and everybody knows it has no event. *)
LEMMA LateSaveStep == ASSUME IInv, LateSave
                      PROVE  IInv'
<1>0. TypeOK /\ StackOK /\ SavedOK /\ TxsOK /\ FiledOK
  BY DEF IInv
<1>1. /\ saved + 1 \in Aggregates /\ saved \in Nat /\ saved' = saved + 1
      /\ saved + 1 \notin 1..saved /\ 1..saved \subseteq 1..saved' /\ saved + 1 \in 1..saved'
  BY <1>0, UnitOfWorkAssumption DEF LateSave, TypeOK, Aggregates
<1>2. /\ UNCHANGED <<stack, tx, opened, pitched, outbox, closed, failedIn, unheard>>
      /\ rows' = rows \cup {saved + 1} /\ lost' = lost \cup {saved + 1}
  BY DEF LateSave
<1>3. TypeOK'
  BY <1>0, <1>1, <1>2, UnitOfWorkAssumption DEF TypeOK, LateSave
<1>4. SavedOK' /\ EventsFollowRows'
  BY <1>0, <1>1, <1>2 DEF SavedOK, IInv, EventsFollowRows
<1>5. FiledOK'
  <2>1. \A x \in Txs, a \in Aggregates : Collected(x, a)' <=> Collected(x, a)
    BY <1>2 DEF Collected
  <2>2. \A x \in Txs : saved + 1 \notin tx[x].rows
    BY <1>0, <1>1 DEF SavedOK
  <2> QED
    BY <1>0, <1>2, <2>1, <2>2 DEF FiledOK
<1> QED
  BY <1>0, <1>2, <1>3, <1>4, <1>5 DEF IInv, StackOK, TxsOK, RollbackStaysInside,
     FailureRollsBack, AnswerIsTrue, Top

LEMMA SwallowStep == ASSUME IInv, Swallow
                     PROVE  IInv'
<1>1. UNCHANGED <<stack, tx, opened, saved, rows, outbox, closed, lost, failedIn, unheard>> /\ pitched' = "no"
  BY DEF Swallow
<1>2. \A x \in Txs, a \in Aggregates : Collected(x, a)' <=> Collected(x, a)
  BY <1>1 DEF Collected
<1> QED
  BY <1>1, <1>2 DEF IInv, TypeOK, StackOK, SavedOK, TxsOK, FiledOK, RollbackStaysInside,
     FailureRollsBack, AnswerIsTrue, EventsFollowRows

-----------------------------------------------------------------------------
(* Leaving a nested run: the scope below is of the same transaction. *)

LEMMA NestedTop ==
    ASSUME IInv, stack # <<>>, Top.kind = "nested", CloseScope
    PROVE  /\ Top.tx \in Txs /\ tx[Top.tx].state = "open" /\ Top.tx <= opened
           /\ stack' # <<>> /\ Top'.tx = Top.tx
<1>1. TypeOK /\ StackOK
  BY DEF IInv
<1>2. /\ Len(stack) \in Nat \ {0} /\ Len(stack) \in 1..Len(stack) /\ Top.tx \in Txs
      /\ Top = stack[Len(stack)]
  BY <1>1, TopOfStack DEF Top
<1>3. /\ Len(stack) > 1 /\ Top.tx = stack[Len(stack) - 1].tx
      /\ Top.tx <= opened /\ tx[Top.tx].state = "open"
  BY <1>1, <1>2 DEF StackOK
<1>4. /\ stack' \in Seq(Scope) /\ Len(stack') = Len(stack) - 1
      /\ \A i \in 1..(Len(stack) - 1) : stack'[i] = stack[i]
  BY <1>1, Popped
<1>5. stack' # <<>>
  BY <1>2, <1>3, <1>4
<1>6. Len(stack) - 1 \in 1..(Len(stack) - 1)
  BY <1>2, <1>3
<1>7. Top' = stack[Len(stack) - 1]
  BY <1>4, <1>6 DEF Top
<1> QED
  BY <1>2, <1>3, <1>5, <1>7

(* What a shorter stack leaves as it was. *)
LEMMA ShorterStack ==
    ASSUME IInv, stack # <<>>, CloseScope, opened' = opened,
           \A i \in 1..(Len(stack) - 1) : tx'[stack[i].tx].state = "open"
    PROVE  StackOK'
<1>1. TypeOK /\ StackOK
  BY DEF IInv
<1>2. /\ Len(stack) \in Nat \ {0} /\ Len(stack') = Len(stack) - 1
      /\ \A i \in 1..(Len(stack) - 1) : stack'[i] = stack[i]
  BY <1>1, Popped, TopOfStack
<1> SUFFICES ASSUME NEW i \in 1..(Len(stack) - 1)
             PROVE  /\ stack'[i].tx <= opened' /\ tx'[stack'[i].tx].state = "open"
                    /\ stack'[i].kind = "nested" => i > 1 /\ stack'[i].tx = stack'[i - 1].tx
                    /\ stack'[i].kind = "outermost" =>
                         \A j \in 1..(i - 1) : stack'[j].tx # stack'[i].tx
  BY <1>2 DEF StackOK
<1>3. stack'[i] = stack[i] /\ i \in 1..Len(stack)
  BY <1>2
<1>4. \A j \in 1..(i - 1) : stack'[j] = stack[j]
  BY <1>2
<1>5. i > 1 => i - 1 \in 1..(i - 1)
  BY <1>2
<1>6. /\ stack[i].tx <= opened
      /\ stack[i].kind = "nested" => i > 1 /\ stack[i].tx = stack[i - 1].tx
      /\ stack[i].kind = "outermost" => \A j \in 1..(i - 1) : stack[j].tx # stack[i].tx
  BY <1>1, <1>3 DEF StackOK
<1>7. tx'[stack[i].tx].state = "open"
  OBVIOUS
<1> QED
  BY <1>3, <1>4, <1>5, <1>6, <1>7

(* The events of the closed scope move under its service. *)
LEMMA NestedReturnsStep == ASSUME IInv, NestedReturns
                           PROVE  IInv'
<1> DEFINE t == Top.tx
           n == Len(stack)
<1>0. TypeOK /\ StackOK /\ SavedOK /\ TxsOK /\ FiledOK
  BY DEF IInv
<1>1. /\ stack # <<>> /\ Top.kind = "nested" /\ CloseScope /\ pitched = "no"
      /\ UNCHANGED <<opened, saved, pitched, rows, outbox, lost, failedIn, unheard>>
  BY DEF NestedReturns, Running
<1>2. /\ t \in Txs /\ tx[t].state = "open" /\ t <= opened /\ stack' # <<>>
      /\ n \in Nat \ {0} /\ Top = stack[n] /\ Top.service \in Services
      /\ t = stack[n].tx
  BY <1>0, <1>1, NestedTop, TopOfStack DEF Top
<1>3. /\ stack' \in Seq(Scope) /\ Len(stack') = n - 1
      /\ \A i \in 1..(n - 1) : stack'[i] = stack[i]
  BY <1>0, <1>1, Popped
<1>4. [tx[t] EXCEPT !.pending = Collect(t)] \in Transaction
  <2>1. Collect(t) \in [Services -> SUBSET Aggregates] /\ tx[t] \in Transaction
    BY <1>0, <1>1, <1>2, Collects DEF TypeOK
  <2> QED
    BY <2>1 DEF Transaction
<1>5. /\ tx' \in [Txs -> Transaction] /\ tx'[t] = [tx[t] EXCEPT !.pending = Collect(t)]
      /\ \A x \in Txs : x # t => tx'[x] = tx[x]
  BY <1>0, <1>2, <1>4, TxUpdate DEF NestedReturns
<1>6. \A x \in Txs : /\ tx'[x].state = tx[x].state /\ tx'[x].answer = tx[x].answer
                     /\ tx'[x].doom = tx[x].doom /\ tx'[x].aborted = tx[x].aborted
                     /\ tx'[x].rows = tx[x].rows
  <2>1. tx[t] \in Transaction
    BY <1>0, <1>2 DEF TypeOK
  <2>2. /\ tx'[t].state = tx[t].state /\ tx'[t].answer = tx[t].answer
        /\ tx'[t].doom = tx[t].doom /\ tx'[t].aborted = tx[t].aborted /\ tx'[t].rows = tx[t].rows
    BY <1>5, <2>1 DEF Transaction
  <2> HIDE DEF t
  <2> QED
    BY <1>5, <2>2
<1>7. TypeOK'
  <2>1. Len(stack') <= DepthBound
    BY <1>0, <1>2, <1>3, UnitOfWorkAssumption DEF TypeOK
  <2> QED
    BY <1>0, <1>1, <1>3, <1>5, <2>1 DEF TypeOK, CloseScope
<1>8. StackOK'
  <2>1. \A i \in 1..(n - 1) : stack[i].tx \in Txs /\ tx[stack[i].tx].state = "open"
    BY <1>0, <1>2, ScopeTypes DEF StackOK
  <2>2. \A i \in 1..(n - 1) : tx'[stack[i].tx].state = "open"
    BY <1>6, <2>1
  <2> QED
    BY <1>1, <2>2, ShorterStack
<1>9. SavedOK'
  BY <1>0, <1>1, <1>6 DEF SavedOK
<1>10. TxsOK'
  <2>1. \A x \in Txs : x > opened => x # t
    BY <1>0, <1>2, ScopeTypes
  <2> HIDE DEF t
  <2> QED
    BY <1>0, <1>1, <1>5, <1>6, <2>1 DEF TxsOK
<1>11. FiledOK'
  <2> SUFFICES ASSUME NEW x \in Txs, tx[x].state = "open", tx[x].doom = "none",
                      NEW a \in Aggregates
               PROVE  Collected(x, a)' <=> Collected(x, a)
    BY <1>0, <1>1, <1>6 DEF FiledOK
  <2>1. /\ Collected(x, a)' <=> \/ \E s \in Services : a \in tx'[x].pending[s]
                                \/ \E i \in 1..(n - 1) : stack[i].tx = x /\ a \in stack[i].events
    BY <1>3 DEF Collected
  <2>2. /\ Collected(x, a) <=> \/ \E s \in Services : a \in tx[x].pending[s]
                               \/ \E i \in 1..(n - 1) : stack[i].tx = x /\ a \in stack[i].events
                               \/ t = x /\ a \in Top.events
    <3>1. 1..n = 1..(n - 1) \cup {n}
      BY <1>2
    <3> QED
      BY <1>2, <3>1 DEF Collected
  <2>3. CASE x = t
    <3>1. tx[t].pending \in [Services -> SUBSET Aggregates]
      BY <1>0, <1>2 DEF TypeOK, Transaction
    <3>2. tx'[t].pending = Collect(t)
      BY <1>0, <1>2, <1>5 DEF TypeOK, Transaction
    <3>3. \A s \in Services : tx'[t].pending[s] =
            IF s = Top.service THEN tx[t].pending[s] \cup Top.events ELSE tx[t].pending[s]
      BY <1>2, <3>1, <3>2 DEF Collect
    <3> HIDE DEF t, n
    <3> QED
      BY <1>2, <2>1, <2>2, <2>3, <3>3
  <2>4. CASE x # t
    BY <1>5, <2>1, <2>2, <2>4
  <2> QED
    BY <2>3, <2>4
<1>12. (RollbackStaysInside /\ EventsFollowRows)'
  BY <1>1, <1>2 DEF IInv, RollbackStaysInside, EventsFollowRows
<1>13. (FailureRollsBack /\ AnswerIsTrue)'
  <2>1. failedIn \subseteq Txs
    BY <1>0 DEF TypeOK
  <2> QED
    BY <1>1, <1>6, <2>1 DEF IInv, FailureRollsBack, AnswerIsTrue
<1> QED
  BY <1>7, <1>8, <1>9, <1>10, <1>11, <1>12, <1>13 DEF IInv

(* A failed run dooms its transaction, in which nothing needs to be kept    *)
(* any more; its caller is of the same transaction.                         *)
LEMMA NestedFailureStep ==
    ASSUME IInv, stack # <<>>, Top.kind = "nested", CloseScope,
           NEW d \in {"none", "failed", "thrown"},
           tx' = [tx EXCEPT ![Top.tx].doom = d], d # "none", pitched' \in {"rollback", "error"},
           failedIn' = failedIn \cup {Top.tx},
           UNCHANGED <<opened, saved, rows, outbox, lost, unheard>>
    PROVE  IInv'
<1> DEFINE t == Top.tx
           n == Len(stack)
<1>0. TypeOK /\ StackOK /\ SavedOK /\ TxsOK /\ FiledOK
  BY DEF IInv
<1>1. /\ t \in Txs /\ tx[t].state = "open" /\ t <= opened /\ stack' # <<>> /\ Top'.tx = t
      /\ n \in Nat \ {0} /\ Top = stack[n] /\ t = stack[n].tx
  BY <1>0, NestedTop, TopOfStack DEF Top
<1>2. /\ stack' \in Seq(Scope) /\ Len(stack') = n - 1
      /\ \A i \in 1..(n - 1) : stack'[i] = stack[i]
  BY <1>0, Popped
<1>3. [tx[t] EXCEPT !.doom = d] \in Transaction /\ tx[t] \in Transaction
  BY <1>0, <1>1 DEF TypeOK, Transaction
<1>4. /\ tx' \in [Txs -> Transaction] /\ tx'[t] = [tx[t] EXCEPT !.doom = d]
      /\ \A x \in Txs : x # t => tx'[x] = tx[x]
  BY <1>0, <1>1, <1>3, TxUpdate
<1>5. \A x \in Txs : /\ tx'[x].state = tx[x].state /\ tx'[x].answer = tx[x].answer
                     /\ tx'[x].aborted = tx[x].aborted /\ tx'[x].rows = tx[x].rows
                     /\ tx'[x].doom = IF x = t THEN d ELSE tx[x].doom
  <2>1. /\ tx'[t].state = tx[t].state /\ tx'[t].answer = tx[t].answer
        /\ tx'[t].aborted = tx[t].aborted /\ tx'[t].rows = tx[t].rows /\ tx'[t].doom = d
    BY <1>3, <1>4 DEF Transaction
  <2>2. \A x \in Txs : x # t => tx'[x] = tx[x]
    BY <1>4
  <2> SUFFICES ASSUME NEW x \in Txs
               PROVE  /\ tx'[x].state = tx[x].state /\ tx'[x].answer = tx[x].answer
                      /\ tx'[x].aborted = tx[x].aborted /\ tx'[x].rows = tx[x].rows
                      /\ tx'[x].doom = IF x = t THEN d ELSE tx[x].doom
    OBVIOUS
  <2>3. CASE x = t
    BY <2>1, <2>3
  <2>4. CASE x # t
    <3>1. tx'[x] = tx[x]
      BY <2>2, <2>4
    <3> QED
      BY <2>4, <3>1
  <2> QED
    BY <2>3, <2>4
<1>6. TypeOK'
  <2>1. Len(stack') <= DepthBound
    BY <1>0, <1>1, <1>2, UnitOfWorkAssumption DEF TypeOK
  <2> QED
    BY <1>0, <1>1, <1>2, <1>4, <2>1 DEF TypeOK, CloseScope
<1>7. StackOK'
  <2>1. \A i \in 1..(n - 1) : stack[i].tx \in Txs /\ tx[stack[i].tx].state = "open"
    BY <1>0, <1>1, ScopeTypes DEF StackOK
  <2>2. \A i \in 1..(n - 1) : tx'[stack[i].tx].state = "open"
    BY <1>5, <2>1
  <2> QED
    BY <2>2, ShorterStack
<1>8. SavedOK'
  BY <1>0, <1>5 DEF SavedOK
<1>9. TxsOK'
  <2>1. \A x \in Txs : x > opened => x # t
    BY <1>0, <1>1, ScopeTypes
  <2> HIDE DEF t
  <2> QED
    BY <1>0, <1>1, <1>4, <1>5, <2>1 DEF TxsOK, t
<1>10. FiledOK'
  <2> SUFFICES ASSUME NEW x \in Txs, tx'[x].state = "open", tx'[x].doom = "none",
                      NEW a \in Aggregates
               PROVE  a \in tx'[x].rows /\ a \notin lost' <=> Collected(x, a)'
    BY DEF FiledOK
  <2>1. x # t /\ tx'[x] = tx[x]
    BY <1>4, <1>5
  <2>2. 1..n = 1..(n - 1) \cup {n}
    BY <1>1
  <2>3. Collected(x, a)' <=> Collected(x, a)
    BY <1>1, <1>2, <2>1, <2>2 DEF Collected
  <2> QED
    BY <1>0, <2>1, <2>3 DEF FiledOK
<1>11. (RollbackStaysInside /\ EventsFollowRows)'
  BY <1>1 DEF IInv, RollbackStaysInside, EventsFollowRows
<1>12. FailureRollsBack' /\ AnswerIsTrue'
  <2>1. failedIn' \subseteq Txs /\ \A x \in failedIn' : x \in failedIn \/ x = t
    BY <1>0, <1>1 DEF TypeOK
  <2>2. FailureRollsBack'
    BY <1>1, <1>5, <2>1 DEF IInv, FailureRollsBack
  <2>3. AnswerIsTrue'
    BY <1>5 DEF IInv, AnswerIsTrue
  <2> QED
    BY <2>2, <2>3
<1> QED
  BY <1>6, <1>7, <1>8, <1>9, <1>10, <1>11, <1>12 DEF IInv

LEMMA NestedEndsStep == ASSUME IInv, NestedFails \/ NestedThrows
                        PROVE  IInv'
<1> DEFINE t == Top.tx
<1>0. TypeOK /\ TxsOK /\ RollbackStaysInside
  BY DEF IInv
<1>1. stack # <<>> /\ t \in Txs
  BY <1>0, TopOfStack DEF NestedFails, NestedThrows, Running
<1>2. tx[t] \in Transaction /\ tx[t].doom \in {"none", "failed", "thrown"}
  BY <1>0, <1>1 DEF TypeOK, Transaction
<1>3. CASE NestedFails
  <2>1. Doom(tx[t].doom, "failed") \in {"failed", "thrown"}
    BY <1>2 DEF Doom
  <2>2. tx' = [tx EXCEPT ![t].doom = Doom(tx[t].doom, "failed")]
    BY <1>3 DEF NestedFails
  <2> QED
    BY <1>1, <1>3, <2>1, <2>2, NestedFailureStep DEF NestedFails
<1>4. CASE NestedThrows /\ pitched = "rollback"
  <2>1. tx[t].doom # "none"
    BY <1>0, <1>1, <1>4 DEF RollbackStaysInside, TxsOK
  <2>2. tx' = tx /\ [tx[t] EXCEPT !.doom = tx[t].doom] = tx[t]
    BY <1>2, <1>4 DEF NestedThrows, Transaction
  <2>3. tx' = [tx EXCEPT ![t].doom = tx[t].doom]
    BY <1>0, <1>1, <2>2 DEF TypeOK
  <2> QED
    BY <1>1, <1>2, <1>4, <2>1, <2>3, NestedFailureStep DEF NestedThrows
<1>5. CASE NestedThrows /\ pitched # "rollback"
  <2>1. Doom(tx[t].doom, "thrown") \in {"failed", "thrown"}
    BY <1>2 DEF Doom
  <2>2. tx' = [tx EXCEPT ![t].doom = Doom(tx[t].doom, "thrown")]
    BY <1>5 DEF NestedThrows
  <2> QED
    BY <1>1, <1>5, <2>1, <2>2, NestedFailureStep DEF NestedThrows
<1> QED
  BY <1>3, <1>4, <1>5

-----------------------------------------------------------------------------
(* Leaving an outermost run: nobody else on the stack is of its             *)
(* transaction, and nothing more is asked of it.                            *)

LEMMA OutermostTop ==
    ASSUME IInv, stack # <<>>, Top.kind = "outermost", CloseScope
    PROVE  /\ Top.tx \in Txs /\ tx[Top.tx] \in Transaction
           /\ tx[Top.tx].state = "open" /\ tx[Top.tx].answer = "none" /\ Top.tx <= opened
           /\ Len(stack) \in Nat \ {0} /\ Top = stack[Len(stack)]
           /\ \A i \in 1..(Len(stack) - 1) : stack[i].tx \in Txs \ {Top.tx}
           /\ stack' \in Seq(Scope) /\ Len(stack') = Len(stack) - 1
           /\ \A i \in 1..(Len(stack) - 1) : stack'[i] = stack[i]
<1>1. TypeOK /\ StackOK /\ TxsOK
  BY DEF IInv
<1>2. /\ Len(stack) \in Nat \ {0} /\ Len(stack) \in 1..Len(stack) /\ Top.tx \in Txs
      /\ Top = stack[Len(stack)]
  BY <1>1, TopOfStack DEF Top
<1>3. /\ Top.tx <= opened /\ tx[Top.tx].state = "open"
      /\ \A j \in 1..(Len(stack) - 1) : stack[j].tx # Top.tx
  BY <1>1, <1>2 DEF StackOK
<1>4. tx[Top.tx].answer = "none" /\ tx[Top.tx] \in Transaction
  BY <1>1, <1>2, <1>3 DEF TxsOK, TypeOK
<1>5. \A i \in 1..(Len(stack) - 1) : stack[i].tx \in Txs
  BY <1>1, <1>2, ScopeTypes
<1>6. /\ stack' \in Seq(Scope) /\ Len(stack') = Len(stack) - 1
      /\ \A i \in 1..(Len(stack) - 1) : stack'[i] = stack[i]
  BY <1>1, Popped
<1> QED
  BY <1>2, <1>3, <1>4, <1>5, <1>6

LEMMA OutermostEndStep ==
    ASSUME IInv, stack # <<>>, Top.kind = "outermost", CloseScope,
           NEW r \in Transaction, tx' = [tx EXCEPT ![Top.tx] = r],
           r.rows = tx[Top.tx].rows, r.doom = tx[Top.tx].doom,
           \/ r.state = "rolledback" /\ r.answer \in {"failed", "thrown"}
           \/ r.state = "rolledback" /\ r.answer = "ok" /\ r.aborted
           \/ r.state = "committed" /\ r.answer = "ok" /\ r.doom = "none"
           \/ /\ r.state = "committed" /\ r.answer = "thrown" /\ r.doom = "none"
              /\ Top.tx \in unheard',
           pitched' \in {"no", "error"}, stack' = <<>> => pitched' = "no",
           unheard' \in {unheard, unheard \cup {Top.tx}},
           UNCHANGED <<opened, saved, lost, failedIn>>,
           rows' \subseteq rows \cup tx[Top.tx].rows, outbox' = rows' \ lost
    PROVE  IInv'
<1> DEFINE t == Top.tx
           n == Len(stack)
<1>0. TypeOK /\ StackOK /\ SavedOK /\ TxsOK /\ FiledOK
  BY DEF IInv
<1>1. /\ t \in Txs /\ tx[t] \in Transaction /\ tx[t].state = "open" /\ t <= opened
      /\ n \in Nat \ {0} /\ t = stack[n].tx
      /\ \A i \in 1..(n - 1) : stack[i].tx \in Txs \ {t}
      /\ stack' \in Seq(Scope) /\ Len(stack') = n - 1
      /\ \A i \in 1..(n - 1) : stack'[i] = stack[i]
  BY OutermostTop
<1>2. /\ tx' \in [Txs -> Transaction] /\ tx'[t] = r
      /\ \A x \in Txs : x # t => tx'[x] = tx[x]
  BY <1>0, <1>1, TxUpdate
<1>3. rows' \subseteq Aggregates /\ rows' \subseteq 1..saved
  BY <1>0, <1>1 DEF TypeOK, SavedOK, Transaction
<1>4. TypeOK'
  <2>1. Len(stack') <= DepthBound
    BY <1>0, <1>1, UnitOfWorkAssumption DEF TypeOK
  <2> QED
    BY <1>0, <1>1, <1>2, <1>3, <2>1 DEF TypeOK, CloseScope
<1>5. StackOK'
  <2>1. \A i \in 1..(n - 1) : tx[stack[i].tx].state = "open"
    BY <1>0, <1>1 DEF StackOK
  <2>2. \A i \in 1..(n - 1) : tx'[stack[i].tx].state = "open"
    BY <1>1, <1>2, <2>1
  <2> QED
    BY <2>2, ShorterStack
<1>6. SavedOK'
  BY <1>0, <1>1, <1>2, <1>3 DEF SavedOK
<1>7. TxsOK'
  <2>1. \A x \in Txs : x > opened => x # t
    BY <1>0, <1>1, ScopeTypes
  <2> HIDE DEF t
  <2> QED
    BY <1>0, <1>1, <1>2, <2>1 DEF TxsOK, t
<1>8. FiledOK'
  <2> SUFFICES ASSUME NEW x \in Txs, tx'[x].state = "open", tx'[x].doom = "none",
                      NEW a \in Aggregates
               PROVE  a \in tx'[x].rows /\ a \notin lost' <=> Collected(x, a)'
    BY DEF FiledOK
  <2>1. x # t /\ tx'[x] = tx[x]
    BY <1>2
  <2>2. 1..n = 1..(n - 1) \cup {n}
    BY <1>1
  <2>3. Collected(x, a)' <=> Collected(x, a)
    BY <1>1, <2>1, <2>2 DEF Collected
  <2> QED
    BY <1>0, <2>1, <2>3 DEF FiledOK
<1>9. RollbackStaysInside' /\ EventsFollowRows'
  BY DEF RollbackStaysInside, EventsFollowRows
<1>10. FailureRollsBack'
  <2>1. failedIn \subseteq Txs /\ (t \in failedIn => r.doom # "none")
    BY <1>0, <1>1 DEF TypeOK, TxsOK
  <2>2. t \in failedIn => tx'[t].state # "committed"
    BY <1>2, <2>1
  <2> HIDE DEF t
  <2> QED
    BY <1>2, <2>1, <2>2 DEF IInv, FailureRollsBack
<1>11. AnswerIsTrue'
  <2>1. \A x \in Txs : x \in unheard => x \in unheard'
    OBVIOUS
  <2>2. t \in unheard' \/ r.state = "rolledback" \/ r.answer = "ok"
    OBVIOUS
  <2> SUFFICES ASSUME NEW x \in Txs
               PROVE  /\ tx'[x].answer = "failed" => tx'[x].state = "rolledback"
                      /\ tx'[x].answer = "thrown" => tx'[x].state = "rolledback" \/ x \in unheard'
                      /\ tx'[x].answer = "ok" => tx'[x].state = "committed" \/ tx'[x].aborted
                      /\ tx'[x].state = "committed" => tx'[x].answer = "ok" \/ x \in unheard'
    BY DEF AnswerIsTrue
  <2>3. CASE x = t
    BY <1>2, <2>2, <2>3
  <2>4. CASE x # t
    BY <1>2, <2>1, <2>4 DEF IInv, AnswerIsTrue
  <2> QED
    BY <2>3, <2>4
<1> QED
  BY <1>4, <1>5, <1>6, <1>7, <1>8, <1>9, <1>10, <1>11 DEF IInv

(* Rolled back: by its doom, its flush, its COMMIT, a failed Result or an   *)
(* exception.                                                               *)
LEMMA RollBackStep ==
    ASSUME IInv, stack # <<>>, Top.kind = "outermost", CloseScope,
           NEW answer \in {"failed", "thrown"}, RollBack(Top.tx, answer),
           UNCHANGED <<opened, saved, lost, failedIn, unheard>>
    PROVE  IInv'
<1> DEFINE t == Top.tx
           r == [tx[t] EXCEPT !.state = "rolledback", !.answer = answer]
<1>1. t \in Txs /\ tx[t] \in Transaction
  BY OutermostTop
<1>2. /\ r \in Transaction /\ r.rows = tx[t].rows /\ r.doom = tx[t].doom
      /\ r.state = "rolledback" /\ r.answer \in {"failed", "thrown"}
  BY <1>1 DEF Transaction
<1>3. tx' = [tx EXCEPT ![t] = r]
  BY <1>1 DEF RollBack, IInv, TypeOK
<1>4. pitched' = IF stack' = <<>> THEN "no" ELSE "error"
  BY DEF RollBack, Rethrown
<1>5. rows' = rows /\ outbox' = outbox /\ outbox = rows \ lost
  BY DEF RollBack, IInv, EventsFollowRows
<1> HIDE DEF r
<1> QED
  BY <1>2, <1>3, <1>4, <1>5, OutermostEndStep

(* Of the outermost scope and what was collected before: everything that    *)
(* the transaction has filed.  The COMMIT may be acknowledged or not.       *)
LEMMA CommitStep ==
    ASSUME IInv, stack # <<>>, Top.kind = "outermost", CloseScope, MayCommit(Top.tx),
           ~FlushRefuses(Collect(Top.tx)),
           NEW answer \in {"ok", "thrown"}, answer = "thrown" => Top.tx \in unheard',
           Commit(Top.tx, Collect(Top.tx), answer),
           pitched' \in {"no", "error"}, stack' = <<>> => pitched' = "no",
           unheard' \in {unheard, unheard \cup {Top.tx}},
           UNCHANGED <<opened, saved, lost, failedIn>>
    PROVE  IInv'
<1> DEFINE t == Top.tx
           n == Len(stack)
           r == [tx[t] EXCEPT !.state = "committed", !.answer = answer, !.pending = Collect(t)]
<1>0. TypeOK /\ SavedOK /\ FiledOK /\ EventsFollowRows
  BY DEF IInv
<1>1. /\ t \in Txs /\ tx[t] \in Transaction /\ tx[t].state = "open"
      /\ n \in Nat \ {0} /\ Top = stack[n]
      /\ \A i \in 1..(n - 1) : stack[i].tx # t
  BY OutermostTop
<1>2. Collect(t) \in [Services -> SUBSET Aggregates] /\ tx[t].pending \in [Services -> SUBSET Aggregates]
  BY <1>0, <1>1, Collects DEF Transaction
<1>3. /\ r \in Transaction /\ r.rows = tx[t].rows /\ r.doom = tx[t].doom
      /\ r.state = "committed" /\ r.answer = answer
  BY <1>1, <1>2 DEF Transaction
<1>4. tx' = [tx EXCEPT ![t] = r]
  BY <1>0, <1>1 DEF TypeOK, Commit
<1>5. tx[t].doom = "none"
  BY DEF MayCommit
<1>6. Flushed(Collect(t)) = tx[t].rows \ lost
  <2>1. tx[t].rows \subseteq Aggregates
    BY <1>1 DEF Transaction
  <2>2. Flushed(Collect(t)) \subseteq Aggregates
    BY <1>2 DEF Flushed, Services
  <2>3. ASSUME NEW a \in Aggregates
        PROVE  a \in Flushed(Collect(t)) <=> a \in tx[t].rows /\ a \notin lost
    <3>1. a \in Flushed(Collect(t)) <=> \E s \in Services : a \in Collect(t)[s]
      BY <1>2 DEF Flushed, FlushRefuses, Services
    <3>2. (\E s \in Services : a \in Collect(t)[s])
            <=> (\E s \in Services : a \in tx[t].pending[s]) \/ a \in Top.events
      <4>1. Top.service \in Services
        BY <1>0, TopOfStack
      <4>2. \A s \in Services : Collect(t)[s] =
              IF s = Top.service THEN tx[t].pending[s] \cup Top.events ELSE tx[t].pending[s]
        BY <1>2, <4>1 DEF Collect
      <4> HIDE DEF t
      <4> QED
        BY <4>1, <4>2
    <3>3. a \in Top.events <=> \E i \in 1..n : stack[i].tx = t /\ a \in stack[i].events
      <4>1. 1..n = 1..(n - 1) \cup {n}
        BY <1>1
      <4> QED
        BY <1>1, <4>1
    <3>4. Collected(t, a) <=> a \in tx[t].rows /\ a \notin lost
      BY <1>0, <1>1, <1>5 DEF FiledOK
    <3> QED
      BY <3>1, <3>2, <3>3, <3>4 DEF Collected
  <2> QED
    BY <2>1, <2>2, <2>3
<1>7. outbox' = rows' \ lost /\ rows' = rows \cup tx[t].rows
  BY <1>0, <1>6 DEF EventsFollowRows, Commit
<1> HIDE DEF r
<1> QED
  BY <1>3, <1>4, <1>5, <1>7, OutermostEndStep

(* A COMMIT that was refused without an error. *)
LEMMA SilentRollbackStep ==
    ASSUME IInv, stack # <<>>, Top.kind = "outermost", CloseScope, tx[Top.tx].aborted,
           tx' = [tx EXCEPT ![Top.tx].state = "rolledback", ![Top.tx].answer = "ok"],
           pitched' = "no",
           UNCHANGED <<opened, saved, lost, failedIn, unheard, rows, outbox>>
    PROVE  IInv'
<1> DEFINE t == Top.tx
           r == [tx[t] EXCEPT !.state = "rolledback", !.answer = "ok"]
<1>1. t \in Txs /\ tx[t] \in Transaction
  BY OutermostTop
<1>2. /\ r \in Transaction /\ r.rows = tx[t].rows /\ r.doom = tx[t].doom
      /\ r.state = "rolledback" /\ r.answer = "ok" /\ r.aborted
  BY <1>1 DEF Transaction
<1>3. tx' = [tx EXCEPT ![t] = r]
  BY <1>1 DEF IInv, TypeOK
<1>4. rows' = rows /\ outbox' = outbox /\ outbox = rows \ lost
  BY DEF IInv, EventsFollowRows
<1> HIDE DEF r
<1> QED
  BY <1>2, <1>3, <1>4, OutermostEndStep

LEMMA OutermostStep ==
    ASSUME IInv,
           \/ OutermostReturns \/ OutermostCommitFails \/ OutermostUnheard
           \/ OutermostFails \/ OutermostThrows
    PROVE  IInv'
<1>1. CASE OutermostCommitFails
  BY <1>1, RollBackStep DEF OutermostCommitFails, Running
<1>2. CASE OutermostFails
  BY <1>2, RollBackStep DEF OutermostFails, Running
<1>3. CASE OutermostThrows
  BY <1>3, RollBackStep DEF OutermostThrows, AnswerOf
<1>4. CASE OutermostReturns
  <2>1. /\ stack # <<>> /\ pitched = "no" /\ Top.kind = "outermost" /\ CloseScope
        /\ UNCHANGED <<opened, saved, lost, failedIn, unheard>>
    BY <1>4 DEF OutermostReturns, Running
  <2>2. tx[Top.tx].doom \in {"none", "failed", "thrown"}
    BY <2>1, OutermostTop DEF Transaction
  <2>3. CASE ~MayCommit(Top.tx)
    <3>1. RollBack(Top.tx, tx[Top.tx].doom) /\ tx[Top.tx].doom \in {"failed", "thrown"}
      BY <1>4, <2>2, <2>3 DEF OutermostReturns, MayCommit
    <3> QED
      BY <2>1, <3>1, RollBackStep
  <2>4. CASE /\ MayCommit(Top.tx)
             /\ \/ FlushRefuses(Collect(Top.tx))
                \/ tx[Top.tx].aborted /\ Flushed(Collect(Top.tx)) # {}
    <3>1. RollBack(Top.tx, "thrown")
      BY <1>4, <2>4 DEF OutermostReturns
    <3> QED
      BY <2>1, <3>1, RollBackStep
  <2>5. CASE /\ MayCommit(Top.tx) /\ ~FlushRefuses(Collect(Top.tx))
             /\ tx[Top.tx].aborted /\ Flushed(Collect(Top.tx)) = {}
    <3>1. /\ tx' = [tx EXCEPT ![Top.tx].state = "rolledback", ![Top.tx].answer = "ok"]
          /\ UNCHANGED <<pitched, rows, outbox>>
      BY <1>4, <2>5 DEF OutermostReturns
    <3> QED
      BY <2>1, <2>5, <3>1, SilentRollbackStep
  <2>6. CASE MayCommit(Top.tx) /\ ~FlushRefuses(Collect(Top.tx)) /\ ~tx[Top.tx].aborted
    <3>1. Commit(Top.tx, Collect(Top.tx), "ok") /\ UNCHANGED pitched
      BY <1>4, <2>6 DEF OutermostReturns
    <3> QED
      BY <2>1, <2>6, <3>1, CommitStep
  <2> QED
    BY <2>3, <2>4, <2>5, <2>6
<1>5. CASE OutermostUnheard
  <2>1. pitched' \in {"no", "error"} /\ (stack' = <<>> => pitched' = "no")
    BY <1>5 DEF OutermostUnheard, Rethrown
  <2>2. unheard' = unheard \cup {Top.tx}
    BY <1>5 DEF OutermostUnheard
  <2> QED
    BY <1>5, <2>1, <2>2, CommitStep DEF OutermostUnheard, Running
<1> QED
  BY <1>1, <1>2, <1>3, <1>4, <1>5

-----------------------------------------------------------------------------
LEMMA Inductive == IInv /\ [Next]_vars => IInv'
<1> SUFFICES ASSUME IInv, [Next]_vars
             PROVE  IInv'
  OBVIOUS
<1>1. ASSUME NEW s \in Services, Run(s)
      PROVE  IInv'
  <2>1. CASE stack = <<>>
    BY <1>1, <2>1, OpenStep DEF Run
  <2>2. CASE stack # <<>>
    BY <1>1, <2>2, JoinStep
  <2> QED
    BY <2>1, <2>2
<1>2. ASSUME NEW s \in Services, RunOutermost(s)
      PROVE  IInv'
  BY <1>2, OpenStep DEF RunOutermost, Running
<1>3. ASSUME NEW raises \in BOOLEAN, Save(raises)
      PROVE  IInv'
  BY <1>3, SaveStep
<1>4. CASE StatementFails
  BY <1>4, StatementFailsStep
<1>5. CASE LateSave
  BY <1>5, LateSaveStep
<1>6. CASE Swallow
  BY <1>6, SwallowStep
<1>7. CASE NestedReturns
  BY <1>7, NestedReturnsStep
<1>8. CASE NestedFails \/ NestedThrows
  BY <1>8, NestedEndsStep
<1>9. CASE \/ OutermostReturns \/ OutermostCommitFails \/ OutermostUnheard
           \/ OutermostFails \/ OutermostThrows
  BY <1>9, OutermostStep
<1>10. CASE UNCHANGED vars
  <2>1. \A x \in Txs, a \in Aggregates : Collected(x, a)' <=> Collected(x, a)
    BY <1>10 DEF Collected, vars
  <2> QED
    BY <1>10, <2>1 DEF vars, IInv, TypeOK, StackOK, SavedOK, TxsOK, FiledOK, RollbackStaysInside,
       FailureRollsBack, AnswerIsTrue, EventsFollowRows, Top
<1> QED
  BY <1>1, <1>2, <1>3, <1>4, <1>5, <1>6, <1>7, <1>8, <1>9, <1>10 DEF Next

LEMMA Invariance == Spec => []IInv
BY Initially, Inductive, PTL DEF Spec

(* Scopes, transactions and the exception in the air stay well formed. *)
THEOREM TypeCorrect == Spec => []TypeOK
BY Invariance, PTL DEF IInv

(* A write is committed exactly when its event is in the outbox: a commit   *)
(* flushes whatever is filed, which is what was written, and nothing else   *)
(* commits (complete, flush).                                               *)
THEOREM RowsHaveTheirEvents == Spec => []EventsFollowRows
BY Invariance, PTL DEF IInv

(* Who failed or threw in a transaction has doomed it, and a doomed one     *)
(* never commits (doom).                                                    *)
THEOREM FailureIsFinal == Spec => []FailureRollsBack
BY Invariance, PTL DEF IInv

(* The answer is given in the step that ends the transaction and is true of *)
(* it; only a COMMIT whose acknowledgement was lost is answered with an     *)
(* exception and has landed nevertheless (openTransaction).                 *)
THEOREM AnswersAreTrue == Spec => []AnswerIsTrue
BY Invariance, PTL DEF IInv

(* Every scope on the stack is of an open transaction: the one that ends it *)
(* is the last of them (UnitOfWorkContext.run).                             *)
THEOREM ScopesAreOpen == Spec => []NeverFinishedTransaction
<1>1. IInv => NeverFinishedTransaction
  BY DEF IInv, StackOK, NeverFinishedTransaction
<1> QED
  BY <1>1, Invariance, PTL

(* FailedResultRollback is thrown by a nested run into the run of the same  *)
(* transaction below it, and ends with the outermost one.                   *)
THEOREM MarkerStaysInside == Spec => []RollbackStaysInside
BY Invariance, PTL DEF IInv
=============================================================================

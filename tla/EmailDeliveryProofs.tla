------------------------- MODULE EmailDeliveryProofs -------------------------
(***************************************************************************)
(* Proofs about EmailDelivery, for any emails, workers and bounds.         *)
(*                                                                         *)
(* Leases: whoever holds an email has its own attempt number, and only a   *)
(* worker that claimed it dead can hold the current one of a dead row.     *)
(* Batches: a worker whose lease matches knows the batch of the row, or    *)
(* the row and the others of that batch are loose; a batch that is not     *)
(* loose is held, chunked, sent and settled in one piece.                  *)
(* Requests: two requests with an email in common that is not loose are    *)
(* the same request, and the provider takes a request once.                *)
(***************************************************************************)
EXTENDS EmailDelivery, FiniteSetTheorems, TLAPS

Holds(w, e) == e \in DOMAIN hold[w]
Current(w, e) == Unsettled(e) /\ hold[w][e].attempts = row[e].attempts

(* No two holders have the same attempt; who holds a dead row's attempt     *)
(* claimed it dead, and releasing it cannot bring an older one back.        *)
LeaseOK(w, e) ==
    /\ row[e].status # "none"
    /\ row[e].status = "pending" => hold[w][e].status = "pending"
    /\ hold[w][e].attempts <= row[e].attempts
    /\ \A v \in Workers \ {w} : Holds(v, e) => hold[v][e].attempts # hold[w][e].attempts
    /\ row[e].status = "dead" /\ hold[w][e].status = "pending" =>
         /\ hold[w][e].attempts < row[e].attempts
         /\ \A v \in Workers : Holds(v, e) /\ hold[v][e].status = "dead" =>
              hold[w][e].attempts + 1 < hold[v][e].attempts
LeasesOK == \A w \in Workers : \A e \in DOMAIN hold[w] : LeaseOK(w, e)

(* A batch is a chunk somebody pinned on its emails. *)
BatchOK(e, b) == e \in b /\ b \cap poison = {} /\ Cardinality(b) <= ChunkSize

RowOK(e) ==
    /\ row[e].batch # {} => BatchOK(e, row[e].batch)
    /\ row[e].status = "none" => row[e].batch = {}
    /\ row[e].status = "dead" => row[e].batch # {}
    /\ e \in stale => row[e].status \notin {"none", "pending"}
RowsOK == \A e \in Emails : RowOK(e)

(* What a claim read of the batch: later claims of the row read a batch if  *)
(* this one did.                                                            *)
HoldOK(w, e) ==
    /\ hold[w][e].status = "dead" => hold[w][e].batch # {}
    /\ hold[w][e].batch # {} => BatchOK(e, hold[w][e].batch) /\ row[e].batch # {}
    /\ \A v \in Workers :
         Holds(v, e) /\ hold[w][e].attempts < hold[v][e].attempts /\ hold[w][e].batch # {}
           => hold[v][e].batch # {}
HoldsOK == \A w \in Workers : \A e \in DOMAIN hold[w] : HoldOK(w, e)

(* A chunk is a claimed batch, whole, or unassigned rows of one attempt.    *)
ChunkOK(w) ==
    /\ chunk[w] \subseteq DOMAIN hold[w]
    /\ pc[w] \in {"idle", "claimed", "looping"} => chunk[w] = {}
    /\ pc[w] = "idle" => DOMAIN hold[w] = {}
    /\ Cardinality(chunk[w]) <= ChunkSize
    /\ \A e, f \in chunk[w] :
         /\ hold[w][e].batch = hold[w][f].batch
         /\ hold[w][e].batch = {} => hold[w][e].attempts = hold[w][f].attempts
    /\ \A e \in chunk[w], f \in DOMAIN hold[w] :
         hold[w][f].batch = hold[w][e].batch /\ hold[w][e].batch # {} => f \in chunk[w]
ChunksOK == \A w \in Workers : ChunkOK(w)

(* What is sent was pinned before, and what the provider took was sent.     *)
SendOK(w) ==
    /\ answer[w] # "unsent" => pc[w] = "settling"
    /\ pc[w] \in {"sending", "waiting"} \/ answer[w] # "unsent" =>
         \A e \in chunk[w] : row[e].batch # {}
    /\ pc[w] = "sending" =>
         /\ chunk[w] # {}
         /\ key[w] = chunk[w] \/ \A e \in chunk[w] : hold[w][e].batch = key[w]
    /\ answer[w] = "ok" => \A e \in chunk[w] \ refused[w] : delivered[e] > 0
SendsOK == \A w \in Workers : SendOK(w)

-----------------------------------------------------------------------------
(* Types. *)

LEMMA RowTypes ==
    ASSUME TypeOK, NEW e \in Emails
    PROVE  /\ row[e] \in Row /\ row[e].attempts \in Nat /\ row[e].batch \in SUBSET Emails
           /\ row[e].status \in {"none", "pending", "sent", "failed", "dead"}
           /\ delivered[e] \in Nat /\ announced[e] \in Nat
<1>1. row[e] \in Row
  BY DEF TypeOK
<1> QED
  BY <1>1, EmailAssumption DEF Row, TypeOK

LEMMA HoldTypes ==
    ASSUME TypeOK, NEW w \in Workers, NEW e \in DOMAIN hold[w]
    PROVE  /\ e \in Emails /\ hold[w][e] \in Job
           /\ hold[w][e].attempts \in 1..AttemptBound /\ hold[w][e].attempts \in Nat \ {0}
           /\ hold[w][e].status \in {"pending", "dead"}
           /\ hold[w][e].batch \in SUBSET Emails /\ hold[w][e].unsettled \in Nat
<1>1. e \in Emails /\ hold[w][e] \in Job
  BY DEF TypeOK
<1> QED
  BY <1>1, EmailAssumption DEF Job

LEMMA FaultTypes ==
    ASSUME TypeOK, UNCHANGED faults \/ Fault
    PROVE  faults' \in 0..FaultBound
BY EmailAssumption DEF TypeOK, Fault

LEMMA EmailsFinite == /\ IsFiniteSet(Emails)
                      /\ \A S \in SUBSET Emails : IsFiniteSet(S) /\ Cardinality(S) \in Nat
<1>1. IsFiniteSet(Emails)
  BY EmailAssumption, FS_Interval DEF Emails
<1>2. \A S \in SUBSET Emails : IsFiniteSet(S)
  BY <1>1, FS_Subset
<1> QED
  BY <1>1, <1>2, FS_CardinalityType

(* A worker drops some of its rows, or all of them. *)
Drops(w, S) ==
    /\ DOMAIN hold' = Workers
    /\ \A v \in Workers : v # w => hold'[v] = hold[v]
    /\ DOMAIN hold'[w] = DOMAIN hold[w] \ S
    /\ \A e \in DOMAIN hold'[w] : hold'[w][e] = hold[w][e]
    /\ hold'[w] \in [DOMAIN hold[w] \ S -> Job]

LEMMA Dropping ==
    ASSUME TypeOK, NEW w \in Workers, NEW S, hold' = [hold EXCEPT ![w] = Drop(w, S)]
    PROVE  Drops(w, S)
<1>1. hold[w] \in [DOMAIN hold[w] -> Job]
  BY DEF TypeOK
<1>2. hold'[w] = Drop(w, S) /\ DOMAIN hold' = Workers /\ \A v \in Workers : v # w => hold'[v] = hold[v]
  BY DEF TypeOK
<1>3. /\ DOMAIN Drop(w, S) = DOMAIN hold[w] \ S
      /\ \A e \in DOMAIN hold[w] \ S : Drop(w, S)[e] = hold[w][e]
      /\ Drop(w, S) \in [DOMAIN hold[w] \ S -> Job]
  BY <1>1 DEF Drop
<1> QED
  BY <1>2, <1>3 DEF Drops

LEMMA Forgetting ==
    ASSUME TypeOK, NEW w \in Workers, hold' = [hold EXCEPT ![w] = NoHold]
    PROVE  Drops(w, DOMAIN hold[w])
<1>1. hold'[w] = NoHold /\ DOMAIN hold' = Workers /\ \A v \in Workers : v # w => hold'[v] = hold[v]
  BY DEF TypeOK
<1>2. DOMAIN NoHold = {} /\ NoHold \in [{} -> Job] /\ DOMAIN hold[w] \ DOMAIN hold[w] = {}
  BY DEF NoHold
<1> QED
  BY <1>1, <1>2 DEF Drops

LEMMA DroppedTypes ==
    ASSUME TypeOK, NEW w \in Workers, NEW S, Drops(w, S)
    PROVE  /\ DOMAIN hold' = Workers
           /\ \A v \in Workers : /\ DOMAIN hold'[v] \subseteq Emails
                                 /\ hold'[v] \in [DOMAIN hold'[v] -> Job]
<1>1. hold'[w] \in [DOMAIN hold'[w] -> Job] /\ DOMAIN hold'[w] \subseteq Emails
  BY DEF Drops, TypeOK
<1> QED
  BY <1>1 DEF Drops, TypeOK

-----------------------------------------------------------------------------
(* What releases and settles do to a row. *)

RowSame(e) ==
    /\ row'[e].status = row[e].status /\ row'[e].attempts = row[e].attempts
    /\ row'[e].batch = row[e].batch

(* Everybody of the batch of e that is not settled is loose now. *)
BatchLoosened(e) ==
    \A f \in Emails :
      row'[f].status \in {"pending", "dead"} /\ row[f].batch = row[e].batch /\ row[f].batch # {}
        => f \in loose'

ReleasedRow(w, e) ==
    /\ Holds(w, e) /\ Current(w, e)
    /\ row'[e].status = row[e].status /\ row'[e].batch = row[e].batch
    /\ row'[e].attempts = row[e].attempts - 1
    /\ \A v \in Workers \ {w} : Holds(v, e) /\ hold[v][e].attempts = row[e].attempts - 1
         => e \in loose' /\ BatchLoosened(e)

SettledRow(w, e) ==
    /\ Holds(w, e) /\ Current(w, e)
    /\ row'[e].attempts = row[e].attempts /\ row'[e].batch = row[e].batch
    /\ row'[e].status \in {"pending", "dead", "sent", "failed"}
    /\ row'[e].status = "pending" => hold[w][e].status = "pending"
    /\ row'[e].status = "dead" => row[e].batch # {}
    /\ row'[e].status \in {"sent", "failed"} => BatchLoosened(e)
    /\ row'[e].status = "sent" => delivered[e] > 0

(* The types of what a write of rows changes. *)
WriteTypes == row' \in [Emails -> Row] /\ loose \subseteq loose' /\ loose' \in SUBSET Emails

LEMMA ReleaseRows ==
    ASSUME TypeOK, NEW w \in Workers, NEW S \in SUBSET DOMAIN hold[w], NEW due \in BOOLEAN,
           Release(w, S, due)
    PROVE  /\ WriteTypes /\ (UNCHANGED faults \/ Fault)
           /\ \A e \in Emails : RowSame(e) \/ (e \in S /\ ReleasedRow(w, e))
<1>1. CASE S # {} /\ Fault /\ UNCHANGED <<row, loose>>
  BY <1>1 DEF WriteTypes, RowSame, TypeOK
<1>2. CASE /\ row' = [e \in Emails |-> IF e \in Leased(w, S)
                                     THEN [row[e] EXCEPT !.attempts = @ - 1, !.due = due]
                                     ELSE row[e]]
           /\ loose' = loose \cup Revived(w, S) \cup LeftBehind(Revived(w, S))
           /\ UNCHANGED faults
  <2>1. loose \subseteq loose' /\ loose' \in SUBSET Emails
    <3>1. Revived(w, S) \subseteq Emails /\ LeftBehind(Revived(w, S)) \subseteq Emails
      BY HoldTypes DEF Revived, Leased, LeftBehind
    <3> QED
      BY <1>2, <3>1 DEF TypeOK
  <2>2. ASSUME NEW e \in Emails, e \notin Leased(w, S)
        PROVE  row'[e] \in Row /\ RowSame(e)
    BY <1>2, <2>2, RowTypes DEF RowSame
  <2>3. ASSUME NEW e \in Emails, e \in Leased(w, S)
        PROVE  row'[e] \in Row /\ e \in S /\ ReleasedRow(w, e)
    <3>1. e \in S /\ Holds(w, e) /\ Current(w, e)
      BY <2>3 DEF Leased, Holds, Current
    <3>2. row[e] \in Row /\ row[e].attempts \in Nat \ {0}
      BY <3>1, RowTypes, HoldTypes DEF Current, Holds
    <3>3. row'[e] = [row[e] EXCEPT !.attempts = @ - 1, !.due = due]
      BY <1>2, <2>3
    <3>4. /\ row'[e].status = row[e].status /\ row'[e].batch = row[e].batch
          /\ row'[e].attempts = row[e].attempts - 1
      BY <3>2, <3>3 DEF Row
    <3>5. row'[e] \in Row
      <4>1. row[e].attempts - 1 \in 0..AttemptBound
        BY <3>2, EmailAssumption DEF Row
      <4> QED
        BY <3>2, <3>3, <4>1 DEF Row
    <3>6. ASSUME NEW v \in Workers \ {w}, Holds(v, e), hold[v][e].attempts = row[e].attempts - 1
          PROVE  e \in loose' /\ BatchLoosened(e)
      <4>1. e \in Revived(w, S)
        BY <2>3, <3>6 DEF Revived, Holds
      <4>2. e \in loose'
        BY <1>2, <4>1
      <4>3. ASSUME NEW f \in Emails, row'[f].status \in {"pending", "dead"},
                   row[f].batch = row[e].batch, row[f].batch # {}
            PROVE  f \in loose'
        <5>1. row'[f].status = row[f].status
          <6>1. row[f] \in Row /\ row'[f] \in {row[f], [row[f] EXCEPT !.attempts = @ - 1, !.due = due]}
            BY <1>2, RowTypes
          <6> QED
            BY <6>1 DEF Row
        <5>2. f \in Revived(w, S) \/ f \in LeftBehind(Revived(w, S))
          BY <4>1, <4>3, <5>1 DEF LeftBehind, Unsettled, Siblings
        <5> QED
          BY <1>2, <5>2
      <4> QED
        BY <4>2, <4>3 DEF BatchLoosened
    <3> QED
      BY <3>1, <3>4, <3>5, <3>6 DEF ReleasedRow
  <2>4. row' \in [Emails -> Row]
    <3>1. \A e \in Emails : row'[e] \in Row
      BY <2>2, <2>3
    <3>2. row' = [e \in Emails |-> row'[e]]
      BY <1>2
    <3> QED
      BY <3>1, <3>2
  <2> QED
    BY <1>2, <2>1, <2>2, <2>3, <2>4 DEF WriteTypes
<1> QED
  BY <1>1, <1>2 DEF Release

(* What a settle has to know of the rows it writes. *)
MaySettle(w, S, to) ==
    \A e \in Leased(w, S) : /\ to = "pending" => hold[w][e].status = "pending"
                            /\ to = "dead" => row[e].batch # {}
                            /\ to = "sent" => delivered[e] > 0

SetsStatus(w, S, to) ==
    row' = [e \in Emails |-> IF e \in Leased(w, S)
                               THEN [row[e] EXCEPT !.status = to, !.due = FALSE] ELSE row[e]]

LEMMA SettleRows ==
    ASSUME TypeOK, NEW w \in Workers, NEW S \in SUBSET DOMAIN hold[w],
           NEW to \in {"pending", "dead", "sent", "failed"}, MaySettle(w, S, to),
           SetsStatus(w, S, to),
           loose' = loose \cup (IF to \in {"sent", "failed"} THEN LeftBehind(Leased(w, S)) ELSE {})
    PROVE  /\ WriteTypes
           /\ \A e \in Emails : RowSame(e) \/ (e \in S /\ SettledRow(w, e))
           /\ \A e \in Emails : row'[e].status = IF e \in Leased(w, S) THEN to ELSE row[e].status
<1>1. loose \subseteq loose' /\ loose' \in SUBSET Emails
  <2>1. LeftBehind(Leased(w, S)) \subseteq Emails
    BY DEF LeftBehind
  <2> QED
    BY <2>1 DEF TypeOK
<1>2. ASSUME NEW e \in Emails, e \notin Leased(w, S)
      PROVE  row'[e] \in Row /\ RowSame(e)
  BY <1>2, RowTypes DEF RowSame, SetsStatus
<1>3. ASSUME NEW e \in Emails, e \in Leased(w, S)
      PROVE  row'[e] \in Row /\ e \in S /\ SettledRow(w, e) /\ row'[e].status = to
  <2>1. e \in S /\ Holds(w, e) /\ Current(w, e)
    BY <1>3 DEF Leased, Holds, Current
  <2>2. row[e] \in Row /\ row'[e] = [row[e] EXCEPT !.status = to, !.due = FALSE]
    BY <1>3, RowTypes DEF SetsStatus
  <2>3. /\ row'[e] \in Row /\ row'[e].status = to
        /\ row'[e].batch = row[e].batch /\ row'[e].attempts = row[e].attempts
    BY <2>2 DEF Row
  <2>4. to \in {"sent", "failed"} => BatchLoosened(e)
    <3> SUFFICES ASSUME to \in {"sent", "failed"}, NEW f \in Emails,
                        row'[f].status \in {"pending", "dead"},
                        row[f].batch = row[e].batch, row[f].batch # {}
                 PROVE  f \in loose'
      BY DEF BatchLoosened
    <3>1. f \notin Leased(w, S)
      <4>1. ASSUME f \in Leased(w, S)
            PROVE  row'[f].status = to
        <5>1. row[f] \in Row /\ row'[f] = [row[f] EXCEPT !.status = to, !.due = FALSE]
          BY <4>1, RowTypes DEF SetsStatus
        <5> QED
          BY <5>1 DEF Row
      <4> QED
        BY <4>1
    <3>2. row'[f].status = row[f].status
      BY <1>2, <3>1 DEF RowSame
    <3>3. f \in LeftBehind(Leased(w, S))
      BY <1>3, <3>1, <3>2 DEF LeftBehind, Unsettled, Siblings
    <3> QED
      BY <3>3
  <2> QED
    BY <1>3, <2>1, <2>3, <2>4 DEF SettledRow, MaySettle
<1>4. row' \in [Emails -> Row]
  <2>1. \A e \in Emails : row'[e] \in Row
    BY <1>2, <1>3
  <2>2. row' = [e \in Emails |-> row'[e]]
    BY DEF SetsStatus
  <2> QED
    BY <2>1, <2>2
<1>5. \A e \in Emails : row'[e].status = IF e \in Leased(w, S) THEN to ELSE row[e].status
  BY <1>2, <1>3 DEF RowSame
<1> QED
  BY <1>1, <1>2, <1>3, <1>4, <1>5 DEF WriteTypes

LEMMA FailureRows ==
    ASSUME TypeOK, NEW w \in Workers, NEW S \in SUBSET DOMAIN hold[w],
           NEW to \in {"pending", "dead", "failed"}, MaySettle(w, S, to), SettleFailures(w, S, to)
    PROVE  /\ WriteTypes /\ (UNCHANGED faults \/ Fault) /\ announced' \in [Emails -> Nat]
           /\ \A e \in Emails : RowSame(e) \/ (e \in S /\ SettledRow(w, e))
<1>1. CASE Fault /\ UNCHANGED <<row, announced, loose>>
  BY <1>1 DEF WriteTypes, RowSame, TypeOK
<1>2. CASE /\ row' = [e \in Emails |-> IF e \in Leased(w, S)
                                     THEN [row[e] EXCEPT !.status = to, !.due = FALSE]
                                     ELSE row[e]]
           /\ announced' = [e \in Emails |->
                IF to # "pending" /\ Announces(w, S, e) THEN announced[e] + 1 ELSE announced[e]]
           /\ loose' = IF to = "failed" THEN loose \cup LeftBehind(Leased(w, S)) ELSE loose
           /\ UNCHANGED faults
  <2>1. loose' = loose \cup (IF to \in {"sent", "failed"} THEN LeftBehind(Leased(w, S)) ELSE {})
    BY <1>2
  <2>2. announced' \in [Emails -> Nat]
    <3>1. announced \in [Emails -> Nat]
      BY DEF TypeOK
    <3>2. \A e \in Emails : announced'[e] \in {announced[e], announced[e] + 1}
      BY <1>2
    <3>3. announced' = [e \in Emails |-> announced'[e]]
      BY <1>2
    <3> QED
      BY <3>1, <3>2, <3>3
  <2>3. SetsStatus(w, S, to)
    BY <1>2 DEF SetsStatus
  <2>4. WriteTypes /\ \A e \in Emails : RowSame(e) \/ (e \in S /\ SettledRow(w, e))
    BY <2>1, <2>3, SettleRows
  <2> QED
    BY <1>2, <2>2, <2>4
<1> QED
  BY <1>1, <1>2 DEF SettleFailures

-----------------------------------------------------------------------------
(* The steps of a worker that only let go of rows. *)

(* The worker w lets go of S, and writes no other row than those. *)
Writes(w, S) ==
    /\ Drops(w, S) /\ WriteTypes /\ UNCHANGED <<stale, poison>> /\ (UNCHANGED faults \/ Fault)
    /\ \A e \in Emails : \/ RowSame(e)
                         \/ e \in S /\ (ReleasedRow(w, e) \/ SettledRow(w, e))

Base == TypeOK /\ LeasesOK /\ ChunksOK /\ SendsOK

LEMMA ReleaseWrites ==
    ASSUME Base, NEW w \in Workers, NEW S \in SUBSET DOMAIN hold[w], NEW due \in BOOLEAN,
           Release(w, S, due), hold' = [hold EXCEPT ![w] = Drop(w, S)], UNCHANGED <<stale, poison>>
    PROVE  Writes(w, S)
<1>1. Drops(w, S)
  BY Dropping DEF Base
<1> QED
  BY <1>1, ReleaseRows DEF Base, Writes

LEMMA FailureWrites ==
    ASSUME Base, NEW w \in Workers, NEW S \in SUBSET DOMAIN hold[w],
           NEW to \in {"pending", "dead", "failed"}, MaySettle(w, S, to), SettleFailures(w, S, to),
           hold' = [hold EXCEPT ![w] = Drop(w, S)], UNCHANGED <<stale, poison>>
    PROVE  Writes(w, S) /\ announced' \in [Emails -> Nat]
<1>1. Drops(w, S)
  BY Dropping DEF Base
<1> QED
  BY <1>1, FailureRows DEF Base, Writes

LEMMA ReleasingIncomplete ==
    ASSUME Base, NEW w \in Workers, ReleaseIncomplete(w)
    PROVE  Writes(w, {e \in DOMAIN hold[w] : ~IsWholeBatch(w, Group(w, e))})
<1> DEFINE S == {e \in DOMAIN hold[w] : ~IsWholeBatch(w, Group(w, e))}
<1>1. /\ Release(w, S, TRUE) /\ hold' = [hold EXCEPT ![w] = Drop(w, S)]
      /\ UNCHANGED <<stale, poison>> /\ S \in SUBSET DOMAIN hold[w]
  BY DEF ReleaseIncomplete
<1> HIDE DEF S
<1>2. Writes(w, S)
  BY <1>1, ReleaseWrites
<1> QED
  BY <1>2 DEF S

LEMMA ReleasingRest ==
    ASSUME Base, NEW w \in Workers, ReleaseRest(w)
    PROVE  Writes(w, DOMAIN hold[w])
<1>1. Release(w, DOMAIN hold[w], TRUE) /\ UNCHANGED <<stale, poison>>
  BY DEF ReleaseRest
<1>2. Drops(w, DOMAIN hold[w])
  BY Forgetting DEF Base, ReleaseRest
<1> QED
  BY <1>1, <1>2, ReleaseRows DEF Base, Writes

LEMMA ReleasingChunk ==
    ASSUME Base, NEW w \in Workers, ReleaseChunk(w)
    PROVE  Writes(w, chunk[w])
<1>1. /\ Release(w, chunk[w], answer[w] = "unsent") /\ UNCHANGED <<stale, poison>>
      /\ hold' = [hold EXCEPT ![w] = Drop(w, chunk[w])]
  BY DEF ReleaseChunk, ChunkDone
<1>2. chunk[w] \in SUBSET DOMAIN hold[w]
  BY DEF Base, ChunksOK, ChunkOK
<1>3. (answer[w] = "unsent") \in BOOLEAN
  OBVIOUS
<1> QED
  BY <1>1, <1>2, <1>3, ReleaseWrites

(* A refused or poisoned email fails alone, a rejected chunk as a whole. *)
LEMMA OneFails ==
    ASSUME Base, NEW w \in Workers, NEW e \in Emails, RenderFails(w, e) \/ SettleRefused(w, e)
    PROVE  /\ {e} \in SUBSET DOMAIN hold[w]
           /\ MaySettle(w, {e}, "failed") /\ SettleFailures(w, {e}, "failed")
<1>1. SettleFailures(w, {e}, "failed")
  BY DEF RenderFails, SettleRefused
<1>2. {e} \in SUBSET DOMAIN hold[w]
  BY DEF Base, ChunksOK, ChunkOK, RenderFails, SettleRefused, Refusals
<1>3. MaySettle(w, {e}, "failed")
  BY DEF MaySettle
<1> QED
  BY <1>1, <1>2, <1>3

LEMMA FailingOne ==
    ASSUME Base, NEW w \in Workers, NEW e \in Emails, RenderFails(w, e) \/ SettleRefused(w, e)
    PROVE  Writes(w, {e}) /\ announced' \in [Emails -> Nat]
<1>1. UNCHANGED <<stale, poison>> /\ hold' = [hold EXCEPT ![w] = Drop(w, {e})]
  BY DEF RenderFails, SettleRefused
<1> QED
  BY <1>1, OneFails, FailureWrites

LEMMA ChunkFails ==
    ASSUME Base, NEW w \in Workers, SettleRejected(w)
    PROVE  /\ chunk[w] \in SUBSET DOMAIN hold[w]
           /\ \E to \in {"pending", "dead", "failed"} :
                MaySettle(w, chunk[w], to) /\ SettleFailures(w, chunk[w], to)
<1>1. chunk[w] \in SUBSET DOMAIN hold[w]
  BY DEF Base, ChunksOK, ChunkOK
<1>2. CASE answer[w] = "rejected"
  BY <1>1, <1>2 DEF SettleRejected, MaySettle
<1>3. CASE answer[w] = "retryable" /\ Dead(w)
  <2>1. SettleFailures(w, chunk[w], "dead")
    BY <1>3 DEF SettleRejected
  <2>2. \A e \in chunk[w] : row[e].batch # {}
    BY <1>3 DEF Base, SendsOK, SendOK
  <2>3. MaySettle(w, chunk[w], "dead")
    BY <2>2 DEF MaySettle, Leased
  <2> QED
    BY <1>1, <2>1, <2>3
<1>4. CASE answer[w] = "retryable" /\ ~Dead(w)
  <2>1. SettleFailures(w, chunk[w], "pending")
    BY <1>4 DEF SettleRejected
  <2>2. \A e \in chunk[w] : hold[w][e].status = "pending"
    BY <1>1, <1>4, HoldTypes DEF Base, Dead
  <2>3. MaySettle(w, chunk[w], "pending")
    BY <2>2 DEF MaySettle, Leased
  <2> QED
    BY <1>1, <2>1, <2>3
<1> QED
  BY <1>2, <1>3, <1>4 DEF SettleRejected

LEMMA Rejecting ==
    ASSUME Base, NEW w \in Workers, SettleRejected(w)
    PROVE  Writes(w, chunk[w]) /\ announced' \in [Emails -> Nat]
<1>1. UNCHANGED <<stale, poison>> /\ hold' = [hold EXCEPT ![w] = Drop(w, chunk[w])]
  BY DEF SettleRejected, ChunkDone
<1> QED
  BY <1>1, ChunkFails, FailureWrites

LEMMA SendingDone ==
    ASSUME Base, NEW w \in Workers, MarkSent(w)
    PROVE  chunk[w] \in SUBSET DOMAIN hold[w] /\ MaySettle(w, chunk[w], "sent")
<1>1. chunk[w] \in SUBSET DOMAIN hold[w]
  BY DEF Base, ChunksOK, ChunkOK
<1>2. \A e \in chunk[w] : delivered[e] > 0
  BY DEF Base, SendsOK, SendOK, MarkSent, Refusals
<1> QED
  BY <1>1, <1>2 DEF MaySettle, Leased

LEMMA MarkingSent ==
    ASSUME Base, NEW w \in Workers, MarkSent(w)
    PROVE  Writes(w, chunk[w])
<1>1. /\ UNCHANGED <<stale, poison>> /\ Drops(w, chunk[w])
  BY Dropping DEF Base, MarkSent, ChunkDone
<1>2. chunk[w] \in SUBSET DOMAIN hold[w] /\ MaySettle(w, chunk[w], "sent")
  BY SendingDone
<1>3. CASE Fault /\ UNCHANGED <<row, loose>>
  <2>1. WriteTypes /\ \A e \in Emails : RowSame(e)
    BY <1>3 DEF WriteTypes, RowSame, Base, TypeOK
  <2> QED
    BY <1>1, <1>3, <2>1 DEF Writes
<1>4. CASE /\ row' = [e \in Emails |-> IF e \in Leased(w, chunk[w])
                                        THEN [row[e] EXCEPT !.status = "sent", !.due = FALSE]
                                        ELSE row[e]]
           /\ loose' = loose \cup LeftBehind(Leased(w, chunk[w]))
           /\ UNCHANGED faults
  <2>3. loose' = loose \cup (IF "sent" \in {"sent", "failed"} THEN LeftBehind(Leased(w, chunk[w])) ELSE {})
    BY <1>4
  <2>4. SetsStatus(w, chunk[w], "sent")
    BY <1>4 DEF SetsStatus
  <2>5. WriteTypes /\ \A e \in Emails : RowSame(e) \/ (e \in chunk[w] /\ SettledRow(w, e))
    BY <1>2, <2>3, <2>4, SettleRows DEF Base
  <2> QED
    BY <1>1, <1>4, <2>5 DEF Writes
<1> QED
  BY <1>3, <1>4 DEF MarkSent

(* Steps that write no row: the worker moves on, or loses everything. *)
Moves(w) ==
    \/ NextChunk(w) \/ DrainDone(w) \/ ProviderAccepts(w) \/ ProviderRecalls(w) \/ Answered(w)
    \/ Unsent(w)
    \/ AssignBatch(w) /\ UNCHANGED <<row, key, loose>> /\ pc'[w] \in {"looping", "settling"}

LEMMA MovingOn ==
    ASSUME Base, NEW w \in Workers, Moves(w)
    PROVE  Writes(w, {})
<1>1. UNCHANGED <<row, hold, loose, stale, poison>>
  BY DEF Moves, NextChunk, DrainDone, ProviderAccepts, ProviderRecalls, Answered, Unsent, AssignBatch
<1>2. UNCHANGED faults \/ Fault
  BY DEF Moves, NextChunk, DrainDone, ProviderAccepts, ProviderRecalls, Answered, Unsent, AssignBatch
<1>3. Drops(w, {})
  BY <1>1 DEF Drops, Base, TypeOK
<1>4. WriteTypes /\ \A e \in Emails : RowSame(e)
  BY <1>1 DEF WriteTypes, RowSame, Base, TypeOK
<1> QED
  BY <1>1, <1>2, <1>3, <1>4 DEF Writes

LEMMA Crashing ==
    ASSUME Base, NEW w \in Workers, Crash(w)
    PROVE  Writes(w, DOMAIN hold[w])
<1>1. UNCHANGED <<row, loose, stale, poison>> /\ Fault
  BY DEF Crash
<1>2. Drops(w, DOMAIN hold[w])
  BY Forgetting DEF Base, Crash
<1>3. WriteTypes /\ \A e \in Emails : RowSame(e)
  BY <1>1 DEF WriteTypes, RowSame, Base, TypeOK
<1> QED
  BY <1>1, <1>2, <1>3 DEF Writes

-----------------------------------------------------------------------------
(* Claims, and the batch keys. *)

(* The worker w claims the rows of T. *)
Claims(w, T) ==
    /\ T \subseteq {e \in Emails : Claimable(e)}
    /\ DOMAIN hold' = Workers
    /\ \A v \in Workers : v # w => hold'[v] = hold[v]
    /\ DOMAIN hold'[w] = T /\ hold'[w] \in [T -> Job]
    /\ \A e \in T : /\ hold'[w][e].attempts = row[e].attempts + 1
                    /\ hold'[w][e].status = row[e].status
                    /\ hold'[w][e].batch = row[e].batch
                    /\ hold'[w][e].unsettled = UnsettledInBatch(e)
    /\ row' \in [Emails -> Row]
    /\ \A e \in Emails : /\ row'[e].status = row[e].status /\ row'[e].batch = row[e].batch
                         /\ row'[e].attempts = IF e \in T THEN row[e].attempts + 1
                                                          ELSE row[e].attempts

LEMMA Claiming ==
    ASSUME TypeOK, NEW w \in Workers, Claim(w)
    PROVE  (\E T : Claims(w, T)) /\ (UNCHANGED faults \/ Fault)
<1>1. PICK picked \in SUBSET {e \in Emails : Claimable(e)} :
        LET siblings == {f \in Emails : Claimable(f) /\ \E e \in picked : f \in Siblings(e)}
        IN \E locked \in SUBSET (siblings \ picked) :
             LET taken == picked \cup (siblings \ locked)
             IN /\ IF locked = {} THEN UNCHANGED faults ELSE Fault
                /\ hold' = [hold EXCEPT ![w] =
                     [e \in taken |-> [attempts |-> ClaimedAttempts(e),
                                       status |-> row[e].status, batch |-> row[e].batch,
                                       unsettled |-> UnsettledInBatch(e)]]]
                /\ row' = [e \in Emails |->
                     IF e \in taken
                       THEN [row[e] EXCEPT !.attempts = ClaimedAttempts(e), !.due = FALSE]
                       ELSE row[e]]
  BY DEF Claim
<1> DEFINE siblings == {f \in Emails : Claimable(f) /\ \E e \in picked : f \in Siblings(e)}
<1>2. PICK locked \in SUBSET (siblings \ picked) :
        LET taken == picked \cup (siblings \ locked)
        IN /\ IF locked = {} THEN UNCHANGED faults ELSE Fault
           /\ hold' = [hold EXCEPT ![w] =
                [e \in taken |-> [attempts |-> ClaimedAttempts(e),
                                  status |-> row[e].status, batch |-> row[e].batch,
                                  unsettled |-> UnsettledInBatch(e)]]]
           /\ row' = [e \in Emails |->
                IF e \in taken
                  THEN [row[e] EXCEPT !.attempts = ClaimedAttempts(e), !.due = FALSE]
                  ELSE row[e]]
  BY <1>1
<1> DEFINE T == picked \cup (siblings \ locked)
           Taken(e) == [attempts |-> ClaimedAttempts(e), status |-> row[e].status,
                        batch |-> row[e].batch, unsettled |-> UnsettledInBatch(e)]
<1>3. UNCHANGED faults \/ Fault
  BY <1>2
<1>4. T \subseteq {e \in Emails : Claimable(e)}
  OBVIOUS
<1>5. /\ hold' = [hold EXCEPT ![w] = [e \in T |-> Taken(e)]]
      /\ row' = [e \in Emails |->
           IF e \in T THEN [row[e] EXCEPT !.attempts = ClaimedAttempts(e), !.due = FALSE]
                      ELSE row[e]]
  BY <1>2
<1> HIDE DEF T, siblings
<1>6. ASSUME NEW e \in T
      PROVE  /\ Taken(e) \in Job /\ row[e].attempts + 1 \in 1..AttemptBound
             /\ Taken(e).attempts = row[e].attempts + 1 /\ Taken(e).status = row[e].status
             /\ Taken(e).batch = row[e].batch /\ Taken(e).unsettled = UnsettledInBatch(e)
  <2>1. e \in Emails /\ Claimable(e)
    BY <1>4
  <2>2. row[e].attempts + 1 \in 1..AttemptBound
    BY <2>1, RowTypes, EmailAssumption DEF Claimable
  <2>3. row[e].status \in {"pending", "dead"} /\ row[e].batch \in SUBSET Emails
    BY <2>1, RowTypes DEF Claimable, Replayable
  <2>4. UnsettledInBatch(e) \in Nat
    <3>1. {f \in Siblings(e) : Unsettled(f) /\ Replayable(f)} \in SUBSET Emails
      BY DEF Siblings
    <3> QED
      BY <3>1, EmailsFinite DEF UnsettledInBatch
  <2> QED
    BY <2>2, <2>3, <2>4 DEF Job, ClaimedAttempts
<1>7. /\ DOMAIN hold' = Workers /\ hold'[w] = [e \in T |-> Taken(e)]
      /\ \A v \in Workers : v # w => hold'[v] = hold[v]
  BY <1>5 DEF TypeOK
<1>8. /\ DOMAIN hold'[w] = T /\ hold'[w] \in [T -> Job]
      /\ \A e \in T : hold'[w][e] = Taken(e)
  BY <1>6, <1>7
<1>9. ASSUME NEW e \in Emails
      PROVE  /\ row'[e] \in Row
             /\ row'[e].status = row[e].status /\ row'[e].batch = row[e].batch
             /\ row'[e].attempts = IF e \in T THEN row[e].attempts + 1 ELSE row[e].attempts
  <2>1. row[e] \in Row
    BY RowTypes
  <2>2. CASE e \in T
    <3>1. row'[e] = [row[e] EXCEPT !.attempts = ClaimedAttempts(e), !.due = FALSE]
      BY <1>5, <2>2
    <3>2. ClaimedAttempts(e) \in 0..AttemptBound /\ ClaimedAttempts(e) = row[e].attempts + 1
      <4>1. row[e].attempts + 1 \in 1..AttemptBound
        BY <1>6, <2>2
      <4> HIDE DEF Taken
      <4> QED
        BY <4>1, EmailAssumption DEF ClaimedAttempts
    <3> QED
      BY <2>1, <2>2, <3>1, <3>2 DEF Row
  <2>3. CASE e \notin T
    BY <1>5, <2>1, <2>3
  <2> QED
    BY <2>2, <2>3
<1>10. row' \in [Emails -> Row]
  <2>1. row' = [e \in Emails |-> row'[e]]
    BY <1>5
  <2> QED
    BY <1>9, <2>1
<1>11. Claims(w, T)
  BY <1>4, <1>6, <1>7, <1>8, <1>9, <1>10 DEF Claims
<1> QED
  BY <1>3, <1>11

(* The worker w pins the batch b on the rows of its chunk that it still     *)
(* holds.                                                                   *)
Pins(w, b) ==
    /\ pc[w] = "rendering" /\ chunk[w] # {} /\ chunk[w] \cap poison = {} /\ b \in SUBSET Emails
    /\ \/ b = chunk[w] /\ \A e \in chunk[w] : hold[w][e].batch = {}
       \/ b # {} /\ \A e \in chunk[w] : hold[w][e].batch = b
    /\ row' \in [Emails -> Row]
    /\ \A e \in Emails : /\ row'[e].status = row[e].status /\ row'[e].attempts = row[e].attempts
                         /\ row'[e].batch = IF e \in chunk[w] /\ Current(w, e) THEN b
                                                                               ELSE row[e].batch
    /\ loose \subseteq loose' /\ loose' \in SUBSET Emails
    /\ (\E e \in chunk[w] : Current(w, e) /\ row[e].batch # b)
         => \A f \in Emails : row[f].batch = b => f \in loose'
    /\ \A f \in loose' \ loose : row[f].batch = b
    /\ key' = [key EXCEPT ![w] = b]
    /\ pc' = [pc EXCEPT ![w] = IF \A e \in chunk[w] : Current(w, e) THEN "sending" ELSE "settling"]
    /\ answer' = [answer EXCEPT ![w] = "unsent"]
    /\ UNCHANGED <<poison, stale, hold, chunk, refused, accepted, delivered, announced, faults>>

LEMMA Pinning ==
    ASSUME Base, NEW w \in Workers, AssignBatch(w)
    PROVE  Moves(w) \/ \E b : Pins(w, b)
<1> DEFINE carried == {hold[w][e].batch : e \in chunk[w]}
           b == IF carried = {{}} THEN chunk[w] ELSE CHOOSE c \in carried : c # {}
           L == Leased(w, chunk[w])
<1>0. TypeOK /\ ChunkOK(w)
  BY DEF Base, ChunksOK
<1>1. CASE chunk[w] = {}
  BY <1>0, <1>1 DEF AssignBatch, Moves, TypeOK
<1>2. CASE UNCHANGED <<row, key, loose>> /\ pc' = [pc EXCEPT ![w] = "settling"]
  BY <1>0, <1>2 DEF Moves, TypeOK
<1>3. ASSUME chunk[w] # {},
             /\ row' = [e \in Emails |-> IF e \in L THEN [row[e] EXCEPT !.batch = b] ELSE row[e]]
             /\ key' = [key EXCEPT ![w] = b]
             /\ pc' = [pc EXCEPT ![w] = IF MaySend(w) THEN "sending" ELSE "settling"]
             /\ answer' = [answer EXCEPT ![w] = "unsent"]
             /\ loose' = loose \cup Joined(L, b)
             /\ UNCHANGED faults
      PROVE  Pins(w, b)
  <2>1. chunk[w] \in SUBSET Emails /\ chunk[w] \subseteq DOMAIN hold[w]
    BY <1>0 DEF TypeOK, ChunkOK
  <2>2. \/ b = chunk[w] /\ \A e \in chunk[w] : hold[w][e].batch = {}
        \/ b # {} /\ \A e \in chunk[w] : hold[w][e].batch = b
    <3>1. PICK e \in chunk[w] : TRUE
      BY <1>3
    <3>2. \A f \in chunk[w] : hold[w][f].batch = hold[w][e].batch
      BY <1>0, <3>1 DEF ChunkOK
    <3>3. carried = {hold[w][e].batch}
      BY <3>1, <3>2
    <3>4. CASE hold[w][e].batch = {}
      BY <3>2, <3>3, <3>4
    <3>5. CASE hold[w][e].batch # {}
      <4>1. b = hold[w][e].batch
        BY <3>3, <3>5
      <4> QED
        BY <3>2, <3>5, <4>1
    <3> QED
      BY <3>4, <3>5
  <2>3. b \in SUBSET Emails
    <3>1. \A e \in chunk[w] : hold[w][e].batch \in SUBSET Emails
      BY <1>0, <2>1, HoldTypes
    <3> QED
      BY <1>3, <2>1, <2>2, <3>1
  <2> HIDE DEF b
  <2>4. \A e \in Emails : e \in L <=> e \in chunk[w] /\ Current(w, e)
    BY DEF Leased, Current
  <2>5. ASSUME NEW e \in Emails
        PROVE  /\ row'[e] \in Row
               /\ row'[e].status = row[e].status /\ row'[e].attempts = row[e].attempts
               /\ row'[e].batch = IF e \in L THEN b ELSE row[e].batch
    <3>1. row[e] \in Row
      BY <1>0, RowTypes
    <3>2. CASE e \in L
      <4>1. row'[e] = [row[e] EXCEPT !.batch = b]
        BY <1>3, <3>2
      <4> QED
        BY <2>3, <3>1, <3>2, <4>1 DEF Row
    <3>3. CASE e \notin L
      BY <1>3, <3>1, <3>3
    <3> QED
      BY <3>2, <3>3
  <2>6. row' \in [Emails -> Row]
    <3>1. row' = [e \in Emails |-> row'[e]]
      BY <1>3
    <3> QED
      BY <2>5, <3>1
  <2>7. /\ loose \subseteq loose' /\ loose' \in SUBSET Emails
        /\ \A f \in loose' \ loose : row[f].batch = b
        /\ (\E e \in chunk[w] : Current(w, e) /\ row[e].batch # b)
             => \A f \in Emails : row[f].batch = b => f \in loose'
    BY <1>0, <1>3, <2>1, <2>4 DEF Joined, TypeOK
  <2>8. MaySend(w) <=> \A e \in chunk[w] : Current(w, e)
    BY DEF MaySend, Leased, Current
  <2>9. pc' = [pc EXCEPT ![w] = IF \A e \in chunk[w] : Current(w, e) THEN "sending" ELSE "settling"]
    BY <1>3, <2>8
  <2>10. /\ pc[w] = "rendering" /\ chunk[w] \cap poison = {}
         /\ UNCHANGED <<poison, stale, hold, chunk, refused, accepted, delivered, announced>>
    BY DEF AssignBatch
  <2>11. \A e \in Emails : /\ row'[e].status = row[e].status /\ row'[e].attempts = row[e].attempts
                           /\ row'[e].batch = IF e \in chunk[w] /\ Current(w, e)
                                                THEN b ELSE row[e].batch
    BY <2>4, <2>5
  <2> QED
    BY <1>3, <2>2, <2>3, <2>6, <2>7, <2>9, <2>10, <2>11 DEF Pins
<1> HIDE DEF b, L
<1>4. \/ chunk[w] = {}
      \/ UNCHANGED <<row, key, loose>> /\ pc' = [pc EXCEPT ![w] = "settling"]
      \/ /\ chunk[w] # {}
         /\ row' = [e \in Emails |-> IF e \in L THEN [row[e] EXCEPT !.batch = b] ELSE row[e]]
         /\ key' = [key EXCEPT ![w] = b]
         /\ pc' = [pc EXCEPT ![w] = IF MaySend(w) THEN "sending" ELSE "settling"]
         /\ answer' = [answer EXCEPT ![w] = "unsent"]
         /\ loose' = loose \cup Joined(L, b)
         /\ UNCHANGED faults
  BY Zenon DEF AssignBatch, b, L
<1> QED
  BY <1>1, <1>2, <1>3, <1>4

-----------------------------------------------------------------------------
(* Every step, by what it does. *)

(* The steps of a worker, and the rows they let go of. *)
Letting(w, S) ==
    \/ Moves(w) /\ S = {}
    \/ Crash(w) /\ S = DOMAIN hold[w]
    \/ ReleaseIncomplete(w) /\ S = {e \in DOMAIN hold[w] : ~IsWholeBatch(w, Group(w, e))}
    \/ ReleaseRest(w) /\ S = DOMAIN hold[w]
    \/ (ReleaseChunk(w) \/ SettleRejected(w) \/ MarkSent(w)) /\ S = chunk[w]
    \/ \E e \in Emails : (RenderFails(w, e) \/ SettleRefused(w, e)) /\ S = {e}

LEMMA StepKinds ==
    ASSUME Base, [Next]_vars
    PROVE  \/ UNCHANGED vars
           \/ \E e \in Emails : Enqueue(e) \/ ComesDue(e) \/ LeavesWindow(e)
           \/ \E w \in Workers : Claim(w) \/ (\E b : Pins(w, b)) \/ (\E S : Letting(w, S))
<1>1. ASSUME NEW w \in Workers, AssignBatch(w)
      PROVE  (\E b : Pins(w, b)) \/ (\E S : Letting(w, S))
  BY <1>1, Pinning DEF Letting
<1>2. ASSUME NEW w \in Workers,
             \/ NextChunk(w) \/ DrainDone(w) \/ ProviderAccepts(w) \/ ProviderRecalls(w)
             \/ Answered(w) \/ Unsent(w) \/ Crash(w) \/ ReleaseIncomplete(w) \/ ReleaseRest(w)
             \/ ReleaseChunk(w) \/ SettleRejected(w) \/ MarkSent(w)
             \/ \E e \in Emails : RenderFails(w, e) \/ SettleRefused(w, e)
      PROVE  \E S : Letting(w, S)
  BY <1>2 DEF Letting, Moves
<1> QED
  BY <1>1, <1>2 DEF Next

LEMMA LettingWrites ==
    ASSUME Base, NEW w \in Workers, NEW S, Letting(w, S)
    PROVE  Writes(w, S)
<1>1. CASE Moves(w) /\ S = {}
  BY <1>1, MovingOn
<1>2. CASE Crash(w) /\ S = DOMAIN hold[w]
  BY <1>2, Crashing
<1>3. CASE ReleaseIncomplete(w) /\ S = {e \in DOMAIN hold[w] : ~IsWholeBatch(w, Group(w, e))}
  BY <1>3, ReleasingIncomplete
<1>4. CASE ReleaseRest(w) /\ S = DOMAIN hold[w]
  BY <1>4, ReleasingRest
<1>5. CASE (ReleaseChunk(w) \/ SettleRejected(w) \/ MarkSent(w)) /\ S = chunk[w]
  BY <1>5, ReleasingChunk, Rejecting, MarkingSent
<1>6. CASE \E e \in Emails : (RenderFails(w, e) \/ SettleRefused(w, e)) /\ S = {e}
  BY <1>6, FailingOne
<1> QED
  BY <1>1, <1>2, <1>3, <1>4, <1>5, <1>6 DEF Letting

(* A row is inserted, or has another due date. *)
LEMMA Enqueuing ==
    ASSUME TypeOK, NEW e \in Emails, Enqueue(e)
    PROVE  /\ row' \in [Emails -> Row]
           /\ row'[e].status = "pending" /\ row'[e].attempts = 0 /\ row'[e].batch = {}
           /\ \A f \in Emails : f # e => row'[f] = row[f]
<1> DEFINE new == [status |-> "pending", attempts |-> 0, due |-> TRUE, batch |-> {}]
<1>1. new \in Row
  BY EmailAssumption DEF Row
<1>2. row' = [row EXCEPT ![e] = new]
  BY DEF Enqueue
<1> QED
  BY <1>1, <1>2 DEF TypeOK

LEMMA ComingDue ==
    ASSUME TypeOK, NEW e \in Emails, ComesDue(e)
    PROVE  row' \in [Emails -> Row] /\ \A f \in Emails : RowSame(f)
<1>1. row[e] \in Row /\ row' = [row EXCEPT ![e] = [row[e] EXCEPT !.due = TRUE]]
  BY RowTypes DEF ComesDue
<1>2. [row[e] EXCEPT !.due = TRUE] \in Row
  BY <1>1 DEF Row
<1>3. row' \in [Emails -> Row]
  BY <1>1, <1>2 DEF TypeOK
<1>4. ASSUME NEW f \in Emails PROVE RowSame(f)
  BY <1>1 DEF TypeOK, RowSame, Row
<1> QED
  BY <1>3, <1>4

-----------------------------------------------------------------------------
(* Type correctness. *)

WorkerTypes ==
    /\ pc \in [Workers -> {"idle", "claimed", "looping", "rendering", "sending", "waiting",
                           "settling"}]
    /\ answer \in [Workers -> {"unsent", "ok", "retryable", "in_flight", "rejected"}]
    /\ chunk \in [Workers -> SUBSET Emails] /\ key \in [Workers -> SUBSET Emails]
    /\ refused \in [Workers -> SUBSET Emails]

ProviderTypes ==
    /\ accepted \subseteq [key : (SUBSET Emails) \X (SUBSET Emails), refused : SUBSET Emails]
    /\ delivered \in [Emails -> Nat] /\ announced \in [Emails -> Nat]

HoldsTypes ==
    /\ DOMAIN hold = Workers
    /\ \A w \in Workers : DOMAIN hold[w] \subseteq Emails /\ hold[w] \in [DOMAIN hold[w] -> Job]

TableTypes ==
    /\ row \in [Emails -> Row] /\ faults \in 0..FaultBound
    /\ poison \in SUBSET Emails /\ stale \in SUBSET Emails /\ loose \in SUBSET Emails

LEMMA TypeParts == /\ TypeOK <=> WorkerTypes /\ ProviderTypes /\ HoldsTypes /\ TableTypes
                   /\ TypeOK' <=> WorkerTypes' /\ ProviderTypes' /\ HoldsTypes' /\ TableTypes'
BY DEF TypeOK, WorkerTypes, ProviderTypes, HoldsTypes, TableTypes

LEMMA Forgotten ==
    ASSUME WorkerTypes, NEW w \in Workers, Forget(w)
    PROVE  /\ chunk' \in [Workers -> SUBSET Emails] /\ key' \in [Workers -> SUBSET Emails]
           /\ refused' \in [Workers -> SUBSET Emails]
           /\ answer' \in [Workers -> {"unsent", "ok", "retryable", "in_flight", "rejected"}]
           /\ chunk'[w] = {} /\ key'[w] = {} /\ refused'[w] = {} /\ answer'[w] = "unsent"
           /\ \A v \in Workers : v # w => /\ chunk'[v] = chunk[v] /\ key'[v] = key[v]
                                          /\ refused'[v] = refused[v] /\ answer'[v] = answer[v]
BY DEF Forget, WorkerTypes

LEMMA WorkerTypesStep ==
    ASSUME Base, [Next]_vars
    PROVE  WorkerTypes'
<1>0. TypeOK /\ WorkerTypes
  BY TypeParts DEF Base
<1>1. ASSUME NEW e \in Emails, Enqueue(e) \/ ComesDue(e) \/ LeavesWindow(e)
      PROVE  WorkerTypes'
  BY <1>0, <1>1 DEF Enqueue, ComesDue, LeavesWindow, workerVars, WorkerTypes
<1>2. ASSUME NEW w \in Workers, Claim(w) \/ ReleaseIncomplete(w) \/ ReleaseRest(w) \/ DrainDone(w)
      PROVE  WorkerTypes'
  BY <1>0, <1>2 DEF Claim, ReleaseIncomplete, ReleaseRest, DrainDone, WorkerTypes
<1>3. ASSUME NEW w \in Workers, NextChunk(w)
      PROVE  WorkerTypes'
  <2>1. PICK C : chunk' = [chunk EXCEPT ![w] = C] /\ C \subseteq DOMAIN hold[w]
    BY <1>3 DEF NextChunk, Group
  <2>2. C \in SUBSET Emails
    BY <1>0, <2>1 DEF TypeOK
  <2> QED
    BY <1>0, <1>3, <2>1, <2>2 DEF NextChunk, WorkerTypes
<1>4. ASSUME NEW w \in Workers, NEW e \in Emails, RenderFails(w, e) \/ SettleRefused(w, e)
      PROVE  WorkerTypes'
  BY <1>0, <1>4 DEF RenderFails, SettleRefused, WorkerTypes
<1>5. ASSUME NEW w \in Workers, AssignBatch(w)
      PROVE  WorkerTypes'
  <2>1. UNCHANGED <<chunk, refused>>
    BY <1>5 DEF AssignBatch
  <2>2. pc' \in [Workers -> {"idle", "claimed", "looping", "rendering", "sending", "waiting",
                            "settling"}]
    BY <1>0, <1>5 DEF AssignBatch, WorkerTypes
  <2>3. answer' \in [Workers -> {"unsent", "ok", "retryable", "in_flight", "rejected"}]
    BY <1>0, <1>5 DEF AssignBatch, WorkerTypes
  <2>4. key' \in [Workers -> SUBSET Emails]
    <3>1. CASE Moves(w)
      <4>1. key' = key
        BY <1>5, <3>1 DEF Moves, NextChunk, DrainDone, ProviderAccepts, ProviderRecalls, Answered,
                          Unsent, AssignBatch
      <4> QED
        BY <1>0, <4>1 DEF WorkerTypes
    <3>2. ASSUME NEW b, Pins(w, b)
          PROVE  key' \in [Workers -> SUBSET Emails]
      BY <1>0, <3>2 DEF Pins, WorkerTypes
    <3> QED
      BY <1>5, <3>1, <3>2, Pinning
  <2> QED
    BY <1>0, <2>1, <2>2, <2>3, <2>4 DEF WorkerTypes
<1>6. ASSUME NEW w \in Workers, ProviderAccepts(w) \/ ProviderRecalls(w) \/ Unsent(w)
      PROVE  WorkerTypes'
  BY <1>0, <1>6 DEF ProviderAccepts, ProviderRecalls, Unsent, WorkerTypes
<1>7. ASSUME NEW w \in Workers, Answered(w)
      PROVE  WorkerTypes'
  <2>1. \A a \in accepted : a.refused \in SUBSET Emails
    BY <1>0 DEF TypeOK
  <2> QED
    BY <1>0, <1>7, <2>1 DEF Answered, WorkerTypes
<1>8. ASSUME NEW w \in Workers, ReleaseChunk(w) \/ SettleRejected(w) \/ MarkSent(w) \/ Crash(w)
      PROVE  WorkerTypes'
  <2>1. Forget(w) /\ pc' \in [Workers -> {"idle", "claimed", "looping", "rendering", "sending",
                                          "waiting", "settling"}]
    BY <1>0, <1>8 DEF ReleaseChunk, SettleRejected, MarkSent, Crash, ChunkDone, WorkerTypes
  <2> QED
    BY <1>0, <2>1, Forgotten DEF WorkerTypes
<1>9. CASE UNCHANGED vars
  BY <1>0, <1>9 DEF vars, workerVars, WorkerTypes
<1> QED
  BY <1>1, <1>2, <1>3, <1>4, <1>5, <1>6, <1>7, <1>8, <1>9 DEF Next

LEMMA ProviderTypesStep ==
    ASSUME Base, [Next]_vars
    PROVE  ProviderTypes'
<1>0. TypeOK /\ ProviderTypes
  BY TypeParts DEF Base
<1>1. ASSUME NEW w \in Workers, ProviderAccepts(w)
      PROVE  ProviderTypes'
  <2>1. PICK no \in SUBSET chunk[w] :
          /\ accepted' = accepted \cup {[key |-> IdempotencyKey(w), refused |-> no]}
          /\ delivered' = [e \in Emails |-> IF e \in chunk[w] \ no THEN delivered[e] + 1
                                                                   ELSE delivered[e]]
    BY <1>1 DEF ProviderAccepts
  <2>2. chunk[w] \in SUBSET Emails /\ no \in SUBSET Emails /\ key[w] \in SUBSET Emails
    BY <1>0, <2>1 DEF TypeOK
  <2>3. /\ [key |-> IdempotencyKey(w), refused |-> no]
             \in [key : (SUBSET Emails) \X (SUBSET Emails), refused : SUBSET Emails]
    BY <2>2 DEF IdempotencyKey
  <2>4. delivered' \in [Emails -> Nat]
    <3>1. delivered \in [Emails -> Nat]
      BY <1>0 DEF ProviderTypes
    <3>2. \A e \in Emails : delivered'[e] \in {delivered[e], delivered[e] + 1}
      BY <2>1
    <3>3. delivered' = [e \in Emails |-> delivered'[e]]
      BY <2>1
    <3> QED
      BY <3>1, <3>2, <3>3
  <2>5. announced' = announced
    BY <1>1 DEF ProviderAccepts
  <2> QED
    BY <1>0, <2>1, <2>3, <2>4, <2>5 DEF ProviderTypes
<1>2. ASSUME NEW w \in Workers, \/ SettleRejected(w)
                                \/ \E e \in Emails : RenderFails(w, e) \/ SettleRefused(w, e)
      PROVE  ProviderTypes'
  <2>1. announced' \in [Emails -> Nat]
    BY <1>2, Rejecting, FailingOne
  <2>2. UNCHANGED <<accepted, delivered>>
    BY <1>2 DEF SettleRejected, RenderFails, SettleRefused, ChunkDone
  <2> QED
    BY <1>0, <2>1, <2>2 DEF ProviderTypes
<1>3. ASSUME \/ \E e \in Emails : Enqueue(e) \/ ComesDue(e) \/ LeavesWindow(e)
             \/ \E w \in Workers :
                  \/ Claim(w) \/ ReleaseIncomplete(w) \/ NextChunk(w) \/ ReleaseRest(w)
                  \/ DrainDone(w) \/ AssignBatch(w) \/ ProviderRecalls(w) \/ Answered(w)
                  \/ Unsent(w) \/ ReleaseChunk(w) \/ MarkSent(w) \/ Crash(w)
             \/ UNCHANGED vars
      PROVE  ProviderTypes'
  <2>1. UNCHANGED <<accepted, delivered, announced>>
    BY <1>3 DEF Enqueue, ComesDue, LeavesWindow, Claim, ReleaseIncomplete, NextChunk, ReleaseRest,
                DrainDone, AssignBatch, ProviderRecalls, Answered, Unsent, ReleaseChunk, MarkSent,
                Crash, ChunkDone, vars
  <2> QED
    BY <1>0, <2>1 DEF ProviderTypes
<1> QED
  BY <1>1, <1>2, <1>3 DEF Next

LEMMA TableTypesStep ==
    ASSUME Base, [Next]_vars
    PROVE  HoldsTypes' /\ TableTypes'
<1>0. TypeOK /\ HoldsTypes /\ TableTypes
  BY TypeParts DEF Base
<1>1. ASSUME NEW e \in Emails, Enqueue(e) \/ ComesDue(e)
      PROVE  HoldsTypes' /\ TableTypes'
  <2>1. row' \in [Emails -> Row]
    BY <1>0, <1>1, Enqueuing, ComingDue
  <2>2. UNCHANGED <<hold, poison, stale, loose>> /\ (UNCHANGED faults \/ Fault)
    BY <1>1 DEF Enqueue, ComesDue, workerVars
  <2> QED
    BY <1>0, <2>1, <2>2, FaultTypes DEF HoldsTypes, TableTypes
<1>2. ASSUME NEW e \in Emails, LeavesWindow(e)
      PROVE  HoldsTypes' /\ TableTypes'
  <2>1. loose' \in SUBSET Emails /\ stale' \in SUBSET Emails
    BY <1>0, <1>2 DEF LeavesWindow, LeftBehind, TypeOK
  <2>2. UNCHANGED <<hold, poison, row, faults>>
    BY <1>2 DEF LeavesWindow, workerVars
  <2> QED
    BY <1>0, <2>1, <2>2 DEF HoldsTypes, TableTypes
<1>3. ASSUME NEW w \in Workers, Claim(w)
      PROVE  HoldsTypes' /\ TableTypes'
  <2>1. PICK T : Claims(w, T)
    BY <1>0, <1>3, Claiming
  <2>2. faults' \in 0..FaultBound
    BY <1>0, <1>3, Claiming, FaultTypes
  <2>3. HoldsTypes'
    BY <1>0, <2>1 DEF Claims, HoldsTypes
  <2>4. UNCHANGED <<poison, stale, loose>>
    BY <1>3 DEF Claim
  <2> QED
    BY <1>0, <2>1, <2>2, <2>3, <2>4 DEF TableTypes, Claims
<1>4. ASSUME NEW w \in Workers, NEW b, Pins(w, b)
      PROVE  HoldsTypes' /\ TableTypes'
  BY <1>0, <1>4 DEF Pins, HoldsTypes, TableTypes
<1>5. ASSUME NEW w \in Workers, NEW S, Letting(w, S)
      PROVE  HoldsTypes' /\ TableTypes'
  <2>1. Writes(w, S)
    BY <1>5, LettingWrites
  <2>2. HoldsTypes'
    BY <1>0, <2>1, DroppedTypes DEF Writes, HoldsTypes
  <2>3. faults' \in 0..FaultBound
    BY <1>0, <2>1, FaultTypes DEF Writes
  <2> QED
    BY <1>0, <2>1, <2>2, <2>3 DEF Writes, WriteTypes, TableTypes
<1>6. CASE UNCHANGED vars
  BY <1>0, <1>6 DEF vars, workerVars, HoldsTypes, TableTypes
<1> QED
  BY <1>1, <1>2, <1>3, <1>4, <1>5, <1>6, StepKinds

LEMMA TypeStep == Base /\ [Next]_vars => TypeOK'
BY TypeParts, WorkerTypesStep, ProviderTypesStep, TableTypesStep

-----------------------------------------------------------------------------
(* Leases. *)

LEMMA LeasesInit == Init => LeasesOK
BY DEF Init, LeasesOK, NoHold

LEMMA WritingLeases ==
    ASSUME Base, NEW w \in Workers, NEW S, Writes(w, S)
    PROVE  LeasesOK'
<1>0. /\ TypeOK /\ Drops(w, S)
      /\ \A e \in Emails : \/ RowSame(e)
                           \/ e \in S /\ (ReleasedRow(w, e) \/ SettledRow(w, e))
  BY DEF Writes, Base
<1>1. SUFFICES ASSUME NEW v \in Workers, NEW e \in DOMAIN hold'[v]
               PROVE  LeaseOK(v, e)'
  BY DEF LeasesOK
<1>2. e \in DOMAIN hold[v] /\ hold'[v][e] = hold[v][e] /\ (v = w => e \notin S)
  BY <1>0 DEF Drops
<1>3. \A u \in Workers : Holds(u, e)' => Holds(u, e) /\ hold'[u][e] = hold[u][e]
  BY <1>0 DEF Drops, Holds
<1>4. LeaseOK(v, e) /\ e \in Emails
  BY <1>0, <1>2, HoldTypes DEF Base, LeasesOK
<1>5. /\ row[e].attempts \in Nat /\ hold[v][e].attempts \in Nat
      /\ \A u \in Workers : Holds(u, e) => /\ hold[u][e].attempts \in Nat /\ LeaseOK(u, e)
                                           /\ hold[u][e].status \in {"pending", "dead"}
  BY <1>0, <1>2, <1>4, HoldTypes, RowTypes DEF Holds, Base, LeasesOK
<1>6. CASE RowSame(e)
  BY <1>2, <1>3, <1>4, <1>6 DEF LeaseOK, RowSame, Unsettled
<1>7. CASE e \in S /\ ReleasedRow(w, e)
  BY <1>2, <1>3, <1>4, <1>5, <1>7 DEF LeaseOK, ReleasedRow, Unsettled, Current, Holds
<1>8. CASE e \in S /\ SettledRow(w, e)
  BY <1>2, <1>3, <1>4, <1>5, <1>8 DEF LeaseOK, SettledRow, Unsettled, Current, Holds
<1> QED
  BY <1>0, <1>4, <1>6, <1>7, <1>8

LEMMA ClaimingLeases ==
    ASSUME Base, NEW w \in Workers, NEW T, Claims(w, T)
    PROVE  LeasesOK'
<1>0. TypeOK
  BY DEF Base
<1>1. SUFFICES ASSUME NEW v \in Workers, NEW e \in DOMAIN hold'[v]
               PROVE  LeaseOK(v, e)'
  BY DEF LeasesOK
<1>2. /\ v = w => e \in T /\ Claimable(e) /\ hold'[v][e].attempts = row[e].attempts + 1
                    /\ hold'[v][e].status = row[e].status
      /\ v # w => e \in DOMAIN hold[v] /\ hold'[v] = hold[v]
  BY DEF Claims
<1>3. /\ e \in Emails /\ row[e].attempts \in Nat
      /\ v # w => LeaseOK(v, e) /\ hold[v][e].attempts \in Nat
  BY <1>0, <1>2, HoldTypes, RowTypes DEF Base, LeasesOK, Claims
<1>4. \A u \in Workers : u # w => (Holds(u, e)' <=> Holds(u, e)) /\ hold'[u] = hold[u]
  BY DEF Claims, Holds
<1>5. \A u \in Workers : Holds(u, e) => LeaseOK(u, e) /\ hold[u][e].attempts \in Nat
  BY <1>0, HoldTypes DEF Holds, Base, LeasesOK
<1>6. Holds(w, e)' => /\ e \in T /\ Claimable(e) /\ hold'[w][e].attempts = row[e].attempts + 1
                      /\ hold'[w][e].status = row[e].status
  BY DEF Claims, Holds
<1>7. /\ row'[e].status = row[e].status
      /\ row'[e].attempts = IF e \in T THEN row[e].attempts + 1 ELSE row[e].attempts
  BY <1>3 DEF Claims
<1>8. CASE v = w
  BY <1>2, <1>3, <1>4, <1>5, <1>7, <1>8 DEF LeaseOK, Unsettled, Claimable, Replayable
<1>9. CASE v # w
  BY <1>2, <1>3, <1>4, <1>5, <1>6, <1>7, <1>9 DEF LeaseOK, Unsettled, Claimable, Replayable
<1> QED
  BY <1>8, <1>9

(* A step that keeps holds and what leases are about keeps LeasesOK. *)
LEMMA LeasesStep == Base /\ [Next]_vars => LeasesOK'
<1> SUFFICES ASSUME Base, [Next]_vars
             PROVE  LeasesOK'
  OBVIOUS
<1>0. TypeOK /\ LeasesOK /\ \A v \in Workers : DOMAIN hold[v] \subseteq Emails
  BY DEF Base, TypeOK
<1>1. ASSUME hold' = hold, \A f \in Emails : row'[f].status = row[f].status /\ row'[f].attempts = row[f].attempts
      PROVE  LeasesOK'
  BY <1>0, <1>1 DEF LeasesOK, LeaseOK, Holds, Unsettled
<1>2. ASSUME NEW e \in Emails, Enqueue(e)
      PROVE  LeasesOK'
  <2>1. hold' = hold /\ \A f \in Emails : f # e => row'[f] = row[f]
    BY <1>0, <1>2, Enqueuing DEF Enqueue, workerVars
  <2>2. \A v \in Workers : e \notin DOMAIN hold[v]
    BY <1>0, <1>2 DEF LeasesOK, LeaseOK, Enqueue
  <2> QED
    BY <1>0, <2>1, <2>2 DEF LeasesOK, LeaseOK, Holds, Unsettled
<1>3. ASSUME NEW e \in Emails, ComesDue(e) \/ LeavesWindow(e)
      PROVE  LeasesOK'
  <2>1. hold' = hold /\ \A f \in Emails : RowSame(f)
    BY <1>0, <1>3, ComingDue DEF ComesDue, LeavesWindow, workerVars, RowSame
  <2> QED
    BY <1>1, <2>1 DEF RowSame
<1>4. ASSUME NEW w \in Workers, Claim(w)
      PROVE  LeasesOK'
  BY <1>0, <1>4, Claiming, ClaimingLeases
<1>5. ASSUME NEW w \in Workers, NEW b, Pins(w, b)
      PROVE  LeasesOK'
  BY <1>1, <1>5 DEF Pins
<1>6. ASSUME NEW w \in Workers, NEW S, Letting(w, S)
      PROVE  LeasesOK'
  BY <1>6, LettingWrites, WritingLeases
<1>7. CASE UNCHANGED vars
  BY <1>1, <1>7 DEF vars, workerVars
<1> QED
  BY <1>2, <1>3, <1>4, <1>5, <1>6, <1>7, StepKinds

-----------------------------------------------------------------------------
(* Batches of rows and of claims. *)

(* What the provider did not refuse of a request, it sent. *)
TakenOK == \A a \in accepted : \A e \in a.key[2] \ a.refused : delivered[e] > 0

Table == Base /\ RowsOK /\ HoldsOK /\ TakenOK /\ SentWasDelivered

(* Only a request the provider takes sends anything. *)
LEMMA OnlyTheProviderSends ==
    ASSUME [Next]_vars
    PROVE  (\E w \in Workers : ProviderAccepts(w)) \/ UNCHANGED <<accepted, delivered>>
<1>1. ASSUME NEW e \in Emails, Enqueue(e) \/ ComesDue(e) \/ LeavesWindow(e)
      PROVE  UNCHANGED <<accepted, delivered>>
  BY <1>1 DEF Enqueue, ComesDue, LeavesWindow
<1>2. ASSUME NEW w \in Workers,
             Claim(w) \/ ReleaseIncomplete(w) \/ NextChunk(w) \/ ReleaseRest(w) \/ DrainDone(w)
      PROVE  UNCHANGED <<accepted, delivered>>
  BY <1>2 DEF Claim, ReleaseIncomplete, NextChunk, ReleaseRest, DrainDone
<1>3. ASSUME NEW w \in Workers, NEW e \in Emails, RenderFails(w, e) \/ SettleRefused(w, e)
      PROVE  UNCHANGED <<accepted, delivered>>
  BY <1>3 DEF RenderFails, SettleRefused
<1>4. ASSUME NEW w \in Workers, AssignBatch(w) \/ ProviderRecalls(w) \/ Answered(w) \/ Unsent(w)
      PROVE  UNCHANGED <<accepted, delivered>>
  BY <1>4 DEF AssignBatch, ProviderRecalls, Answered, Unsent
<1>5. ASSUME NEW w \in Workers,
             ReleaseChunk(w) \/ SettleRejected(w) \/ MarkSent(w) \/ Crash(w)
      PROVE  UNCHANGED <<accepted, delivered>>
  BY <1>5 DEF ReleaseChunk, SettleRejected, MarkSent, Crash, ChunkDone
<1>6. UNCHANGED vars => UNCHANGED <<accepted, delivered>>
  BY DEF vars
<1> QED
  BY <1>1, <1>2, <1>3, <1>4, <1>5, <1>6 DEF Next

(* An inserted email keeps its batch, and nothing is delivered back. *)
LEMMA Monotone ==
    ASSUME Table, [Next]_vars, NEW e \in Emails
    PROVE  /\ row[e].batch # {} => row'[e].batch # {}
           /\ delivered[e] > 0 => delivered'[e] > 0
<1>0. TypeOK /\ RowOK(e)
  BY DEF Table, Base, RowsOK
<1>1. row[e].batch # {} => row'[e].batch # {}
  <2>1. ASSUME NEW f \in Emails, Enqueue(f)
        PROVE  row[e].batch # {} => row'[e].batch # {}
    BY <1>0, <2>1, Enqueuing DEF Enqueue, RowOK
  <2>2. ASSUME NEW f \in Emails, ComesDue(f) \/ LeavesWindow(f)
        PROVE  row'[e].batch = row[e].batch
    BY <1>0, <2>2, ComingDue DEF LeavesWindow, RowSame
  <2>3. ASSUME NEW w \in Workers, Claim(w)
        PROVE  row'[e].batch = row[e].batch
    BY <1>0, <2>3, Claiming DEF Claims
  <2>4. ASSUME NEW w \in Workers, NEW b, Pins(w, b)
        PROVE  row[e].batch # {} => row'[e].batch # {}
    BY <2>4 DEF Pins
  <2>5. ASSUME NEW w \in Workers, NEW S, Letting(w, S)
        PROVE  row'[e].batch = row[e].batch
    BY <2>5, LettingWrites DEF Table, Writes, RowSame, ReleasedRow, SettledRow
  <2> QED
    BY <2>1, <2>2, <2>3, <2>4, <2>5, StepKinds DEF vars, Table
<1>2. delivered[e] > 0 => delivered'[e] > 0
  <2>1. ASSUME NEW w \in Workers, ProviderAccepts(w)
        PROVE  delivered'[e] \in {delivered[e], delivered[e] + 1}
    BY <2>1 DEF ProviderAccepts
  <2>2. (\E w \in Workers : ProviderAccepts(w)) \/ delivered' = delivered
    BY OnlyTheProviderSends
  <2>3. delivered[e] \in Nat
    BY <1>0, RowTypes
  <2> QED
    BY <2>1, <2>2, <2>3
<1> QED
  BY <1>1, <1>2

LEMMA TableInit == Init => RowsOK /\ HoldsOK /\ TakenOK /\ SentWasDelivered
BY DEF Init, RowsOK, RowOK, HoldsOK, TakenOK, SentWasDelivered, NoHold

(* A batch that is pinned is one the row may have. *)
LEMMA PinnedBatch ==
    ASSUME Table, NEW w \in Workers, NEW b, Pins(w, b)
    PROVE  b # {} /\ \A e \in chunk[w] : BatchOK(e, b)
<1>0. TypeOK /\ ChunkOK(w)
  BY DEF Table, Base, ChunksOK
<1>1. CASE b = chunk[w]
  BY <1>0, <1>1 DEF Pins, ChunkOK, BatchOK
<1>2. CASE b # {} /\ \A e \in chunk[w] : hold[w][e].batch = b
  BY <1>0, <1>2 DEF ChunkOK, Table, HoldsOK, HoldOK
<1> QED
  BY <1>1, <1>2 DEF Pins

LEMMA RowsStep == Table /\ [Next]_vars => RowsOK'
<1> SUFFICES ASSUME Table, [Next]_vars, NEW e \in Emails
             PROVE  RowOK(e)'
  BY DEF RowsOK
<1>0. TypeOK /\ RowOK(e) /\ Base
  BY DEF Table, Base, RowsOK
<1>1. ASSUME NEW f \in Emails, Enqueue(f)
      PROVE  RowOK(e)'
  <2>1. UNCHANGED <<stale, poison>> /\ row[f].status = "none"
    BY <1>1 DEF Enqueue
  <2> QED
    BY <1>0, <1>1, <2>1, Enqueuing DEF RowOK, BatchOK
<1>2. ASSUME NEW f \in Emails, ComesDue(f) \/ LeavesWindow(f)
      PROVE  RowOK(e)'
  <2>1. poison' = poison /\ RowSame(e)
    BY <1>0, <1>2, ComingDue DEF ComesDue, LeavesWindow, RowSame
  <2>2. stale' = stale \/ (stale' = stale \cup {f} /\ row[f].status = "dead")
    BY <1>2 DEF ComesDue, LeavesWindow
  <2> QED
    BY <1>0, <2>1, <2>2 DEF RowOK, BatchOK, RowSame
<1>3. ASSUME NEW w \in Workers, Claim(w)
      PROVE  RowOK(e)'
  <2>1. row'[e].status = row[e].status /\ row'[e].batch = row[e].batch /\ UNCHANGED <<stale, poison>>
    BY <1>0, <1>3, Claiming DEF Claims, Claim
  <2> QED
    BY <1>0, <2>1 DEF RowOK, BatchOK
<1>4. ASSUME NEW w \in Workers, NEW b, Pins(w, b)
      PROVE  RowOK(e)'
  <2>1. UNCHANGED <<stale, poison>> /\ row'[e].status = row[e].status
    BY <1>4 DEF Pins
  <2>2. CASE e \in chunk[w] /\ Current(w, e)
    <3>1. row'[e].batch = b /\ b # {} /\ BatchOK(e, b)
      BY <1>4, <2>2, PinnedBatch DEF Pins
    <3>2. row[e].status # "none"
      BY <2>2 DEF Current, Unsettled
    <3> QED
      BY <1>0, <2>1, <3>1, <3>2 DEF RowOK, BatchOK
  <2>3. CASE ~(e \in chunk[w] /\ Current(w, e))
    <3>1. row'[e].batch = row[e].batch
      BY <1>4, <2>3 DEF Pins
    <3> QED
      BY <1>0, <2>1, <3>1 DEF RowOK, BatchOK
  <2> QED
    BY <2>2, <2>3
<1>5. ASSUME NEW w \in Workers, NEW S, Letting(w, S)
      PROVE  RowOK(e)'
  <2>1. /\ UNCHANGED <<stale, poison>>
        /\ RowSame(e) \/ ReleasedRow(w, e) \/ SettledRow(w, e)
    BY <1>0, <1>5, LettingWrites DEF Writes
  <2>2. CASE RowSame(e) \/ ReleasedRow(w, e)
    BY <1>0, <2>1, <2>2 DEF RowOK, BatchOK, RowSame, ReleasedRow
  <2>3. CASE SettledRow(w, e)
    <3>1. LeaseOK(w, e)
      BY <1>0, <1>5, <2>3 DEF SettledRow, Holds, Base, LeasesOK
    <3>2. row[e].attempts \in Nat
      BY <1>0, RowTypes
    <3>3. row'[e].status = "pending" => row[e].status = "pending"
      BY <2>3, <3>1, <3>2 DEF SettledRow, LeaseOK, Current, Unsettled
    <3> QED
      BY <1>0, <2>1, <2>3, <3>3 DEF RowOK, BatchOK, SettledRow
  <2> QED
    BY <2>1, <2>2, <2>3
<1>6. CASE UNCHANGED vars
  BY <1>0, <1>6 DEF vars, RowOK, BatchOK
<1> QED
  BY <1>0, <1>1, <1>2, <1>3, <1>4, <1>5, <1>6, StepKinds

(* Holds that only shrink stay as they were. *)
LEMMA ShrinkingHolds ==
    ASSUME Table, [Next]_vars, poison' = poison,
           \A v \in Workers : /\ DOMAIN hold'[v] \subseteq DOMAIN hold[v]
                              /\ \A e \in DOMAIN hold'[v] : hold'[v][e] = hold[v][e]
    PROVE  HoldsOK'
<1> SUFFICES ASSUME NEW w \in Workers, NEW e \in DOMAIN hold'[w]
             PROVE  HoldOK(w, e)'
  BY DEF HoldsOK
<1>1. HoldOK(w, e) /\ e \in Emails
  BY HoldTypes DEF Table, Base, HoldsOK
<1>2. row[e].batch # {} => row'[e].batch # {}
  BY <1>1, Monotone
<1> QED
  BY <1>1, <1>2 DEF HoldOK, BatchOK, Holds

LEMMA HoldsStep == Table /\ [Next]_vars => HoldsOK'
<1> SUFFICES ASSUME Table, [Next]_vars
             PROVE  HoldsOK'
  OBVIOUS
<1>0. TypeOK /\ Base
  BY DEF Table, Base
<1>1. ASSUME UNCHANGED <<hold, poison>>
      PROVE  HoldsOK'
  BY <1>1, ShrinkingHolds
<1>2. ASSUME NEW w \in Workers, Claim(w)
      PROVE  HoldsOK'
  <2>1. PICK T : Claims(w, T)
    BY <1>0, <1>2, Claiming
  <2>2. poison' = poison
    BY <1>2 DEF Claim
  <2> SUFFICES ASSUME NEW v \in Workers, NEW e \in DOMAIN hold'[v]
               PROVE  HoldOK(v, e)'
    BY DEF HoldsOK
  <2>3. /\ v = w => /\ e \in T /\ hold'[v][e].attempts = row[e].attempts + 1
                    /\ hold'[v][e].status = row[e].status /\ hold'[v][e].batch = row[e].batch
        /\ v # w => e \in DOMAIN hold[v] /\ hold'[v] = hold[v]
        /\ T \subseteq {f \in Emails : Claimable(f)}
    BY <2>1 DEF Claims
  <2>4. e \in Emails /\ row[e].attempts \in Nat /\ row'[e].batch = row[e].batch /\ RowOK(e)
    BY <1>0, <2>1, <2>3, HoldTypes, RowTypes DEF Claims, Table, RowsOK
  <2>5. \A u \in Workers : u # w => (Holds(u, e)' <=> Holds(u, e)) /\ hold'[u] = hold[u]
    BY <2>1 DEF Claims, Holds
  <2>6. \A u \in Workers : Holds(u, e) => /\ LeaseOK(u, e) /\ HoldOK(u, e)
                                          /\ hold[u][e].attempts \in Nat
    BY <1>0, HoldTypes DEF Holds, Base, LeasesOK, Table, HoldsOK
  <2>7. Holds(w, e)' => /\ e \in T /\ Claimable(e) /\ hold'[w][e].attempts = row[e].attempts + 1
                        /\ hold'[w][e].batch = row[e].batch
    BY <2>1 DEF Claims, Holds
  <2>8. CASE v = w
    <3>1. \A u \in Workers : u # w /\ Holds(u, e)' => hold'[u][e].attempts < hold'[w][e].attempts
      BY <2>3, <2>4, <2>5, <2>6, <2>8 DEF LeaseOK, Claimable, Replayable, Unsettled
    <3>2. \A u \in Workers : Holds(u, e)' /\ hold'[w][e].attempts < hold'[u][e].attempts => FALSE
      <4>1. \A u \in Workers : u # w /\ Holds(u, e)' => hold'[u][e].attempts \in Nat
        BY <2>5, <2>6
      <4>2. hold'[w][e].attempts \in Nat
        BY <2>3, <2>4, <2>8
      <4> QED
        BY <3>1, <4>1, <4>2
    <3>3. /\ hold'[v][e].status = "dead" => hold'[v][e].batch # {}
          /\ hold'[v][e].batch # {} => BatchOK(e, hold'[v][e].batch) /\ row'[e].batch # {}
      BY <2>3, <2>4, <2>8 DEF RowOK
    <3> QED
      BY <2>2, <2>8, <3>2, <3>3 DEF HoldOK, BatchOK
  <2>9. CASE v # w
    <3>1. HoldOK(v, e) /\ Holds(v, e) /\ hold'[v][e] = hold[v][e]
      BY <2>3, <2>6, <2>9 DEF Holds
    <3>2. hold[v][e].batch # {} => row[e].batch # {}
      BY <3>1 DEF HoldOK
    <3>3. \A u \in Workers :
            Holds(u, e)' /\ hold'[v][e].attempts < hold'[u][e].attempts /\ hold'[v][e].batch # {}
              => hold'[u][e].batch # {}
      <4>1. \A u \in Workers \ {w} : Holds(u, e)' => Holds(u, e) /\ hold'[u][e] = hold[u][e]
        BY <2>5
      <4> QED
        BY <2>7, <3>1, <3>2, <4>1 DEF HoldOK
    <3> QED
      BY <2>2, <2>4, <3>1, <3>3 DEF HoldOK, BatchOK
  <2> QED
    BY <2>8, <2>9
<1>3. ASSUME NEW w \in Workers, NEW S, Letting(w, S)
      PROVE  HoldsOK'
  <2>1. Writes(w, S)
    BY <1>0, <1>3, LettingWrites
  <2> QED
    BY <2>1, ShrinkingHolds DEF Writes, Drops
<1>4. ASSUME NEW e \in Emails, Enqueue(e) \/ ComesDue(e) \/ LeavesWindow(e)
      PROVE  UNCHANGED <<hold, poison>>
  BY <1>4 DEF Enqueue, ComesDue, LeavesWindow, workerVars
<1>5. ASSUME NEW w \in Workers, NEW b, Pins(w, b)
      PROVE  UNCHANGED <<hold, poison>>
  BY <1>5 DEF Pins
<1>6. CASE UNCHANGED vars
  BY <1>1, <1>6 DEF vars, workerVars
<1> QED
  BY <1>0, <1>1, <1>2, <1>3, <1>4, <1>5, <1>6, StepKinds

-----------------------------------------------------------------------------
(* Chunks. *)

(* At most n members of a set of numbers have fewer than n others below     *)
(* them in it.                                                              *)
LEMMA FirstOnes ==
    ASSUME NEW G \in SUBSET Emails, NEW n \in Nat \ {0}
    PROVE  Cardinality({e \in G : Cardinality({f \in G : f < e}) < n}) <= n
<1> DEFINE Below(e) == {f \in G : f < e}
           C == {e \in G : Cardinality(Below(e)) < n}
           rank == [e \in C |-> Cardinality(Below(e))]
<1>0. \A e \in Emails : e \in Nat
  <2>1. EmailBound \in Nat
    BY EmailAssumption
  <2> QED
    BY <2>1 DEF Emails
<1>1. C \in SUBSET Emails /\ \A e \in C : Below(e) \in SUBSET Emails
  OBVIOUS
<1>2. IsFiniteSet(C) /\ Cardinality(C) \in Nat
      /\ \A e \in C : IsFiniteSet(Below(e)) /\ Cardinality(Below(e)) \in Nat
  BY <1>1, EmailsFinite
<1>3. rank \in [C -> 0..(n - 1)]
  BY <1>2
<1>4. IsFiniteSet(0..(n - 1)) /\ Cardinality(0..(n - 1)) = n
  BY FS_Interval
<1>5. ASSUME NEW x \in C, NEW y \in C, x < y
      PROVE  rank[x] # rank[y]
  <2>1. Below(x) \subseteq Below(y) /\ x \in Below(y) /\ x \notin Below(x)
    <3>1. \A g \in G : g \in Nat
      BY <1>0
    <3>2. x \in G /\ y \in G
      OBVIOUS
    <3> QED
      BY <1>5, <3>1, <3>2
  <2>2. Cardinality(Below(x)) # Cardinality(Below(y))
    BY <1>2, <2>1, FS_Subset
  <2> QED
    BY <2>2
<1>6. ASSUME NEW x \in C, NEW y \in C, x # y
      PROVE  rank[x] # rank[y]
  <2>1. x \in Nat /\ y \in Nat
    BY <1>0, <1>1
  <2>2. x < y \/ y < x
    BY <1>6, <2>1
  <2> QED
    BY <1>5, <2>2
<1>7. ~ (Cardinality(0..(n - 1)) < Cardinality(C))
  <2> HIDE DEF C, rank, Below
  <2> QED
    BY <1>2, <1>3, <1>4, <1>6, FS_PigeonHole
<1>8. Cardinality(C) <= n
  BY <1>2, <1>4, <1>7
<1> QED
  BY <1>8

LEMMA TakingChunk ==
    ASSUME Table, NEW w \in Workers, NEW first \in DOMAIN hold[w], NEW C,
           C = {e \in Group(w, first) : Cardinality({f \in Group(w, first) : f < e}) < ChunkSize}
    PROVE  /\ C \subseteq DOMAIN hold[w] /\ Cardinality(C) <= ChunkSize
           /\ \A e, f \in C : /\ hold[w][e].batch = hold[w][f].batch
                              /\ hold[w][e].batch = {} => hold[w][e].attempts = hold[w][f].attempts
           /\ \A e \in C, f \in DOMAIN hold[w] :
                hold[w][f].batch = hold[w][e].batch /\ hold[w][e].batch # {} => f \in C
<1> DEFINE G == Group(w, first)
<1>0. G \in SUBSET Emails /\ G \subseteq DOMAIN hold[w]
  BY DEF Group, Table, Base, TypeOK
<1>1. Cardinality(C) <= ChunkSize
  BY <1>0, FirstOnes, EmailAssumption
<1>2. \A e \in C : /\ e \in DOMAIN hold[w] /\ hold[w][e].batch = hold[w][first].batch
                   /\ hold[w][first].batch = {} =>
                        hold[w][e].attempts = hold[w][first].attempts
  BY DEF Group
<1>3. ASSUME NEW f \in DOMAIN hold[w], hold[w][f].batch = hold[w][first].batch,
             hold[w][first].batch # {}
      PROVE  f \in C
  <2> DEFINE b == hold[w][first].batch
             Below == {g \in G : g < f}
  <2>1. f \in G
    BY <1>3 DEF Group
  <2>2. b \in SUBSET Emails /\ Cardinality(b) <= ChunkSize
    BY <1>3, HoldTypes DEF Table, Base, HoldsOK, HoldOK, BatchOK
  <2>3. \A g \in G : g \in b
    BY <1>3 DEF Group, Table, HoldsOK, HoldOK, BatchOK
  <2>4. Below \subseteq b /\ f \in b /\ f \notin Below /\ Below \in SUBSET Emails
    <3>1. \A g \in Emails : g \in Int
      BY EmailAssumption DEF Emails
    <3> QED
      BY <1>0, <2>1, <2>3, <3>1
  <2>5. Cardinality(Below) < Cardinality(b)
    <3> HIDE DEF b, Below
    <3>1. IsFiniteSet(b) /\ Cardinality(b) \in Nat /\ Cardinality(Below) \in Nat
      BY <2>2, <2>4, EmailsFinite
    <3>2. Cardinality(Below) <= Cardinality(b) /\ Cardinality(Below) # Cardinality(b)
      BY <2>4, <3>1, FS_Subset
    <3> QED
      BY <3>1, <3>2
  <2>6. Cardinality(Below) < ChunkSize
    <3> HIDE DEF b, Below
    <3>1. Cardinality(b) \in Nat /\ Cardinality(Below) \in Nat
      BY <2>2, <2>4, EmailsFinite
    <3> QED
      BY <2>2, <2>5, <3>1, EmailAssumption
  <2> QED
    BY <2>1, <2>6
<1>4. C \subseteq DOMAIN hold[w]
  BY <1>2
<1>5. \A e, f \in C : /\ hold[w][e].batch = hold[w][f].batch
                      /\ hold[w][e].batch = {} => hold[w][e].attempts = hold[w][f].attempts
  BY <1>2
<1>6. \A e \in C, f \in DOMAIN hold[w] :
        hold[w][f].batch = hold[w][e].batch /\ hold[w][e].batch # {} => f \in C
  BY <1>2, <1>3
<1> QED
  BY <1>1, <1>4, <1>5, <1>6

(* The steps of one worker change nothing of the others. *)
Foreign(v) == /\ pc'[v] = pc[v] /\ chunk'[v] = chunk[v] /\ hold'[v] = hold[v] /\ key'[v] = key[v]
              /\ answer'[v] = answer[v] /\ refused'[v] = refused[v]

LEMMA LettingForeign ==
    ASSUME Base, NEW w \in Workers, NEW S, Letting(w, S), NEW v \in Workers, v # w
    PROVE  Foreign(v)
<1>0. WorkerTypes
  BY TypeParts DEF Base
<1>1. hold'[v] = hold[v]
  BY LettingWrites DEF Writes, Drops
<1>2. CASE Moves(w)
  BY <1>0, <1>1, <1>2 DEF Moves, NextChunk, DrainDone, ProviderAccepts, ProviderRecalls, Answered,
     Unsent, AssignBatch, WorkerTypes, Foreign
<1>3. CASE \/ ReleaseIncomplete(w) \/ ReleaseRest(w)
           \/ \E e \in Emails : RenderFails(w, e) \/ SettleRefused(w, e)
  BY <1>0, <1>1, <1>3 DEF ReleaseIncomplete, ReleaseRest, RenderFails, SettleRefused, WorkerTypes,
     Foreign
<1>4. CASE Crash(w) \/ ReleaseChunk(w) \/ SettleRejected(w) \/ MarkSent(w)
  <2>1. Forget(w) /\ pc'[v] = pc[v]
    BY <1>0, <1>4 DEF Crash, ReleaseChunk, SettleRejected, MarkSent, ChunkDone, WorkerTypes
  <2> QED
    BY <1>0, <1>1, <2>1, Forgotten DEF Foreign
<1> QED
  BY <1>2, <1>3, <1>4 DEF Letting

LEMMA OneWorkerSteps ==
    ASSUME Table, [Next]_vars, NEW v \in Workers
    PROVE  \/ Foreign(v)
           \/ Claim(v) \/ (\E b : Pins(v, b)) \/ \E S : Letting(v, S)
<1>0. TypeOK /\ WorkerTypes /\ Base
  BY TypeParts DEF Table, Base
<1>1. ASSUME NEW e \in Emails, Enqueue(e) \/ ComesDue(e) \/ LeavesWindow(e)
      PROVE  Foreign(v)
  BY <1>1 DEF Enqueue, ComesDue, LeavesWindow, workerVars, Foreign
<1>2. ASSUME NEW w \in Workers, w # v, Claim(w)
      PROVE  Foreign(v)
  <2>1. hold'[v] = hold[v]
    BY <1>0, <1>2, Claiming DEF Claims
  <2> QED
    BY <1>0, <1>2, <2>1 DEF Claim, WorkerTypes, Foreign
<1>3. ASSUME NEW w \in Workers, w # v, NEW b, Pins(w, b)
      PROVE  Foreign(v)
  BY <1>0, <1>3 DEF Pins, WorkerTypes, Foreign
<1>4. ASSUME NEW w \in Workers, w # v, NEW S, Letting(w, S)
      PROVE  Foreign(v)
  BY <1>0, <1>4, LettingForeign
<1>5. CASE UNCHANGED vars
  BY <1>5 DEF vars, workerVars, Foreign
<1> QED
  BY <1>0, <1>1, <1>2, <1>3, <1>4, <1>5, StepKinds

(* A chunk in hand loses the rows its worker lets go of. *)
LEMMA ShrunkChunk ==
    ASSUME Table, NEW v \in Workers, NEW S, Drops(v, S), chunk'[v] = chunk[v] \ S,
           pc'[v] \notin {"idle", "claimed", "looping"}
    PROVE  ChunkOK(v)'
<1>1. /\ DOMAIN hold'[v] = DOMAIN hold[v] \ S
      /\ \A e \in DOMAIN hold'[v] : hold'[v][e] = hold[v][e]
  BY DEF Drops
<1>2. ChunkOK(v) /\ chunk[v] \in SUBSET Emails
  BY DEF Table, Base, ChunksOK, TypeOK
<1>3. IsFiniteSet(chunk[v]) /\ Cardinality(chunk[v]) \in Nat /\ chunk'[v] \subseteq chunk[v]
  BY <1>2, EmailsFinite
<1>4. Cardinality(chunk'[v]) <= Cardinality(chunk[v]) /\ Cardinality(chunk'[v]) \in Nat
  <2>1. chunk'[v] \in SUBSET Emails
    BY <1>2, <1>3
  <2> QED
    BY <1>3, <2>1, FS_Subset, EmailsFinite
<1>5. Cardinality(chunk'[v]) <= ChunkSize
  BY <1>2, <1>3, <1>4, EmailAssumption DEF ChunkOK
<1>6. chunk'[v] \subseteq DOMAIN hold'[v]
  BY <1>1, <1>2 DEF ChunkOK
<1>7. \A e, f \in chunk'[v] :
        /\ hold'[v][e].batch = hold'[v][f].batch
        /\ hold'[v][e].batch = {} => hold'[v][e].attempts = hold'[v][f].attempts
  BY <1>1, <1>2, <1>3, <1>6 DEF ChunkOK
<1>8. \A e \in chunk'[v], f \in DOMAIN hold'[v] :
        hold'[v][f].batch = hold'[v][e].batch /\ hold'[v][e].batch # {} => f \in chunk'[v]
  BY <1>1, <1>2, <1>3, <1>6 DEF ChunkOK
<1> QED
  BY <1>5, <1>6, <1>7, <1>8 DEF ChunkOK

LEMMA EmptyChunk ==
    ASSUME NEW v \in Workers, chunk'[v] = {}, pc'[v] = "idle" => DOMAIN hold'[v] = {}
    PROVE  ChunkOK(v)'
<1>1. Cardinality({}) <= ChunkSize
  <2>1. Cardinality({}) = 0 /\ ChunkSize \in Nat
    BY FS_EmptySet, EmailAssumption
  <2> QED
    BY <2>1
<1> QED
  BY <1>1 DEF ChunkOK

LEMMA ChunksStep == Table /\ [Next]_vars => ChunksOK'
<1> SUFFICES ASSUME Table, [Next]_vars, NEW v \in Workers
             PROVE  ChunkOK(v)'
  BY DEF ChunksOK
<1>0. TypeOK /\ WorkerTypes /\ Base /\ ChunkOK(v)
  BY TypeParts DEF Table, Base, ChunksOK
<1>1. CASE Foreign(v)
  BY <1>0, <1>1 DEF Foreign, ChunkOK
<1>2. CASE Claim(v)
  <2>1. chunk'[v] = {} /\ pc'[v] = "claimed"
    BY <1>0, <1>2 DEF Claim, ChunkOK, WorkerTypes
  <2> QED
    BY <2>1, EmptyChunk
<1>3. ASSUME NEW b, Pins(v, b)
      PROVE  ChunkOK(v)'
  BY <1>0, <1>3 DEF Pins, ChunkOK, WorkerTypes
<1>4. ASSUME NEW S, Letting(v, S), Drops(v, S)
      PROVE  ChunkOK(v)'
  <2>1. CASE ReleaseIncomplete(v) \/ ReleaseRest(v) \/ DrainDone(v)
    <3>1. chunk'[v] = {}
      BY <1>0, <2>1 DEF ReleaseIncomplete, ReleaseRest, DrainDone, ChunkOK
    <3>2. pc'[v] = "idle" => DOMAIN hold'[v] = {}
      <4>1. CASE DrainDone(v)
        BY <4>1 DEF DrainDone, NoHold
      <4>2. CASE ~DrainDone(v)
        BY <1>0, <2>1, <4>2 DEF ReleaseIncomplete, ReleaseRest, WorkerTypes
      <4> QED
        BY <4>1, <4>2
    <3> QED
      BY <3>1, <3>2, EmptyChunk
  <2>2. CASE \/ Crash(v) \/ ReleaseChunk(v) \/ SettleRejected(v) \/ MarkSent(v)
    <3>1. Forget(v)
      BY <2>2 DEF Crash, ReleaseChunk, SettleRejected, MarkSent, ChunkDone
    <3>2. pc'[v] = "looping" \/ hold'[v] = NoHold
      BY <1>0, <2>2 DEF Crash, ReleaseChunk, SettleRejected, MarkSent, ChunkDone, WorkerTypes, TypeOK
    <3>3. pc'[v] = "idle" => DOMAIN hold'[v] = {}
      BY <3>2 DEF NoHold
    <3> QED
      BY <1>0, <3>1, <3>3, Forgotten, EmptyChunk
  <2>3. CASE \E e \in Emails : (RenderFails(v, e) \/ SettleRefused(v, e)) /\ S = {e}
    <3>1. chunk'[v] = chunk[v] \ S /\ pc'[v] \notin {"idle", "claimed", "looping"}
      BY <1>0, <2>3 DEF RenderFails, SettleRefused, WorkerTypes
    <3> QED
      BY <1>4, <3>1, ShrunkChunk
  <2>4. CASE NextChunk(v)
    <3>1. PICK first \in DOMAIN hold[v] :
            chunk' = [chunk EXCEPT ![v] = {e \in Group(v, first) :
                        Cardinality({f \in Group(v, first) : f < e}) < ChunkSize}]
      BY <2>4 DEF NextChunk
    <3> DEFINE C == {e \in Group(v, first) :
                       Cardinality({f \in Group(v, first) : f < e}) < ChunkSize}
    <3>2. chunk'[v] = C /\ pc'[v] = "rendering" /\ hold' = hold
      BY <1>0, <2>4, <3>1 DEF NextChunk, WorkerTypes
    <3> HIDE DEF C
    <3>3. /\ C \subseteq DOMAIN hold[v] /\ Cardinality(C) <= ChunkSize
          /\ \A e, f \in C : /\ hold[v][e].batch = hold[v][f].batch
                             /\ hold[v][e].batch = {} => hold[v][e].attempts = hold[v][f].attempts
          /\ \A e \in C, f \in DOMAIN hold[v] :
               hold[v][f].batch = hold[v][e].batch /\ hold[v][e].batch # {} => f \in C
      BY TakingChunk DEF C
    <3> QED
      BY <3>2, <3>3 DEF ChunkOK
  <2>5. CASE /\ S = {}
             /\ \/ ProviderAccepts(v) \/ ProviderRecalls(v) \/ Answered(v) \/ Unsent(v)
                \/ AssignBatch(v)
    <3>1. chunk'[v] = chunk[v]
      BY <2>5 DEF ProviderAccepts, ProviderRecalls, Answered, Unsent, AssignBatch
    <3>2. \/ pc'[v] \notin {"idle", "claimed", "looping"}
          \/ pc'[v] = "looping" /\ chunk[v] = {}
      BY <1>0, <2>5 DEF ProviderAccepts, ProviderRecalls, Answered, Unsent, AssignBatch, WorkerTypes
    <3>3. CASE pc'[v] \notin {"idle", "claimed", "looping"}
      BY <1>4, <2>5, <3>1, <3>3, ShrunkChunk
    <3>4. CASE pc'[v] = "looping" /\ chunk[v] = {}
      BY <3>1, <3>4, EmptyChunk
    <3> QED
      BY <3>2, <3>3, <3>4
  <2> QED
    BY <1>4, <2>1, <2>2, <2>3, <2>4, <2>5 DEF Letting, Moves
<1> QED
  BY <1>0, <1>1, <1>2, <1>3, <1>4, OneWorkerSteps, LettingWrites DEF Writes

-----------------------------------------------------------------------------
(* Sends. *)

(* What a worker knows of a chunk it sends stays true of a part of it.      *)
LEMMA SendsStep == Table /\ [Next]_vars => SendsOK'
<1> SUFFICES ASSUME Table, [Next]_vars, NEW v \in Workers
             PROVE  SendOK(v)'
  BY DEF SendsOK
<1>0. TypeOK /\ WorkerTypes /\ Base /\ ChunkOK(v) /\ SendOK(v) /\ chunk[v] \subseteq Emails
  BY TypeParts DEF Table, Base, ChunksOK, SendsOK, WorkerTypes
<1>1. \A e \in chunk[v] : /\ row[e].batch # {} => row'[e].batch # {}
                          /\ delivered[e] > 0 => delivered'[e] > 0
  BY <1>0, Monotone
<1>2. CASE Foreign(v)
  BY <1>0, <1>1, <1>2 DEF Foreign, SendOK
<1>3. CASE answer'[v] = "unsent" /\ pc'[v] \notin {"sending", "waiting"}
  BY <1>3 DEF SendOK
<1>4. CASE Claim(v)
  <2>1. answer'[v] = "unsent" /\ pc'[v] = "claimed"
    BY <1>0, <1>4 DEF Claim, SendOK, WorkerTypes
  <2> QED
    BY <1>3, <2>1
<1>5. ASSUME NEW b, Pins(v, b)
      PROVE  SendOK(v)'
  <2>1. /\ answer'[v] = "unsent" /\ pc'[v] \in {"sending", "settling"} /\ key'[v] = b
        /\ pc'[v] = "sending" => \A e \in chunk[v] : Current(v, e)
        /\ UNCHANGED <<chunk, hold>> /\ chunk[v] # {}
    BY <1>0, <1>5 DEF Pins, WorkerTypes
  <2>2. pc'[v] = "sending" => \A e \in chunk[v] : row'[e].batch = b
    BY <1>0, <1>5, <2>1 DEF Pins
  <2>3. b # {} /\ (b = chunk[v] \/ \A e \in chunk[v] : hold[v][e].batch = b)
    BY <1>5 DEF Pins
  <2> QED
    BY <2>1, <2>2, <2>3 DEF SendOK
<1>6. ASSUME NEW S, Letting(v, S)
      PROVE  SendOK(v)'
  <2>1. CASE ReleaseIncomplete(v) \/ ReleaseRest(v) \/ DrainDone(v) \/ NextChunk(v)
    <3>1. answer'[v] = "unsent" /\ pc'[v] \notin {"sending", "waiting"}
      BY <1>0, <2>1 DEF ReleaseIncomplete, ReleaseRest, DrainDone, NextChunk, SendOK, WorkerTypes
    <3> QED
      BY <1>3, <3>1
  <2>2. CASE \/ Crash(v) \/ ReleaseChunk(v) \/ SettleRejected(v) \/ MarkSent(v)
    <3>1. Forget(v) /\ pc'[v] \in {"idle", "looping"}
      BY <1>0, <2>2 DEF Crash, ReleaseChunk, SettleRejected, MarkSent, ChunkDone, WorkerTypes
    <3>2. answer'[v] = "unsent"
      BY <1>0, <3>1, Forgotten
    <3> QED
      BY <1>3, <3>1, <3>2
  <2>3. ASSUME NEW e \in Emails, RenderFails(v, e) \/ SettleRefused(v, e)
        PROVE  SendOK(v)'
    <3>1. /\ chunk'[v] \subseteq chunk[v] /\ pc'[v] \in {"rendering", "settling"}
          /\ pc'[v] = pc[v] /\ answer'[v] = answer[v] /\ refused'[v] = refused[v]
      BY <1>0, <2>3 DEF RenderFails, SettleRefused, WorkerTypes
    <3> QED
      BY <1>0, <1>1, <3>1 DEF SendOK
  <2>4. CASE AssignBatch(v) /\ pc'[v] \in {"looping", "settling"}
    <3>1. answer'[v] \in {answer[v], "unsent"} /\ pc[v] = "rendering"
      BY <1>0, <2>4 DEF AssignBatch, WorkerTypes
    <3>2. answer'[v] = "unsent"
      BY <1>0, <3>1 DEF SendOK
    <3>3. pc'[v] \notin {"sending", "waiting"}
      BY <2>4
    <3> QED
      BY <1>3, <3>2, <3>3
  <2>5. CASE ProviderAccepts(v) \/ ProviderRecalls(v)
    <3>1. /\ chunk'[v] = chunk[v] /\ pc[v] = "sending" /\ pc'[v] = "waiting"
          /\ answer'[v] = answer[v]
      BY <1>0, <2>5 DEF ProviderAccepts, ProviderRecalls, WorkerTypes
    <3> QED
      BY <1>0, <1>1, <3>1 DEF SendOK
  <2>6. CASE Unsent(v)
    <3>1. /\ chunk'[v] = chunk[v] /\ pc[v] = "sending" /\ pc'[v] = "settling"
          /\ answer'[v] \in {"retryable", "rejected"}
      BY <1>0, <2>6 DEF Unsent, WorkerTypes
    <3> QED
      BY <1>0, <1>1, <3>1 DEF SendOK
  <2>7. CASE Answered(v)
    <3>1. chunk'[v] = chunk[v] /\ pc[v] = "waiting" /\ pc'[v] = "settling"
      BY <1>0, <2>7 DEF Answered, WorkerTypes
    <3>2. answer'[v] = "ok" =>
            \E a \in accepted : a.key = IdempotencyKey(v) /\ refused'[v] = a.refused
      BY <1>0, <2>7 DEF Answered, WorkerTypes
    <3>3. answer'[v] = "ok" => \A e \in chunk[v] \ refused'[v] : delivered[e] > 0
      BY <3>2 DEF Table, TakenOK, IdempotencyKey
    <3> QED
      BY <1>0, <1>1, <3>1, <3>3 DEF SendOK
  <2> QED
    BY <1>6, <2>1, <2>2, <2>3, <2>4, <2>5, <2>6, <2>7 DEF Letting, Moves
<1> QED
  BY <1>2, <1>4, <1>5, <1>6, OneWorkerSteps

LEMMA TakenStep == Table /\ [Next]_vars => TakenOK'
<1> SUFFICES ASSUME Table, [Next]_vars, NEW a \in accepted', NEW e \in a.key[2] \ a.refused
             PROVE  delivered'[e] > 0
  BY DEF TakenOK
<1>0. TypeOK /\ ProviderTypes
  BY TypeParts DEF Table, Base
<1>1. CASE a \in accepted
  <2>1. e \in Emails /\ delivered[e] > 0
    BY <1>0, <1>1 DEF Table, TakenOK, ProviderTypes
  <2> QED
    BY <2>1, Monotone
<1>2. CASE a \notin accepted
  <2>1. PICK w \in Workers : ProviderAccepts(w)
    BY <1>2, OnlyTheProviderSends
  <2>2. PICK no \in SUBSET chunk[w] :
          /\ accepted' = accepted \cup {[key |-> IdempotencyKey(w), refused |-> no]}
          /\ delivered' = [f \in Emails |-> IF f \in chunk[w] \ no THEN delivered[f] + 1
                                                                   ELSE delivered[f]]
    BY <2>1 DEF ProviderAccepts
  <2>3. e \in chunk[w] \ no
    BY <1>2, <2>2 DEF IdempotencyKey
  <2>4. e \in Emails
    BY <1>0, <2>3 DEF TypeOK
  <2>5. delivered[e] \in Nat /\ delivered'[e] = delivered[e] + 1
    BY <1>0, <2>2, <2>3, <2>4, RowTypes
  <2> QED
    BY <2>5
<1> QED
  BY <1>1, <1>2

LEMMA SentStep == Table /\ [Next]_vars => SentWasDelivered'
<1> SUFFICES ASSUME Table, [Next]_vars, NEW e \in Emails, row'[e].status = "sent"
             PROVE  delivered'[e] > 0
  BY DEF SentWasDelivered
<1>0. TypeOK /\ Base
  BY DEF Table, Base
<1>1. ASSUME delivered[e] > 0
      PROVE  delivered'[e] > 0
  BY <1>1, Monotone
<1>2. ASSUME row'[e].status = row[e].status
      PROVE  delivered'[e] > 0
  BY <1>1, <1>2 DEF Table, SentWasDelivered
<1>3. ASSUME NEW f \in Emails, Enqueue(f)
      PROVE  row'[e].status = row[e].status
  BY <1>0, <1>3, Enqueuing
<1>4. ASSUME NEW f \in Emails, ComesDue(f) \/ LeavesWindow(f)
      PROVE  row'[e].status = row[e].status
  BY <1>0, <1>4, ComingDue DEF LeavesWindow, RowSame
<1>5. ASSUME NEW w \in Workers, Claim(w)
      PROVE  row'[e].status = row[e].status
  BY <1>0, <1>5, Claiming DEF Claims
<1>6. ASSUME NEW w \in Workers, NEW b, Pins(w, b)
      PROVE  row'[e].status = row[e].status
  BY <1>6 DEF Pins
<1>7. ASSUME NEW w \in Workers, NEW S, Letting(w, S)
      PROVE  row'[e].status = row[e].status \/ delivered[e] > 0
  <2>1. RowSame(e) \/ ReleasedRow(w, e) \/ SettledRow(w, e)
    BY <1>0, <1>7, LettingWrites DEF Writes
  <2> QED
    BY <2>1 DEF RowSame, ReleasedRow, SettledRow
<1>8. UNCHANGED vars => row'[e].status = row[e].status
  BY DEF vars
<1> QED
  BY <1>0, <1>1, <1>2, <1>3, <1>4, <1>5, <1>6, <1>7, <1>8, StepKinds

-----------------------------------------------------------------------------
(* Types, and what is marked sent. *)

LEMMA BaseInit == Init => Base
<1> SUFFICES ASSUME Init
             PROVE  Base
  OBVIOUS
<1>1. TypeOK
  <2>1. row \in [Emails -> Row]
    <3>1. [status |-> "none", attempts |-> 0, due |-> FALSE, batch |-> {}] \in Row
      BY EmailAssumption DEF Row
    <3> QED
      BY <3>1 DEF Init
  <2>2. \A w \in Workers : DOMAIN hold[w] \subseteq Emails /\ hold[w] \in [DOMAIN hold[w] -> Job]
    BY DEF Init, NoHold
  <2> QED
    BY <2>1, <2>2, EmailAssumption DEF Init, TypeOK
<1>2. ChunksOK
  <2>1. Cardinality({}) = 0 /\ ChunkSize \in Nat
    BY FS_EmptySet, EmailAssumption
  <2> QED
    BY <2>1 DEF Init, ChunksOK, ChunkOK, NoHold
<1>3. SendsOK
  BY DEF Init, SendsOK, SendOK
<1> QED
  BY <1>1, <1>2, <1>3, LeasesInit DEF Base

LEMMA TableStep == Table /\ [Next]_vars => Table'
BY TypeStep, LeasesStep, ChunksStep, SendsStep, RowsStep, HoldsStep, TakenStep, SentStep
   DEF Table, Base

LEMMA TableInvariance == Spec => []Table
<1>1. Init => Table
  BY BaseInit, TableInit DEF Table
<1> QED
  BY <1>1, TableStep, PTL DEF Spec

(* Whatever the emails, the workers and the limits, rows, worker steps and  *)
(* provider counters are well formed.                                       *)
THEOREM TypeCorrect == Spec => []TypeOK
<1>1. Table => TypeOK
  BY DEF Table, Base
<1> QED
  BY <1>1, TableInvariance, PTL

(* However often workers crash, overlap or lose answers, a row that         *)
(* markSent settled was delivered: the provider's answer is one to this     *)
(* chunk under this key, and what it refused was taken out before.          *)
THEOREM MarkedSentWasSent == Spec => []SentWasDelivered
<1>1. Table => SentWasDelivered
  BY DEF Table
<1> QED
  BY <1>1, TableInvariance, PTL

-----------------------------------------------------------------------------
(* The refinement of DeliveryQueue, step by step. *)

LEMMA ItemsMove ==
    ASSUME NEW S \in SUBSET Emails, NEW from, NEW to,
           \A e \in S : QueueStatus(e) \in from /\ QueueStatus(e)' = to,
           \A e \in Emails \ S : QueueStatus(e)' = QueueStatus(e)
    PROVE  Queue!Move(S, from, to)
<1>1. \A e \in Emails : ItemStatus[e] = QueueStatus(e)
  BY DEF ItemStatus
<1>2. ItemStatus' = [e \in Emails |-> IF e \in S THEN to ELSE ItemStatus[e]]
  BY <1>1 DEF ItemStatus
<1> QED
  BY <1>1, <1>2 DEF Queue!Move

LEMMA KeptStutters ==
    ASSUME \A e \in Emails : row'[e].status = row[e].status, announced' = announced
    PROVE  UNCHANGED <<ItemStatus, announced>>
<1>1. \A e \in Emails : QueueStatus(e)' = QueueStatus(e)
  BY DEF QueueStatus
<1>2. ItemStatus' = ItemStatus
  BY <1>1 DEF ItemStatus
<1> QED
  BY <1>2

LEMMA QueueInit == Init => Queue!Init
BY DEF Init, Queue!Init, ItemStatus, QueueStatus

LEMMA EnqueueRefines ==
    ASSUME TypeOK, NEW e \in Emails, Enqueue(e)
    PROVE  Queue!Next
<1>1. /\ row[e].status = "none" /\ row'[e].status = "pending" /\ announced' = announced
      /\ \A f \in Emails : f # e => row'[f] = row[f]
  BY Enqueuing DEF Enqueue
<1>2. Queue!Move({e}, {"absent"}, "pending")
  <2>1. QueueStatus(e) = "absent" /\ QueueStatus(e)' = "pending"
    BY <1>1 DEF QueueStatus
  <2>2. \A f \in Emails \ {e} : QueueStatus(f)' = QueueStatus(f)
    BY <1>1 DEF QueueStatus
  <2> QED
    BY <2>1, <2>2, ItemsMove
<1> QED
  BY <1>1, <1>2 DEF Queue!Next, Queue!Enqueue

(* A worker announces the first deaths it writes, and only those: its lease *)
(* of a dead row is one it claimed dead.                                    *)
LEMMA FailureRefines ==
    ASSUME Base, NEW w \in Workers, NEW S \in SUBSET DOMAIN hold[w],
           NEW to \in {"pending", "dead", "failed"}, MaySettle(w, S, to), SettleFailures(w, S, to)
    PROVE  Queue!Next \/ UNCHANGED <<ItemStatus, announced>>
<1>0. TypeOK
  BY DEF Base
<1>1. CASE UNCHANGED <<row, announced, loose>>
  BY <1>1, KeptStutters
<1>2. CASE /\ row' = [e \in Emails |-> IF e \in Leased(w, S)
                                     THEN [row[e] EXCEPT !.status = to, !.due = FALSE]
                                     ELSE row[e]]
           /\ announced' = [e \in Emails |->
                IF to # "pending" /\ Announces(w, S, e) THEN announced[e] + 1 ELSE announced[e]]
           /\ loose' = IF to = "failed" THEN loose \cup LeftBehind(Leased(w, S)) ELSE loose
  <2>1. \A e \in Emails : row'[e].status = IF e \in Leased(w, S) THEN to ELSE row[e].status
    <3>1. SetsStatus(w, S, to)
      BY <1>2 DEF SetsStatus
    <3>2. loose' = loose \cup (IF to \in {"sent", "failed"} THEN LeftBehind(Leased(w, S)) ELSE {})
      BY <1>2
    <3> QED
      BY <1>0, <3>1, <3>2, SettleRows
  <2>2. ASSUME NEW e \in Leased(w, S)
        PROVE  /\ e \in Emails /\ row[e].status \in {"pending", "dead"}
               /\ row[e].status = hold[w][e].status
    <3>1. e \in DOMAIN hold[w] /\ Unsettled(e) /\ row[e].attempts = hold[w][e].attempts
      BY <2>2 DEF Leased
    <3>2. e \in Emails /\ hold[w][e].status \in {"pending", "dead"} /\ hold[w][e].attempts \in Nat
      BY <1>0, <3>1, HoldTypes
    <3>3. LeaseOK(w, e)
      BY <3>1 DEF Base, LeasesOK
    <3> QED
      BY <3>1, <3>2, <3>3 DEF LeaseOK, Unsettled
  <2>3. CASE to = "pending"
    <3>1. \A e \in Emails : row'[e].status = row[e].status
      BY <2>1, <2>2, <2>3 DEF MaySettle
    <3>2. announced' = announced
      <4>1. announced \in [Emails -> Nat] /\ announced' = [e \in Emails |-> announced[e]]
        BY <1>0, <1>2, <2>3 DEF TypeOK
      <4> QED
        BY <4>1
    <3> QED
      BY <3>1, <3>2, KeptStutters
  <2>4. CASE to # "pending"
    <3> DEFINE D == {e \in Leased(w, S) : row[e].status = "pending"}
    <3>1. D \in SUBSET Emails
      BY <2>2
    <3>2. \A e \in D : QueueStatus(e) \in {"pending"} /\ QueueStatus(e)' = "dead"
      BY <2>1, <2>4, <3>1 DEF QueueStatus
    <3>3. \A e \in Emails \ D : QueueStatus(e)' = QueueStatus(e)
      BY <2>1, <2>2, <2>4 DEF QueueStatus
    <3>4. \A e \in Emails : Announces(w, S, e) <=> e \in D
      BY <2>2 DEF Announces
    <3> HIDE DEF D
    <3>5. announced' = [e \in Emails |-> IF e \in D THEN announced[e] + 1 ELSE announced[e]]
      BY <1>2, <2>4, <3>4
    <3>6. Queue!Move(D, {"pending"}, "dead")
      BY <3>1, <3>2, <3>3, ItemsMove
    <3> QED
      BY <3>1, <3>5, <3>6 DEF Queue!Next, Queue!Die
  <2> QED
    BY <2>3, <2>4
<1> QED
  BY <1>1, <1>2 DEF SettleFailures

LEMMA SentRefines ==
    ASSUME Base, NEW w \in Workers, MarkSent(w)
    PROVE  Queue!Next \/ UNCHANGED <<ItemStatus, announced>>
<1>0. TypeOK /\ announced' = announced
  BY DEF Base, MarkSent
<1>1. CASE UNCHANGED <<row, loose>>
  BY <1>0, <1>1, KeptStutters
<1>2. CASE /\ row' = [e \in Emails |-> IF e \in Leased(w, chunk[w])
                                        THEN [row[e] EXCEPT !.status = "sent", !.due = FALSE]
                                        ELSE row[e]]
           /\ loose' = loose \cup LeftBehind(Leased(w, chunk[w]))
  <2> DEFINE L == Leased(w, chunk[w])
  <2>1. \A e \in Emails : row'[e].status = IF e \in L THEN "sent" ELSE row[e].status
    <3>1. SetsStatus(w, chunk[w], "sent")
      BY <1>2 DEF SetsStatus
    <3>2. loose' = loose \cup (IF "sent" \in {"sent", "failed"} THEN LeftBehind(Leased(w, chunk[w])) ELSE {})
      BY <1>2
    <3> QED
      BY <1>0, <3>1, <3>2, SendingDone, SettleRows
  <2>2. L \in SUBSET Emails /\ \A e \in L : row[e].status \in {"pending", "dead"}
    BY <1>0 DEF Leased, Unsettled, TypeOK
  <2> HIDE DEF L
  <2>3. \A e \in L : QueueStatus(e) \in {"pending", "dead"} /\ QueueStatus(e)' = "settled"
    BY <2>1, <2>2 DEF QueueStatus
  <2>4. \A e \in Emails \ L : QueueStatus(e)' = QueueStatus(e)
    BY <2>1 DEF QueueStatus
  <2>5. Queue!Move(L, {"pending", "dead"}, "settled")
    BY <2>2, <2>3, <2>4, ItemsMove
  <2> QED
    BY <1>0, <2>2, <2>5 DEF Queue!Next, Queue!Deliver
<1> QED
  BY <1>1, <1>2 DEF MarkSent

(* The other steps neither move an item nor announce a death. *)
LEMMA QuietSteps ==
    ASSUME Base,
           \/ \E e \in Emails : ComesDue(e) \/ LeavesWindow(e)
           \/ \E w \in Workers :
                \/ Claim(w) \/ ReleaseIncomplete(w) \/ NextChunk(w) \/ ReleaseRest(w)
                \/ DrainDone(w) \/ AssignBatch(w) \/ ProviderAccepts(w) \/ ProviderRecalls(w)
                \/ Answered(w) \/ Unsent(w) \/ ReleaseChunk(w) \/ Crash(w)
           \/ UNCHANGED vars
    PROVE  UNCHANGED <<ItemStatus, announced>>
<1>0. TypeOK
  BY DEF Base
<1>1. announced' = announced
  BY DEF ComesDue, LeavesWindow, Claim, ReleaseIncomplete, NextChunk, ReleaseRest, DrainDone,
         AssignBatch, ProviderAccepts, ProviderRecalls, Answered, Unsent, ReleaseChunk, Crash, vars
<1>2. ASSUME NEW e \in Emails PROVE row'[e].status = row[e].status
  <2>1. ASSUME NEW f \in Emails, ComesDue(f)
        PROVE  row'[e].status = row[e].status
    BY <1>0, <2>1, ComingDue DEF RowSame
  <2>2. ASSUME NEW w \in Workers, Claim(w)
        PROVE  row'[e].status = row[e].status
    BY <1>0, <2>2, Claiming DEF Claims
  <2>3. ASSUME NEW w \in Workers, NEW b, Pins(w, b)
        PROVE  row'[e].status = row[e].status
    BY <2>3 DEF Pins
  <2>4. ASSUME NEW w \in Workers, NEW S \in SUBSET DOMAIN hold[w], NEW due \in BOOLEAN, Release(w, S, due)
        PROVE  row'[e].status = row[e].status
    BY <1>0, <2>4, ReleaseRows DEF RowSame, ReleasedRow
  <2>5. ASSUME NEW w \in Workers, ReleaseIncomplete(w) \/ ReleaseRest(w) \/ ReleaseChunk(w)
        PROVE  row'[e].status = row[e].status
    <3>1. CASE ReleaseIncomplete(w)
      <4> DEFINE S == {g \in DOMAIN hold[w] : ~IsWholeBatch(w, Group(w, g))}
      <4>1. S \in SUBSET DOMAIN hold[w] /\ Release(w, S, TRUE)
        BY <3>1 DEF ReleaseIncomplete
      <4> HIDE DEF S
      <4> QED
        BY <2>4, <4>1
    <3>2. CASE ReleaseRest(w)
      BY <2>4, <3>2 DEF ReleaseRest
    <3>3. CASE ReleaseChunk(w)
      <4>1. chunk[w] \in SUBSET DOMAIN hold[w] /\ (answer[w] = "unsent") \in BOOLEAN
        BY DEF Base, ChunksOK, ChunkOK
      <4> QED
        BY <2>4, <3>3, <4>1 DEF ReleaseChunk
    <3> QED
      BY <2>5, <3>1, <3>2, <3>3
  <2>6. ASSUME \/ \E f \in Emails : LeavesWindow(f)
               \/ \E w \in Workers : Moves(w) \/ Crash(w)
               \/ UNCHANGED vars
        PROVE  row' = row
    BY <2>6 DEF LeavesWindow, Moves, NextChunk, DrainDone, AssignBatch, ProviderAccepts,
       ProviderRecalls, Answered, Unsent, Crash, vars
  <2>7. \A w \in Workers : AssignBatch(w) => Moves(w) \/ \E b : Pins(w, b)
    BY Pinning
  <2> QED
    BY <2>1, <2>2, <2>3, <2>5, <2>6, <2>7 DEF Moves
<1> QED
  BY <1>1, <1>2, KeptStutters

LEMMA QueueStep == Table /\ [Next]_vars => [Queue!Next]_<<ItemStatus, announced>>
<1> SUFFICES ASSUME Table, [Next]_vars
             PROVE  Queue!Next \/ UNCHANGED <<ItemStatus, announced>>
  OBVIOUS
<1>0. TypeOK /\ Base
  BY DEF Table, Base
<1>1. ASSUME NEW e \in Emails, Enqueue(e)
      PROVE  Queue!Next
  BY <1>0, <1>1, EnqueueRefines
<1>2. ASSUME NEW w \in Workers, NEW e \in Emails, RenderFails(w, e) \/ SettleRefused(w, e)
      PROVE  Queue!Next \/ UNCHANGED <<ItemStatus, announced>>
  <2>1. /\ {e} \in SUBSET DOMAIN hold[w] /\ MaySettle(w, {e}, "failed")
        /\ SettleFailures(w, {e}, "failed")
    BY <1>0, <1>2, OneFails
  <2> QED
    BY <1>0, <2>1, FailureRefines
<1>3. ASSUME NEW w \in Workers, SettleRejected(w)
      PROVE  Queue!Next \/ UNCHANGED <<ItemStatus, announced>>
  BY <1>0, <1>3, ChunkFails, FailureRefines
<1>4. ASSUME NEW w \in Workers, MarkSent(w)
      PROVE  Queue!Next \/ UNCHANGED <<ItemStatus, announced>>
  BY <1>0, <1>4, SentRefines
<1>5. ASSUME \/ \E e \in Emails : ComesDue(e) \/ LeavesWindow(e)
             \/ \E w \in Workers :
                  \/ Claim(w) \/ ReleaseIncomplete(w) \/ NextChunk(w) \/ ReleaseRest(w)
                  \/ DrainDone(w) \/ AssignBatch(w) \/ ProviderAccepts(w) \/ ProviderRecalls(w)
                  \/ Answered(w) \/ Unsent(w) \/ ReleaseChunk(w) \/ Crash(w)
             \/ UNCHANGED vars
      PROVE  UNCHANGED <<ItemStatus, announced>>
  BY <1>0, <1>5, QuietSteps
<1> QED
  BY <1>1, <1>2, <1>3, <1>4, <1>5 DEF Next

(* Whatever the emails, the workers and the limits, the table behaves as a  *)
(* DeliveryQueue that loses nothing: a first death is announced in the step *)
(* that writes it, no settle that wrote nothing and no failing replay       *)
(* announces, and no late settle revives a row (settleFailures, markSent).  *)
THEOREM EmailsAreAQueue == Spec => ImplementsQueue
<1>1. Init => Queue!Init
  BY QueueInit
<1>2. Table /\ [Next]_vars => [Queue!Next]_<<ItemStatus, announced>>
  BY QueueStep
<1> QED
  BY <1>1, <1>2, TableInvariance, PTL DEF Spec, ImplementsQueue, Queue!Spec

-----------------------------------------------------------------------------
(* Leases that no longer know the batch of their row. *)

(* The worker may still pin a batch on the row. *)
Unassigned(w, e) == Holds(w, e) /\ (e \notin chunk[w] \/ pc[w] = "rendering")

(* Somebody else pinned a batch meanwhile, and its lease was revived. *)
StrayOK(w, e) ==
    Unassigned(w, e) /\ Current(w, e) /\ hold[w][e].batch # row[e].batch =>
      /\ e \in loose
      /\ \A f \in Emails : Unsettled(f) /\ row[f].batch = row[e].batch => f \in loose
StraysOK == \A w \in Workers : \A e \in DOMAIN hold[w] : StrayOK(w, e)

(* The batch of a row that left the replay window cannot be sent whole. *)
StaleOK == \A e \in stale, f \in Emails :
    Unsettled(e) /\ Unsettled(f) /\ f # e /\ row[f].batch = row[e].batch => f \in loose

(* Somebody pinned b on f after w claimed it without a batch: whoever else  *)
(* is in b was overtaken with f.                                            *)
PinnedOver(w, f, b) ==
    \/ row[f].batch = b
    \/ \E u \in Workers : /\ Holds(u, f) /\ hold[u][f].batch = b
                          /\ hold[u][f].attempts > hold[w][f].attempts
FreshWith(w, f, e) ==
    Unassigned(w, e) /\ hold[w][e].batch = {} /\ hold[w][e].attempts = hold[w][f].attempts
OvertakenOK(w, f) ==
    Unassigned(w, f) /\ hold[w][f].batch = {} =>
      \A b \in SUBSET Emails : b # {} /\ PinnedOver(w, f, b) =>
        \A e \in b : FreshWith(w, f, e) /\ Current(w, e) => e \in loose
OvertakensOK == \A w \in Workers : \A e \in DOMAIN hold[w] : OvertakenOK(w, e)

Strays == StraysOK /\ StaleOK /\ OvertakensOK

(* The facts about one held row. *)
LEMMA HeldRow ==
    ASSUME Table, NEW w \in Workers, NEW e, Holds(w, e)
    PROVE  /\ e \in Emails /\ e \in DOMAIN hold[w] /\ LeaseOK(w, e) /\ HoldOK(w, e) /\ RowOK(e)
           /\ hold[w][e].attempts \in Nat /\ row[e].attempts \in Nat
           /\ hold[w][e].batch \in SUBSET Emails /\ row[e].batch \in SUBSET Emails
           /\ hold[w][e].status \in {"pending", "dead"}
<1>1. e \in DOMAIN hold[w] /\ TypeOK
  BY DEF Holds, Table, Base
<1>2. e \in Emails
  BY <1>1, HoldTypes
<1> QED
  BY <1>1, <1>2, HoldTypes, RowTypes DEF Table, Base, LeasesOK, HoldsOK, RowsOK

(* What a worker that lets go of rows does to those of the others. *)
LEMMA LettingRows ==
    ASSUME Table, NEW w \in Workers, NEW S, Letting(w, S), NEW e \in Emails
    PROVE  /\ row'[e].batch = row[e].batch /\ loose \subseteq loose' /\ stale' = stale
           /\ Unsettled(e)' => Unsettled(e)
           /\ Replayable(e)' => Replayable(e)
           /\ Unsettled(e) /\ ~Unsettled(e)' => BatchLoosened(e)
           /\ \A v \in Workers : Holds(v, e)' => Holds(v, e) /\ hold'[v][e] = hold[v][e]
           /\ \A v \in Workers : Holds(v, e)' /\ Current(v, e)' =>
                \/ Current(v, e)
                \/ /\ e \in loose' /\ BatchLoosened(e)
<1>0. TypeOK /\ Base /\ Writes(w, S)
  BY LettingWrites DEF Table, Base
<1>1. /\ loose \subseteq loose' /\ stale' = stale
      /\ \A v \in Workers : Holds(v, e)' => /\ Holds(v, e) /\ hold'[v][e] = hold[v][e]
                                            /\ v = w => e \notin S
  BY <1>0 DEF Writes, WriteTypes, Drops, Holds
<1>2. \A v \in Workers : Holds(v, e) => /\ LeaseOK(v, e) /\ hold[v][e].attempts \in Nat
                                        /\ row[e].attempts \in Nat
  BY HeldRow
<1>3. RowSame(e) \/ (e \in S /\ ReleasedRow(w, e)) \/ (e \in S /\ SettledRow(w, e))
  BY <1>0 DEF Writes
<1>4. CASE RowSame(e)
  BY <1>1, <1>4 DEF RowSame, Unsettled, Replayable, Current
<1>5. CASE e \in S /\ ReleasedRow(w, e)
  <2>1. /\ row'[e].batch = row[e].batch /\ row'[e].status = row[e].status
        /\ row'[e].attempts = row[e].attempts - 1
    BY <1>5 DEF ReleasedRow
  <2>2. ASSUME NEW v \in Workers, Holds(v, e)', Current(v, e)'
        PROVE  e \in loose' /\ BatchLoosened(e)
    <3>1. v # w /\ Holds(v, e) /\ hold[v][e].attempts = row[e].attempts - 1
      BY <1>1, <1>5, <2>1, <2>2 DEF Current
    <3> QED
      BY <1>5, <3>1 DEF ReleasedRow
  <2> QED
    BY <1>1, <2>1, <2>2 DEF Unsettled, Replayable
<1>6. CASE e \in S /\ SettledRow(w, e)
  <2>1. /\ row'[e].batch = row[e].batch /\ row'[e].attempts = row[e].attempts
        /\ row'[e].status \in {"pending", "dead", "sent", "failed"}
        /\ Holds(w, e) /\ Current(w, e)
    BY <1>6 DEF SettledRow
  <2>2. row'[e].status = "pending" => row[e].status = "pending"
    BY <1>2, <1>6, <2>1 DEF SettledRow, LeaseOK, Current, Unsettled
  <2>3. Unsettled(e)
    BY <2>1 DEF Current
  <2>4. Replayable(e)' => Replayable(e)
    BY <1>1, <2>2, <2>3 DEF Replayable, Unsettled
  <2>5. ~Unsettled(e)' => BatchLoosened(e)
    BY <1>6, <2>1 DEF SettledRow, Unsettled
  <2>6. \A v \in Workers : Holds(v, e)' /\ Current(v, e)' => Current(v, e)
    BY <1>1, <2>1, <2>3 DEF Current
  <2> QED
    BY <1>1, <2>1, <2>3, <2>4, <2>5, <2>6
<1> QED
  BY <1>3, <1>4, <1>5, <1>6

(* It assigns none of those it keeps. *)
LEMMA LettingAssigns ==
    ASSUME Table, NEW w \in Workers, NEW S, Letting(w, S), NEW v \in Workers, NEW e \in Emails,
           Unassigned(v, e)'
    PROVE  Unassigned(v, e)
<1>0. TypeOK /\ WorkerTypes /\ Base /\ ChunkOK(v) /\ Writes(w, S)
  BY LettingWrites, TypeParts DEF Table, Base, ChunksOK
<1>1. Holds(v, e) /\ (v = w => e \notin S)
  BY <1>0 DEF Unassigned, Holds, Writes, Drops
<1>2. ASSUME chunk'[v] = chunk[v], pc'[v] = "rendering" => pc[v] = "rendering"
      PROVE  Unassigned(v, e)
  BY <1>1, <1>2 DEF Unassigned
<1>3. CASE v # w
  <2>1. Foreign(v)
    BY <1>0, <1>3, LettingForeign
  <2> QED
    BY <1>2, <2>1 DEF Foreign
<1>4. CASE v = w
  <2>1. CASE \/ ReleaseIncomplete(w) \/ ReleaseRest(w) \/ DrainDone(w) \/ NextChunk(w)
    <3>1. chunk[w] = {}
      BY <1>0, <1>4, <2>1 DEF ReleaseIncomplete, ReleaseRest, DrainDone, NextChunk, ChunkOK
    <3> QED
      BY <1>1, <1>4, <3>1 DEF Unassigned
  <2>2. CASE (ReleaseChunk(w) \/ SettleRejected(w) \/ MarkSent(w)) /\ S = chunk[w]
    BY <1>1, <1>4, <2>2 DEF Unassigned
  <2>3. CASE Crash(w) /\ S = DOMAIN hold[w]
    BY <1>1, <1>4, <2>3 DEF Holds
  <2>4. CASE \E f \in Emails : (RenderFails(w, f) \/ SettleRefused(w, f)) /\ S = {f}
    <3>1. chunk'[w] = chunk[w] \ S /\ pc'[w] = pc[w]
      BY <1>0, <2>4 DEF RenderFails, SettleRefused, WorkerTypes
    <3> QED
      BY <1>1, <1>4, <3>1 DEF Unassigned
  <2>5. CASE \/ ProviderAccepts(w) \/ ProviderRecalls(w) \/ Answered(w) \/ Unsent(w)
             \/ AssignBatch(w) /\ pc'[w] \in {"looping", "settling"}
    <3>1. chunk'[w] = chunk[w] /\ pc'[w] # "rendering"
      BY <1>0, <2>5 DEF ProviderAccepts, ProviderRecalls, Answered, Unsent, AssignBatch, WorkerTypes
    <3> QED
      BY <1>2, <1>4, <3>1
  <2> QED
    BY <2>1, <2>2, <2>3, <2>4, <2>5 DEF Letting, Moves
<1> QED
  BY <1>3, <1>4

(* Without stray leases a chunk gets a batch that is new: nobody has it and *)
(* nobody read it.                                                          *)
LEMMA NewBatch ==
    ASSUME Table, Strays, NEW w \in Workers, NEW b, Pins(w, b), NEW x \in chunk[w], Current(w, x),
           row[x].batch # b, x \notin loose
    PROVE  /\ b = chunk[w] /\ \A e \in chunk[w] : hold[w][e].batch = {}
           /\ row[x].batch = {}
           /\ \A f \in Emails : row[f].batch # b
           /\ \A u \in Workers : \A g \in DOMAIN hold[u] : hold[u][g].batch # b
<1>0. /\ TypeOK /\ ChunkOK(w) /\ pc[w] = "rendering" /\ b \in SUBSET Emails /\ b # {}
      /\ chunk[w] \subseteq DOMAIN hold[w]
  BY PinnedBatch DEF Table, Base, ChunksOK, Pins, ChunkOK
<1>1. \A e \in chunk[w] : Holds(w, e) /\ Unassigned(w, e)
  BY <1>0 DEF Holds, Unassigned
<1>2. x \in DOMAIN hold[w] /\ hold[w][x].batch = row[x].batch
  BY <1>0, <1>1 DEF Strays, StraysOK, StrayOK
<1>3. b = chunk[w] /\ \A e \in chunk[w] : hold[w][e].batch = {}
  BY <1>2 DEF Pins
<1>4. row[x].batch = {}
  BY <1>2, <1>3
<1>5. ASSUME NEW f \in chunk[w], PinnedOver(w, f, b)
      PROVE  FALSE
  <2>1. FreshWith(w, f, x)
    BY <1>0, <1>1, <1>3 DEF FreshWith, ChunkOK
  <2>2. x \in b /\ OvertakenOK(w, f)
    BY <1>0, <1>3 DEF Strays, OvertakensOK
  <2>3. b \in SUBSET Emails /\ b # {}
    BY <1>0
  <2>4. Unassigned(w, f) /\ hold[w][f].batch = {}
    BY <1>1, <1>3
  <2>5. x \in loose
    BY <1>5, <2>1, <2>2, <2>3, <2>4 DEF OvertakenOK
  <2> QED
    BY <2>5
<1>6. ASSUME NEW f \in Emails, row[f].batch = b
      PROVE  FALSE
  <2>1. f \in chunk[w]
    BY <1>0, <1>3, <1>6 DEF Table, RowsOK, RowOK, BatchOK
  <2> QED
    BY <1>5, <1>6, <2>1 DEF PinnedOver
<1>7. ASSUME NEW u \in Workers, NEW g \in DOMAIN hold[u], hold[u][g].batch = b
      PROVE  FALSE
  <2>1. Holds(u, g) /\ g \in chunk[w]
    <3>1. Holds(u, g)
      BY DEF Holds
    <3>2. HoldOK(u, g)
      BY <3>1, HeldRow
    <3> QED
      BY <1>0, <1>3, <1>7, <3>1, <3>2 DEF HoldOK, BatchOK
  <2>2. Holds(w, g) /\ hold[w][g].batch = {} /\ u # w
    BY <1>0, <1>1, <1>3, <1>7, <2>1
  <2>3. hold[u][g].attempts \in Nat /\ hold[w][g].attempts \in Nat
    BY <2>1, <2>2, HeldRow
  <2>4. hold[u][g].attempts # hold[w][g].attempts
    <3>1. LeaseOK(w, g)
      BY <2>2, HeldRow
    <3> QED
      BY <2>1, <2>2, <3>1 DEF LeaseOK
  <2>5. ~ (hold[u][g].attempts < hold[w][g].attempts)
    <3>1. HoldOK(u, g)
      BY <2>1, HeldRow
    <3> QED
      BY <1>0, <1>7, <2>2, <3>1 DEF HoldOK
  <2>6. hold[u][g].attempts > hold[w][g].attempts
    BY <2>3, <2>4, <2>5
  <2> QED
    BY <1>5, <1>7, <2>1, <2>6 DEF PinnedOver
<1> QED
  BY <1>3, <1>4, <1>6, <1>7

(* A row that changes its batch is loose already, or was in none. *)
LEMMA Rebatched ==
    ASSUME Table, Strays, NEW w \in Workers, NEW b, Pins(w, b), NEW x \in chunk[w], Current(w, x),
           row[x].batch # b, row[x].batch # {} \/ hold[w][x].batch # {}
    PROVE  x \in loose /\ \A f \in Emails : Unsettled(f) /\ row[f].batch = row[x].batch => f \in loose
<1>1. Unassigned(w, x) /\ x \in DOMAIN hold[w]
  BY DEF Table, Base, ChunksOK, ChunkOK, Pins, Holds, Unassigned
<1>2. hold[w][x].batch # row[x].batch
  BY DEF Pins
<1> QED
  BY <1>1, <1>2 DEF Strays, StraysOK, StrayOK

LEMMA LettingStrays ==
    ASSUME Table, Strays, NEW w \in Workers, NEW S, Letting(w, S)
    PROVE  Strays'
<1>0. /\ loose \subseteq loose' /\ stale' = stale
      /\ \A e \in Emails : row'[e].batch = row[e].batch /\ (Unsettled(e)' => Unsettled(e))
  <2>1. loose \subseteq loose' /\ stale' = stale
    BY LettingWrites DEF Table, Writes, WriteTypes
  <2> QED
    BY <2>1, LettingRows
<1>1. ASSUME NEW v \in Workers, NEW e \in DOMAIN hold'[v], Unassigned(v, e)'
      PROVE  /\ e \in Emails /\ e \in DOMAIN hold[v] /\ hold'[v][e] = hold[v][e] /\ Unassigned(v, e)
             /\ Current(v, e)' => Current(v, e) \/ (e \in loose' /\ BatchLoosened(e))
  <2>1. e \in Emails
    BY TypeStep, DroppedTypes, LettingWrites DEF Table, Base, Writes, TypeOK
  <2>2. Holds(v, e)'
    BY DEF Holds
  <2>3. Unassigned(v, e)
    BY <1>1, <2>1, LettingAssigns
  <2> QED
    BY <2>1, <2>2, <2>3, LettingRows DEF Holds
<1>2. StraysOK'
  <2> SUFFICES ASSUME NEW v \in Workers, NEW e \in DOMAIN hold'[v],
                      Unassigned(v, e)', Current(v, e)', hold'[v][e].batch # row'[e].batch
               PROVE  /\ e \in loose'
                      /\ \A f \in Emails : Unsettled(f)' /\ row'[f].batch = row'[e].batch => f \in loose'
    BY DEF StraysOK, StrayOK
  <2>1. /\ e \in Emails /\ e \in DOMAIN hold[v] /\ hold'[v][e] = hold[v][e] /\ Unassigned(v, e)
        /\ Current(v, e) \/ (e \in loose' /\ BatchLoosened(e))
    BY <1>1
  <2>2. CASE Current(v, e)
    <3>1. StrayOK(v, e)
      BY <2>1 DEF Strays, StraysOK
    <3> QED
      BY <1>0, <2>1, <2>2, <3>1 DEF StrayOK
  <2>3. CASE e \in loose' /\ BatchLoosened(e)
    <3>1. row[e].batch # {}
      <4>1. HoldOK(v, e)
        BY <2>1, HeldRow DEF Unassigned
      <4> QED
        BY <1>0, <2>1, <4>1 DEF HoldOK
    <3> QED
      BY <1>0, <2>1, <2>3, <3>1 DEF BatchLoosened, Unsettled
  <2> QED
    BY <2>1, <2>2, <2>3
<1>3. StaleOK'
  <2>1. \A e \in stale : e \in Emails
    BY DEF Table, Base, TypeOK
  <2> QED
    BY <1>0, <2>1 DEF StaleOK, Strays
<1>4. OvertakensOK'
  <2> SUFFICES ASSUME NEW v \in Workers, NEW f \in DOMAIN hold'[v],
                      Unassigned(v, f)', hold'[v][f].batch = {},
                      NEW b \in SUBSET Emails, b # {}, PinnedOver(v, f, b)', NEW e \in b,
                      FreshWith(v, f, e)', Current(v, e)'
               PROVE  e \in loose'
    BY DEF OvertakensOK, OvertakenOK
  <2>1. /\ f \in Emails /\ f \in DOMAIN hold[v] /\ hold'[v][f] = hold[v][f] /\ Unassigned(v, f)
    BY <1>1
  <2>2. /\ e \in Emails /\ hold'[v][e] = hold[v][e] /\ Unassigned(v, e)
        /\ Current(v, e) \/ e \in loose'
    <3>1. e \in DOMAIN hold'[v] /\ Unassigned(v, e)'
      BY DEF FreshWith, Unassigned, Holds
    <3> QED
      BY <1>1, <3>1
  <2>3. PinnedOver(v, f, b)
    <3>1. \A u \in Workers : Holds(u, f)' => Holds(u, f) /\ hold'[u][f] = hold[u][f]
      BY <2>1, LettingRows
    <3> QED
      BY <1>0, <2>1, <3>1 DEF PinnedOver
  <2>4. FreshWith(v, f, e)
    BY <2>1, <2>2 DEF FreshWith
  <2>5. OvertakenOK(v, f) /\ hold[v][f].batch = {}
    BY <2>1 DEF Strays, OvertakensOK
  <2>6. Current(v, e) => e \in loose
    BY <2>1, <2>3, <2>4, <2>5 DEF OvertakenOK
  <2> QED
    BY <1>0, <2>2, <2>6
<1> QED
  BY <1>2, <1>3, <1>4 DEF Strays

(* Steps under which no row a worker holds changes what it knows. *)
LEMMA KeepingStrays ==
    ASSUME Table, Strays, UNCHANGED <<hold, chunk, pc>>, loose \subseteq loose',
           \A e \in Emails : /\ row'[e].batch = row[e].batch
                             /\ \A v \in Workers : Holds(v, e) => (Current(v, e)' => Current(v, e))
                             /\ Unsettled(e)' /\ row[e].batch # {} => Unsettled(e)
    PROVE  StraysOK' /\ OvertakensOK'
<1>1. \A v \in Workers : \A e : /\ Holds(v, e)' <=> Holds(v, e)
                                /\ Unassigned(v, e)' <=> Unassigned(v, e)
  BY DEF Holds, Unassigned
<1>2. StraysOK'
  <2> SUFFICES ASSUME NEW v \in Workers, NEW e \in DOMAIN hold[v],
                      Unassigned(v, e), Current(v, e)', hold[v][e].batch # row'[e].batch
               PROVE  /\ e \in loose'
                      /\ \A f \in Emails : Unsettled(f)' /\ row'[f].batch = row'[e].batch => f \in loose'
    BY <1>1 DEF StraysOK, StrayOK
  <2>1. Holds(v, e) /\ e \in Emails /\ HoldOK(v, e) /\ StrayOK(v, e)
    BY HeldRow DEF Unassigned, Strays, StraysOK
  <2>2. Current(v, e) /\ row[e].batch # {}
    BY <2>1 DEF HoldOK
  <2> QED
    BY <2>1, <2>2 DEF StrayOK
<1>3. OvertakensOK'
  <2> SUFFICES ASSUME NEW v \in Workers, NEW f \in DOMAIN hold[v],
                      Unassigned(v, f), hold[v][f].batch = {},
                      NEW b \in SUBSET Emails, b # {}, PinnedOver(v, f, b)', NEW e \in b,
                      FreshWith(v, f, e)', Current(v, e)'
               PROVE  e \in loose'
    BY <1>1 DEF OvertakensOK, OvertakenOK
  <2>1. Holds(v, f) /\ f \in Emails /\ OvertakenOK(v, f)
    BY HeldRow DEF Unassigned, Strays, OvertakensOK
  <2>2. PinnedOver(v, f, b)
    BY <1>1, <2>1 DEF PinnedOver
  <2>3. FreshWith(v, f, e) /\ Current(v, e)
    BY <1>1 DEF FreshWith, Unassigned
  <2> QED
    BY <2>1, <2>2, <2>3 DEF OvertakenOK
<1> QED
  BY <1>2, <1>3

LEMMA EmailStrays ==
    ASSUME Table, Strays, NEW x \in Emails, Enqueue(x) \/ ComesDue(x) \/ LeavesWindow(x)
    PROVE  Strays'
<1>0. TypeOK /\ Base
  BY DEF Table, Base
<1>1. UNCHANGED <<hold, chunk, pc>> /\ loose \subseteq loose'
  BY DEF Enqueue, ComesDue, LeavesWindow, workerVars
<1>2. CASE Enqueue(x)
  <2>1. /\ row[x].status = "none" /\ row[x].batch = {} /\ row'[x].batch = {}
        /\ UNCHANGED <<stale, loose>> /\ \A f \in Emails : f # x => row'[f] = row[f]
    BY <1>0, <1>2, Enqueuing DEF Enqueue, Table, RowsOK, RowOK
  <2>2. \A v \in Workers : ~Holds(v, x)
    BY <2>1, HeldRow DEF LeaseOK
  <2>3. StraysOK' /\ OvertakensOK'
    BY <1>1, <2>1, <2>2, KeepingStrays DEF Current, Unsettled
  <2>4. StaleOK'
    <3> SUFFICES ASSUME NEW e \in stale, NEW f \in Emails, Unsettled(e)', Unsettled(f)', f # e,
                        row'[f].batch = row'[e].batch
                 PROVE  f \in loose
      BY <2>1 DEF StaleOK
    <3>1. e \in Emails /\ RowOK(e)
      BY <1>0 DEF Table, RowsOK, TypeOK
    <3>2. e # x
      BY <2>1, <3>1 DEF RowOK
    <3>3. Unsettled(e) /\ row[e].batch # {}
      BY <2>1, <3>1, <3>2 DEF RowOK, Unsettled
    <3>4. f # x
      BY <2>1, <3>1, <3>2, <3>3
    <3> QED
      BY <2>1, <3>1, <3>2, <3>3, <3>4 DEF Strays, StaleOK, Unsettled
  <2> QED
    BY <2>3, <2>4 DEF Strays
<1>3. CASE ComesDue(x)
  <2>1. UNCHANGED <<stale, loose>> /\ \A e \in Emails : RowSame(e)
    BY <1>0, <1>3, ComingDue DEF ComesDue
  <2>2. StraysOK' /\ OvertakensOK'
    BY <1>1, <2>1, KeepingStrays DEF RowSame, Current, Unsettled
  <2>3. StaleOK'
    BY <1>0, <2>1 DEF Strays, StaleOK, RowSame, Unsettled, TypeOK
  <2> QED
    BY <2>2, <2>3 DEF Strays
<1>4. CASE LeavesWindow(x)
  <2>1. /\ row' = row /\ stale' = stale \cup {x} /\ loose' = loose \cup LeftBehind({x})
        /\ row[x].status = "dead" /\ row[x].batch # {}
    BY <1>4 DEF LeavesWindow, Table, RowsOK, RowOK
  <2>2. StraysOK' /\ OvertakensOK'
    BY <1>1, <2>1, KeepingStrays DEF Current, Unsettled
  <2>3. StaleOK'
    <3> SUFFICES ASSUME NEW e \in stale', NEW f \in Emails, Unsettled(e), Unsettled(f), f # e,
                        row[f].batch = row[e].batch
                 PROVE  f \in loose'
      BY <2>1 DEF StaleOK, Unsettled
    <3>1. CASE e \in stale
      BY <2>1, <3>1 DEF Strays, StaleOK
    <3>2. CASE e = x
      BY <2>1, <3>2 DEF LeftBehind, Siblings
    <3> QED
      BY <2>1, <3>1, <3>2
  <2> QED
    BY <2>2, <2>3 DEF Strays
<1> QED
  BY <1>2, <1>3, <1>4

(* A claim reads the batch of the row, and makes older leases of it old. *)
LEMMA ClaimingStrays ==
    ASSUME Table, Strays, NEW w \in Workers, NEW T, Claim(w), Claims(w, T)
    PROVE  Strays'
<1>0. /\ TypeOK /\ ChunkOK(w) /\ pc[w] = "idle"
      /\ UNCHANGED <<stale, loose, chunk>> /\ \A v \in Workers : v # w => pc'[v] = pc[v]
  BY DEF Table, Base, TypeOK, ChunksOK, Claim
<1>1. /\ T \subseteq Emails /\ \A e \in T : Claimable(e)
      /\ \A v \in Workers : v # w => hold'[v] = hold[v]
      /\ DOMAIN hold'[w] = T
      /\ \A e \in T : /\ hold'[w][e].attempts = row[e].attempts + 1
                      /\ hold'[w][e].batch = row[e].batch
      /\ \A e \in Emails : /\ row'[e].status = row[e].status /\ row'[e].batch = row[e].batch
                           /\ row'[e].attempts = IF e \in T THEN row[e].attempts + 1
                                                            ELSE row[e].attempts
  BY DEF Claims
<1>2. ASSUME NEW v \in Workers, v # w, NEW e
      PROVE  /\ Holds(v, e)' <=> Holds(v, e)
             /\ Unassigned(v, e)' <=> Unassigned(v, e)
             /\ Holds(v, e) => (Current(v, e)' => Current(v, e))
  <2>1. /\ Holds(v, e)' <=> Holds(v, e)
        /\ Unassigned(v, e)' <=> Unassigned(v, e)
    BY <1>0, <1>1, <1>2 DEF Holds, Unassigned
  <2>2. ASSUME Holds(v, e), Current(v, e)'
        PROVE  Current(v, e)
    <3>1. /\ e \in Emails /\ LeaseOK(v, e) /\ hold[v][e].attempts \in Nat
          /\ row[e].attempts \in Nat
      BY <2>2, HeldRow
    <3> QED
      BY <1>1, <1>2, <2>2, <3>1 DEF Current, Unsettled, LeaseOK
  <2> QED
    BY <2>1, <2>2
<1>3. StraysOK'
  <2> SUFFICES ASSUME NEW v \in Workers, NEW e \in DOMAIN hold'[v],
                      Unassigned(v, e)', Current(v, e)', hold'[v][e].batch # row'[e].batch
               PROVE  /\ e \in loose'
                      /\ \A f \in Emails : Unsettled(f)' /\ row'[f].batch = row'[e].batch => f \in loose'
    BY DEF StraysOK, StrayOK
  <2>1. v # w
    BY <1>1
  <2>2. /\ Unassigned(v, e) /\ Current(v, e) /\ e \in Emails /\ hold'[v] = hold[v]
        /\ StrayOK(v, e)
    BY <1>1, <1>2, <2>1, HeldRow DEF Unassigned, Strays, StraysOK, Holds
  <2> QED
    BY <1>0, <1>1, <2>2 DEF StrayOK, Unsettled
<1>4. StaleOK'
  BY <1>0, <1>1 DEF Strays, StaleOK, Unsettled, TypeOK
<1>5. OvertakensOK'
  <2> SUFFICES ASSUME NEW v \in Workers, NEW f \in DOMAIN hold'[v],
                      Unassigned(v, f)', hold'[v][f].batch = {},
                      NEW b \in SUBSET Emails, b # {}, PinnedOver(v, f, b)', NEW e \in b,
                      FreshWith(v, f, e)', Current(v, e)'
               PROVE  e \in loose'
    BY DEF OvertakensOK, OvertakenOK
  <2>1. CASE v = w
    <3>1. f \in T /\ row[f].batch = {} /\ hold'[w][f].attempts = row[f].attempts + 1
      BY <1>1, <2>1
    <3>2. row'[f].batch # b
      BY <1>1, <3>1
    <3>3. PICK u \in Workers : /\ Holds(u, f)' /\ hold'[u][f].batch = b
                               /\ hold'[u][f].attempts > hold'[w][f].attempts
      BY <2>1, <3>2 DEF PinnedOver
    <3>4. u # w
      BY <1>1, <3>1, <3>3
    <3>5. Holds(u, f) /\ hold'[u] = hold[u]
      BY <1>1, <1>2, <3>3, <3>4
    <3>6. LeaseOK(u, f) /\ hold[u][f].attempts \in Nat /\ row[f].attempts \in Nat
      BY <3>5, HeldRow
    <3> QED
      BY <3>1, <3>3, <3>5, <3>6 DEF LeaseOK
  <2>2. CASE v # w
    <3>1. hold'[v] = hold[v] /\ Unassigned(v, f) /\ Holds(v, f) /\ f \in Emails
      BY <1>1, <1>2, <2>2, HeldRow DEF Unassigned
    <3>2. PinnedOver(v, f, b)
      <4>1. row'[f].batch = row[f].batch
        BY <1>1, <3>1
      <4>2. ASSUME NEW u \in Workers, Holds(u, f)', hold'[u][f].batch = b,
                   hold'[u][f].attempts > hold'[v][f].attempts
            PROVE  PinnedOver(v, f, b)
        <5>1. CASE u = w
          BY <1>1, <4>2, <5>1 DEF Holds, PinnedOver
        <5>2. CASE u # w
          BY <1>1, <1>2, <3>1, <4>2, <5>2 DEF PinnedOver
        <5> QED
          BY <5>1, <5>2
      <4> QED
        BY <4>1, <4>2 DEF PinnedOver
    <3>3. FreshWith(v, f, e) /\ Current(v, e)
      BY <1>2, <2>2, <3>1 DEF FreshWith, Unassigned
    <3>4. OvertakenOK(v, f) /\ hold[v][f].batch = {}
      BY <3>1 DEF Strays, OvertakensOK, Holds
    <3> QED
      BY <1>0, <3>1, <3>2, <3>3, <3>4 DEF OvertakenOK
  <2> QED
    BY <2>1, <2>2
<1> QED
  BY <1>3, <1>4, <1>5 DEF Strays

(* Facts about a pinned batch that every invariant needs. *)
LEMMA PinnedRows ==
    ASSUME Table, NEW w \in Workers, NEW b, Pins(w, b)
    PROVE  /\ UNCHANGED <<hold, chunk, stale>> /\ loose \subseteq loose' /\ b # {}
           /\ \A v \in Workers : v # w => pc'[v] = pc[v]
           /\ pc'[w] \in {"sending", "settling"} /\ pc[w] = "rendering"
           /\ chunk[w] \subseteq DOMAIN hold[w] /\ chunk[w] \subseteq Emails
           /\ \A v \in Workers : \A e : /\ Holds(v, e)' <=> Holds(v, e)
                                        /\ Unassigned(v, e)' =>
                                             Unassigned(v, e) /\ (v = w => e \notin chunk[w])
           /\ \A e \in Emails : /\ Unsettled(e)' <=> Unsettled(e)
                                /\ Replayable(e)' <=> Replayable(e)
                                /\ \A v \in Workers : Current(v, e)' <=> Current(v, e)
                                /\ row'[e].batch = IF e \in chunk[w] /\ Current(w, e)
                                                     THEN b ELSE row[e].batch
<1>1. /\ UNCHANGED <<hold, chunk, stale>> /\ loose \subseteq loose' /\ b # {}
      /\ pc[w] = "rendering"
  BY PinnedBatch DEF Pins
<1>2. ChunkOK(w) /\ WorkerTypes
  BY TypeParts DEF Table, Base, ChunksOK
<1>3. /\ \A v \in Workers : v # w => pc'[v] = pc[v]
      /\ pc'[w] \in {"sending", "settling"}
      /\ chunk[w] \subseteq DOMAIN hold[w] /\ chunk[w] \subseteq Emails
  BY <1>2 DEF Pins, ChunkOK, WorkerTypes
<1>4. \A e \in Emails : /\ Unsettled(e)' <=> Unsettled(e)
                        /\ Replayable(e)' <=> Replayable(e)
                        /\ \A v \in Workers : Current(v, e)' <=> Current(v, e)
                        /\ row'[e].batch = IF e \in chunk[w] /\ Current(w, e)
                                             THEN b ELSE row[e].batch
  BY <1>1 DEF Pins, Unsettled, Replayable, Current
<1>5. \A v \in Workers : \A e : /\ Holds(v, e)' <=> Holds(v, e)
                                /\ Unassigned(v, e)' =>
                                     Unassigned(v, e) /\ (v = w => e \notin chunk[w])
  BY <1>1, <1>3 DEF Holds, Unassigned
<1> QED
  BY <1>1, <1>3, <1>4, <1>5

(* The rows that had the batch before are loose once another joins them. *)
LEMMA JoinedRows ==
    ASSUME Table, NEW w \in Workers, NEW b, Pins(w, b), NEW x \in chunk[w], Current(w, x),
           row[x].batch # b, NEW f \in Emails, row[f].batch = b
    PROVE  f \in loose'
BY DEF Pins

LEMMA PinningStrays ==
    ASSUME Table, Strays, NEW w \in Workers, NEW b, Pins(w, b)
    PROVE  Strays'
<1> DEFINE New(e) == e \in chunk[w] /\ Current(w, e) /\ row[e].batch # b
<1>0. /\ UNCHANGED <<hold, chunk, stale>> /\ loose \subseteq loose' /\ b # {}
      /\ pc[w] = "rendering" /\ chunk[w] \subseteq DOMAIN hold[w] /\ chunk[w] \subseteq Emails
      /\ \A v \in Workers : \A e : /\ Holds(v, e)' <=> Holds(v, e)
                                   /\ Unassigned(v, e)' =>
                                        Unassigned(v, e) /\ (v = w => e \notin chunk[w])
      /\ \A e \in Emails : /\ Unsettled(e)' <=> Unsettled(e)
                           /\ \A v \in Workers : Current(v, e)' <=> Current(v, e)
                           /\ row'[e].batch = row[e].batch \/ (New(e) /\ row'[e].batch = b)
  BY PinnedRows
<1>1. ASSUME NEW e \in Emails, New(e), e \notin loose, NEW f \in Emails, row[f].batch = b
      PROVE  FALSE
  BY <1>1, NewBatch
<1>2. ASSUME NEW e \in Emails, New(e), NEW f \in Emails, row[f].batch = b
      PROVE  f \in loose'
  BY <1>2, JoinedRows
<1>3. ASSUME NEW e \in Emails, New(e), row[e].batch # {} \/ hold[w][e].batch # {}
      PROVE  e \in loose
  BY <1>3, Rebatched
<1>4. ASSUME NEW v \in Workers, NEW e \in Emails, New(e), v # w, Holds(v, e), Current(v, e)
      PROVE  FALSE
  <2>1. Holds(w, e) /\ LeaseOK(w, e)
    BY <1>0, <1>4, HeldRow DEF Holds
  <2> QED
    BY <1>4, <2>1 DEF LeaseOK, Current
<1> HIDE DEF New
<1>5. StraysOK'
  <2> SUFFICES ASSUME NEW v \in Workers, NEW e \in DOMAIN hold[v],
                      Unassigned(v, e)', Current(v, e)', hold[v][e].batch # row'[e].batch
               PROVE  /\ e \in loose'
                      /\ \A f \in Emails : Unsettled(f)' /\ row'[f].batch = row'[e].batch => f \in loose'
    BY <1>0 DEF StraysOK, StrayOK
  <2>1. /\ e \in Emails /\ Holds(v, e) /\ Unassigned(v, e) /\ Current(v, e)
        /\ v = w => e \notin chunk[w]
    BY <1>0, HeldRow DEF Unassigned
  <2>2. row'[e].batch = row[e].batch
    BY <1>0, <1>4, <2>1 DEF New
  <2>3. /\ e \in loose
        /\ \A f \in Emails : Unsettled(f) /\ row[f].batch = row[e].batch => f \in loose
    BY <2>1, <2>2 DEF Strays, StraysOK, StrayOK
  <2>4. ASSUME NEW f \in Emails, Unsettled(f)', row'[f].batch = row'[e].batch
        PROVE  f \in loose'
    <3>1. CASE row'[f].batch = row[f].batch
      BY <1>0, <2>2, <2>3, <2>4, <3>1
    <3>2. CASE New(f) /\ row'[f].batch = b
      BY <1>0, <1>1, <2>1, <2>2, <2>4, <3>2
    <3> QED
      BY <1>0, <3>1, <3>2
  <2> QED
    BY <1>0, <2>3, <2>4
<1>6. StaleOK'
  <2> SUFFICES ASSUME NEW e \in stale, NEW f \in Emails, Unsettled(e)', Unsettled(f)', f # e,
                      row'[f].batch = row'[e].batch
               PROVE  f \in loose'
    BY <1>0 DEF StaleOK
  <2>1. e \in Emails /\ RowOK(e) /\ Unsettled(e) /\ Unsettled(f)
    BY <1>0 DEF Table, Base, TypeOK, RowsOK
  <2>2. CASE New(e) /\ row'[e].batch = b
    <3>1. hold[w][e].batch # {} /\ b = hold[w][e].batch
      <4>1. row[e].status = "dead" /\ Holds(w, e) /\ Current(w, e)
        BY <1>0, <2>1, <2>2 DEF RowOK, Unsettled, New, Holds
      <4>2. LeaseOK(w, e) /\ HoldOK(w, e) /\ hold[w][e].attempts \in Nat
            /\ hold[w][e].status \in {"pending", "dead"}
        BY <4>1, HeldRow
      <4>3. hold[w][e].status = "dead"
        BY <4>1, <4>2 DEF LeaseOK, Current
      <4>4. hold[w][e].batch # {}
        BY <4>2, <4>3 DEF HoldOK
      <4> QED
        BY <2>2, <4>4 DEF Pins, New
    <3>2. CASE row'[f].batch = row[f].batch
      BY <1>2, <2>2, <2>1, <3>2
    <3>3. CASE New(f) /\ row'[f].batch = b
      <4>1. hold[w][f].batch # {}
        BY <2>2, <3>1, <3>3 DEF New, Pins
      <4> QED
        BY <1>0, <1>3, <3>3, <4>1
    <3> QED
      BY <1>0, <3>2, <3>3
  <2>3. CASE row'[e].batch = row[e].batch
    <3>1. CASE row'[f].batch = row[f].batch
      BY <1>0, <2>1, <2>3, <3>1 DEF Strays, StaleOK
    <3>2. CASE New(f) /\ row'[f].batch = b
      BY <1>0, <1>1, <2>1, <2>3, <3>2
    <3> QED
      BY <1>0, <3>1, <3>2
  <2> QED
    BY <1>0, <2>1, <2>2, <2>3
<1>7. OvertakensOK'
  <2> SUFFICES ASSUME NEW v \in Workers, NEW f \in DOMAIN hold[v],
                      Unassigned(v, f)', hold[v][f].batch = {},
                      NEW c \in SUBSET Emails, c # {}, PinnedOver(v, f, c)', NEW e \in c,
                      FreshWith(v, f, e)', Current(v, e)'
               PROVE  e \in loose
    BY <1>0 DEF OvertakensOK, OvertakenOK
  <2>1. /\ f \in Emails /\ Holds(v, f) /\ Unassigned(v, f) /\ (v = w => f \notin chunk[w])
        /\ OvertakenOK(v, f)
    BY <1>0, HeldRow DEF Unassigned, Strays, OvertakensOK
  <2>2. FreshWith(v, f, e) /\ Current(v, e) /\ Holds(v, e) /\ e \in Emails
    BY <1>0, HeldRow DEF FreshWith, Unassigned
  <2>3. CASE PinnedOver(v, f, c)
    BY <2>1, <2>2, <2>3 DEF OvertakenOK
  <2>4. CASE ~PinnedOver(v, f, c)
    <3>1. New(f) /\ c = b /\ v # w
      BY <1>0, <2>1, <2>4 DEF PinnedOver, New
    <3>2. Holds(w, f) /\ f \in chunk[w] /\ Current(w, f)
      BY <1>0, <3>1 DEF New, Holds
    <3>3. hold[v][f].attempts < hold[w][f].attempts
      <4>1. LeaseOK(v, f) /\ LeaseOK(w, f) /\ hold[v][f].attempts \in Nat
            /\ hold[w][f].attempts \in Nat /\ row[f].attempts \in Nat
        BY <2>1, <3>2, HeldRow
      <4> QED
        BY <2>1, <3>1, <3>2, <4>1 DEF LeaseOK, Current
    <3>4. hold[w][f].batch # b
      BY <2>4, <3>1, <3>2, <3>3, HeldRow DEF PinnedOver
    <3>5. b = chunk[w] /\ \A g \in chunk[w] : hold[w][g].batch = {}
      BY <3>2, <3>4 DEF Pins
    <3>6. Holds(w, e) /\ hold[w][e].attempts = hold[w][f].attempts
      <4>1. e \in chunk[w] /\ ChunkOK(w)
        BY <3>1, <3>5 DEF Table, Base, ChunksOK
      <4> QED
        BY <1>0, <3>2, <3>5, <4>1 DEF ChunkOK, Holds
    <3>7. hold[w][e].attempts <= row[e].attempts
      BY <3>6, HeldRow DEF LeaseOK
    <3>8. hold[v][f].attempts = row[e].attempts
      BY <2>2 DEF FreshWith, Current
    <3>9. /\ hold[v][f].attempts \in Nat /\ hold[w][f].attempts \in Nat /\ row[e].attempts \in Nat
      BY <2>1, <2>2, <3>2, HeldRow
    <3> QED
      BY <3>3, <3>6, <3>7, <3>8, <3>9
  <2> QED
    BY <2>3, <2>4
<1> QED
  BY <1>5, <1>6, <1>7 DEF Strays

LEMMA StraysInit == Init => Strays
BY DEF Init, Strays, StraysOK, StaleOK, OvertakensOK, NoHold

LEMMA StraysStep == Table /\ Strays /\ [Next]_vars => Strays'
<1> SUFFICES ASSUME Table, Strays, [Next]_vars
             PROVE  Strays'
  OBVIOUS
<1>0. Base /\ TypeOK
  BY DEF Table, Base
<1>1. ASSUME NEW w \in Workers, Claim(w)
      PROVE  Strays'
  BY <1>0, <1>1, Claiming, ClaimingStrays
<1>2. CASE UNCHANGED vars
  <2>1. UNCHANGED <<row, hold, chunk, pc, loose, stale>>
    BY <1>2 DEF vars, workerVars
  <2>2. StraysOK' /\ OvertakensOK'
    BY <2>1, KeepingStrays DEF Current, Unsettled
  <2>3. StaleOK'
    BY <2>1 DEF Strays, StaleOK, Unsettled
  <2> QED
    BY <2>2, <2>3 DEF Strays
<1> QED
  BY <1>0, <1>1, <1>2, StepKinds, EmailStrays, PinningStrays, LettingStrays

-----------------------------------------------------------------------------
(* Batches a worker holds whole. *)

(* The batch of f is still to be sent, and known to be complete. *)
InPlay(w, f) ==
    /\ Holds(w, f) /\ hold[w][f].batch # {}
    /\ pc[w] = "settling" => f \notin chunk[w]
    /\ pc[w] = "claimed" => IsWholeBatch(w, Group(w, f))
HoldsIn(w, e, b) == Holds(w, e) /\ hold[w][e].batch = b

(* Whoever may be sent under the batch is held with it, unless it is loose; *)
(* and everybody who is not settled is, unless f itself is loose.           *)
GatheredOK(w, f) ==
    InPlay(w, f) =>
      \A e \in Emails : row[e].batch = hold[w][f].batch =>
        /\ e \notin loose /\ Replayable(e) => HoldsIn(w, e, hold[w][f].batch)
        /\ f \notin loose /\ Unsettled(f) /\ row[f].batch = row[e].batch /\ Unsettled(e)
             => HoldsIn(w, e, hold[w][f].batch)
AllGathered == \A w \in Workers : \A f \in DOMAIN hold[w] : GatheredOK(w, f)

(* A batch that a claim found complete is all there. *)
LEMMA ClaimGathers ==
    ASSUME Table, Strays, NEW w \in Workers, NEW T, Claim(w), Claims(w, T),
           NEW f \in T, row[f].batch # {}, IsWholeBatch(w, Group(w, f))',
           NEW e \in Emails, row[e].batch = row[f].batch, Replayable(e)
    PROVE  e \in T
<1>0. TypeOK
  BY DEF Table, Base
<1>1. /\ T \subseteq Emails /\ \A g \in T : Claimable(g)
      /\ DOMAIN hold'[w] = T
      /\ \A g \in T : /\ hold'[w][g].batch = row[g].batch
                      /\ hold'[w][g].unsettled = UnsettledInBatch(g)
  BY DEF Claims
<1> DEFINE N == {g \in Siblings(f) : Unsettled(g) /\ Replayable(g)}
           G == {g \in T : row[g].batch = row[f].batch}
<1>2. Group(w, f)' = G
  <2>1. /\ Group(w, f)' = {g \in DOMAIN hold'[w] : hold'[w][g].batch = hold'[w][f].batch}
    BY <1>1 DEF Group
  <2> QED
    BY <1>1, <2>1
<1>3. G \subseteq N /\ f \in G /\ e \in N /\ N \in SUBSET Emails
  BY <1>1 DEF Siblings, Claimable, Replayable, Unsettled
<1>4. Cardinality(G) >= Cardinality(N)
  <2>1. Cardinality(Group(w, f)') >= hold'[w][f].unsettled
    BY <1>2, <1>3 DEF IsWholeBatch
  <2>2. hold'[w][f].unsettled = Cardinality(N)
    BY <1>1 DEF UnsettledInBatch
  <2> QED
    BY <1>2, <2>1, <2>2
<1> HIDE DEF N, G
<1>5. G = N
  <2>1. IsFiniteSet(N) /\ Cardinality(N) \in Nat /\ Cardinality(G) \in Nat
    BY <1>3, EmailsFinite
  <2>2. Cardinality(G) <= Cardinality(N) /\ (Cardinality(G) = Cardinality(N) => G = N)
    BY <1>3, <2>1, FS_Subset
  <2> QED
    BY <1>4, <2>1, <2>2
<1> QED
  BY <1>3, <1>5 DEF G

LEMMA ClaimingGathered ==
    ASSUME Table, Strays, AllGathered, NEW w \in Workers, NEW T, Claim(w), Claims(w, T)
    PROVE  AllGathered'
<1>0. /\ TypeOK /\ UNCHANGED <<stale, loose, chunk>> /\ pc'[w] = "claimed"
      /\ \A v \in Workers : v # w => pc'[v] = pc[v] /\ hold'[v] = hold[v]
      /\ \A e \in Emails : row'[e].status = row[e].status /\ row'[e].batch = row[e].batch
  BY DEF Table, Base, TypeOK, Claim, Claims
<1> SUFFICES ASSUME NEW v \in Workers, NEW f \in DOMAIN hold'[v], InPlay(v, f)',
                    NEW e \in Emails, row'[e].batch = hold'[v][f].batch,
                    \/ e \notin loose /\ Replayable(e)'
                    \/ f \notin loose /\ Unsettled(f)' /\ row'[f].batch = row'[e].batch
                       /\ Unsettled(e)'
             PROVE  e \in DOMAIN hold'[v] /\ hold'[v][e].batch = hold'[v][f].batch
  BY <1>0 DEF AllGathered, GatheredOK, HoldsIn, Holds
<1>1. CASE v # w
  <2>1. InPlay(v, f)
    BY <1>0, <1>1 DEF InPlay, Holds, IsWholeBatch, Group, Lane
  <2>2. GatheredOK(v, f) /\ f \in Emails
    BY <1>0, <1>1, <2>1, HeldRow DEF AllGathered, InPlay
  <2>3. HoldsIn(v, e, hold[v][f].batch)
    BY <1>0, <1>1, <2>1, <2>2 DEF GatheredOK, Replayable, Unsettled
  <2> QED
    BY <1>0, <1>1, <2>3 DEF HoldsIn, Holds
<1>2. CASE v = w
  <2>1. /\ T \subseteq Emails /\ f \in T /\ \A g \in T : Claimable(g)
        /\ DOMAIN hold'[w] = T /\ \A g \in T : hold'[w][g].batch = row[g].batch
    BY <1>2 DEF Claims
  <2>2. row[f].batch # {} /\ IsWholeBatch(w, Group(w, f))'
    BY <1>0, <1>2, <2>1 DEF InPlay
  <2>3. row[e].batch = row[f].batch
    BY <1>0, <1>2, <2>1
  <2>4. Replayable(e)
    <3>1. CASE Replayable(e)'
      BY <1>0, <3>1 DEF Replayable
    <3>2. CASE f \notin loose /\ Unsettled(e)' /\ ~Replayable(e)'
      <4>1. e \in stale /\ Unsettled(e) /\ Unsettled(f) /\ f # e
        BY <1>0, <2>1, <3>2 DEF Replayable, Unsettled, Claimable
      <4> QED
        BY <2>1, <2>3, <3>2, <4>1 DEF Strays, StaleOK
    <3> QED
      BY <3>1, <3>2
  <2>5. e \in T
    BY <2>1, <2>2, <2>3, <2>4, ClaimGathers
  <2> QED
    BY <1>2, <2>1, <2>3, <2>5 DEF HoldsIn, Holds
<1> QED
  BY <1>1, <1>2

(* What a worker lets go of, it does so batch by batch. *)
LEMMA TogetherDropped ==
    ASSUME Table, NEW w \in Workers, NEW S, Letting(w, S), NEW f \in DOMAIN hold'[w], InPlay(w, f)'
    PROVE  /\ f \in DOMAIN hold[w] /\ f \notin S /\ hold'[w][f] = hold[w][f] /\ InPlay(w, f)
           /\ \A e \in DOMAIN hold[w] : hold[w][e].batch = hold[w][f].batch => e \notin S
<1>0. TypeOK /\ WorkerTypes /\ Base /\ ChunkOK(w) /\ Drops(w, S)
  BY LettingWrites, TypeParts DEF Table, Base, ChunksOK, Writes
<1>1. f \in DOMAIN hold[w] /\ f \notin S /\ hold'[w][f] = hold[w][f] /\ hold[w][f].batch # {}
  BY <1>0 DEF Drops, InPlay
<1>2. CASE \/ (Moves(w) /\ S = {})
  <2>1. pc[w] \notin {"claimed", "settling"}
    BY <1>2 DEF Moves, NextChunk, DrainDone, ProviderAccepts, ProviderRecalls, Answered, Unsent,
       AssignBatch
  <2> QED
    BY <1>1, <1>2, <2>1 DEF InPlay, Holds
<1>3. CASE Crash(w) /\ S = DOMAIN hold[w]
  BY <1>1, <1>3
<1>4. CASE ReleaseIncomplete(w) /\ S = {e \in DOMAIN hold[w] : ~IsWholeBatch(w, Group(w, e))}
  <2>1. pc[w] = "claimed" /\ IsWholeBatch(w, Group(w, f))
    BY <1>1, <1>4 DEF ReleaseIncomplete
  <2>2. ASSUME NEW e \in DOMAIN hold[w], hold[w][e].batch = hold[w][f].batch
        PROVE  Group(w, e) = Group(w, f)
    BY <1>1, <2>2 DEF Group
  <2> QED
    BY <1>1, <1>4, <2>1, <2>2 DEF InPlay, Holds
<1>5. CASE ReleaseRest(w) /\ S = DOMAIN hold[w]
  BY <1>1, <1>5
<1>6. CASE (ReleaseChunk(w) \/ SettleRejected(w) \/ MarkSent(w)) /\ S = chunk[w]
  <2>1. pc[w] = "settling" /\ f \notin chunk[w]
    BY <1>1, <1>6 DEF ReleaseChunk, SettleRejected, MarkSent
  <2>2. \A e \in chunk[w] : hold[w][e].batch # hold[w][f].batch
    BY <1>0, <1>1, <2>1 DEF ChunkOK
  <2> QED
    BY <1>1, <1>6, <2>1, <2>2 DEF InPlay, Holds
<1>7. ASSUME NEW x \in Emails, RenderFails(w, x), S = {x}
      PROVE  /\ InPlay(w, f)
             /\ \A e \in DOMAIN hold[w] : hold[w][e].batch = hold[w][f].batch => e \notin S
  <2>1. pc[w] = "rendering" /\ x \in poison
    BY <1>7 DEF RenderFails
  <2>2. \A e \in DOMAIN hold[w] : hold[w][e].batch # {} => e \notin poison
    BY HeldRow DEF Holds, HoldOK, BatchOK
  <2> QED
    BY <1>1, <1>7, <2>1, <2>2 DEF InPlay, Holds
<1>8. ASSUME NEW x \in Emails, SettleRefused(w, x), S = {x}
      PROVE  /\ InPlay(w, f)
             /\ \A e \in DOMAIN hold[w] : hold[w][e].batch = hold[w][f].batch => e \notin S
  <2>1. pc[w] = "settling" /\ pc'[w] = "settling" /\ chunk'[w] = chunk[w] \ {x} /\ x \in chunk[w]
    BY <1>0, <1>8 DEF SettleRefused, Refusals, WorkerTypes
  <2>2. f \notin chunk[w]
    BY <1>1, <1>8, <2>1 DEF InPlay
  <2>3. hold[w][x].batch # hold[w][f].batch
    BY <1>0, <1>1, <2>1, <2>2 DEF ChunkOK
  <2> QED
    BY <1>1, <1>8, <2>1, <2>2, <2>3 DEF InPlay, Holds
<1> QED
  BY <1>1, <1>2, <1>3, <1>4, <1>5, <1>6, <1>7, <1>8 DEF Letting

LEMMA LettingGathered ==
    ASSUME Table, AllGathered, NEW w \in Workers, NEW S, Letting(w, S)
    PROVE  AllGathered'
<1>0. /\ Base /\ TypeOK /\ Drops(w, S)
  BY LettingWrites DEF Table, Base, Writes
<1> SUFFICES ASSUME NEW v \in Workers, NEW f \in DOMAIN hold'[v], InPlay(v, f)',
                    NEW e \in Emails, row'[e].batch = hold'[v][f].batch,
                    \/ e \notin loose' /\ Replayable(e)'
                    \/ f \notin loose' /\ Unsettled(f)' /\ row'[f].batch = row'[e].batch
                       /\ Unsettled(e)'
             PROVE  e \in DOMAIN hold'[v] /\ hold'[v][e].batch = hold'[v][f].batch
  BY DEF AllGathered, GatheredOK, HoldsIn, Holds
<1>1. /\ InPlay(v, f) /\ f \in DOMAIN hold[v] /\ hold'[v][f] = hold[v][f]
      /\ \A g \in DOMAIN hold[v] : hold[v][g].batch = hold[v][f].batch =>
           g \in DOMAIN hold'[v] /\ hold'[v][g] = hold[v][g]
  <2>1. CASE v # w
    <3>1. Foreign(v)
      BY <1>0, <2>1, LettingForeign
    <3>2. InPlay(v, f)
      BY <3>1 DEF Foreign, InPlay, Holds, IsWholeBatch, Group, Lane
    <3> QED
      BY <3>1, <3>2 DEF Foreign
  <2>2. CASE v = w
    BY <1>0, <2>2, TogetherDropped DEF Drops
  <2> QED
    BY <2>1, <2>2
<1>2. f \in Emails /\ GatheredOK(v, f)
  BY <1>1, HeldRow DEF InPlay, AllGathered
<1>3. /\ row[e].batch = hold[v][f].batch /\ row'[e].batch = row[e].batch
      /\ row'[f].batch = row[f].batch /\ loose \subseteq loose'
      /\ Replayable(e)' => Replayable(e)
      /\ Unsettled(e)' => Unsettled(e)
      /\ Unsettled(f)' => Unsettled(f)
  BY <1>1, <1>2, LettingRows
<1>4. HoldsIn(v, e, hold[v][f].batch)
  BY <1>1, <1>2, <1>3 DEF GatheredOK
<1> QED
  BY <1>1, <1>4 DEF HoldsIn, Holds

LEMMA PinningGathered ==
    ASSUME Table, Strays, AllGathered, NEW w \in Workers, NEW b, Pins(w, b)
    PROVE  AllGathered'
<1> DEFINE New(e) == e \in chunk[w] /\ Current(w, e) /\ row[e].batch # b
<1>0. /\ UNCHANGED <<hold, chunk>> /\ loose \subseteq loose'
      /\ \A v \in Workers : v # w => pc'[v] = pc[v]
      /\ pc'[w] \in {"sending", "settling"} /\ pc[w] = "rendering"
      /\ \A e \in Emails : /\ Unsettled(e)' <=> Unsettled(e)
                           /\ Replayable(e)' <=> Replayable(e)
                           /\ row'[e].batch = row[e].batch \/ (New(e) /\ row'[e].batch = b)
  BY PinnedRows
<1>1. ASSUME NEW x \in Emails, New(x), x \notin loose, NEW u \in Workers, NEW g \in DOMAIN hold[u],
             hold[u][g].batch = b
      PROVE  FALSE
  BY <1>1, NewBatch
<1>2. ASSUME NEW x \in Emails, New(x), NEW f \in Emails, row[f].batch = b
      PROVE  f \in loose'
  BY <1>2, JoinedRows
<1> HIDE DEF New
<1> SUFFICES ASSUME NEW v \in Workers, NEW f \in DOMAIN hold[v], InPlay(v, f)',
                    NEW e \in Emails, row'[e].batch = hold[v][f].batch,
                    \/ e \notin loose' /\ Replayable(e)'
                    \/ f \notin loose' /\ Unsettled(f)' /\ row'[f].batch = row'[e].batch
                       /\ Unsettled(e)'
             PROVE  e \in DOMAIN hold[v] /\ hold[v][e].batch = hold[v][f].batch
  BY <1>0 DEF AllGathered, GatheredOK, HoldsIn, Holds
<1>3. InPlay(v, f)
  BY <1>0 DEF InPlay, Holds, IsWholeBatch, Group, Lane
<1>4. f \in Emails /\ GatheredOK(v, f)
  BY <1>3, HeldRow DEF InPlay, AllGathered
<1>5. CASE e \notin loose' /\ Replayable(e)'
  <2>1. row[e].batch = hold[v][f].batch
    BY <1>0, <1>1, <1>5
  <2> QED
    BY <1>0, <1>3, <1>4, <1>5, <2>1 DEF GatheredOK, HoldsIn, Holds
<1>6. CASE f \notin loose' /\ Unsettled(f)' /\ row'[f].batch = row'[e].batch /\ Unsettled(e)'
  <2>1. row[f].batch = hold[v][f].batch
    BY <1>0, <1>1, <1>4, <1>6
  <2>2. row[e].batch = hold[v][f].batch
    BY <1>0, <1>2, <1>4, <1>6, <2>1
  <2> QED
    BY <1>0, <1>3, <1>4, <1>6, <2>1, <2>2 DEF GatheredOK, HoldsIn, Holds
<1> QED
  BY <1>5, <1>6

LEMMA KeepingGathered ==
    ASSUME Table, AllGathered, UNCHANGED <<hold, chunk, pc>>, loose \subseteq loose',
           \A e \in Emails : row[e].batch # {} =>
             /\ Replayable(e)' => Replayable(e)
             /\ Unsettled(e)' => Unsettled(e),
           \A e \in Emails : row'[e].batch = row[e].batch
    PROVE  AllGathered'
<1> SUFFICES ASSUME NEW v \in Workers, NEW f \in DOMAIN hold[v], InPlay(v, f)',
                    NEW e \in Emails, row'[e].batch = hold[v][f].batch,
                    \/ e \notin loose' /\ Replayable(e)'
                    \/ f \notin loose' /\ Unsettled(f)' /\ row'[f].batch = row'[e].batch
                       /\ Unsettled(e)'
             PROVE  e \in DOMAIN hold[v] /\ hold[v][e].batch = hold[v][f].batch
  BY DEF AllGathered, GatheredOK, HoldsIn, Holds
<1>1. InPlay(v, f)
  BY DEF InPlay, Holds, IsWholeBatch, Group, Lane
<1>2. f \in Emails /\ GatheredOK(v, f) /\ hold[v][f].batch # {}
  BY <1>1, HeldRow DEF InPlay, AllGathered
<1> QED
  BY <1>1, <1>2 DEF GatheredOK, HoldsIn, Holds

LEMMA GatheredInit == Init => AllGathered
BY DEF Init, AllGathered, NoHold

LEMMA GatheredStep == Table /\ Strays /\ AllGathered /\ [Next]_vars => AllGathered'
<1> SUFFICES ASSUME Table, Strays, AllGathered, [Next]_vars
             PROVE  AllGathered'
  OBVIOUS
<1>0. Base /\ TypeOK
  BY DEF Table, Base
<1>1. ASSUME NEW w \in Workers, Claim(w)
      PROVE  AllGathered'
  BY <1>0, <1>1, Claiming, ClaimingGathered
<1>2. ASSUME NEW x \in Emails, Enqueue(x)
      PROVE  AllGathered'
  <2>1. /\ row[x].batch = {} /\ row'[x].batch = {} /\ \A f \in Emails : f # x => row'[f] = row[f]
    BY <1>0, <1>2, Enqueuing DEF Enqueue, Table, RowsOK, RowOK
  <2>2. UNCHANGED <<hold, chunk, pc, loose, stale>>
    BY <1>2 DEF Enqueue, workerVars
  <2> QED
    BY <2>1, <2>2, KeepingGathered DEF Replayable, Unsettled
<1>3. ASSUME NEW x \in Emails, ComesDue(x) \/ LeavesWindow(x)
      PROVE  AllGathered'
  <2>1. /\ UNCHANGED <<hold, chunk, pc>> /\ loose \subseteq loose' /\ stale \subseteq stale'
    BY <1>3 DEF ComesDue, LeavesWindow, workerVars
  <2>2. \A e \in Emails : RowSame(e)
    BY <1>0, <1>3, ComingDue DEF LeavesWindow, RowSame
  <2> QED
    BY <2>1, <2>2, KeepingGathered DEF RowSame, Replayable, Unsettled
<1>4. CASE UNCHANGED vars
  <2>1. UNCHANGED <<row, hold, chunk, pc, loose, stale>>
    BY <1>4 DEF vars, workerVars
  <2> QED
    BY <2>1, KeepingGathered DEF Replayable, Unsettled
<1> QED
  BY <1>0, <1>1, <1>2, <1>3, <1>4, StepKinds, PinningGathered, LettingGathered

-----------------------------------------------------------------------------
(* Requests. *)

(* What is being sent, and what the provider took. *)
Requests == {IdempotencyKey(w) : w \in {v \in Workers : pc[v] = "sending"}}
              \cup {a.key : a \in accepted}
UnsettledOf(b) == {e \in Emails : Unsettled(e) /\ row[e].batch = b}

(* The emails of a request that are not loose have its batch, and those of  *)
(* the batch that are not settled are the ones of the request.              *)
RequestOK(r) ==
    /\ r[1] # {}
    /\ \A e \in r[2] \ loose : /\ row[e].batch = r[1]
                               /\ Unsettled(e) => r[2] = UnsettledOf(r[1])
RequestsOK ==
    /\ \A r \in Requests : RequestOK(r)
    /\ \A r, q \in Requests : (r[2] \cap q[2]) \ loose # {} => r = q

(* The provider sent nothing outside the requests it took. *)
KnownOK == \A e \in Emails : delivered[e] > 0 => \E a \in accepted : e \in a.key[2]

LEMMA RequestTypes ==
    ASSUME TypeOK, NEW r \in Requests
    PROVE  r = <<r[1], r[2]>> /\ r[2] \subseteq Emails
<1>1. r \in (SUBSET Emails) \X (SUBSET Emails)
  <2>1. ASSUME NEW w \in Workers, r = IdempotencyKey(w)
        PROVE  r \in (SUBSET Emails) \X (SUBSET Emails)
    <3>1. key[w] \in SUBSET Emails /\ chunk[w] \in SUBSET Emails
      BY DEF TypeOK
    <3> QED
      BY <2>1, <3>1 DEF IdempotencyKey
  <2>2. ASSUME NEW a \in accepted, r = a.key
        PROVE  r \in (SUBSET Emails) \X (SUBSET Emails)
    BY <2>2 DEF TypeOK
  <2> QED
    BY <2>1, <2>2 DEF Requests
<1> QED
  BY <1>1

LEMMA RequestMoves ==
    ASSUME Table, [Next]_vars, NEW r \in Requests'
    PROVE  \/ r \in Requests
           \/ \E w \in Workers : \E b : /\ Pins(w, b) /\ r = <<b, chunk[w]>>
                                        /\ \A e \in chunk[w] : Current(w, e)
<1>0. TypeOK /\ WorkerTypes
  BY TypeParts DEF Table, Base
<1>1. ASSUME NEW a \in accepted', r = a.key
      PROVE  r \in Requests
  <2>1. CASE a \in accepted
    BY <1>1, <2>1 DEF Requests
  <2>2. CASE a \notin accepted
    <3>1. PICK w \in Workers : ProviderAccepts(w)
      BY <2>2, OnlyTheProviderSends
    <3>2. pc[w] = "sending" /\ a.key = IdempotencyKey(w)
      BY <2>2, <3>1 DEF ProviderAccepts
    <3> QED
      BY <1>1, <3>2 DEF Requests
  <2> QED
    BY <2>1, <2>2
<1>2. ASSUME NEW v \in Workers, pc'[v] = "sending", r = <<key'[v], chunk'[v]>>
      PROVE  \/ r \in Requests
             \/ \E b : /\ Pins(v, b) /\ r = <<b, chunk[v]>>
                       /\ \A e \in chunk[v] : Current(v, e)
  <2>1. CASE Foreign(v)
    <3>1. pc[v] = "sending" /\ r = IdempotencyKey(v)
      BY <1>2, <2>1 DEF Foreign, IdempotencyKey
    <3> QED
      BY <3>1 DEF Requests
  <2>2. CASE Claim(v)
    BY <1>0, <1>2, <2>2 DEF Claim, WorkerTypes
  <2>3. ASSUME NEW b, Pins(v, b)
        PROVE  r = <<b, chunk[v]>> /\ \A e \in chunk[v] : Current(v, e)
    BY <1>0, <1>2, <2>3 DEF Pins, WorkerTypes
  <2>4. ASSUME NEW S, Letting(v, S)
        PROVE  FALSE
    BY <1>0, <1>2, <2>4 DEF Letting, Moves, NextChunk, DrainDone, ProviderAccepts, ProviderRecalls,
       Answered, Unsent, Crash, ReleaseIncomplete, ReleaseRest, ReleaseChunk, SettleRejected,
       MarkSent, ChunkDone, RenderFails, SettleRefused, WorkerTypes
  <2> QED
    BY <2>1, <2>2, <2>3, <2>4, OneWorkerSteps
<1>3. \/ \E v \in Workers : pc'[v] = "sending" /\ r = <<key'[v], chunk'[v]>>
      \/ \E a \in accepted' : r = a.key
  BY DEF Requests, IdempotencyKey
<1> QED
  BY <1>1, <1>2, <1>3

(* Rows keep their batch, and who leaves a batch loosens the others. *)
RowsKept ==
    /\ loose \subseteq loose'
    /\ \A e \in Emails : /\ row'[e].batch = row[e].batch
                         /\ row[e].batch # {} =>
                              /\ Unsettled(e)' => Unsettled(e)
                              /\ Unsettled(e) /\ ~Unsettled(e)' => BatchLoosened(e)

LEMMA RowsMove ==
    ASSUME Table, [Next]_vars
    PROVE  RowsKept \/ \E w \in Workers : \E b : Pins(w, b)
<1>0. Base /\ TypeOK
  BY DEF Table, Base
<1>1. ASSUME NEW x \in Emails, Enqueue(x)
      PROVE  RowsKept
  <2>1. /\ row[x].batch = {} /\ row'[x].batch = {} /\ \A f \in Emails : f # x => row'[f] = row[f]
        /\ loose' = loose
    BY <1>0, <1>1, Enqueuing DEF Enqueue, Table, RowsOK, RowOK
  <2> QED
    BY <2>1 DEF RowsKept, Unsettled
<1>2. ASSUME NEW x \in Emails, ComesDue(x) \/ LeavesWindow(x)
      PROVE  RowsKept
  <2>1. loose \subseteq loose'
    BY <1>2 DEF ComesDue, LeavesWindow
  <2>2. \A e \in Emails : RowSame(e)
    BY <1>0, <1>2, ComingDue DEF LeavesWindow, RowSame
  <2> QED
    BY <2>1, <2>2 DEF RowsKept, RowSame, Unsettled
<1>3. ASSUME NEW w \in Workers, Claim(w)
      PROVE  RowsKept
  <2>1. PICK T : Claims(w, T)
    BY <1>0, <1>3, Claiming
  <2>2. loose' = loose
    BY <1>3 DEF Claim
  <2> QED
    BY <2>1, <2>2 DEF Claims, RowsKept, Unsettled
<1>4. ASSUME NEW w \in Workers, NEW S, Letting(w, S)
      PROVE  RowsKept
  <2>1. loose \subseteq loose'
    BY <1>0, <1>4, LettingWrites DEF Writes, WriteTypes
  <2> QED
    BY <1>4, <2>1, LettingRows DEF RowsKept
<1>5. CASE UNCHANGED vars
  BY <1>5 DEF vars, RowsKept, Unsettled
<1> QED
  BY <1>0, <1>1, <1>2, <1>3, <1>4, <1>5, StepKinds

LEMMA KeptRequest ==
    ASSUME Table, RowsKept, NEW r, RequestOK(r), r[2] \subseteq Emails
    PROVE  RequestOK(r)'
<1> SUFFICES ASSUME NEW e \in r[2] \ loose'
             PROVE  /\ row'[e].batch = r[1]
                    /\ Unsettled(e)' => r[2] = UnsettledOf(r[1])'
  BY DEF RequestOK
<1>1. /\ e \in Emails /\ e \notin loose /\ row[e].batch = r[1] /\ r[1] # {}
      /\ row'[e].batch = row[e].batch /\ (Unsettled(e)' => Unsettled(e))
  BY DEF RowsKept, RequestOK
<1>2. ASSUME Unsettled(e)'
      PROVE  r[2] = UnsettledOf(r[1])'
  <2>1. r[2] = UnsettledOf(r[1])
    BY <1>1, <1>2 DEF RequestOK
  <2>2. ASSUME NEW g \in Emails
        PROVE  (Unsettled(g)' /\ row'[g].batch = r[1]) <=> (Unsettled(g) /\ row[g].batch = r[1])
    <3>1. row'[g].batch = row[g].batch
      BY DEF RowsKept
    <3>2. ASSUME Unsettled(g), ~Unsettled(g)', row[g].batch = r[1]
          PROVE  FALSE
      <4>1. BatchLoosened(g)
        BY <1>1, <3>2 DEF RowsKept
      <4>2. e \in loose'
        BY <1>1, <1>2, <3>2, <4>1 DEF BatchLoosened, Unsettled
      <4> QED
        BY <4>2
    <3> QED
      BY <1>1, <3>1, <3>2 DEF RowsKept
  <2> QED
    BY <2>1, <2>2 DEF UnsettledOf
<1> QED
  BY <1>1, <1>2

LEMMA PinnedRequest ==
    ASSUME Table, Strays, NEW w \in Workers, NEW b, Pins(w, b),
           NEW r, RequestOK(r), r[2] \subseteq Emails
    PROVE  RequestOK(r)'
<1> DEFINE New(e) == e \in chunk[w] /\ Current(w, e) /\ row[e].batch # b
<1>0. /\ loose \subseteq loose'
      /\ \A e \in Emails : /\ Unsettled(e)' <=> Unsettled(e)
                           /\ row'[e].batch = row[e].batch \/ (New(e) /\ row'[e].batch = b)
                           /\ New(e) => row'[e].batch = b
  BY PinnedRows
<1>1. ASSUME NEW x \in Emails, New(x), row[x].batch # {}
      PROVE  /\ x \in loose
             /\ \A f \in Emails : Unsettled(f) /\ row[f].batch = row[x].batch => f \in loose
  BY <1>1, Rebatched
<1>2. ASSUME NEW x \in Emails, New(x), NEW f \in Emails, row[f].batch = b
      PROVE  f \in loose'
  BY <1>2, JoinedRows
<1> SUFFICES ASSUME NEW e \in r[2] \ loose'
             PROVE  /\ row'[e].batch = r[1]
                    /\ Unsettled(e)' => r[2] = UnsettledOf(r[1])'
  BY DEF RequestOK
<1>3. /\ e \in Emails /\ e \notin loose /\ row[e].batch = r[1] /\ r[1] # {}
  BY <1>0 DEF RequestOK
<1>4. ~New(e) /\ row'[e].batch = r[1]
  BY <1>0, <1>1, <1>3
<1>5. ASSUME Unsettled(e)'
      PROVE  r[2] = UnsettledOf(r[1])'
  <2>1. r[2] = UnsettledOf(r[1]) /\ Unsettled(e)
    BY <1>0, <1>3, <1>5 DEF RequestOK
  <2>2. ASSUME NEW g \in Emails, Unsettled(g)
        PROVE  row'[g].batch = r[1] <=> row[g].batch = r[1]
    <3>1. ASSUME New(g), row[g].batch = r[1]
          PROVE  FALSE
      BY <1>1, <1>3, <2>1, <3>1
    <3>2. ASSUME New(g), b = r[1]
          PROVE  FALSE
      BY <1>2, <1>3, <3>2
    <3> HIDE DEF New
    <3> QED
      BY <1>0, <3>1, <3>2
  <2> HIDE DEF New
  <2> QED
    BY <1>0, <2>1, <2>2 DEF UnsettledOf
<1> QED
  BY <1>4, <1>5

(* A chunk that is sent under a batch is all of it. *)
LEMMA NewRequest ==
    ASSUME Table, Strays, AllGathered, NEW w \in Workers, NEW b, Pins(w, b),
           \A e \in chunk[w] : Current(w, e)
    PROVE  RequestOK(<<b, chunk[w]>>)'
<1> DEFINE New(e) == e \in chunk[w] /\ Current(w, e) /\ row[e].batch # b
<1>0. /\ loose \subseteq loose' /\ b # {} /\ chunk' = chunk /\ pc[w] = "rendering"
      /\ chunk[w] \subseteq Emails /\ chunk[w] \subseteq DOMAIN hold[w]
      /\ \A e \in Emails : /\ Unsettled(e)' <=> Unsettled(e)
                           /\ row'[e].batch = IF e \in chunk[w] THEN b ELSE row[e].batch
  BY PinnedRows
<1>1. ASSUME NEW x \in Emails, New(x), hold[w][x].batch # {}
      PROVE  x \in loose
  BY <1>1, Rebatched
<1>2. ASSUME NEW x \in Emails, New(x), NEW f \in Emails, row[f].batch = b
      PROVE  f \in loose'
  BY <1>2, JoinedRows
<1>3. ASSUME NEW e \in chunk[w], e \notin loose', NEW x \in Emails, Unsettled(x), row[x].batch = b
      PROVE  x \in chunk[w]
  <2>1. CASE b = chunk[w]
    <3>1. RowOK(x)
      BY DEF Table, RowsOK
    <3> QED
      BY <1>0, <1>3, <2>1, <3>1 DEF RowOK, BatchOK
  <2>2. CASE \A g \in chunk[w] : hold[w][g].batch = b
    <3>1. ~New(e)
      BY <1>0, <1>1, <1>3, <2>2
    <3>2. row[e].batch = b /\ Current(w, e) /\ Unsettled(e)
      BY <1>3, <3>1 DEF Current
    <3>3. InPlay(w, e) /\ GatheredOK(w, e)
      BY <1>0, <2>2 DEF InPlay, Holds, AllGathered
    <3>4. HoldsIn(w, x, b)
      BY <1>0, <1>3, <2>2, <3>2, <3>3 DEF GatheredOK
    <3>5. ChunkOK(w)
      BY DEF Table, Base, ChunksOK
    <3> QED
      BY <1>0, <2>2, <3>4, <3>5 DEF HoldsIn, Holds, ChunkOK
  <2> QED
    BY <2>1, <2>2 DEF Pins
<1>4. ASSUME NEW e \in chunk[w], e \notin loose'
      PROVE  chunk[w] = UnsettledOf(b)'
  <2>1. \A x \in chunk[w] : x \in Emails /\ Unsettled(x)' /\ row'[x].batch = b
    BY <1>0 DEF Current
  <2>2. \A x \in Emails : Unsettled(x)' /\ row'[x].batch = b => x \in chunk[w]
    BY <1>0, <1>3, <1>4
  <2> QED
    BY <2>1, <2>2 DEF UnsettledOf
<1>5. \A e \in chunk[w] : row'[e].batch = b
  BY <1>0
<1>6. \A e \in chunk[w] \ loose' : row'[e].batch = b /\ chunk[w] = UnsettledOf(b)'
  BY <1>4, <1>5
<1> DEFINE r == <<b, chunk[w]>>
<1>7. r[1] = b /\ r[2] = chunk[w]
  OBVIOUS
<1> QED
  BY <1>0, <1>6 DEF RequestOK

RequestsTyped == \A r \in Requests : r = <<r[1], r[2]>>

LEMMA RequestTypesNext == Table /\ [Next]_vars => RequestsTyped'
<1>1. TypeOK => RequestsTyped
  BY RequestTypes DEF RequestsTyped
<1>2. TypeOK' => RequestsTyped'
  BY <1>1, PTL
<1> QED
  BY <1>2, TypeStep DEF Table

LEMMA RequestsInit == Init => RequestsOK /\ KnownOK
BY DEF Init, RequestsOK, Requests, KnownOK

LEMMA RequestsStep == Table /\ Strays /\ AllGathered /\ RequestsOK /\ [Next]_vars => RequestsOK'
<1> SUFFICES ASSUME Table, Strays, AllGathered, RequestsOK, [Next]_vars
             PROVE  RequestsOK'
  OBVIOUS
<1>0. /\ TypeOK /\ loose \subseteq loose'
      /\ \A r \in Requests : r[2] \subseteq Emails
  <2>1. loose \subseteq loose'
    BY RowsMove, PinnedRows DEF RowsKept
  <2> QED
    BY <2>1, RequestTypes DEF Table, Base
<1>1. ASSUME NEW r \in Requests
      PROVE  RequestOK(r)'
  <2>1. RequestOK(r) /\ r[2] \subseteq Emails
    BY <1>0 DEF RequestsOK
  <2> QED
    BY <2>1, RowsMove, KeptRequest, PinnedRequest
<1>2. ASSUME NEW r \in Requests', r \notin Requests
      PROVE  RequestOK(r)' /\ \A e \in r[2] : Unsettled(e)'
  <2>1. PICK w \in Workers : \E b : /\ Pins(w, b) /\ r = <<b, chunk[w]>>
                                    /\ \A e \in chunk[w] : Current(w, e)
    BY <1>2, RequestMoves
  <2>2. PICK b : /\ Pins(w, b) /\ r = <<b, chunk[w]>>
                 /\ \A e \in chunk[w] : Current(w, e)
    BY <2>1
  <2>3. chunk' = chunk /\ \A e \in chunk[w] : e \in Emails /\ Unsettled(e)'
    BY <2>2, PinnedRows DEF Current
  <2>4. RequestOK(<<b, chunk[w]>>)'
    BY <2>2, NewRequest
  <2>5. RequestOK(r)'
    BY <2>2, <2>3, <2>4 DEF RequestOK
  <2> QED
    BY <2>2, <2>3, <2>5
<1>3. \A r \in Requests' : RequestOK(r)'
  BY <1>1, <1>2
<1>4. \A r \in Requests' : r = <<r[1], r[2]>>
  BY RequestTypesNext DEF RequestsTyped
<1>5. ASSUME NEW r \in Requests', r \notin Requests, NEW q \in Requests',
             NEW e \in (r[2] \cap q[2]) \ loose'
      PROVE  r = q
  <2>1. Unsettled(e)' /\ e \in r[2] \ loose' /\ e \in q[2] \ loose'
    BY <1>2, <1>5
  <2>2. r[1] = q[1] /\ r[2] = UnsettledOf(r[1])' /\ q[2] = UnsettledOf(q[1])'
    BY <1>3, <2>1 DEF RequestOK
  <2>3. r[2] = q[2]
    BY <2>2 DEF UnsettledOf
  <2> QED
    BY <1>4, <2>2, <2>3
<1>6. ASSUME NEW r \in Requests', NEW q \in Requests', (r[2] \cap q[2]) \ loose' # {}
      PROVE  r = q
  <2>1. CASE r \in Requests /\ q \in Requests
    BY <1>0, <1>6, <2>1 DEF RequestsOK
  <2>2. CASE r \notin Requests
    BY <1>5, <1>6, <2>2
  <2>3. CASE q \notin Requests
    BY <1>5, <1>6, <2>3
  <2> QED
    BY <2>1, <2>2, <2>3
<1> QED
  BY <1>3, <1>6 DEF RequestsOK

-----------------------------------------------------------------------------
(* What is delivered. *)

(* Only a request the provider has no key for is sent, and then once. *)
LEMMA Deliveries ==
    ASSUME Table, [Next]_vars, NEW e \in Emails
    PROVE  /\ accepted \subseteq accepted' /\ loose \subseteq loose'
           /\ \/ delivered'[e] = delivered[e]
              \/ /\ delivered'[e] = delivered[e] + 1
                 /\ \E r \in Requests : /\ e \in r[2] /\ ~\E a \in accepted : a.key = r
                                        /\ \E a \in accepted' : e \in a.key[2]
<1>1. loose \subseteq loose'
  BY RowsMove, PinnedRows DEF RowsKept
<1>2. CASE \E w \in Workers : ProviderAccepts(w)
  <2>1. PICK w \in Workers : ProviderAccepts(w)
    BY <1>2
  <2>2. PICK no \in SUBSET chunk[w] :
          /\ accepted' = accepted \cup {[key |-> IdempotencyKey(w), refused |-> no]}
          /\ delivered' = [f \in Emails |-> IF f \in chunk[w] \ no THEN delivered[f] + 1
                                                                   ELSE delivered[f]]
    BY <2>1 DEF ProviderAccepts
  <2>3. CASE e \notin chunk[w] \ no
    BY <1>1, <2>2, <2>3
  <2>4. CASE e \in chunk[w] \ no
    <3>1. IdempotencyKey(w) \in Requests /\ ~\E a \in accepted : a.key = IdempotencyKey(w)
      BY <2>1 DEF Requests, ProviderAccepts
    <3>2. e \in IdempotencyKey(w)[2]
      BY <2>4 DEF IdempotencyKey
    <3> DEFINE a == [key |-> IdempotencyKey(w), refused |-> no]
    <3>3. a \in accepted' /\ a.key = IdempotencyKey(w)
      BY <2>2
    <3> HIDE DEF a
    <3>4. delivered'[e] = delivered[e] + 1
      BY <2>2, <2>4
    <3> QED
      BY <1>1, <2>2, <3>1, <3>2, <3>3, <3>4
  <2> QED
    BY <2>3, <2>4
<1>3. CASE UNCHANGED <<accepted, delivered>>
  BY <1>1, <1>3
<1>4. (\E w \in Workers : ProviderAccepts(w)) \/ UNCHANGED <<accepted, delivered>>
  BY OnlyTheProviderSends
<1> QED
  BY <1>2, <1>3, <1>4

IInv == /\ Table /\ Strays /\ AllGathered /\ RequestsOK /\ KnownOK /\ DuplicatesAreExplained

LEMMA KnownStep == Table /\ KnownOK /\ [Next]_vars => KnownOK'
<1> SUFFICES ASSUME Table, KnownOK, [Next]_vars, NEW e \in Emails, delivered'[e] > 0
             PROVE  \E a \in accepted' : e \in a.key[2]
  BY DEF KnownOK
<1> QED
  BY Deliveries DEF KnownOK

LEMMA DuplicatesStep == IInv /\ [Next]_vars => DuplicatesAreExplained'
<1> SUFFICES ASSUME IInv, [Next]_vars, NEW e \in Emails, delivered'[e] > 1, e \notin loose'
             PROVE  FALSE
  BY DEF DuplicatesAreExplained
<1>0. /\ Table /\ delivered[e] \in Nat /\ loose \subseteq loose' /\ ~(delivered[e] > 1)
  BY RowTypes, Deliveries DEF IInv, Table, Base, DuplicatesAreExplained
<1>1. PICK r \in Requests : /\ e \in r[2] /\ ~\E a \in accepted : a.key = r
                            /\ delivered'[e] = delivered[e] + 1
  BY <1>0, Deliveries
<1>2. PICK a \in accepted : e \in a.key[2]
  BY <1>0, <1>1 DEF IInv, KnownOK
<1>3. a.key \in Requests
  BY DEF Requests
<1>4. a.key = r
  BY <1>0, <1>1, <1>2, <1>3 DEF IInv, RequestsOK
<1> QED
  BY <1>1, <1>4

LEMMA Invariance == Spec => []IInv
<1>1. Init => IInv
  BY BaseInit, TableInit, StraysInit, GatheredInit, RequestsInit
     DEF IInv, Table, Init, DuplicatesAreExplained
<1>2. IInv /\ [Next]_vars => IInv'
  BY TableStep, StraysStep, GatheredStep, RequestsStep, KnownStep, DuplicatesStep DEF IInv
<1> QED
  BY <1>1, <1>2, PTL DEF Spec

(* Whatever the emails, the workers and the bounds: an email that went out  *)
(* twice was in a batch that was settled in parts or left the replay        *)
(* window, or a release revived an overtaken lease on it; crashes, lost     *)
(* answers, failed writes and expired leases alone never duplicate it.      *)
THEOREM NoUnexplainedDuplicate == Spec => []DuplicatesAreExplained
<1>1. IInv => DuplicatesAreExplained
  BY DEF IInv
<1> QED
  BY <1>1, Invariance, PTL

(* A chunk that is sent under a batch key holds everybody of the batch that *)
(* may still be sent, unless poisoned or loose (isWholeBatch, assignBatch). *)
THEOREM BatchesAreSentWhole == Spec => []BatchStaysTogether
<1>1. IInv => BatchStaysTogether
  <2> SUFFICES ASSUME IInv, NEW w \in Workers, pc[w] = "sending",
                      NEW e \in Emails, e \notin loose, Replayable(e), row[e].batch = key[w]
               PROVE  e \in chunk[w]
    BY DEF BatchStaysTogether
  <2>1. /\ SendOK(w) /\ ChunkOK(w) /\ RowOK(e)
        /\ IdempotencyKey(w) \in Requests
    BY DEF IInv, Table, Base, SendsOK, ChunksOK, RowsOK, Requests
  <2>2. key[w] # {}
    <3>1. IdempotencyKey(w)[1] # {}
      BY <2>1 DEF IInv, RequestsOK, RequestOK
    <3> QED
      BY <3>1 DEF IdempotencyKey
  <2>3. CASE key[w] = chunk[w]
    BY <2>1, <2>2, <2>3 DEF RowOK, BatchOK
  <2>4. CASE \A g \in chunk[w] : hold[w][g].batch = key[w]
    <3>1. PICK g \in chunk[w] : TRUE
      BY <2>1 DEF SendOK
    <3>2. g \in DOMAIN hold[w] /\ hold[w][g].batch = key[w]
      BY <2>1, <2>4 DEF ChunkOK
    <3>3. InPlay(w, g) /\ GatheredOK(w, g)
      BY <2>2, <3>2 DEF InPlay, Holds, IInv, AllGathered
    <3>4. HoldsIn(w, e, key[w])
      BY <3>2, <3>3 DEF GatheredOK
    <3> QED
      BY <2>1, <2>2, <3>2, <3>4 DEF HoldsIn, Holds, ChunkOK
  <2> QED
    BY <2>1, <2>3, <2>4 DEF SendOK
<1> QED
  BY <1>1, Invariance, PTL

=============================================================================

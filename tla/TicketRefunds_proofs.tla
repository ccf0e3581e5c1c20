------------------------ MODULE TicketRefunds_proofs ------------------------
(***************************************************************************)
(* Proofs about TicketRefunds, for any booking, any number of admins, of   *)
(* refunds and of calls: type correctness, that Stripe never pays a refund *)
(* twice, that no ticket is paid back twice, that the booking agrees with  *)
(* Stripe once its events are taken, and what is told and closed is true.  *)
(***************************************************************************)
EXTENDS TicketRefunds, SumTheorems, SequenceTheorems, TLAPS

----------------------------------------------------------------------------
(* The invariant                                                           *)

\* A refund Stripe made that has a row here.
Known(i) == \E j \in DOMAIN rows : rows[j].refund = i

\* A row waits for an admin's refund, of which Stripe's number is not known yet; a row that names
\* a refund was the intent of that one, or has none; and a row fails with its refund.
RowsHere ==
  \A j \in DOMAIN rows :
    /\ rows[j].request <= Len(requests) /\ rows[j].at <= clock
    /\ rows[j].status = "pending" => rows[j].by = "admin" /\ rows[j].refund = 0
    /\ rows[j].status = "done" => rows[j].refund # 0
    /\ rows[j].refund # 0 =>
         /\ rows[j].refund \in DOMAIN made
         /\ rows[j].by = "admin" => made[rows[j].refund].intent = j
         /\ rows[j].by = "stripe" => made[rows[j].refund].intent = 0
         /\ rows[j].status = "failed" => made[rows[j].refund].status = "failed"

\* No two rows name one refund, and one waits at a time.
RowsApart ==
  \A j, k \in DOMAIN rows : j # k =>
    /\ rows[j].refund = rows[k].refund => rows[j].refund = 0
    /\ rows[j].status = "pending" => rows[k].status # "pending"

\* A refund made for an intent is of its amount, and Stripe remembers that it answered.
MadeHere ==
  \A i \in DOMAIN made :
    /\ made[i].status = "succeeded" => i \in paid
    /\ made[i].intent # 0 =>
         /\ made[i].intent \in DOMAIN rows
         /\ rows[made[i].intent].by = "admin" /\ rows[made[i].intent].amount = made[i].amount
         /\ \E x \in answers : x.intent = made[i].intent

\* No two refunds are made for one intent.
MadeApart ==
  \A i, k \in DOMAIN made : i # k => made[i].intent # made[k].intent \/ made[i].intent = 0

\* Stripe answers for an intent after it was written down.
AnswersHere ==
  \A x \in answers :
    /\ x.intent \in DOMAIN rows /\ rows[x.intent].by = "admin" /\ rows[x.intent].at <= x.at
    /\ x.refund <= Len(made)

\* A call to Stripe is of an intent young enough when it began, and takes no longer than its time.
AsksHere ==
  \A p \in Procs :
    /\ job[p].request <= Len(requests)
    /\ job[p].step \in {"ask", "refused"} =>
         job[p].intent \in DOMAIN rows /\ rows[job[p].intent].by = "admin"
    /\ job[p].step = "ask" =>
         /\ job[p].began <= rows[job[p].intent].at + IntentHours
         /\ clock <= job[p].began + MaxCall

\* The list is taken under the lock; what it says succeeded did, what it says failed still has.
Statuses == [i \in DOMAIN made |-> made[i].status]
ListsHere ==
  \A p \in Procs : job[p].step = "apply" =>
    /\ lock = p
    /\ DOMAIN job[p].list \subseteq DOMAIN made
    /\ \A i \in DOMAIN job[p].list :
         /\ job[p].list[i] = "succeeded" => i \in paid
         /\ job[p].list[i] = "failed" => made[i].status = "failed"

\* An event stays until what it tells of is in the booking: the webhook's own, and one more for what
\* Stripe has done since the list in hand was taken.
EventsHere ==
  /\ job[Hook].step \in {"list", "apply"} => events >= 1
  /\ \A p \in Procs : job[p].step = "apply" /\ job[p].list # Statuses =>
       events >= 1 /\ (p = Hook => events >= 2)

\* Whoever records a refund tells of it, and nobody else does.
TellsHere ==
  /\ \A p \in Procs : \A i \in job[p].tell : i \in DOMAIN made /\ Known(i) /\ told[i] = 0
  /\ \A p, q \in Procs : p # q => job[p].tell \cap job[q].tell = {}
  /\ \A i \in DOMAIN told : told[i] # 0 => told[i] = 1 /\ Known(i)

IInv ==
  /\ TypeOK /\ RowsHere /\ RowsApart /\ MadeHere /\ MadeApart /\ AnswersHere
  /\ AsksHere /\ ListsHere /\ EventsHere /\ TellsHere

Listing == {"pending", "succeeded", "failed"}

USE DEF bookingVars, stripeVars

----------------------------------------------------------------------------
(* Rows, refunds and lists                                                 *)

LEMMA TypeFacts ==
  ASSUME TypeOK
  PROVE  /\ rows \in Seq(Row) /\ Len(rows) \in Nat /\ DOMAIN rows = 1..Len(rows)
         /\ \A j \in DOMAIN rows : rows[j] \in Row
         /\ made \in Seq(Made) /\ Len(made) \in Nat /\ DOMAIN made = 1..Len(made)
         /\ \A i \in DOMAIN made : made[i] \in Made
         /\ told \in Seq(Nat) /\ DOMAIN told = DOMAIN made /\ \A i \in DOMAIN told : told[i] \in Nat
         /\ Len(requests) \in Nat /\ DOMAIN requests = 1..Len(requests)
         /\ \A q \in DOMAIN requests : requests[q] \in {"open", "refunded", "declined"}
         /\ IsFiniteSet(DOMAIN made) /\ IsFiniteSet(DOMAIN rows) /\ IsFiniteSet(paid)
<1>1. rows \in Seq(Row) /\ made \in Seq(Made) /\ told \in Seq(Nat) /\ Len(told) = Len(made)
  BY DEF TypeOK
<1>2. requests \in Seq({"open", "refunded", "declined"})
  BY DEF TypeOK
<1>3. /\ Len(rows) \in Nat /\ DOMAIN rows = 1..Len(rows) /\ \A j \in DOMAIN rows : rows[j] \in Row
      /\ Len(made) \in Nat /\ DOMAIN made = 1..Len(made) /\ \A i \in DOMAIN made : made[i] \in Made
      /\ DOMAIN told = 1..Len(told) /\ \A i \in DOMAIN told : told[i] \in Nat
  BY <1>1
<1>4. /\ Len(requests) \in Nat /\ DOMAIN requests = 1..Len(requests)
      /\ \A q \in DOMAIN requests : requests[q] \in {"open", "refunded", "declined"}
  BY <1>2
<1>5. IsFiniteSet(DOMAIN made) /\ IsFiniteSet(DOMAIN rows)
  BY <1>3, FS_Interval
<1>6. IsFiniteSet(paid)
  BY <1>5, FS_Subset DEF TypeOK
<1> QED
  BY <1>1, <1>3, <1>4, <1>5, <1>6

\* A refund's row is the one that names it, or else the intent it was made for.
LEMMA RowOfIs ==
  ASSUME TypeOK, NEW i \in DOMAIN made
  PROVE  /\ RowOf(i) = 0 =>
              \A j \in DOMAIN rows :
                rows[j].refund # i /\ (made[i].intent = j /\ rows[j].by = "admin" => rows[j].refund # 0)
         /\ RowOf(i) # 0 =>
              /\ RowOf(i) \in DOMAIN rows
              /\ \/ rows[RowOf(i)].refund = i
                 \/ /\ rows[RowOf(i)].refund = 0 /\ rows[RowOf(i)].by = "admin"
                    /\ made[i].intent = RowOf(i) /\ \A j \in DOMAIN rows : rows[j].refund # i
<1> DEFINE byId == {j \in DOMAIN rows : rows[j].refund = i}
           ours == {j \in DOMAIN rows : made[i].intent = j /\ rows[j].by = "admin" /\ rows[j].refund = 0}
<1>1. RowOf(i) = IF byId # {} THEN Min(byId) ELSE IF ours # {} THEN Min(ours) ELSE 0
  BY DEF RowOf
<1>2. DOMAIN rows \subseteq Nat /\ 0 \notin DOMAIN rows
  BY TypeFacts
<1>3. byId # {} => Min(byId) \in byId
  BY <1>2, MinIs
<1>4. ours # {} => Min(ours) \in ours
  BY <1>2, MinIs
<1> QED
  BY <1>1, <1>2, <1>3, <1>4

LEMMA ListFacts ==
  ASSUME TypeOK, NEW ls, DOMAIN ls \subseteq DOMAIN made
  PROVE  /\ Succeeded(ls) \subseteq DOMAIN made /\ Failed(ls) \subseteq DOMAIN made
         /\ Completed(ls) \subseteq Succeeded(ls) /\ Fresh(ls) \subseteq Succeeded(ls)
         /\ NewlyFailed(ls) \subseteq Failed(ls)
         /\ IsFiniteSet(Succeeded(ls)) /\ IsFiniteSet(Completed(ls)) /\ IsFiniteSet(Fresh(ls))
<1>1. /\ Succeeded(ls) \subseteq DOMAIN made /\ Failed(ls) \subseteq DOMAIN made
      /\ Completed(ls) \subseteq Succeeded(ls) /\ Fresh(ls) \subseteq Succeeded(ls)
      /\ NewlyFailed(ls) \subseteq Failed(ls)
  BY DEF Succeeded, Failed, Completed, Fresh, NewlyFailed
<1>2. IsFiniteSet(Succeeded(ls))
  BY <1>1, TypeFacts, FS_Subset
<1> QED
  BY <1>1, <1>2, FS_Subset

\* What becomes of a row that was here: its refund is completed, or has failed, or the row is let
\* go, or it stays as it is.
LEMMA UpdatedRowIs ==
  ASSUME TypeOK, RowsHere, NEW ls, DOMAIN ls \subseteq DOMAIN made, NEW now, NEW j \in DOMAIN rows
  PROVE  \/ \E i \in Completed(ls) :
               /\ RowOf(i) = j /\ rows[j].status = "pending"
               /\ UpdatedRow(ls, now, j) = [rows[j] EXCEPT !.status = "done", !.refund = i]
         \/ /\ \A i \in Completed(ls) : RowOf(i) # j
            /\ \E i \in NewlyFailed(ls) :
                 /\ RowOf(i) = j /\ rows[j].status # "failed"
                 /\ UpdatedRow(ls, now, j) = [rows[j] EXCEPT !.status = "failed", !.refund = i]
         \/ /\ \A i \in Completed(ls) \cup NewlyFailed(ls) : RowOf(i) # j
            /\ rows[j].status = "pending" /\ j \in LetGo(ls, now)
            /\ UpdatedRow(ls, now, j) = [rows[j] EXCEPT !.status = "failed"]
         \/ /\ \A i \in Completed(ls) \cup NewlyFailed(ls) : RowOf(i) # j
            /\ UpdatedRow(ls, now, j) = rows[j]
<1> DEFINE done == Matching(Completed(ls), j)
           failed == Matching(NewlyFailed(ls), j)
<1>1. Completed(ls) \subseteq Nat /\ NewlyFailed(ls) \subseteq Nat
  BY ListFacts, TypeFacts
<1>2. done \subseteq Completed(ls) /\ \A i \in Completed(ls) : i \in done <=> RowOf(i) = j
  BY DEF Matching
<1>3. failed \subseteq NewlyFailed(ls) /\ \A i \in NewlyFailed(ls) : i \in failed <=> RowOf(i) = j
  BY DEF Matching
<1>4. done # {} => Min(done) \in done
  BY <1>1, <1>2, MinIs
<1>5. failed # {} => Min(failed) \in failed
  BY <1>1, <1>3, MinIs
<1>6. UpdatedRow(ls, now, j) =
        IF done # {} THEN [rows[j] EXCEPT !.status = "done", !.refund = Min(done)]
        ELSE IF failed # {} THEN [rows[j] EXCEPT !.status = "failed", !.refund = Min(failed)]
        ELSE IF j \in LetGo(ls, now) THEN [rows[j] EXCEPT !.status = "failed"]
        ELSE rows[j]
  BY DEF UpdatedRow
<1> HIDE DEF done, failed
<1>7. CASE done # {}
  <2>1. /\ Min(done) \in Completed(ls) /\ RowOf(Min(done)) = j
        /\ UpdatedRow(ls, now, j) = [rows[j] EXCEPT !.status = "done", !.refund = Min(done)]
    BY <1>2, <1>4, <1>6, <1>7
  <2>2. rows[j].status = "pending"
    BY <2>1 DEF Completed
  <2> QED
    BY <2>1, <2>2
<1>8. CASE done = {} /\ failed # {}
  <2>1. /\ Min(failed) \in NewlyFailed(ls) /\ RowOf(Min(failed)) = j
        /\ UpdatedRow(ls, now, j) = [rows[j] EXCEPT !.status = "failed", !.refund = Min(failed)]
    BY <1>3, <1>5, <1>6, <1>8
  <2>2. rows[j].status # "failed"
    BY <2>1 DEF NewlyFailed
  <2>3. \A i \in Completed(ls) : RowOf(i) # j
    BY <1>2, <1>8
  <2> QED
    BY <2>1, <2>2, <2>3
<1>9. CASE done = {} /\ failed = {}
  <2>1. \A i \in Completed(ls) \cup NewlyFailed(ls) : RowOf(i) # j
    BY <1>2, <1>3, <1>9
  <2>2. CASE j \in LetGo(ls, now)
    <3>1. rows[j].status = "pending"
      BY <2>2 DEF LetGo
    <3> QED
      BY <1>6, <1>9, <2>1, <2>2, <3>1
  <2>3. CASE j \notin LetGo(ls, now)
    BY <1>6, <1>9, <2>1, <2>3
  <2> QED
    BY <2>2, <2>3
<1> QED
  BY <1>7, <1>8, <1>9

\* A set in order has each of its members once.
LEMMA InOrderIs ==
  ASSUME NEW S \in SUBSET Nat, IsFiniteSet(S), NEW ids \in InOrder(S)
  PROVE  /\ Cardinality(S) \in Nat /\ ids \in [1..Cardinality(S) -> S]
         /\ \A m, n \in 1..Cardinality(S) : ids[m] = ids[n] => m = n
         /\ \A i \in S : \E n \in 1..Cardinality(S) : ids[n] = i
<1> DEFINE N == Cardinality(S)
           D == 1..N
<1>1. N \in Nat
  BY FS_CardinalityType
<1>2. ids \in [D -> S] /\ \A m, n \in D : m < n => ids[m] < ids[n]
  BY DEF InOrder
<1>3. \A m, n \in D : ids[m] = ids[n] => m = n
  <2> SUFFICES ASSUME NEW m \in D, NEW n \in D, ids[m] = ids[n] PROVE m = n
    OBVIOUS
  <2>1. ids[m] \in S /\ m \in Nat /\ n \in Nat
    BY <1>1, <1>2
  <2>2. ids[m] \in Nat
    BY <2>1
  <2>3. ~(m < n) /\ ~(n < m)
    BY <1>2, <2>2
  <2> QED
    BY <2>1, <2>3
<1>4. Cardinality(D) = N /\ IsFiniteSet(D)
  BY <1>1, FS_Interval
<1> HIDE DEF D
<1>5. ids \in Injection(D, S)
  BY <1>2, <1>3 DEF Injection, IsInjective
<1>6. ids \in Surjection(D, S)
  BY <1>4, <1>5, FS_Injection
<1>7. \A i \in S : \E n \in D : ids[n] = i
  BY <1>6 DEF Surjection
<1> QED
  BY <1>1, <1>2, <1>3, <1>7 DEF D

LEMMA CompletedLinesNat ==
  ASSUME TypeOK, NEW ls, DOMAIN ls \subseteq DOMAIN made, NEW l \in Lines
  PROVE  CompletedLines(ls, l) \in Nat
<1> DEFINE f == [i \in Completed(ls) |-> rows[RowOf(i)].lines[l]]
<1>1. \A i \in Completed(ls) : RowOf(i) \in DOMAIN rows
  BY ListFacts, RowOfIs DEF Completed
<1>2. \A i \in Completed(ls) : f[i] \in Nat
  BY <1>1, TypeFacts DEF Row, Tickets
<1>3. CompletedLines(ls, l) = SumFunctionOnSet(f, Completed(ls))
  BY DEF CompletedLines, SumFunction
<1>4. IsFiniteSet(Completed(ls))
  BY ListFacts
<1> HIDE DEF f
<1> QED
  BY <1>2, <1>3, <1>4, SumNat

LEMMA ReleasedByIs ==
  ASSUME TypeOK, NEW ls, DOMAIN ls \subseteq DOMAIN made
  PROVE  /\ ReleasedBy(ls) \in Tickets
         /\ \A l \in Lines :
              /\ ReleasedBy(ls)[l] <= Quantity[l] /\ refunded[l] <= ReleasedBy(ls)[l]
              /\ ReleasedBy(ls)[l] \in {Quantity[l], refunded[l] + CompletedLines(ls, l)}
              /\ ReleasedBy(ls)[l] <= refunded[l] + CompletedLines(ls, l)
<1>1. SUFFICES ASSUME NEW l \in Lines
               PROVE  LET r == Min({Quantity[l], refunded[l] + CompletedLines(ls, l)})
                      IN  /\ r \in Nat /\ r <= Quantity[l] /\ refunded[l] <= r
                          /\ r \in {Quantity[l], refunded[l] + CompletedLines(ls, l)}
                          /\ r <= refunded[l] + CompletedLines(ls, l)
  BY DEF ReleasedBy, Tickets
<1>2. Quantity[l] \in Nat /\ refunded[l] \in Nat /\ refunded[l] <= Quantity[l]
  BY LinesAssumption DEF TypeOK, Tickets
<1>3. CompletedLines(ls, l) \in Nat
  BY CompletedLinesNat
<1> DEFINE q == Quantity[l]
           s == refunded[l] + CompletedLines(ls, l)
<1>4. q \in Nat /\ s \in Nat /\ refunded[l] <= s
  BY <1>2, <1>3
<1> HIDE DEF q, s
<1>5. Min({q, s}) \in {q, s} /\ Min({q, s}) <= q /\ Min({q, s}) <= s
  BY <1>4, MinOfTwo
<1> QED
  BY <1>2, <1>4, <1>5 DEF q, s

LEMMA FreshRowIs ==
  ASSUME TypeOK, NEW ls, DOMAIN ls \subseteq DOMAIN made, NEW i \in Fresh(ls)
  PROVE  /\ FreshRow(ls, i) \in Row
         /\ FreshRow(ls, i).refund = i /\ FreshRow(ls, i).request = 0 /\ FreshRow(ls, i).by = "stripe"
         /\ FreshRow(ls, i).status = "done" /\ FreshRow(ls, i).at = clock
<1>1. i \in Nat /\ made[i].amount \in Nat /\ clock \in Nat
  <2>1. i \in DOMAIN made
    BY ListFacts
  <2>2. made[i] \in Made /\ i \in Nat
    BY <2>1, TypeFacts
  <2> QED
    BY <2>2 DEF Made, TypeOK
<1>2. None \in Tickets
  BY DEF None, Tickets
<1>3. [l \in Lines |-> Quantity[l] - ReleasedBy(ls)[l]] \in Tickets
  BY ReleasedByIs, LinesAssumption DEF Tickets
<1> QED
  BY <1>1, <1>2, <1>3 DEF FreshRow, Row

\* The rows after a reconcile: those that were here, and one for each fresh refund.
LEMMA ReconcileRows ==
  ASSUME TypeOK, RowsHere, NEW ls, DOMAIN ls \subseteq DOMAIN made, NEW now, Reconcile(ls, now)
  PROVE  /\ rows' \in Seq(Row) /\ Len(rows) <= Len(rows') /\ DOMAIN rows \subseteq DOMAIN rows'
         /\ \A j \in DOMAIN rows : rows'[j] = UpdatedRow(ls, now, j)
         /\ \A j \in DOMAIN rows' : j \in DOMAIN rows \/ \E i \in Fresh(ls) : rows'[j] = FreshRow(ls, i)
         /\ \A i \in Fresh(ls) : \E j \in DOMAIN rows' : j \notin DOMAIN rows /\ rows'[j] = FreshRow(ls, i)
         /\ \A j, k \in DOMAIN rows' :
              j \notin DOMAIN rows /\ k \notin DOMAIN rows /\ rows'[j].refund = rows'[k].refund => j = k
<1>1. PICK ids \in InOrder(Fresh(ls)) :
        rows' = [j \in DOMAIN rows |-> UpdatedRow(ls, now, j)]
                  \o [n \in DOMAIN ids |-> FreshRow(ls, ids[n])]
  BY DEF Reconcile
<1> DEFINE N == Cardinality(Fresh(ls))
           old == [j \in DOMAIN rows |-> UpdatedRow(ls, now, j)]
           new == [n \in DOMAIN ids |-> FreshRow(ls, ids[n])]
<1>2. Fresh(ls) \in SUBSET Nat /\ IsFiniteSet(Fresh(ls))
  BY ListFacts, TypeFacts
<1>3. /\ N \in Nat /\ ids \in [1..N -> Fresh(ls)]
      /\ \A m, n \in 1..N : ids[m] = ids[n] => m = n
      /\ \A i \in Fresh(ls) : \E n \in 1..N : ids[n] = i
  BY <1>2, InOrderIs
<1>4. \A j \in DOMAIN rows : UpdatedRow(ls, now, j) \in Row
  <2> SUFFICES ASSUME NEW j \in DOMAIN rows PROVE UpdatedRow(ls, now, j) \in Row
    OBVIOUS
  <2>1. rows[j] \in Row
    BY TypeFacts
  <2>2. \A i \in Completed(ls) \cup NewlyFailed(ls) : i \in Nat
    BY ListFacts, TypeFacts
  <2>3. /\ [rows[j] EXCEPT !.status = "failed"] \in Row
        /\ \A i \in Nat : /\ [rows[j] EXCEPT !.status = "failed", !.refund = i] \in Row
                          /\ [rows[j] EXCEPT !.status = "done", !.refund = i] \in Row
    BY <2>1 DEF Row
  <2>4. CASE \E i \in Completed(ls) : UpdatedRow(ls, now, j) = [rows[j] EXCEPT !.status = "done", !.refund = i]
    BY <2>2, <2>3, <2>4
  <2>5. CASE \E i \in NewlyFailed(ls) : UpdatedRow(ls, now, j) = [rows[j] EXCEPT !.status = "failed", !.refund = i]
    BY <2>2, <2>3, <2>5
  <2>6. CASE UpdatedRow(ls, now, j) \in {rows[j], [rows[j] EXCEPT !.status = "failed"]}
    BY <2>1, <2>3, <2>6
  <2> QED
    BY <2>4, <2>5, <2>6, UpdatedRowIs
<1>5. old \in Seq(Row) /\ Len(old) = Len(rows) /\ \A j \in DOMAIN rows : old[j] = UpdatedRow(ls, now, j)
  BY <1>4, TypeFacts
<1>6. new \in Seq(Row) /\ Len(new) = N /\ \A n \in 1..N : new[n] = FreshRow(ls, ids[n])
  BY <1>3, FreshRowIs
<1> HIDE DEF old, new, N
<1>7. /\ rows' \in Seq(Row) /\ Len(rows') = Len(rows) + N
      /\ \A j \in 1..(Len(rows) + N) : rows'[j] = IF j <= Len(rows) THEN old[j] ELSE new[j - Len(rows)]
  BY <1>1, <1>5, <1>6, ConcatProperties DEF old, new
<1>8. Len(rows) \in Nat /\ DOMAIN rows = 1..Len(rows) /\ DOMAIN rows' = 1..(Len(rows) + N)
  BY <1>3, <1>7, TypeFacts
<1>9. \A j \in DOMAIN rows : rows'[j] = UpdatedRow(ls, now, j)
  BY <1>3, <1>5, <1>7, <1>8
<1>10. \A j \in DOMAIN rows' : j \notin DOMAIN rows =>
          j - Len(rows) \in 1..N /\ rows'[j] = FreshRow(ls, ids[j - Len(rows)])
  BY <1>3, <1>6, <1>7, <1>8
<1>11. \A n \in 1..N : /\ Len(rows) + n \in DOMAIN rows' /\ Len(rows) + n \notin DOMAIN rows
                       /\ rows'[Len(rows) + n] = FreshRow(ls, ids[n])
  <2> SUFFICES ASSUME NEW n \in 1..N
               PROVE  /\ Len(rows) + n \in DOMAIN rows' /\ Len(rows) + n \notin DOMAIN rows
                      /\ rows'[Len(rows) + n] = FreshRow(ls, ids[n])
    OBVIOUS
  <2>1. PICK L \in Nat : L = Len(rows)
    BY <1>8
  <2>2. L + n \in 1..(L + N) /\ ~(L + n <= L) /\ (L + n) - L = n
    BY <1>3
  <2>3. rows'[L + n] = new[n]
    BY <1>7, <2>1, <2>2
  <2>4. L + n \in DOMAIN rows' /\ L + n \notin DOMAIN rows
    BY <1>8, <2>1, <2>2
  <2> QED BY <1>6, <2>1, <2>3, <2>4
<1>12. \A j \in DOMAIN rows' : j \in DOMAIN rows \/ \E i \in Fresh(ls) : rows'[j] = FreshRow(ls, i)
  BY <1>3, <1>10
<1>13. \A i \in Fresh(ls) : \E j \in DOMAIN rows' : j \notin DOMAIN rows /\ rows'[j] = FreshRow(ls, i)
  BY <1>3, <1>11
<1>14. ASSUME NEW j \in DOMAIN rows', NEW k \in DOMAIN rows',
              j \notin DOMAIN rows, k \notin DOMAIN rows, rows'[j].refund = rows'[k].refund
       PROVE  j = k
  <2>1. rows'[j].refund = ids[j - Len(rows)] /\ rows'[k].refund = ids[k - Len(rows)]
    BY <1>3, <1>10, <1>14, FreshRowIs
  <2>2. j - Len(rows) = k - Len(rows)
    BY <1>3, <1>10, <1>14, <2>1
  <2> QED
    BY <2>2, <1>8, <1>3
<1> QED
  BY <1>3, <1>7, <1>8, <1>9, <1>12, <1>13, <1>14

\* A reconcile keeps what a row says of its refund, and changes its status by what the list says.
LEMMA ReconcileChanges ==
  ASSUME TypeOK, RowsHere, NEW ls, DOMAIN ls \subseteq DOMAIN made, NEW now, Reconcile(ls, now),
         NEW j \in DOMAIN rows
  PROVE  /\ rows'[j].amount = rows[j].amount /\ rows'[j].lines = rows[j].lines
         /\ rows'[j].request = rows[j].request /\ rows'[j].by = rows[j].by /\ rows'[j].at = rows[j].at
         /\ rows[j].refund # 0 => rows'[j].refund = rows[j].refund
         /\ \/ \E i \in Completed(ls) :
                 /\ RowOf(i) = j /\ rows[j].status = "pending" /\ rows[j].refund = 0
                 /\ made[i].intent = j /\ ~Known(i)
                 /\ rows'[j].status = "done" /\ rows'[j].refund = i
            \/ /\ \A i \in Completed(ls) : RowOf(i) # j
               /\ \E i \in NewlyFailed(ls) :
                    /\ RowOf(i) = j /\ rows[j].status # "failed"
                    /\ rows[j].refund = i \/ (rows[j].refund = 0 /\ made[i].intent = j /\ ~Known(i))
                    /\ rows'[j].status = "failed" /\ rows'[j].refund = i
            \/ /\ \A i \in Completed(ls) \cup NewlyFailed(ls) : RowOf(i) # j
               /\ rows[j].status = "pending" /\ rows[j].refund = 0 /\ j \in LetGo(ls, now)
               /\ rows'[j].status = "failed" /\ rows'[j].refund = 0
            \/ /\ \A i \in Completed(ls) \cup NewlyFailed(ls) : RowOf(i) # j
               /\ rows'[j] = rows[j]
<1>1. rows[j] \in Row /\ rows'[j] = UpdatedRow(ls, now, j)
  <2>1. rows[j] \in Row
    BY TypeFacts
  <2>2. \A k \in DOMAIN rows : rows'[k] = UpdatedRow(ls, now, k)
    BY ReconcileRows
  <2> QED
    BY <2>1, <2>2
<1>2. j # 0 /\ Completed(ls) \subseteq DOMAIN made /\ NewlyFailed(ls) \subseteq DOMAIN made /\ 0 \notin DOMAIN made
  BY TypeFacts, ListFacts
<1>3. CASE \E i \in Completed(ls) :
             /\ RowOf(i) = j /\ rows[j].status = "pending"
             /\ UpdatedRow(ls, now, j) = [rows[j] EXCEPT !.status = "done", !.refund = i]
  <2>1. PICK i \in Completed(ls) :
             /\ RowOf(i) = j /\ rows[j].status = "pending"
             /\ UpdatedRow(ls, now, j) = [rows[j] EXCEPT !.status = "done", !.refund = i]
    BY <1>3
  <2>2. rows[j].refund = 0
    BY <2>1 DEF RowsHere
  <2>3. made[i].intent = j /\ ~Known(i)
    BY <1>2, <2>1, <2>2, RowOfIs DEF Known
  <2>4. /\ rows'[j].amount = rows[j].amount /\ rows'[j].lines = rows[j].lines
        /\ rows'[j].request = rows[j].request /\ rows'[j].by = rows[j].by /\ rows'[j].at = rows[j].at
        /\ rows'[j].status = "done" /\ rows'[j].refund = i
    BY <1>1, <2>1 DEF Row
  <2> QED
    BY <2>1, <2>2, <2>3, <2>4
<1>4. CASE /\ \A i \in Completed(ls) : RowOf(i) # j
           /\ \E i \in NewlyFailed(ls) :
                /\ RowOf(i) = j /\ rows[j].status # "failed"
                /\ UpdatedRow(ls, now, j) = [rows[j] EXCEPT !.status = "failed", !.refund = i]
  <2>1. PICK i \in NewlyFailed(ls) :
             /\ RowOf(i) = j /\ rows[j].status # "failed"
             /\ UpdatedRow(ls, now, j) = [rows[j] EXCEPT !.status = "failed", !.refund = i]
    BY <1>4
  <2>2. rows[j].refund = i \/ (rows[j].refund = 0 /\ made[i].intent = j /\ ~Known(i))
    BY <1>2, <2>1, RowOfIs DEF Known
  <2>3. /\ rows'[j].amount = rows[j].amount /\ rows'[j].lines = rows[j].lines
        /\ rows'[j].request = rows[j].request /\ rows'[j].by = rows[j].by /\ rows'[j].at = rows[j].at
        /\ rows'[j].status = "failed" /\ rows'[j].refund = i
    BY <1>1, <2>1 DEF Row
  <2>4. rows[j].refund # 0 => rows'[j].refund = rows[j].refund
    BY <2>2, <2>3
  <2> QED
    BY <1>4, <2>1, <2>2, <2>3, <2>4
<1>5. CASE /\ \A i \in Completed(ls) \cup NewlyFailed(ls) : RowOf(i) # j
           /\ rows[j].status = "pending" /\ j \in LetGo(ls, now)
           /\ UpdatedRow(ls, now, j) = [rows[j] EXCEPT !.status = "failed"]
  <2>1. rows[j].refund = 0
    BY <1>5 DEF RowsHere
  <2> QED
    BY <1>1, <1>5, <2>1 DEF Row
<1>6. CASE /\ \A i \in Completed(ls) \cup NewlyFailed(ls) : RowOf(i) # j
           /\ UpdatedRow(ls, now, j) = rows[j]
  BY <1>1, <1>6
<1>7. \/ \E i \in Completed(ls) :
            /\ RowOf(i) = j /\ rows[j].status = "pending"
            /\ UpdatedRow(ls, now, j) = [rows[j] EXCEPT !.status = "done", !.refund = i]
      \/ /\ \A i \in Completed(ls) : RowOf(i) # j
         /\ \E i \in NewlyFailed(ls) :
              /\ RowOf(i) = j /\ rows[j].status # "failed"
              /\ UpdatedRow(ls, now, j) = [rows[j] EXCEPT !.status = "failed", !.refund = i]
      \/ /\ \A i \in Completed(ls) \cup NewlyFailed(ls) : RowOf(i) # j
         /\ rows[j].status = "pending" /\ j \in LetGo(ls, now)
         /\ UpdatedRow(ls, now, j) = [rows[j] EXCEPT !.status = "failed"]
      \/ /\ \A i \in Completed(ls) \cup NewlyFailed(ls) : RowOf(i) # j
         /\ UpdatedRow(ls, now, j) = rows[j]
  BY UpdatedRowIs
<1> QED
  BY <1>3, <1>4, <1>5, <1>6, <1>7

----------------------------------------------------------------------------
(* Each action keeps the invariant                                         *)

LEMMA Constants ==
  /\ Hook \in Procs /\ None \in Tickets /\ Idle \in Job
  /\ \A a \in Admins : a \in Procs /\ a # Hook
  /\ Quantity \in Tickets
  /\ IntentHours \in Nat /\ KeyHours \in Nat /\ MaxCall \in Nat /\ IntentHours + MaxCall < KeyHours
<1>1. None \in Tickets
  BY DEF None, Tickets
<1>2. Idle \in Job
  BY <1>1 DEF Idle, Job
<1> QED
  BY <1>1, <1>2, ProcsAssumption, LinesAssumption, HoursAssumption DEF Procs, Tickets

LEMMA InitIInv == Init => IInv
<1> SUFFICES ASSUME Init PROVE IInv
  OBVIOUS
<1>1. TypeOK
  BY Constants, LinesAssumption DEF Init, TypeOK, None, Tickets
<1>2. RowsHere /\ RowsApart /\ MadeHere /\ MadeApart /\ AnswersHere
  BY DEF Init, RowsHere, RowsApart, MadeHere, MadeApart, AnswersHere
<1>3. AsksHere /\ ListsHere /\ EventsHere /\ TellsHere
  BY Constants DEF Init, Idle, AsksHere, ListsHere, EventsHere, TellsHere
<1> QED
  BY <1>1, <1>2, <1>3 DEF IInv

LEMMA JobOf ==
  ASSUME TypeOK, NEW p \in Procs
  PROVE  job[p] \in Job /\ job[p].list \in Seq(Listing) /\ job[p].began \in Nat /\ job[p].intent \in Nat
BY DEF TypeOK, Job, Listing

LEMMA TakeEventIInv == ASSUME IInv, TakeEvent PROVE IInv'
<1> DEFINE new == [job[Hook] EXCEPT !.step = "list"]
<1>1. job' = [job EXCEPT ![Hook] = new] /\ job[Hook].step = "idle" /\ events > 0
  BY DEF TakeEvent
<1>2. UNCHANGED <<clock, bookingVars, lock, stripeVars, told>>
  BY DEF TakeEvent
<1>3. TypeOK /\ job \in [Procs -> Job] /\ job[Hook] \in Job /\ events \in Nat
  BY Constants DEF IInv, TypeOK
<1>4. /\ new \in Job /\ new.step = "list" /\ new.list = job[Hook].list /\ new.tell = job[Hook].tell
      /\ new.request = job[Hook].request
  BY <1>3 DEF Job
<1> HIDE DEF new
<1>5. TypeOK'
  BY <1>1, <1>2, <1>3, <1>4 DEF TypeOK
<1>6. RowsHere' /\ RowsApart' /\ MadeHere' /\ MadeApart' /\ AnswersHere'
  BY <1>2 DEF IInv, RowsHere, RowsApart, MadeHere, MadeApart, AnswersHere
<1>7. AsksHere' /\ ListsHere' /\ EventsHere'
  BY <1>1, <1>2, <1>3, <1>4, Constants DEF IInv, AsksHere, ListsHere, EventsHere, Statuses
<1>8. TellsHere'
  BY <1>1, <1>2, <1>3, <1>4, Constants DEF IInv, TellsHere, Known
<1> QED
  BY <1>5, <1>6, <1>7, <1>8 DEF IInv

LEMMA ListRefundsIInv == ASSUME IInv, NEW p \in Procs, ListRefunds(p) PROVE IInv'
<1> DEFINE new == [job[p] EXCEPT !.step = "apply", !.began = clock, !.list = Statuses]
<1>1. /\ job[p].step = "list" /\ lock = Nobody /\ lock' = p /\ job' = [job EXCEPT ![p] = new]
      /\ UNCHANGED <<clock, bookingVars, stripeVars, told>>
  BY DEF ListRefunds, Statuses
<1>2. TypeOK /\ job \in [Procs -> Job] /\ job[p] \in Job /\ events \in Nat /\ clock \in Nat
  BY DEF IInv, TypeOK
<1>3. /\ Statuses \in Seq(Listing) /\ DOMAIN Statuses = DOMAIN made
      /\ \A i \in DOMAIN made : Statuses[i] = made[i].status
  <2>1. \A i \in DOMAIN made : made[i].status \in Listing
    BY <1>2, TypeFacts DEF Made, Listing
  <2> QED
    BY <1>2, <2>1, TypeFacts DEF Statuses
<1>4. /\ new \in Job /\ new.step = "apply" /\ new.list = Statuses /\ new.tell = job[p].tell
      /\ new.request = job[p].request
  BY <1>2, <1>3 DEF Job, Listing
<1> HIDE DEF new
<1>5. TypeOK'
  BY <1>1, <1>2, <1>4 DEF TypeOK
<1>6. RowsHere' /\ RowsApart' /\ MadeHere' /\ MadeApart' /\ AnswersHere'
  BY <1>1 DEF IInv, RowsHere, RowsApart, MadeHere, MadeApart, AnswersHere
<1>7. AsksHere'
  BY <1>1, <1>2, <1>4 DEF IInv, AsksHere
<1>8. ListsHere'
  <2>1. \A q \in Procs : q # p => job'[q] = job[q] /\ job[q].step # "apply"
    BY <1>1, <1>2, ProcsAssumption DEF IInv, ListsHere
  <2>2. job'[p] = new
    BY <1>1, <1>2
  <2> QED
    BY <1>1, <1>3, <1>4, <2>1, <2>2 DEF IInv, ListsHere, MadeHere
<1>9. EventsHere'
  <2>1. Statuses' = Statuses
    BY <1>1 DEF Statuses
  <2> QED
    BY <1>1, <1>2, <1>4, <2>1 DEF IInv, EventsHere
<1>10. TellsHere'
  BY <1>1, <1>2, <1>4 DEF IInv, TellsHere, Known
<1> QED
  BY <1>5, <1>6, <1>7, <1>8, <1>9, <1>10 DEF IInv

\* A proc that goes on to a step with nothing in hand.
LEMMA GoOn ==
  ASSUME IInv, NEW p \in Procs, NEW new \in Job, job' = [job EXCEPT ![p] = new],
         new.step \in {"idle", "list", "begin"}, p = Hook => new.step = "idle",
         new.tell = {}, new.request <= Len(requests),
         lock' = lock \/ (lock' = Nobody /\ lock = p), job[p].step = "apply" => lock' = Nobody,
         UNCHANGED <<clock, bookingVars, stripeVars>>,
         \/ told' = told
         \/ told' = [i \in DOMAIN told |-> IF i \in job[p].tell THEN told[i] + 1 ELSE told[i]]
  PROVE  IInv'
<1>1. TypeOK /\ job \in [Procs -> Job] /\ job[p] \in Job /\ job'[p] = new
  BY DEF IInv, TypeOK
<1>2. \A q \in Procs : q # p => job'[q] = job[q]
  BY <1>1
<1>3. told' \in Seq(Nat) /\ Len(told') = Len(told) /\ DOMAIN told' = DOMAIN told
  <2>1. told \in Seq(Nat) /\ DOMAIN told = 1..Len(told) /\ Len(told) \in Nat
    BY <1>1, TypeFacts
  <2>2. CASE told' = told
    BY <2>1, <2>2
  <2>3. CASE told' = [i \in DOMAIN told |-> IF i \in job[p].tell THEN told[i] + 1 ELSE told[i]]
    <3> DEFINE n == Len(told)
    <3>1. \A i \in DOMAIN told : told'[i] \in Nat
      BY <2>1, <2>3
    <3>2. told' \in [1..n -> Nat] /\ n \in Nat /\ DOMAIN told' = DOMAIN told /\ DOMAIN told = 1..n
      BY <2>1, <2>3, <3>1
    <3> HIDE DEF n
    <3>3. told' \in Seq(Nat) /\ Len(told') = n
      BY <3>2
    <3> QED
      BY <3>2, <3>3 DEF n
  <2> QED
    BY <2>2, <2>3
<1>4. TypeOK'
  BY <1>1, <1>3 DEF TypeOK
<1>5. RowsHere' /\ RowsApart' /\ MadeHere' /\ MadeApart' /\ AnswersHere'
  BY DEF IInv, RowsHere, RowsApart, MadeHere, MadeApart, AnswersHere
<1>6. AsksHere'
  BY <1>1 DEF IInv, AsksHere
<1>7. ListsHere'
  BY <1>1, <1>2, ProcsAssumption DEF IInv, ListsHere
<1>8. EventsHere'
  BY <1>1, <1>2 DEF IInv, EventsHere, Statuses
<1>9. TellsHere'
  <2>1. \A i \in DOMAIN made : Known(i)' <=> Known(i)
    BY DEF Known
  <2>2. \A q \in Procs : \A i \in job'[q].tell : i \in job[q].tell /\ q # p /\ i \notin job[p].tell
    BY <1>1, <1>2 DEF IInv, TellsHere
  <2>3. \A q \in Procs : \A i \in job'[q].tell : i \in DOMAIN made /\ Known(i) /\ told'[i] = 0
    BY <1>1, <2>2, TypeFacts DEF IInv, TellsHere
  <2>4. \A q, r \in Procs : q # r => job'[q].tell \cap job'[r].tell = {}
    BY <2>2 DEF IInv, TellsHere
  <2>5. ASSUME NEW i \in DOMAIN told, told'[i] # 0 PROVE told'[i] = 1 /\ Known(i)
    <3>1. told[i] \in Nat /\ (i \in job[p].tell => told[i] = 0 /\ Known(i))
      BY <1>1, TypeFacts DEF IInv, TellsHere
    <3>2. told'[i] = told[i] \/ (i \in job[p].tell /\ told'[i] = told[i] + 1)
      BY <1>3
    <3> QED
      BY <2>5, <3>1, <3>2 DEF IInv, TellsHere
  <2> QED
    BY <1>3, <2>1, <2>3, <2>4, <2>5, TypeFacts, <1>1 DEF TellsHere
<1> QED
  BY <1>4, <1>5, <1>6, <1>7, <1>8, <1>9 DEF IInv

LEMMA IdleIs == Idle.step = "idle" /\ Idle.tell = {} /\ Idle.request = 0
BY DEF Idle

LEMMA TellBuyerIInv == ASSUME IInv, NEW p \in Procs, TellBuyer(p) PROVE IInv'
<1>1. TypeOK /\ job[p] \in Job /\ job[p].request <= Len(requests) /\ Len(requests) \in Nat
  BY TypeFacts DEF IInv, TypeOK, AsksHere
<1>2. /\ job[p].step = "tell" /\ lock' = lock
      /\ told' = [i \in DOMAIN told |-> IF i \in job[p].tell THEN told[i] + 1 ELSE told[i]]
      /\ UNCHANGED <<clock, bookingVars, stripeVars>>
  BY DEF TellBuyer
<1>3. CASE p # Hook /\ job' = [job EXCEPT ![p].step = "begin", ![p].tell = {}]
  <2> DEFINE new == [job[p] EXCEPT !.step = "begin", !.tell = {}]
  <2>1. new \in Job /\ new.step = "begin" /\ new.tell = {} /\ new.request = job[p].request
    BY <1>1 DEF Job
  <2>2. job' = [job EXCEPT ![p] = new]
    BY <1>3
  <2> HIDE DEF new
  <2> QED
    BY <1>1, <1>2, <1>3, <2>1, <2>2, GoOn
<1>4. CASE Leave(p)
  <2>1. job' = [job EXCEPT ![p] = Idle] /\ 0 <= Len(requests)
    BY <1>1, <1>4 DEF Leave
  <2> QED
    BY <1>2, <2>1, Constants, IdleIs, GoOn
<1> QED
  BY <1>3, <1>4 DEF TellBuyer

LEMMA CrashIInv == ASSUME IInv, NEW p \in Procs, Crash(p) PROVE IInv'
<1>1. Len(requests) \in Nat
  BY TypeFacts DEF IInv
<1>2. /\ job' = [job EXCEPT ![p] = Idle] /\ lock' = IF lock = p THEN Nobody ELSE lock
      /\ UNCHANGED <<clock, bookingVars, stripeVars, told>>
  BY DEF Crash, Leave
<1>3. /\ 0 <= Len(requests)
      /\ lock' = lock \/ (lock' = Nobody /\ lock = p)
      /\ job[p].step = "apply" => lock' = Nobody
  BY <1>1, <1>2 DEF IInv, ListsHere
<1> QED
  BY <1>2, <1>3, Constants, IdleIs, GoOn

LEMMA ChooseRefundIInv ==
  ASSUME IInv, NEW a \in Admins, NEW w \in Wantable, NEW q \in {0} \cup DOMAIN requests,
         ChooseRefund(a, w, q)
  PROVE  IInv'
<1> DEFINE new == [Idle EXCEPT !.step = "list", !.wanted = w, !.request = q,
                              !.seen = refunded, !.pence = refundedPence]
<1>1. /\ job[a].step = "idle" /\ job' = [job EXCEPT ![a] = new]
      /\ UNCHANGED <<clock, bookingVars, lock, stripeVars, told>>
  BY DEF ChooseRefund
<1>2. TypeOK /\ refunded \in Tickets /\ refundedPence \in Nat
  BY DEF IInv, TypeOK
<1>3. q \in Nat /\ q <= Len(requests)
  BY <1>2, TypeFacts
<1>4. w \in Tickets
  BY LinesAssumption DEF Wantable, Tickets
<1>5. new \in Job /\ new.step = "list" /\ new.tell = {} /\ new.request = q
  BY <1>2, <1>3, <1>4, Constants DEF Idle, Job
<1> HIDE DEF new
<1> QED
  BY <1>1, <1>3, <1>5, Constants, GoOn

\* The steps of an admin who looks after a booking move nothing else.
LEMMA BookingStep ==
  ASSUME IInv, TypeOK', UNCHANGED <<clock, rows, lock, stripeVars, job, told>>,
         Len(requests) <= Len(requests')
  PROVE  IInv'
<1>1. Len(requests) \in Nat /\ Len(requests') \in Nat /\ TypeOK /\ \A j \in DOMAIN rows : rows[j].request \in Nat
  BY TypeFacts DEF IInv, TypeOK, Row
<1>2. \A p \in Procs : job[p].request \in Nat
  BY DEF IInv, TypeOK, Job
<1>3. RowsHere' /\ RowsApart' /\ MadeHere' /\ MadeApart' /\ AnswersHere'
  BY <1>1 DEF IInv, RowsHere, RowsApart, MadeHere, MadeApart, AnswersHere
<1>4. AsksHere' /\ ListsHere' /\ EventsHere'
  BY <1>1, <1>2 DEF IInv, AsksHere, ListsHere, EventsHere, Statuses
<1>5. TellsHere'
  BY DEF IInv, TellsHere, Known
<1> QED
  BY <1>3, <1>4, <1>5 DEF IInv

LEMMA ReleaseTicketsIInv == ASSUME IInv, NEW w \in Wantable, ReleaseTickets(w) PROVE IInv'
<1>1. /\ \A l \in Lines : w[l] <= Left(l)
      /\ refunded' = [l \in Lines |-> refunded[l] + w[l]]
      /\ UNCHANGED <<clock, refundedPence, failedFlag, rows, requests, lock, stripeVars, job, told>>
  BY DEF ReleaseTickets
<1>2. refunded \in Tickets /\ w \in Tickets /\ \A l \in Lines : refunded[l] <= Quantity[l]
  BY LinesAssumption DEF IInv, TypeOK, Wantable, Tickets
<1>3. refunded' \in Tickets /\ \A l \in Lines : refunded'[l] <= Quantity[l]
  BY <1>1, <1>2, Constants DEF Left, Tickets
<1>4. TypeOK'
  BY <1>1, <1>3 DEF IInv, TypeOK
<1> QED
  BY <1>1, <1>4, TypeFacts, BookingStep DEF IInv

LEMMA MarkSortedIInv == ASSUME IInv, MarkSorted PROVE IInv'
<1>1. TypeOK'
  BY DEF IInv, TypeOK, MarkSorted
<1> QED
  BY <1>1, TypeFacts, BookingStep DEF IInv, MarkSorted

LEMMA CreateRequestIInv == ASSUME IInv, CreateRequest PROVE IInv'
<1>1. requests \in Seq({"open", "refunded", "declined"}) /\ requests' = Append(requests, "open")
  BY DEF IInv, TypeOK, CreateRequest
<1>2. requests' \in Seq({"open", "refunded", "declined"}) /\ Len(requests) <= Len(requests')
  BY <1>1
<1>3. TypeOK'
  BY <1>2 DEF IInv, TypeOK, CreateRequest
<1> QED
  BY <1>2, <1>3, BookingStep DEF CreateRequest

LEMMA DeclineRequestIInv == ASSUME IInv, NEW q \in DOMAIN requests, DeclineRequest(q) PROVE IInv'
<1>1. /\ requests \in Seq({"open", "refunded", "declined"})
      /\ requests' = [requests EXCEPT ![q] = "declined"]
  BY DEF IInv, TypeOK, DeclineRequest
<1>2. requests' \in Seq({"open", "refunded", "declined"}) /\ Len(requests) <= Len(requests')
  BY <1>1
<1>3. TypeOK'
  BY <1>2 DEF IInv, TypeOK, DeclineRequest
<1> QED
  BY <1>2, <1>3, BookingStep DEF DeclineRequest

LEMMA TickIInv == ASSUME IInv, Tick PROVE IInv'
<1>1. /\ clock' = clock + 1 /\ UNCHANGED <<bookingVars, lock, stripeVars, job, told>>
      /\ \A p \in Procs : job[p].step = "ask" => clock < job[p].began + MaxCall
  BY DEF Tick
<1>2. clock \in Nat /\ TypeOK /\ MaxCall \in Nat /\ \A p \in Procs : job[p].began \in Nat
  BY JobOf, Constants DEF IInv, TypeOK
<1>3. TypeOK'
  BY <1>1, <1>2 DEF TypeOK
<1>4. RowsHere'
  <2>1. \A j \in DOMAIN rows : rows[j].at \in Nat
    BY <1>2, TypeFacts DEF Row
  <2> QED
    BY <1>1, <1>2, <2>1 DEF IInv, RowsHere
<1>5. RowsApart' /\ MadeHere' /\ MadeApart' /\ AnswersHere'
  BY <1>1 DEF IInv, RowsApart, MadeHere, MadeApart, AnswersHere
<1>6. AsksHere'
  BY <1>1, <1>2 DEF IInv, AsksHere
<1>7. ListsHere' /\ EventsHere'
  BY <1>1 DEF IInv, ListsHere, EventsHere, Statuses
<1>8. TellsHere'
  BY <1>1 DEF IInv, TellsHere, Known
<1> QED
  BY <1>3, <1>4, <1>5, <1>6, <1>7, <1>8 DEF IInv

\* Stripe moves on, with an event of it, and what is in hand stays true.
LEMMA StripeMoves ==
  ASSUME IInv, rows' = rows, lock' = lock, events' = events + 1 \/ (events' = events /\ made' = made),
         DOMAIN made \subseteq DOMAIN made', paid \subseteq paid',
         \A i \in DOMAIN made : made[i].status = "failed" => made'[i].status = "failed",
         DOMAIN told \subseteq DOMAIN told',
         \A i \in DOMAIN told' : IF i \in DOMAIN told THEN told'[i] = told[i] ELSE told'[i] = 0,
         job'[Hook] = job[Hook],
         \A p \in Procs : job'[p].tell \subseteq job[p].tell /\ (job'[p].step = "apply" => job'[p] = job[p])
  PROVE  ListsHere' /\ EventsHere' /\ TellsHere'
<1>1. TypeOK /\ events \in Nat /\ DOMAIN told = DOMAIN made
  BY TypeFacts DEF IInv, TypeOK
<1>2. ListsHere'
  <2> SUFFICES ASSUME NEW p \in Procs, job'[p].step = "apply"
               PROVE  /\ lock' = p
                      /\ DOMAIN job'[p].list \subseteq DOMAIN made'
                      /\ \A i \in DOMAIN job'[p].list :
                           /\ job'[p].list[i] = "succeeded" => i \in paid'
                           /\ job'[p].list[i] = "failed" => made'[i].status = "failed"
    BY DEF ListsHere
  <2>1. job'[p] = job[p]
    OBVIOUS
  <2>2. /\ lock = p /\ DOMAIN job[p].list \subseteq DOMAIN made
        /\ \A i \in DOMAIN job[p].list :
             /\ job[p].list[i] = "succeeded" => i \in paid
             /\ job[p].list[i] = "failed" => made[i].status = "failed"
    BY <2>1 DEF IInv, ListsHere
  <2> QED
    BY <2>1, <2>2
<1>3. EventsHere'
  <2>1. made' = made => Statuses' = Statuses
    BY DEF Statuses
  <2>2. job[Hook].step \in {"list", "apply"} => events >= 1
    BY DEF IInv, EventsHere
  <2>3. \A p \in Procs : job[p].step = "apply" /\ job[p].list # Statuses =>
          events >= 1 /\ (p = Hook => events >= 2)
    BY DEF IInv, EventsHere
  <2>4. ASSUME NEW p \in Procs, job'[p].step = "apply", job'[p].list # Statuses'
        PROVE  events' >= 1 /\ (p = Hook => events' >= 2)
    <3>1. job'[p] = job[p]
      BY <2>4
    <3> QED
      BY <1>1, <2>1, <2>2, <2>3, <2>4, <3>1
  <2> QED
    BY <1>1, <2>2, <2>4 DEF EventsHere
<1>4. TellsHere'
  <2>1. \A i : Known(i)' <=> Known(i)
    BY DEF Known
  <2>2. \A p \in Procs : \A i \in job'[p].tell : i \in DOMAIN made /\ Known(i) /\ told[i] = 0
    BY DEF IInv, TellsHere
  <2>3. \A p \in Procs : \A i \in job'[p].tell : i \in DOMAIN made' /\ Known(i)' /\ told'[i] = 0
    BY <1>1, <2>1, <2>2
  <2>4. \A p, q \in Procs : p # q => job'[p].tell \cap job'[q].tell = {}
    BY DEF IInv, TellsHere
  <2>5. \A i \in DOMAIN told' : told'[i] # 0 => told'[i] = 1 /\ Known(i)'
    BY <2>1 DEF IInv, TellsHere
  <2> QED
    BY <2>3, <2>4, <2>5 DEF TellsHere
<1> QED
  BY <1>2, <1>3, <1>4

LEMMA SettleRefundIInv ==
  ASSUME IInv, NEW i \in DOMAIN made, NEW s \in {"succeeded", "failed"}, SettleRefund(i, s)
  PROVE  IInv'
<1>1. /\ made[i].status # "failed"
      /\ made' = [made EXCEPT ![i].status = s] /\ events' = events + 1
      /\ paid' = IF s = "succeeded" THEN paid \cup {i} ELSE paid
      /\ UNCHANGED <<clock, bookingVars, lock, answers, job, told>>
  BY DEF SettleRefund
<1>2. TypeOK /\ made \in Seq(Made) /\ DOMAIN made = 1..Len(made) /\ made[i] \in Made
  BY TypeFacts DEF IInv
<1>3. /\ made' \in Seq(Made) /\ Len(made') = Len(made) /\ DOMAIN made' = DOMAIN made
      /\ \A k \in DOMAIN made : k # i => made'[k] = made[k]
      /\ made'[i].status = s /\ made'[i].intent = made[i].intent /\ made'[i].amount = made[i].amount
  <2> DEFINE new == [made[i] EXCEPT !.status = s]
  <2>1. new \in Made /\ new.status = s /\ new.intent = made[i].intent /\ new.amount = made[i].amount
    BY <1>2 DEF Made
  <2>2. made' = [made EXCEPT ![i] = new]
    BY <1>1
  <2> HIDE DEF new
  <2> QED
    BY <1>2, <2>1, <2>2
<1>4. \A k \in DOMAIN made : made'[k].intent = made[k].intent /\ made'[k].amount = made[k].amount
  BY <1>3
<1>5. TypeOK'
  BY <1>1, <1>3 DEF IInv, TypeOK
<1>6. RowsHere'
  <2>1. \A k \in DOMAIN made : made[k].status = "failed" => made'[k].status = "failed"
    BY <1>1, <1>3
  <2> QED
    BY <1>1, <1>3, <1>4, <2>1 DEF IInv, RowsHere
<1>7. MadeHere' /\ MadeApart'
  BY <1>1, <1>3, <1>4 DEF IInv, MadeHere, MadeApart
<1>8. RowsApart' /\ AnswersHere' /\ AsksHere'
  BY <1>1, <1>3 DEF IInv, RowsApart, AnswersHere, AsksHere
<1>9. ListsHere' /\ EventsHere' /\ TellsHere'
  BY <1>1, <1>3, StripeMoves
<1> QED
  BY <1>5, <1>6, <1>7, <1>8, <1>9 DEF IInv

\* A refund that Stripe makes, by hand (j = 0) or for an intent it had not answered for.
LEMMA MakeRefundIs ==
  ASSUME IInv, NEW amount \in Nat, NEW j \in Nat, NEW s \in {"pending", "succeeded"},
         MakeRefund(amount, j, s), UNCHANGED <<clock, bookingVars>>, answers \subseteq answers',
         j # 0 => /\ j \in DOMAIN rows /\ rows[j].by = "admin" /\ rows[j].amount = amount
                  /\ \A i \in DOMAIN made : made[i].intent # j
                  /\ \E x \in answers' : x.intent = j
  PROVE  /\ made' \in Seq(Made) /\ Len(made') = Len(made) + 1 /\ DOMAIN made \subseteq DOMAIN made'
         /\ \A i \in DOMAIN made : made'[i] = made[i]
         /\ told' \in Seq(Nat) /\ Len(told') = Len(made')
         /\ \A i \in DOMAIN told' : IF i \in DOMAIN told THEN told'[i] = told[i] ELSE told'[i] = 0
         /\ events' = events + 1 /\ paid \subseteq paid' /\ paid' \subseteq DOMAIN made'
         /\ RowsHere' /\ RowsApart' /\ MadeHere' /\ MadeApart'
<1> DEFINE new == [amount |-> amount, intent |-> j, status |-> s]
<1>1. /\ made' = Append(made, new) /\ told' = Append(told, 0) /\ events' = events + 1
      /\ paid' = IF s = "succeeded" THEN paid \cup {Len(made) + 1} ELSE paid
  BY DEF MakeRefund
<1>2. /\ TypeOK /\ made \in Seq(Made) /\ DOMAIN made = 1..Len(made) /\ Len(made) \in Nat
      /\ told \in Seq(Nat) /\ DOMAIN told = DOMAIN made /\ Len(told) = Len(made) /\ paid \subseteq DOMAIN made
  BY TypeFacts DEF IInv, TypeOK
<1>3. new \in Made /\ new.intent = j /\ new.amount = amount /\ new.status = s
  BY DEF Made
<1> HIDE DEF new
<1>4. /\ made' \in Seq(Made) /\ Len(made') = Len(made) + 1 /\ DOMAIN made' = 1..(Len(made) + 1)
      /\ \A i \in DOMAIN made : made'[i] = made[i]
      /\ made'[Len(made) + 1] = new
  BY <1>1, <1>2, <1>3
<1>5. /\ told' \in Seq(Nat) /\ Len(told') = Len(made')
      /\ \A i \in DOMAIN told' : IF i \in DOMAIN told THEN told'[i] = told[i] ELSE told'[i] = 0
  BY <1>1, <1>2, <1>4
<1>6. paid \subseteq paid' /\ paid' \subseteq DOMAIN made' /\ DOMAIN made \subseteq DOMAIN made'
  BY <1>1, <1>2, <1>4
<1>7. RowsHere' /\ RowsApart'
  BY <1>4, <1>6 DEF IInv, RowsHere, RowsApart
<1>8. MadeHere'
  <2> SUFFICES ASSUME NEW i \in DOMAIN made'
               PROVE  /\ made'[i].status = "succeeded" => i \in paid'
                      /\ made'[i].intent # 0 =>
                           /\ made'[i].intent \in DOMAIN rows
                           /\ rows[made'[i].intent].by = "admin"
                           /\ rows[made'[i].intent].amount = made'[i].amount
                           /\ \E x \in answers' : x.intent = made'[i].intent
    BY DEF MadeHere
  <2>1. CASE i \in DOMAIN made
    <3>1. made'[i] = made[i]
      BY <1>4, <2>1
    <3>2. /\ made[i].status = "succeeded" => i \in paid
          /\ made[i].intent # 0 =>
               /\ made[i].intent \in DOMAIN rows
               /\ rows[made[i].intent].by = "admin"
               /\ rows[made[i].intent].amount = made[i].amount
               /\ \E x \in answers : x.intent = made[i].intent
      BY <2>1 DEF IInv, MadeHere
    <3> QED
      BY <1>6, <3>1, <3>2
  <2>2. CASE i \notin DOMAIN made
    <3>1. i = Len(made) + 1 /\ made'[i] = new
      BY <1>2, <1>4, <2>2
    <3> QED
      BY <1>1, <1>3, <3>1
  <2> QED
    BY <2>1, <2>2
<1>9. MadeApart'
  <2> SUFFICES ASSUME NEW i \in DOMAIN made', NEW k \in DOMAIN made', i # k,
                      made'[i].intent = made'[k].intent, made'[i].intent # 0
               PROVE  FALSE
    BY DEF MadeApart
  <2>1. CASE i \in DOMAIN made /\ k \in DOMAIN made
    BY <1>4, <2>1 DEF IInv, MadeApart
  <2>2. CASE i \notin DOMAIN made \/ k \notin DOMAIN made
    <3>1. \E h \in DOMAIN made : made[h].intent = j /\ j # 0
      BY <1>2, <1>3, <1>4, <2>2
    <3> QED
      BY <3>1
  <2> QED
    BY <2>1, <2>2
<1> QED
  BY <1>1, <1>4, <1>5, <1>6, <1>7, <1>8, <1>9

LEMMA RefundByHandIInv ==
  ASSUME IInv, NEW amount \in HandAmounts, RefundByHand(amount)
  PROVE  IInv'
<1>1. /\ MakeRefund(amount, 0, "succeeded")
      /\ UNCHANGED <<clock, bookingVars, lock, answers, job>>
  BY DEF RefundByHand
<1>2. amount \in Nat
  BY LinesAssumption
<1>3. TypeOK /\ events \in Nat /\ Len(made) \in Nat /\ Len(made') \in Nat
  BY TypeFacts, <1>1, <1>2, MakeRefundIs DEF IInv, TypeOK
<1>4. /\ made' \in Seq(Made) /\ Len(made') = Len(made) + 1 /\ DOMAIN made \subseteq DOMAIN made'
      /\ \A i \in DOMAIN made : made'[i] = made[i]
      /\ told' \in Seq(Nat) /\ Len(told') = Len(made')
      /\ \A i \in DOMAIN told' : IF i \in DOMAIN told THEN told'[i] = told[i] ELSE told'[i] = 0
      /\ events' = events + 1 /\ paid \subseteq paid' /\ paid' \subseteq DOMAIN made'
      /\ RowsHere' /\ RowsApart' /\ MadeHere' /\ MadeApart'
  BY <1>1, <1>2, MakeRefundIs
<1>5. TypeOK'
  BY <1>1, <1>3, <1>4 DEF TypeOK
<1>6. AnswersHere'
  <2>1. \A x \in answers : x.refund \in Nat
    BY <1>3 DEF TypeOK
  <2> QED
    BY <1>1, <1>3, <1>4, <2>1 DEF IInv, AnswersHere
<1>7. AsksHere'
  BY <1>1 DEF IInv, AsksHere
<1>8. DOMAIN told \subseteq DOMAIN told'
  BY <1>3, <1>4, TypeFacts
<1>9. ListsHere' /\ EventsHere' /\ TellsHere'
  BY <1>1, <1>4, <1>8, StripeMoves
<1> QED
  BY <1>4, <1>5, <1>6, <1>7, <1>9 DEF IInv

\* While a call for an intent is open, Stripe remembers every answer it gave for it.
LEMMA AnswersRemembered ==
  ASSUME IInv, NEW p \in Procs, job[p].step = "ask"
  PROVE  Remembered(job[p].intent) = {x \in answers : x.intent = job[p].intent}
<1> DEFINE j == job[p].intent
<1>1. /\ j \in DOMAIN rows /\ job[p].began <= rows[j].at + IntentHours
      /\ clock <= job[p].began + MaxCall
  BY DEF IInv, AsksHere
<1>2. TypeOK /\ rows[j].at \in Nat /\ clock \in Nat /\ job[p].began \in Nat
  BY <1>1, TypeFacts, JobOf DEF IInv, TypeOK, Row
<1>3. \A x \in answers : x.intent = j => x.at \in Nat /\ rows[j].at <= x.at
  BY DEF IInv, TypeOK, AnswersHere
<1>4. \A x \in answers : x.intent = j => clock < x.at + KeyHours
  BY <1>1, <1>2, <1>3, Constants
<1> QED
  BY <1>4 DEF Remembered

LEMMA AskStripeIInv == ASSUME IInv, NEW a \in Admins, AskStripe(a) PROVE IInv'
<1> DEFINE j == job[a].intent
<1>1. job[a].step = "ask" /\ UNCHANGED <<clock, bookingVars, lock>>
  BY DEF AskStripe
<1>2. PICK r \in 0..(Len(made) + 1) :
        /\ \/ /\ \E x \in Remembered(j) : x.refund = r
              /\ UNCHANGED <<stripeVars, told>>
           \/ /\ Remembered(j) = {}
              /\ \/ r = 0 /\ UNCHANGED <<made, told, events, paid>>
                 \/ /\ r = Len(made) + 1 /\ rows[j].amount <= Refundable
                    /\ \E s \in {"pending", "succeeded"} : MakeRefund(rows[j].amount, j, s)
              /\ answers' = answers \cup {[intent |-> j, refund |-> r, at |-> clock]}
        /\ \/ job' = [job EXCEPT ![a].step = IF r = 0 THEN "refused" ELSE "list", ![a].began = 0]
           \/ Leave(a)
  BY DEF AskStripe
<1>3. TypeOK /\ job \in [Procs -> Job] /\ a \in Procs /\ a # Hook /\ job[a] \in Job /\ clock \in Nat
  BY Constants DEF IInv, TypeOK
<1>4. Len(made) \in Nat /\ DOMAIN told = DOMAIN made /\ events \in Nat /\ Len(requests) \in Nat
  BY <1>3, TypeFacts DEF TypeOK
<1>5. /\ j \in DOMAIN rows /\ j \in Nat /\ rows[j].by = "admin" /\ rows[j].amount \in Nat
      /\ rows[j].at <= clock
  <2>1. j \in DOMAIN rows /\ rows[j].by = "admin"
    BY <1>1, <1>3 DEF IInv, AsksHere
  <2>2. DOMAIN rows \subseteq Nat /\ rows[j] \in Row
    BY <2>1, <1>3, TypeFacts
  <2>3. rows[j].at <= clock
    BY <2>1 DEF IInv, RowsHere
  <2> QED
    BY <2>1, <2>2, <2>3 DEF Row
<1>6. PICK new \in Job :
        /\ job' = [job EXCEPT ![a] = new]
        /\ new.step \in {"refused", "list", "idle"} /\ new.tell \subseteq job[a].tell
        /\ new.request <= Len(requests) /\ (new.step = "refused" => new.intent = j)
  <2>1. CASE job' = [job EXCEPT ![a].step = IF r = 0 THEN "refused" ELSE "list", ![a].began = 0]
    <3> DEFINE new == [job[a] EXCEPT !.step = IF r = 0 THEN "refused" ELSE "list", !.began = 0]
    <3>1. /\ new \in Job /\ new.step \in {"refused", "list"} /\ new.tell = job[a].tell
          /\ new.request = job[a].request /\ new.intent = j
      <4>1. (IF r = 0 THEN "refused" ELSE "list") \in {"refused", "list"} /\ job[a] \in Job
        BY <1>3
      <4>2. \A s \in {"refused", "list"} :
              LET x == [job[a] EXCEPT !.step = s, !.began = 0]
              IN  /\ x \in Job /\ x.step = s /\ x.tell = job[a].tell
                  /\ x.request = job[a].request /\ x.intent = j
        BY <4>1 DEF Job
      <4> QED BY <4>1, <4>2
    <3>2. job' = [job EXCEPT ![a] = new]
      BY <2>1
    <3>3. job[a].request <= Len(requests)
      BY <1>3 DEF IInv, AsksHere
    <3> HIDE DEF new
    <3> QED
      BY <3>1, <3>2, <3>3
  <2>2. CASE Leave(a)
    <3>1. job' = [job EXCEPT ![a] = Idle] /\ 0 <= Len(requests)
      BY <1>4, <2>2 DEF Leave
    <3> QED
      BY <3>1, Constants, IdleIs
  <2> QED
    BY <1>2, <2>1, <2>2
<1> HIDE DEF j
<1>7. job'[a] = new /\ \A p \in Procs : p # a => job'[p] = job[p]
  BY <1>3, <1>6
<1>8. job' \in [Procs -> Job]
  BY <1>3, <1>6
<1>9. AsksHere'
  BY <1>1, <1>5, <1>6, <1>7 DEF IInv, AsksHere
<1>10. /\ job'[Hook] = job[Hook]
       /\ \A p \in Procs : job'[p].tell \subseteq job[p].tell /\ (job'[p].step = "apply" => job'[p] = job[p])
  BY <1>3, <1>6, <1>7, Constants
<1>11. CASE /\ UNCHANGED <<made, told, events, paid>>
            /\ \/ answers' = answers
               \/ r = 0 /\ answers' = answers \cup {[intent |-> j, refund |-> r, at |-> clock]}
  <2>1. TypeOK'
    BY <1>1, <1>3, <1>5, <1>8, <1>11 DEF TypeOK
  <2>2. RowsHere' /\ RowsApart' /\ MadeHere' /\ MadeApart'
    BY <1>1, <1>11 DEF IInv, RowsHere, RowsApart, MadeHere, MadeApart
  <2>3. AnswersHere'
    BY <1>1, <1>4, <1>5, <1>11 DEF IInv, AnswersHere
  <2>4. ListsHere' /\ EventsHere' /\ TellsHere'
    BY <1>1, <1>10, <1>11, StripeMoves
  <2> QED
    BY <1>9, <2>1, <2>2, <2>3, <2>4 DEF IInv
<1>12. CASE /\ Remembered(j) = {} /\ r = Len(made) + 1
            /\ \E s \in {"pending", "succeeded"} : MakeRefund(rows[j].amount, j, s)
            /\ answers' = answers \cup {[intent |-> j, refund |-> r, at |-> clock]}
  <2>1. PICK s \in {"pending", "succeeded"} : MakeRefund(rows[j].amount, j, s)
    BY <1>12
  <2>2. \A i \in DOMAIN made : made[i].intent # j
    <3>1. {x \in answers : x.intent = j} = {}
      BY <1>1, <1>3, <1>12, AnswersRemembered DEF j
    <3>2. 0 \notin DOMAIN rows
      BY <1>3, TypeFacts
    <3>3. \A i \in DOMAIN made : made[i].intent # 0 => \E x \in answers : x.intent = made[i].intent
      BY DEF IInv, MadeHere
    <3> QED
      BY <1>5, <3>1, <3>2, <3>3
  <2>3. /\ answers \subseteq answers' /\ \E x \in answers' : x.intent = j
    <3>1. [intent |-> j, refund |-> r, at |-> clock] \in answers'
      BY <1>12
    <3>2. [intent |-> j, refund |-> r, at |-> clock].intent = j
      OBVIOUS
    <3> QED
      BY <1>12, <3>1, <3>2
  <2>4. /\ made' \in Seq(Made) /\ Len(made') = Len(made) + 1 /\ DOMAIN made \subseteq DOMAIN made'
        /\ \A i \in DOMAIN made : made'[i] = made[i]
        /\ told' \in Seq(Nat) /\ Len(told') = Len(made')
        /\ \A i \in DOMAIN told' : IF i \in DOMAIN told THEN told'[i] = told[i] ELSE told'[i] = 0
        /\ events' = events + 1 /\ paid \subseteq paid' /\ paid' \subseteq DOMAIN made'
        /\ RowsHere' /\ RowsApart' /\ MadeHere' /\ MadeApart'
    BY <1>1, <1>5, <2>1, <2>2, <2>3, MakeRefundIs
  <2>5. r \in Nat /\ answers' \subseteq [intent : Nat, refund : Nat, at : Nat]
    BY <1>3, <1>4, <1>5, <1>12 DEF TypeOK
  <2>6. TypeOK'
    BY <1>1, <1>3, <1>4, <1>8, <2>4, <2>5 DEF TypeOK
  <2>7. AnswersHere'
    <3>1. \A x \in answers : x.refund \in Nat /\ x.refund <= Len(made)
      BY <1>3 DEF IInv, TypeOK, AnswersHere
    <3> QED
      BY <1>1, <1>4, <1>5, <1>12, <2>4, <3>1 DEF IInv, AnswersHere
  <2>8. DOMAIN told \subseteq DOMAIN told'
    BY <1>4, <2>4
  <2>9. ListsHere' /\ EventsHere' /\ TellsHere'
    BY <1>1, <1>10, <2>4, <2>8, StripeMoves
  <2> QED
    BY <1>9, <2>4, <2>6, <2>7, <2>9 DEF IInv
<1> QED
  BY <1>2, <1>11, <1>12

\* Rows are added, and what they say of a refund is not changed.
RowsKeep ==
  /\ DOMAIN rows \subseteq DOMAIN rows'
  /\ \A j \in DOMAIN rows :
       /\ rows'[j].by = rows[j].by /\ rows'[j].amount = rows[j].amount /\ rows'[j].at = rows[j].at
       /\ rows'[j].request = rows[j].request /\ rows'[j].lines = rows[j].lines
       /\ rows[j].refund # 0 => rows'[j].refund = rows[j].refund

LEMMA RowsKept ==
  ASSUME IInv, RowsKeep, UNCHANGED <<clock, made, answers, paid>>
  PROVE  /\ MadeHere' /\ MadeApart' /\ AnswersHere'
         /\ \A i \in DOMAIN made : Known(i) => Known(i)'
<1>1. MadeHere'
  BY DEF IInv, MadeHere, RowsKeep
<1>2. MadeApart'
  BY DEF IInv, MadeApart
<1>3. AnswersHere'
  BY DEF IInv, AnswersHere, RowsKeep
<1>4. \A i \in DOMAIN made : Known(i) => Known(i)'
  <2>1. 0 \notin DOMAIN made
    BY TypeFacts DEF IInv
  <2> QED
    BY <2>1 DEF Known, RowsKeep
<1> QED
  BY <1>1, <1>2, <1>3, <1>4

LEMMA AdminGoesOn ==
  ASSUME IInv, RowsKeep, NEW a \in Admins, NEW new \in Job, job' = [job EXCEPT ![a] = new],
         new.step \in {"idle", "ask"}, new.tell = {}, new.request = 0,
         new.step = "ask" =>
           /\ new.intent \in DOMAIN rows' /\ rows'[new.intent].by = "admin"
           /\ new.began = clock /\ clock <= rows'[new.intent].at + IntentHours,
         UNCHANGED <<clock, requests, lock, stripeVars, told>>
  PROVE  /\ job' \in [Procs -> Job]
         /\ MadeHere' /\ MadeApart' /\ AnswersHere' /\ AsksHere' /\ ListsHere' /\ EventsHere' /\ TellsHere'
<1>1. /\ TypeOK /\ job \in [Procs -> Job] /\ a \in Procs /\ a # Hook
      /\ Len(requests) \in Nat /\ clock \in Nat /\ MaxCall \in Nat
  BY TypeFacts, Constants DEF IInv, TypeOK
<1>2. job' \in [Procs -> Job] /\ job'[a] = new /\ \A p \in Procs : p # a => job'[p] = job[p]
  BY <1>1
<1>3. MadeHere' /\ MadeApart' /\ AnswersHere' /\ \A i \in DOMAIN made : Known(i) => Known(i)'
  BY RowsKept
<1>4. AsksHere'
  <2>1. \A p \in Procs : job[p].step \in {"ask", "refused"} =>
          /\ job[p].intent \in DOMAIN rows' /\ rows'[job[p].intent].by = "admin"
          /\ job[p].step = "ask" => job[p].began <= rows'[job[p].intent].at + IntentHours
    BY DEF IInv, AsksHere, RowsKeep
  <2> QED
    BY <1>1, <1>2, <2>1 DEF IInv, AsksHere
<1>5. ListsHere' /\ EventsHere'
  BY <1>1, <1>2 DEF IInv, ListsHere, EventsHere, Statuses
<1>6. TellsHere'
  <2>1. \A p \in Procs : job'[p].tell \subseteq job[p].tell
    BY <1>2
  <2>2. \A p \in Procs : \A i \in job'[p].tell : i \in DOMAIN made /\ Known(i)' /\ told[i] = 0
    BY <1>3, <2>1 DEF IInv, TellsHere
  <2>3. \A p, q \in Procs : p # q => job'[p].tell \cap job'[q].tell = {}
    BY <2>1 DEF IInv, TellsHere
  <2>4. \A i \in DOMAIN told : told[i] # 0 => told[i] = 1 /\ Known(i)'
    BY <1>1, <1>3, TypeFacts DEF IInv, TellsHere
  <2> QED
    BY <2>2, <2>3, <2>4 DEF TellsHere
<1> QED
  BY <1>2, <1>3, <1>4, <1>5, <1>6

LEMMA FailRefundIs ==
  ASSUME IInv, NEW a \in Admins, FailRefund(a)
  PROVE  /\ rows' \in Seq(Row) /\ Len(rows') = Len(rows) /\ RowsKeep
         /\ \A j \in DOMAIN rows : rows'[j] = rows[j] \/
              (rows[j].status = "pending" /\ rows'[j].status = "failed" /\ rows'[j].refund = rows[j].refund)
<1> DEFINE j == job[a].intent
           new == [rows[j] EXCEPT !.status = "failed"]
<1>1. TypeOK /\ j \in DOMAIN rows /\ rows \in Seq(Row) /\ DOMAIN rows = 1..Len(rows) /\ rows[j] \in Row
  BY TypeFacts, Constants DEF IInv, AsksHere, FailRefund
<1>2. rows' = IF rows[j].status = "pending" THEN [rows EXCEPT ![j] = new] ELSE rows
  BY DEF FailRefund
<1>3. /\ new \in Row /\ new.status = "failed" /\ new.refund = rows[j].refund /\ new.by = rows[j].by
      /\ new.amount = rows[j].amount /\ new.at = rows[j].at /\ new.request = rows[j].request
      /\ new.lines = rows[j].lines
  BY <1>1 DEF Row
<1> HIDE DEF new, j
<1>4. CASE rows[j].status = "pending"
  <2>1. /\ rows' \in Seq(Row) /\ Len(rows') = Len(rows) /\ DOMAIN rows' = DOMAIN rows
        /\ rows'[j] = new /\ \A k \in DOMAIN rows : k # j => rows'[k] = rows[k]
    BY <1>1, <1>2, <1>3, <1>4
  <2>2. RowsKeep
    BY <1>3, <2>1 DEF RowsKeep
  <2> QED
    BY <1>3, <1>4, <2>1, <2>2
<1>5. CASE rows[j].status # "pending"
  BY <1>1, <1>2, <1>5 DEF RowsKeep
<1> QED
  BY <1>4, <1>5

LEMMA FailRefundIInv == ASSUME IInv, NEW a \in Admins, FailRefund(a) PROVE IInv'
<1>1. /\ job' = [job EXCEPT ![a] = Idle]
      /\ UNCHANGED <<clock, refunded, refundedPence, failedFlag, requests, lock, stripeVars, told>>
  BY DEF FailRefund, Leave
<1>2. /\ rows' \in Seq(Row) /\ Len(rows') = Len(rows) /\ RowsKeep
      /\ \A j \in DOMAIN rows : rows'[j] = rows[j] \/
           (rows[j].status = "pending" /\ rows'[j].status = "failed" /\ rows'[j].refund = rows[j].refund)
  BY FailRefundIs
<1>3. /\ job' \in [Procs -> Job]
      /\ MadeHere' /\ MadeApart' /\ AnswersHere' /\ AsksHere' /\ ListsHere' /\ EventsHere' /\ TellsHere'
  BY <1>1, <1>2, Constants, IdleIs, AdminGoesOn
<1>4. DOMAIN rows' = DOMAIN rows
  BY <1>2, TypeFacts DEF IInv
<1>5. TypeOK'
  BY <1>1, <1>2, <1>3 DEF IInv, TypeOK
<1>6. RowsHere'
  BY <1>1, <1>2, <1>4 DEF IInv, RowsHere, RowsKeep
<1>7. RowsApart'
  BY <1>2, <1>4 DEF IInv, RowsHere, RowsApart
<1> QED
  BY <1>3, <1>5, <1>6, <1>7 DEF IInv

LEMMA AskIs ==
  ASSUME NEW a \in Admins, NEW j \in Nat, Ask(a, j), clock \in Nat
  PROVE  \E new \in Job : /\ job' = [job EXCEPT ![a] = new] /\ new.step = "ask" /\ new.intent = j
                          /\ new.began = clock /\ new.tell = {} /\ new.request = 0
<1> DEFINE new == [Idle EXCEPT !.step = "ask", !.intent = j, !.began = clock]
<1>1. /\ new \in Job /\ new.step = "ask" /\ new.intent = j
      /\ new.began = clock /\ new.tell = {} /\ new.request = 0
  BY Constants DEF Idle, Job
<1>2. job' = [job EXCEPT ![a] = new]
  BY DEF Ask
<1> HIDE DEF new
<1> QED
  BY <1>1, <1>2

LEMMA PlanAmountNat ==
  ASSUME TypeOK, NEW w \in Tickets, PlanOk(w)
  PROVE  PlanAmount(w) \in Nat
<1> DEFINE f == [l \in Lines |-> w[l] * Price[l]]
           g == [l \in Lines |-> Quantity[l] * Price[l]]
<1>1. \A l \in Lines : f[l] \in Nat /\ g[l] \in Nat
  BY LinesAssumption DEF Tickets
<1>2. Value(w) = SumFunctionOnSet(f, Lines) /\ Value(Quantity) = SumFunctionOnSet(g, Lines)
  BY DEF Value
<1> HIDE DEF f, g
<1>3. Value(w) \in Nat /\ Total \in Nat
  BY <1>1, <1>2, SumNat, LinesAssumption DEF Total
<1> DEFINE rest == Total - refundedPence
<1>4. rest \in Nat
  BY <1>3 DEF PlanOk, TypeOK
<1>5. PlanAmount(w) \in {rest, Min({Value(w), rest})}
  BY DEF PlanAmount
<1> HIDE DEF rest
<1> QED
  BY <1>3, <1>4, <1>5, MinOfTwo

\* The refund an admin begins: the one waiting, of the same tickets, or a new one.
LEMMA BeginRefundIs ==
  ASSUME IInv, NEW a \in Admins, BeginRefund(a)
  PROVE  \/ rows' = rows /\ Leave(a)
         \/ \E j \in Waiting : rows' = rows /\ Ask(a, j) /\ clock <= rows[j].at + IntentHours
         \/ \E new \in Row :
              /\ rows' = Append(rows, new) /\ Ask(a, Len(rows) + 1) /\ Waiting = {}
              /\ new.by = "admin" /\ new.status = "pending" /\ new.refund = 0 /\ new.at = clock
              /\ new.request <= Len(requests) /\ PlanOk(new.lines) /\ new.amount = PlanAmount(new.lines)
<1> DEFINE w == job[a].wanted
<1>1. /\ TypeOK /\ job[a] \in Job /\ w \in Tickets /\ job[a].request \in Nat
      /\ job[a].request <= Len(requests) /\ clock \in Nat /\ IntentHours \in Nat
      /\ DOMAIN rows \subseteq Nat /\ \A j \in DOMAIN rows : rows[j].at \in Nat
  <2>1. TypeOK /\ job[a] \in Job /\ clock \in Nat
    BY Constants DEF IInv, TypeOK
  <2>2. DOMAIN rows \subseteq Nat /\ \A j \in DOMAIN rows : rows[j].at \in Nat
    BY <2>1, TypeFacts DEF Row
  <2> QED
    BY <2>1, <2>2, Constants DEF IInv, AsksHere, Job
<1>2. CASE MayBegin(a) /\ SameIntent(w) # {} /\ Ask(a, Min(SameIntent(w))) /\ UNCHANGED rows
  <2>1. SameIntent(w) \subseteq Waiting /\ Waiting \subseteq DOMAIN rows
    BY DEF SameIntent, Waiting
  <2>2. Min(SameIntent(w)) \in SameIntent(w)
    BY <1>1, <1>2, <2>1, MinIs
  <2>3. \A j \in Waiting : ~(rows[j].at + IntentHours < clock)
    BY <1>2 DEF MayBegin, IsOld
  <2>4. Min(SameIntent(w)) \in Waiting /\ clock <= rows[Min(SameIntent(w))].at + IntentHours
    BY <1>1, <2>1, <2>2, <2>3
  <2> QED
    BY <1>2, <2>4
<1>3. CASE /\ MayBegin(a) /\ Waiting = {} /\ Len(rows) < MaxRows
           /\ rows' = Append(rows, [amount |-> PlanAmount(w), lines |-> w, by |-> "admin",
                request |-> job[a].request, status |-> "pending", refund |-> 0, at |-> clock])
           /\ Ask(a, Len(rows) + 1)
  <2> DEFINE new == [amount |-> PlanAmount(w), lines |-> w, by |-> "admin",
                request |-> job[a].request, status |-> "pending", refund |-> 0, at |-> clock]
  <2>1. PlanOk(w)
    BY <1>3 DEF MayBegin
  <2>2. PlanAmount(w) \in Nat
    BY <1>1, <2>1, PlanAmountNat
  <2>3. /\ new \in Row /\ new.by = "admin" /\ new.status = "pending" /\ new.refund = 0 /\ new.at = clock
        /\ new.request = job[a].request /\ new.lines = w /\ new.amount = PlanAmount(w)
    BY <1>1, <2>2 DEF Row
  <2>4. rows' = Append(rows, new)
    BY <1>3
  <2> HIDE DEF new
  <2> QED
    BY <1>1, <1>3, <2>1, <2>3, <2>4
<1>4. CASE Leave(a) /\ UNCHANGED rows
  BY <1>4
<1> QED
  BY <1>2, <1>3, <1>4 DEF BeginRefund

LEMMA BeginRefundIInv == ASSUME IInv, NEW a \in Admins, BeginRefund(a) PROVE IInv'
<1>1. /\ TypeOK /\ clock \in Nat /\ IntentHours \in Nat /\ rows \in Seq(Row) /\ Len(rows) \in Nat
      /\ DOMAIN rows = 1..Len(rows) /\ UNCHANGED <<clock, refunded, refundedPence, failedFlag, requests, lock, stripeVars, told>>
  BY TypeFacts, Constants DEF IInv, TypeOK, BeginRefund
<1>2. CASE rows' = rows /\ (Leave(a) \/ \E j \in Waiting : Ask(a, j) /\ clock <= rows[j].at + IntentHours)
  <2>1. RowsKeep
    BY <1>2 DEF RowsKeep
  <2>2. PICK new \in Job :
          /\ job' = [job EXCEPT ![a] = new] /\ new.step \in {"idle", "ask"} /\ new.tell = {} /\ new.request = 0
          /\ new.step = "ask" => /\ new.intent \in DOMAIN rows /\ rows[new.intent].by = "admin"
                                 /\ new.began = clock /\ clock <= rows[new.intent].at + IntentHours
    <3>1. CASE Leave(a)
      BY <3>1, Constants, IdleIs DEF Leave
    <3>2. CASE \E j \in Waiting : Ask(a, j) /\ clock <= rows[j].at + IntentHours
      <4>1. PICK j \in Waiting : Ask(a, j) /\ clock <= rows[j].at + IntentHours
        BY <3>2
      <4>2. j \in DOMAIN rows /\ j \in Nat /\ rows[j].by = "admin"
        BY <1>1 DEF Waiting, IInv, RowsHere
      <4>3. \E new \in Job : /\ job' = [job EXCEPT ![a] = new] /\ new.step = "ask" /\ new.intent = j
                             /\ new.began = clock /\ new.tell = {} /\ new.request = 0
        <5>1. j \in Nat /\ Ask(a, j) /\ clock \in Nat
          BY <1>1, <4>1, <4>2
        <5> QED
          BY <5>1, AskIs
      <4> QED
        BY <4>1, <4>2, <4>3
    <3> QED
      BY <1>2, <3>1, <3>2
  <2>3. /\ job' \in [Procs -> Job]
        /\ MadeHere' /\ MadeApart' /\ AnswersHere' /\ AsksHere' /\ ListsHere' /\ EventsHere' /\ TellsHere'
    BY <1>1, <1>2, <2>1, <2>2, AdminGoesOn
  <2>4. TypeOK' /\ RowsHere' /\ RowsApart'
    BY <1>1, <1>2, <2>3 DEF IInv, TypeOK, RowsHere, RowsApart
  <2> QED
    BY <2>3, <2>4 DEF IInv
<1>3. CASE \E row \in Row :
              /\ rows' = Append(rows, row) /\ Ask(a, Len(rows) + 1) /\ Waiting = {}
              /\ row.by = "admin" /\ row.status = "pending" /\ row.refund = 0 /\ row.at = clock
              /\ row.request <= Len(requests)
  <2>1. PICK row \in Row :
              /\ rows' = Append(rows, row) /\ Ask(a, Len(rows) + 1) /\ Waiting = {}
              /\ row.by = "admin" /\ row.status = "pending" /\ row.refund = 0 /\ row.at = clock
              /\ row.request <= Len(requests)
    BY <1>3
  <2>2. /\ rows' \in Seq(Row) /\ DOMAIN rows' = 1..(Len(rows) + 1) /\ rows'[Len(rows) + 1] = row
        /\ \A j \in DOMAIN rows : rows'[j] = rows[j]
    BY <1>1, <2>1
  <2>3. RowsKeep
    BY <1>1, <2>2 DEF RowsKeep
  <2>4. PICK new \in Job :
          /\ job' = [job EXCEPT ![a] = new] /\ new.step = "ask" /\ new.intent = Len(rows) + 1
          /\ new.began = clock /\ new.tell = {} /\ new.request = 0
    <3> DEFINE j == Len(rows) + 1
    <3>1. j \in Nat /\ Ask(a, j) /\ clock \in Nat
      BY <1>1, <2>1
    <3> HIDE DEF j
    <3>2. \E new \in Job : /\ job' = [job EXCEPT ![a] = new] /\ new.step = "ask" /\ new.intent = j
                           /\ new.began = clock /\ new.tell = {} /\ new.request = 0
      BY <3>1, AskIs
    <3> QED
      BY <3>2 DEF j
  <2>5. /\ new.intent \in DOMAIN rows' /\ rows'[new.intent].by = "admin"
        /\ clock <= rows'[new.intent].at + IntentHours
    BY <1>1, <2>1, <2>2, <2>4
  <2>6. /\ job' \in [Procs -> Job]
        /\ MadeHere' /\ MadeApart' /\ AnswersHere' /\ AsksHere' /\ ListsHere' /\ EventsHere' /\ TellsHere'
    BY <1>1, <2>3, <2>4, <2>5, AdminGoesOn
  <2>7. TypeOK'
    BY <1>1, <2>2, <2>6 DEF TypeOK
  <2>8. RowsHere'
    BY <1>1, <2>1, <2>2 DEF IInv, RowsHere
  <2>9. RowsApart'
    BY <1>1, <2>1, <2>2 DEF IInv, RowsHere, RowsApart, Waiting
  <2> QED
    BY <2>6, <2>7, <2>8, <2>9 DEF IInv
<1> QED
  BY <1>2, <1>3, BeginRefundIs

\* What the list in hand says, when it is applied.
LEMMA ApplyListIs ==
  ASSUME IInv, NEW p \in Procs, ApplyList(p)
  PROVE  /\ DOMAIN job[p].list \subseteq DOMAIN made /\ Reconcile(job[p].list, job[p].began)
         /\ Succeeded(job[p].list) \subseteq paid
         /\ \A i \in NewlyFailed(job[p].list) : made[i].status = "failed"
         /\ RowsKeep /\ UNCHANGED <<clock, made, answers, paid, told>>
         /\ TypeOK /\ RowsHere /\ RowsApart /\ MadeHere /\ MadeApart
<1> DEFINE ls == job[p].list
<1>1. TypeOK /\ RowsHere /\ RowsApart /\ MadeHere /\ MadeApart
  BY DEF IInv
<1>2. job[p].step = "apply" /\ Reconcile(ls, job[p].began) /\ UNCHANGED <<clock, made, answers, paid, told>>
  BY DEF ApplyList
<1>3. /\ DOMAIN ls \subseteq DOMAIN made
      /\ \A i \in DOMAIN ls : /\ ls[i] = "succeeded" => i \in paid
                              /\ ls[i] = "failed" => made[i].status = "failed"
  BY <1>2 DEF IInv, ListsHere
<1> HIDE DEF ls
<1>4. Succeeded(ls) \subseteq paid
  BY <1>3 DEF Succeeded
<1>5. \A i \in NewlyFailed(ls) : made[i].status = "failed"
  BY <1>3 DEF NewlyFailed, Failed
<1>6. RowsKeep
  BY <1>1, <1>2, <1>3, ReconcileRows, ReconcileChanges DEF RowsKeep
<1> QED
  BY <1>1, <1>2, <1>3, <1>4, <1>5, <1>6 DEF ls

\* The refunds a reconcile records had no row that names them, and have one after it.
LEMMA Recorded ==
  ASSUME IInv, NEW p \in Procs, ApplyList(p), NEW i \in Completed(job[p].list) \cup Fresh(job[p].list)
  PROVE  /\ i \in DOMAIN made /\ ~Known(i)
         /\ \E j \in DOMAIN rows' : /\ rows'[j].refund = i /\ rows'[j].status = "done"
                                    /\ i \in Completed(job[p].list) => j = RowOf(i)
<1> DEFINE ls == job[p].list
<1>1. /\ DOMAIN ls \subseteq DOMAIN made /\ Reconcile(ls, job[p].began) /\ RowsKeep
      /\ TypeOK /\ RowsHere /\ MadeApart
  BY ApplyListIs
<1> HIDE DEF ls
<1>2. i \in Completed(ls) \cup Fresh(ls)
  BY DEF ls
<1>3. i \in DOMAIN made /\ 0 \notin DOMAIN made
  BY <1>1, <1>2, ListFacts, TypeFacts
<1>4. CASE i \in Completed(ls)
  <2> DEFINE j == RowOf(i)
  <2>1. j # 0 /\ rows[j].status = "pending"
    BY <1>4 DEF Completed
  <2>2. j \in DOMAIN rows
    BY <1>1, <1>3, <2>1, RowOfIs
  <2>3. rows[j].refund = 0
    BY <1>1, <2>1, <2>2 DEF RowsHere
  <2>4. made[i].intent = j /\ ~Known(i)
    BY <1>1, <1>3, <2>1, <2>3, RowOfIs DEF Known
  <2>5. PICK h \in Completed(ls) : made[h].intent = j /\ rows'[j].status = "done" /\ rows'[j].refund = h
    BY <1>1, <1>4, <2>2, ReconcileChanges
  <2>6. h = i
    BY <1>1, <1>3, <2>1, <2>4, <2>5, ListFacts DEF MadeApart
  <2> QED
    BY <1>1, <1>3, <2>2, <2>4, <2>5, <2>6 DEF RowsKeep, ls
<1>5. CASE i \in Fresh(ls)
  <2>1. RowOf(i) = 0
    BY <1>5 DEF Fresh
  <2>2. ~Known(i) /\ i \notin Completed(ls)
    BY <1>1, <1>3, <2>1, RowOfIs DEF Known, Completed
  <2>3. PICK j \in DOMAIN rows' : rows'[j] = FreshRow(ls, i)
    BY <1>1, <1>5, ReconcileRows
  <2>4. rows'[j].refund = i /\ rows'[j].status = "done"
    BY <1>1, <1>5, <2>3, FreshRowIs
  <2> QED
    BY <1>3, <2>2, <2>4 DEF ls
<1> QED
  BY <1>2, <1>4, <1>5

LEMMA ApplyListRows ==
  ASSUME IInv, NEW p \in Procs, ApplyList(p)
  PROVE  RowsHere' /\ RowsApart'
<1> DEFINE ls  == job[p].list
           now == job[p].began
<1>1. /\ DOMAIN ls \subseteq DOMAIN made /\ Reconcile(ls, now)
      /\ \A i \in NewlyFailed(ls) : made[i].status = "failed"
      /\ RowsKeep /\ UNCHANGED <<clock, made, answers, paid, told>>
      /\ TypeOK /\ RowsHere /\ RowsApart /\ MadeHere /\ MadeApart
  BY ApplyListIs
<1> HIDE DEF ls, now
<1>2. /\ 0 \notin DOMAIN made /\ 0 \notin DOMAIN rows /\ clock \in Nat
      /\ Len(requests) \in Nat /\ Completed(ls) \subseteq DOMAIN made /\ Fresh(ls) \subseteq DOMAIN made
      /\ NewlyFailed(ls) \subseteq DOMAIN made
  <2>1. clock \in Nat
    BY <1>1 DEF TypeOK
  <2>2. /\ Completed(ls) \subseteq DOMAIN made /\ Fresh(ls) \subseteq DOMAIN made
        /\ NewlyFailed(ls) \subseteq DOMAIN made
    BY <1>1, ListFacts
  <2> QED
    BY <1>1, <2>1, <2>2, TypeFacts
<1>3. Len(requests') = Len(requests)
  BY <1>1, <1>2, TypeFacts DEF Reconcile
<1>4. /\ \A j \in DOMAIN rows' : j \in DOMAIN rows \/ \E i \in Fresh(ls) : rows'[j] = FreshRow(ls, i)
      /\ \A j, k \in DOMAIN rows' :
           j \notin DOMAIN rows /\ k \notin DOMAIN rows /\ rows'[j].refund = rows'[k].refund => j = k
  BY <1>1, ReconcileRows
<1>5. RowsHere'
  <2> SUFFICES ASSUME NEW j \in DOMAIN rows'
               PROVE  /\ rows'[j].request <= Len(requests) /\ rows'[j].at <= clock
                      /\ rows'[j].status = "pending" => rows'[j].by = "admin" /\ rows'[j].refund = 0
                      /\ rows'[j].status = "done" => rows'[j].refund # 0
                      /\ rows'[j].refund # 0 =>
                           /\ rows'[j].refund \in DOMAIN made
                           /\ rows'[j].by = "admin" => made[rows'[j].refund].intent = j
                           /\ rows'[j].by = "stripe" => made[rows'[j].refund].intent = 0
                           /\ rows'[j].status = "failed" => made[rows'[j].refund].status = "failed"
    BY <1>1, <1>3 DEF RowsHere
  <2>1. CASE j \in DOMAIN rows
    <3>1. /\ rows[j].request <= Len(requests) /\ rows[j].at <= clock
          /\ rows[j].status = "pending" => rows[j].by = "admin" /\ rows[j].refund = 0
          /\ rows[j].status = "done" => rows[j].refund # 0
          /\ rows[j].refund # 0 =>
               /\ rows[j].refund \in DOMAIN made
               /\ rows[j].by = "admin" => made[rows[j].refund].intent = j
               /\ rows[j].by = "stripe" => made[rows[j].refund].intent = 0
               /\ rows[j].status = "failed" => made[rows[j].refund].status = "failed"
          /\ rows[j].status \in {"pending", "done", "failed"}
      BY <1>1, <2>1, TypeFacts DEF RowsHere, Row
    <3>2. rows'[j].request = rows[j].request /\ rows'[j].by = rows[j].by /\ rows'[j].at = rows[j].at
      BY <1>1, <2>1 DEF RowsKeep
    <3>3. \/ \E i \in Completed(ls) :
               /\ rows[j].status = "pending" /\ made[i].intent = j
               /\ rows'[j].status = "done" /\ rows'[j].refund = i
          \/ \E i \in NewlyFailed(ls) :
               /\ rows[j].status # "failed"
               /\ rows[j].refund = i \/ (rows[j].refund = 0 /\ made[i].intent = j)
               /\ rows'[j].status = "failed" /\ rows'[j].refund = i
          \/ rows'[j].status = "failed" /\ rows'[j].refund = 0
          \/ rows'[j] = rows[j]
      <4> HIDE DEF RowsKeep
      <4> QED
        BY <1>1, <2>1, ReconcileChanges
    <3> QED
      BY <1>1, <1>2, <3>1, <3>2, <3>3
  <2>2. CASE j \notin DOMAIN rows
    <3>1. PICK i \in Fresh(ls) : rows'[j] = FreshRow(ls, i)
      BY <1>4, <2>2
    <3>2. /\ rows'[j].refund = i /\ rows'[j].request = 0 /\ rows'[j].by = "stripe"
          /\ rows'[j].status = "done" /\ rows'[j].at = clock
      BY <1>1, <3>1, FreshRowIs
    <3>3. i \in DOMAIN made /\ RowOf(i) = 0
      BY <1>2 DEF Fresh
    <3>4. made[i].intent = 0
      <4> SUFFICES ASSUME made[i].intent # 0 PROVE FALSE
        OBVIOUS
      <4> DEFINE k == made[i].intent
      <4>1. k \in DOMAIN rows /\ rows[k].by = "admin"
        BY <1>1, <3>3 DEF MadeHere
      <4>2. rows[k].refund # i /\ rows[k].refund # 0
        BY <1>1, <3>3, <4>1, RowOfIs
      <4>3. rows[k].refund \in DOMAIN made /\ made[rows[k].refund].intent = k
        BY <1>1, <4>1, <4>2 DEF RowsHere
      <4> QED
        BY <1>1, <3>3, <4>2, <4>3 DEF MadeApart
    <3> QED
      BY <1>2, <3>2, <3>3, <3>4
  <2> QED
    BY <2>1, <2>2
<1>6. \A j \in DOMAIN rows :
        \/ rows'[j].refund = rows[j].refund
        \/ rows'[j].refund # 0 /\ RowOf(rows'[j].refund) = j /\ ~Known(rows'[j].refund)
  <2> SUFFICES ASSUME NEW j \in DOMAIN rows
               PROVE  \/ rows'[j].refund = rows[j].refund
                      \/ rows'[j].refund # 0 /\ RowOf(rows'[j].refund) = j /\ ~Known(rows'[j].refund)
    OBVIOUS
  <2>1. \/ \E i \in Completed(ls) : RowOf(i) = j /\ ~Known(i) /\ rows'[j].refund = i
        \/ \E i \in NewlyFailed(ls) : /\ RowOf(i) = j /\ rows'[j].refund = i
                                      /\ rows[j].refund = i \/ ~Known(i)
        \/ rows[j].refund = 0 /\ rows'[j].refund = 0
        \/ rows'[j] = rows[j]
    BY <1>1, ReconcileChanges
  <2> QED
    BY <1>2, <2>1
<1>7. ASSUME NEW j \in DOMAIN rows', NEW k \in DOMAIN rows', j # k, rows'[j].refund = rows'[k].refund
      PROVE  rows'[j].refund = 0
  <2>1. \A h \in DOMAIN rows' : h \notin DOMAIN rows => rows'[h].refund # 0 /\ RowOf(rows'[h].refund) = 0 /\ ~Known(rows'[h].refund)
    <3> SUFFICES ASSUME NEW h \in DOMAIN rows', h \notin DOMAIN rows
                 PROVE  rows'[h].refund # 0 /\ RowOf(rows'[h].refund) = 0 /\ ~Known(rows'[h].refund)
      OBVIOUS
    <3>1. PICK i \in Fresh(ls) : rows'[h] = FreshRow(ls, i)
      BY <1>4
    <3>2. rows'[h].refund = i
      BY <1>1, <3>1, FreshRowIs
    <3>3. RowOf(i) = 0 /\ i \in DOMAIN made
      BY <1>2 DEF Fresh
    <3>4. ~Known(i)
      BY <1>1, <3>3, RowOfIs DEF Known
    <3> QED
      BY <1>2, <3>2, <3>3, <3>4
  <2>2. CASE j \in DOMAIN rows /\ k \in DOMAIN rows
    <3>1. rows[j].refund = rows[k].refund => rows[j].refund = 0
      BY <1>1, <1>7, <2>2 DEF RowsApart
    <3> QED
      BY <1>6, <1>7, <2>2, <3>1 DEF Known
  <2>3. CASE j \notin DOMAIN rows /\ k \notin DOMAIN rows
    BY <1>4, <1>7, <2>3
  <2>4. CASE j \in DOMAIN rows /\ k \notin DOMAIN rows
    BY <1>2, <1>6, <1>7, <2>1, <2>4 DEF Known
  <2>5. CASE j \notin DOMAIN rows /\ k \in DOMAIN rows
    BY <1>2, <1>6, <1>7, <2>1, <2>5 DEF Known
  <2> QED
    BY <2>2, <2>3, <2>4, <2>5
<1>8. \A j \in DOMAIN rows' : rows'[j].status = "pending" => j \in DOMAIN rows /\ rows[j].status = "pending"
  <2> SUFFICES ASSUME NEW j \in DOMAIN rows', rows'[j].status = "pending"
               PROVE  j \in DOMAIN rows /\ rows[j].status = "pending"
    OBVIOUS
  <2>1. j \in DOMAIN rows
    BY <1>1, <1>4, FreshRowIs
  <2>2. rows'[j].status \in {"done", "failed"} \/ rows'[j] = rows[j]
    BY <1>1, <2>1, ReconcileChanges
  <2> QED
    BY <2>1, <2>2
<1>9. RowsApart'
  BY <1>1, <1>7, <1>8 DEF RowsApart
<1> QED
  BY <1>5, <1>9

LEMMA AmountsNat ==
  ASSUME TypeOK, NEW S \in SUBSET DOMAIN made
  PROVE  Amounts(S) \in Nat
<1> DEFINE f == [i \in DOMAIN made |-> made[i].amount]
<1>1. \A i \in S : f[i] \in Nat
  BY TypeFacts DEF Made
<1>2. IsFiniteSet(S)
  BY TypeFacts, FS_Subset
<1>3. Amounts(S) = SumFunctionOnSet(f, S)
  BY DEF Amounts
<1> HIDE DEF f
<1> QED
  BY <1>1, <1>2, <1>3, SumNat

LEMMA ValueNat ==
  ASSUME NEW w \in Tickets
  PROVE  Value(w) \in Nat
<1> DEFINE f == [l \in Lines |-> w[l] * Price[l]]
<1>1. \A l \in Lines : f[l] \in Nat
  BY LinesAssumption DEF Tickets
<1>2. Value(w) = SumFunctionOnSet(f, Lines)
  BY DEF Value
<1> HIDE DEF f
<1> QED
  BY <1>1, <1>2, SumNat, LinesAssumption

LEMMA TotalNat == Total \in Nat /\ Value(Quantity) <= Total
BY ValueNat, Constants, LinesAssumption DEF Total

LEMMA MoneyIs ==
  ASSUME TypeOK, NEW ls, DOMAIN ls \subseteq DOMAIN made
  PROVE  Money(ls) \in Nat /\ Money(ls) <= Total /\ Money(ls) <= Amounts(Succeeded(ls))
<1> DEFINE m == Amounts(Succeeded(ls))
<1>1. m \in Nat /\ Total \in Nat
  BY AmountsNat, ListFacts, TotalNat
<1>2. Money(ls) = Min({Total, m})
  BY DEF Money
<1> HIDE DEF m
<1>3. Min({Total, m}) \in {Total, m} /\ Min({Total, m}) <= Total /\ Min({Total, m}) <= m
  BY <1>1, MinOfTwo
<1> QED
  BY <1>1, <1>2, <1>3 DEF m

LEMMA ApplyListIInv == ASSUME IInv, NEW p \in Procs, ApplyList(p) PROVE IInv'
<1> DEFINE ls  == job[p].list
           tells == Completed(ls) \cup Fresh(ls)
           new == [job[p] EXCEPT !.step = "tell", !.list = <<>>, !.began = 0, !.tell = tells]
<1>1. /\ DOMAIN ls \subseteq DOMAIN made /\ Reconcile(ls, job[p].began)
      /\ RowsKeep /\ UNCHANGED <<clock, made, answers, paid, told>> /\ TypeOK /\ RowsHere
  BY ApplyListIs
<1>2. /\ job[p].step = "apply" /\ lock' = Nobody /\ job' = [job EXCEPT ![p] = new]
      /\ events' = IF p = Hook THEN events - 1 ELSE events
  BY DEF ApplyList
<1>3. /\ job \in [Procs -> Job] /\ job[p] \in Job /\ events \in Nat
      /\ Len(requests) \in Nat /\ clock \in Nat /\ DOMAIN told = DOMAIN made
  BY <1>1, TypeFacts DEF TypeOK
<1>4. tells \subseteq DOMAIN made /\ DOMAIN made \subseteq Nat
  BY <1>1, ListFacts, TypeFacts
<1>5. new \in Job /\ new.step = "tell" /\ new.tell = tells /\ new.request = job[p].request
  <2> HIDE DEF tells
  <2>1. tells \in SUBSET Nat
    BY <1>4
  <2>2. <<>> \in Seq({"pending", "succeeded", "failed"})
    OBVIOUS
  <2> QED
    BY <1>3, <2>1, <2>2 DEF Job
<1>6. p = Hook => events >= 1
  BY <1>2 DEF IInv, EventsHere
<1>7. \A i \in tells : ~Known(i) /\ \E j \in DOMAIN rows' : rows'[j].refund = i
  BY Recorded
<1> HIDE DEF ls, tells, new
<1>8. job'[p] = new /\ job' \in [Procs -> Job] /\ \A q \in Procs : q # p => job'[q] = job[q]
  BY <1>2, <1>3, <1>5
<1>9. Len(requests') = Len(requests)
  BY <1>1, TypeFacts DEF Reconcile
<1>10. TypeOK'
  <2>1. rows' \in Seq(Row)
    BY <1>1, ReconcileRows
  <2>2. refunded' \in Tickets /\ \A l \in Lines : refunded'[l] <= Quantity[l]
    <3>1. CASE refunded' = Quantity
      BY <3>1, Constants DEF Tickets
    <3>2. CASE refunded' = ReleasedBy(ls)
      BY <1>1, <3>2, ReleasedByIs
    <3> QED
      BY <1>1, <3>1, <3>2 DEF Reconcile
  <2>3. refundedPence' \in Nat
    BY <1>1, MoneyIs DEF Reconcile
  <2>4. requests' \in Seq({"open", "refunded", "declined"})
    <3>1. \A q \in DOMAIN requests :
            (IF requests[q] = "open" /\ q \in Answered(ls) THEN "refunded" ELSE requests[q])
              \in {"open", "refunded", "declined"}
      BY <1>1, TypeFacts
    <3>2. requests' = [q \in DOMAIN requests |->
            IF requests[q] = "open" /\ q \in Answered(ls) THEN "refunded" ELSE requests[q]]
      BY <1>1 DEF Reconcile
    <3>3. requests' \in [1..Len(requests) -> {"open", "refunded", "declined"}]
      BY <1>1, <3>1, <3>2, TypeFacts
    <3> QED
      BY <1>3, <3>3
  <2>5. failedFlag' \in {"none", "kept", "released"}
    <3>1. failedFlag \in {"none", "kept", "released"}
      BY <1>1 DEF TypeOK
    <3> QED
      BY <1>1, <3>1 DEF Reconcile
  <2>6. events' \in Nat
    BY <1>2, <1>3, <1>6
  <2> QED
    BY <1>1, <1>2, <1>8, <2>1, <2>2, <2>3, <2>4, <2>5, <2>6 DEF TypeOK
<1>11. RowsHere' /\ RowsApart'
  BY ApplyListRows
<1>12. MadeHere' /\ MadeApart' /\ AnswersHere' /\ \A i \in DOMAIN made : Known(i) => Known(i)'
  BY <1>1, RowsKept
<1>13. AsksHere'
  <2>1. \A q \in Procs : job[q].step \in {"ask", "refused"} =>
          /\ job[q].intent \in DOMAIN rows' /\ rows'[job[q].intent].by = "admin"
          /\ rows'[job[q].intent].at = rows[job[q].intent].at
    BY <1>1 DEF IInv, AsksHere, RowsKeep
  <2> QED
    BY <1>1, <1>5, <1>8, <1>9, <2>1 DEF IInv, AsksHere
<1>14. \A q \in Procs : job'[q].step # "apply"
  BY <1>2, <1>5, <1>8 DEF IInv, ListsHere
<1>15. ListsHere' /\ EventsHere'
  <2>1. job'[Hook].step \in {"list", "apply"} => events' >= 1
    BY <1>2, <1>5, <1>8, Constants DEF IInv, EventsHere
  <2> QED
    BY <1>14, <2>1 DEF ListsHere, EventsHere
<1>16. TellsHere'
  <2>1. \A q \in Procs : \A i \in job[q].tell : i \in DOMAIN made /\ Known(i) /\ told[i] = 0
    BY DEF IInv, TellsHere
  <2>2. \A i \in DOMAIN told : told[i] # 0 => told[i] = 1 /\ Known(i)
    BY DEF IInv, TellsHere
  <2>3. \A i \in tells : i \in DOMAIN made /\ Known(i)' /\ told[i] = 0
    BY <1>3, <1>4, <1>7, <2>2 DEF Known
  <2>4. \A q \in Procs : \A i \in job'[q].tell : i \in DOMAIN made /\ Known(i)' /\ told[i] = 0
    BY <1>5, <1>8, <1>12, <2>1, <2>3
  <2>5. \A q \in Procs : tells \cap job[q].tell = {}
    BY <1>7, <2>1
  <2>6. \A q, r \in Procs : q # r => job'[q].tell \cap job'[r].tell = {}
    BY <1>5, <1>8, <2>5 DEF IInv, TellsHere
  <2>7. \A i \in DOMAIN told : told[i] # 0 => told[i] = 1 /\ Known(i)'
    BY <1>3, <1>12, <2>2
  <2> QED
    BY <1>1, <2>4, <2>6, <2>7 DEF TellsHere
<1> QED
  BY <1>10, <1>11, <1>12, <1>13, <1>15, <1>16 DEF IInv

LEMMA NextIInv == ASSUME IInv, [Next]_vars PROVE IInv'
<1>1. CASE UNCHANGED vars
  <2>1. TypeOK'
    BY <1>1 DEF vars, IInv, TypeOK
  <2> QED
    BY <1>1, <2>1, TypeFacts, BookingStep DEF IInv, vars
<1>2. ASSUME NEW p \in Procs, ProcStep(p) \/ Crash(p) PROVE IInv'
  BY <1>2, ListRefundsIInv, ApplyListIInv, TellBuyerIInv, CrashIInv DEF ProcStep
<1>3. ASSUME NEW a \in Admins, BeginRefund(a) \/ AskStripe(a) \/ FailRefund(a) PROVE IInv'
  BY <1>3, BeginRefundIInv, AskStripeIInv, FailRefundIInv
<1> QED
  BY <1>1, <1>2, <1>3, TakeEventIInv, ChooseRefundIInv, ReleaseTicketsIInv, MarkSortedIInv,
     CreateRequestIInv, DeclineRequestIInv, RefundByHandIInv, SettleRefundIInv, TickIInv DEF Next

THEOREM AlwaysIInv == Spec => []IInv
BY InitIInv, NextIInv, PTL DEF Spec

THEOREM TypeCorrect == Spec => []TypeOK
BY AlwaysIInv, PTL DEF IInv

\* Stripe never pays one refund twice.
LEMMA MadeOnce == IInv => PaidOnce
<1> SUFFICES ASSUME IInv, NEW j \in DOMAIN rows PROVE Cardinality(MadeFor(j)) <= 1
  BY DEF PaidOnce
<1>1. j # 0
  BY TypeFacts DEF IInv
<1>2. \A i, k \in MadeFor(j) : i = k
  BY <1>1 DEF IInv, MadeApart, MadeFor
<1>3. CASE MadeFor(j) = {}
  BY <1>3, FS_EmptySet
<1>4. CASE MadeFor(j) # {}
  <2>1. PICK i \in MadeFor(j) : MadeFor(j) = {i}
    BY <1>2, <1>4
  <2> QED
    BY <2>1, FS_Singleton
<1> QED
  BY <1>3, <1>4

THEOREM NeverPaidTwice == Spec => []PaidOnce
BY AlwaysIInv, MadeOnce, PTL

\* The buyer is told of a refund once at most.
LEMMA TellsOnce == IInv => ToldOnce
BY DEF IInv, TellsHere, ToldOnce

THEOREM NeverToldTwice == Spec => []ToldOnce
BY AlwaysIInv, TellsOnce, PTL

----------------------------------------------------------------------------
(* What a step that does not apply a list may do                           *)

\* Stripe may have more refunds, and more of them paid.
PaidGrow ==
  /\ DOMAIN made \subseteq DOMAIN made' /\ paid \subseteq paid' /\ paid' \subseteq DOMAIN made'
  /\ \A i \in DOMAIN made : made'[i].amount = made[i].amount /\ made'[i].intent = made[i].intent

LEMMA SettleRefundGrows ==
  ASSUME IInv, NEW i \in DOMAIN made, NEW s \in {"succeeded", "failed"}, SettleRefund(i, s)
  PROVE  PaidGrow /\ events' = events + 1
<1> DEFINE new == [made[i] EXCEPT !.status = s]
<1>1. TypeOK /\ made \in Seq(Made) /\ DOMAIN made = 1..Len(made) /\ made[i] \in Made /\ paid \subseteq DOMAIN made
  BY TypeFacts DEF IInv, TypeOK
<1>2. new.amount = made[i].amount /\ new.intent = made[i].intent
  BY <1>1 DEF Made
<1>3. made' = [made EXCEPT ![i] = new] /\ events' = events + 1 /\ paid' \in {paid, paid \cup {i}}
  BY DEF SettleRefund
<1> HIDE DEF new
<1> QED
  BY <1>1, <1>2, <1>3 DEF PaidGrow

LEMMA MakeRefundGrows ==
  ASSUME IInv, NEW amount, NEW j, NEW s, MakeRefund(amount, j, s)
  PROVE  PaidGrow /\ events' = events + 1
<1> DEFINE new == [amount |-> amount, intent |-> j, status |-> s]
<1>1. TypeOK /\ made \in Seq(Made) /\ DOMAIN made = 1..Len(made) /\ Len(made) \in Nat /\ paid \subseteq DOMAIN made
  BY TypeFacts DEF IInv, TypeOK
<1>2. /\ made' = Append(made, new) /\ events' = events + 1 /\ paid' \in {paid, paid \cup {Len(made) + 1}}
  BY DEF MakeRefund
<1> HIDE DEF new
<1>3. DOMAIN made' = 1..(Len(made) + 1) /\ \A i \in DOMAIN made : made'[i] = made[i]
  BY <1>1, <1>2
<1> QED
  BY <1>1, <1>2, <1>3 DEF PaidGrow

LEMMA OtherSteps ==
  ASSUME IInv, [Next]_vars, \A p \in Procs : ~ApplyList(p)
  PROVE  /\ refundedPence' = refundedPence
         /\ \/ refunded' = refunded
            \/ \E w \in Wantable : ReleaseTickets(w)
         /\ \/ rows' = rows
            \/ \E a \in Admins : BeginRefund(a) \/ FailRefund(a)
         /\ \/ requests' = requests
            \/ CreateRequest \/ \E q \in DOMAIN requests : DeclineRequest(q)
         /\ \/ UNCHANGED <<made, paid, events>>
            \/ PaidGrow /\ events' = events + 1 /\ UNCHANGED bookingVars
<1>1. CASE \/ UNCHANGED vars
           \/ \E p \in Procs : ListRefunds(p) \/ TellBuyer(p) \/ Crash(p)
           \/ TakeEvent \/ MarkSorted \/ Tick
           \/ \E a \in Admins, w \in Wantable, q \in {0} \cup DOMAIN requests : ChooseRefund(a, w, q)
  BY <1>1 DEF vars, ListRefunds, TellBuyer, Crash, TakeEvent, MarkSorted, Tick, ChooseRefund
<1>2. CASE \E a \in Admins : BeginRefund(a) \/ FailRefund(a)
  BY <1>2 DEF BeginRefund, FailRefund
<1>3. CASE CreateRequest \/ \E q \in DOMAIN requests : DeclineRequest(q)
  BY <1>3 DEF CreateRequest, DeclineRequest
<1>4. CASE \E w \in Wantable : ReleaseTickets(w)
  BY <1>4 DEF ReleaseTickets
<1>5. CASE \E a \in Admins : AskStripe(a)
  <2>1. UNCHANGED bookingVars
    BY <1>5 DEF AskStripe
  <2>2. UNCHANGED <<made, paid, events>> \/ \E amount, j, s : MakeRefund(amount, j, s)
    BY <1>5 DEF AskStripe
  <2> QED
    BY <2>1, <2>2, MakeRefundGrows
<1>6. CASE \E amount \in HandAmounts : RefundByHand(amount)
  BY <1>6, MakeRefundGrows DEF RefundByHand
<1>7. CASE \E i \in DOMAIN made, s \in {"succeeded", "failed"} : SettleRefund(i, s)
  <2>1. UNCHANGED bookingVars
    BY <1>7 DEF SettleRefund
  <2> QED
    BY <1>7, <2>1, SettleRefundGrows
<1> QED
  BY <1>1, <1>2, <1>3, <1>4, <1>5, <1>6, <1>7 DEF Next, ProcStep

\* The rows those steps leave.
LEMMA OtherRows ==
  ASSUME IInv, [Next]_vars, \A p \in Procs : ~ApplyList(p)
  PROVE  /\ RowsKeep
         /\ \A j \in DOMAIN rows :
              /\ rows'[j].refund = rows[j].refund
              /\ rows'[j].status = rows[j].status \/ (rows[j].status = "pending" /\ rows'[j].status = "failed")
         /\ \A j \in DOMAIN rows' : j \notin DOMAIN rows => rows'[j].status = "pending"
<1>1. CASE rows' = rows
  BY <1>1 DEF RowsKeep
<1>2. ASSUME NEW a \in Admins, FailRefund(a)
      PROVE  /\ RowsKeep /\ DOMAIN rows' = DOMAIN rows
             /\ \A j \in DOMAIN rows :
                  /\ rows'[j].refund = rows[j].refund
                  /\ rows'[j].status = rows[j].status \/ (rows[j].status = "pending" /\ rows'[j].status = "failed")
  <2>1. /\ rows' \in Seq(Row) /\ Len(rows') = Len(rows) /\ RowsKeep
        /\ \A j \in DOMAIN rows : rows'[j] = rows[j] \/
             (rows[j].status = "pending" /\ rows'[j].status = "failed" /\ rows'[j].refund = rows[j].refund)
    BY <1>2, FailRefundIs
  <2>2. DOMAIN rows' = DOMAIN rows
    BY <2>1, TypeFacts DEF IInv
  <2> QED
    BY <2>1, <2>2
<1>3. ASSUME NEW a \in Admins, NEW new \in Row, rows' = Append(rows, new), new.status = "pending"
      PROVE  /\ RowsKeep /\ \A j \in DOMAIN rows : rows'[j] = rows[j]
             /\ \A j \in DOMAIN rows' : j \notin DOMAIN rows => rows'[j].status = "pending"
  <2>1. rows \in Seq(Row) /\ Len(rows) \in Nat /\ DOMAIN rows = 1..Len(rows)
    BY TypeFacts DEF IInv
  <2>2. /\ DOMAIN rows' = 1..(Len(rows) + 1) /\ rows'[Len(rows) + 1] = new
        /\ \A j \in DOMAIN rows : rows'[j] = rows[j]
    BY <1>3, <2>1
  <2> QED
    BY <1>3, <2>1, <2>2 DEF RowsKeep
<1>4. ASSUME NEW a \in Admins, BeginRefund(a)
      PROVE  rows' = rows \/ \E new \in Row : rows' = Append(rows, new) /\ new.status = "pending"
  BY <1>4, BeginRefundIs
<1> QED
  BY <1>1, <1>2, <1>3, <1>4, OtherSteps

----------------------------------------------------------------------------
(* An intent is let go unmade, or made too late                            *)

\* Stripe answers once for an intent, and truly.
AnswersTrue ==
  /\ \A x, y \in answers : x.intent = y.intent => x = y
  /\ \A x \in answers : x.refund # 0 => x.refund \in DOMAIN made /\ made[x.refund].intent = x.intent
  /\ \A i \in DOMAIN made : made[i].intent # 0 =>
       \E x \in answers : x.intent = made[i].intent /\ x.refund = i
  /\ \A p \in Procs : job[p].step = "refused" =>
       \E x \in answers : x.intent = job[p].intent /\ x.refund = 0

\* What is missing from a list was made after it was taken.
ListsLate ==
  \A p \in Procs : job[p].step = "apply" =>
    /\ job[p].began <= clock
    /\ \A x \in answers : x.refund \in DOMAIN made \ DOMAIN job[p].list => job[p].began <= x.at

\* A row that failed with no refund: Stripe said no, or answered past the hours of the intent, or has
\* not answered, and those hours are over.
LapsedHere ==
  \A j \in DOMAIN rows : rows[j].status = "failed" /\ rows[j].refund = 0 =>
    \/ \E x \in answers : x.intent = j /\ (x.refund = 0 \/ x.at > rows[j].at + IntentHours)
    \/ clock > rows[j].at + IntentHours /\ \A x \in answers : x.intent # j

LateHere == AnswersTrue /\ ListsLate /\ LapsedHere

LEMMA LateNumbers ==
  ASSUME TypeOK
  PROVE  /\ clock \in Nat /\ IntentHours \in Nat /\ \A j \in DOMAIN rows : rows[j].at \in Nat
         /\ \A x \in answers : x.intent \in Nat /\ x.refund \in Nat /\ x.at \in Nat
         /\ \A p \in Procs : job[p].began \in Nat /\ job[p].intent \in Nat
         /\ 0 \notin DOMAIN made /\ 0 \notin DOMAIN rows
<1>1. \A j \in DOMAIN rows : rows[j].at \in Nat
  BY TypeFacts DEF Row
<1>2. clock \in Nat /\ \A x \in answers : x.intent \in Nat /\ x.refund \in Nat /\ x.at \in Nat
  BY DEF TypeOK
<1>3. 0 \notin DOMAIN made /\ 0 \notin DOMAIN rows
  BY TypeFacts
<1> QED
  BY <1>1, <1>2, <1>3, JobOf, Constants

LEMMA InitLate == Init => LateHere
BY DEF Init, LateHere, AnswersTrue, ListsLate, LapsedHere, Idle

\* A step in which Stripe answers nothing and no row fails without a refund.
LEMMA QuietLate ==
  ASSUME IInv, IInv', LateHere, answers' = answers, clock <= clock',
         DOMAIN made \subseteq DOMAIN made',
         \A i \in DOMAIN made' :
           IF i \in DOMAIN made THEN made'[i].intent = made[i].intent ELSE made'[i].intent = 0,
         \A j \in DOMAIN rows' :
           \/ rows'[j].status = "pending"
           \/ /\ j \in DOMAIN rows /\ rows'[j].status = rows[j].status
              /\ rows'[j].refund = rows[j].refund /\ rows'[j].at = rows[j].at,
         \A p \in Procs :
           \/ job'[p] = job[p] \/ job'[p].step \notin {"apply", "refused"}
           \/ job'[p].step = "apply" /\ DOMAIN job'[p].list = DOMAIN made' /\ job'[p].began <= clock'
  PROVE  LateHere'
<1>1. AnswersTrue /\ ListsLate /\ LapsedHere
  BY DEF LateHere
<1>2. TypeOK /\ TypeOK'
  BY DEF IInv
<1>3. /\ clock \in Nat /\ IntentHours \in Nat /\ \A j \in DOMAIN rows : rows[j].at \in Nat
      /\ \A p \in Procs : job[p].began \in Nat
  BY <1>2, LateNumbers
<1>4. clock' \in Nat /\ 0 \notin DOMAIN made'
  BY <1>2, TypeFacts DEF TypeOK
<1>5. AnswersTrue'
  <2>1. \A x, y \in answers' : x.intent = y.intent => x = y
    BY <1>1 DEF AnswersTrue
  <2>2. \A x \in answers' : x.refund # 0 => x.refund \in DOMAIN made' /\ made'[x.refund].intent = x.intent
    BY <1>1 DEF AnswersTrue
  <2>3. \A i \in DOMAIN made' : made'[i].intent # 0 =>
          \E x \in answers' : x.intent = made'[i].intent /\ x.refund = i
    BY <1>1 DEF AnswersTrue
  <2>4. \A p \in Procs : job'[p].step = "refused" =>
          \E x \in answers' : x.intent = job'[p].intent /\ x.refund = 0
    BY <1>1 DEF AnswersTrue
  <2> QED
    BY <2>1, <2>2, <2>3, <2>4 DEF AnswersTrue
<1>6. ListsLate'
  <2> SUFFICES ASSUME NEW p \in Procs, job'[p].step = "apply"
               PROVE  /\ job'[p].began <= clock'
                      /\ \A x \in answers : x.refund \in DOMAIN made' \ DOMAIN job'[p].list =>
                           job'[p].began <= x.at
    BY DEF ListsLate
  <2>1. CASE job'[p] = job[p]
    <3>1. job[p].began <= clock'
      BY <1>1, <1>3, <1>4, <2>1 DEF ListsLate
    <3>2. \A x \in answers : x.refund \in DOMAIN made' => x.refund \in DOMAIN made
      BY <1>1, <1>4 DEF AnswersTrue
    <3> QED
      BY <1>1, <2>1, <3>1, <3>2 DEF ListsLate
  <2>2. CASE DOMAIN job'[p].list = DOMAIN made' /\ job'[p].began <= clock'
    BY <2>2
  <2> QED
    BY <2>1, <2>2
<1>7. LapsedHere'
  <2> SUFFICES ASSUME NEW j \in DOMAIN rows', rows'[j].status = "failed", rows'[j].refund = 0
               PROVE  \/ \E x \in answers : x.intent = j /\ (x.refund = 0 \/ x.at > rows'[j].at + IntentHours)
                      \/ clock' > rows'[j].at + IntentHours /\ \A x \in answers : x.intent # j
    BY DEF LapsedHere
  <2>1. /\ j \in DOMAIN rows /\ rows[j].status = "failed" /\ rows[j].refund = 0
        /\ rows'[j].at = rows[j].at /\ rows[j].at \in Nat
    BY <1>3
  <2> QED
    BY <1>1, <1>3, <1>4, <2>1 DEF LapsedHere
<1> QED
  BY <1>5, <1>6, <1>7 DEF LateHere

LEMMA AskStripeLate ==
  ASSUME IInv, IInv', LateHere, NEW a \in Admins, AskStripe(a)
  PROVE  LateHere'
<1> DEFINE j == job[a].intent
<1>1. job[a].step = "ask" /\ UNCHANGED <<clock, bookingVars, lock>>
  BY DEF AskStripe
<1>2. PICK r \in 0..(Len(made) + 1) :
        /\ \/ /\ \E x \in Remembered(j) : x.refund = r
              /\ UNCHANGED <<stripeVars, told>>
           \/ /\ Remembered(j) = {}
              /\ \/ r = 0 /\ UNCHANGED <<made, told, events, paid>>
                 \/ /\ r = Len(made) + 1 /\ rows[j].amount <= Refundable
                    /\ \E s \in {"pending", "succeeded"} : MakeRefund(rows[j].amount, j, s)
              /\ answers' = answers \cup {[intent |-> j, refund |-> r, at |-> clock]}
        /\ \/ job' = [job EXCEPT ![a].step = IF r = 0 THEN "refused" ELSE "list", ![a].began = 0]
           \/ Leave(a)
  BY DEF AskStripe
<1>3. TypeOK /\ a \in Procs /\ job \in [Procs -> Job] /\ AnswersTrue /\ ListsLate /\ LapsedHere
  BY Constants DEF IInv, TypeOK, LateHere
<1>4. /\ clock \in Nat /\ IntentHours \in Nat /\ \A k \in DOMAIN rows : rows[k].at \in Nat
      /\ \A x \in answers : x.intent \in Nat /\ x.refund \in Nat /\ x.at \in Nat
      /\ \A p \in Procs : job[p].began \in Nat /\ job[p].intent \in Nat
      /\ 0 \notin DOMAIN made /\ 0 \notin DOMAIN rows
  BY <1>3, LateNumbers
<1>5. Remembered(j) = {x \in answers : x.intent = j} /\ j \in DOMAIN rows
  BY <1>1, <1>3, AnswersRemembered DEF IInv, AsksHere
<1>6. /\ job'[a].step = "refused" => r = 0 /\ job'[a].intent = j
      /\ job'[a].step # "apply" /\ \A p \in Procs : p # a => job'[p] = job[p]
  <2>1. CASE job' = [job EXCEPT ![a].step = IF r = 0 THEN "refused" ELSE "list", ![a].began = 0]
    <3>1. /\ job'[a] = [job[a] EXCEPT !.step = IF r = 0 THEN "refused" ELSE "list", !.began = 0]
          /\ \A p \in Procs : p # a => job'[p] = job[p]
      BY <1>3, <2>1
    <3>2. job[a] \in Job
      BY <1>3
    <3>3. job'[a].step = (IF r = 0 THEN "refused" ELSE "list") /\ job'[a].intent = j
      BY <3>1, <3>2 DEF Job
    <3> QED
      BY <3>1, <3>3
  <2>2. CASE Leave(a)
    BY <1>3, <2>2, IdleIs DEF Leave
  <2> QED
    BY <1>2, <2>1, <2>2
<1> HIDE DEF j
<1>7. CASE answers' = answers /\ made' = made /\ \E x \in answers : x.intent = j /\ x.refund = r
  <2>1. AnswersTrue'
    BY <1>3, <1>6, <1>7 DEF AnswersTrue
  <2>2. ListsLate'
    BY <1>1, <1>3, <1>6, <1>7 DEF ListsLate
  <2>3. LapsedHere'
    BY <1>1, <1>3, <1>7 DEF LapsedHere
  <2> QED
    BY <2>1, <2>2, <2>3 DEF LateHere
<1>8. ASSUME \A x \in answers : x.intent # j,
             answers' = answers \cup {[intent |-> j, refund |-> r, at |-> clock]},
             \/ r = 0 /\ made' = made
             \/ /\ r \notin DOMAIN made /\ DOMAIN made' = DOMAIN made \cup {r}
                /\ made'[r].intent = j /\ \A i \in DOMAIN made : made'[i].intent = made[i].intent
      PROVE  LateHere'
  <2> DEFINE n == [intent |-> j, refund |-> r, at |-> clock]
  <2>1. /\ n.intent = j /\ n.refund = r /\ n.at = clock /\ n \in answers'
        /\ \A x \in answers' : x \in answers \/ x = n
    BY <1>8
  <2> HIDE DEF n
  <2>2. AnswersTrue'
    <3>1. \A x, y \in answers' : x.intent = y.intent => x = y
      BY <1>3, <1>8, <2>1 DEF AnswersTrue
    <3>2. \A x \in answers' : x.refund # 0 => x.refund \in DOMAIN made' /\ made'[x.refund].intent = x.intent
      BY <1>3, <1>8, <2>1 DEF AnswersTrue
    <3>3. \A i \in DOMAIN made' : made'[i].intent # 0 =>
            \E x \in answers' : x.intent = made'[i].intent /\ x.refund = i
      BY <1>3, <1>8, <2>1 DEF AnswersTrue
    <3>4. \A p \in Procs : job'[p].step = "refused" =>
            \E x \in answers' : x.intent = job'[p].intent /\ x.refund = 0
      BY <1>3, <1>6, <1>8, <2>1 DEF AnswersTrue
    <3> QED
      BY <3>1, <3>2, <3>3, <3>4 DEF AnswersTrue
  <2>3. ListsLate'
    <3> SUFFICES ASSUME NEW p \in Procs, job'[p].step = "apply"
                 PROVE  /\ job'[p].began <= clock'
                        /\ \A x \in answers' : x.refund \in DOMAIN made' \ DOMAIN job'[p].list =>
                             job'[p].began <= x.at
      BY DEF ListsLate
    <3>1. job'[p] = job[p] /\ job[p].began <= clock
      BY <1>3, <1>6 DEF ListsLate
    <3>2. ASSUME NEW x \in answers, x.refund \in DOMAIN made' \ DOMAIN job[p].list
          PROVE  job[p].began <= x.at
      <4>1. x.refund # 0
        <5>1. 0 \notin DOMAIN made'
          BY TypeFacts DEF IInv
        <5> QED
          BY <3>2, <5>1
      <4>2. x.refund \in DOMAIN made
        BY <1>3, <4>1 DEF AnswersTrue
      <4> QED
        BY <1>3, <3>1, <3>2, <4>2 DEF ListsLate
    <3> QED
      BY <1>1, <2>1, <3>1, <3>2
  <2>4. LapsedHere'
    <3> SUFFICES ASSUME NEW k \in DOMAIN rows, rows[k].status = "failed", rows[k].refund = 0
                 PROVE  \/ \E x \in answers' : x.intent = k /\ (x.refund = 0 \/ x.at > rows[k].at + IntentHours)
                        \/ clock > rows[k].at + IntentHours /\ \A x \in answers' : x.intent # k
      BY <1>1 DEF LapsedHere
    <3> QED
      BY <1>3, <1>8, <2>1 DEF LapsedHere
  <2> QED
    BY <2>2, <2>3, <2>4 DEF LateHere
<1>9. ASSUME NEW s, MakeRefund(rows[j].amount, j, s), r = Len(made) + 1
      PROVE  /\ r \notin DOMAIN made /\ DOMAIN made' = DOMAIN made \cup {r}
             /\ made'[r].intent = j /\ \A i \in DOMAIN made : made'[i].intent = made[i].intent
  <2> DEFINE new == [amount |-> rows[j].amount, intent |-> j, status |-> s]
  <2>1. made' = Append(made, new) /\ new.intent = j
    BY <1>9 DEF MakeRefund
  <2>2. made \in Seq(Made) /\ Len(made) \in Nat /\ DOMAIN made = 1..Len(made)
    BY <1>3, TypeFacts
  <2> HIDE DEF new
  <2>3. /\ DOMAIN made' = 1..(Len(made) + 1) /\ made'[Len(made) + 1] = new
        /\ \A i \in DOMAIN made : made'[i] = made[i]
    BY <2>1, <2>2
  <2> QED
    BY <1>9, <2>1, <2>2, <2>3
<1>10. CASE (\E x \in Remembered(j) : x.refund = r) /\ UNCHANGED <<stripeVars, told>>
  BY <1>5, <1>7, <1>10
<1>11. CASE Remembered(j) = {} /\ answers' = answers \cup {[intent |-> j, refund |-> r, at |-> clock]}
  <2>1. \A x \in answers : x.intent # j
    BY <1>5, <1>11
  <2>2. \/ r = 0 /\ made' = made
        \/ r = Len(made) + 1 /\ \E s : MakeRefund(rows[j].amount, j, s)
    BY <1>2, <1>5, <2>1 DEF j
  <2> QED
    BY <1>8, <1>9, <1>11, <2>1, <2>2
<1> QED
  BY <1>2, <1>10, <1>11 DEF j

LEMMA FailRefundLate ==
  ASSUME IInv, IInv', LateHere, NEW a \in Admins, FailRefund(a)
  PROVE  LateHere'
<1> DEFINE j == job[a].intent
<1>1. /\ job[a].step = "refused" /\ UNCHANGED <<clock, stripeVars>> /\ Leave(a)
      /\ rows' = IF rows[j].status = "pending" THEN [rows EXCEPT ![j].status = "failed"] ELSE rows
  BY DEF FailRefund
<1>2. TypeOK /\ a \in Procs /\ job \in [Procs -> Job] /\ AnswersTrue /\ ListsLate /\ LapsedHere
  BY Constants DEF IInv, TypeOK, LateHere
<1>3. \E x \in answers : x.intent = j /\ x.refund = 0
  BY <1>1, <1>2 DEF AnswersTrue
<1>4. job'[a] = Idle /\ \A p \in Procs : p # a => job'[p] = job[p]
  BY <1>1, <1>2 DEF Leave
<1>5. /\ DOMAIN rows' = DOMAIN rows
      /\ \A k \in DOMAIN rows : k # j => rows'[k] = rows[k]
      /\ \A k \in DOMAIN rows : rows'[k].at = rows[k].at
  <2>1. \A k \in DOMAIN rows : rows[k] \in Row
    BY <1>2, TypeFacts
  <2> QED
    BY <1>1, <2>1 DEF Row
<1> HIDE DEF j
<1>6. AnswersTrue'
  BY <1>1, <1>2, <1>4, IdleIs DEF AnswersTrue
<1>7. ListsLate'
  BY <1>1, <1>2, <1>4, IdleIs DEF ListsLate
<1>8. LapsedHere'
  BY <1>1, <1>2, <1>3, <1>5 DEF LapsedHere
<1> QED
  BY <1>6, <1>7, <1>8 DEF LateHere

LEMMA ApplyListLate ==
  ASSUME IInv, IInv', LateHere, NEW p \in Procs, ApplyList(p)
  PROVE  LateHere'
<1> DEFINE ls  == job[p].list
           now == job[p].began
<1>1. /\ job[p].step = "apply" /\ job'[p].step = "tell"
      /\ \A q \in Procs : q # p => job'[q] = job[q]
  <2>1. job \in [Procs -> Job]
    BY DEF IInv, TypeOK
  <2> QED
    BY <2>1 DEF ApplyList, Job
<1>2. /\ DOMAIN ls \subseteq DOMAIN made /\ Reconcile(ls, now) /\ RowsKeep
      /\ UNCHANGED <<clock, made, answers>> /\ TypeOK /\ RowsHere
  BY ApplyListIs
<1>3. AnswersTrue /\ ListsLate /\ LapsedHere
  BY DEF LateHere
<1>4. /\ clock \in Nat /\ IntentHours \in Nat /\ \A j \in DOMAIN rows : rows[j].at \in Nat
      /\ \A x \in answers : x.intent \in Nat /\ x.refund \in Nat /\ x.at \in Nat
      /\ now \in Nat
  BY <1>2, LateNumbers
<1>5. /\ now <= clock
      /\ \A x \in answers : x.refund \in DOMAIN made \ DOMAIN ls => now <= x.at
  BY <1>1, <1>3 DEF ListsLate
<1> HIDE DEF ls, now
<1>6. AnswersTrue'
  BY <1>1, <1>2, <1>3 DEF AnswersTrue
<1>7. ListsLate'
  BY <1>1, <1>2, <1>3 DEF ListsLate
<1>8. LapsedHere'
  <2> SUFFICES ASSUME NEW j \in DOMAIN rows', rows'[j].status = "failed", rows'[j].refund = 0
               PROVE  \/ \E x \in answers : x.intent = j /\ (x.refund = 0 \/ x.at > rows'[j].at + IntentHours)
                      \/ clock > rows'[j].at + IntentHours /\ \A x \in answers : x.intent # j
    BY <1>2 DEF LapsedHere
  <2>1. j \in DOMAIN rows
    <3>1. j \in DOMAIN rows \/ \E i \in Fresh(ls) : rows'[j] = FreshRow(ls, i)
      BY <1>2, ReconcileRows
    <3>2. \A i : FreshRow(ls, i).status = "done"
      BY DEF FreshRow
    <3> QED
      BY <3>1, <3>2
  <2>2. /\ rows'[j].at = rows[j].at
        /\ rows'[j] = rows[j] \/ j \in LetGo(ls, now)
    <3>1. /\ Completed(ls) \subseteq DOMAIN made /\ NewlyFailed(ls) \subseteq DOMAIN made
          /\ 0 \notin DOMAIN made
      BY <1>2, ListFacts, TypeFacts
    <3>2. \A i \in Completed(ls) \cup NewlyFailed(ls) : rows'[j].refund # i
      BY <3>1
    <3>3. rows'[j].at = rows[j].at
      BY <1>2, <2>1 DEF RowsKeep
    <3>4. \/ \E i \in Completed(ls) : rows'[j].refund = i
          \/ \E i \in NewlyFailed(ls) : rows'[j].refund = i
          \/ j \in LetGo(ls, now)
          \/ rows'[j] = rows[j]
      BY <1>2, <2>1, ReconcileChanges
    <3> QED
      BY <3>2, <3>3, <3>4
  <2>3. CASE rows'[j] = rows[j]
    BY <1>3, <2>1, <2>3 DEF LapsedHere
  <2>4. CASE j \in LetGo(ls, now)
    <3>1. rows[j].at + IntentHours < now /\ \A i \in DOMAIN ls : made[i].intent # j
      BY <2>4 DEF LetGo, IsOld
    <3>2. ASSUME NEW x \in answers, x.intent = j, x.refund # 0 PROVE x.at > rows[j].at + IntentHours
      <4>1. x.refund \in DOMAIN made \ DOMAIN ls
        BY <1>3, <3>1, <3>2 DEF AnswersTrue
      <4> QED
        BY <1>4, <1>5, <2>1, <3>1, <4>1
    <3>3. clock > rows[j].at + IntentHours
      BY <1>4, <1>5, <2>1, <3>1
    <3> QED
      BY <2>2, <3>2, <3>3
  <2> QED
    BY <2>2, <2>3, <2>4
<1> QED
  BY <1>6, <1>7, <1>8 DEF LateHere

\* The steps that neither answer nor let go.
LEMMA ProcLate ==
  ASSUME IInv, IInv', LateHere, NEW p \in Procs,
         \/ ListRefunds(p) \/ TellBuyer(p) \/ Crash(p) \/ (p = Hook /\ TakeEvent)
         \/ \E w \in Wantable, q \in {0} \cup DOMAIN requests : ChooseRefund(p, w, q)
  PROVE  LateHere'
<1>1. job \in [Procs -> Job] /\ clock \in Nat /\ job[p] \in Job /\ DOMAIN Statuses = DOMAIN made
  BY DEF IInv, TypeOK, Statuses
<1>2. UNCHANGED <<clock, answers, made, rows>> /\ \A q \in Procs : q # p => job'[q] = job[q]
  BY <1>1 DEF ListRefunds, TellBuyer, Crash, TakeEvent, ChooseRefund, Leave
<1>3. \/ job'[p].step \notin {"apply", "refused"}
      \/ job'[p].step = "apply" /\ DOMAIN job'[p].list = DOMAIN made /\ job'[p].began <= clock
  <2>1. CASE ListRefunds(p)
    BY <1>1, <2>1 DEF ListRefunds, Statuses, Job
  <2>2. CASE TellBuyer(p) \/ Crash(p)
    BY <1>1, <2>2, IdleIs DEF TellBuyer, Crash, Leave, Job
  <2>3. CASE p = Hook /\ TakeEvent
    BY <1>1, <2>3 DEF TakeEvent, Job
  <2>4. CASE \E w \in Wantable, q \in {0} \cup DOMAIN requests : ChooseRefund(p, w, q)
    BY <1>1, <2>4 DEF ChooseRefund, Idle
  <2> QED
    BY <2>1, <2>2, <2>3, <2>4
<1> QED
  BY <1>1, <1>2, <1>3, QuietLate

LEMMA BeginRefundLate ==
  ASSUME IInv, IInv', LateHere, NEW a \in Admins, BeginRefund(a)
  PROVE  LateHere'
<1>1. job \in [Procs -> Job] /\ clock \in Nat /\ a \in Procs
  BY Constants DEF IInv, TypeOK
<1>2. UNCHANGED <<clock, answers, made>>
  BY DEF BeginRefund
<1>3. /\ job'[a].step \notin {"apply", "refused"}
      /\ \A q \in Procs : q # a => job'[q] = job[q]
  <2>1. Leave(a) \/ \E j : Ask(a, j)
    BY DEF BeginRefund
  <2> QED
    BY <1>1, <2>1, IdleIs DEF Leave, Ask, Idle
<1>4. rows' = rows \/ \E new \in Row : rows' = Append(rows, new) /\ new.status = "pending"
  BY BeginRefundIs
<1>5. \A j \in DOMAIN rows' : rows'[j].status = "pending" \/ (j \in DOMAIN rows /\ rows'[j] = rows[j])
  <2>1. rows \in Seq(Row) /\ Len(rows) \in Nat /\ DOMAIN rows = 1..Len(rows)
    BY TypeFacts DEF IInv
  <2> QED
    BY <1>4, <2>1
<1> QED
  BY <1>1, <1>2, <1>3, <1>5, QuietLate

LEMMA StripeLate ==
  ASSUME IInv, IInv', LateHere,
         \/ \E amount \in HandAmounts : RefundByHand(amount)
         \/ \E i \in DOMAIN made, s \in {"succeeded", "failed"} : SettleRefund(i, s)
  PROVE  LateHere'
<1>1. clock \in Nat /\ made \in Seq(Made) /\ Len(made) \in Nat /\ DOMAIN made = 1..Len(made)
  BY TypeFacts DEF IInv, TypeOK
<1>2. UNCHANGED <<clock, answers, rows, job>>
  BY DEF RefundByHand, SettleRefund
<1>3. ASSUME NEW amount \in HandAmounts, RefundByHand(amount)
      PROVE  /\ DOMAIN made \subseteq DOMAIN made'
             /\ \A i \in DOMAIN made' :
                  IF i \in DOMAIN made THEN made'[i].intent = made[i].intent ELSE made'[i].intent = 0
  <2> DEFINE new == [amount |-> amount, intent |-> 0, status |-> "succeeded"]
  <2>1. made' = Append(made, new) /\ new.intent = 0
    BY <1>3 DEF RefundByHand, MakeRefund
  <2> HIDE DEF new
  <2> QED
    BY <1>1, <2>1
<1>4. ASSUME NEW i \in DOMAIN made, NEW s \in {"succeeded", "failed"}, SettleRefund(i, s)
      PROVE  DOMAIN made' = DOMAIN made /\ \A k \in DOMAIN made : made'[k].intent = made[k].intent
  <2>1. made' = [made EXCEPT ![i].status = s] /\ \A k \in DOMAIN made : made[k] \in Made
    BY <1>1, <1>4 DEF SettleRefund
  <2> QED
    BY <1>1, <2>1 DEF Made
<1>5. /\ DOMAIN made \subseteq DOMAIN made'
      /\ \A i \in DOMAIN made' :
           IF i \in DOMAIN made THEN made'[i].intent = made[i].intent ELSE made'[i].intent = 0
  BY <1>3, <1>4
<1> QED
  BY <1>1, <1>2, <1>5, QuietLate

LEMMA BookingLate ==
  ASSUME IInv, IInv', LateHere,
         \/ UNCHANGED vars \/ Tick \/ MarkSorted \/ CreateRequest
         \/ \E w \in Wantable : ReleaseTickets(w)
         \/ \E q \in DOMAIN requests : DeclineRequest(q)
  PROVE  LateHere'
<1>1. clock \in Nat /\ UNCHANGED <<answers, made, rows, job>> /\ clock' \in {clock, clock + 1}
  BY DEF IInv, TypeOK, vars, Tick, MarkSorted, CreateRequest, ReleaseTickets, DeclineRequest
<1> QED
  BY <1>1, QuietLate

LEMMA NextLate == ASSUME IInv, LateHere, [Next]_vars PROVE LateHere'
<1>1. IInv'
  BY NextIInv
<1>2. Hook \in Procs /\ Admins \subseteq Procs
  BY DEF Procs
<1>3. ASSUME NEW p \in Procs, ProcStep(p) \/ Crash(p) PROVE LateHere'
  BY <1>1, <1>3, ProcLate, ApplyListLate DEF ProcStep
<1>4. CASE TakeEvent
  BY <1>1, <1>2, <1>4, ProcLate
<1>5. ASSUME NEW a \in Admins,
             \/ \E w \in Wantable, q \in {0} \cup DOMAIN requests : ChooseRefund(a, w, q)
             \/ BeginRefund(a) \/ AskStripe(a) \/ FailRefund(a)
      PROVE  LateHere'
  BY <1>1, <1>2, <1>5, ProcLate, BeginRefundLate, AskStripeLate, FailRefundLate
<1> QED
  BY <1>1, <1>3, <1>4, <1>5, StripeLate, BookingLate DEF Next

LEMMA AlwaysLate == Spec => [](IInv /\ LateHere)
<1>1. Init => IInv /\ LateHere
  BY InitIInv, InitLate
<1>2. IInv /\ LateHere /\ [Next]_vars => (IInv /\ LateHere)'
  BY NextIInv, NextLate
<1> QED
  BY <1>1, <1>2, PTL DEF Spec

\* A row let go for which Stripe has made a refund was let go early.
Overtaken(j) == rows[j].status = "failed" /\ rows[j].refund = 0 /\ MadeFor(j) # {}

LEMMA OvertakenEarly ==
  ASSUME IInv, LateHere, NEW j \in DOMAIN rows, Overtaken(j)
  PROVE  LetGoEarly(j)
<1>1. PICK i \in DOMAIN made : made[i].intent = j
  BY DEF Overtaken, MadeFor
<1>2. j # 0 /\ i # 0
  BY TypeFacts DEF IInv
<1>3. PICK x \in answers : x.intent = j /\ x.refund = i
  BY <1>1, <1>2 DEF LateHere, AnswersTrue
<1>4. \A y \in answers : y.intent = j => y = x
  BY <1>3 DEF LateHere, AnswersTrue
<1>5. x.at > rows[j].at + IntentHours
  BY <1>2, <1>3, <1>4 DEF LateHere, LapsedHere, Overtaken
<1> QED
  BY <1>2, <1>3, <1>5 DEF LetGoEarly, Overtaken

----------------------------------------------------------------------------
(* A request is closed by money that went back                             *)

LEMMA InitRequests == Init => RequestsTrue
BY DEF Init, RequestsTrue

LEMMA NextRequests == ASSUME IInv, RequestsTrue, [Next]_vars PROVE RequestsTrue'
<1>1. 0 \notin paid
  BY TypeFacts DEF IInv, TypeOK
<1>2. ASSUME NEW p \in Procs, ApplyList(p) PROVE RequestsTrue'
  <2> DEFINE ls == job[p].list
  <2>1. /\ DOMAIN ls \subseteq DOMAIN made /\ Reconcile(ls, job[p].began)
        /\ Succeeded(ls) \subseteq paid /\ RowsKeep /\ paid' = paid /\ TypeOK /\ RowsHere
    BY <1>2, ApplyListIs
  <2>2. \A i \in Completed(ls) : \E j \in DOMAIN rows' : j = RowOf(i) /\ rows'[j].refund = i
    BY <1>2, Recorded
  <2> HIDE DEF ls
  <2> SUFFICES ASSUME NEW q \in DOMAIN requests', requests'[q] = "refunded"
               PROVE  \E j \in DOMAIN rows' : rows'[j].request = q /\ rows'[j].refund \in paid
    BY <2>1 DEF RequestsTrue
  <2>3. /\ q \in DOMAIN requests
        /\ requests[q] = "refunded" \/ q \in Answered(ls)
    BY <2>1 DEF Reconcile
  <2>4. CASE requests[q] = "refunded"
    <3>1. PICK j \in DOMAIN rows : rows[j].request = q /\ rows[j].refund \in paid
      BY <2>3, <2>4 DEF RequestsTrue
    <3> QED
      BY <1>1, <2>1, <3>1 DEF RowsKeep
  <2>5. CASE q \in Answered(ls)
    <3>1. PICK i \in Completed(ls) : q = rows[RowOf(i)].request
      BY <2>5 DEF Answered
    <3>2. i \in DOMAIN made /\ RowOf(i) # 0 /\ i \in paid
      BY <2>1, <3>1, ListFacts DEF Completed
    <3>3. RowOf(i) \in DOMAIN rows
      BY <2>1, <3>2, RowOfIs
    <3>4. RowOf(i) \in DOMAIN rows' /\ rows'[RowOf(i)].refund = i
      BY <2>2, <3>1
    <3>5. rows'[RowOf(i)].request = q
      BY <2>1, <3>1, <3>3 DEF RowsKeep
    <3> QED
      BY <3>2, <3>4, <3>5
  <2> QED
    BY <2>3, <2>4, <2>5
<1>3. CASE \A p \in Procs : ~ApplyList(p)
  <2>1. \A q \in DOMAIN requests' : requests'[q] = "refunded" => q \in DOMAIN requests /\ requests[q] = "refunded"
    <3>1. CASE CreateRequest
      <4>1. requests \in Seq({"open", "refunded", "declined"}) /\ requests' = Append(requests, "open")
        BY <3>1 DEF IInv, TypeOK, CreateRequest
      <4> QED
        BY <4>1
    <3>2. CASE \E q \in DOMAIN requests : DeclineRequest(q)
      BY <3>2 DEF DeclineRequest
    <3> QED
      BY <1>3, <3>1, <3>2, OtherSteps
  <2>2. RowsKeep /\ paid \subseteq paid'
    BY <1>3, OtherRows, OtherSteps DEF PaidGrow
  <2> QED
    BY <1>1, <2>1, <2>2 DEF RequestsTrue, RowsKeep
<1> QED
  BY <1>2, <1>3

\* A request is closed as refunded only by money that did go back.
THEOREM RequestsClosedTruly == Spec => []RequestsTrue
<1>1. Spec => [](IInv /\ RequestsTrue)
  <2>1. Init => IInv /\ RequestsTrue
    BY InitIInv, InitRequests
  <2>2. IInv /\ RequestsTrue /\ [Next]_vars => (IInv /\ RequestsTrue)'
    BY NextIInv, NextRequests
  <2> QED
    BY <2>1, <2>2, PTL DEF Spec
<1> QED
  BY <1>1, PTL

----------------------------------------------------------------------------
(* With no event left to take, the booking agrees with Stripe              *)

\* Every refund Stripe has made is recorded, or its row was let go.
Applied ==
  events = 0 => \A i \in DOMAIN made : made[i].status = "succeeded" =>
                  \/ \E j \in DOMAIN rows : rows[j].status = "done" /\ rows[j].refund = i
                  \/ made[i].intent # 0 /\ Overtaken(made[i].intent)

Agreement == MoneyAgrees /\ Applied

LEMMA InitAgreement == Init => Agreement
<1> SUFFICES ASSUME Init PROVE MoneyAgrees /\ Applied
  BY DEF Agreement
<1>1. made = <<>> /\ refundedPence = 0 /\ DOMAIN made = {}
  BY DEF Init
<1>2. Applied
  BY <1>1 DEF Applied
<1>3. Amounts({}) = 0
  BY SumEmpty DEF Amounts
<1>4. {i \in DOMAIN made : made[i].status = "succeeded"} = {}
  BY <1>1
<1>5. Total \in Nat /\ Min({Total, 0}) = 0
  <2>1. Total \in Nat /\ 0 \in Nat
    BY TotalNat
  <2>2. Min({Total, 0}) \in {Total, 0} /\ Min({Total, 0}) <= 0
    BY <2>1, MinOfTwo
  <2> QED
    BY <2>1, <2>2
<1> QED
  BY <1>1, <1>2, <1>3, <1>4, <1>5 DEF MoneyAgrees

\* A list applied with no event left was not overtaken.
LEMMA AppliedCurrent ==
  ASSUME IInv, NEW p \in Procs, ApplyList(p), events' = 0
  PROVE  job[p].list = Statuses /\ Succeeded(job[p].list) = {i \in DOMAIN made : made[i].status = "succeeded"}
<1>1. job[p].step = "apply" /\ events' = IF p = Hook THEN events - 1 ELSE events
  BY DEF ApplyList
<1>2. job[p].list = Statuses
  BY <1>1 DEF IInv, TypeOK, EventsHere
<1> QED
  BY <1>2 DEF Statuses, Succeeded

LEMMA NextAgreement == ASSUME IInv, Agreement, [Next]_vars PROVE Agreement'
<1>1. ASSUME NEW p \in Procs, ApplyList(p), events' = 0
      PROVE  Agreement'
  <2> DEFINE ls  == job[p].list
             now == job[p].began
             S   == {i \in DOMAIN made : made[i].status = "succeeded"}
  <2>1. /\ DOMAIN ls \subseteq DOMAIN made /\ Reconcile(ls, now)
        /\ \A i \in NewlyFailed(ls) : made[i].status = "failed"
        /\ RowsKeep /\ made' = made /\ TypeOK /\ RowsHere /\ RowsApart /\ MadeHere /\ MadeApart
    BY <1>1, ApplyListIs
  <2>2. ls = Statuses /\ Succeeded(ls) = S
    BY <1>1, AppliedCurrent
  <2>3. \A i \in Completed(ls) \cup Fresh(ls) : \E j \in DOMAIN rows' : rows'[j].refund = i /\ rows'[j].status = "done"
    BY <1>1, Recorded
  <2> HIDE DEF ls, now
  <2>4. MoneyAgrees'
    <3>1. refundedPence' = Min({Total, Amounts(S)})
      BY <2>1, <2>2 DEF Reconcile, Money
    <3>2. S' = S /\ \A T : Amounts(T)' = Amounts(T)
      BY <2>1 DEF Amounts
    <3> QED
      BY <3>1, <3>2 DEF MoneyAgrees
  <2>5. Applied'
    <3> SUFFICES ASSUME NEW i \in DOMAIN made, made[i].status = "succeeded"
                 PROVE  \/ \E j \in DOMAIN rows' : rows'[j].status = "done" /\ rows'[j].refund = i
                        \/ \E k \in DOMAIN rows' : k # 0 /\ k = made[i].intent /\ Overtaken(k)'
      BY <2>1 DEF Applied, Overtaken, MadeFor
    <3> DEFINE j == RowOf(i)
    <3>1. i \in Succeeded(ls)
      BY <2>2
    <3>2. CASE i \in Completed(ls) \cup Fresh(ls)
      BY <2>3, <3>2
    <3>3. CASE i \notin Completed(ls) \cup Fresh(ls)
      <4>1. j # 0 /\ rows[j].status # "pending"
        BY <3>1, <3>3 DEF Completed, Fresh
      <4>2. /\ j \in DOMAIN rows
            /\ rows[j].refund = i \/ (rows[j].refund = 0 /\ made[i].intent = j)
        BY <2>1, <4>1, RowOfIs
      <4>3. i # 0 /\ rows[j].status \in {"done", "failed"}
        <5>1. rows[j] \in Row /\ DOMAIN made = 1..Len(made) /\ Len(made) \in Nat
          BY <2>1, <4>2, TypeFacts
        <5> QED
          BY <4>1, <5>1 DEF Row
      <4>4. CASE rows[j].refund = i
        <5>1. rows[j].status = "done"
          BY <2>1, <4>2, <4>3, <4>4 DEF RowsHere
        <5>2. \A k \in NewlyFailed(ls) : k # i
          BY <2>1
        <5>3. rows'[j] = rows[j]
          BY <2>1, <4>2, <4>3, <4>4, <5>1, <5>2, ReconcileChanges
        <5> QED
          BY <2>1, <4>2, <4>4, <5>1, <5>3 DEF RowsKeep
      <4>5. CASE rows[j].refund = 0 /\ made[i].intent = j
        <5>1. rows[j].status = "failed"
          BY <2>1, <4>2, <4>3, <4>5 DEF RowsHere
        <5>2. rows'[j] = rows[j]
          BY <2>1, <4>2, <5>1, ReconcileChanges
        <5>3. \A k : k = j => Overtaken(k)'
          BY <2>1, <4>5, <5>1, <5>2 DEF Overtaken, MadeFor
        <5> QED
          BY <2>1, <4>1, <4>2, <4>5, <5>3 DEF RowsKeep
      <4> QED
        BY <4>2, <4>4, <4>5
    <3> QED
      BY <3>2, <3>3
  <2> QED
    BY <2>4, <2>5 DEF Agreement
<1>2. CASE events' # 0
  BY <1>2 DEF Agreement, MoneyAgrees, Applied
<1>3. CASE events' = 0 /\ \A p \in Procs : ~ApplyList(p)
  <2>1. refundedPence' = refundedPence /\ UNCHANGED <<made, events>>
    <3>1. events \in Nat
      BY DEF IInv, TypeOK
    <3> QED
      BY <1>3, <3>1, OtherSteps
  <2>2. MoneyAgrees'
    BY <1>3, <2>1 DEF Agreement, MoneyAgrees, Amounts
  <2>3. /\ RowsKeep
        /\ \A j \in DOMAIN rows :
             /\ rows'[j].refund = rows[j].refund
             /\ rows'[j].status = rows[j].status \/ (rows[j].status = "pending" /\ rows'[j].status = "failed")
    BY <1>3, OtherRows
  <2>4. \A j \in DOMAIN rows : Overtaken(j) => Overtaken(j)'
    BY <2>1, <2>3 DEF Overtaken, MadeFor
  <2>5. Applied'
    <3> SUFFICES ASSUME NEW i \in DOMAIN made, made[i].status = "succeeded"
                 PROVE  \/ \E j \in DOMAIN rows' : rows'[j].status = "done" /\ rows'[j].refund = i
                        \/ \E k \in DOMAIN rows' : k # 0 /\ k = made[i].intent /\ Overtaken(k)'
      BY <2>1 DEF Applied, Overtaken, MadeFor
    <3>1. CASE \E j \in DOMAIN rows : rows[j].status = "done" /\ rows[j].refund = i
      BY <2>3, <3>1 DEF RowsKeep
    <3>2. CASE made[i].intent # 0 /\ Overtaken(made[i].intent)
      <4>1. PICK k \in DOMAIN rows : k = made[i].intent /\ k # 0 /\ Overtaken(k)
        BY <3>2 DEF IInv, MadeHere
      <4> QED
        BY <2>3, <2>4, <4>1 DEF RowsKeep
    <3> QED
      BY <1>3, <2>1, <3>1, <3>2 DEF Agreement, Applied
  <2> QED
    BY <2>2, <2>5 DEF Agreement
<1> QED
  BY <1>1, <1>2, <1>3

LEMMA AlwaysAgreement == Spec => [](IInv /\ Agreement)
<1>1. Init => IInv /\ Agreement
  BY InitIInv, InitAgreement
<1>2. IInv /\ Agreement /\ [Next]_vars => (IInv /\ Agreement)'
  BY NextIInv, NextAgreement
<1> QED
  BY <1>1, <1>2, PTL DEF Spec

\* Once every refund event is taken, the booking's money is what Stripe has paid back.
THEOREM MoneyAlwaysAgrees == Spec => []MoneyAgrees
BY AlwaysAgreement, PTL DEF Agreement

\* Once every refund event is taken, every refund Stripe has made is recorded here.
THEOREM AlwaysApplied == Spec => []AppliedWhenMade
<1>1. IInv /\ LateHere /\ Applied => AppliedWhenMade
  <2> SUFFICES ASSUME IInv, LateHere, Applied, events = 0,
                      NEW i \in DOMAIN made, made[i].status = "succeeded"
               PROVE  \/ \E j \in DOMAIN rows : rows[j].status = "done" /\ rows[j].refund = i
                      \/ made[i].intent # 0 /\ LetGoEarly(made[i].intent)
    BY DEF AppliedWhenMade
  <2>1. \/ \E j \in DOMAIN rows : rows[j].status = "done" /\ rows[j].refund = i
        \/ made[i].intent # 0 /\ Overtaken(made[i].intent)
    BY DEF Applied
  <2>2. made[i].intent # 0 => made[i].intent \in DOMAIN rows
    BY DEF IInv, MadeHere
  <2> QED
    BY <2>1, <2>2, OvertakenEarly
<1> QED
  BY <1>1, AlwaysLate, AlwaysAgreement, PTL DEF Agreement

----------------------------------------------------------------------------
(* No ticket is paid back twice                                            *)

\* The tickets of the refunds that admins made and Stripe has paid.
DoneRows       == {j \in DOMAIN rows : rows[j].by = "admin" /\ rows[j].status = "done"}
TicketsOf(l)   == [j \in DOMAIN rows |-> rows[j].lines[l]]
DoneTickets(l) == SumFunctionOnSet(TicketsOf(l), DoneRows)

\* They are released, and with those of the refund that waits they are no more than were bought.
TicketsHere ==
  \A l \in Lines :
    /\ DoneTickets(l) <= refunded[l]
    /\ \A j \in Waiting : DoneTickets(l) + rows[j].lines[l] <= Quantity[l]

LEMMA TicketsNat ==
  ASSUME IInv, NEW l \in Lines
  PROVE  /\ \A j \in DOMAIN rows : TicketsOf(l)[j] = rows[j].lines[l] /\ TicketsOf(l)[j] \in Nat
         /\ IsFiniteSet(DoneRows) /\ DoneTickets(l) \in Nat
         /\ refunded[l] \in Nat /\ Quantity[l] \in Nat /\ refunded[l] <= Quantity[l]
         /\ \A j, k \in Waiting : j = k
<1>1. TypeOK
  BY DEF IInv
<1>2. \A j \in DOMAIN rows : TicketsOf(l)[j] = rows[j].lines[l] /\ TicketsOf(l)[j] \in Nat
  BY <1>1, TypeFacts DEF TicketsOf, Row, Tickets
<1>3. DoneRows \subseteq DOMAIN rows
  BY DEF DoneRows
<1>4. IsFiniteSet(DoneRows)
  BY <1>1, <1>3, TypeFacts, FS_Subset
<1>5. DoneTickets(l) \in Nat
  BY <1>2, <1>3, <1>4, SumNat DEF DoneTickets
<1>6. refunded[l] \in Nat /\ Quantity[l] \in Nat /\ refunded[l] <= Quantity[l]
  BY <1>1, LinesAssumption DEF TypeOK, Tickets
<1>7. \A j, k \in Waiting : j = k
  BY DEF IInv, RowsApart, Waiting
<1> QED
  BY <1>2, <1>4, <1>5, <1>6, <1>7

LEMMA InitTickets == Init => TicketsHere
<1> SUFFICES ASSUME Init, NEW l \in Lines PROVE DoneTickets(l) <= refunded[l] /\ Waiting = {}
  BY DEF TicketsHere
<1>1. DoneRows = {} /\ Waiting = {} /\ refunded[l] = 0
  BY DEF Init, DoneRows, Waiting, None
<1>2. SumFunctionOnSet(TicketsOf(l), {}) = 0
  BY SumEmpty
<1> QED
  BY <1>1, <1>2 DEF DoneTickets

\* A completed refund's tickets are among those its reconcile releases.
LEMMA CompletedReleases ==
  ASSUME IInv, NEW p \in Procs, ApplyList(p), NEW i \in Completed(job[p].list), NEW l \in Lines
  PROVE  rows[RowOf(i)].lines[l] <= CompletedLines(job[p].list, l)
<1> DEFINE ls == job[p].list
           f  == [k \in Completed(ls) |-> rows[RowOf(k)].lines[l]]
<1>1. TypeOK /\ DOMAIN ls \subseteq DOMAIN made
  BY ApplyListIs
<1> HIDE DEF ls
<1>2. \A k \in Completed(ls) : RowOf(k) \in DOMAIN rows
  BY <1>1, ListFacts, RowOfIs DEF Completed
<1>3. \A k \in Completed(ls) : f[k] \in Nat
  BY <1>1, <1>2, TypeFacts DEF Row, Tickets
<1>4. CompletedLines(ls, l) = SumFunctionOnSet(f, Completed(ls))
  BY DEF CompletedLines, SumFunction
<1>5. i \in Completed(ls) /\ f[i] = rows[RowOf(i)].lines[l]
  BY DEF ls
<1>6. IsFiniteSet(Completed(ls)) /\ IsFiniteSet(Completed(ls) \ {i})
  BY <1>1, ListFacts, FS_Subset
<1> HIDE DEF f
<1>7. SumFunctionOnSet(f, Completed(ls)) = f[i] + SumFunctionOnSet(f, Completed(ls) \ {i})
  BY <1>3, <1>5, <1>6, SumRemove
<1>8. SumFunctionOnSet(f, Completed(ls) \ {i}) \in Nat
  BY <1>3, <1>6, SumNat
<1> QED
  BY <1>3, <1>4, <1>5, <1>7, <1>8 DEF ls

LEMMA ApplyListTickets ==
  ASSUME IInv, TicketsHere, NEW p \in Procs, ApplyList(p)
  PROVE  TicketsHere'
<1> DEFINE ls == job[p].list
           C  == {j \in DOMAIN rows : rows[j].status = "pending" /\ rows'[j].status = "done"}
<1>1. /\ DOMAIN ls \subseteq DOMAIN made /\ Reconcile(ls, job[p].began)
      /\ RowsKeep /\ TypeOK /\ RowsHere
  BY ApplyListIs
<1>2. \A i \in Completed(ls) : \A l \in Lines : rows[RowOf(i)].lines[l] <= CompletedLines(ls, l)
  BY CompletedReleases
<1> HIDE DEF ls
<1>3. \A j \in DOMAIN rows' : j \notin DOMAIN rows => rows'[j].by = "stripe" /\ rows'[j].status = "done"
  BY <1>1, ReconcileRows, FreshRowIs
<1>4. \A j \in DOMAIN rows :
        \/ rows[j].status = "pending" /\ rows'[j].status = "done" /\ \E i \in Completed(ls) : RowOf(i) = j
        \/ rows'[j].status = "failed"
        \/ rows'[j] = rows[j]
  BY <1>1, ReconcileChanges
<1>5. DoneRows' \subseteq DoneRows \cup C /\ DoneRows' \subseteq DOMAIN rows
  BY <1>1, <1>3, <1>4 DEF DoneRows, RowsKeep
<1>6. Waiting' \subseteq Waiting /\ C \subseteq Waiting /\ Waiting' \cap C = {}
  BY <1>1, <1>3, <1>4 DEF Waiting
<1>7. IInv'
  BY ApplyListIInv
<1> SUFFICES ASSUME NEW l \in Lines
             PROVE  /\ DoneTickets(l)' <= refunded'[l]
                    /\ \A j \in Waiting' : DoneTickets(l)' + rows'[j].lines[l] <= Quantity[l]
  BY DEF TicketsHere
<1> DEFINE f == TicketsOf(l)
<1>8. /\ \A j \in DOMAIN rows : f[j] = rows[j].lines[l] /\ f[j] \in Nat
      /\ IsFiniteSet(DoneRows) /\ DoneTickets(l) = SumFunctionOnSet(f, DoneRows) /\ DoneTickets(l) \in Nat
      /\ refunded[l] \in Nat /\ Quantity[l] \in Nat /\ refunded[l] <= Quantity[l]
      /\ \A j, k \in Waiting : j = k
  BY TicketsNat DEF DoneTickets
<1>9. /\ DoneTickets(l) <= refunded[l]
      /\ \A j \in Waiting : DoneTickets(l) + rows[j].lines[l] <= Quantity[l]
  BY DEF TicketsHere
<1>10. DoneTickets(l)' = SumFunctionOnSet(f, DoneRows')
  <2>1. \A j \in DoneRows' : TicketsOf(l)'[j] = f[j]
    BY <1>1, <1>5 DEF TicketsOf, RowsKeep
  <2>2. IsFiniteSet(DoneRows')
    BY <1>1, <1>5, TypeFacts, FS_Subset
  <2> DEFINE g == TicketsOf(l)'
             D == DoneRows'
  <2>3. DoneTickets(l)' = SumFunctionOnSet(g, D)
    BY DEF DoneTickets
  <2> HIDE DEF f, g, D
  <2>4. SumFunctionOnSet(g, D) = SumFunctionOnSet(f, D)
    BY <2>1, <2>2, SumAgree DEF g, D
  <2> QED
    BY <2>3, <2>4 DEF D
<1>11. refunded'[l] = Quantity[l] \/ refunded'[l] = ReleasedBy(ls)[l]
  BY <1>1 DEF Reconcile
<1>12. /\ ReleasedBy(ls)[l] \in Nat /\ refunded[l] <= ReleasedBy(ls)[l]
       /\ ReleasedBy(ls)[l] \in {Quantity[l], refunded[l] + CompletedLines(ls, l)}
       /\ CompletedLines(ls, l) \in Nat
  BY <1>1, ReleasedByIs, CompletedLinesNat DEF Tickets
<1> HIDE DEF f
<1>13. CASE C = {}
  <2>1. DoneTickets(l)' <= DoneTickets(l) /\ DoneTickets(l)' \in Nat
    <3>1. DoneRows' \in SUBSET DoneRows /\ DoneRows \subseteq DOMAIN rows
      BY <1>5, <1>13 DEF DoneRows
    <3> DEFINE D == DoneRows'
    <3>2. IsFiniteSet(D)
      BY <1>8, <3>1, FS_Subset
    <3> HIDE DEF D
    <3>3. SumFunctionOnSet(f, D) <= SumFunctionOnSet(f, DoneRows) /\ SumFunctionOnSet(f, D) \in Nat
      BY <1>8, <3>1, <3>2, SumSubset, SumNat DEF D
    <3> QED
      BY <1>8, <1>10, <3>3 DEF D
  <2>2. refunded[l] <= refunded'[l]
    BY <1>8, <1>11, <1>12
  <2>3. \A j \in Waiting' : j \in Waiting /\ rows'[j].lines[l] = rows[j].lines[l] /\ rows[j].lines[l] \in Nat
    BY <1>1, <1>6, <1>8 DEF Waiting, RowsKeep
  <2>4. refunded'[l] \in Nat
    BY <1>8, <1>11, <1>12
  <2> QED
    BY <1>8, <1>9, <2>1, <2>2, <2>3, <2>4
<1>14. CASE C # {}
  <2>1. PICK j \in C : TRUE
    BY <1>14
  <2>2. j \in Waiting /\ j \in DOMAIN rows /\ j \notin DoneRows /\ C = {j} /\ Waiting' = {}
    BY <1>6, <1>8, <2>1 DEF DoneRows
  <2> DEFINE D == DoneRows'
             T == DoneRows \cup {j}
  <2>3. IsFiniteSet(T) /\ D \in SUBSET T /\ T \subseteq DOMAIN rows /\ T \ {j} = DoneRows /\ j \in T
    BY <1>5, <1>8, <2>2, FS_AddElement DEF DoneRows
  <2>4. DoneTickets(l)' = SumFunctionOnSet(f, D)
    BY <1>10
  <2> HIDE DEF D, T
  <2>5. SumFunctionOnSet(f, D) <= SumFunctionOnSet(f, T)
    BY <1>8, <2>3, SumSubset
  <2>6. SumFunctionOnSet(f, T) = f[j] + DoneTickets(l)
    BY <1>8, <2>3, SumRemove
  <2>7. SumFunctionOnSet(f, D) \in Nat
    BY <1>8, <2>3, SumNat, FS_Subset
  <2>8. f[j] \in Nat /\ f[j] <= CompletedLines(ls, l) /\ DoneTickets(l) + f[j] <= Quantity[l]
    <3>1. PICK i \in Completed(ls) : RowOf(i) = j
      BY <1>4, <2>1
    <3> QED
      BY <1>2, <1>8, <1>9, <2>2, <3>1
  <2>9. DoneTickets(l)' <= refunded'[l]
    BY <1>8, <1>9, <1>11, <1>12, <2>4, <2>5, <2>6, <2>7, <2>8
  <2> QED
    BY <2>2, <2>9
<1> QED
  BY <1>13, <1>14

LEMMA OtherTickets ==
  ASSUME IInv, TicketsHere, [Next]_vars, \A p \in Procs : ~ApplyList(p)
  PROVE  TicketsHere'
<1>1. /\ RowsKeep /\ IInv' /\ TypeOK
      /\ \A j \in DOMAIN rows :
           rows'[j].status = rows[j].status \/ (rows[j].status = "pending" /\ rows'[j].status = "failed")
      /\ \A j \in DOMAIN rows' : j \notin DOMAIN rows => rows'[j].status = "pending"
  BY OtherRows, NextIInv DEF IInv
<1>2. DoneRows' = DoneRows
  BY <1>1 DEF DoneRows, RowsKeep
<1> SUFFICES ASSUME NEW l \in Lines
             PROVE  /\ DoneTickets(l)' <= refunded'[l]
                    /\ \A j \in Waiting' : DoneTickets(l)' + rows'[j].lines[l] <= Quantity[l]
  BY DEF TicketsHere
<1> DEFINE f == TicketsOf(l)
           g == TicketsOf(l)'
<1>3. /\ \A j \in DOMAIN rows : f[j] = rows[j].lines[l] /\ f[j] \in Nat
      /\ IsFiniteSet(DoneRows) /\ DoneTickets(l) = SumFunctionOnSet(f, DoneRows) /\ DoneTickets(l) \in Nat
      /\ refunded[l] \in Nat /\ Quantity[l] \in Nat /\ refunded[l] <= Quantity[l]
  BY TicketsNat DEF DoneTickets
<1>4. DoneTickets(l) <= refunded[l] /\ \A j \in Waiting : DoneTickets(l) + rows[j].lines[l] <= Quantity[l]
  BY DEF TicketsHere
<1>5. DoneTickets(l)' = DoneTickets(l)
  <2>1. \A j \in DoneRows : g[j] = f[j]
    BY <1>1 DEF TicketsOf, RowsKeep, DoneRows
  <2>2. DoneTickets(l)' = SumFunctionOnSet(g, DoneRows)
    BY <1>2 DEF DoneTickets
  <2> HIDE DEF f, g
  <2> QED
    BY <1>3, <2>1, <2>2, SumAgree
<1>6. refunded[l] <= refunded'[l]
  <2>1. ASSUME NEW w \in Wantable, ReleaseTickets(w) PROVE refunded[l] <= refunded'[l]
    <3>1. refunded'[l] = refunded[l] + w[l] /\ w[l] \in Nat
      BY <2>1, LinesAssumption DEF ReleaseTickets, Wantable
    <3> QED
      BY <1>3, <3>1
  <2>2. CASE refunded' = refunded
    BY <1>3, <2>2
  <2> QED
    BY <2>1, <2>2, OtherSteps
<1>7. ASSUME NEW j \in Waiting' PROVE DoneTickets(l) + rows'[j].lines[l] <= Quantity[l]
  <2>1. CASE j \in DOMAIN rows
    BY <1>1, <1>4, <2>1 DEF Waiting, RowsKeep
  <2>2. CASE j \notin DOMAIN rows
    <3>1. rows \in Seq(Row) /\ DOMAIN rows = 1..Len(rows) /\ Len(rows) \in Nat
      BY <1>1, TypeFacts
    <3>2. PICK a \in Admins : BeginRefund(a)
      <4>1. DOMAIN rows' # DOMAIN rows
        BY <2>2 DEF Waiting
      <4>2. \A a \in Admins : FailRefund(a) => Len(rows') = Len(rows) /\ rows' \in Seq(Row)
        BY FailRefundIs
      <4> QED
        BY <1>1, <3>1, <4>1, <4>2, OtherSteps
    <3>3. PICK new \in Row : rows' = Append(rows, new) /\ PlanOk(new.lines)
      <4>1. rows' # rows
        BY <2>2 DEF Waiting
      <4> QED
        BY <3>2, <4>1, BeginRefundIs
    <3>4. rows'[j] = new
      <4>1. j \in DOMAIN rows'
        BY DEF Waiting
      <4> QED
        BY <2>2, <3>1, <3>3, <4>1
    <3>5. new.lines[l] <= Quantity[l] - refunded[l] /\ new.lines[l] \in Nat
      BY <3>3 DEF PlanOk, Left, Row, Tickets
    <3> QED
      BY <1>3, <1>4, <3>4, <3>5
  <2> QED
    BY <2>1, <2>2
<1> QED
  <2>1. refunded'[l] \in Nat
    <3>1. refunded' \in Tickets
      BY <1>1 DEF IInv, TypeOK
    <3> QED
      BY <3>1 DEF Tickets
  <2> QED
    BY <1>3, <1>4, <1>5, <1>6, <1>7, <2>1

LEMMA AlwaysTickets == Spec => [](IInv /\ TicketsHere)
<1>1. Init => IInv /\ TicketsHere
  BY InitIInv, InitTickets
<1>2. IInv /\ TicketsHere /\ [Next]_vars => (IInv /\ TicketsHere)'
  BY NextIInv, ApplyListTickets, OtherTickets
<1> QED
  BY <1>1, <1>2, PTL DEF Spec

LEMMA TicketsPaid == IInv /\ LateHere /\ TicketsHere => TicketPaidOnce
<1> SUFFICES ASSUME IInv, LateHere, TicketsHere, NEW l \in Lines
             PROVE  SumFunction([j \in PaidRows |-> rows[j].lines[l]]) <= Quantity[l]
  BY DEF TicketPaidOnce
<1> DEFINE f == TicketsOf(l)
           g == [j \in PaidRows |-> rows[j].lines[l]]
<1>1. /\ \A j \in DOMAIN rows : f[j] = rows[j].lines[l] /\ f[j] \in Nat
      /\ IsFiniteSet(DoneRows) /\ DoneTickets(l) = SumFunctionOnSet(f, DoneRows) /\ DoneTickets(l) \in Nat
      /\ refunded[l] \in Nat /\ Quantity[l] \in Nat /\ refunded[l] <= Quantity[l]
      /\ \A j, k \in Waiting : j = k
  BY TicketsNat DEF DoneTickets
<1>2. DoneTickets(l) <= refunded[l] /\ \A j \in Waiting : DoneTickets(l) + rows[j].lines[l] <= Quantity[l]
  BY DEF TicketsHere
<1>3. PaidRows \in SUBSET (DoneRows \cup Waiting) /\ PaidRows \subseteq DOMAIN rows
  <2> SUFFICES ASSUME NEW j \in PaidRows PROVE j \in DoneRows \cup Waiting
    BY DEF PaidRows
  <2>1. /\ j \in DOMAIN rows /\ rows[j].by = "admin" /\ ~LetGoEarly(j)
        /\ rows[j].status = "pending" \/ \E i \in MadeFor(j) : made[i].status # "failed"
        /\ rows[j] \in Row /\ rows[j].status \in {"pending", "done", "failed"}
    BY TypeFacts DEF PaidRows, IInv, Row
  <2>2. CASE rows[j].status = "failed"
    <3>1. PICK i \in DOMAIN made : made[i].intent = j /\ made[i].status # "failed"
      BY <2>1, <2>2 DEF MadeFor
    <3>2. rows[j].refund # 0
      BY <2>1, <2>2, <3>1, OvertakenEarly DEF Overtaken, MadeFor
    <3>3. /\ rows[j].refund \in DOMAIN made /\ made[rows[j].refund].intent = j
          /\ made[rows[j].refund].status = "failed"
      BY <2>1, <2>2, <3>2 DEF IInv, RowsHere
    <3>4. j # 0
      BY <2>1, TypeFacts DEF IInv
    <3> QED
      BY <3>1, <3>3, <3>4 DEF IInv, MadeApart
  <2> QED
    BY <2>1, <2>2 DEF DoneRows, Waiting
<1>4. IsFiniteSet(PaidRows) /\ DoneRows \subseteq DOMAIN rows
  BY <1>3, TypeFacts, FS_Subset DEF IInv, DoneRows
<1>5. SumFunction(g) = SumFunctionOnSet(f, PaidRows)
  <2>1. \A j \in PaidRows : g[j] = f[j]
    BY <1>1, <1>3
  <2>2. SumFunction(g) = SumFunctionOnSet(g, PaidRows)
    BY DEF SumFunction
  <2> HIDE DEF f, g
  <2> QED
    BY <1>4, <2>1, <2>2, SumAgree
<1> HIDE DEF f, g
<1>6. CASE Waiting = {}
  <2>1. SumFunctionOnSet(f, PaidRows) <= SumFunctionOnSet(f, DoneRows) /\ SumFunctionOnSet(f, PaidRows) \in Nat
    BY <1>1, <1>3, <1>4, <1>6, SumSubset, SumNat
  <2> QED
    BY <1>1, <1>2, <1>5, <2>1 DEF g
<1>7. CASE Waiting # {}
  <2>1. PICK j \in Waiting : Waiting = {j}
    BY <1>1, <1>7
  <2> DEFINE T == DoneRows \cup {j}
  <2>2. /\ j \in DOMAIN rows /\ j \notin DoneRows /\ IsFiniteSet(T) /\ T \ {j} = DoneRows /\ j \in T
        /\ PaidRows \in SUBSET T /\ T \subseteq DOMAIN rows
    BY <1>1, <1>3, <1>4, <2>1, FS_AddElement DEF Waiting, DoneRows
  <2> HIDE DEF T
  <2>3. SumFunctionOnSet(f, PaidRows) <= SumFunctionOnSet(f, T) /\ SumFunctionOnSet(f, PaidRows) \in Nat
    BY <1>1, <1>4, <2>2, SumSubset, SumNat
  <2>4. SumFunctionOnSet(f, T) = f[j] + DoneTickets(l)
    BY <1>1, <2>2, SumRemove
  <2> QED
    BY <1>1, <1>2, <1>5, <2>1, <2>2, <2>3, <2>4 DEF g
<1> QED
  BY <1>6, <1>7

\* The tickets of the refunds that Stripe has paid, and of the one that waits, were bought.
THEOREM TicketsPaidOnce == Spec => []TicketPaidOnce
BY AlwaysLate, AlwaysTickets, TicketsPaid, PTL

----------------------------------------------------------------------------
(* No ticket goes back on sale at the charity's cost                       *)

\* The money paid back covers the tickets released and what the booking says; and it does so without
\* what may yet be made of the refund that waits, whose own money covers its tickets, or all of them.
CoveredHere ==
  /\ Value(refunded) <= Amounts(paid) /\ refundedPence <= Amounts(paid) /\ refundedPence <= Total
  /\ \A j \in Waiting :
       /\ Value(refunded) <= Amounts(paid \ MadeFor(j)) /\ refundedPence <= Amounts(paid \ MadeFor(j))
       /\ \/ Value(rows[j].lines) <= rows[j].amount
          \/ Total <= Amounts(paid \ MadeFor(j)) + rows[j].amount

LEMMA ValuePlus ==
  ASSUME NEW u \in Tickets, NEW v \in Tickets, NEW w \in Tickets, \A l \in Lines : w[l] = u[l] + v[l]
  PROVE  Value(w) = Value(u) + Value(v)
<1> DEFINE f == [l \in Lines |-> u[l] * Price[l]]
           g == [l \in Lines |-> v[l] * Price[l]]
           h == [l \in Lines |-> w[l] * Price[l]]
<1>1. ASSUME NEW l \in Lines PROVE f[l] \in Nat /\ g[l] \in Nat /\ h[l] = f[l] + g[l]
  <2>1. u[l] \in Nat /\ v[l] \in Nat /\ Price[l] \in Nat /\ w[l] = u[l] + v[l]
    BY LinesAssumption DEF Tickets
  <2> QED
    BY <2>1
<1>2. Value(u) = SumFunctionOnSet(f, Lines) /\ Value(v) = SumFunctionOnSet(g, Lines) /\ Value(w) = SumFunctionOnSet(h, Lines)
  BY DEF Value
<1> HIDE DEF f, g, h
<1> QED
  BY <1>1, <1>2, SumPlus, LinesAssumption

LEMMA ValueMonotone ==
  ASSUME NEW u \in Tickets, NEW w \in Tickets, \A l \in Lines : u[l] <= w[l]
  PROVE  Value(u) <= Value(w)
<1> DEFINE v == [l \in Lines |-> w[l] - u[l]]
<1>1. v \in Tickets /\ \A l \in Lines : w[l] = u[l] + v[l]
  BY DEF Tickets
<1> HIDE DEF v
<1>2. Value(w) = Value(u) + Value(v) /\ Value(u) \in Nat /\ Value(v) \in Nat
  BY <1>1, ValuePlus, ValueNat
<1> QED
  BY <1>2

LEMMA AmountsSubset ==
  ASSUME TypeOK, NEW T \in SUBSET DOMAIN made, NEW S \in SUBSET T
  PROVE  Amounts(S) <= Amounts(T) /\ Amounts(S) \in Nat /\ Amounts(T) \in Nat
<1> DEFINE f == [i \in DOMAIN made |-> made[i].amount]
<1>1. \A i \in T : f[i] \in Nat
  BY TypeFacts DEF Made
<1>2. IsFiniteSet(T)
  BY TypeFacts, FS_Subset
<1>3. Amounts(S) = SumFunctionOnSet(f, S) /\ Amounts(T) = SumFunctionOnSet(f, T)
  BY DEF Amounts
<1> HIDE DEF f
<1> QED
  BY <1>1, <1>2, <1>3, SumSubset, AmountsNat

LEMMA InitCovered == Init => CoveredHere
<1> SUFFICES ASSUME Init PROVE CoveredHere
  OBVIOUS
<1>1. Waiting = {} /\ refunded = None /\ refundedPence = 0 /\ paid = {}
  BY DEF Init, Waiting
<1>2. Amounts({}) = 0
  BY SumEmpty DEF Amounts
<1>3. Value(None) = 0
  <2> DEFINE f == [l \in Lines |-> None[l] * Price[l]]
  <2>1. \A l \in Lines : f[l] = 0
    BY LinesAssumption DEF None
  <2>2. Value(None) = SumFunctionOnSet(f, Lines)
    BY DEF Value
  <2> HIDE DEF f
  <2> QED
    BY <2>1, <2>2, SumZero, LinesAssumption
<1>4. Total \in Nat
  BY TotalNat
<1> QED
  BY <1>1, <1>2, <1>3, <1>4 DEF CoveredHere

\* While a refund waits that the list does not complete, the list says nothing of it succeeded.
LEMMA WaitingUnmade ==
  ASSUME TypeOK, RowsHere, NEW ls, DOMAIN ls \subseteq DOMAIN made,
         NEW j \in Waiting, \A i \in Completed(ls) : RowOf(i) # j
  PROVE  Succeeded(ls) \cap MadeFor(j) = {}
<1> SUFFICES ASSUME NEW i \in Succeeded(ls), i \in MadeFor(j) PROVE FALSE
  OBVIOUS
<1>1. i \in DOMAIN made /\ i # 0 /\ made[i].intent = j /\ j # 0
  BY ListFacts, TypeFacts DEF MadeFor, Waiting
<1>2. j \in DOMAIN rows /\ rows[j].status = "pending" /\ rows[j].by = "admin" /\ rows[j].refund = 0
  BY DEF Waiting, RowsHere
<1>3. RowOf(i) # 0 /\ RowOf(i) \in DOMAIN rows
  BY <1>1, <1>2, RowOfIs
<1>4. CASE rows[RowOf(i)].refund = i
  <2>1. rows[RowOf(i)].by \in {"admin", "stripe"}
    BY <1>3, TypeFacts DEF Row
  <2>2. made[i].intent = RowOf(i) \/ made[i].intent = 0
    BY <1>1, <1>3, <1>4, <2>1 DEF RowsHere
  <2> QED
    BY <1>1, <1>2, <1>4, <2>2
<1>5. CASE rows[RowOf(i)].refund # i
  <2>1. RowOf(i) = j
    BY <1>1, <1>3, <1>5, RowOfIs
  <2> QED
    BY <1>2, <1>3, <2>1 DEF Completed
<1> QED
  BY <1>4, <1>5

\* A list completes at most the refund that waits, by the one refund that Stripe made of it.
LEMMA CompletedOne ==
  ASSUME IInv, NEW ls, DOMAIN ls \subseteq DOMAIN made, NEW i \in Completed(ls)
  PROVE  /\ i \in DOMAIN made /\ RowOf(i) \in Waiting /\ MadeFor(RowOf(i)) = {i}
         /\ Completed(ls) = {i} /\ made[i].amount = rows[RowOf(i)].amount
<1>1. TypeOK /\ RowsHere /\ RowsApart /\ MadeHere /\ MadeApart
  BY DEF IInv
<1>2. ASSUME NEW k \in Completed(ls)
      PROVE  k \in DOMAIN made /\ RowOf(k) \in Waiting /\ made[k].intent = RowOf(k) /\ made[k].intent # 0
  <2>1. k \in DOMAIN made /\ k # 0 /\ RowOf(k) # 0 /\ rows[RowOf(k)].status = "pending"
    <3>1. RowOf(k) # 0 /\ rows[RowOf(k)].status = "pending"
      BY DEF Completed
    <3>2. k \in DOMAIN made
      BY <1>1, ListFacts
    <3> QED
      BY <1>1, <3>1, <3>2, TypeFacts
  <2>2. RowOf(k) \in Waiting
    BY <1>1, <2>1, RowOfIs DEF Waiting
  <2>3. rows[RowOf(k)].refund = 0
    BY <1>1, <2>2 DEF RowsHere, Waiting
  <2>4. made[k].intent = RowOf(k)
    BY <1>1, <2>1, <2>3, RowOfIs
  <2> QED
    BY <2>1, <2>2, <2>4
<1>3. ASSUME NEW k \in Completed(ls) PROVE k = i
  BY <1>1, <1>2 DEF RowsApart, MadeApart, Waiting
<1>4. MadeFor(RowOf(i)) = {i}
  BY <1>1, <1>2 DEF MadeApart, MadeFor
<1>5. made[i].amount = rows[RowOf(i)].amount
  BY <1>1, <1>2 DEF MadeHere
<1> QED
  BY <1>2, <1>3, <1>4, <1>5

LEMMA ApplyListCovered ==
  ASSUME IInv, CoveredHere, NEW p \in Procs, ApplyList(p)
  PROVE  CoveredHere'
<1> DEFINE ls == job[p].list
<1>1. /\ DOMAIN ls \subseteq DOMAIN made /\ Reconcile(ls, job[p].began)
      /\ Succeeded(ls) \subseteq paid /\ RowsKeep /\ made' = made /\ paid' = paid /\ TypeOK /\ RowsHere
  BY ApplyListIs
<1> HIDE DEF ls
<1>2. /\ paid \subseteq DOMAIN made /\ refunded \in Tickets /\ refundedPence \in Nat
      /\ Succeeded(ls) \subseteq DOMAIN made
  BY <1>1, ListFacts DEF TypeOK
<1>3. Total \in Nat /\ Value(Quantity) <= Total /\ Value(Quantity) \in Nat /\ Value(refunded) \in Nat
  BY <1>2, TotalNat, ValueNat, Constants
<1>4. refundedPence' = Money(ls) /\ Money(ls) \in Nat /\ Money(ls) <= Total /\ Money(ls) <= Amounts(Succeeded(ls))
  BY <1>1, MoneyIs DEF Reconcile
<1>5. \A T \in SUBSET DOMAIN made : Succeeded(ls) \subseteq T => Money(ls) <= Amounts(T) /\ Amounts(T) \in Nat
  <2> TAKE T \in SUBSET DOMAIN made
  <2> HAVE Succeeded(ls) \subseteq T
  <2>1. Amounts(Succeeded(ls)) <= Amounts(T) /\ Amounts(Succeeded(ls)) \in Nat /\ Amounts(T) \in Nat
    BY <1>1, AmountsSubset
  <2> QED
    BY <1>4, <2>1
<1>6. \/ refunded' = Quantity /\ Total <= Money(ls)
      \/ refunded' = ReleasedBy(ls)
  BY <1>1 DEF Reconcile, ReleaseAll
<1>7. CASE Completed(ls) = {}
  <2>1. ReleasedBy(ls) = refunded
    <3>1. ASSUME NEW l \in Lines PROVE ReleasedBy(ls)[l] = refunded[l]
      <4> DEFINE f == [i \in Completed(ls) |-> rows[RowOf(i)].lines[l]]
      <4>1. CompletedLines(ls, l) = SumFunctionOnSet(f, {})
        BY <1>7 DEF CompletedLines, SumFunction
      <4> HIDE DEF f
      <4>2. CompletedLines(ls, l) = 0
        BY <4>1, SumEmpty
      <4>3. ReleasedBy(ls)[l] \in Nat /\ refunded[l] \in Nat
        BY <1>1, <1>2, ReleasedByIs DEF Tickets
      <4> QED
        BY <1>1, <4>2, <4>3, ReleasedByIs
    <3>2. ReleasedBy(ls) \in Tickets
      BY <1>1, ReleasedByIs
    <3> QED
      BY <1>2, <3>1, <3>2 DEF Tickets
  <2>2. \A T \in SUBSET DOMAIN made : Succeeded(ls) \subseteq T /\ Value(refunded) <= Amounts(T) =>
           Value(refunded') <= Amounts(T)
    BY <1>3, <1>4, <1>5, <1>6, <2>1
  <2>3. ASSUME NEW j \in Waiting'
        PROVE  j \in Waiting /\ rows'[j].lines = rows[j].lines /\ rows'[j].amount = rows[j].amount
    <3>1. j \in DOMAIN rows
      BY <1>1, ReconcileRows, FreshRowIs DEF Waiting
    <3>2. rows[j].status = "pending"
      BY <1>1, <3>1, ReconcileChanges DEF Waiting
    <3> QED
      BY <1>1, <3>1, <3>2 DEF Waiting, RowsKeep
  <2>4. \A j \in Waiting : Succeeded(ls) \subseteq paid \ MadeFor(j)
    BY <1>1, <1>7, WaitingUnmade
  <2>5. \A T : Amounts(T)' = Amounts(T)
    BY <1>1 DEF Amounts
  <2>6. \A j : MadeFor(j)' = MadeFor(j)
    BY <1>1 DEF MadeFor
  <2>7. Value(refunded') <= Amounts(paid) /\ refundedPence' <= Amounts(paid) /\ refundedPence' <= Total
    BY <1>1, <1>2, <1>4, <1>5, <2>2 DEF CoveredHere
  <2>8. ASSUME NEW j \in Waiting'
        PROVE  /\ Value(refunded') <= Amounts(paid \ MadeFor(j))
               /\ refundedPence' <= Amounts(paid \ MadeFor(j))
               /\ \/ Value(rows'[j].lines) <= rows'[j].amount
                  \/ Total <= Amounts(paid \ MadeFor(j)) + rows'[j].amount
    BY <1>2, <1>4, <1>5, <2>2, <2>3, <2>4 DEF CoveredHere
  <2> QED
    BY <1>1, <2>5, <2>6, <2>7, <2>8 DEF CoveredHere
<1>8. CASE Completed(ls) # {}
  <2>1. PICK i \in Completed(ls) : TRUE
    BY <1>8
  <2> DEFINE j == RowOf(i)
             others == Amounts(paid \ {i})
             w == rows[j].lines
  <2>2. /\ i \in DOMAIN made /\ j \in Waiting /\ MadeFor(j) = {i}
        /\ Completed(ls) = {i} /\ made[i].amount = rows[j].amount
    BY <1>1, <2>1, CompletedOne
  <2>3. i \in paid
    BY <1>1, <2>1, ListFacts
  <2>4. w \in Tickets /\ rows[j].amount \in Nat /\ Value(w) \in Nat
    <3>1. w \in Tickets /\ rows[j].amount \in Nat
      BY <1>1, <2>2, TypeFacts DEF Row, Waiting
    <3> QED
      BY <3>1, ValueNat
  <2>5. Amounts(paid) = rows[j].amount + others /\ others \in Nat /\ Amounts(paid) \in Nat
    <3> DEFINE f == [k \in DOMAIN made |-> made[k].amount]
    <3>1. f[i] = rows[j].amount /\ \A k \in paid : f[k] \in Nat
      BY <1>1, <1>2, <2>2, TypeFacts DEF Made
    <3>2. Amounts(paid) = SumFunctionOnSet(f, paid) /\ others = SumFunctionOnSet(f, paid \ {i})
      BY DEF Amounts
    <3>3. IsFiniteSet(paid)
      BY <1>1, TypeFacts
    <3>4. others \in Nat /\ Amounts(paid) \in Nat
      BY <1>1, <1>2, AmountsNat
    <3> HIDE DEF f
    <3> QED
      BY <2>3, <3>1, <3>2, <3>3, <3>4, SumRemove
  <2>6. /\ Value(refunded) <= others
        /\ Value(w) <= rows[j].amount \/ Total <= others + rows[j].amount
    BY <2>2 DEF CoveredHere
  <2>7. Value(ReleasedBy(ls)) <= Value(refunded) + Value(w) /\ Value(ReleasedBy(ls)) <= Value(Quantity)
        /\ Value(ReleasedBy(ls)) \in Nat
    <3>1. ASSUME NEW l \in Lines PROVE CompletedLines(ls, l) = w[l]
      <4> DEFINE f == [k \in Completed(ls) |-> rows[RowOf(k)].lines[l]]
      <4>1. CompletedLines(ls, l) = SumFunctionOnSet(f, {i}) /\ f[i] = w[l]
        BY <2>2 DEF CompletedLines, SumFunction
      <4>2. w[l] \in Nat /\ IsFiniteSet({i}) /\ {i} \ {i} = {}
        BY <2>4, FS_Singleton DEF Tickets
      <4> HIDE DEF f, j, w
      <4>3. SumFunctionOnSet(f, {i}) = f[i] + SumFunctionOnSet(f, {})
        BY <4>1, <4>2, SumRemove
      <4>4. SumFunctionOnSet(f, {}) = 0
        BY SumEmpty
      <4> QED
        BY <4>1, <4>2, <4>3, <4>4
    <3> DEFINE both == [l \in Lines |-> refunded[l] + w[l]]
    <3>2. both \in Tickets /\ \A l \in Lines : both[l] = refunded[l] + w[l]
      BY <1>2, <2>4 DEF Tickets
    <3>3. /\ ReleasedBy(ls) \in Tickets
          /\ \A l \in Lines : ReleasedBy(ls)[l] <= Quantity[l] /\ ReleasedBy(ls)[l] <= refunded[l] + w[l]
      BY <1>1, <3>1, ReleasedByIs
    <3> HIDE DEF both, w
    <3>4. \A l \in Lines : ReleasedBy(ls)[l] <= both[l]
      BY <3>2, <3>3
    <3>5. Value(both) = Value(refunded) + Value(w)
      BY <1>2, <2>4, <3>2, ValuePlus
    <3>6. Value(ReleasedBy(ls)) <= Value(both) /\ Value(ReleasedBy(ls)) <= Value(Quantity)
      BY <3>2, <3>3, <3>4, ValueMonotone, Constants
    <3> QED
      BY <3>3, <3>5, <3>6, ValueNat
  <2>8. Value(refunded') <= Amounts(paid)
    <3>1. \/ Value(refunded') = Value(Quantity) /\ Total <= Money(ls) /\ Money(ls) <= Amounts(paid)
          \/ refunded' = ReleasedBy(ls)
      BY <1>1, <1>2, <1>5, <1>6
    <3> HIDE DEF j, w, others
    <3> QED
      BY <1>3, <1>4, <2>4, <2>5, <2>6, <2>7, <3>1
  <2>9. refundedPence' <= Amounts(paid) /\ refundedPence' <= Total
    BY <1>1, <1>2, <1>4, <1>5
  <2>10. Waiting' = {}
    <3> SUFFICES ASSUME NEW k \in Waiting' PROVE FALSE
      OBVIOUS
    <3>1. k \in DOMAIN rows
      BY <1>1, ReconcileRows, FreshRowIs DEF Waiting
    <3>2. rows[k].status = "pending" /\ rows'[k].status = "pending"
      BY <1>1, <3>1, ReconcileChanges DEF Waiting
    <3>3. k = j
      BY <2>2, <3>1, <3>2 DEF Waiting, IInv, RowsApart
    <3> QED
      BY <1>1, <2>1, <3>1, <3>2, <3>3, ReconcileChanges
  <2>11. Amounts(paid)' = Amounts(paid)
    BY <1>1 DEF Amounts
  <2> QED
    BY <2>8, <2>9, <2>10, <2>11 DEF CoveredHere
<1> QED
  BY <1>7, <1>8

StripeFacts ==
  /\ IsFiniteSet(DOMAIN made) /\ paid \subseteq DOMAIN made
  /\ \A i \in DOMAIN made : made[i].amount \in Nat
  /\ Amounts(paid) \in Nat /\ \A j : Amounts(paid \ MadeFor(j)) \in Nat

LEMMA StripeIs == TypeOK => StripeFacts
<1> SUFFICES ASSUME TypeOK PROVE StripeFacts
  OBVIOUS
<1>1. IsFiniteSet(DOMAIN made) /\ \A i \in DOMAIN made : made[i].amount \in Nat
  BY TypeFacts DEF Made
<1>2. paid \subseteq DOMAIN made
  BY DEF TypeOK
<1>3. \A S \in SUBSET DOMAIN made : Amounts(S) \in Nat
  BY AmountsNat
<1> QED
  BY <1>1, <1>2, <1>3 DEF StripeFacts

\* What Stripe does only adds to what it has paid.
LEMMA AmountsGrow ==
  ASSUME TypeOK, TypeOK', PaidGrow
  PROVE  /\ Amounts(paid) <= Amounts(paid)'
         /\ \A j : Amounts(paid \ MadeFor(j)) <= Amounts(paid \ MadeFor(j))'
<1> DEFINE f == [i \in DOMAIN made |-> made[i].amount]
           g == [i \in DOMAIN made' |-> made'[i].amount]
           M == DOMAIN made
           N == DOMAIN made'
<1>1. M \subseteq N /\ paid \subseteq paid' /\ paid \subseteq M /\ paid' \subseteq N /\ IsFiniteSet(M) /\ IsFiniteSet(N)
  <2>1. StripeFacts /\ StripeFacts'
    BY StripeIs, PTL
  <2> QED
    BY <2>1 DEF StripeFacts, PaidGrow
<1>2. \A i \in M : f[i] = g[i]
  BY <1>1 DEF PaidGrow
<1>3. \A i \in N : g[i] \in Nat
  <2>1. StripeFacts'
    BY StripeIs, PTL
  <2> QED
    BY <2>1 DEF StripeFacts
<1>4. /\ \A S : Amounts(S) = SumFunctionOnSet(f, S)
      /\ Amounts(paid)' = SumFunctionOnSet(g, paid')
      /\ \A j : Amounts(paid \ MadeFor(j))' = SumFunctionOnSet(g, paid' \ MadeFor(j)')
  BY DEF Amounts
<1>5. \A j : MadeFor(j) = MadeFor(j)' \cap M
  BY <1>1 DEF MadeFor, PaidGrow
<1> HIDE DEF f, g, M, N
<1>6. \A T \in SUBSET N : \A S \in SUBSET T : S \subseteq M => SumFunctionOnSet(f, S) <= SumFunctionOnSet(g, T)
  <2> TAKE T \in SUBSET N
  <2> TAKE S \in SUBSET T
  <2> HAVE S \subseteq M
  <2>1. SumFunctionOnSet(f, S) = SumFunctionOnSet(g, S)
    BY <1>1, <1>2, SumAgree, FS_Subset
  <2>2. IsFiniteSet(T) /\ \A i \in T : g[i] \in Nat
    BY <1>1, <1>3, FS_Subset
  <2> QED
    BY <2>1, <2>2, SumSubset
<1> QED
  BY <1>1, <1>4, <1>5, <1>6

LEMMA OtherCovered ==
  ASSUME IInv, CoveredHere, [Next]_vars, \A p \in Procs : ~ApplyList(p)
  PROVE  CoveredHere'
<1>1. TypeOK /\ TypeOK' /\ refundedPence' = refundedPence /\ refunded \in Tickets /\ refundedPence \in Nat
      /\ paid \subseteq DOMAIN made
  BY NextIInv, OtherSteps DEF IInv, TypeOK
<1>2. /\ \A S \in SUBSET DOMAIN made : Amounts(S) \in Nat
      /\ Total \in Nat /\ Value(refunded) \in Nat
  BY <1>1, AmountsNat, TotalNat, ValueNat
<1>3. CASE PaidGrow /\ UNCHANGED bookingVars
  <2>1. /\ Amounts(paid) <= Amounts(paid)'
        /\ \A j : Amounts(paid \ MadeFor(j)) <= Amounts(paid \ MadeFor(j))'
    BY <1>1, <1>3, AmountsGrow
  <2>2. Amounts(paid)' \in Nat /\ \A j : Amounts(paid \ MadeFor(j))' \in Nat
    <3>1. StripeFacts'
      BY <1>1, StripeIs, PTL
    <3> QED
      BY <3>1 DEF StripeFacts
  <2>3. Amounts(paid) \in Nat /\ \A j : Amounts(paid \ MadeFor(j)) \in Nat
    BY <1>1, <1>2
  <2>4. rows' = rows /\ refunded' = refunded /\ Waiting' = Waiting
    BY <1>3 DEF bookingVars, Waiting
  <2>5. \A j \in Waiting : rows[j].amount \in Nat
    BY <1>1, TypeFacts DEF Waiting, Row
  <2>6. Value(refunded') <= Amounts(paid)' /\ refundedPence' <= Amounts(paid)' /\ refundedPence' <= Total
    BY <1>1, <1>2, <2>1, <2>2, <2>3, <2>4 DEF CoveredHere
  <2>7. ASSUME NEW j \in Waiting'
        PROVE  /\ Value(refunded') <= Amounts(paid \ MadeFor(j))'
               /\ refundedPence' <= Amounts(paid \ MadeFor(j))'
               /\ \/ Value(rows'[j].lines) <= rows'[j].amount
                  \/ Total <= Amounts(paid \ MadeFor(j))' + rows'[j].amount
    <3>1. /\ j \in Waiting /\ Amounts(paid \ MadeFor(j)) <= Amounts(paid \ MadeFor(j))'
          /\ Amounts(paid \ MadeFor(j)) \in Nat /\ Amounts(paid \ MadeFor(j))' \in Nat
          /\ rows[j].amount \in Nat
      BY <2>1, <2>2, <2>3, <2>4, <2>5
    <3>2. /\ Value(refunded) <= Amounts(paid \ MadeFor(j)) /\ refundedPence <= Amounts(paid \ MadeFor(j))
          /\ \/ Value(rows[j].lines) <= rows[j].amount
             \/ Total <= Amounts(paid \ MadeFor(j)) + rows[j].amount
      BY <3>1 DEF CoveredHere
    <3> QED
      BY <1>1, <1>2, <2>4, <3>1, <3>2
  <2> QED
    BY <2>6, <2>7 DEF CoveredHere
<1>4. CASE UNCHANGED <<made, paid>>
  <2>1. Amounts(paid)' = Amounts(paid) /\ \A j : Amounts(paid \ MadeFor(j))' = Amounts(paid \ MadeFor(j))
    BY <1>4 DEF Amounts, MadeFor
  <2>2. /\ RowsKeep
        /\ \A j \in DOMAIN rows :
             rows'[j].status = rows[j].status \/ (rows[j].status = "pending" /\ rows'[j].status = "failed")
    BY OtherRows
  <2>3. CASE \E w \in Wantable : ReleaseTickets(w)
    <3>1. PICK w \in Wantable : ReleaseTickets(w)
      BY <2>3
    <3>2. w \in Tickets /\ rows' = rows /\ Waiting' = Waiting
      BY <3>1, LinesAssumption DEF Wantable, Tickets, ReleaseTickets, Waiting
    <3>3. refunded' \in Tickets /\ \A l \in Lines : refunded'[l] = refunded[l] + w[l]
      BY <1>1, <3>1 DEF ReleaseTickets, TypeOK
    <3>4. Value(refunded') = Value(refunded) + Value(w) /\ Value(w) \in Nat
      BY <1>1, <3>2, <3>3, ValuePlus, ValueNat
    <3>5. Value(refunded') <= refundedPence \/ Value(refunded') = Value(refunded)
      BY <1>1, <1>2, <3>1, <3>4 DEF ReleaseTickets, Covered
    <3>6. Value(refunded') <= Amounts(paid)
      BY <1>1, <1>2, <3>4, <3>5 DEF CoveredHere
    <3>7. \A j \in Waiting : Value(refunded') <= Amounts(paid \ MadeFor(j))
      BY <1>1, <1>2, <3>4, <3>5 DEF CoveredHere
    <3> QED
      BY <1>1, <2>1, <3>2, <3>6, <3>7 DEF CoveredHere
  <2>4. CASE refunded' = refunded
    <3>1. ASSUME NEW j \in Waiting'
          PROVE  /\ Value(refunded') <= Amounts(paid \ MadeFor(j))
                 /\ refundedPence' <= Amounts(paid \ MadeFor(j))
                 /\ \/ Value(rows'[j].lines) <= rows'[j].amount
                    \/ Total <= Amounts(paid \ MadeFor(j)) + rows'[j].amount
      <4>1. CASE j \in DOMAIN rows
        <5>1. j \in Waiting /\ rows'[j].lines = rows[j].lines /\ rows'[j].amount = rows[j].amount
          BY <2>2, <4>1 DEF Waiting, RowsKeep
        <5> QED
          BY <1>1, <2>4, <5>1 DEF CoveredHere
      <4>2. CASE j \notin DOMAIN rows
        <5>1. PICK new \in Row : rows' = Append(rows, new) /\ PlanOk(new.lines) /\ new.amount = PlanAmount(new.lines)
          <6>1. DOMAIN rows' # DOMAIN rows /\ rows' # rows
            BY <4>2 DEF Waiting
          <6>2. \A a \in Admins : FailRefund(a) => DOMAIN rows' = DOMAIN rows
            BY <1>1, FailRefundIs, TypeFacts
          <6> QED
            BY <6>1, <6>2, OtherSteps, BeginRefundIs
        <5>2. rows'[j] = new
          <6>1. j \in DOMAIN rows' /\ rows \in Seq(Row) /\ DOMAIN rows = 1..Len(rows) /\ Len(rows) \in Nat
            BY <1>1, TypeFacts DEF Waiting
          <6> QED
            BY <4>2, <5>1, <6>1
        <5>3. MadeFor(j) = {}
          <6>1. j # 0
            BY <4>2, <5>1, <1>1, TypeFacts DEF Waiting
          <6> QED
            BY <4>2, <6>1 DEF MadeFor, IInv, MadeHere
        <5>4. paid \ MadeFor(j) = paid
          BY <5>3
        <5> DEFINE w    == new.lines
                   rest == Total - refundedPence
        <5>5. w \in Tickets /\ Value(w) \in Nat /\ rest \in Nat /\ new.amount \in {rest, Min({Value(w), rest})}
          <6>1. w \in Tickets
            BY DEF Row
          <6>2. rest \in Nat
            BY <1>1, <1>2, <5>1 DEF PlanOk
          <6>3. new.amount \in {rest, Min({Value(w), rest})}
            BY <5>1 DEF PlanAmount
          <6> QED
            BY <6>1, <6>2, <6>3, ValueNat
        <5>6. new.amount = rest \/ new.amount = Value(w)
          <6> HIDE DEF w, rest
          <6> QED
            BY <5>5, MinOfTwo
        <5>7. Value(refunded) <= Amounts(paid) /\ refundedPence <= Amounts(paid) /\ Amounts(paid) \in Nat
          BY <1>1, <1>2 DEF CoveredHere
        <5>8. Value(w) <= new.amount \/ Total <= Amounts(paid) + new.amount
          BY <1>1, <1>2, <5>5, <5>6, <5>7
        <5> QED
          BY <1>1, <2>4, <5>2, <5>4, <5>7, <5>8
      <4> QED
        BY <4>1, <4>2
    <3> QED
      BY <1>1, <2>1, <2>4, <3>1 DEF CoveredHere
  <2> QED
    BY <2>3, <2>4, OtherSteps
<1> QED
  BY <1>3, <1>4, OtherSteps

\* The tickets released sold for no more than has been paid back.
THEOREM ReleasesAreCovered == Spec => []ReleasesCovered
<1>1. Spec => [](IInv /\ CoveredHere)
  <2>1. Init => IInv /\ CoveredHere
    BY InitIInv, InitCovered
  <2>2. IInv /\ CoveredHere /\ [Next]_vars => (IInv /\ CoveredHere)'
    BY NextIInv, ApplyListCovered, OtherCovered
  <2> QED
    BY <2>1, <2>2, PTL DEF Spec
<1>2. CoveredHere => ReleasesCovered
  BY DEF CoveredHere, ReleasesCovered
<1> QED
  BY <1>1, <1>2, PTL

=============================================================================

---------------------------- MODULE BillingProofs ----------------------------
(***************************************************************************)
(* Theorems about Billing, and about what Reports tells of it, for every   *)
(* value of the constants.                                                 *)
(***************************************************************************)
EXTENDS Reports, Facts

------------------------------------------------------------------------------
(* Facts about the operations on the ledger. *)

\* Voiding rows changes nothing but their is_voided flag.
LEMMA VoidRowsFacts ==
  ASSUME NEW es \in Seq(EntryRow), NEW K
  PROVE  /\ VoidRows(es, K) \in Seq(EntryRow)
         /\ Len(VoidRows(es, K)) = Len(es)
         /\ DOMAIN VoidRows(es, K) = DOMAIN es
         /\ \A k \in DOMAIN es :
              VoidRows(es, K)[k] = IF k \in K THEN [es[k] EXCEPT !.is_voided = TRUE] ELSE es[k]
<1>. DEFINE v == VoidRows(es, K)
<1>1. Len(es) \in Nat /\ DOMAIN es = 1..Len(es)
  BY LenProperties
<1>2. \A k \in DOMAIN es : es[k] \in EntryRow
  BY <1>1, ElementOfSeq
<1>3. v = [k \in 1..Len(es) |->
             IF k \in K THEN [es[k] EXCEPT !.is_voided = TRUE] ELSE es[k]]
  BY <1>1 DEF VoidRows
<1>4. \A k \in 1..Len(es) : v[k] = IF k \in K THEN [es[k] EXCEPT !.is_voided = TRUE] ELSE es[k]
  BY <1>3
<1>5. v \in [1..Len(es) -> EntryRow]
  BY <1>1, <1>2, <1>3 DEF EntryRow
<1>6. v \in Seq(EntryRow) /\ DOMAIN v = 1..Len(es)
  BY <1>1, <1>5, SeqDef
<1>7. Len(v) = Len(es)
  BY <1>1, <1>6, LenProperties
<1>. QED
  BY <1>1, <1>4, <1>6, <1>7

\* The column of signed amounts, and the column of balances.
Amounts(es)  == [k \in DOMAIN es |-> Signed(es[k])]
Balances(es) == [l \in Learners |-> ComputeBalance(es, l)]

\* Every sum over rows of the ledger is a number.
LEMMA LedgerSums ==
  ASSUME NEW es \in Seq(EntryRow)
  PROVE  /\ IsFiniteSet(DOMAIN es)
         /\ \A k \in DOMAIN es : es[k] \in EntryRow /\ Amounts(es)[k] \in Int
         /\ \A K \in SUBSET DOMAIN es :
              /\ IsFiniteSet(K)
              /\ TotalOf(es, K) = SumOf(Tally(Amounts(es), K))
              /\ TotalOf(es, K) \in Int
<1>1. IsFiniteSet(DOMAIN es)
  BY LenProperties, FS_Interval
<1>2. ASSUME NEW k \in DOMAIN es  PROVE es[k] \in EntryRow /\ Amounts(es)[k] \in Int
  <2>1. es[k] \in EntryRow
    BY RowInSet
  <2>2. es[k].amount \in Fees \cup Receipts
    BY <2>1 DEF EntryRow
  <2>3. \A x \in Fees \cup Receipts : x \in Nat
    BY MoneyAssumption
  <2>4. es[k].amount \in Int
    BY <2>2, <2>3
  <2>. QED  BY <2>1, <2>4 DEF Amounts, Signed
<1>3. ASSUME NEW K \in SUBSET DOMAIN es
      PROVE  /\ IsFiniteSet(K)
             /\ TotalOf(es, K) = SumOf(Tally(Amounts(es), K))
             /\ TotalOf(es, K) \in Int
  <2>1. IsFiniteSet(K)
    BY <1>1, FS_Subset
  <2>2. {<<k, Signed(es[k])>> : k \in K} = Tally(Amounts(es), K)
    BY DEF Amounts, Tally
  <2>3. TotalOf(es, K) = SumOf(Tally(Amounts(es), K))
    BY <2>2 DEF TotalOf
  <2>4. \A k \in K : Amounts(es)[k] \in Int
    BY <1>2
  <2>. QED  BY <2>1, <2>3, <2>4, TallyIsTally
<1>. QED  BY <1>1, <1>2, <1>3

\* So is every balance, and what a set of learners owes together.
LEMMA BalanceSums ==
  ASSUME NEW es \in Seq(EntryRow)
  PROVE  /\ \A l \in Learners : ComputeBalance(es, l) \in Int /\ Balances(es)[l] \in Int
         /\ \A S \in SUBSET Learners :
              /\ IsFiniteSet(S)
              /\ OwedBy(es, S) = SumOf(Tally(Balances(es), S))
              /\ OwedBy(es, S) \in Int
         /\ \A l \in Learners : OwedBy(es, {l}) = ComputeBalance(es, l)
<1>1. ASSUME NEW l \in Learners  PROVE ComputeBalance(es, l) \in Int /\ Balances(es)[l] \in Int
  BY LedgerSums DEF ComputeBalance, OpenOf, Unvoided, Balances
<1>2. ASSUME NEW S \in SUBSET Learners
      PROVE  /\ IsFiniteSet(S)
             /\ OwedBy(es, S) = SumOf(Tally(Balances(es), S))
             /\ OwedBy(es, S) \in Int
  <2>1. IsFiniteSet(S)
    BY FiniteAssumption, FS_Subset
  <2>2. {<<l, ComputeBalance(es, l)>> : l \in S} = Tally(Balances(es), S)
    BY DEF Balances, Tally
  <2>3. OwedBy(es, S) = SumOf(Tally(Balances(es), S))
    BY <2>2 DEF OwedBy
  <2>4. \A l \in S : Balances(es)[l] \in Int
    BY <1>1
  <2>. QED  BY <2>1, <2>3, <2>4, TallyIsTally
<1>3. ASSUME NEW l \in Learners  PROVE OwedBy(es, {l}) = ComputeBalance(es, l)
  <2>1. SumOf(Tally(Balances(es), {l})) = Balances(es)[l]
    BY <1>1, SumOfOne
  <2>2. {l} \in SUBSET Learners
    OBVIOUS
  <2>. QED  BY <1>2, <2>1, <2>2 DEF Balances
<1>. QED  BY <1>1, <1>2, <1>3

\* An order in which Issue may post the debits of an invoice: each covered
\* learner exactly once.
IsOrder(order, lines) ==
  /\ order \in Seq(DOMAIN lines)
  /\ \A l \in DOMAIN lines : \E k \in DOMAIN order : order[k] = l
  /\ \A j, k \in DOMAIN order : order[j] = order[k] => j = k

\* The rows Issue appends.
Debits(inv, order) ==
  [k \in DOMAIN order |-> Debit(order[k], Len(invoices) + 1, inv.lines[order[k]], today)]

\* The debits of an invoice are ledger rows, one for each line.
LEMMA DebitsAreRows ==
  ASSUME TypeOK, NEW inv \in InvoiceRow, NEW order, IsOrder(order, inv.lines)
  PROVE  /\ Debits(inv, order) \in Seq(EntryRow)
         /\ Len(Debits(inv, order)) = Len(order)
<1>1. Len(order) \in Nat /\ DOMAIN order = 1..Len(order)
  BY LenProperties DEF IsOrder
<1>2. Len(invoices) + 1 \in Nat /\ today \in Nat
  BY LenProperties, YearAssumption DEF TypeOK
<1>3. PICK S \in SUBSET Learners : inv.lines \in [S -> Fees]
  BY DEF InvoiceRow, Lines
<1>4. \A k \in 1..Len(order) : order[k] \in S
  BY <1>3, ElementOfSeq DEF IsOrder
<1>5. Debits(inv, order) \in [1..Len(order) -> EntryRow]
  BY <1>1, <1>2, <1>3, <1>4 DEF Debits, Debit, Posting, EntryRow
<1>6. Debits(inv, order) \in Seq(EntryRow)
  BY <1>1, <1>5, SeqDef
<1>. QED
  BY <1>1, <1>5, <1>6, LenProperties

------------------------------------------------------------------------------
(* What the steps do to the tables. *)

\* The year of a day is a natural number.
LEMMA YearIsNat == \A day \in Nat : Year(day) \in Nat
<1>. SUFFICES ASSUME NEW day \in Nat  PROVE day \div DaysPerYear \in Nat
  BY DEF Year
<1>1. DaysPerYear \in Nat /\ DaysPerYear > 0
  BY YearAssumption
<1>. QED  BY <1>1

\* Issue adds one invoice and one row per covered learner, and touches no row
\* that was there.
NumberIssued(inv) ==
  /\ invoice_counter' \in [year : Nat, seq : Nat]
  /\ invoices' \in Seq(InvoiceRow)
  /\ Len(invoices) + 1 \notin DOMAIN invoices
  /\ DOMAIN invoices' = DOMAIN invoices \cup {Len(invoices) + 1}
  /\ \A i \in DOMAIN invoices : invoices'[i] = invoices[i]
  /\ invoices'[Len(invoices) + 1] = [inv EXCEPT !.number = invoice_counter']

RowsIssued(inv, order) ==
  /\ entries' \in Seq(EntryRow)
  /\ Len(entries) <= Len(entries')
  /\ \A k \in DOMAIN entries : k \in DOMAIN entries' /\ entries'[k] = entries[k]
  /\ \A m \in DOMAIN order :
       /\ Len(entries) + m \in DOMAIN entries'
       /\ entries'[Len(entries) + m]
            = Debit(order[m], Len(invoices) + 1, inv.lines[order[m]], today)
  /\ \A k \in DOMAIN entries' : k \notin DOMAIN entries =>
       \E m \in DOMAIN order : k = Len(entries) + m

\* Issue gives out one number and appends one debit for each line.
LEMMA IssueFacts ==
  ASSUME TypeOK, NEW inv \in InvoiceRow, NEW prev, NEW paid, NEW order,
         IsOrder(order, inv.lines), Issue(inv, prev, paid, order)
  PROVE  NumberIssued(inv) /\ RowsIssued(inv, order)
<1>. DEFINE new == [inv EXCEPT !.number = invoice_counter']
<1>1. Year(today) \in Nat
  BY YearIsNat, YearAssumption DEF TypeOK
<1>2. invoice_counter' \in [year : Nat, seq : Nat]
  BY <1>1 DEF Issue, NextInvoiceNumber, TypeOK
<1>3. new \in InvoiceRow
  BY <1>2 DEF InvoiceRow
<1>4. invoices' = Append(invoices, new)
  BY DEF Issue
<1>5. Len(invoices) \in Nat /\ DOMAIN invoices = 1..Len(invoices)
  BY LenProperties DEF TypeOK
<1>6. /\ invoices' \in Seq(InvoiceRow)
      /\ Len(invoices') = Len(invoices) + 1
      /\ \A i \in DOMAIN invoices : invoices'[i] = invoices[i]
      /\ invoices'[Len(invoices) + 1] = new
  <2>. HIDE DEF new
  <2>1. invoices \in Seq(InvoiceRow)
    BY DEF TypeOK
  <2>. QED  BY <1>3, <1>4, <1>5, <2>1
<1>7. DOMAIN invoices' = DOMAIN invoices \cup {Len(invoices) + 1}
  <2>1. DOMAIN invoices' = 1..(Len(invoices) + 1)
    BY <1>6, LenProperties
  <2>. QED  BY <2>1, <1>5
<1>8. Debits(inv, order) \in Seq(EntryRow) /\ Len(Debits(inv, order)) = Len(order)
  BY DebitsAreRows
<1>9. entries' = entries \o Debits(inv, order)
  BY DEF Issue, Debits
<1>10. Len(order) \in Nat /\ DOMAIN order = 1..Len(order)
  BY LenProperties DEF IsOrder
<1>11. Len(entries) \in Nat /\ DOMAIN entries = 1..Len(entries)
  BY LenProperties DEF TypeOK
<1>12. /\ entries' \in Seq(EntryRow)
       /\ Len(entries') = Len(entries) + Len(order)
       /\ \A k \in 1..(Len(entries) + Len(order)) :
            entries'[k] = IF k <= Len(entries) THEN entries[k]
                          ELSE Debits(inv, order)[k - Len(entries)]
  <2>. DEFINE new2 == Debits(inv, order)
  <2>1. entries \in Seq(EntryRow)
    BY DEF TypeOK
  <2>2. /\ entries \o new2 \in Seq(EntryRow)
        /\ Len(entries \o new2) = Len(entries) + Len(new2)
        /\ \A k \in 1..(Len(entries) + Len(new2)) :
             (entries \o new2)[k] = IF k <= Len(entries) THEN entries[k] ELSE new2[k - Len(entries)]
    <3>. HIDE DEF new2
    <3>. QED  BY <1>8, <2>1, ConcatProperties DEF new2
  <2>. QED  BY <1>8, <1>9, <2>2
<1>13. DOMAIN entries' = 1..(Len(entries) + Len(order))
  BY <1>12, LenProperties
<1>14. \A k \in DOMAIN entries : k \in DOMAIN entries' /\ entries'[k] = entries[k]
  BY <1>10, <1>11, <1>12, <1>13
<1>15. ASSUME NEW k \in DOMAIN order
       PROVE  /\ Len(entries) + k \in DOMAIN entries'
              /\ entries'[Len(entries) + k]
                   = Debit(order[k], Len(invoices) + 1, inv.lines[order[k]], today)
  <2>1. Len(entries) + k \in 1..(Len(entries) + Len(order)) /\ ~(Len(entries) + k <= Len(entries))
    BY <1>10, <1>11
  <2>2. entries'[Len(entries) + k] = Debits(inv, order)[Len(entries) + k - Len(entries)]
    BY <2>1, <1>12
  <2>3. Len(entries) + k - Len(entries) = k
    BY <1>10, <1>11
  <2>. QED  BY <2>1, <2>2, <2>3, <1>13 DEF Debits
<1>16. ASSUME NEW k \in DOMAIN entries', k \notin DOMAIN entries
       PROVE  \E m \in DOMAIN order : k = Len(entries) + m
  <2>1. k - Len(entries) \in DOMAIN order /\ k = Len(entries) + (k - Len(entries))
    BY <1>10, <1>11, <1>13, <1>16
  <2>. QED  BY <2>1
<1>17. NumberIssued(inv)
  BY <1>2, <1>5, <1>6, <1>7 DEF NumberIssued
<1>18. RowsIssued(inv, order)
  BY <1>10, <1>11, <1>12, <1>14, <1>15, <1>16 DEF RowsIssued
<1>. QED
  BY <1>17, <1>18

\* RecordPayment adds one payment and one credit.
LEMMA RecordPaymentFacts ==
  ASSUME TypeOK, NEW l \in Learners, NEW amount \in Receipts, NEW ref \in Refs \cup {NoRef},
         NEW day \in PaymentDates, RecordPayment(l, amount, ref, day)
  PROVE  LET row == [learner |-> l, amount |-> amount, ref |-> ref, day |-> day,
                     is_active |-> TRUE]
         IN /\ payments' \in Seq(PaymentRow)
            /\ DOMAIN payments' = DOMAIN payments \cup {Len(payments) + 1}
            /\ Len(payments) + 1 \notin DOMAIN payments
            /\ \A p \in DOMAIN payments : payments'[p] = payments[p]
            /\ payments'[Len(payments) + 1] = row
            /\ entries' \in Seq(EntryRow)
            /\ Len(entries') = Len(entries) + 1
            /\ DOMAIN entries' = DOMAIN entries \cup {Len(entries) + 1}
            /\ Len(entries) + 1 \notin DOMAIN entries
            /\ \A k \in DOMAIN entries : entries'[k] = entries[k]
            /\ entries'[Len(entries) + 1] = Credit(l, Len(payments) + 1, amount, day)
<1>. DEFINE row == [learner |-> l, amount |-> amount, ref |-> ref, day |-> day,
                    is_active |-> TRUE]
            credit == Credit(l, Len(payments) + 1, amount, day)
<1>1. Len(payments) \in Nat /\ DOMAIN payments = 1..Len(payments)
  BY LenProperties DEF TypeOK
<1>2. Len(entries) \in Nat /\ DOMAIN entries = 1..Len(entries)
  BY LenProperties DEF TypeOK
<1>3. row \in PaymentRow
  BY DEF PaymentRow
<1>4. credit \in EntryRow
  BY <1>1, YearAssumption DEF Credit, Posting, EntryRow
<1>5. payments' = Append(payments, row) /\ entries' = Append(entries, credit)
  BY DEF RecordPayment
<1>6. payments \in Seq(PaymentRow) /\ entries \in Seq(EntryRow)
  BY DEF TypeOK
<1>7. /\ payments' \in Seq(PaymentRow)
      /\ DOMAIN payments' = DOMAIN payments \cup {Len(payments) + 1}
      /\ Len(payments) + 1 \notin DOMAIN payments
      /\ \A p \in DOMAIN payments : payments'[p] = payments[p]
      /\ payments'[Len(payments) + 1] = row
  <2>. HIDE DEF row
  <2>. QED  BY <1>1, <1>3, <1>5, <1>6
<1>8. /\ entries' \in Seq(EntryRow)
      /\ Len(entries') = Len(entries) + 1
      /\ DOMAIN entries' = DOMAIN entries \cup {Len(entries) + 1}
      /\ Len(entries) + 1 \notin DOMAIN entries
      /\ \A k \in DOMAIN entries : entries'[k] = entries[k]
      /\ entries'[Len(entries) + 1] = credit
  <2>. HIDE DEF credit
  <2>. QED  BY <1>2, <1>4, <1>5, <1>6
<1>. QED
  BY <1>7, <1>8

------------------------------------------------------------------------------
(* Every step is one of a handful of shapes. *)

\* The conditions under which a path issues the invoice inv.
MayIssue(inv) ==
  /\ inv \in InvoiceRow
  /\ inv.status = "Generated" /\ inv.voided = FALSE
  /\ ~IsFamily(inv) => Covered(inv) = {inv.learner}
  /\ IsFamily(inv) => \A l \in Covered(inv) : ~AlreadyBilled(l, inv.period)
  /\ inv.month_end =>
       /\ ~IsFamily(inv)
       /\ \A i \in OwnLive(inv.learner) : invoices[i].period # inv.period

\* The two figures a path computes: what the covered learners owe before, and
\* for a single learner, if not zero, the credits that follow some day.
Priced(inv, prev, paid) ==
  /\ prev = OwedBy(entries, Covered(inv))
  /\ \/ paid = 0
     \/ \E l \in Learners : \E day :
          Covered(inv) = {l} /\ paid = CreditsAfter(entries, l, day)

IssueStep == \E inv, prev, paid, order :
  /\ MayIssue(inv) /\ Priced(inv, prev, paid) /\ IsOrder(order, inv.lines)
  /\ Issue(inv, prev, paid, order)

PaymentStep ==
  \E l \in Learners, amount \in Receipts, ref \in Refs \cup {NoRef}, day \in PaymentDates :
    RecordPayment(l, amount, ref, day)

\* The money columns of the new invoice.
FiguresIssued(inv) ==
  \E prev, paid :
    /\ Priced(inv, prev, paid)
    /\ figures' = Append(figures,
         [previous_balance |-> prev, current_charges |-> SumLines(inv.lines),
          payments_made |-> paid, outstanding_balance |-> prev + SumLines(inv.lines) - paid])

\* An issue of inv, by what it does to the tables.
Issued(inv, order) ==
  /\ MayIssue(inv) /\ IsOrder(order, inv.lines)
  /\ NumberIssued(inv) /\ RowsIssued(inv, order) /\ FiguresIssued(inv)
  /\ invoice_counter' = NextInvoiceNumber(invoice_counter, Year(today))
  /\ balance' = SyncBalanceCache(balance, entries', Covered(inv))
  /\ UNCHANGED <<today, is_active, payments, deleted>>

\* An issued invoice is the last one, with its number and its debits.
LEMMA IssueShape ==
  ASSUME TypeOK, IssueStep
  PROVE  \E inv, order : Issued(inv, order)
<1>1. PICK inv, prev, paid, order :
        /\ MayIssue(inv) /\ Priced(inv, prev, paid) /\ IsOrder(order, inv.lines)
        /\ Issue(inv, prev, paid, order)
  BY DEF IssueStep
<1>2. inv \in InvoiceRow
  BY <1>1 DEF MayIssue
<1>3. NumberIssued(inv) /\ RowsIssued(inv, order)
  BY <1>1, <1>2, IssueFacts
<1>4. /\ invoice_counter' = NextInvoiceNumber(invoice_counter, Year(today))
      /\ balance' = SyncBalanceCache(balance, entries', Covered(inv))
      /\ UNCHANGED <<today, is_active, payments, deleted>>
  BY <1>1 DEF Issue
<1>5. FiguresIssued(inv)
  BY <1>1 DEF Issue, FiguresIssued
<1>6. Issued(inv, order)
  BY <1>1, <1>3, <1>4, <1>5 DEF Issued
<1>. QED  BY <1>6

\* A draft is an invoice row.
LEMMA DraftIsRow ==
  ASSUME TypeOK, NEW l \in Learners \cup {NoLearner}, NEW lines \in Lines,
         NEW period \in Periods, NEW month_end \in BOOLEAN
  PROVE  Draft(l, lines, period, month_end) \in InvoiceRow
BY YearAssumption DEF TypeOK, Draft, InvoiceRow

\* An invoice of one learner, by hand or by a run, is such a step.
LEMMA LearnerIssue ==
  ASSUME TypeOK, NEW l \in Learners, NEW period \in Periods, NEW fee \in Fees,
         NEW month_end \in BOOLEAN, NEW paid,
         paid = 0 \/ \E day : paid = CreditsAfter(entries, l, day),
         month_end => \A i \in OwnLive(l) : invoices[i].period # period,
         Issue(Draft(l, [m \in {l} |-> fee], period, month_end), ComputeBalance(entries, l),
               paid, <<l>>)
  PROVE  IssueStep
<1>. DEFINE prev == ComputeBalance(entries, l)
            lines == [m \in {l} |-> fee]
            inv   == Draft(l, lines, period, month_end)
<1>1. lines \in [{l} -> Fees] /\ {l} \in SUBSET Learners /\ DOMAIN lines = {l}
  OBVIOUS
<1>2. lines \in Lines
  BY <1>1 DEF Lines
<1>3. inv \in InvoiceRow
  <2>. HIDE DEF lines
  <2>. QED  BY <1>2, DraftIsRow
<1>4. /\ inv.learner = l /\ inv.lines = lines /\ inv.period = period
      /\ inv.month_end = month_end /\ inv.status = "Generated" /\ inv.voided = FALSE
  BY DEF Draft
<1>5. Covered(inv) = {l} /\ ~IsFamily(inv)
  BY <1>1, <1>4, NullAssumption DEF Covered, IsFamily
<1>6. MayIssue(inv)
  BY <1>3, <1>4, <1>5 DEF MayIssue
<1>7. IsOrder(<<l>>, inv.lines)
  <2>1. <<l>> \in Seq({l}) /\ Len(<<l>>) = 1 /\ <<l>>[1] = l
    OBVIOUS
  <2>2. DOMAIN <<l>> = {1}
    BY <2>1, LenProperties
  <2>3. DOMAIN inv.lines = {l}
    BY <1>1, <1>4
  <2>. QED
    <3>. HIDE DEF inv
    <3>. QED  BY <2>1, <2>2, <2>3 DEF IsOrder
<1>8. Issue(inv, prev, paid, <<l>>)
  OBVIOUS
<1>9. Priced(inv, prev, paid)
  <2>1. prev = OwedBy(entries, {l})
    BY BalanceSums DEF TypeOK
  <2>. HIDE DEF inv, prev
  <2>. QED  BY <1>5, <2>1 DEF Priced
<1>. QED
  <2>. HIDE DEF inv, prev
  <2>. QED  BY <1>6, <1>7, <1>8, <1>9 DEF IssueStep

\* A family invoice is such a step.
LEMMA FamilyIssue ==
  ASSUME TypeOK, NEW p \in Parents, NEW period \in Periods, GenerateParentInvoice(p, period)
  PROVE  IssueStep
<1>0. PICK S \in (SUBSET Billable(p, period)) \ {{}} :
        \E lines \in [S -> Fees], order \in Bijection(1..Cardinality(S), S) :
          Issue(Draft(NoLearner, lines, period, FALSE), OwedBy(entries, S), 0, order)
  BY DEF GenerateParentInvoice
<1>1. PICK lines \in [S -> Fees], order \in Bijection(1..Cardinality(S), S) :
        Issue(Draft(NoLearner, lines, period, FALSE), OwedBy(entries, S), 0, order)
  BY <1>0
<1>. DEFINE inv == Draft(NoLearner, lines, period, FALSE)
<1>2. S \in SUBSET Learners /\ \A l \in S : ~AlreadyBilled(l, period)
  BY FamilyAssumption DEF Billable
<1>3. Cardinality(S) \in Nat
  BY <1>2, FiniteAssumption, FS_Subset, FS_CardinalityType
<1>4. lines \in Lines /\ DOMAIN lines = S
  BY <1>2 DEF Lines
<1>5. inv \in InvoiceRow
  BY <1>4, DraftIsRow
<1>6. /\ inv.learner = NoLearner /\ inv.lines = lines /\ inv.period = period
      /\ inv.month_end = FALSE /\ inv.status = "Generated" /\ inv.voided = FALSE
  BY DEF Draft
<1>7. Covered(inv) = S /\ IsFamily(inv)
  BY <1>4, <1>6 DEF Covered, IsFamily
<1>8. MayIssue(inv)
  BY <1>2, <1>5, <1>6, <1>7 DEF MayIssue
<1>9. /\ order \in [1..Cardinality(S) -> S]
      /\ \A l \in S : \E k \in 1..Cardinality(S) : order[k] = l
      /\ \A j, k \in 1..Cardinality(S) : order[j] = order[k] => j = k
  BY DEF Bijection, Injection, Surjection, IsInjective
<1>10. order \in Seq(S)
  BY <1>3, <1>9, SeqDef
<1>11. IsOrder(order, inv.lines)
  BY <1>4, <1>6, <1>9, <1>10 DEF IsOrder
<1>12. Priced(inv, OwedBy(entries, S), 0)
  BY <1>7 DEF Priced
<1>13. Issue(inv, OwedBy(entries, S), 0, order)
  BY <1>1
<1>. QED
  <2>. HIDE DEF inv
  <2>. QED  BY <1>8, <1>11, <1>12, <1>13 DEF IssueStep

\* Every step issues an invoice, withdraws one, mails one, records a payment,
\* reverses one, or leaves the documents and the ledger alone.
LEMMA StepShapes ==
  ASSUME TypeOK, [Next]_vars
  PROVE  \/ IssueStep
         \/ \E i \in DOMAIN invoices : VoidInvoice(i) \/ DeleteInvoice(i) \/ SendInvoice(i)
         \/ PaymentStep
         \/ \E p \in DOMAIN payments : ReversePayment(p)
         \/ \E l \in Learners : DeactivateLearner(l)
         \/ NextDay
         \/ UNCHANGED vars
<1>1. ASSUME NEW l \in Learners, NEW period \in Periods, NEW fee \in Fees,
             \/ GenerateInvoice(l, period, fee)
             \/ GenerateStructureInvoice(l, period, fee)
             \/ MonthEndInvoice(l, period, fee)
      PROVE IssueStep
  <2>1. \E day : PaymentsMade(l) = CreditsAfter(entries, l, day)
    BY DEF PaymentsMade
  <2>. DEFINE paid == PaymentsMade(l)
  <2>2. CASE GenerateInvoice(l, period, fee)
    <3>1. Issue(Draft(l, [m \in {l} |-> fee], period, FALSE), ComputeBalance(entries, l), paid, <<l>>)
      BY <2>2 DEF GenerateInvoice, BillLearner
    <3>. HIDE DEF paid
    <3>. QED  BY <2>1, <3>1, LearnerIssue DEF paid
  <2>3. CASE GenerateStructureInvoice(l, period, fee)
    BY <2>3, LearnerIssue DEF GenerateStructureInvoice
  <2>4. CASE MonthEndInvoice(l, period, fee)
    <3>1. /\ \A i \in OwnLive(l) : invoices[i].period # period
          /\ Issue(Draft(l, [m \in {l} |-> fee], period, TRUE), ComputeBalance(entries, l), paid, <<l>>)
      BY <2>4 DEF MonthEndInvoice, BillLearner
    <3>. HIDE DEF paid
    <3>. QED  BY <2>1, <3>1, LearnerIssue DEF paid
  <2>. QED  BY <1>1, <2>2, <2>3, <2>4
<1>2. ASSUME NEW p \in Parents, NEW period \in Periods, GenerateParentInvoice(p, period)
      PROVE IssueStep
  BY <1>2, FamilyIssue
<1>3. ASSUME NEW l \in Learners, NEW amount \in Receipts, NEW ref \in Refs \cup {NoRef},
             NEW day \in PaymentDates,
             CreatePayment(l, amount, ref, day) \/ ImportPayment(l, amount, ref, day)
      PROVE PaymentStep
  BY <1>3 DEF PaymentStep, CreatePayment, ImportPayment
<1>. QED
  BY <1>1, <1>2, <1>3 DEF Next, Requests, Invoicing, Mailing, Receiving, Upkeep, MonthEndBilling

------------------------------------------------------------------------------
(* Types. *)

\* Changing the status and the voided mark of an invoice keeps it an invoice.
LEMMA SetInvoiceFacts ==
  ASSUME TypeOK, NEW i \in DOMAIN invoices, NEW status \in {"Generated", "Sent", "Void"},
         NEW voided \in BOOLEAN, SetInvoice(i, status, voided)
  PROVE  /\ invoices' \in Seq(InvoiceRow)
         /\ Len(invoices') = Len(invoices)
         /\ DOMAIN invoices' = DOMAIN invoices
         /\ invoices'[i] = [invoices[i] EXCEPT !.status = status, !.voided = voided]
         /\ \A j \in DOMAIN invoices : j # i => invoices'[j] = invoices[j]
<1>. DEFINE new == [invoices[i] EXCEPT !.status = status, !.voided = voided]
<1>1. Len(invoices) \in Nat /\ DOMAIN invoices = 1..Len(invoices)
  BY LenProperties DEF TypeOK
<1>2. invoices[i] \in InvoiceRow
  BY <1>1, ElementOfSeq DEF TypeOK
<1>3. new \in InvoiceRow
  BY <1>2 DEF InvoiceRow
<1>4. invoices' = [invoices EXCEPT ![i] = new]
  BY <1>1, <1>2 DEF SetInvoice, InvoiceRow
<1>5. invoices \in Seq(InvoiceRow)
  BY DEF TypeOK
<1>. QED
  <2>. HIDE DEF new
  <2>1. /\ invoices' \in Seq(InvoiceRow) /\ Len(invoices') = Len(invoices)
        /\ \A j \in 1..Len(invoices) : invoices'[j] = IF j = i THEN new ELSE invoices[j]
    BY <1>1, <1>3, <1>4, <1>5, ExceptSeq
  <2>2. DOMAIN invoices' = 1..Len(invoices)
    BY <2>1, LenProperties
  <2>. QED  BY <1>1, <2>1, <2>2 DEF new

\* ReversePayment takes one payment out of force and changes no other.
LEMMA ReverseFacts ==
  ASSUME TypeOK, NEW p \in DOMAIN payments, ReversePayment(p)
  PROVE  /\ payments' \in Seq(PaymentRow)
         /\ DOMAIN payments' = DOMAIN payments
         /\ \A q \in DOMAIN payments :
              payments'[q] = IF q = p THEN [payments[q] EXCEPT !.is_active = FALSE]
                             ELSE payments[q]
<1>. DEFINE new == [payments[p] EXCEPT !.is_active = FALSE]
<1>1. Len(payments) \in Nat /\ DOMAIN payments = 1..Len(payments)
  BY LenProperties DEF TypeOK
<1>2. \A q \in DOMAIN payments : payments[q] \in PaymentRow
  BY <1>1, ElementOfSeq DEF TypeOK
<1>3. new \in PaymentRow
  BY <1>2 DEF PaymentRow
<1>4. payments' = [payments EXCEPT ![p] = new]
  BY DEF ReversePayment
<1>5. payments \in Seq(PaymentRow)
  BY DEF TypeOK
<1>6. /\ payments' \in Seq(PaymentRow) /\ Len(payments') = Len(payments)
      /\ \A q \in 1..Len(payments) : payments'[q] = IF q = p THEN new ELSE payments[q]
  <2>. HIDE DEF new
  <2>. QED  BY <1>1, <1>3, <1>4, <1>5, ExceptSeq
<1>7. DOMAIN payments' = 1..Len(payments)
  BY <1>6, LenProperties
<1>. QED
  BY <1>1, <1>2, <1>6, <1>7 DEF PaymentRow

\* A refreshed cache is the computed balance for the learners of S and what it
\* was for the others.
LEMMA SyncFacts ==
  ASSUME NEW bal, DOMAIN bal = Learners, NEW es, NEW S, NEW new,
         new = SyncBalanceCache(bal, es, S)
  PROVE  /\ new = [l \in Learners |-> new[l]]
         /\ \A l \in Learners : new[l] = IF l \in S THEN ComputeBalance(es, l) ELSE bal[l]
BY DEF SyncBalanceCache

\* The tables keep their shape in every step.
LEMMA TypeStep == TypeOK /\ [Next]_vars => TypeOK'
<1>. SUFFICES ASSUME TypeOK, [Next]_vars  PROVE TypeOK'
  OBVIOUS
<1>0. DOMAIN balance = Learners
  BY DEF TypeOK
<1>10. entries \in Seq(EntryRow)
  BY DEF TypeOK
<1>1. CASE IssueStep
  <2>1. PICK inv, order : Issued(inv, order)
    BY <1>1, IssueShape
  <2>3. /\ invoices' \in Seq(InvoiceRow) /\ entries' \in Seq(EntryRow)
        /\ invoice_counter' \in [year : Nat, seq : Nat]
        /\ DOMAIN invoices \subseteq DOMAIN invoices'
    BY <2>1 DEF Issued, NumberIssued, RowsIssued
  <2>4. balance' = SyncBalanceCache(balance, entries', Covered(inv))
    BY <2>1 DEF Issued
  <2>5. balance' = [l \in Learners |-> balance'[l]]
    BY <1>0, <2>4, SyncFacts
  <2>6. UNCHANGED <<today, is_active, payments, deleted>>
    BY <2>1 DEF Issued
  <2>. QED  BY <2>3, <2>5, <2>6 DEF TypeOK
<1>2. ASSUME NEW i \in DOMAIN invoices, VoidInvoice(i)
      PROVE  TypeOK'
  <2>. DEFINE rows == {k \in OpenFor(entries, "DR", i) :
                        entries[k].learner \in Covered(invoices[i])}
  <2>1. /\ SetInvoice(i, "Void", TRUE) /\ entries' = VoidRows(entries, rows)
        /\ balance' = SyncBalanceCache(balance, entries', {entries[k].learner : k \in rows})
        /\ UNCHANGED <<today, is_active, payments, invoice_counter, deleted>>
    BY <1>2 DEF VoidInvoice
  <2>2. invoices' \in Seq(InvoiceRow) /\ DOMAIN invoices' = DOMAIN invoices
    BY <2>1, SetInvoiceFacts
  <2>3. entries' \in Seq(EntryRow)
    BY <1>10, <2>1, VoidRowsFacts
  <2>4. balance' = [l \in Learners |-> balance'[l]]
    <3>. DEFINE S == {entries[k].learner : k \in rows}
    <3>1. balance' = SyncBalanceCache(balance, entries', S)
      BY <2>1
    <3>. HIDE DEF S
    <3>. QED  BY <1>0, <3>1, SyncFacts
  <2>. QED  BY <2>1, <2>2, <2>3, <2>4 DEF TypeOK
<1>3. ASSUME NEW i \in DOMAIN invoices, DeleteInvoice(i)
      PROVE  TypeOK'
  <2>. DEFINE rows == OpenFor(entries, "DR", i)
  <2>1. /\ SetInvoice(i, "Void", TRUE) /\ entries' = VoidRows(entries, rows)
        /\ balance' = SyncBalanceCache(balance, entries', FirstLearner(rows))
        /\ deleted' = deleted \cup {i}
        /\ UNCHANGED <<today, is_active, payments, invoice_counter>>
    BY <1>3 DEF DeleteInvoice
  <2>2. invoices' \in Seq(InvoiceRow) /\ DOMAIN invoices' = DOMAIN invoices
    BY <2>1, SetInvoiceFacts
  <2>3. entries' \in Seq(EntryRow)
    BY <1>10, <2>1, VoidRowsFacts
  <2>4. balance' = [l \in Learners |-> balance'[l]]
    <3>. DEFINE S == FirstLearner(rows)
    <3>1. balance' = SyncBalanceCache(balance, entries', S)
      BY <2>1
    <3>. HIDE DEF S
    <3>. QED  BY <1>0, <3>1, SyncFacts
  <2>. QED  BY <1>3, <2>1, <2>2, <2>3, <2>4 DEF TypeOK
<1>4. ASSUME NEW i \in DOMAIN invoices, SendInvoice(i)
      PROVE  TypeOK'
  <2>1. invoices[i].voided \in BOOLEAN
    <3>1. invoices[i] \in InvoiceRow
      BY ElementOfSeq, LenProperties DEF TypeOK
    <3>. QED  BY <3>1 DEF InvoiceRow
  <2>2. invoices' \in Seq(InvoiceRow) /\ DOMAIN invoices' = DOMAIN invoices
    BY <1>4, <2>1, SetInvoiceFacts DEF SendInvoice
  <2>. QED  BY <1>4, <2>2 DEF SendInvoice, TypeOK
<1>5. CASE PaymentStep
  <2>1. PICK l \in Learners, amount \in Receipts, ref \in Refs \cup {NoRef}, day \in PaymentDates :
          RecordPayment(l, amount, ref, day)
    BY <1>5 DEF PaymentStep
  <2>2. payments' \in Seq(PaymentRow) /\ entries' \in Seq(EntryRow)
    BY <2>1, RecordPaymentFacts
  <2>3. balance' = [m \in Learners |-> balance'[m]]
    BY <1>0, <2>1 DEF RecordPayment, SyncBalanceCache
  <2>. QED  BY <2>1, <2>2, <2>3 DEF RecordPayment, TypeOK
<1>6. ASSUME NEW p \in DOMAIN payments, ReversePayment(p)
      PROVE  TypeOK'
  <2>1. payments' \in Seq(PaymentRow)
    BY <1>6, ReverseFacts
  <2>2. entries' \in Seq(EntryRow)
    BY <1>10, <1>6, VoidRowsFacts DEF ReversePayment
  <2>3. balance' = [l \in Learners |-> balance'[l]]
    <3>. DEFINE S == {entries[k].learner : k \in Earliest(OpenFor(entries, "CR", p))}
    <3>1. balance' = SyncBalanceCache(balance, entries', S)
      BY <1>6 DEF ReversePayment
    <3>. HIDE DEF S
    <3>. QED  BY <1>0, <3>1, SyncFacts
  <2>. QED  BY <1>6, <2>1, <2>2, <2>3 DEF ReversePayment, TypeOK
<1>7. ASSUME NEW l \in Learners, DeactivateLearner(l)
      PROVE  TypeOK'
  BY <1>7 DEF DeactivateLearner, ledgerVars, TypeOK
<1>8. CASE NextDay
  BY <1>8, YearAssumption DEF NextDay, ledgerVars, TypeOK
<1>9. CASE UNCHANGED vars
  BY <1>9 DEF vars, ledgerVars, TypeOK
<1>. QED
  BY StepShapes, <1>1, <1>2, <1>3, <1>4, <1>5, <1>6, <1>7, <1>8, <1>9

\* Every variable keeps its shape in every behaviour of the requests.
THEOREM TypeCorrect == Spec => []TypeOK
<1>1. Init => TypeOK
  BY YearAssumption, EmptySeq DEF Init, TypeOK
<1>. QED
  BY <1>1, TypeStep, PTL DEF Spec

------------------------------------------------------------------------------
(* The ledger is append-only. *)

\* VoidRows marks rows and changes nothing else in the ledger.
LEMMA VoidingKeepsRows ==
  ASSUME TypeOK, NEW K, entries' = VoidRows(entries, K)
  PROVE  /\ entries' \in Seq(EntryRow)
         /\ Len(entries') = Len(entries) /\ DOMAIN entries' = DOMAIN entries
         /\ \A k \in DOMAIN entries :
              /\ entries[k] \in EntryRow
              /\ entries'[k] = IF k \in K THEN [entries[k] EXCEPT !.is_voided = TRUE]
                               ELSE entries[k]
<1>1. entries \in Seq(EntryRow)
  BY DEF TypeOK
<1>2. \A k \in DOMAIN entries : entries[k] \in EntryRow
  BY <1>1, LenProperties, ElementOfSeq
<1>3. /\ VoidRows(entries, K) \in Seq(EntryRow)
      /\ Len(VoidRows(entries, K)) = Len(entries)
      /\ DOMAIN VoidRows(entries, K) = DOMAIN entries
      /\ \A k \in DOMAIN entries :
           VoidRows(entries, K)[k] = IF k \in K THEN [entries[k] EXCEPT !.is_voided = TRUE]
                                     ELSE entries[k]
  BY <1>1, VoidRowsFacts
<1>. QED  BY <1>2, <1>3

\* Voiding removes no row and brings none back.
LEMMA VoidingIsLedgerStep ==
  ASSUME TypeOK, NEW K, entries' = VoidRows(entries, K)
  PROVE  LedgerStep
<1>1. Len(entries) \in Nat /\ Len(entries') = Len(entries)
  BY LenProperties, VoidingKeepsRows DEF TypeOK
<1>2. ASSUME NEW k \in DOMAIN entries
      PROVE  /\ entries'[k] = [entries[k] EXCEPT !.is_voided = entries'[k].is_voided]
             /\ entries[k].is_voided => entries'[k].is_voided
  <2>1. /\ entries[k] \in EntryRow
        /\ entries'[k] = IF k \in K THEN [entries[k] EXCEPT !.is_voided = TRUE] ELSE entries[k]
    BY VoidingKeepsRows
  <2>. QED  BY <2>1 DEF EntryRow
<1>. QED  BY <1>1, <1>2 DEF LedgerStep

\* Rows that a step leaves as they were satisfy LedgerStep.
LEMMA SameRowsIsLedgerStep ==
  ASSUME TypeOK, Len(entries) <= Len(entries'), \A k \in DOMAIN entries : entries'[k] = entries[k]
  PROVE  LedgerStep
<1>1. \A k \in DOMAIN entries : entries[k] \in EntryRow
  BY LenProperties, ElementOfSeq DEF TypeOK
<1>2. ASSUME NEW k \in DOMAIN entries
      PROVE  entries'[k] = [entries[k] EXCEPT !.is_voided = entries'[k].is_voided]
  BY <1>1 DEF EntryRow
<1>. QED  BY <1>2 DEF LedgerStep

\* Every request appends rows, voids rows, or leaves the ledger alone.
LEMMA LedgerStepHolds == TypeOK /\ [Next]_vars => LedgerStep
<1>. SUFFICES ASSUME TypeOK, [Next]_vars  PROVE LedgerStep
  OBVIOUS
<1>0. Len(entries) \in Nat
  BY LenProperties DEF TypeOK
<1>1. CASE IssueStep
  <2>1. PICK inv, order : Issued(inv, order)
    BY <1>1, IssueShape
  <2>2. /\ Len(entries) <= Len(entries')
        /\ \A k \in DOMAIN entries : entries'[k] = entries[k]
    BY <2>1 DEF Issued, RowsIssued
  <2>. QED  BY <2>2, SameRowsIsLedgerStep
<1>2. CASE PaymentStep
  <2>1. PICK l \in Learners, amount \in Receipts, ref \in Refs \cup {NoRef}, day \in PaymentDates :
          RecordPayment(l, amount, ref, day)
    BY <1>2 DEF PaymentStep
  <2>2. /\ Len(entries') = Len(entries) + 1
        /\ \A k \in DOMAIN entries : entries'[k] = entries[k]
    BY <2>1, RecordPaymentFacts
  <2>. QED  BY <1>0, <2>2, SameRowsIsLedgerStep
<1>3. ASSUME NEW i \in DOMAIN invoices, VoidInvoice(i)  PROVE LedgerStep
  BY <1>3, VoidingIsLedgerStep DEF VoidInvoice
<1>4. ASSUME NEW i \in DOMAIN invoices, DeleteInvoice(i)  PROVE LedgerStep
  BY <1>4, VoidingIsLedgerStep DEF DeleteInvoice
<1>5. ASSUME NEW p \in DOMAIN payments, ReversePayment(p)  PROVE LedgerStep
  BY <1>5, VoidingIsLedgerStep DEF ReversePayment
<1>6. CASE entries' = entries
  BY <1>0, <1>6, SameRowsIsLedgerStep
<1>7. ASSUME NEW i \in DOMAIN invoices, SendInvoice(i)  PROVE LedgerStep
  BY <1>6, <1>7 DEF SendInvoice
<1>8. ASSUME NEW l \in Learners, DeactivateLearner(l)  PROVE LedgerStep
  BY <1>6, <1>8 DEF DeactivateLearner, ledgerVars
<1>9. CASE NextDay \/ UNCHANGED vars
  BY <1>6, <1>9 DEF NextDay, vars, ledgerVars
<1>. QED
  BY StepShapes, <1>1, <1>2, <1>3, <1>4, <1>5, <1>7, <1>8, <1>9

\* No request removes, rewrites or un-voids a row of the ledger.
THEOREM LedgerIsAppendOnly == Spec => LedgerAppendOnly
<1>1. TypeOK /\ [Next]_vars => [LedgerStep]_vars
  BY LedgerStepHolds
<1>. QED
  BY <1>1, TypeCorrect, PTL DEF Spec, LedgerAppendOnly

------------------------------------------------------------------------------
(* The ledger mirrors the documents. *)

\* A step that leaves the debits and the invoices alone, but for what is not
\* in the books (status, number), keeps them in agreement.
LEMMA DebitsUntouched ==
  ASSUME LedgerMirrorsInvoices,
         DOMAIN invoices' = DOMAIN invoices,
         \A i \in DOMAIN invoices : /\ invoices'[i].lines = invoices[i].lines
                                    /\ invoices'[i].voided = invoices[i].voided,
         \A k \in DOMAIN entries : k \in DOMAIN entries',
         \A k \in DOMAIN entries' : entries'[k].dc = "DR" => k \in DOMAIN entries,
         \A k \in DOMAIN entries :
           \/ entries'[k] = entries[k]
           \/ entries[k].dc # "DR" /\ entries'[k].dc # "DR"
  PROVE  LedgerMirrorsInvoices'
<1>1. DebitsHaveInvoices /\ LinesHaveDebits /\ DebitsPostedOnce
  BY DEF LedgerMirrorsInvoices
<1>2. DebitsHaveInvoices'
  BY <1>1 DEF DebitsHaveInvoices, Covered
<1>3. LinesHaveDebits'
  BY <1>1 DEF LinesHaveDebits, Covered
<1>4. DebitsPostedOnce'
  BY <1>1 DEF DebitsPostedOnce
<1>. QED  BY <1>2, <1>3, <1>4 DEF LedgerMirrorsInvoices

\* Withdrawing invoice i keeps the agreement when all its open debits are
\* voided with it.
LEMMA DebitsWithdrawn ==
  ASSUME TypeOK, LedgerMirrorsInvoices, NEW i \in DOMAIN invoices,
         SetInvoice(i, "Void", TRUE), entries' = VoidRows(entries, OpenFor(entries, "DR", i))
  PROVE  LedgerMirrorsInvoices'
<1>0. DebitsHaveInvoices /\ LinesHaveDebits /\ DebitsPostedOnce
  BY DEF LedgerMirrorsInvoices
<1>1. /\ DOMAIN invoices' = DOMAIN invoices
      /\ invoices'[i] = [invoices[i] EXCEPT !.status = "Void", !.voided = TRUE]
      /\ \A j \in DOMAIN invoices : j # i => invoices'[j] = invoices[j]
  BY SetInvoiceFacts
<1>2. \A j \in DOMAIN invoices : invoices[j] \in InvoiceRow
  BY LenProperties, ElementOfSeq DEF TypeOK
<1>3. /\ \A j \in DOMAIN invoices : invoices'[j].lines = invoices[j].lines
      /\ \A j \in DOMAIN invoices : j # i => invoices'[j].voided = invoices[j].voided
      /\ invoices'[i].voided = TRUE
  BY <1>1, <1>2 DEF InvoiceRow
<1>4. DOMAIN entries' = DOMAIN entries
  BY VoidingKeepsRows
<1>5. ASSUME NEW k \in DOMAIN entries
      PROVE  /\ entries'[k].dc = entries[k].dc /\ entries'[k].ref = entries[k].ref
             /\ entries'[k].learner = entries[k].learner /\ entries'[k].amount = entries[k].amount
             /\ entries[k].dc = "DR" /\ entries[k].ref = i => entries'[k].is_voided = TRUE
             /\ entries[k].dc = "DR" /\ entries[k].ref # i
                  => entries'[k].is_voided = entries[k].is_voided
  <2>1. /\ entries[k] \in EntryRow
        /\ entries'[k] = IF k \in OpenFor(entries, "DR", i)
                         THEN [entries[k] EXCEPT !.is_voided = TRUE] ELSE entries[k]
    BY VoidingKeepsRows
  <2>2. CASE k \in OpenFor(entries, "DR", i)
    <3>1. ~entries[k].is_voided /\ entries[k].ref = i
      BY <2>2 DEF OpenFor, Unvoided
    <3>. QED  BY <2>1, <2>2, <3>1 DEF EntryRow
  <2>3. CASE k \notin OpenFor(entries, "DR", i)
    <3>1. entries[k].dc = "DR" /\ entries[k].ref = i => entries[k].is_voided
      BY <2>3 DEF OpenFor, Unvoided
    <3>. QED  BY <2>1, <2>3, <3>1 DEF EntryRow
  <2>. QED  BY <2>2, <2>3
<1>6. DebitsHaveInvoices'
  <2>. SUFFICES ASSUME NEW k \in DOMAIN entries', entries'[k].dc = "DR"
                PROVE  /\ entries'[k].ref \in DOMAIN invoices'
                       /\ entries'[k].learner \in DOMAIN invoices'[entries'[k].ref].lines
                       /\ entries'[k].amount = invoices'[entries'[k].ref].lines[entries'[k].learner]
                       /\ entries'[k].is_voided = invoices'[entries'[k].ref].voided
    BY DEF DebitsHaveInvoices, Covered
  <2>0. /\ k \in DOMAIN entries /\ entries[k].dc = "DR"
        /\ entries'[k].ref = entries[k].ref /\ entries'[k].learner = entries[k].learner
        /\ entries'[k].amount = entries[k].amount
    BY <1>4, <1>5
  <2>1. /\ entries[k].ref \in DOMAIN invoices
        /\ entries[k].learner \in DOMAIN invoices[entries[k].ref].lines
        /\ entries[k].amount = invoices[entries[k].ref].lines[entries[k].learner]
        /\ entries[k].is_voided = invoices[entries[k].ref].voided
    BY <1>0, <2>0 DEF DebitsHaveInvoices, Covered
  <2>2. entries'[k].is_voided = invoices'[entries[k].ref].voided
    <3>1. CASE entries[k].ref = i
      <4>1. entries'[k].is_voided = TRUE
        BY <1>5, <2>0, <3>1
      <4>. QED  BY <1>3, <3>1, <4>1
    <3>2. CASE entries[k].ref # i
      <4>1. entries'[k].is_voided = entries[k].is_voided
        BY <1>5, <2>0, <3>2
      <4>2. invoices'[entries[k].ref].voided = invoices[entries[k].ref].voided
        BY <1>3, <2>1, <3>2
      <4>. QED  BY <2>1, <4>1, <4>2
    <3>. QED  BY <3>1, <3>2
  <2>3. invoices'[entries[k].ref].lines = invoices[entries[k].ref].lines
    BY <1>3, <2>1
  <2>. QED  BY <1>1, <2>0, <2>1, <2>2, <2>3
<1>7. LinesHaveDebits'
  <2>. SUFFICES ASSUME NEW j \in DOMAIN invoices', NEW l \in DOMAIN invoices'[j].lines
                PROVE  \E k \in DOMAIN entries' :
                         entries'[k].dc = "DR" /\ entries'[k].ref = j /\ entries'[k].learner = l
    BY DEF LinesHaveDebits, Covered
  <2>1. j \in DOMAIN invoices /\ l \in DOMAIN invoices[j].lines
    BY <1>1, <1>3
  <2>2. PICK k \in DOMAIN entries :
          entries[k].dc = "DR" /\ entries[k].ref = j /\ entries[k].learner = l
    BY <1>0, <2>1 DEF LinesHaveDebits, Covered
  <2>. QED  BY <1>4, <1>5, <2>2
<1>8. DebitsPostedOnce'
  <2>. SUFFICES ASSUME NEW j \in DOMAIN entries', NEW k \in DOMAIN entries',
                       entries'[j].dc = "DR", entries'[k].dc = "DR",
                       entries'[j].ref = entries'[k].ref,
                       entries'[j].learner = entries'[k].learner
                PROVE  j = k
    BY DEF DebitsPostedOnce
  <2>1. /\ j \in DOMAIN entries /\ k \in DOMAIN entries
        /\ entries[j].dc = "DR" /\ entries[k].dc = "DR"
        /\ entries[j].ref = entries[k].ref /\ entries[j].learner = entries[k].learner
    BY <1>4, <1>5
  <2>. QED  BY <1>0, <2>1 DEF DebitsPostedOnce
<1>. QED
  BY <1>6, <1>7, <1>8 DEF LedgerMirrorsInvoices

\* The rows of a new invoice, seen from the next state.
LEMMA NewRows ==
  ASSUME TypeOK, NEW inv, NEW order, Issued(inv, order)
  PROVE  /\ invoices'[Len(invoices) + 1].lines = inv.lines
         /\ invoices'[Len(invoices) + 1].voided = FALSE
         /\ \A m \in DOMAIN order :
              /\ Len(entries) + m \in DOMAIN entries'
              /\ entries'[Len(entries) + m].dc = "DR"
              /\ entries'[Len(entries) + m].ref = Len(invoices) + 1
              /\ entries'[Len(entries) + m].learner = order[m]
              /\ entries'[Len(entries) + m].amount = inv.lines[order[m]]
              /\ entries'[Len(entries) + m].is_voided = FALSE
              /\ order[m] \in DOMAIN inv.lines
<1>1. invoices'[Len(invoices) + 1] = [inv EXCEPT !.number = invoice_counter']
  BY DEF Issued, NumberIssued
<1>2. inv \in InvoiceRow /\ inv.voided = FALSE
  BY DEF Issued, MayIssue
<1>3. order \in Seq(DOMAIN inv.lines)
  BY DEF Issued, IsOrder
<1>4. \A m \in DOMAIN order : order[m] \in DOMAIN inv.lines
  BY <1>3, LenProperties, ElementOfSeq
<1>5. ASSUME NEW m \in DOMAIN order
      PROVE  /\ Len(entries) + m \in DOMAIN entries'
             /\ entries'[Len(entries) + m].dc = "DR"
             /\ entries'[Len(entries) + m].ref = Len(invoices) + 1
             /\ entries'[Len(entries) + m].learner = order[m]
             /\ entries'[Len(entries) + m].amount = inv.lines[order[m]]
             /\ entries'[Len(entries) + m].is_voided = FALSE
  <2>1. /\ Len(entries) + m \in DOMAIN entries'
        /\ entries'[Len(entries) + m]
             = Debit(order[m], Len(invoices) + 1, inv.lines[order[m]], today)
    BY DEF Issued, RowsIssued
  <2>. QED  BY <2>1 DEF Debit, Posting
<1>. QED
  BY <1>1, <1>2, <1>4, <1>5 DEF InvoiceRow

\* Issuing an invoice adds the debits of its lines and no others.
LEMMA IssueMirrored ==
  ASSUME TypeOK, LedgerMirrorsInvoices, IssueStep
  PROVE  LedgerMirrorsInvoices'
<1>0. DebitsHaveInvoices /\ LinesHaveDebits /\ DebitsPostedOnce
  BY DEF LedgerMirrorsInvoices
<1>1. PICK inv, order : Issued(inv, order)
  BY IssueShape
<1>. DEFINE n == Len(invoices) + 1
            L == Len(entries)
<1>2. /\ n \notin DOMAIN invoices
      /\ DOMAIN invoices' = DOMAIN invoices \cup {n}
      /\ \A i \in DOMAIN invoices : invoices'[i] = invoices[i]
  BY <1>1 DEF Issued, NumberIssued
<1>3. /\ \A k \in DOMAIN entries : k \in DOMAIN entries' /\ entries'[k] = entries[k]
      /\ \A k \in DOMAIN entries' : k \notin DOMAIN entries =>
           \E m \in DOMAIN order : k = L + m
  BY <1>1 DEF Issued, RowsIssued
<1>4. /\ invoices'[n].lines = inv.lines /\ invoices'[n].voided = FALSE
      /\ \A m \in DOMAIN order :
           /\ L + m \in DOMAIN entries'
           /\ entries'[L + m].dc = "DR"
           /\ entries'[L + m].ref = n
           /\ entries'[L + m].learner = order[m]
           /\ entries'[L + m].amount = inv.lines[order[m]]
           /\ entries'[L + m].is_voided = FALSE
           /\ order[m] \in DOMAIN inv.lines
  BY <1>1, NewRows
<1>5. /\ \A l \in DOMAIN inv.lines : \E m \in DOMAIN order : order[m] = l
      /\ \A j, m \in DOMAIN order : order[j] = order[m] => j = m
  BY <1>1 DEF Issued, IsOrder
<1>. HIDE DEF n, L
<1>6. DebitsHaveInvoices'
  <2>. SUFFICES ASSUME NEW k \in DOMAIN entries', entries'[k].dc = "DR"
                PROVE  /\ entries'[k].ref \in DOMAIN invoices'
                       /\ entries'[k].learner \in DOMAIN invoices'[entries'[k].ref].lines
                       /\ entries'[k].amount = invoices'[entries'[k].ref].lines[entries'[k].learner]
                       /\ entries'[k].is_voided = invoices'[entries'[k].ref].voided
    BY DEF DebitsHaveInvoices, Covered
  <2>1. CASE k \in DOMAIN entries
    <3>1. /\ entries[k].ref \in DOMAIN invoices
          /\ entries[k].learner \in DOMAIN invoices[entries[k].ref].lines
          /\ entries[k].amount = invoices[entries[k].ref].lines[entries[k].learner]
          /\ entries[k].is_voided = invoices[entries[k].ref].voided
      BY <1>0, <1>3, <2>1 DEF DebitsHaveInvoices, Covered
    <3>. QED  BY <1>2, <1>3, <2>1, <3>1
  <2>2. CASE k \notin DOMAIN entries
    <3>1. PICK m \in DOMAIN order : k = L + m
      BY <1>3, <2>2
    <3>. QED  BY <1>2, <1>4, <3>1
  <2>. QED  BY <2>1, <2>2
<1>7. LinesHaveDebits'
  <2>. SUFFICES ASSUME NEW i \in DOMAIN invoices', NEW l \in DOMAIN invoices'[i].lines
                PROVE  \E k \in DOMAIN entries' :
                         entries'[k].dc = "DR" /\ entries'[k].ref = i /\ entries'[k].learner = l
    BY DEF LinesHaveDebits, Covered
  <2>1. CASE i \in DOMAIN invoices
    <3>1. PICK k \in DOMAIN entries :
            entries[k].dc = "DR" /\ entries[k].ref = i /\ entries[k].learner = l
      BY <1>0, <1>2, <2>1 DEF LinesHaveDebits, Covered
    <3>. QED  BY <1>3, <3>1
  <2>2. CASE i = n
    <3>1. PICK m \in DOMAIN order : order[m] = l
      BY <1>4, <1>5, <2>2
    <3>. QED  BY <1>4, <2>2, <3>1
  <2>. QED  BY <1>2, <2>1, <2>2
<1>8. DebitsPostedOnce'
  <2>. SUFFICES ASSUME NEW j \in DOMAIN entries', NEW k \in DOMAIN entries',
                       entries'[j].dc = "DR", entries'[k].dc = "DR",
                       entries'[j].ref = entries'[k].ref,
                       entries'[j].learner = entries'[k].learner
                PROVE  j = k
    BY DEF DebitsPostedOnce
  <2>1. \A h \in DOMAIN entries : entries'[h].dc = "DR" => entries'[h].ref # n
    BY <1>0, <1>2, <1>3 DEF DebitsHaveInvoices
  <2>2. \A h \in DOMAIN entries' : h \notin DOMAIN entries => entries'[h].ref = n
    BY <1>3, <1>4
  <2>3. CASE j \in DOMAIN entries /\ k \in DOMAIN entries
    BY <1>0, <1>3, <2>3 DEF DebitsPostedOnce
  <2>4. CASE j \notin DOMAIN entries /\ k \notin DOMAIN entries
    <3>1. PICK m \in DOMAIN order : j = L + m
      BY <1>3, <2>4
    <3>2. PICK h \in DOMAIN order : k = L + h
      BY <1>3, <2>4
    <3>. QED  BY <1>4, <1>5, <3>1, <3>2
  <2>. QED  BY <2>1, <2>2, <2>3, <2>4
<1>. QED
  BY <1>6, <1>7, <1>8 DEF LedgerMirrorsInvoices

\* Voiding rows of one document leaves the other rows as they were.
LEMMA VoidedKind ==
  ASSUME TypeOK, NEW dc, NEW ref, NEW K \in SUBSET OpenFor(entries, dc, ref),
         entries' = VoidRows(entries, K)
  PROVE  /\ DOMAIN entries' = DOMAIN entries
         /\ \A k \in DOMAIN entries :
              entries'[k] = entries[k] \/ (entries[k].dc = dc /\ entries'[k].dc = dc)
<1>1. ASSUME NEW k \in DOMAIN entries
      PROVE  entries'[k] = entries[k] \/ (entries[k].dc = dc /\ entries'[k].dc = dc)
  <2>1. /\ entries[k] \in EntryRow
        /\ entries'[k] = IF k \in K THEN [entries[k] EXCEPT !.is_voided = TRUE] ELSE entries[k]
    BY VoidingKeepsRows
  <2>2. k \in K => entries[k].dc = dc
    BY DEF OpenFor
  <2>. QED  BY <2>1, <2>2 DEF EntryRow
<1>. QED  BY <1>1, VoidingKeepsRows

\* void_invoice goes through the covered learners one by one; together that is
\* every open debit of the invoice.
LEMMA VoidIsWhole ==
  ASSUME TypeOK, LedgerMirrorsInvoices, NEW i \in DOMAIN invoices, VoidInvoice(i)
  PROVE  /\ SetInvoice(i, "Void", TRUE)
         /\ entries' = VoidRows(entries, OpenFor(entries, "DR", i))
         /\ payments' = payments
<1>1. {k \in OpenFor(entries, "DR", i) : entries[k].learner \in Covered(invoices[i])}
        = OpenFor(entries, "DR", i)
  BY DEF LedgerMirrorsInvoices, DebitsHaveInvoices, OpenFor, Unvoided
<1>. QED  BY <1>1 DEF VoidInvoice

\* A mail changes neither lines nor debits.
LEMMA MailKeepsDebits ==
  ASSUME TypeOK, LedgerMirrorsInvoices, NEW i \in DOMAIN invoices, SendInvoice(i)
  PROVE  LedgerMirrorsInvoices'
<1>1. \A j \in DOMAIN invoices : invoices[j] \in InvoiceRow
  BY LenProperties, ElementOfSeq DEF TypeOK
<1>2. invoices[i].voided \in BOOLEAN
  BY <1>1 DEF InvoiceRow
<1>3. /\ DOMAIN invoices' = DOMAIN invoices
      /\ invoices'[i] = [invoices[i] EXCEPT !.status = "Sent", !.voided = invoices[i].voided]
      /\ \A j \in DOMAIN invoices : j # i => invoices'[j] = invoices[j]
  BY <1>2, SetInvoiceFacts DEF SendInvoice
<1>4. ASSUME NEW j \in DOMAIN invoices
      PROVE  invoices'[j].lines = invoices[j].lines /\ invoices'[j].voided = invoices[j].voided
  <2>1. CASE j = i
    <3>1. invoices[i] \in InvoiceRow
      BY <1>1
    <3>. QED  BY <1>3, <2>1, <3>1 DEF InvoiceRow
  <2>2. CASE j # i
    BY <1>3, <2>2
  <2>. QED  BY <2>1, <2>2
<1>5. entries' = entries
  BY DEF SendInvoice
<1>. QED  BY <1>3, <1>4, <1>5, DebitsUntouched

\* Every request keeps the debits the mirror of the invoices.
LEMMA MirrorsInvoicesStep ==
  TypeOK /\ LedgerMirrorsInvoices /\ [Next]_vars => LedgerMirrorsInvoices'
<1>. SUFFICES ASSUME TypeOK, LedgerMirrorsInvoices, [Next]_vars  PROVE LedgerMirrorsInvoices'
  OBVIOUS
<1>1. CASE IssueStep
  BY <1>1, IssueMirrored
<1>2. ASSUME NEW i \in DOMAIN invoices, VoidInvoice(i)  PROVE LedgerMirrorsInvoices'
  BY <1>2, VoidIsWhole, DebitsWithdrawn
<1>3. ASSUME NEW i \in DOMAIN invoices, DeleteInvoice(i)  PROVE LedgerMirrorsInvoices'
  <2>1. SetInvoice(i, "Void", TRUE) /\ entries' = VoidRows(entries, OpenFor(entries, "DR", i))
    BY <1>3 DEF DeleteInvoice
  <2>. QED  BY <2>1, DebitsWithdrawn
<1>4. ASSUME NEW i \in DOMAIN invoices, SendInvoice(i)  PROVE LedgerMirrorsInvoices'
  BY <1>4, MailKeepsDebits
<1>5. CASE PaymentStep
  <2>1. PICK l \in Learners, amount \in Receipts, ref \in Refs \cup {NoRef}, day \in PaymentDates :
          RecordPayment(l, amount, ref, day)
    BY <1>5 DEF PaymentStep
  <2>2. /\ DOMAIN entries' = DOMAIN entries \cup {Len(entries) + 1}
        /\ \A k \in DOMAIN entries : entries'[k] = entries[k]
        /\ entries'[Len(entries) + 1] = Credit(l, Len(payments) + 1, amount, day)
    BY <2>1, RecordPaymentFacts
  <2>3. entries'[Len(entries) + 1].dc # "DR"
    BY <2>2 DEF Credit, Posting
  <2>4. \A k \in DOMAIN entries' : entries'[k].dc = "DR" => k \in DOMAIN entries
    BY <2>2, <2>3
  <2>5. invoices' = invoices
    BY <2>1 DEF RecordPayment
  <2>. QED  BY <2>2, <2>4, <2>5, DebitsUntouched
<1>6. ASSUME NEW p \in DOMAIN payments, ReversePayment(p)  PROVE LedgerMirrorsInvoices'
  <2>1. PICK K \in SUBSET OpenFor(entries, "CR", p) :
          entries' = VoidRows(entries, K) /\ invoices' = invoices
    BY <1>6 DEF ReversePayment, Earliest
  <2>2. /\ DOMAIN entries' = DOMAIN entries
        /\ \A k \in DOMAIN entries :
             entries'[k] = entries[k] \/ (entries[k].dc = "CR" /\ entries'[k].dc = "CR")
    BY <2>1, VoidedKind
  <2>. QED  BY <2>1, <2>2, DebitsUntouched
<1>7. CASE invoices' = invoices /\ entries' = entries
  BY <1>7, DebitsUntouched
<1>8. ASSUME NEW l \in Learners, DeactivateLearner(l)  PROVE LedgerMirrorsInvoices'
  BY <1>7, <1>8 DEF DeactivateLearner, ledgerVars
<1>9. CASE NextDay \/ UNCHANGED vars
  BY <1>7, <1>9 DEF NextDay, vars, ledgerVars
<1>. QED
  BY StepShapes, <1>1, <1>2, <1>3, <1>4, <1>5, <1>6, <1>8, <1>9

\* The debits of the ledger are the lines of the invoices, at all times.
THEOREM DebitsMirrorInvoices == Spec => []LedgerMirrorsInvoices
<1>1. Init => LedgerMirrorsInvoices
  BY DEF Init, LedgerMirrorsInvoices, DebitsHaveInvoices, LinesHaveDebits, DebitsPostedOnce
<1>2. TypeOK /\ LedgerMirrorsInvoices /\ [Next]_vars => LedgerMirrorsInvoices'
  BY MirrorsInvoicesStep
<1>. QED
  BY <1>1, <1>2, TypeCorrect, PTL DEF Spec

\* A step that leaves the credits and the payments alone keeps them in
\* agreement.
LEMMA CreditsUntouched ==
  ASSUME LedgerMirrorsPayments, payments' = payments,
         \A k \in DOMAIN entries : k \in DOMAIN entries',
         \A k \in DOMAIN entries' : entries'[k].dc = "CR" => k \in DOMAIN entries,
         \A k \in DOMAIN entries :
           \/ entries'[k] = entries[k]
           \/ entries[k].dc # "CR" /\ entries'[k].dc # "CR"
  PROVE  LedgerMirrorsPayments'
<1>1. CreditsHavePayments /\ PaymentsHaveCredits /\ CreditsPostedOnce
  BY DEF LedgerMirrorsPayments
<1>2. CreditsHavePayments'
  BY <1>1 DEF CreditsHavePayments
<1>3. PaymentsHaveCredits'
  BY <1>1 DEF PaymentsHaveCredits
<1>4. CreditsPostedOnce'
  BY <1>1 DEF CreditsPostedOnce
<1>. QED  BY <1>2, <1>3, <1>4 DEF LedgerMirrorsPayments

\* Recording a payment adds its credit and no other.
LEMMA PaymentMirrored ==
  ASSUME TypeOK, LedgerMirrorsPayments, PaymentStep
  PROVE  LedgerMirrorsPayments'
<1>0. CreditsHavePayments /\ PaymentsHaveCredits /\ CreditsPostedOnce
  BY DEF LedgerMirrorsPayments
<1>1. PICK l \in Learners, amount \in Receipts, ref \in Refs \cup {NoRef}, day \in PaymentDates :
        RecordPayment(l, amount, ref, day)
  BY DEF PaymentStep
<1>. DEFINE n == Len(payments) + 1
            L == Len(entries) + 1
<1>2. /\ DOMAIN payments' = DOMAIN payments \cup {n} /\ n \notin DOMAIN payments
      /\ \A p \in DOMAIN payments : payments'[p] = payments[p]
      /\ payments'[n] = [learner |-> l, amount |-> amount, ref |-> ref, day |-> day,
                         is_active |-> TRUE]
  BY <1>1, RecordPaymentFacts
<1>3. /\ DOMAIN entries' = DOMAIN entries \cup {L} /\ L \notin DOMAIN entries
      /\ \A k \in DOMAIN entries : entries'[k] = entries[k]
      /\ entries'[L] = Credit(l, n, amount, day)
  BY <1>1, RecordPaymentFacts
<1>4. /\ entries'[L].dc = "CR" /\ entries'[L].ref = n /\ entries'[L].learner = l
      /\ entries'[L].amount = amount /\ entries'[L].is_voided = FALSE
  BY <1>3 DEF Credit, Posting
<1>5. payments'[n].learner = l /\ payments'[n].amount = amount /\ payments'[n].is_active = TRUE
  BY <1>2
<1>. HIDE DEF n, L
<1>6. \A k \in DOMAIN entries : entries'[k].dc = "CR" => entries'[k].ref # n
  BY <1>0, <1>2, <1>3 DEF CreditsHavePayments
<1>7. CreditsHavePayments'
  <2>. SUFFICES ASSUME NEW k \in DOMAIN entries', entries'[k].dc = "CR"
                PROVE  /\ entries'[k].ref \in DOMAIN payments'
                       /\ entries'[k].learner = payments'[entries'[k].ref].learner
                       /\ entries'[k].amount = payments'[entries'[k].ref].amount
                       /\ entries'[k].is_voided = ~payments'[entries'[k].ref].is_active
    BY DEF CreditsHavePayments
  <2>1. CASE k \in DOMAIN entries
    <3>1. /\ entries[k].ref \in DOMAIN payments
          /\ entries[k].learner = payments[entries[k].ref].learner
          /\ entries[k].amount = payments[entries[k].ref].amount
          /\ entries[k].is_voided = ~payments[entries[k].ref].is_active
      BY <1>0, <1>3, <2>1 DEF CreditsHavePayments
    <3>. QED  BY <1>2, <1>3, <2>1, <3>1
  <2>2. CASE k = L
    BY <1>2, <1>4, <1>5, <2>2
  <2>. QED  BY <1>3, <2>1, <2>2
<1>8. PaymentsHaveCredits'
  <2>. SUFFICES ASSUME NEW p \in DOMAIN payments'
                PROVE  \E k \in DOMAIN entries' : entries'[k].dc = "CR" /\ entries'[k].ref = p
    BY DEF PaymentsHaveCredits
  <2>1. CASE p \in DOMAIN payments
    <3>1. PICK k \in DOMAIN entries : entries[k].dc = "CR" /\ entries[k].ref = p
      BY <1>0, <2>1 DEF PaymentsHaveCredits
    <3>. QED  BY <1>3, <3>1
  <2>2. CASE p = n
    BY <1>3, <1>4, <2>2
  <2>. QED  BY <1>2, <2>1, <2>2
<1>9. CreditsPostedOnce'
  <2>. SUFFICES ASSUME NEW j \in DOMAIN entries', NEW k \in DOMAIN entries',
                       entries'[j].dc = "CR", entries'[k].dc = "CR",
                       entries'[j].ref = entries'[k].ref
                PROVE  j = k
    BY DEF CreditsPostedOnce
  <2>1. CASE j \in DOMAIN entries /\ k \in DOMAIN entries
    BY <1>0, <1>3, <2>1 DEF CreditsPostedOnce
  <2>. QED  BY <1>3, <1>4, <1>6, <2>1
<1>. QED  BY <1>7, <1>8, <1>9 DEF LedgerMirrorsPayments

\* A payment has one credit, so the first open one is every open one.
LEMMA ReverseIsWhole ==
  ASSUME TypeOK, LedgerMirrorsPayments, NEW p \in DOMAIN payments, ReversePayment(p)
  PROVE  entries' = VoidRows(entries, OpenFor(entries, "CR", p))
<1>1. \A k \in OpenFor(entries, "CR", p) :
        k \in DOMAIN entries /\ k \in Nat /\ entries[k].dc = "CR" /\ entries[k].ref = p
  BY LenProperties DEF OpenFor, Unvoided, TypeOK
<1>2. \A j, k \in OpenFor(entries, "CR", p) : j = k
  BY <1>1 DEF LedgerMirrorsPayments, CreditsPostedOnce
<1>3. Earliest(OpenFor(entries, "CR", p)) = OpenFor(entries, "CR", p)
  BY <1>1, <1>2 DEF Earliest
<1>. QED  BY <1>3 DEF ReversePayment

\* Reversing a payment voids its credit and no other.
LEMMA ReversalMirrored ==
  ASSUME TypeOK, LedgerMirrorsPayments, NEW p \in DOMAIN payments, ReversePayment(p)
  PROVE  LedgerMirrorsPayments'
<1>0. CreditsHavePayments /\ PaymentsHaveCredits /\ CreditsPostedOnce
  BY DEF LedgerMirrorsPayments
<1>1. DOMAIN payments' = DOMAIN payments
  BY ReverseFacts
<1>3. ASSUME NEW q \in DOMAIN payments
      PROVE  /\ payments'[q].learner = payments[q].learner
             /\ payments'[q].amount = payments[q].amount
             /\ q = p => payments'[q].is_active = FALSE
             /\ q # p => payments'[q].is_active = payments[q].is_active
  <2>1. payments[q] \in PaymentRow
    BY LenProperties, ElementOfSeq DEF TypeOK
  <2>2. payments'[q] = IF q = p THEN [payments[q] EXCEPT !.is_active = FALSE] ELSE payments[q]
    BY ReverseFacts
  <2>. QED  BY <2>1, <2>2 DEF PaymentRow
<1>4. entries' = VoidRows(entries, OpenFor(entries, "CR", p))
  BY ReverseIsWhole
<1>5. DOMAIN entries' = DOMAIN entries
  BY <1>4, VoidingKeepsRows
<1>6. ASSUME NEW k \in DOMAIN entries
      PROVE  /\ entries'[k].dc = entries[k].dc /\ entries'[k].ref = entries[k].ref
             /\ entries'[k].learner = entries[k].learner /\ entries'[k].amount = entries[k].amount
             /\ entries[k].dc = "CR" /\ entries[k].ref = p => entries'[k].is_voided = TRUE
             /\ entries[k].dc = "CR" /\ entries[k].ref # p
                  => entries'[k].is_voided = entries[k].is_voided
  <2>1. /\ entries[k] \in EntryRow
        /\ entries'[k] = IF k \in OpenFor(entries, "CR", p)
                         THEN [entries[k] EXCEPT !.is_voided = TRUE] ELSE entries[k]
    BY <1>4, VoidingKeepsRows
  <2>2. CASE k \in OpenFor(entries, "CR", p)
    <3>1. ~entries[k].is_voided /\ entries[k].ref = p
      BY <2>2 DEF OpenFor, Unvoided
    <3>. QED  BY <2>1, <2>2, <3>1 DEF EntryRow
  <2>3. CASE k \notin OpenFor(entries, "CR", p)
    <3>1. entries[k].dc = "CR" /\ entries[k].ref = p => entries[k].is_voided
      BY <2>3 DEF OpenFor, Unvoided
    <3>. QED  BY <2>1, <2>3, <3>1 DEF EntryRow
  <2>. QED  BY <2>2, <2>3
<1>7. CreditsHavePayments'
  <2>. SUFFICES ASSUME NEW k \in DOMAIN entries', entries'[k].dc = "CR"
                PROVE  /\ entries'[k].ref \in DOMAIN payments'
                       /\ entries'[k].learner = payments'[entries'[k].ref].learner
                       /\ entries'[k].amount = payments'[entries'[k].ref].amount
                       /\ entries'[k].is_voided = ~payments'[entries'[k].ref].is_active
    BY DEF CreditsHavePayments
  <2>1. /\ k \in DOMAIN entries /\ entries[k].dc = "CR"
        /\ entries'[k].ref = entries[k].ref /\ entries'[k].learner = entries[k].learner
        /\ entries'[k].amount = entries[k].amount
    BY <1>5, <1>6
  <2>2. /\ entries[k].ref \in DOMAIN payments
        /\ entries[k].learner = payments[entries[k].ref].learner
        /\ entries[k].amount = payments[entries[k].ref].amount
        /\ entries[k].is_voided = ~payments[entries[k].ref].is_active
    BY <1>0, <2>1 DEF CreditsHavePayments
  <2>3. entries'[k].is_voided = ~payments'[entries[k].ref].is_active
    <3>1. CASE entries[k].ref = p
      <4>1. entries'[k].is_voided = TRUE
        BY <1>6, <2>1, <3>1
      <4>2. payments'[p].is_active = FALSE
        BY <1>3
      <4>. QED  BY <3>1, <4>1, <4>2
    <3>2. CASE entries[k].ref # p
      <4>1. entries'[k].is_voided = entries[k].is_voided
        BY <1>6, <2>1, <3>2
      <4>2. payments'[entries[k].ref].is_active = payments[entries[k].ref].is_active
        BY <1>3, <2>2, <3>2
      <4>. QED  BY <2>2, <4>1, <4>2
    <3>. QED  BY <3>1, <3>2
  <2>. QED  BY <1>1, <1>3, <2>1, <2>2, <2>3
<1>8. PaymentsHaveCredits'
  <2>. SUFFICES ASSUME NEW q \in DOMAIN payments
                PROVE  \E k \in DOMAIN entries' : entries'[k].dc = "CR" /\ entries'[k].ref = q
    BY <1>1 DEF PaymentsHaveCredits
  <2>1. PICK k \in DOMAIN entries : entries[k].dc = "CR" /\ entries[k].ref = q
    BY <1>0 DEF PaymentsHaveCredits
  <2>. QED  BY <1>5, <1>6, <2>1
<1>9. CreditsPostedOnce'
  <2>. SUFFICES ASSUME NEW j \in DOMAIN entries', NEW k \in DOMAIN entries',
                       entries'[j].dc = "CR", entries'[k].dc = "CR",
                       entries'[j].ref = entries'[k].ref
                PROVE  j = k
    BY DEF CreditsPostedOnce
  <2>1. /\ j \in DOMAIN entries /\ k \in DOMAIN entries
        /\ entries[j].dc = "CR" /\ entries[k].dc = "CR" /\ entries[j].ref = entries[k].ref
    BY <1>5, <1>6
  <2>. QED  BY <1>0, <2>1 DEF CreditsPostedOnce
<1>. QED  BY <1>7, <1>8, <1>9 DEF LedgerMirrorsPayments

\* Every request keeps the credits the mirror of the payments.
LEMMA MirrorsPaymentsStep ==
  TypeOK /\ LedgerMirrorsInvoices /\ LedgerMirrorsPayments /\ [Next]_vars
    => LedgerMirrorsPayments'
<1>. SUFFICES ASSUME TypeOK, LedgerMirrorsInvoices, LedgerMirrorsPayments, [Next]_vars
              PROVE  LedgerMirrorsPayments'
  OBVIOUS
<1>1. CASE IssueStep
  <2>1. PICK inv, order : Issued(inv, order)
    BY <1>1, IssueShape
  <2>2. payments' = payments
    BY <2>1 DEF Issued
  <2>3. /\ \A k \in DOMAIN entries : k \in DOMAIN entries' /\ entries'[k] = entries[k]
        /\ \A k \in DOMAIN entries' : k \notin DOMAIN entries =>
             \E m \in DOMAIN order : k = Len(entries) + m
    BY <2>1 DEF Issued, RowsIssued
  <2>4. \A m \in DOMAIN order : entries'[Len(entries) + m].dc = "DR"
    BY <2>1, NewRows
  <2>5. \A k \in DOMAIN entries' : entries'[k].dc = "CR" => k \in DOMAIN entries
    BY <2>3, <2>4
  <2>. QED  BY <2>2, <2>3, <2>5, CreditsUntouched
<1>2. ASSUME NEW i \in DOMAIN invoices, payments' = payments,
             entries' = VoidRows(entries, OpenFor(entries, "DR", i))
      PROVE  LedgerMirrorsPayments'
  <2>1. /\ DOMAIN entries' = DOMAIN entries
        /\ \A k \in DOMAIN entries :
             entries'[k] = entries[k] \/ (entries[k].dc = "DR" /\ entries'[k].dc = "DR")
    BY <1>2, VoidedKind
  <2>. QED  BY <1>2, <2>1, CreditsUntouched
<1>3. ASSUME NEW i \in DOMAIN invoices, VoidInvoice(i)  PROVE LedgerMirrorsPayments'
  BY <1>2, <1>3, VoidIsWhole
<1>4. ASSUME NEW i \in DOMAIN invoices, DeleteInvoice(i)  PROVE LedgerMirrorsPayments'
  BY <1>2, <1>4 DEF DeleteInvoice
<1>5. CASE PaymentStep
  BY <1>5, PaymentMirrored
<1>6. ASSUME NEW p \in DOMAIN payments, ReversePayment(p)  PROVE LedgerMirrorsPayments'
  BY <1>6, ReversalMirrored
<1>7. CASE payments' = payments /\ entries' = entries
  BY <1>7, CreditsUntouched
<1>8. ASSUME NEW i \in DOMAIN invoices, SendInvoice(i)  PROVE LedgerMirrorsPayments'
  BY <1>7, <1>8 DEF SendInvoice
<1>9. ASSUME NEW l \in Learners, DeactivateLearner(l)  PROVE LedgerMirrorsPayments'
  BY <1>7, <1>9 DEF DeactivateLearner, ledgerVars
<1>10. CASE NextDay \/ UNCHANGED vars
  BY <1>7, <1>10 DEF NextDay, vars, ledgerVars
<1>. QED
  BY StepShapes, <1>1, <1>3, <1>4, <1>5, <1>6, <1>8, <1>9, <1>10

\* The credits of the ledger are the payments, at all times.
THEOREM CreditsMirrorPayments == Spec => []LedgerMirrorsPayments
<1>1. Init => LedgerMirrorsPayments
  BY DEF Init, LedgerMirrorsPayments, CreditsHavePayments, PaymentsHaveCredits, CreditsPostedOnce
<1>2. TypeOK /\ LedgerMirrorsInvoices /\ LedgerMirrorsPayments /\ [Next]_vars
        => LedgerMirrorsPayments'
  BY MirrorsPaymentsStep
<1>. QED
  BY <1>1, <1>2, TypeCorrect, DebitsMirrorInvoices, PTL DEF Spec

------------------------------------------------------------------------------
(* Payment references. *)

\* Every request keeps the references of payments in force distinct.
LEMMA ReferencesStep ==
  TypeOK /\ ActiveReferencesUnique /\ [Next]_vars => ActiveReferencesUnique'
<1>. SUFFICES ASSUME TypeOK, ActiveReferencesUnique, [Next]_vars
              PROVE  ActiveReferencesUnique'
  OBVIOUS
<1>1. CASE PaymentStep
  <2>1. PICK l \in Learners, amount \in Receipts, ref \in Refs \cup {NoRef}, day \in PaymentDates :
          RecordPayment(l, amount, ref, day)
    BY <1>1 DEF PaymentStep
  <2>. DEFINE n == Len(payments) + 1
  <2>2. /\ DOMAIN payments' = DOMAIN payments \cup {n} /\ n \notin DOMAIN payments
        /\ \A p \in DOMAIN payments : payments'[p] = payments[p]
        /\ payments'[n] = [learner |-> l, amount |-> amount, ref |-> ref, day |-> day,
                           is_active |-> TRUE]
    BY <2>1, RecordPaymentFacts
  <2>3. payments'[n].ref = ref
    BY <2>2
  <2>4. ref # NoRef => \A p \in DOMAIN payments : payments[p].is_active => payments[p].ref # ref
    BY <2>1 DEF RecordPayment, IsDuplicateReference
  <2>. HIDE DEF n
  <2>. QED  BY <2>2, <2>3, <2>4 DEF ActiveReferencesUnique
<1>2. ASSUME NEW p \in DOMAIN payments, ReversePayment(p)
      PROVE  ActiveReferencesUnique'
  <2>1. DOMAIN payments' = DOMAIN payments
    BY <1>2, ReverseFacts
  <2>2. ASSUME NEW q \in DOMAIN payments
        PROVE  /\ payments'[q].ref = payments[q].ref
               /\ payments'[q].is_active => payments[q].is_active
    <3>1. payments[q] \in PaymentRow
      BY LenProperties, ElementOfSeq DEF TypeOK
    <3>2. payments'[q] = IF q = p THEN [payments[q] EXCEPT !.is_active = FALSE] ELSE payments[q]
      BY <1>2, ReverseFacts
    <3>. QED  BY <3>1, <3>2 DEF PaymentRow
  <2>. QED  BY <2>1, <2>2 DEF ActiveReferencesUnique
<1>3. CASE payments' = payments
  BY <1>3 DEF ActiveReferencesUnique
<1>4. CASE IssueStep
  BY <1>3, <1>4, IssueShape DEF Issued
<1>5. ASSUME NEW i \in DOMAIN invoices, VoidInvoice(i) \/ DeleteInvoice(i) \/ SendInvoice(i)
      PROVE  ActiveReferencesUnique'
  BY <1>3, <1>5 DEF VoidInvoice, DeleteInvoice, SendInvoice
<1>6. ASSUME NEW l \in Learners, DeactivateLearner(l)  PROVE ActiveReferencesUnique'
  BY <1>3, <1>6 DEF DeactivateLearner, ledgerVars
<1>7. CASE NextDay \/ UNCHANGED vars
  BY <1>3, <1>7 DEF NextDay, vars, ledgerVars
<1>. QED
  BY StepShapes, <1>1, <1>2, <1>4, <1>5, <1>6, <1>7

\* At most one counting payment carries a given reference, at all times.
THEOREM ReferencesUnique == Spec => []ActiveReferencesUnique
<1>1. Init => ActiveReferencesUnique
  BY DEF Init, ActiveReferencesUnique
<1>2. TypeOK /\ ActiveReferencesUnique /\ [Next]_vars => ActiveReferencesUnique'
  BY ReferencesStep
<1>. QED
  BY <1>1, <1>2, TypeCorrect, PTL DEF Spec

------------------------------------------------------------------------------
(* The cached balances. *)

\* Two ledgers in which a learner has the same unvoided rows give the learner
\* the same balance.
LEMMA SameRowsSameBalance ==
  ASSUME NEW es, NEW new, NEW l, OpenOf(new, l) = OpenOf(es, l),
         \A k \in OpenOf(es, l) : Signed(new[k]) = Signed(es[k])
  PROVE  ComputeBalance(new, l) = ComputeBalance(es, l)
<1>1. {<<k, Signed(new[k])>> : k \in OpenOf(new, l)} = {<<k, Signed(es[k])>> : k \in OpenOf(es, l)}
  OBVIOUS
<1>. QED  BY <1>1 DEF ComputeBalance, TotalOf

\* A set of row positions that is not empty has a first one.
LEMMA FirstRow ==
  ASSUME NEW K \in SUBSET Nat, K # {}
  PROVE  \E j \in K : \A m \in K : j <= m
<1>1. PICK j \in K : \A m \in K : <<m, j>> \notin OpToRel(<, Nat)
  BY NatLessThanWellFounded, WFMin
<1>2. ASSUME NEW m \in K  PROVE j <= m
  <2>1. j \in Nat /\ m \in Nat
    OBVIOUS
  <2>2. ~(m < j)
    BY <1>1, <2>1 DEF OpToRel
  <2>. QED  BY <2>1, <2>2
<1>. QED  BY <1>2

\* Voiding rows of which none is l's leaves l's balance.
LEMMA VoidingOthers ==
  ASSUME TypeOK, NEW K, entries' = VoidRows(entries, K), NEW l \in Learners,
         \A k \in K : k \in DOMAIN entries => entries[k].learner # l
  PROVE  ComputeBalance(entries', l) = ComputeBalance(entries, l)
<1>1. DOMAIN entries' = DOMAIN entries
  BY VoidingKeepsRows
<1>2. ASSUME NEW k \in DOMAIN entries
      PROVE  entries'[k] = entries[k] \/ (entries[k].learner # l /\ entries'[k].learner # l)
  <2>1. /\ entries[k] \in EntryRow
        /\ entries'[k] = IF k \in K THEN [entries[k] EXCEPT !.is_voided = TRUE] ELSE entries[k]
    BY VoidingKeepsRows
  <2>. QED  BY <2>1 DEF EntryRow
<1>3. OpenOf(entries', l) = OpenOf(entries, l)
  BY <1>1, <1>2 DEF OpenOf, Unvoided
<1>4. \A k \in OpenOf(entries, l) : entries'[k] = entries[k]
  BY <1>2 DEF OpenOf, Unvoided
<1>5. \A k \in OpenOf(entries, l) : Signed(entries'[k]) = Signed(entries[k])
  BY <1>4
<1>. QED
  <2>. DEFINE new == entries'
  <2>1. OpenOf(new, l) = OpenOf(entries, l) /\ \A k \in OpenOf(entries, l) : Signed(new[k]) = Signed(entries[k])
    BY <1>3, <1>5
  <2>. QED  BY <2>1, SameRowsSameBalance

\* Appending rows of which none is l's leaves l's balance.
LEMMA AppendingOthers ==
  ASSUME NEW l,
         \A k \in DOMAIN entries : k \in DOMAIN entries' /\ entries'[k] = entries[k],
         \A k \in DOMAIN entries' : k \notin DOMAIN entries => entries'[k].learner # l
  PROVE  ComputeBalance(entries', l) = ComputeBalance(entries, l)
<1>1. OpenOf(entries', l) = OpenOf(entries, l)
  BY DEF OpenOf, Unvoided
<1>2. \A k \in OpenOf(entries, l) : entries'[k] = entries[k]
  BY DEF OpenOf, Unvoided
<1>3. \A k \in OpenOf(entries, l) : Signed(entries'[k]) = Signed(entries[k])
  BY <1>2
<1>. QED
  <2>. DEFINE new == entries'
  <2>1. /\ OpenOf(new, l) = OpenOf(entries, l)
        /\ \A k \in OpenOf(entries, l) : Signed(new[k]) = Signed(entries[k])
    BY <1>1, <1>3
  <2>. QED  BY <2>1, SameRowsSameBalance

\* What is on an invoice never changes.
LEMMA LinesKept ==
  ASSUME TypeOK, NEW i \in DOMAIN invoices, NEW status \in {"Generated", "Sent", "Void"},
         NEW voided \in BOOLEAN, SetInvoice(i, status, voided)
  PROVE  \A j \in DOMAIN invoices : invoices'[j].lines = invoices[j].lines
<1>. SUFFICES ASSUME NEW j \in DOMAIN invoices  PROVE invoices'[j].lines = invoices[j].lines
  OBVIOUS
<1>1. invoices[i] \in InvoiceRow
  BY LenProperties, ElementOfSeq DEF TypeOK
<1>2. /\ invoices'[i] = [invoices[i] EXCEPT !.status = status, !.voided = voided]
      /\ j # i => invoices'[j] = invoices[j]
  BY SetInvoiceFacts
<1>3. [invoices[i] EXCEPT !.status = status, !.voided = voided].lines = invoices[i].lines
  BY <1>1 DEF InvoiceRow
<1>. QED  BY <1>2, <1>3

\* A cache stays explained when the step refreshed it, or left it and the
\* learner's balance alone, or deleted a family invoice of the learner.
LEMMA CacheKept ==
  ASSUME CacheStaleOnlyAfterDelete, NEW S, balance' = SyncBalanceCache(balance, entries', S),
         DOMAIN balance = Learners,
         \A l \in Learners : l \notin S =>
           ComputeBalance(entries', l) = ComputeBalance(entries, l) \/ LeftStaleByDelete(l)',
         deleted \subseteq deleted', deleted \subseteq DOMAIN invoices,
         \A i \in DOMAIN invoices : invoices'[i].lines = invoices[i].lines
  PROVE  CacheStaleOnlyAfterDelete'
<1>. SUFFICES ASSUME NEW l \in Learners
              PROVE  balance'[l] = ComputeBalance(entries', l) \/ LeftStaleByDelete(l)'
  BY DEF CacheStaleOnlyAfterDelete
<1>1. LeftStaleByDelete(l) => LeftStaleByDelete(l)'
  BY DEF LeftStaleByDelete, Covered
<1>2. balance'[l] = IF l \in S THEN ComputeBalance(entries', l) ELSE balance[l]
  BY SyncFacts
<1>3. balance[l] = ComputeBalance(entries, l) \/ LeftStaleByDelete(l)
  BY DEF CacheStaleOnlyAfterDelete
<1>. QED  BY <1>1, <1>2, <1>3

\* Issuing an invoice refreshes the caches of all whose balance changes.
LEMMA CacheAfterIssue ==
  ASSUME TypeOK, CacheStaleOnlyAfterDelete, IssueStep
  PROVE  CacheStaleOnlyAfterDelete'
<1>1. PICK inv, order : Issued(inv, order)
  BY IssueShape
<1>. DEFINE S == Covered(inv)
<1>2. /\ balance' = SyncBalanceCache(balance, entries', S)
      /\ deleted' = deleted
  BY <1>1 DEF Issued
<1>3. \A i \in DOMAIN invoices : invoices'[i] = invoices[i]
  BY <1>1 DEF Issued, NumberIssued
<1>4. /\ \A k \in DOMAIN entries : k \in DOMAIN entries' /\ entries'[k] = entries[k]
      /\ \A k \in DOMAIN entries' : k \notin DOMAIN entries =>
           \E m \in DOMAIN order : k = Len(entries) + m
  BY <1>1 DEF Issued, RowsIssued
<1>5. \A m \in DOMAIN order : entries'[Len(entries) + m].learner \in S
  <2>1. ASSUME NEW m \in DOMAIN order
        PROVE  entries'[Len(entries) + m].learner = order[m]
    <3>1. entries'[Len(entries) + m]
            = Debit(order[m], Len(invoices) + 1, inv.lines[order[m]], today)
      BY <1>1 DEF Issued, RowsIssued
    <3>. QED  BY <3>1 DEF Debit, Posting
  <2>2. \A m \in DOMAIN order : order[m] \in DOMAIN inv.lines
    BY <1>1, NewRows
  <2>. QED  BY <2>1, <2>2 DEF Covered
<1>6. \A k \in DOMAIN entries' : k \notin DOMAIN entries => entries'[k].learner \in S
  BY <1>4, <1>5
<1>. HIDE DEF S
<1>7. ASSUME NEW l \in Learners, l \notin S
      PROVE  ComputeBalance(entries', l) = ComputeBalance(entries, l)
  <2>1. \A k \in DOMAIN entries' : k \notin DOMAIN entries => entries'[k].learner # l
    BY <1>6, <1>7
  <2>. QED  BY <1>4, <2>1, AppendingOthers
<1>8. DOMAIN balance = Learners /\ deleted \subseteq DOMAIN invoices
  BY DEF TypeOK
<1>. QED  BY <1>2, <1>3, <1>7, <1>8, CacheKept

\* Recording a payment refreshes the cache of its learner.
LEMMA CacheAfterPayment ==
  ASSUME TypeOK, CacheStaleOnlyAfterDelete, PaymentStep
  PROVE  CacheStaleOnlyAfterDelete'
<1>1. PICK l \in Learners, amount \in Receipts, ref \in Refs \cup {NoRef}, day \in PaymentDates :
        RecordPayment(l, amount, ref, day)
  BY DEF PaymentStep
<1>2. /\ balance' = SyncBalanceCache(balance, entries', {l})
      /\ deleted' = deleted /\ invoices' = invoices
  BY <1>1 DEF RecordPayment
<1>3. /\ DOMAIN entries' = DOMAIN entries \cup {Len(entries) + 1}
      /\ \A k \in DOMAIN entries : entries'[k] = entries[k]
      /\ entries'[Len(entries) + 1] = Credit(l, Len(payments) + 1, amount, day)
  BY <1>1, RecordPaymentFacts
<1>4. entries'[Len(entries) + 1].learner = l
  BY <1>3 DEF Credit, Posting
<1>5. ASSUME NEW m \in Learners, m \notin {l}
      PROVE  ComputeBalance(entries', m) = ComputeBalance(entries, m)
  <2>1. \A k \in DOMAIN entries' : k \notin DOMAIN entries => entries'[k].learner # m
    BY <1>3, <1>4, <1>5
  <2>. QED  BY <1>3, <2>1, AppendingOthers
<1>6. DOMAIN balance = Learners /\ deleted \subseteq DOMAIN invoices
  BY DEF TypeOK
<1>. QED  BY <1>2, <1>5, <1>6, CacheKept

\* Voiding an invoice or reversing a payment refreshes everyone it concerns.
LEMMA CacheAfterVoiding ==
  ASSUME TypeOK, CacheStaleOnlyAfterDelete, NEW K, K \subseteq DOMAIN entries,
         entries' = VoidRows(entries, K),
         balance' = SyncBalanceCache(balance, entries', {entries[k].learner : k \in K}),
         deleted' = deleted,
         \A i \in DOMAIN invoices : invoices'[i].lines = invoices[i].lines
  PROVE  CacheStaleOnlyAfterDelete'
<1>. DEFINE S == {entries[k].learner : k \in K}
<1>1. ASSUME NEW l \in Learners, l \notin S
      PROVE  ComputeBalance(entries', l) = ComputeBalance(entries, l)
  BY <1>1, VoidingOthers
<1>2. DOMAIN balance = Learners /\ deleted \subseteq DOMAIN invoices
  BY DEF TypeOK
<1>3. balance' = SyncBalanceCache(balance, entries', S)
  OBVIOUS
<1>. HIDE DEF S
<1>. QED  BY <1>1, <1>2, <1>3, CacheKept

\* DELETE refreshes one learner; whoever else loses a charge was covered by the
\* same invoice.
LEMMA CacheAfterDelete ==
  ASSUME TypeOK, LedgerMirrorsInvoices, CacheStaleOnlyAfterDelete,
         NEW i \in DOMAIN invoices, DeleteInvoice(i)
  PROVE  CacheStaleOnlyAfterDelete'
<1>. DEFINE rows == OpenFor(entries, "DR", i)
            S    == FirstLearner(rows)
<1>1. /\ SetInvoice(i, "Void", TRUE)
      /\ entries' = VoidRows(entries, rows)
      /\ balance' = SyncBalanceCache(balance, entries', S)
      /\ deleted' = deleted \cup {i}
  BY DEF DeleteInvoice
<1>2. DOMAIN balance = Learners /\ deleted \subseteq DOMAIN invoices
  BY DEF TypeOK
<1>3. \A j \in DOMAIN invoices : invoices'[j].lines = invoices[j].lines
  BY <1>1, LinesKept
<1>4. \A k \in rows : k \in DOMAIN entries /\ entries[k].learner \in Covered(invoices[i])
  BY DEF LedgerMirrorsInvoices, DebitsHaveInvoices, OpenFor, Unvoided
<1>5. rows \in SUBSET Nat
  <2>1. DOMAIN entries \subseteq Nat
    BY LenProperties DEF TypeOK
  <2>. QED  BY <1>4, <2>1
<1>. HIDE DEF rows
<1>6. ASSUME NEW l \in Learners, l \notin S
      PROVE  ComputeBalance(entries', l) = ComputeBalance(entries, l) \/ LeftStaleByDelete(l)'
  <2>1. CASE \A k \in rows : entries[k].learner # l
    BY <1>1, <2>1, VoidingOthers
  <2>2. CASE \E k \in rows : entries[k].learner = l
    <3>1. PICK k \in rows : entries[k].learner = l
      BY <2>2
    <3>2. PICK j \in rows : \A m \in rows : j <= m
      BY <1>5, <3>1, FirstRow
    <3>3. entries[j].learner \in S
      BY <3>2 DEF FirstLearner, Earliest
    <3>4. /\ l \in Covered(invoices[i]) /\ entries[j].learner \in Covered(invoices[i])
          /\ entries[j].learner # l
      BY <1>4, <1>6, <3>1, <3>2, <3>3
    <3>5. Covered(invoices'[i]) = Covered(invoices[i])
      BY <1>3 DEF Covered
    <3>6. i \in deleted'
      BY <1>1
    <3>. QED  BY <3>4, <3>5, <3>6 DEF LeftStaleByDelete
  <2>. QED  BY <2>1, <2>2
<1>7. deleted \subseteq deleted'
  BY <1>1
<1>. HIDE DEF S
<1>. QED  BY <1>1, <1>2, <1>3, <1>6, <1>7, CacheKept

\* Every request leaves no cache stale, deletion of a family invoice excepted.
LEMMA CacheStep ==
  TypeOK /\ LedgerMirrorsInvoices /\ CacheStaleOnlyAfterDelete /\ [Next]_vars
    => CacheStaleOnlyAfterDelete'
<1>. SUFFICES ASSUME TypeOK, LedgerMirrorsInvoices, CacheStaleOnlyAfterDelete, [Next]_vars
              PROVE  CacheStaleOnlyAfterDelete'
  OBVIOUS
<1>1. CASE IssueStep
  BY <1>1, CacheAfterIssue
<1>2. CASE PaymentStep
  BY <1>2, CacheAfterPayment
<1>3. ASSUME NEW i \in DOMAIN invoices, VoidInvoice(i)  PROVE CacheStaleOnlyAfterDelete'
  <2>. DEFINE K == {k \in OpenFor(entries, "DR", i) :
                      entries[k].learner \in Covered(invoices[i])}
  <2>1. /\ SetInvoice(i, "Void", TRUE)
        /\ entries' = VoidRows(entries, K)
        /\ balance' = SyncBalanceCache(balance, entries', {entries[k].learner : k \in K})
        /\ deleted' = deleted
    BY <1>3 DEF VoidInvoice
  <2>2. \A j \in DOMAIN invoices : invoices'[j].lines = invoices[j].lines
    BY <2>1, LinesKept
  <2>3. K \subseteq DOMAIN entries
    BY DEF OpenFor, Unvoided
  <2>. HIDE DEF K
  <2>. QED  BY <2>1, <2>2, <2>3, CacheAfterVoiding
<1>4. ASSUME NEW i \in DOMAIN invoices, DeleteInvoice(i)  PROVE CacheStaleOnlyAfterDelete'
  BY <1>4, CacheAfterDelete
<1>5. ASSUME NEW p \in DOMAIN payments, ReversePayment(p)  PROVE CacheStaleOnlyAfterDelete'
  <2>. DEFINE K == Earliest(OpenFor(entries, "CR", p))
  <2>1. /\ entries' = VoidRows(entries, K)
        /\ balance' = SyncBalanceCache(balance, entries', {entries[k].learner : k \in K})
        /\ deleted' = deleted /\ invoices' = invoices
    BY <1>5 DEF ReversePayment
  <2>2. K \subseteq DOMAIN entries
    BY DEF OpenFor, Unvoided, Earliest
  <2>. HIDE DEF K
  <2>. QED  BY <2>1, <2>2, CacheAfterVoiding
<1>6. CASE UNCHANGED <<entries, balance, deleted>>
           /\ \A j \in DOMAIN invoices : invoices'[j].lines = invoices[j].lines
  <2>1. deleted \subseteq DOMAIN invoices
    BY DEF TypeOK
  <2>. QED  BY <1>6, <2>1 DEF CacheStaleOnlyAfterDelete, LeftStaleByDelete, Covered, ComputeBalance
<1>7. ASSUME NEW i \in DOMAIN invoices, SendInvoice(i)  PROVE CacheStaleOnlyAfterDelete'
  <2>1. invoices[i] \in InvoiceRow
    BY LenProperties, ElementOfSeq DEF TypeOK
  <2>2. invoices[i].voided \in BOOLEAN
    BY <2>1 DEF InvoiceRow
  <2>3. \A j \in DOMAIN invoices : invoices'[j].lines = invoices[j].lines
    BY <1>7, <2>2, LinesKept DEF SendInvoice
  <2>. QED  BY <1>6, <1>7, <2>3 DEF SendInvoice
<1>8. ASSUME NEW l \in Learners, DeactivateLearner(l)  PROVE CacheStaleOnlyAfterDelete'
  BY <1>6, <1>8 DEF DeactivateLearner, ledgerVars
<1>9. CASE NextDay \/ UNCHANGED vars
  BY <1>6, <1>9 DEF NextDay, vars, ledgerVars
<1>. QED
  BY StepShapes, <1>1, <1>2, <1>3, <1>4, <1>5, <1>7, <1>8, <1>9

\* The balance the sum over no rows gives is the one Init stores.
LEMMA EmptyLedgerBalance == \A l : ComputeBalance(<<>>, l) = 0
<1>. SUFFICES ASSUME NEW l  PROVE ComputeBalance(<<>>, l) = 0
  OBVIOUS
<1>1. {<<k, Signed(<<>>[k])>> : k \in OpenOf(<<>>, l)} = {}
  BY DEF OpenOf, Unvoided
<1>. QED  BY <1>1, SumOfNothing DEF ComputeBalance, TotalOf

\* The cached balance of a learner is the ledger's, at all times, unless a
\* family invoice of the learner was deleted.
THEOREM CacheIsLedger == Spec => []CacheStaleOnlyAfterDelete
<1>1. Init => CacheStaleOnlyAfterDelete
  BY EmptyLedgerBalance DEF Init, CacheStaleOnlyAfterDelete
<1>2. TypeOK /\ LedgerMirrorsInvoices /\ CacheStaleOnlyAfterDelete /\ [Next]_vars
        => CacheStaleOnlyAfterDelete'
  BY CacheStep
<1>. QED
  BY <1>1, <1>2, TypeCorrect, DebitsMirrorInvoices, PTL DEF Spec

------------------------------------------------------------------------------
(* Invoice numbers and double billing. *)

\* What a step that issues nothing leaves of the invoices.
KeptInvoices ==
  /\ invoice_counter' = invoice_counter
  /\ figures' = figures
  /\ DOMAIN invoices' = DOMAIN invoices
  /\ \A i \in DOMAIN invoices :
       /\ invoices'[i].number = invoices[i].number
       /\ invoices'[i].learner = invoices[i].learner
       /\ invoices'[i].lines = invoices[i].lines
       /\ invoices'[i].period = invoices[i].period
       /\ invoices'[i].month_end = invoices[i].month_end
       /\ invoices[i].voided => invoices'[i].voided
       /\ invoices'[i].status = "Void" => invoices'[i].voided \/ invoices'[i] = invoices[i]

\* A change of status keeps the lines and the number of every invoice.
LEMMA SetInvoiceKeeps ==
  ASSUME TypeOK, NEW i \in DOMAIN invoices, NEW status \in {"Generated", "Sent", "Void"},
         NEW voided \in BOOLEAN, SetInvoice(i, status, voided),
         invoices[i].voided => voided, status = "Void" => voided,
         UNCHANGED <<figures, invoice_counter>>
  PROVE  KeptInvoices
<1>1. /\ DOMAIN invoices' = DOMAIN invoices
      /\ invoices'[i] = [invoices[i] EXCEPT !.status = status, !.voided = voided]
      /\ \A j \in DOMAIN invoices : j # i => invoices'[j] = invoices[j]
  BY SetInvoiceFacts
<1>2. invoices[i] \in InvoiceRow
  BY LenProperties, ElementOfSeq DEF TypeOK
<1>3. /\ invoices'[i].number = invoices[i].number
      /\ invoices'[i].learner = invoices[i].learner
      /\ invoices'[i].lines = invoices[i].lines
      /\ invoices'[i].period = invoices[i].period
      /\ invoices'[i].month_end = invoices[i].month_end
      /\ invoices'[i].voided = voided
      /\ invoices'[i].status = status
  BY <1>1, <1>2 DEF InvoiceRow
<1>4. ASSUME NEW j \in DOMAIN invoices
      PROVE  /\ invoices'[j].number = invoices[j].number
             /\ invoices'[j].learner = invoices[j].learner
             /\ invoices'[j].lines = invoices[j].lines
             /\ invoices'[j].period = invoices[j].period
             /\ invoices'[j].month_end = invoices[j].month_end
             /\ invoices[j].voided => invoices'[j].voided
             /\ invoices'[j].status = "Void" => invoices'[j].voided \/ invoices'[j] = invoices[j]
  <2>1. CASE j = i
    BY <1>3, <2>1
  <2>2. CASE j # i
    BY <1>1, <2>2
  <2>. QED  BY <2>1, <2>2
<1>. QED  BY <1>1, <1>4 DEF KeptInvoices

\* A request issues one invoice or keeps those there are.
LEMMA KeptOrIssued ==
  ASSUME TypeOK, [Next]_vars
  PROVE  IssueStep \/ KeptInvoices
<1>1. ASSUME UNCHANGED <<invoices, figures, invoice_counter>>  PROVE KeptInvoices
  BY <1>1 DEF KeptInvoices
<1>2. ASSUME NEW i \in DOMAIN invoices, VoidInvoice(i) \/ DeleteInvoice(i)  PROVE KeptInvoices
  BY <1>2, SetInvoiceKeeps DEF VoidInvoice, DeleteInvoice
<1>3. ASSUME NEW i \in DOMAIN invoices, SendInvoice(i)  PROVE KeptInvoices
  <2>1. invoices[i] \in InvoiceRow
    BY LenProperties, ElementOfSeq DEF TypeOK
  <2>2. invoices[i].voided \in BOOLEAN
    BY <2>1 DEF InvoiceRow
  <2>. QED  BY <1>3, <2>2, SetInvoiceKeeps DEF SendInvoice
<1>4. ASSUME NEW p \in DOMAIN payments, ReversePayment(p)  PROVE KeptInvoices
  BY <1>1, <1>4 DEF ReversePayment
<1>5. ASSUME NEW l \in Learners, DeactivateLearner(l)  PROVE KeptInvoices
  BY <1>1, <1>5 DEF DeactivateLearner, ledgerVars
<1>6. CASE PaymentStep
  BY <1>1, <1>6 DEF PaymentStep, RecordPayment
<1>7. CASE NextDay \/ UNCHANGED vars
  BY <1>1, <1>7 DEF NextDay, vars, ledgerVars
<1>. QED
  BY StepShapes, <1>2, <1>3, <1>4, <1>5, <1>6, <1>7

\* The counter is never ahead of the calendar, and no invoice number is ahead
\* of the counter.
NumbersBehindCounter ==
  /\ invoice_counter.year <= Year(today)
  /\ \A i \in DOMAIN invoices :
       invoices[i].number = invoice_counter \/ Before(invoices[i].number, invoice_counter)

\* A later day is not in an earlier year.
LEMMA YearGrows == \A day \in Nat : Year(day) <= Year(day + 1)
<1>. SUFFICES ASSUME NEW day \in Nat  PROVE day \div DaysPerYear <= (day + 1) \div DaysPerYear
  BY DEF Year
<1>1. DaysPerYear \in Nat /\ DaysPerYear > 0
  BY YearAssumption
<1>. QED  BY <1>1

\* No step takes the clock back to an earlier year.
LEMMA TodayGrows ==
  ASSUME TypeOK, [Next]_vars
  PROVE  Year(today) \in Nat /\ Year(today) <= Year(today')
<1>0. today \in Nat
  BY YearAssumption DEF TypeOK
<1>1. CASE today' = today
  BY <1>0, <1>1, YearIsNat
<1>2. CASE NextDay
  BY <1>0, <1>2, YearIsNat, YearGrows DEF NextDay
<1>3. CASE IssueStep
  BY <1>1, <1>3, IssueShape DEF Issued
<1>4. ASSUME NEW i \in DOMAIN invoices, VoidInvoice(i) \/ DeleteInvoice(i) \/ SendInvoice(i)
      PROVE  Year(today) \in Nat /\ Year(today) <= Year(today')
  BY <1>1, <1>4 DEF VoidInvoice, DeleteInvoice, SendInvoice
<1>5. CASE PaymentStep
  BY <1>1, <1>5 DEF PaymentStep, RecordPayment
<1>6. ASSUME NEW p \in DOMAIN payments, ReversePayment(p)
      PROVE  Year(today) \in Nat /\ Year(today) <= Year(today')
  BY <1>1, <1>6 DEF ReversePayment
<1>7. ASSUME NEW l \in Learners, DeactivateLearner(l)
      PROVE  Year(today) \in Nat /\ Year(today) <= Year(today')
  BY <1>1, <1>7 DEF DeactivateLearner
<1>8. CASE UNCHANGED vars
  BY <1>1, <1>8 DEF vars
<1>. QED
  BY StepShapes, <1>2, <1>3, <1>4, <1>5, <1>6, <1>7, <1>8

\* Every request keeps the numbers in order and behind the counter.
LEMMA NumbersStep ==
  TypeOK /\ NumbersBehindCounter /\ InvoiceNumbersInOrder /\ [Next]_vars
    => NumbersBehindCounter' /\ InvoiceNumbersInOrder'
<1>. SUFFICES ASSUME TypeOK, NumbersBehindCounter, InvoiceNumbersInOrder, [Next]_vars
              PROVE  NumbersBehindCounter' /\ InvoiceNumbersInOrder'
  OBVIOUS
<1>0. /\ invoice_counter \in [year : Nat, seq : Nat]
      /\ \A i \in DOMAIN invoices : invoices[i].number \in [year : Nat, seq : Nat]
  <2>1. \A i \in DOMAIN invoices : invoices[i] \in InvoiceRow
    BY LenProperties, ElementOfSeq DEF TypeOK
  <2>. QED  BY <2>1 DEF TypeOK, InvoiceRow
<1>1. Year(today) \in Nat /\ Year(today) <= Year(today')
  BY TodayGrows
<1>2. CASE IssueStep
  <2>1. PICK inv, order : Issued(inv, order)
    BY <1>2, IssueShape
  <2>. DEFINE n == Len(invoices) + 1
  <2>2. inv \in InvoiceRow
    BY <2>1 DEF Issued, MayIssue
  <2>3. /\ n \notin DOMAIN invoices
        /\ DOMAIN invoices' = DOMAIN invoices \cup {n}
        /\ \A i \in DOMAIN invoices : invoices'[i] = invoices[i]
        /\ invoices'[n] = [inv EXCEPT !.number = invoice_counter']
    BY <2>1 DEF Issued, NumberIssued
  <2>4. invoices'[n].number = invoice_counter'
    BY <2>2, <2>3 DEF InvoiceRow
  <2>5. /\ invoice_counter' = NextInvoiceNumber(invoice_counter, Year(today))
        /\ today' = today
    BY <2>1 DEF Issued
  <2>6. invoice_counter'.year = Year(today) /\ Before(invoice_counter, invoice_counter')
    BY <1>0, <1>1, <2>5 DEF NextInvoiceNumber, NumbersBehindCounter, Before
  <2>7. invoice_counter' \in [year : Nat, seq : Nat]
    BY <1>0, <1>1, <2>5 DEF NextInvoiceNumber
  <2>8. ASSUME NEW i \in DOMAIN invoices
        PROVE  Before(invoices'[i].number, invoice_counter')
    <3>1. invoices[i].number = invoice_counter \/ Before(invoices[i].number, invoice_counter)
      BY DEF NumbersBehindCounter
    <3>. QED  BY <1>0, <2>3, <2>6, <2>7, <3>1 DEF Before
  <2>9. n \in Nat /\ \A i \in DOMAIN invoices : i \in Nat /\ i < n
    BY LenProperties DEF TypeOK
  <2>. HIDE DEF n
  <2>10. NumbersBehindCounter'
    BY <1>1, <2>3, <2>4, <2>5, <2>6, <2>8 DEF NumbersBehindCounter
  <2>11. InvoiceNumbersInOrder'
    <3>. SUFFICES ASSUME NEW i \in DOMAIN invoices', NEW j \in DOMAIN invoices', i < j
                  PROVE  Before(invoices'[i].number, invoices'[j].number)
      BY DEF InvoiceNumbersInOrder
    <3>1. CASE j = n
      <4>1. i \in DOMAIN invoices
        BY <2>3, <2>9, <3>1
      <4>. QED  BY <2>4, <2>8, <3>1, <4>1
    <3>2. CASE j \in DOMAIN invoices
      <4>1. i \in DOMAIN invoices
        BY <2>3, <2>9, <3>2
      <4>. QED  BY <2>3, <3>2, <4>1 DEF InvoiceNumbersInOrder
    <3>. QED  BY <2>3, <3>1, <3>2
  <2>. QED  BY <2>10, <2>11
<1>3. CASE KeptInvoices
  <2>1. /\ invoice_counter' = invoice_counter
        /\ DOMAIN invoices' = DOMAIN invoices
        /\ \A i \in DOMAIN invoices : invoices'[i].number = invoices[i].number
    BY <1>3 DEF KeptInvoices
  <2>2. Year(today') \in Nat
    <3>1. today' \in Nat
      BY TypeStep, YearAssumption DEF TypeOK
    <3>. QED  BY <3>1, YearIsNat
  <2>3. invoice_counter'.year <= Year(today')
    BY <1>0, <1>1, <2>1, <2>2 DEF NumbersBehindCounter
  <2>4. NumbersBehindCounter'
    BY <2>1, <2>3 DEF NumbersBehindCounter, Year
  <2>5. InvoiceNumbersInOrder'
    BY <2>1 DEF InvoiceNumbersInOrder
  <2>. QED  BY <2>4, <2>5
<1>. QED  BY <1>2, <1>3, KeptOrIssued

\* Invoice numbers never repeat and grow with the invoice id, whatever number
\* of years pass and of invoices are issued in each.
THEOREM NumbersInOrder == Spec => []InvoiceNumbersInOrder
<1>1. Init => NumbersBehindCounter /\ InvoiceNumbersInOrder
  <2>1. 0 \in Nat /\ Year(0) \in Nat
    BY YearIsNat
  <2>. QED  BY <2>1 DEF Init, NumbersBehindCounter, InvoiceNumbersInOrder
<1>2. TypeOK /\ NumbersBehindCounter /\ InvoiceNumbersInOrder /\ [Next]_vars
        => NumbersBehindCounter' /\ InvoiceNumbersInOrder'
  BY NumbersStep
<1>. QED
  BY <1>1, <1>2, TypeCorrect, PTL DEF Spec

\* An invoice that is not a family invoice covers its learner only, and an
\* invoice whose status is Void has been voided (but not the other way round:
\* mailing a void invoice makes it Sent).
InvoiceShape ==
  \A i \in DOMAIN invoices :
    /\ ~IsFamily(invoices[i]) => Covered(invoices[i]) = {invoices[i].learner}
    /\ invoices[i].status = "Void" => invoices[i].voided

\* Every request keeps the shape of invoices, and families billed once.
LEMMA BillingStep ==
  TypeOK /\ InvoiceShape /\ FamilyBillsOnce /\ [Next]_vars => InvoiceShape' /\ FamilyBillsOnce'
<1>. SUFFICES ASSUME TypeOK, InvoiceShape, FamilyBillsOnce, [Next]_vars
              PROVE  InvoiceShape' /\ FamilyBillsOnce'
  OBVIOUS
<1>1. CASE IssueStep
  <2>1. PICK inv, order : Issued(inv, order)
    BY <1>1, IssueShape
  <2>. DEFINE n == Len(invoices) + 1
  <2>2. MayIssue(inv) /\ inv \in InvoiceRow
    BY <2>1 DEF Issued, MayIssue
  <2>3. /\ n \notin DOMAIN invoices
        /\ DOMAIN invoices' = DOMAIN invoices \cup {n}
        /\ \A i \in DOMAIN invoices : invoices'[i] = invoices[i]
        /\ invoices'[n] = [inv EXCEPT !.number = invoice_counter']
    BY <2>1 DEF Issued, NumberIssued
  <2>4. /\ invoices'[n].learner = inv.learner /\ invoices'[n].lines = inv.lines
        /\ invoices'[n].period = inv.period /\ invoices'[n].month_end = inv.month_end
        /\ invoices'[n].status = inv.status /\ invoices'[n].voided = inv.voided
    BY <2>2, <2>3 DEF InvoiceRow
  <2>5. n \in Nat /\ \A i \in DOMAIN invoices : i \in Nat /\ i < n
    BY LenProperties DEF TypeOK
  <2>. HIDE DEF n
  <2>6. InvoiceShape'
    <3>1. ~IsFamily(invoices'[n]) => Covered(invoices'[n]) = {invoices'[n].learner}
      BY <2>2, <2>4 DEF MayIssue, IsFamily, Covered
    <3>2. invoices'[n].status # "Void"
      BY <2>2, <2>4 DEF MayIssue
    <3>. QED  BY <2>3, <3>1, <3>2 DEF InvoiceShape
  <2>7. ASSUME NEW i \in DOMAIN invoices, ~invoices[i].voided, invoices[i].period = inv.period,
               NEW l \in Covered(invoices[i]), l \in Covered(inv)
        PROVE  ~IsFamily(inv) /\ (inv.month_end => IsFamily(invoices[i]))
    <3>1. IsLive(invoices[i])
      BY <2>7 DEF InvoiceShape, IsLive
    <3>2. AlreadyBilled(l, inv.period)
      BY <2>7, <3>1 DEF AlreadyBilled
    <3>3. ~IsFamily(inv)
      BY <2>2, <2>7, <3>2 DEF MayIssue
    <3>4. Covered(inv) = {inv.learner}
      BY <2>2, <3>3 DEF MayIssue
    <3>5. ASSUME inv.month_end, ~IsFamily(invoices[i])  PROVE FALSE
      <4>1. Covered(invoices[i]) = {invoices[i].learner}
        BY <3>5 DEF InvoiceShape
      <4>2. i \in OwnLive(inv.learner)
        BY <2>7, <3>1, <3>4, <4>1 DEF OwnLive
      <4>. QED  BY <2>2, <2>7, <3>5, <4>2 DEF MayIssue
    <3>. QED  BY <3>3, <3>5
  <2>8. FamilyBillsOnce'
    <3>. SUFFICES ASSUME NEW i \in DOMAIN invoices', NEW j \in DOMAIN invoices',
                         i < j, ~invoices'[i].voided,
                         invoices'[i].period = invoices'[j].period,
                         Covered(invoices'[i]) \cap Covered(invoices'[j]) # {}
                  PROVE  /\ ~IsFamily(invoices'[j])
                         /\ invoices'[j].month_end => IsFamily(invoices'[i])
      BY DEF FamilyBillsOnce
    <3>0. i \in DOMAIN invoices
      BY <2>3, <2>5
    <3>1. CASE j = n
      <4>1. Covered(invoices'[n]) = Covered(inv) /\ (IsFamily(invoices'[n]) <=> IsFamily(inv))
        BY <2>4 DEF Covered, IsFamily
      <4>2. PICK l \in Covered(invoices[i]) : l \in Covered(inv)
        BY <2>3, <3>0, <3>1, <4>1
      <4>3. ~invoices[i].voided /\ invoices[i].period = inv.period
        BY <2>3, <2>4, <3>0, <3>1
      <4>4. ~IsFamily(inv) /\ (inv.month_end => IsFamily(invoices[i]))
        BY <2>7, <3>0, <4>2, <4>3
      <4>. QED  BY <2>3, <2>4, <3>0, <3>1, <4>1, <4>4
    <3>2. CASE j \in DOMAIN invoices
      BY <2>3, <3>0, <3>2 DEF FamilyBillsOnce
    <3>. QED  BY <2>3, <3>1, <3>2
  <2>. QED  BY <2>6, <2>8
<1>2. CASE KeptInvoices
  <2>1. DOMAIN invoices' = DOMAIN invoices
    BY <1>2 DEF KeptInvoices
  <2>2. ASSUME NEW i \in DOMAIN invoices
        PROVE  /\ invoices'[i].learner = invoices[i].learner
               /\ invoices'[i].lines = invoices[i].lines
               /\ invoices'[i].period = invoices[i].period
               /\ invoices'[i].month_end = invoices[i].month_end
               /\ invoices[i].voided => invoices'[i].voided
               /\ invoices'[i].status = "Void" => invoices'[i].voided
    BY <1>2 DEF KeptInvoices, InvoiceShape
  <2>3. \A i \in DOMAIN invoices :
          /\ Covered(invoices'[i]) = Covered(invoices[i])
          /\ IsFamily(invoices'[i]) <=> IsFamily(invoices[i])
    BY <2>2 DEF Covered, IsFamily
  <2>4. InvoiceShape'
    BY <2>1, <2>2, <2>3 DEF InvoiceShape
  <2>5. FamilyBillsOnce'
    <3>. SUFFICES ASSUME NEW i \in DOMAIN invoices, NEW j \in DOMAIN invoices,
                         i < j, ~invoices'[i].voided,
                         invoices'[i].period = invoices'[j].period,
                         Covered(invoices'[i]) \cap Covered(invoices'[j]) # {}
                  PROVE  /\ ~IsFamily(invoices'[j])
                         /\ invoices'[j].month_end => IsFamily(invoices'[i])
      BY <2>1 DEF FamilyBillsOnce
    <3>1. /\ ~invoices[i].voided /\ invoices[i].period = invoices[j].period
          /\ Covered(invoices[i]) \cap Covered(invoices[j]) # {}
      BY <2>2, <2>3
    <3>2. ~IsFamily(invoices[j]) /\ (invoices[j].month_end => IsFamily(invoices[i]))
      BY <3>1 DEF FamilyBillsOnce
    <3>. QED  BY <2>2, <2>3, <3>2
  <2>. QED  BY <2>4, <2>5
<1>. QED  BY <1>1, <1>2, KeptOrIssued

\* Invoices have their shape, and families are billed once, at all times.
LEMMA ShapeOfInvoices == Spec => []InvoiceShape /\ []FamilyBillsOnce
<1>1. Init => InvoiceShape /\ FamilyBillsOnce
  BY DEF Init, InvoiceShape, FamilyBillsOnce
<1>2. TypeOK /\ InvoiceShape /\ FamilyBillsOnce /\ [Next]_vars
        => InvoiceShape' /\ FamilyBillsOnce'
  BY BillingStep
<1>. QED
  BY <1>1, <1>2, TypeCorrect, PTL DEF Spec

\* No family invoice bills a learner a second time for a period, and no
\* month-end run a learner with an invoice of their own, at all times.
THEOREM FamilyNeverBillsTwice == Spec => []FamilyBillsOnce
  BY ShapeOfInvoices, PTL

------------------------------------------------------------------------------
(* Billing implements the account book of module Accounts: an invoice or a
   payment is posted whole, once, and withdrawn whole, whichever request does it. *)

Doc(e)  == <<e.dc, e.ref>>
Item(e) == [doc |-> Doc(e), learner |-> e.learner, amount |-> e.amount]

OpenItems   == Items(Unvoided(entries))
ClosedItems == Items(DOMAIN entries \ Unvoided(entries))

\* What it is to be an item in force.
LEMMA OpenMember ==
  \A x : x \in OpenItems <=>
    \E k \in DOMAIN entries : ~entries[k].is_voided /\ x = Item(entries[k])
BY DEF OpenItems, Items, Unvoided, Item, Doc

\* What it is to be a withdrawn item.
LEMMA ClosedMember ==
  \A x : x \in ClosedItems <=>
    \E k \in DOMAIN entries : entries[k].is_voided /\ x = Item(entries[k])
BY DEF ClosedItems, Items, Unvoided, Item, Doc

\* The document and the learner of the item of a row.
LEMMA ItemFields ==
  \A e : Item(e).doc = Doc(e) /\ Item(e).learner = e.learner
BY DEF Item

\* Two rows are of one document if they agree in kind and number.
LEMMA SameItemsAreOne ==
  \A e, f : Doc(e) = Doc(f) <=> e.dc = f.dc /\ e.ref = f.ref
BY DEF Doc

\* A step of the account book, or a stutter.
BookStep == [Books!Next]_<<OpenItems, ClosedItems>>

\* Rows appended for a document that had none, unvoided and for different
\* learners, are a Post.
LEMMA AppendIsPost ==
  ASSUME NEW doc,
         \A k \in DOMAIN entries :
           k \in DOMAIN entries' /\ entries'[k] = entries[k] /\ Doc(entries[k]) # doc,
         \A k \in DOMAIN entries' : k \notin DOMAIN entries =>
           ~entries'[k].is_voided /\ Doc(entries'[k]) = doc,
         \A j, k \in DOMAIN entries' : j \notin DOMAIN entries /\ k \notin DOMAIN entries
           /\ entries'[j].learner = entries'[k].learner => j = k
  PROVE  BookStep
<1>1. \A x : x \in OpenItems' <=>
        \E k \in DOMAIN entries' : ~entries'[k].is_voided /\ x = Item(entries'[k])
  BY OpenMember DEF OpenItems, Items, Unvoided, Item, Doc
<1>2. \A x : x \in ClosedItems' <=>
        \E k \in DOMAIN entries' : entries'[k].is_voided /\ x = Item(entries'[k])
  BY DEF ClosedItems, Items, Unvoided, Item, Doc
<1>3. ClosedItems' = ClosedItems
  BY <1>2, ClosedMember
<1>4. OpenItems \subseteq OpenItems'
  BY <1>1, OpenMember
<1>5. ASSUME NEW x \in OpenItems' \ OpenItems
      PROVE  \E k \in DOMAIN entries' : k \notin DOMAIN entries /\ x = Item(entries'[k])
  BY <1>1, <1>5, OpenMember
<1>6. \A x \in OpenItems' \ OpenItems : x.doc = doc
  BY <1>5, ItemFields
<1>7. \A x \in OpenItems \cup ClosedItems : x.doc # doc
  BY OpenMember, ClosedMember, ItemFields
<1>8. ASSUME NEW x \in OpenItems' \ OpenItems, NEW y \in OpenItems' \ OpenItems,
             x.learner = y.learner
      PROVE  x = y
  BY <1>5, <1>8, ItemFields
<1>9. CASE OpenItems' = OpenItems
  BY <1>3, <1>9 DEF BookStep
<1>10. CASE OpenItems' # OpenItems
  <2>1. doc \in Books!Docs(OpenItems')
    BY <1>4, <1>6, <1>10 DEF Books!Docs
  <2>2. doc \notin Books!Docs(OpenItems \cup ClosedItems)
    BY <1>7 DEF Books!Docs
  <2>3. Books!Post
    BY <1>3, <1>4, <1>6, <1>8, <1>10, <2>1, <2>2 DEF Books!Post, OpenItems, ClosedItems
  <2>. QED  BY <2>3 DEF BookStep, Books!Next
<1>. QED  BY <1>9, <1>10

\* Voiding every open row of a document is a Withdraw, or nothing at all.
LEMMA VoidIsWithdraw ==
  ASSUME TypeOK, NEW dc, NEW ref, entries' = VoidRows(entries, OpenFor(entries, dc, ref))
  PROVE  BookStep
<1>. DEFINE doc == <<dc, ref>>
            items == {x \in OpenItems : x.doc = doc}
<1>1. DOMAIN entries' = DOMAIN entries
  BY VoidingKeepsRows
<1>2. ASSUME NEW k \in DOMAIN entries
      PROVE  /\ Item(entries'[k]) = Item(entries[k])
             /\ entries'[k].is_voided <=> (entries[k].is_voided \/ Item(entries[k]).doc = doc)
  <2>1. /\ entries[k] \in EntryRow
        /\ entries'[k] = IF k \in OpenFor(entries, dc, ref)
                         THEN [entries[k] EXCEPT !.is_voided = TRUE] ELSE entries[k]
    BY VoidingKeepsRows
  <2>2. Item(entries[k]).doc = doc <=> (entries[k].dc = dc /\ entries[k].ref = ref)
    BY ItemFields DEF Doc
  <2>3. k \in OpenFor(entries, dc, ref)
          <=> (~entries[k].is_voided /\ entries[k].dc = dc /\ entries[k].ref = ref)
    BY DEF OpenFor, Unvoided
  <2>4. CASE k \in OpenFor(entries, dc, ref)
    <3>1. /\ entries'[k].dc = entries[k].dc /\ entries'[k].ref = entries[k].ref
          /\ entries'[k].learner = entries[k].learner /\ entries'[k].amount = entries[k].amount
          /\ entries'[k].is_voided = TRUE
      BY <2>1, <2>4 DEF EntryRow
    <3>. QED  BY <2>2, <2>3, <2>4, <3>1 DEF Item, Doc
  <2>5. CASE k \notin OpenFor(entries, dc, ref)
    BY <2>1, <2>2, <2>3, <2>5
  <2>. QED  BY <2>4, <2>5
<1>3. \A x : x \in OpenItems' <=>
        \E k \in DOMAIN entries' : ~entries'[k].is_voided /\ x = Item(entries'[k])
  BY DEF OpenItems, Items, Unvoided, Item, Doc
<1>4. \A x : x \in ClosedItems' <=>
        \E k \in DOMAIN entries' : entries'[k].is_voided /\ x = Item(entries'[k])
  BY DEF ClosedItems, Items, Unvoided, Item, Doc
<1>. HIDE DEF doc
<1>5. OpenItems' = OpenItems \ items
  BY <1>1, <1>2, <1>3, OpenMember
<1>6. ClosedItems' = ClosedItems \cup items
  BY <1>1, <1>2, <1>4, OpenMember, ClosedMember
<1>7. CASE items = {}
  BY <1>5, <1>6, <1>7 DEF BookStep
<1>8. CASE items # {}
  <2>1. doc \in Books!Docs(OpenItems)
    BY <1>8 DEF Books!Docs
  <2>2. Books!Withdraw
    BY <1>5, <1>6, <2>1 DEF Books!Withdraw, OpenItems, ClosedItems
  <2>. QED  BY <2>2 DEF BookStep, Books!Next
<1>. QED  BY <1>7, <1>8

\* A request that leaves the ledger alone is a stutter of the books.
LEMMA SameBooks ==
  ASSUME entries' = entries
  PROVE  BookStep
<1>1. OpenItems' = OpenItems /\ ClosedItems' = ClosedItems
  BY DEF OpenItems, ClosedItems, Items, Unvoided
<1>. QED  BY <1>1 DEF BookStep

\* Issuing an invoice posts one document.
LEMMA IssueIsPost ==
  ASSUME TypeOK, LedgerMirrorsInvoices, IssueStep
  PROVE  BookStep
<1>1. PICK inv, order : Issued(inv, order)
  BY IssueShape
<1>. DEFINE doc == <<"DR", Len(invoices) + 1>>
<1>2. ASSUME NEW k \in DOMAIN entries
      PROVE  k \in DOMAIN entries' /\ entries'[k] = entries[k] /\ Doc(entries[k]) # doc
  <2>1. k \in DOMAIN entries' /\ entries'[k] = entries[k]
    BY <1>1 DEF Issued, RowsIssued
  <2>2. Len(invoices) + 1 \notin DOMAIN invoices
    BY <1>1 DEF Issued, NumberIssued
  <2>3. entries[k].dc = "DR" => entries[k].ref \in DOMAIN invoices
    BY DEF LedgerMirrorsInvoices, DebitsHaveInvoices
  <2>. QED  BY <2>1, <2>2, <2>3 DEF Doc
<1>3. ASSUME NEW k \in DOMAIN entries', k \notin DOMAIN entries
      PROVE  \E m \in DOMAIN order : k = Len(entries) + m
  BY <1>1, <1>3 DEF Issued, RowsIssued
<1>4. \A m \in DOMAIN order :
        /\ ~entries'[Len(entries) + m].is_voided
        /\ Doc(entries'[Len(entries) + m]) = doc
        /\ entries'[Len(entries) + m].learner = order[m]
  <2>1. /\ invoices'[Len(invoices) + 1].lines = inv.lines
        /\ invoices'[Len(invoices) + 1].voided = FALSE
        /\ \A m \in DOMAIN order :
             /\ Len(entries) + m \in DOMAIN entries'
             /\ entries'[Len(entries) + m].dc = "DR"
             /\ entries'[Len(entries) + m].ref = Len(invoices) + 1
             /\ entries'[Len(entries) + m].learner = order[m]
             /\ entries'[Len(entries) + m].amount = inv.lines[order[m]]
             /\ entries'[Len(entries) + m].is_voided = FALSE
             /\ order[m] \in DOMAIN inv.lines
    BY <1>1, NewRows
  <2>. QED  BY <2>1 DEF Doc
<1>5. \A j, m \in DOMAIN order : order[j] = order[m] => j = m
  BY <1>1 DEF Issued, IsOrder
<1>. HIDE DEF doc
<1>6. ASSUME NEW k \in DOMAIN entries', k \notin DOMAIN entries
      PROVE  ~entries'[k].is_voided /\ Doc(entries'[k]) = doc
  BY <1>3, <1>4, <1>6
<1>7. ASSUME NEW j \in DOMAIN entries', NEW k \in DOMAIN entries', j \notin DOMAIN entries,
             k \notin DOMAIN entries, entries'[j].learner = entries'[k].learner
      PROVE  j = k
  BY <1>3, <1>4, <1>5, <1>7
<1>. QED  BY <1>2, <1>6, <1>7, AppendIsPost

\* Recording a payment posts one document.
LEMMA PaymentIsPost ==
  ASSUME TypeOK, LedgerMirrorsPayments, PaymentStep
  PROVE  BookStep
<1>1. PICK l \in Learners, amount \in Receipts, ref \in Refs \cup {NoRef}, day \in PaymentDates :
        RecordPayment(l, amount, ref, day)
  BY DEF PaymentStep
<1>. DEFINE id  == Len(payments) + 1
            doc == <<"CR", id>>
<1>2. /\ id \notin DOMAIN payments
      /\ DOMAIN entries' = DOMAIN entries \cup {Len(entries) + 1}
      /\ \A k \in DOMAIN entries : entries'[k] = entries[k]
      /\ entries'[Len(entries) + 1] = Credit(l, id, amount, day)
  BY <1>1, RecordPaymentFacts
<1>3. ~Credit(l, id, amount, day).is_voided /\ Doc(Credit(l, id, amount, day)) = doc
  BY DEF Credit, Posting, Doc
<1>4. ASSUME NEW k \in DOMAIN entries  PROVE Doc(entries[k]) # doc
  <2>1. entries[k].dc = "CR" => entries[k].ref \in DOMAIN payments
    BY DEF LedgerMirrorsPayments, CreditsHavePayments
  <2>. QED  BY <1>2, <2>1 DEF Doc
<1>. HIDE DEF doc
<1>. QED  BY <1>2, <1>3, <1>4, AppendIsPost

\* Every request is a step of the books or a stutter.
LEMMA StepIsBookStep ==
  TypeOK /\ LedgerMirrorsInvoices /\ LedgerMirrorsPayments /\ [Next]_vars => BookStep
<1>. SUFFICES ASSUME TypeOK, LedgerMirrorsInvoices, LedgerMirrorsPayments, [Next]_vars
              PROVE  BookStep
  OBVIOUS
<1>1. CASE IssueStep
  BY <1>1, IssueIsPost
<1>2. CASE PaymentStep
  BY <1>2, PaymentIsPost
<1>3. ASSUME NEW i \in DOMAIN invoices, VoidInvoice(i) \/ DeleteInvoice(i)  PROVE BookStep
  <2>1. entries' = VoidRows(entries, OpenFor(entries, "DR", i))
    BY <1>3, VoidIsWhole DEF DeleteInvoice
  <2>. QED  BY <2>1, VoidIsWithdraw
<1>4. ASSUME NEW p \in DOMAIN payments, ReversePayment(p)  PROVE BookStep
  BY <1>4, ReverseIsWhole, VoidIsWithdraw
<1>5. ASSUME NEW i \in DOMAIN invoices, SendInvoice(i)  PROVE BookStep
  BY <1>5, SameBooks DEF SendInvoice
<1>6. ASSUME NEW l \in Learners, DeactivateLearner(l)  PROVE BookStep
  BY <1>6, SameBooks DEF DeactivateLearner, ledgerVars
<1>7. CASE NextDay \/ UNCHANGED vars
  BY <1>7, SameBooks DEF NextDay, vars, ledgerVars
<1>. QED
  BY StepShapes, <1>1, <1>2, <1>3, <1>4, <1>5, <1>6, <1>7

\* Every request posts one whole document that was never posted before, or
\* withdraws one whole document, or leaves the books alone.
THEOREM BillingImplementsAccounts == Spec => ImplementsAccounts
<1>1. Init => Books!Init
  <2>1. ASSUME Init  PROVE OpenItems = {} /\ ClosedItems = {}
    BY <2>1, OpenMember, ClosedMember DEF Init
  <2>. QED  BY <2>1 DEF Books!Init, OpenItems, ClosedItems
<1>2. TypeOK /\ LedgerMirrorsInvoices /\ LedgerMirrorsPayments /\ [Next]_vars
        => [Books!Next]_<<Items(Unvoided(entries)), Items(DOMAIN entries \ Unvoided(entries))>>
  BY StepIsBookStep DEF BookStep, OpenItems, ClosedItems
<1>. QED
  BY <1>1, <1>2, TypeCorrect, DebitsMirrorInvoices, CreditsMirrorPayments, PTL
     DEF Spec, ImplementsAccounts, Books!Spec

------------------------------------------------------------------------------
(* The whole ledger and the caches. *)

\* The unvoided rows come to what all learners owe together.
LEMMA LedgerIsBalances ==
  ASSUME NEW es \in Seq(EntryRow)
  PROVE  TotalOf(es, Unvoided(es)) = OwedBy(es, Learners)
<1>. DEFINE K == Unvoided(es)
            f == Amounts(es)
            owner == [k \in DOMAIN es |-> es[k].learner]
<1>1. K \in SUBSET DOMAIN es /\ IsFiniteSet(K) /\ \A k \in K : f[k] \in Int /\ owner[k] \in Learners
  <2>1. K \in SUBSET DOMAIN es
    BY DEF Unvoided
  <2>2. \A k \in DOMAIN es : f[k] \in Int /\ owner[k] \in Learners
    BY LedgerSums DEF EntryRow
  <2>. QED  BY <2>1, <2>2, LedgerSums
<1>2. \A l \in Learners : Balances(es)[l] = SumOf(Tally(f, {k \in K : owner[k] = l}))
  <2>. SUFFICES ASSUME NEW l \in Learners
               PROVE  Balances(es)[l] = SumOf(Tally(f, {k \in K : owner[k] = l}))
    OBVIOUS
  <2>1. {k \in K : owner[k] = l} = OpenOf(es, l) /\ OpenOf(es, l) \in SUBSET DOMAIN es
    BY <1>1 DEF OpenOf
  <2>2. ComputeBalance(es, l) = SumOf(Tally(f, OpenOf(es, l)))
    BY <2>1, LedgerSums DEF ComputeBalance
  <2>. QED  BY <2>1, <2>2 DEF Balances
<1>3. SumOf(Tally(f, K)) = SumOf(Tally(Balances(es), Learners))
  <2>. HIDE DEF K, f, owner
  <2>1. \A k \in K : f[k] \in Int
    BY <1>1
  <2>2. \A k \in K : owner[k] \in Learners
    BY <1>1
  <2>3. IsFiniteSet(K) /\ IsFiniteSet(Learners)
    BY <1>1, FiniteAssumption
  <2>. QED  BY ONLY <1>2, <2>1, <2>2, <2>3, SumOfGroups
<1>4. TotalOf(es, K) = SumOf(Tally(f, K))
  BY <1>1, LedgerSums
<1>. QED  BY <1>3, <1>4, BalanceSums

\* Learners who owe nothing can be left out.
LEMMA OwedByDebtors ==
  ASSUME NEW es \in Seq(EntryRow), NEW S \in SUBSET Learners,
         \A l \in Learners \ S : ComputeBalance(es, l) = 0
  PROVE  OwedBy(es, S) = OwedBy(es, Learners)
<1>. DEFINE f == Balances(es)
            rest == Learners \ S
<1>1. /\ IsFiniteSet(S) /\ IsFiniteSet(rest) /\ S \cap rest = {} /\ S \cup rest = Learners
      /\ SumOf(Tally(f, S)) \in Int
  BY BalanceSums
<1>2. \A l \in rest : f[l] = 0
  BY DEF Balances
<1>3. \A l \in S \cup rest : f[l] \in Int
  BY BalanceSums
<1>. HIDE DEF f, rest
<1>4. SumOf(Tally(f, rest)) = 0
  BY <1>1, <1>2, SumOfZeros
<1>5. SumOf(Tally(f, S \cup rest)) = SumOf(Tally(f, S)) + SumOf(Tally(f, rest))
  BY <1>1, <1>3, SumOfUnion
<1>6. SumOf(Tally(f, Learners)) = SumOf(Tally(f, S))
  <2>1. SumOf(Tally(f, S \cup rest)) = SumOf(Tally(f, S))
    BY <1>1, <1>4, <1>5
  <2>. QED  BY <1>1, <2>1
<1>. QED  BY <1>6, BalanceSums DEF f

\* With every cache true and every inactive learner even, nothing differs.
LEMMA DifferencesHaveReasons == TypeOK /\ CacheStaleOnlyAfterDelete => DifferencesExplained
<1>. DEFINE active == {l \in Learners : is_active[l]}
<1>. SUFFICES ASSUME TypeOK, CacheStaleOnlyAfterDelete,
                     \A l \in Learners : /\ ~LeftStaleByDelete(l)
                                         /\ ~is_active[l] => ComputeBalance(entries, l) = 0
              PROVE  Reconciled(entries, balance, active)
  BY DEF DifferencesExplained
<1>1. entries \in Seq(EntryRow)
  BY DEF TypeOK
<1>2. active \in SUBSET Learners /\ \A l \in Learners \ active : ComputeBalance(entries, l) = 0
  OBVIOUS
<1>3. \A l \in Learners : balance[l] = ComputeBalance(entries, l)
  BY DEF CacheStaleOnlyAfterDelete
<1>4. {<<l, balance[l]>> : l \in active} = {<<l, ComputeBalance(entries, l)>> : l \in active}
  BY <1>3
<1>5. OwedBy(entries, active) = OwedBy(entries, Learners)
  <2>. HIDE DEF active
  <2>. QED  BY <1>1, <1>2, OwedByDebtors
<1>6. TotalOf(entries, Unvoided(entries)) = OwedBy(entries, Learners)
  BY <1>1, LedgerIsBalances
<1>. QED  BY <1>4, <1>5, <1>6 DEF Reconciled, OwedBy

\* Whenever reconcile_check reports a difference, a family invoice was deleted or
\* a deactivated learner owes or is owed.
THEOREM ReconcileExplained == Spec => []DifferencesExplained
  BY DifferencesHaveReasons, TypeCorrect, CacheIsLedger, PTL

\* The discrepancy that the tests rule out while every learner is active needs
\* DELETE on a family invoice: no other sequence of requests produces it.
THEOREM BooksReconcileUnlessDeleted ==
  Spec => []((\A l \in Learners : ~LeftStaleByDelete(l)) => BooksReconcile)
<1>1. TypeOK /\ CacheStaleOnlyAfterDelete
        => ((\A l \in Learners : ~LeftStaleByDelete(l)) => BooksReconcile)
  <2>. SUFFICES ASSUME TypeOK, CacheStaleOnlyAfterDelete,
                       \A l \in Learners : ~LeftStaleByDelete(l) /\ is_active[l]
                PROVE  Reconciled(entries, balance, Learners)
    BY DEF BooksReconcile
  <2>1. DifferencesExplained
    BY DifferencesHaveReasons
  <2>2. {l \in Learners : is_active[l]} = Learners
    OBVIOUS
  <2>. QED  BY <2>1, <2>2 DEF DifferencesExplained
<1>. QED  BY <1>1, TypeCorrect, CacheIsLedger, PTL

------------------------------------------------------------------------------
(* The money columns of the invoices. *)

\* The column of payment amounts.
Paid == [p \in DOMAIN payments |-> payments[p].amount]

\* The lines of an invoice are amounts of learners.
LEMMA LinesAreAmounts ==
  ASSUME NEW inv \in InvoiceRow
  PROVE  /\ Covered(inv) \in SUBSET Learners /\ IsFiniteSet(Covered(inv))
         /\ \A l \in Covered(inv) : inv.lines[l] \in Nat
         /\ SumLines(inv.lines) = SumOf(Tally(inv.lines, Covered(inv)))
         /\ SumLines(inv.lines) \in Nat
<1>1. PICK S \in SUBSET Learners : inv.lines \in [S -> Fees]
  BY DEF InvoiceRow, Lines
<1>2. \A fee \in Fees : fee \in Nat
  BY MoneyAssumption
<1>3. Covered(inv) = S /\ \A l \in S : inv.lines[l] \in Nat
  BY <1>1, <1>2 DEF Covered
<1>4. IsFiniteSet(S)
  BY FiniteAssumption, FS_Subset
<1>5. SumLines(inv.lines) = SumOf(Tally(inv.lines, S))
  BY <1>1 DEF SumLines, Tally
<1>6. SumOf(Tally(inv.lines, S)) \in Nat
  BY <1>3, <1>4, SumOfNaturals
<1>. QED  BY <1>3, <1>4, <1>5, <1>6

\* A row more among the unvoided rows of a learner.
LEMMA BalanceGrows ==
  ASSUME NEW es \in Seq(EntryRow), NEW new \in Seq(EntryRow), NEW l \in Learners,
         NEW r, r \notin OpenOf(es, l), OpenOf(new, l) = OpenOf(es, l) \cup {r},
         \A k \in OpenOf(es, l) : new[k] = es[k]
  PROVE  ComputeBalance(new, l) = ComputeBalance(es, l) + Signed(new[r])
<1>. DEFINE K == OpenOf(es, l)
            f == Amounts(new)
<1>1. K \in SUBSET DOMAIN es /\ K \cup {r} \in SUBSET DOMAIN new /\ IsFiniteSet(K)
  BY LedgerSums DEF OpenOf, Unvoided
<1>2. \A k \in K \cup {r} : f[k] \in Int
  BY <1>1, LedgerSums
<1>3. SumOf(Tally(f, K \cup {r})) = SumOf(Tally(f, K)) + f[r]
  <2>. HIDE DEF K, f
  <2>1. r \notin K
    BY DEF K
  <2>. QED  BY <1>1, <1>2, <2>1, SumAdds
<1>4. \A k \in K : f[k] = Amounts(es)[k]
  BY <1>1 DEF Amounts
<1>5. Tally(f, K) = Tally(Amounts(es), K)
  <2>. HIDE DEF K, f
  <2>. QED  BY <1>4, SumOfSame
<1>6. ComputeBalance(es, l) = SumOf(Tally(Amounts(es), K))
  BY <1>1, LedgerSums DEF ComputeBalance
<1>7. ComputeBalance(new, l) = SumOf(Tally(f, K \cup {r}))
  BY <1>1, LedgerSums DEF ComputeBalance
<1>8. f[r] = Signed(new[r])
  BY <1>1 DEF Amounts
<1>. QED  BY <1>3, <1>5, <1>6, <1>7, <1>8

\* Every covered learner owes their line more after an issue.
LEMMA BalanceAfterIssue ==
  ASSUME TypeOK, NEW inv, NEW order, Issued(inv, order), NEW l \in Covered(inv)
  PROVE  ComputeBalance(entries', l) = ComputeBalance(entries, l) + inv.lines[l]
<1>1. inv \in InvoiceRow /\ IsOrder(order, inv.lines) /\ RowsIssued(inv, order)
  BY DEF Issued, MayIssue
<1>2. l \in Learners /\ l \in DOMAIN inv.lines
  BY <1>1, LinesAreAmounts DEF Covered
<1>3. PICK m \in DOMAIN order : order[m] = l
  BY <1>1, <1>2 DEF IsOrder
<1>. DEFINE r == Len(entries) + m
            new == entries'
<1>4. Len(entries) \in Nat /\ DOMAIN entries = 1..Len(entries)
  BY LenProperties DEF TypeOK
<1>5. m \in Nat /\ m >= 1
  BY <1>1, LenProperties DEF IsOrder
<1>6. r \in DOMAIN new /\ r \notin DOMAIN entries
  BY <1>1, <1>4, <1>5 DEF RowsIssued
<1>7. new[r] = Debit(l, Len(invoices) + 1, inv.lines[l], today)
  BY <1>1, <1>3 DEF RowsIssued
<1>8. new[r].learner = l /\ ~new[r].is_voided /\ Signed(new[r]) = inv.lines[l]
  BY <1>7 DEF Debit, Posting, Signed
<1>9. ASSUME NEW k \in DOMAIN new, k \notin DOMAIN entries, new[k].learner = l
      PROVE  k = r
  <2>1. PICK n \in DOMAIN order : k = Len(entries) + n
    BY <1>1, <1>9 DEF RowsIssued
  <2>2. new[k] = Debit(order[n], Len(invoices) + 1, inv.lines[order[n]], today)
    BY <1>1, <2>1 DEF RowsIssued
  <2>3. order[n] = l
    BY <1>9, <2>2 DEF Debit, Posting
  <2>. QED  BY <1>1, <1>3, <2>1, <2>3 DEF IsOrder
<1>10. \A k \in DOMAIN entries : k \in DOMAIN new /\ new[k] = entries[k]
  BY <1>1 DEF RowsIssued
<1>11. entries \in Seq(EntryRow) /\ new \in Seq(EntryRow)
  BY <1>1 DEF TypeOK, RowsIssued
<1>. HIDE DEF r, new
<1>12. OpenOf(new, l) = OpenOf(entries, l) \cup {r}
  <2>1. OpenOf(new, l) \subseteq OpenOf(entries, l) \cup {r}
    BY <1>9, <1>10 DEF OpenOf, Unvoided
  <2>2. OpenOf(entries, l) \cup {r} \subseteq OpenOf(new, l)
    BY <1>6, <1>8, <1>10 DEF OpenOf, Unvoided
  <2>. QED  BY <2>1, <2>2
<1>13. r \notin OpenOf(entries, l) /\ \A k \in OpenOf(entries, l) : new[k] = entries[k]
  BY <1>6, <1>10 DEF OpenOf, Unvoided
<1>14. ComputeBalance(new, l) = ComputeBalance(entries, l) + Signed(new[r])
  BY <1>2, <1>11, <1>12, <1>13, BalanceGrows
<1>. QED  BY <1>8, <1>14 DEF new

\* Together they owe its total more.
LEMMA OwedAfterIssue ==
  ASSUME TypeOK, NEW inv, NEW order, Issued(inv, order)
  PROVE  OwedBy(entries', Covered(inv)) = OwedBy(entries, Covered(inv)) + SumLines(inv.lines)
<1>. DEFINE new == entries'
            S == Covered(inv)
            f == Balances(entries)
            g == inv.lines
            h == Balances(new)
<1>1. inv \in InvoiceRow
  BY DEF Issued, MayIssue
<1>2. entries \in Seq(EntryRow) /\ new \in Seq(EntryRow)
  BY DEF TypeOK, Issued, RowsIssued
<1>3. /\ S \in SUBSET Learners /\ IsFiniteSet(S) /\ \A l \in S : g[l] \in Int
      /\ SumLines(inv.lines) = SumOf(Tally(g, S))
  BY <1>1, LinesAreAmounts
<1>4. \A l \in S : f[l] \in Int
  BY <1>2, <1>3, BalanceSums
<1>5. \A l \in S : h[l] = f[l] + g[l]
  BY <1>3, BalanceAfterIssue DEF Balances
<1>6. SumOf(Tally(h, S)) = SumOf(Tally(f, S)) + SumOf(Tally(g, S))
  <2>1. \A l \in S : f[l] \in Int /\ g[l] \in Int /\ h[l] = f[l] + g[l]
    BY <1>3, <1>4, <1>5
  <2>2. IsFiniteSet(S)
    BY <1>3
  <2>. HIDE DEF S, f, g, h
  <2>. QED  BY ONLY <2>1, <2>2, SumOfSums
<1>7. OwedBy(entries, S) = SumOf(Tally(f, S)) /\ OwedBy(new, S) = SumOf(Tally(h, S))
  <2>. HIDE DEF S, new
  <2>. QED  BY <1>2, <1>3, BalanceSums
<1>. QED  BY <1>3, <1>6, <1>7

\* Unvoided credits are payments in force: their rows come to what the payments
\* come to.
LEMMA CreditsArePayments ==
  ASSUME TypeOK, LedgerMirrorsPayments, NEW K \in SUBSET Unvoided(entries),
         \A k \in K : entries[k].dc = "CR"
  PROVE  /\ {entries[k].ref : k \in K} \in SUBSET ActivePayments
         /\ -TotalOf(entries, K) = PaidIn({entries[k].ref : k \in K})
<1>. DEFINE ref == [k \in DOMAIN entries |-> entries[k].ref]
            f == Amounts(entries)
            g == [k \in DOMAIN entries |-> entries[k].amount]
            P == {ref[k] : k \in K}
<1>1. K \in SUBSET DOMAIN entries /\ entries \in Seq(EntryRow)
  BY DEF Unvoided, TypeOK
<1>2. IsFiniteSet(K) /\ TotalOf(entries, K) = SumOf(Tally(f, K)) /\ \A k \in K : f[k] \in Int
  BY <1>1, LedgerSums
<1>3. \A k \in K : f[k] = -entries[k].amount
  BY <1>1 DEF Amounts, Signed
<1>4. ASSUME NEW k \in K  PROVE entries[k].amount \in Int
  <2>1. entries[k] \in EntryRow
    BY <1>1, LedgerSums
  <2>2. entries[k].amount \in Fees \cup Receipts
    BY <2>1 DEF EntryRow
  <2>3. \A x \in Fees \cup Receipts : x \in Int
    BY MoneyAssumption
  <2>. QED  BY <2>2, <2>3
<1>5. \A k \in K : f[k] \in Int /\ g[k] = -f[k]
  BY <1>1, <1>2, <1>3, <1>4
<1>6. SumOf(Tally(g, K)) = -SumOf(Tally(f, K))
  <2>. HIDE DEF f, g
  <2>. QED  BY <1>2, <1>5, SumNegated
<1>7. \A k \in K : g[k] = Paid[ref[k]] /\ g[k] \in Int /\ ref[k] \in ActivePayments
  BY <1>1, <1>4 DEF LedgerMirrorsPayments, CreditsHavePayments, Unvoided, Paid, ActivePayments
<1>8. \A j, k \in K : ref[j] = ref[k] => j = k
  BY <1>1 DEF LedgerMirrorsPayments, CreditsPostedOnce
<1>9. SumOf(Tally(g, K)) = SumOf(Tally(Paid, P))
  <2>1. \A k \in K : g[k] = Paid[ref[k]] /\ g[k] \in Int
    BY <1>7
  <2>. HIDE DEF g, ref
  <2>. QED  BY <1>2, <1>8, <2>1, SumOfRenamed
<1>10. P = {entries[k].ref : k \in K} /\ P \in SUBSET ActivePayments
  BY <1>1, <1>7
<1>11. PaidIn(P) = SumOf(Tally(Paid, P))
  <2>1. P \in SUBSET DOMAIN payments
    BY <1>10 DEF ActivePayments
  <2>2. {<<p, payments[p].amount>> : p \in P} = Tally(Paid, P)
    <3>. HIDE DEF P
    <3>. QED  BY <2>1 DEF Tally, Paid
  <2>. QED  BY <2>2 DEF PaidIn
<1>. QED  BY <1>2, <1>6, <1>9, <1>10, <1>11

\* What is paid in a set of payments is a number, and more in a larger set.
LEMMA PaymentSums ==
  ASSUME TypeOK
  PROVE  \A P \in SUBSET DOMAIN payments :
           /\ IsFiniteSet(P)
           /\ PaidIn(P) = SumOf(Tally(Paid, P)) /\ PaidIn(P) \in Nat
           /\ \A Q \in SUBSET P : PaidIn(Q) \in Nat /\ PaidIn(Q) <= PaidIn(P)
<1>1. payments \in Seq(PaymentRow) /\ IsFiniteSet(DOMAIN payments)
  <2>1. payments \in Seq(PaymentRow)
    BY DEF TypeOK
  <2>2. Len(payments) \in Nat /\ DOMAIN payments = 1..Len(payments)
    BY <2>1, LenProperties
  <2>3. IsFiniteSet(1..Len(payments))
    BY <2>2, FS_Interval
  <2>. QED  BY <2>1, <2>2, <2>3
<1>2. ASSUME NEW p \in DOMAIN payments  PROVE Paid[p] \in Nat
  <2>1. payments[p] \in PaymentRow
    BY <1>1, RowInSet
  <2>2. payments[p].amount \in Receipts
    BY <2>1 DEF PaymentRow
  <2>. QED  BY <2>2, MoneyAssumption DEF Paid
<1>3. ASSUME NEW P \in SUBSET DOMAIN payments
      PROVE  IsFiniteSet(P) /\ PaidIn(P) = SumOf(Tally(Paid, P)) /\ PaidIn(P) \in Nat
  <2>1. {<<p, payments[p].amount>> : p \in P} = Tally(Paid, P)
    BY DEF Tally, Paid
  <2>2. IsFiniteSet(P) /\ \A p \in P : Paid[p] \in Nat
    BY <1>1, <1>2, FS_Subset
  <2>. QED  BY <2>1, <2>2, SumOfNaturals DEF PaidIn
<1>4. ASSUME NEW P \in SUBSET DOMAIN payments, NEW Q \in SUBSET P
      PROVE  PaidIn(Q) \in Nat /\ PaidIn(Q) <= PaidIn(P)
  <2>1. Q \in SUBSET DOMAIN payments /\ IsFiniteSet(P) /\ \A p \in P : Paid[p] \in Nat
    BY <1>2, <1>3
  <2>2. SumOf(Tally(Paid, Q)) <= SumOf(Tally(Paid, P))
    BY <2>1, SumOfPart
  <2>. QED  BY <1>3, <2>1, <2>2
<1>. QED  BY <1>3, <1>4

\* The payments of the learners of S that still count.
PaymentsInForce(S) == {q \in DOMAIN payments : payments[q].is_active /\ payments[q].learner \in S}

\* What an invoice deducts is part of what the covered learners have paid.
LEMMA PaidIsPart ==
  ASSUME TypeOK, LedgerMirrorsPayments, NEW inv, NEW prev, NEW paid, Priced(inv, prev, paid)
  PROVE  paid \in 0..PaidIn(PaymentsInForce(Covered(inv)))
<1>. DEFINE P == PaymentsInForce(Covered(inv))
<1>1. P \in SUBSET DOMAIN payments
  BY DEF PaymentsInForce
<1>2. PaidIn(P) \in Nat
  <2>. HIDE DEF P
  <2>. QED  BY <1>1, PaymentSums
<1>3. ASSUME paid = 0  PROVE paid \in 0..PaidIn(P)
  BY <1>2, <1>3
<1>4. ASSUME NEW l \in Learners, NEW day, Covered(inv) = {l}, paid = CreditsAfter(entries, l, day)
      PROVE  paid \in 0..PaidIn(P)
  <2>. DEFINE K == {k \in OpenOf(entries, l) : entries[k].dc = "CR" /\ entries[k].day > day}
              Q == {entries[k].ref : k \in K}
  <2>1. K \in SUBSET Unvoided(entries) /\ \A k \in K : entries[k].dc = "CR"
    BY DEF OpenOf
  <2>2. Q \in SUBSET ActivePayments /\ paid = PaidIn(Q)
    <3>1. paid = -TotalOf(entries, K)
      BY <1>4 DEF CreditsAfter
    <3>. HIDE DEF K
    <3>. QED  BY <2>1, <3>1, CreditsArePayments
  <2>3. Q \in SUBSET P
    <3>1. ASSUME NEW k \in K  PROVE entries[k].ref \in P
      <4>1. /\ k \in DOMAIN entries /\ entries[k].learner = l /\ entries[k].dc = "CR"
            /\ entries[k].ref \in ActivePayments
        BY <2>2, <3>1 DEF OpenOf, Unvoided
      <4>2. payments[entries[k].ref].learner = l
        BY <4>1 DEF LedgerMirrorsPayments, CreditsHavePayments
      <4>. QED  BY <1>4, <4>1, <4>2 DEF ActivePayments, PaymentsInForce
    <3>. HIDE DEF P, K
    <3>. QED  BY <3>1
  <2>. HIDE DEF P, Q
  <2>4. PaidIn(Q) \in Nat /\ PaidIn(Q) <= PaidIn(P)
    BY <1>1, <2>3, PaymentSums
  <2>. QED  BY <1>2, <2>2, <2>4
<1>5. paid = 0 \/ \E l \in Learners : \E day :
        Covered(inv) = {l} /\ paid = CreditsAfter(entries, l, day)
  BY DEF Priced
<1>. HIDE DEF P
<1>6. paid \in 0..PaidIn(P)
  <2>1. CASE paid # 0
    <3>1. PICK l \in Learners : \E day : Covered(inv) = {l} /\ paid = CreditsAfter(entries, l, day)
      BY <1>5, <2>1
    <3>2. PICK day : Covered(inv) = {l} /\ paid = CreditsAfter(entries, l, day)
      BY <3>1
    <3>. QED  BY <1>4, <3>2
  <2>. QED  BY <1>3, <2>1
<1>. QED  BY <1>6 DEF P

\* What the money columns of an invoice hold.
FiguresRow == [previous_balance : Int, current_charges : Nat, payments_made : Nat,
               outstanding_balance : Int]

\* The money columns of every invoice are numbers that add up, and its charges
\* are the total of its lines.
FiguresAddUp ==
  /\ figures \in Seq(FiguresRow) /\ Len(figures) = Len(invoices)
  /\ \A i \in DOMAIN invoices :
       /\ figures[i].current_charges = SumLines(invoices[i].lines)
       /\ figures[i].outstanding_balance
            = figures[i].previous_balance + figures[i].current_charges - figures[i].payments_made

\* An issue adds a row that adds up too, and its outstanding balance is what the
\* covered learners then owe less what it deducts.
LEMMA FiguresOfIssue ==
  ASSUME TypeOK, LedgerMirrorsPayments, FiguresAddUp, NEW inv, NEW order, Issued(inv, order)
  PROVE  LET n == Len(invoices) + 1
         IN /\ FiguresAddUp' /\ Len(invoices') = n
            /\ invoices'[n].lines = inv.lines
            /\ figures'[n].outstanding_balance
                 = OwedBy(entries', Covered(inv)) - figures'[n].payments_made
            /\ figures'[n].payments_made \in 0..PaidIn(PaymentsInForce(Covered(inv)))
<1>. DEFINE n == Len(invoices) + 1
<1>1. inv \in InvoiceRow
  BY DEF Issued, MayIssue
<1>2. PICK prev, paid :
        /\ Priced(inv, prev, paid)
        /\ figures' = Append(figures,
             [previous_balance |-> prev, current_charges |-> SumLines(inv.lines),
              payments_made |-> paid, outstanding_balance |-> prev + SumLines(inv.lines) - paid])
  BY DEF Issued, FiguresIssued
<1>. DEFINE row == [previous_balance |-> prev, current_charges |-> SumLines(inv.lines),
                    payments_made |-> paid, outstanding_balance |-> prev + SumLines(inv.lines) - paid]
<1>3. SumLines(inv.lines) \in Nat /\ Covered(inv) \in SUBSET Learners
  BY <1>1, LinesAreAmounts
<1>4. prev \in Int /\ prev = OwedBy(entries, Covered(inv))
  BY <1>2, <1>3, BalanceSums DEF Priced, TypeOK
<1>5. paid \in 0..PaidIn(PaymentsInForce(Covered(inv))) /\ paid \in Nat
  BY <1>2, PaidIsPart
<1>6. row \in FiguresRow
  BY <1>3, <1>4, <1>5 DEF FiguresRow
<1>7. figures \in Seq(FiguresRow) /\ Len(figures) = Len(invoices)
  BY DEF FiguresAddUp
<1>8. DOMAIN figures = DOMAIN invoices
  BY <1>7, LenProperties DEF TypeOK
<1>9. /\ figures' \in Seq(FiguresRow) /\ Len(figures') = n
      /\ \A i \in DOMAIN figures : figures'[i] = figures[i]
      /\ figures'[n] = row
  <2>1. figures' = Append(figures, row)
    BY <1>2
  <2>. HIDE DEF row
  <2>. QED  BY <1>6, <1>7, <2>1, RowAppended, AppendProperties
<1>10. /\ invoices' \in Seq(InvoiceRow)
       /\ DOMAIN invoices' = DOMAIN invoices \cup {n}
       /\ \A i \in DOMAIN invoices : invoices'[i] = invoices[i]
       /\ invoices'[n] = [inv EXCEPT !.number = invoice_counter']
  BY DEF Issued, NumberIssued
<1>11. Len(invoices') = n
  <2>1. Len(invoices) \in Nat /\ DOMAIN invoices = 1..Len(invoices)
    BY LenProperties DEF TypeOK
  <2>2. Len(invoices') \in Nat /\ DOMAIN invoices' = 1..Len(invoices')
    BY <1>10, LenProperties
  <2>3. n \in Nat /\ 1..Len(invoices') = 1..n
    BY <1>10, <2>1, <2>2
  <2>. QED  BY <2>2, <2>3, SameLength
<1>12. invoices'[n].lines = inv.lines
  BY <1>1, <1>10 DEF InvoiceRow
<1>13. /\ figures'[n].current_charges = SumLines(inv.lines)
       /\ figures'[n].payments_made = paid
       /\ figures'[n].previous_balance = prev
       /\ figures'[n].outstanding_balance = prev + SumLines(inv.lines) - paid
  BY <1>9
<1>. HIDE DEF row, n
<1>14. FiguresAddUp'
  <2>1. ASSUME NEW i \in DOMAIN invoices'
        PROVE  /\ figures'[i].current_charges = SumLines(invoices'[i].lines)
               /\ figures'[i].outstanding_balance = figures'[i].previous_balance
                    + figures'[i].current_charges - figures'[i].payments_made
    <3>1. CASE i = n
      BY <1>12, <1>13, <3>1
    <3>2. CASE i \in DOMAIN invoices
      BY <1>8, <1>9, <1>10, <3>2 DEF FiguresAddUp
    <3>. QED  BY <1>10, <3>1, <3>2
  <2>. QED  BY <1>9, <1>11, <2>1 DEF FiguresAddUp
<1>15. figures'[n].outstanding_balance = OwedBy(entries', Covered(inv)) - figures'[n].payments_made
  <2>1. OwedBy(entries', Covered(inv)) = OwedBy(entries, Covered(inv)) + SumLines(inv.lines)
    BY OwedAfterIssue
  <2>. QED  BY <1>3, <1>4, <1>5, <1>13, <2>1
<1>. QED  BY <1>5, <1>11, <1>12, <1>13, <1>14, <1>15 DEF n

\* Every request keeps them so.
LEMMA FiguresStep ==
  TypeOK /\ LedgerMirrorsPayments /\ FiguresAddUp /\ [Next]_vars => FiguresAddUp'
<1>. SUFFICES ASSUME TypeOK, LedgerMirrorsPayments, FiguresAddUp, [Next]_vars
              PROVE  FiguresAddUp'
  OBVIOUS
<1>1. CASE IssueStep
  BY <1>1, IssueShape, FiguresOfIssue
<1>2. CASE KeptInvoices
  <2>1. Len(invoices') = Len(invoices)
    <3>1. DOMAIN invoices' = DOMAIN invoices /\ invoices \in Seq(InvoiceRow) /\ invoices' \in Seq(InvoiceRow)
      BY <1>2, TypeStep DEF KeptInvoices, TypeOK
    <3>2. Len(invoices) \in Nat /\ DOMAIN invoices = 1..Len(invoices)
      BY <3>1, LenProperties
    <3>3. Len(invoices') \in Nat /\ DOMAIN invoices' = 1..Len(invoices')
      BY <3>1, LenProperties
    <3>4. 1..Len(invoices) = 1..Len(invoices')
      BY <3>1, <3>2, <3>3
    <3>. QED  BY <3>2, <3>3, <3>4, SameLength
  <2>. QED  BY <1>2, <2>1 DEF KeptInvoices, FiguresAddUp
<1>. QED  BY <1>1, <1>2, KeptOrIssued

\* The money columns add up at all times.
THEOREM FiguresCorrect == Spec => []FiguresAddUp
<1>1. Init => FiguresAddUp
  BY EmptySeq DEF Init, FiguresAddUp
<1>. QED
  BY <1>1, FiguresStep, TypeCorrect, CreditsMirrorPayments, PTL DEF Spec

\* No other request makes an invoice.
LEMMA OutstandingStep ==
  TypeOK /\ LedgerMirrorsPayments /\ FiguresAddUp /\ [Next]_vars => OutstandingShort
<1>. SUFFICES ASSUME TypeOK, LedgerMirrorsPayments, FiguresAddUp, [Next]_vars,
                     Len(invoices') > Len(invoices)
              PROVE  OutstandingShort
  BY DEF OutstandingShort
<1>1. CASE IssueStep
  <2>1. PICK inv, order : Issued(inv, order)
    BY <1>1, IssueShape
  <2>2. /\ Covered(invoices'[Len(invoices')]) = Covered(inv)
        /\ figures'[Len(invoices')].outstanding_balance
             = OwedBy(entries', Covered(inv)) - figures'[Len(invoices')].payments_made
        /\ figures'[Len(invoices')].payments_made \in 0..PaidIn(PaymentsInForce(Covered(inv)))
    BY <2>1, FiguresOfIssue DEF Covered
  <2>. QED  BY <2>2 DEF OutstandingShort, PaidIn, PaymentsInForce
<1>2. CASE KeptInvoices
  <2>1. invoices \in Seq(InvoiceRow) /\ invoices' \in Seq(InvoiceRow)
    BY TypeStep DEF TypeOK
  <2>2. /\ Len(invoices) \in Nat /\ DOMAIN invoices = 1..Len(invoices)
        /\ Len(invoices') \in Nat /\ DOMAIN invoices' = 1..Len(invoices')
    BY <2>1, LenProperties
  <2>3. Len(invoices') \in DOMAIN invoices' /\ Len(invoices') \notin DOMAIN invoices
    BY <2>2
  <2>. QED  BY <1>2, <2>3 DEF KeptInvoices
<1>. QED  BY <1>1, <1>2, KeptOrIssued

\* The outstanding balance of every new invoice falls short of what is then owed
\* by exactly its payments_made, which are payments that count.
THEOREM OutstandingIsShort == Spec => OutstandingShortByPayments
<1>1. TypeOK /\ LedgerMirrorsPayments /\ FiguresAddUp /\ [Next]_vars => [OutstandingShort]_vars
  BY OutstandingStep
<1>2. Spec => [][OutstandingShort]_vars
  BY <1>1, TypeCorrect, CreditsMirrorPayments, FiguresCorrect, PTL DEF Spec
<1>. QED  BY <1>2 DEF OutstandingShortByPayments

------------------------------------------------------------------------------
(* What the dashboard and the statements tell. *)

\* The invoices in force, the rows of the learners of S, and what the invoices
\* charge the learners of S.
InForce == {i \in DOMAIN invoices : ~invoices[i].voided}
RowsOf(S) == {k \in Unvoided(entries) : entries[k].learner \in S}
ChargedTo(S) ==
  [i \in DOMAIN invoices |-> SumOf(Tally(invoices[i].lines, Covered(invoices[i]) \cap S))]

\* The column of charges.
Charges == [i \in DOMAIN invoices |-> figures[i].current_charges]

\* The unvoided debits of some learners come to what the invoices in force
\* charge them.
LEMMA DebitsAreCharges ==
  ASSUME TypeOK, LedgerMirrorsInvoices, NEW S \in SUBSET Learners
  PROVE  TotalOf(entries, {k \in RowsOf(S) : entries[k].dc = "DR"})
           = SumOf(Tally(ChargedTo(S), InForce))
<1>. DEFINE K == {k \in RowsOf(S) : entries[k].dc = "DR"}
            f == Amounts(entries)
            ref == [k \in DOMAIN entries |-> entries[k].ref]
            owner == [k \in DOMAIN entries |-> entries[k].learner]
<1>1. K \in SUBSET DOMAIN entries /\ entries \in Seq(EntryRow)
  BY DEF RowsOf, Unvoided, TypeOK
<1>2. IsFiniteSet(K) /\ TotalOf(entries, K) = SumOf(Tally(f, K)) /\ \A k \in K : f[k] \in Int
  BY <1>1, LedgerSums
<1>3. IsFiniteSet(InForce)
  <2>1. Len(invoices) \in Nat /\ DOMAIN invoices = 1..Len(invoices)
    BY LenProperties DEF TypeOK
  <2>2. IsFiniteSet(DOMAIN invoices)
    BY <2>1, FS_Interval
  <2>. QED  BY <2>2, FS_Subset DEF InForce
<1>4. ASSUME NEW k \in K
      PROVE  /\ ref[k] \in InForce /\ owner[k] \in Covered(invoices[ref[k]]) \cap S
             /\ f[k] = invoices[ref[k]].lines[owner[k]]
  <2>1. /\ k \in DOMAIN entries /\ entries[k].dc = "DR" /\ ~entries[k].is_voided
        /\ entries[k].learner \in S
    BY DEF RowsOf, Unvoided
  <2>2. /\ entries[k].ref \in DOMAIN invoices
        /\ entries[k].learner \in Covered(invoices[entries[k].ref])
        /\ entries[k].amount = invoices[entries[k].ref].lines[entries[k].learner]
        /\ entries[k].is_voided = invoices[entries[k].ref].voided
    BY <2>1 DEF LedgerMirrorsInvoices, DebitsHaveInvoices
  <2>3. f[k] = entries[k].amount
    BY <2>1 DEF Amounts, Signed
  <2>. QED  BY <2>1, <2>2, <2>3 DEF InForce
<1>5. ASSUME NEW i \in InForce
      PROVE  ChargedTo(S)[i] = SumOf(Tally(f, {k \in K : ref[k] = i}))
  <2>. DEFINE G == {k \in K : ref[k] = i}
              g == invoices[i].lines
              L == Covered(invoices[i]) \cap S
  <2>1. IsFiniteSet(G) /\ \A k \in G : f[k] = g[owner[k]] /\ f[k] \in Int
    <3>1. IsFiniteSet(G)
      BY <1>2, FS_Subset
    <3>. QED  BY <1>2, <1>4, <3>1
  <2>2. \A j, k \in G : owner[j] = owner[k] => j = k
    BY <1>1 DEF LedgerMirrorsInvoices, DebitsPostedOnce
  <2>3. {owner[k] : k \in G} = L
    <3>1. \A k \in G : owner[k] \in L
      BY <1>4
    <3>2. ASSUME NEW l \in L  PROVE \E k \in G : owner[k] = l
      <4>1. PICK k \in DOMAIN entries : /\ entries[k].dc = "DR" /\ entries[k].ref = i
                                        /\ entries[k].learner = l
        BY DEF LedgerMirrorsInvoices, LinesHaveDebits, InForce
      <4>2. ~entries[k].is_voided
        BY <4>1 DEF LedgerMirrorsInvoices, DebitsHaveInvoices, InForce
      <4>3. k \in G /\ owner[k] = l
        BY <4>1, <4>2 DEF RowsOf, Unvoided
      <4>. QED  BY <4>3
    <3>. HIDE DEF G, L, owner
    <3>. QED  BY <3>1, <3>2
  <2>4. SumOf(Tally(f, G)) = SumOf(Tally(g, L))
    <3>. HIDE DEF G, f, g, L, owner
    <3>1. SumOf(Tally(f, G)) = SumOf(Tally(g, {owner[k] : k \in G}))
      BY <2>1, <2>2, SumOfRenamed
    <3>. QED  BY <2>3, <3>1
  <2>5. ChargedTo(S)[i] = SumOf(Tally(g, L))
    BY DEF ChargedTo, InForce
  <2>. QED  BY <2>4, <2>5
<1>6. SumOf(Tally(f, K)) = SumOf(Tally(ChargedTo(S), InForce))
  <2>1. \A k \in K : f[k] \in Int
    BY <1>2
  <2>2. \A k \in K : ref[k] \in InForce
    BY <1>4
  <2>3. \A i \in InForce : ChargedTo(S)[i] = SumOf(Tally(f, {k \in K : ref[k] = i}))
    BY <1>5
  <2>4. IsFiniteSet(K) /\ IsFiniteSet(InForce)
    BY <1>2, <1>3
  <2>. HIDE DEF K, f, ref
  <2>. QED  BY ONLY <2>1, <2>2, <2>3, <2>4, SumOfGroups
<1>. QED  BY <1>2, <1>6

\* Their unvoided rows, debits and credits, come to these charges less the
\* payments in force.
LEMMA RowsAreDocuments ==
  ASSUME TypeOK, LedgerMirrorsInvoices, LedgerMirrorsPayments, NEW S \in SUBSET Learners
  PROVE  /\ TotalOf(entries, RowsOf(S))
              = SumOf(Tally(ChargedTo(S), InForce)) - PaidIn({p \in ActivePayments : payments[p].learner \in S})
         /\ SumOf(Tally(ChargedTo(S), InForce)) \in Int
         /\ PaidIn({p \in ActivePayments : payments[p].learner \in S}) \in Int
<1>. DEFINE D == {k \in RowsOf(S) : entries[k].dc = "DR"}
            C == {k \in RowsOf(S) : entries[k].dc = "CR"}
            P == {p \in ActivePayments : payments[p].learner \in S}
            f == Amounts(entries)
<1>1. /\ D \cup C = RowsOf(S) /\ D \cap C = {}
      /\ D \in SUBSET DOMAIN entries /\ C \in SUBSET DOMAIN entries
      /\ RowsOf(S) \in SUBSET DOMAIN entries /\ entries \in Seq(EntryRow)
  <2>1. RowsOf(S) \in SUBSET DOMAIN entries /\ entries \in Seq(EntryRow)
    BY DEF RowsOf, Unvoided, TypeOK
  <2>2. \A k \in DOMAIN entries : entries[k].dc \in {"DR", "CR"}
    BY <2>1, LedgerSums DEF EntryRow
  <2>. QED  BY <2>1, <2>2
<1>2. /\ IsFiniteSet(D) /\ IsFiniteSet(C)
      /\ TotalOf(entries, D) = SumOf(Tally(f, D)) /\ TotalOf(entries, D) \in Int
      /\ TotalOf(entries, C) = SumOf(Tally(f, C)) /\ TotalOf(entries, C) \in Int
      /\ TotalOf(entries, RowsOf(S)) = SumOf(Tally(f, RowsOf(S)))
  <2>. HIDE DEF D, C, f
  <2>. QED  BY <1>1, LedgerSums DEF f
<1>3. SumOf(Tally(f, RowsOf(S))) = SumOf(Tally(f, D)) + SumOf(Tally(f, C))
  <2>1. \A k \in D \cup C : f[k] \in Int
    BY <1>1, LedgerSums
  <2>. HIDE DEF D, C, f
  <2>2. SumOf(Tally(f, D \cup C)) = SumOf(Tally(f, D)) + SumOf(Tally(f, C))
    BY <1>1, <1>2, <2>1, SumOfUnion
  <2>. QED  BY <1>1, <2>2
<1>4. -TotalOf(entries, C) = PaidIn(P)
  <2>1. C \in SUBSET Unvoided(entries) /\ \A k \in C : entries[k].dc = "CR"
    BY DEF RowsOf
  <2>2. {entries[k].ref : k \in C} = P
    <3>1. ASSUME NEW k \in C  PROVE entries[k].ref \in P
      BY DEF RowsOf, Unvoided, LedgerMirrorsPayments, CreditsHavePayments, ActivePayments
    <3>2. ASSUME NEW p \in P  PROVE \E k \in C : entries[k].ref = p
      <4>1. PICK k \in DOMAIN entries : entries[k].dc = "CR" /\ entries[k].ref = p
        BY DEF ActivePayments, LedgerMirrorsPayments, PaymentsHaveCredits
      <4>2. k \in C
        BY <4>1 DEF RowsOf, Unvoided, LedgerMirrorsPayments, CreditsHavePayments, ActivePayments
      <4>. QED  BY <4>1, <4>2
    <3>. HIDE DEF C, P
    <3>. QED  BY <3>1, <3>2
  <2>. HIDE DEF C, P
  <2>3. -TotalOf(entries, C) = PaidIn({entries[k].ref : k \in C})
    BY <2>1, CreditsArePayments
  <2>. QED  BY <2>2, <2>3
<1>5. PaidIn(P) \in Int
  <2>1. P \in SUBSET DOMAIN payments
    BY DEF ActivePayments
  <2>. HIDE DEF P
  <2>. QED  BY <2>1, PaymentSums
<1>6. TotalOf(entries, D) = SumOf(Tally(ChargedTo(S), InForce))
  BY DebitsAreCharges
<1>. HIDE DEF D, C, P, f
<1>7. /\ TotalOf(entries, RowsOf(S)) = SumOf(Tally(ChargedTo(S), InForce)) - PaidIn(P)
      /\ SumOf(Tally(ChargedTo(S), InForce)) \in Int /\ PaidIn(P) \in Int
  BY <1>2, <1>3, <1>4, <1>5, <1>6
<1>. QED  BY <1>7 DEF P

\* The charges on a set of invoices are a number, and those on two sets add up.
LEMMA ChargeSums ==
  ASSUME TypeOK, FiguresAddUp
  PROVE  /\ \A I \in SUBSET DOMAIN invoices :
              /\ IsFiniteSet(I) /\ \A i \in I : Charges[i] \in Int
              /\ ChargedOn(I) = SumOf(Tally(Charges, I)) /\ ChargedOn(I) \in Int
         /\ \A I, J \in SUBSET DOMAIN invoices :
              I \cap J = {} => ChargedOn(I \cup J) = ChargedOn(I) + ChargedOn(J)
<1>1. ASSUME NEW i \in DOMAIN invoices
      PROVE  Charges[i] \in Int
  <2>1. i \in DOMAIN figures
    BY LenProperties DEF TypeOK, FiguresAddUp
  <2>2. figures[i] \in FiguresRow
    BY <2>1, RowInSet DEF FiguresAddUp
  <2>3. figures[i].current_charges \in Int
    BY <2>2 DEF FiguresRow
  <2>. QED  BY <2>3 DEF Charges
<1>2. ASSUME NEW I \in SUBSET DOMAIN invoices
      PROVE  /\ IsFiniteSet(I) /\ \A i \in I : Charges[i] \in Int
             /\ ChargedOn(I) = SumOf(Tally(Charges, I)) /\ ChargedOn(I) \in Int
  <2>1. Len(invoices) \in Nat /\ DOMAIN invoices = 1..Len(invoices)
    BY LenProperties DEF TypeOK
  <2>2. IsFiniteSet(I)
    <3>1. IsFiniteSet(DOMAIN invoices)
      BY <2>1, FS_Interval
    <3>. QED  BY <3>1, FS_Subset
  <2>3. {<<i, figures[i].current_charges>> : i \in I} = Tally(Charges, I)
    BY DEF Tally, Charges
  <2>4. \A i \in I : Charges[i] \in Int
    BY <1>1
  <2>. QED  BY <2>2, <2>3, <2>4, TallyIsTally DEF ChargedOn
<1>3. ASSUME NEW I \in SUBSET DOMAIN invoices, NEW J \in SUBSET DOMAIN invoices, I \cap J = {}
      PROVE  ChargedOn(I \cup J) = ChargedOn(I) + ChargedOn(J)
  <2>1. I \cup J \in SUBSET DOMAIN invoices
    OBVIOUS
  <2>2. IsFiniteSet(I) /\ IsFiniteSet(J) /\ \A i \in I \cup J : Charges[i] \in Int
    BY <1>2, <2>1
  <2>3. SumOf(Tally(Charges, I \cup J)) = SumOf(Tally(Charges, I)) + SumOf(Tally(Charges, J))
    BY <1>3, <2>2, SumOfUnion
  <2>. QED  BY <1>2, <2>1, <2>3
<1>. QED  BY <1>2, <1>3

\* What an invoice charges is the total of its lines.
LEMMA ChargeOfInvoice ==
  ASSUME TypeOK, FiguresAddUp, NEW i \in DOMAIN invoices
  PROVE  /\ invoices[i] \in InvoiceRow
         /\ Charges[i] = SumOf(Tally(invoices[i].lines, Covered(invoices[i])))
<1>1. invoices[i] \in InvoiceRow
  BY RowInSet DEF TypeOK
<1>2. Charges[i] = SumLines(invoices[i].lines)
  BY DEF FiguresAddUp, Charges
<1>. QED  BY <1>1, <1>2, LinesAreAmounts

\* For all learners: the three totals.
LEMMA DashboardAddsUp ==
  TypeOK /\ LedgerMirrorsInvoices /\ LedgerMirrorsPayments /\ InvoiceShape /\ FiguresAddUp
    => DashboardExplained
<1>. SUFFICES ASSUME TypeOK, LedgerMirrorsInvoices, LedgerMirrorsPayments, InvoiceShape,
                     FiguresAddUp
              PROVE  DashboardExplained
  OBVIOUS
<1>. DEFINE live == {i \in DOMAIN invoices : IsLive(invoices[i])}
<1>1. entries \in Seq(EntryRow) /\ payments \in Seq(PaymentRow)
  BY DEF TypeOK
<1>2. RowsOf(Learners) = Unvoided(entries)
  BY <1>1, LedgerSums DEF RowsOf, Unvoided, EntryRow
<1>3. {p \in ActivePayments : payments[p].learner \in Learners} = ActivePayments
  <2>1. \A p \in DOMAIN payments : payments[p] \in PaymentRow
    BY <1>1, RowInSet
  <2>2. \A p \in DOMAIN payments : payments[p].learner \in Learners
    BY <2>1 DEF PaymentRow
  <2>. QED  BY <2>2 DEF ActivePayments
<1>4. SumOf(Tally(ChargedTo(Learners), InForce)) = ChargedOn(InForce)
  <2>1. \A i \in InForce : ChargedTo(Learners)[i] = Charges[i]
    <3>. SUFFICES ASSUME NEW i \in InForce  PROVE ChargedTo(Learners)[i] = Charges[i]
      OBVIOUS
    <3>1. i \in DOMAIN invoices
      BY DEF InForce
    <3>2. Covered(invoices[i]) \cap Learners = Covered(invoices[i])
      BY <3>1, ChargeOfInvoice, LinesAreAmounts
    <3>. QED  BY <3>1, <3>2, ChargeOfInvoice DEF ChargedTo
  <2>2. Tally(ChargedTo(Learners), InForce) = Tally(Charges, InForce)
    BY <2>1, SumOfSame
  <2>. QED  BY <2>2, ChargeSums DEF InForce
<1>5. /\ InForce \in SUBSET DOMAIN invoices /\ Resent \in SUBSET DOMAIN invoices
      /\ InForce \cap Resent = {} /\ InForce \cup Resent = live
  BY DEF InForce, Resent, InvoiceShape, IsLive
<1>6. ChargedOn(live) = ChargedOn(InForce) + ChargedOn(Resent) /\ ChargedOn(InForce) \in Int
      /\ ChargedOn(Resent) \in Int
  <2>. HIDE DEF live
  <2>. QED  BY <1>5, ChargeSums
<1>7. /\ TotalOf(entries, Unvoided(entries)) = ChargedOn(InForce) - PaidIn(ActivePayments)
      /\ PaidIn(ActivePayments) \in Int
  <2>1. /\ TotalOf(entries, RowsOf(Learners))
             = SumOf(Tally(ChargedTo(Learners), InForce))
                 - PaidIn({p \in ActivePayments : payments[p].learner \in Learners})
        /\ PaidIn({p \in ActivePayments : payments[p].learner \in Learners}) \in Int
    BY RowsAreDocuments
  <2>. QED  BY <1>2, <1>3, <1>4, <2>1
<1>. QED  BY <1>6, <1>7 DEF DashboardExplained, TotalOutstanding, TotalCharged, TotalPaymentsReceived

\* What the invoices in force charge one learner: their own invoices, and the
\* lines of family invoices.
LEMMA ChargesOfLearner ==
  ASSUME TypeOK, InvoiceShape, FiguresAddUp, NEW l \in Learners
  PROVE  /\ SumOf(Tally(ChargedTo({l}), InForce))
              = ChargedOn({i \in InForce : invoices[i].learner = l}) + FamilyCharges(l)
         /\ FamilyCharges(l) \in Int
<1>. DEFINE f == ChargedTo({l})
            own == {i \in InForce : invoices[i].learner = l}
            family == {i \in InForce : IsFamily(invoices[i]) /\ l \in Covered(invoices[i])}
            rest == InForce \ (own \cup family)
            line == [i \in DOMAIN invoices |-> invoices[i].lines[l]]
<1>1. /\ InForce \in SUBSET DOMAIN invoices /\ own \in SUBSET DOMAIN invoices
      /\ family \in SUBSET DOMAIN invoices /\ rest \in SUBSET DOMAIN invoices
      /\ own \cap family = {} /\ (own \cup family) \cap rest = {}
      /\ (own \cup family) \cup rest = InForce
      /\ own \cup family \in SUBSET DOMAIN invoices
  BY NullAssumption DEF InForce, IsFamily
<1>2. \A i \in DOMAIN invoices : f[i] = SumOf(Tally(invoices[i].lines, Covered(invoices[i]) \cap {l}))
  BY DEF ChargedTo
<1>3. ASSUME NEW i \in own  PROVE f[i] = Charges[i]
  <2>1. i \in DOMAIN invoices /\ Covered(invoices[i]) = {l}
    BY NullAssumption DEF InForce, InvoiceShape, IsFamily
  <2>2. Covered(invoices[i]) \cap {l} = Covered(invoices[i])
    BY <2>1
  <2>. HIDE DEF f, own
  <2>. QED  BY <1>2, <2>1, <2>2, ChargeOfInvoice
<1>4. ASSUME NEW i \in family  PROVE f[i] = line[i] /\ f[i] \in Int
  <2>1. /\ i \in DOMAIN invoices /\ Covered(invoices[i]) \cap {l} = {l}
        /\ l \in Covered(invoices[i])
    BY DEF InForce
  <2>2. invoices[i].lines[l] \in Int
    BY <2>1, ChargeOfInvoice, LinesAreAmounts
  <2>3. SumOf(Tally(invoices[i].lines, {l})) = invoices[i].lines[l]
    BY <2>2, SumOfOne
  <2>4. line[i] = invoices[i].lines[l]
    BY <2>1
  <2>. HIDE DEF f, family, line
  <2>. QED  BY <1>2, <2>1, <2>2, <2>3, <2>4
<1>5. ASSUME NEW i \in rest  PROVE f[i] = 0
  <2>1. i \in DOMAIN invoices /\ Covered(invoices[i]) \cap {l} = {}
    BY DEF InForce, InvoiceShape
  <2>2. SumOf(Tally(invoices[i].lines, {})) = 0
    BY SumOfNoKeys
  <2>. HIDE DEF f, rest
  <2>. QED  BY <1>2, <2>1, <2>2
<1>6. IsFiniteSet(own) /\ IsFiniteSet(family) /\ IsFiniteSet(rest) /\ IsFiniteSet(own \cup family)
  <2>. HIDE DEF own, family, rest
  <2>. QED  BY <1>1, ChargeSums
<1>7. \A i \in own \cup family : f[i] \in Int
  <2>1. \A i \in own : Charges[i] \in Int
    <3>. HIDE DEF own
    <3>. QED  BY <1>1, ChargeSums
  <2>. HIDE DEF own, family, f, line
  <2>. QED  BY <1>3, <1>4, <2>1
<1>8. \A i \in (own \cup family) \cup rest : f[i] \in Int
  <2>. HIDE DEF own, family, rest, f
  <2>. QED  BY <1>5, <1>7
<1>9. SumOf(Tally(f, own)) = ChargedOn(own)
  <2>. HIDE DEF own, f
  <2>1. Tally(f, own) = Tally(Charges, own)
    BY <1>3, SumOfSame
  <2>. QED  BY <1>1, <2>1, ChargeSums
<1>10. SumOf(Tally(f, family)) = FamilyCharges(l) /\ FamilyCharges(l) \in Int
  <2>1. {j \in DOMAIN invoices : /\ IsFamily(invoices[j]) /\ ~invoices[j].voided
                                 /\ l \in Covered(invoices[j])} = family
    BY DEF InForce
  <2>2. {<<i, invoices[i].lines[l]>> : i \in family} = Tally(line, family)
    <3>1. \A i \in family : line[i] = invoices[i].lines[l]
      BY <1>1
    <3>. HIDE DEF family, line
    <3>. QED  BY <3>1 DEF Tally
  <2>3. FamilyCharges(l) = SumOf(Tally(line, family))
    <3>. HIDE DEF family, line
    <3>. QED  BY <2>1, <2>2 DEF FamilyCharges
  <2>. HIDE DEF family, line, f
  <2>4. Tally(f, family) = Tally(line, family)
    BY <1>4, SumOfSame
  <2>5. SumOf(Tally(f, family)) \in Int
    BY <1>4, <1>6, TallyIsTally
  <2>. QED  BY <2>3, <2>4, <2>5
<1>. HIDE DEF f, own, family, rest, line
<1>11. SumOf(Tally(f, rest)) = 0
  BY <1>5, <1>6, SumOfZeros
<1>12. SumOf(Tally(f, own \cup family)) = SumOf(Tally(f, own)) + SumOf(Tally(f, family))
  BY <1>1, <1>6, <1>7, SumOfUnion
<1>13. SumOf(Tally(f, (own \cup family) \cup rest))
         = SumOf(Tally(f, own \cup family)) + SumOf(Tally(f, rest))
  BY <1>1, <1>6, <1>8, SumOfUnion
<1>14. ChargedOn(own) \in Int
  BY <1>1, ChargeSums
<1>15. SumOf(Tally(f, InForce)) = ChargedOn(own) + FamilyCharges(l)
  <2>1. Tally(f, (own \cup family) \cup rest) = Tally(f, InForce)
    BY <1>1
  <2>. QED  BY <1>9, <1>10, <1>11, <1>12, <1>13, <1>14, <2>1
<1>. QED  BY <1>10, <1>15 DEF f, own

\* A balance is what the invoices in force charge less what the payments in force
\* have paid.
BalancesAreDocuments ==
  \A l \in Learners :
    ComputeBalance(entries, l)
      = ChargedOn({i \in InForce : invoices[i].learner = l}) + FamilyCharges(l)
          - PaidIn(PaymentsOf(l))

\* From the mirrors, for the rows of one learner.
LEMMA BalancesAddUp ==
  TypeOK /\ LedgerMirrorsInvoices /\ LedgerMirrorsPayments /\ InvoiceShape /\ FiguresAddUp
    => BalancesAreDocuments
<1>. SUFFICES ASSUME TypeOK, LedgerMirrorsInvoices, LedgerMirrorsPayments, InvoiceShape,
                     FiguresAddUp, NEW l \in Learners
              PROVE  ComputeBalance(entries, l)
                       = ChargedOn({i \in InForce : invoices[i].learner = l}) + FamilyCharges(l)
                           - PaidIn(PaymentsOf(l))
  BY DEF BalancesAreDocuments
<1>. DEFINE own == {i \in InForce : invoices[i].learner = l}
<1>1. RowsOf({l}) = OpenOf(entries, l)
  BY DEF RowsOf, OpenOf
<1>2. {p \in ActivePayments : payments[p].learner \in {l}} = PaymentsOf(l)
  BY DEF PaymentsOf
<1>3. TotalOf(entries, RowsOf({l})) = SumOf(Tally(ChargedTo({l}), InForce))
        - PaidIn({p \in ActivePayments : payments[p].learner \in {l}})
  BY RowsAreDocuments
<1>4. SumOf(Tally(ChargedTo({l}), InForce))
        = ChargedOn(own) + FamilyCharges(l)
  BY ChargesOfLearner
<1>5. ComputeBalance(entries, l) = TotalOf(entries, RowsOf({l}))
  BY <1>1 DEF ComputeBalance
<1>6. TotalOf(entries, RowsOf({l}))
        = SumOf(Tally(ChargedTo({l}), InForce)) - PaidIn(PaymentsOf(l))
  BY <1>2, <1>3
<1>7. PaidIn(PaymentsOf(l)) \in Int /\ FamilyCharges(l) \in Int /\ ChargedOn(own) \in Int
  <2>1. own \in SUBSET DOMAIN invoices
    BY DEF InForce
  <2>. QED  BY <1>2, <2>1, RowsAreDocuments, ChargesOfLearner, ChargeSums
<1>8. ComputeBalance(entries, l) = ChargedOn(own) + FamilyCharges(l) - PaidIn(PaymentsOf(l))
  <2>. DEFINE paid == PaidIn(PaymentsOf(l))
              charged == ChargedOn(own)
              shared == FamilyCharges(l)
  <2>1. paid \in Int /\ shared \in Int /\ charged \in Int
    BY <1>7
  <2>2. ComputeBalance(entries, l) = SumOf(Tally(ChargedTo({l}), InForce)) - paid
    BY <1>5, <1>6
  <2>3. SumOf(Tally(ChargedTo({l}), InForce)) = charged + shared
    BY <1>4
  <2>. HIDE DEF paid, charged, shared
  <2>4. ComputeBalance(entries, l) = charged + shared - paid
    BY <2>1, <2>2, <2>3
  <2>. QED  BY <2>4 DEF paid, charged, shared
<1>. QED  BY <1>8

\* For one learner: the rows of the statement.
LEMMA StatementAddsUp ==
  /\ TypeOK /\ LedgerMirrorsInvoices /\ LedgerMirrorsPayments /\ InvoiceShape /\ FiguresAddUp
  /\ CacheStaleOnlyAfterDelete
  => StatementExplained
<1>. SUFFICES ASSUME TypeOK, LedgerMirrorsInvoices, LedgerMirrorsPayments, InvoiceShape,
                     FiguresAddUp, CacheStaleOnlyAfterDelete,
                     NEW l \in Learners, ~LeftStaleByDelete(l)
              PROVE  ClosingBalance(l) = StatementDebits(l) - StatementCredits(l)
                       + FamilyCharges(l) + AppliedBefore(l) - ChargedOn(Resent \cap OwnLive(l))
  BY DEF StatementExplained
<1>. DEFINE own == {i \in InForce : invoices[i].learner = l}
            resent == Resent \cap OwnLive(l)
<1>1. ClosingBalance(l) = ComputeBalance(entries, l)
  BY DEF ClosingBalance, CacheStaleOnlyAfterDelete
<1>2. PaidIn(PaymentsOf(l)) \in Int
  <2>1. PaymentsOf(l) \in SUBSET DOMAIN payments
    BY DEF PaymentsOf, ActivePayments
  <2>. QED  BY <2>1, PaymentSums
<1>3. ComputeBalance(entries, l) = ChargedOn(own) + FamilyCharges(l) - PaidIn(PaymentsOf(l))
  BY BalancesAddUp DEF BalancesAreDocuments
<1>4. FamilyCharges(l) \in Int
  BY ChargesOfLearner
<1>6. /\ own \in SUBSET DOMAIN invoices /\ resent \in SUBSET DOMAIN invoices
      /\ own \cap resent = {} /\ own \cup resent = OwnLive(l)
  BY DEF InForce, Resent, OwnLive, InvoiceShape, IsLive
<1>7. /\ ChargedOn(OwnLive(l)) = ChargedOn(own) + ChargedOn(resent)
      /\ ChargedOn(own) \in Int /\ ChargedOn(resent) \in Int
  <2>. HIDE DEF own, resent
  <2>. QED  BY <1>6, ChargeSums
<1>8. AppliedBefore(l) \in Int
  <2>. DEFINE made == [i \in DOMAIN invoices |-> figures[i].payments_made]
  <2>1. OwnLive(l) \in SUBSET DOMAIN invoices
    BY DEF OwnLive
  <2>2. ASSUME NEW i \in OwnLive(l)  PROVE made[i] \in Int
    <3>1. i \in DOMAIN invoices /\ i \in DOMAIN figures
      BY <2>1, LenProperties DEF TypeOK, FiguresAddUp
    <3>2. figures[i] \in FiguresRow
      BY <3>1, RowInSet DEF FiguresAddUp
    <3>. QED  BY <3>1, <3>2 DEF FiguresRow
  <2>3. {<<i, figures[i].payments_made>> : i \in OwnLive(l)} = Tally(made, OwnLive(l))
    BY <2>1 DEF Tally
  <2>4. IsFiniteSet(OwnLive(l))
    BY <2>1, ChargeSums
  <2>. HIDE DEF made
  <2>. QED  BY <2>2, <2>3, <2>4, TallyIsTally DEF AppliedBefore
<1>. HIDE DEF own
<1>9. ClosingBalance(l) = ChargedOn(OwnLive(l)) - ChargedOn(resent) + FamilyCharges(l) - PaidIn(PaymentsOf(l))
  <2>. HIDE DEF resent
  <2>. QED  BY <1>1, <1>2, <1>3, <1>4, <1>7
<1>10. ChargedOn(OwnLive(l)) \in Int
  <2>. HIDE DEF resent
  <2>. QED  BY <1>7
<1>. QED  BY <1>2, <1>4, <1>7, <1>8, <1>9, <1>10 DEF StatementDebits, StatementCredits

\* The balance of every learner comes from the documents in force and from
\* nothing else, at all times.
THEOREM BalancesComeFromDocuments == Spec => []BalancesAreDocuments
BY BalancesAddUp, TypeCorrect, DebitsMirrorInvoices, CreditsMirrorPayments, ShapeOfInvoices,
   FiguresCorrect, PTL

\* Charged less received is outstanding, at all times, but for invoices mailed
\* after they were voided.
THEOREM DashboardTotalsExplained == Spec => []DashboardExplained
BY DashboardAddsUp, TypeCorrect, DebitsMirrorInvoices, CreditsMirrorPayments, ShapeOfInvoices,
   FiguresCorrect, PTL

\* A statement differs from its closing balance by family invoices, by payments
\* shown twice and by invoices mailed after they were voided, and by nothing else
\* unless a family invoice of the learner was deleted.
THEOREM StatementsExplained == Spec => []StatementExplained
BY StatementAddsUp, TypeCorrect, DebitsMirrorInvoices, CreditsMirrorPayments, ShapeOfInvoices,
   FiguresCorrect, CacheIsLedger, PTL

------------------------------------------------------------------------------
(* The books as a whole, for the modules that add to Billing. *)

\* The invariants of the books that the theorems above establish.
BooksSound ==
  /\ TypeOK
  /\ LedgerMirrorsInvoices /\ LedgerMirrorsPayments
  /\ ActiveReferencesUnique /\ InvoiceNumbersInOrder /\ FamilyBillsOnce
  /\ CacheStaleOnlyAfterDelete /\ DifferencesExplained
  /\ FiguresAddUp /\ BalancesAreDocuments /\ DashboardExplained /\ StatementExplained

\* What every step of the books does and the specification they implement.
BooksKept == LedgerAppendOnly /\ OutstandingShortByPayments /\ ImplementsAccounts

\* Whatever does to the books what the requests of Billing do keeps all of it.
LEMMA BooksTogether == Spec => []BooksSound /\ BooksKept
<1>1. Spec => []BooksSound
  BY TypeCorrect, DebitsMirrorInvoices, CreditsMirrorPayments, ReferencesUnique, NumbersInOrder,
     FamilyNeverBillsTwice, CacheIsLedger, ReconcileExplained, FiguresCorrect,
     BalancesComeFromDocuments, DashboardTotalsExplained, StatementsExplained, PTL DEF BooksSound
<1>2. Spec => BooksKept
  BY LedgerIsAppendOnly, OutstandingIsShort, BillingImplementsAccounts DEF BooksKept
<1>. QED  BY <1>1, <1>2
=============================================================================

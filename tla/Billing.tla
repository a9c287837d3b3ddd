------------------------------- MODULE Billing -------------------------------
(***************************************************************************)
(* The financial documents of one school: invoices, payments, the ledger   *)
(* rows posted for them, the cached balance of each learner and the        *)
(* invoice number counter, and every request that changes them             *)
(* (app/routers/invoices.py, payments.py, parents.py, imports.py,          *)
(* learners.py, app/fee_engine.py, app/scheduler.py, app/email_engine.py). *)
(*                                                                         *)
(* One action is one committed request.  The semaphore of app/database.py  *)
(* is held from the first to the last statement of a request, so requests  *)
(* do not interleave; a request that raises is rolled back and leaves no   *)
(* step.                                                                   *)
(***************************************************************************)
EXTENDS Ledger

CONSTANTS
  Learners, Parents,
  Family,            \* Family[p]: learners linked to parent p
  Periods,           \* billing_period strings
  Refs,              \* payment reference numbers
  Fees,              \* totals a fee profile or fee structure can come to
  Receipts,          \* payment amounts
  DaysPerYear,
  OverpaymentPolicy, \* env OVERPAYMENT_POLICY: "credit" or "reject"
  NoLearner,         \* invoice.learner_id NULL: a family (parent) invoice
  PaymentDates,      \* dates a payment may carry: any day, past or future
  MaxDay, MaxDocuments   \* bounds of the model: last day, invoices plus payments

ASSUME FamilyAssumption == Family \in [Parents -> SUBSET Learners]
ASSUME MoneyAssumption  == Fees \subseteq Nat \ {0} /\ Receipts \subseteq Nat \ {0}
ASSUME YearAssumption   == DaysPerYear \in Nat \ {0} /\ MaxDay \in Nat /\ PaymentDates \subseteq Nat
ASSUME NullAssumption   == NoLearner \notin Learners /\ NoRef \notin Refs
ASSUME FiniteAssumption == IsFiniteSet(Learners)

VARIABLES
  today,            \* date.today(), in days
  is_active,        \* Learner.is_active
  balance,          \* Learner.balance, the cache
  invoices,         \* Invoice rows with their items; position = id
  figures,          \* the money columns of the Invoice rows
  payments,         \* Payment rows; position = id
  entries,          \* LedgerEntry rows
  invoice_counter,  \* the InvoiceCounter row
  deleted           \* invoices with a DELETE row in the audit log

ledgerVars == <<balance, invoices, figures, payments, entries, invoice_counter, deleted>>
vars == <<today, is_active, ledgerVars>>

Year(day) == day \div DaysPerYear

\* Invoice.status.notin_(["Void", "Reversed"]); nothing ever writes "Reversed".
IsLive(inv) == inv.status # "Void"

Covered(inv)  == DOMAIN inv.lines     \* learners with an InvoiceItem on it
IsFamily(inv) == inv.learner = NoLearner

\* What the learners of S owe together.
OwedBy(es, S) == SumOf({<<l, ComputeBalance(es, l)>> : l \in S})

SumLines(lines) == SumOf({<<l, lines[l]>> : l \in DOMAIN lines})
------------------------------------------------------------------------------
Init ==
  /\ today = 0
  /\ is_active = [l \in Learners |-> TRUE]
  /\ balance = [l \in Learners |-> 0]
  /\ invoices = <<>>
  /\ figures = <<>>
  /\ payments = <<>>
  /\ entries = <<>>
  /\ invoice_counter = [year |-> 0, seq |-> 0]
  /\ deleted = {}

RoomForDocument == Len(invoices) + Len(payments) < MaxDocuments

\* What every invoicing path does last: number and insert the invoice with its
\* items, post one debit per covered learner (in the order of learners) and
\* refresh the cache of each.  prev and paid are the previous_balance and the
\* payments_made that the path has computed.
Issue(inv, prev, paid, order) ==
  LET number  == NextInvoiceNumber(invoice_counter, Year(today))
      id      == Len(invoices) + 1
      charges == SumLines(inv.lines)
  IN /\ RoomForDocument
     /\ invoice_counter' = number
     /\ invoices' = Append(invoices, [inv EXCEPT !.number = number])
     /\ figures' = Append(figures,
          [previous_balance |-> prev, current_charges |-> charges, payments_made |-> paid,
           outstanding_balance |-> prev + charges - paid])
     /\ entries' = entries \o [k \in DOMAIN order |->
                                 Debit(order[k], id, inv.lines[order[k]], today)]
     /\ balance' = SyncBalanceCache(balance, entries', Covered(inv))
     /\ UNCHANGED <<today, is_active, payments, deleted>>

\* A new Invoice row; next_invoice_number replaces its number.
Draft(learner, lines, period, month_end) ==
  [number |-> invoice_counter, learner |-> learner, lines |-> lines, period |-> period,
   month_end |-> month_end, issued |-> today, status |-> "Generated", voided |-> FALSE]

\* fee_engine: the learner's own invoices only, latest first, and not the
\* family invoices that cover the learner.
OwnLive(l) == {i \in DOMAIN invoices : invoices[i].learner = l /\ IsLive(invoices[i])}

PaymentsMade(l) ==
  IF OwnLive(l) = {} THEN CreditsAfter(entries, l, -1)
  ELSE CreditsAfter(entries, l, invoices[Max(OwnLive(l))].issued)

\* generate_invoice_for_learner, for a profile whose monthly lines come to fee.
\* No lines: the route answers 400.  A total of zero: post_invoice raises.
BillLearner(l, period, fee, month_end) ==
  /\ is_active[l]
  /\ Issue(Draft(l, [m \in {l} |-> fee], period, month_end),
           ComputeBalance(entries, l), PaymentsMade(l), <<l>>)

\* POST /api/invoices/generate for a learner with a fee profile.  There is no
\* check for an invoice of the same period.
GenerateInvoice(l, period, fee) == BillLearner(l, period, fee, FALSE)

\* POST /api/invoices/generate from a legacy fee structure.
GenerateStructureInvoice(l, period, fee) ==
  /\ is_active[l]
  /\ Issue(Draft(l, [m \in {l} |-> fee], period, FALSE), ComputeBalance(entries, l), 0, <<l>>)

FaultyMonthEndInvoice(l, period, fee) == BillLearner(l, period, fee, TRUE)

\* The month-end run bills a learner that has no live invoice of their own.
MonthEndInvoice(l, period, fee) ==
  /\ \A i \in OwnLive(l) : invoices[i].period # period
  /\ BillLearner(l, period, fee, TRUE)

FaultyAlreadyBilled(l, period) ==
  \E i \in DOMAIN invoices :
    invoices[i].period = period /\ IsLive(invoices[i]) /\ invoices[i].learner = l

\* An invoice of their own or a family invoice with an item of theirs.
AlreadyBilled(l, period) ==
  \E i \in DOMAIN invoices :
    /\ invoices[i].period = period /\ IsLive(invoices[i])
    /\ invoices[i].learner = l \/ l \in Covered(invoices[i])

Billable(p, period) == {l \in Family[p] : is_active[l] /\ ~AlreadyBilled(l, period)}

\* POST /api/parents/{id}/generate-invoice.  The subset stands for the learners
\* whose free-text status is "Active" and who have monthly fee lines; a zero
\* total for any of them raises in post_invoice and rolls everything back.
GenerateParentInvoice(p, period) ==
  \E S \in (SUBSET Billable(p, period)) \ {{}} :
    \E lines \in [S -> Fees], order \in Bijection(1..Cardinality(S), S) :
      Issue(Draft(NoLearner, lines, period, FALSE), OwedBy(entries, S), 0, order)
------------------------------------------------------------------------------
SetInvoice(i, status, voided) ==
  invoices' = [invoices EXCEPT ![i].status = status, ![i].voided = voided]

\* POST /api/invoices/{id}/void: per covered learner, void and refresh.
VoidInvoice(i) ==
  LET rows == {k \in OpenFor(entries, "DR", i) : entries[k].learner \in Covered(invoices[i])}
  IN /\ IsLive(invoices[i])
     /\ SetInvoice(i, "Void", TRUE)
     /\ entries' = VoidRows(entries, rows)
     /\ balance' = SyncBalanceCache(balance, entries', {entries[k].learner : k \in rows})
     /\ UNCHANGED <<today, is_active, figures, payments, invoice_counter, deleted>>

\* The first row of a query, as a set of at most one.
Earliest(rows) == {j \in rows : \A m \in rows : j <= m}

\* The learner whose cache void_invoice_entries refreshes: entries[0] only.
FirstLearner(rows) == {entries[k].learner : k \in Earliest(rows)}

\* DELETE /api/invoices/{id}: void_invoice_entries, then the Void status.
DeleteInvoice(i) ==
  LET rows == OpenFor(entries, "DR", i)
  IN /\ IsLive(invoices[i])
     /\ SetInvoice(i, "Void", TRUE)
     /\ entries' = VoidRows(entries, rows)
     /\ balance' = SyncBalanceCache(balance, entries', FirstLearner(rows))
     /\ deleted' = deleted \cup {i}
     /\ UNCHANGED <<today, is_active, figures, payments, invoice_counter>>

\* POST /api/invoices/{id}/send, and the mail of a month-end run, when the mail
\* is sent or simulated.  A failed mail changes nothing but the mail logs.
SendInvoice(i) ==
  /\ SetInvoice(i, "Sent", invoices[i].voided)
  /\ UNCHANGED <<today, is_active, balance, figures, payments, entries, invoice_counter, deleted>>
------------------------------------------------------------------------------
\* Insert the payment, post its credit, refresh the cache.
RecordPayment(l, amount, ref, day) ==
  LET id == Len(payments) + 1
  IN /\ RoomForDocument
     /\ ~IsDuplicateReference(payments, ref)
     /\ payments' = Append(payments, [learner |-> l, amount |-> amount, ref |-> ref,
                                      day |-> day, is_active |-> TRUE])
     /\ entries' = Append(entries, Credit(l, id, amount, day))
     /\ balance' = SyncBalanceCache(balance, entries', {l})
     /\ UNCHANGED <<today, is_active, invoices, figures, invoice_counter, deleted>>

\* POST /api/payments.
CreatePayment(l, amount, ref, day) ==
  /\ is_active[l]
  /\ OverpaymentPolicy = "reject" => amount <= ComputeBalance(entries, l)
  /\ RecordPayment(l, amount, ref, day)

\* One row of POST /api/imports/payments: the learner may be deactivated and
\* the overpayment policy is not consulted.
ImportPayment(l, amount, ref, day) == RecordPayment(l, amount, ref, day)

\* POST /api/payments/{id}/reverse and DELETE /api/payments/{id} (which only
\* leaves the reversal reason empty).  reverse_payment_entry voids one row.
ReversePayment(p) ==
  LET rows == Earliest(OpenFor(entries, "CR", p))
  IN /\ payments[p].is_active
     /\ payments' = [payments EXCEPT ![p].is_active = FALSE]
     /\ entries' = VoidRows(entries, rows)
     /\ balance' = SyncBalanceCache(balance, entries', {entries[k].learner : k \in rows})
     /\ UNCHANGED <<today, is_active, invoices, figures, invoice_counter, deleted>>
------------------------------------------------------------------------------
\* DELETE /api/learners/{id}.
DeactivateLearner(l) ==
  /\ is_active[l]
  /\ ComputeBalance(entries, l) = 0
  /\ is_active' = [is_active EXCEPT ![l] = FALSE]
  /\ UNCHANGED <<today, ledgerVars>>

NextDay ==
  /\ today < MaxDay
  /\ today' = today + 1
  /\ UNCHANGED <<is_active, ledgerVars>>

Invoicing ==
  \/ \E l \in Learners, period \in Periods, fee \in Fees :
       \/ GenerateInvoice(l, period, fee)
       \/ GenerateStructureInvoice(l, period, fee)
  \/ \E p \in Parents, period \in Periods : GenerateParentInvoice(p, period)

Mailing == \E i \in DOMAIN invoices : SendInvoice(i)

Receiving ==
  \E l \in Learners, amount \in Receipts, ref \in Refs \cup {NoRef}, day \in PaymentDates :
    \/ CreatePayment(l, amount, ref, day)
    \/ ImportPayment(l, amount, ref, day)

\* What neither makes a document nor mails one.
Upkeep ==
  \/ \E i \in DOMAIN invoices : VoidInvoice(i) \/ DeleteInvoice(i)
  \/ \E p \in DOMAIN payments : ReversePayment(p)
  \/ \E l \in Learners : DeactivateLearner(l)
  \/ NextDay

Requests == Invoicing \/ Mailing \/ Receiving \/ Upkeep

MonthEndBilling == \E l \in Learners, period \in Periods, fee \in Fees : MonthEndInvoice(l, period, fee)

Next == Requests \/ MonthEndBilling

Spec == Init /\ [][Next]_vars
------------------------------------------------------------------------------
(***************************************************************************)
(* Properties.                                                             *)
(***************************************************************************)
\* The total of each covered learner's items.
Lines == UNION {[S -> Fees] : S \in SUBSET Learners}

InvoiceRow ==
  [number : [year : Nat, seq : Nat], learner : Learners \cup {NoLearner}, lines : Lines,
   period : Periods, month_end : BOOLEAN, issued : Nat,
   status : {"Generated", "Sent", "Void"}, voided : BOOLEAN]

PaymentRow == [learner : Learners, amount : Receipts, ref : Refs \cup {NoRef},
               day : PaymentDates, is_active : BOOLEAN]

EntryRow == [learner : Learners, dc : {"DR", "CR"}, ref : Nat, amount : Fees \cup Receipts,
             day : Nat, is_voided : BOOLEAN]

\* Every variable has its shape.  The figures read back from the ledger (the
\* cached balance and the money columns of an invoice) are pinned down by
\* CacheStaleOnlyAfterDelete and OutstandingShortByPayments, not by a type;
\* that they are numbers which add up is proved as FiguresAddUp.
TypeOK ==
  /\ today \in 0..MaxDay
  /\ is_active \in [Learners -> BOOLEAN]
  /\ balance = [l \in Learners |-> balance[l]]
  /\ invoices \in Seq(InvoiceRow)
  /\ payments \in Seq(PaymentRow)
  /\ entries \in Seq(EntryRow)
  /\ invoice_counter \in [year : Nat, seq : Nat]
  /\ deleted \subseteq DOMAIN invoices

DebitsHaveInvoices ==
  \A k \in DOMAIN entries : entries[k].dc = "DR" =>
    /\ entries[k].ref \in DOMAIN invoices
    /\ entries[k].learner \in Covered(invoices[entries[k].ref])
    /\ entries[k].amount = invoices[entries[k].ref].lines[entries[k].learner]
    /\ entries[k].is_voided = invoices[entries[k].ref].voided

LinesHaveDebits ==
  \A i \in DOMAIN invoices : \A l \in Covered(invoices[i]) :
    \E k \in DOMAIN entries :
      entries[k].dc = "DR" /\ entries[k].ref = i /\ entries[k].learner = l

DebitsPostedOnce ==
  \A j, k \in DOMAIN entries :
    /\ entries[j].dc = "DR" /\ entries[k].dc = "DR"
    /\ entries[j].ref = entries[k].ref /\ entries[j].learner = entries[k].learner
    => j = k

\* The debits in the ledger are exactly the lines of the invoices, one row per
\* covered learner, unvoided until the invoice is first voided or deleted and
\* voided ever after, whichever route did it (void_invoice works learner by
\* learner, delete_invoice on the whole invoice) and whatever is mailed later.
LedgerMirrorsInvoices == DebitsHaveInvoices /\ LinesHaveDebits /\ DebitsPostedOnce

CreditsHavePayments ==
  \A k \in DOMAIN entries : entries[k].dc = "CR" =>
    /\ entries[k].ref \in DOMAIN payments
    /\ entries[k].learner = payments[entries[k].ref].learner
    /\ entries[k].amount = payments[entries[k].ref].amount
    /\ entries[k].is_voided = ~payments[entries[k].ref].is_active

PaymentsHaveCredits ==
  \A p \in DOMAIN payments : \E k \in DOMAIN entries :
    entries[k].dc = "CR" /\ entries[k].ref = p

CreditsPostedOnce ==
  \A j, k \in DOMAIN entries :
    entries[j].dc = "CR" /\ entries[k].dc = "CR" /\ entries[j].ref = entries[k].ref => j = k

\* The credits are exactly the payments: one row each, for the same learner
\* and amount, voided when and only when the payment has been reversed.
LedgerMirrorsPayments == CreditsHavePayments /\ PaymentsHaveCredits /\ CreditsPostedOnce

\* A deleted family invoice that covers l and a sibling.
LeftStaleByDelete(l) ==
  \E i \in deleted : l \in Covered(invoices[i]) /\ \E m \in Covered(invoices[i]) : m # l

\* Learner.balance is the balance computed from the ledger, for every learner
\* except those whose family invoice went through DELETE, the one route that
\* refreshes a single cache (ledger.py void_invoice_entries).
CacheStaleOnlyAfterDelete ==
  \A l \in Learners : balance[l] = ComputeBalance(entries, l) \/ LeftStaleByDelete(l)

\* When reconcile_check reports a difference there is a reason for it: a cache
\* left stale by DELETE, or a deactivated learner who owes or is owed again
\* because a payment was reversed or imported afterwards.
DifferencesExplained ==
  \/ Reconciled(entries, balance, {l \in Learners : is_active[l]})
  \/ \E l \in Learners :
       LeftStaleByDelete(l) \/ (~is_active[l] /\ ComputeBalance(entries, l) # 0)

\* Two payments that both still count never carry the same reference, however
\* reversals, re-captures and imports follow one another.
ActiveReferencesUnique ==
  \A p, q \in DOMAIN payments :
    /\ payments[p].is_active /\ payments[q].is_active
    /\ payments[p].ref = payments[q].ref /\ payments[p].ref # NoRef
    => p = q

Before(m, n) == m.year < n.year \/ (m.year = n.year /\ m.seq < n.seq)

\* Invoice numbers grow strictly with the invoice id, across the yearly reset
\* of the sequence and whatever was voided in between: they never repeat.
InvoiceNumbersInOrder ==
  \A i, j \in DOMAIN invoices : i < j => Before(invoices[i].number, invoices[j].number)

\* When two invoices bill one learner for one period and the earlier was never
\* voided, the later is not a family invoice, and if a month-end run made it
\* the earlier is a family invoice.  (The manual route may always bill again.)
FamilyBillsOnce ==
  \A i, j \in DOMAIN invoices :
    /\ i < j /\ ~invoices[i].voided /\ invoices[i].period = invoices[j].period
    /\ Covered(invoices[i]) \cap Covered(invoices[j]) # {}
    => /\ ~IsFamily(invoices[j])
       /\ invoices[j].month_end => IsFamily(invoices[i])

\* The ledger is append-only: a posted row keeps its place and its contents,
\* and a voided row is never brought back.
LedgerStep ==
  /\ Len(entries) <= Len(entries')
  /\ \A k \in DOMAIN entries :
       /\ entries'[k] = [entries[k] EXCEPT !.is_voided = entries'[k].is_voided]
       /\ entries[k].is_voided => entries'[k].is_voided
LedgerAppendOnly == [][LedgerStep]_vars

\* The outstanding_balance printed on a new invoice falls short of what the
\* covered learners then owe by exactly its payments_made, which the balance
\* already contains; and payments_made is made of payments that still count.
\* ("Outstanding balance is what remains due" in the system guide holds only
\* while no payment follows the learner's last invoice.)
OutstandingShort ==
  Len(invoices') > Len(invoices) =>
    LET i       == Len(invoices')
        covered == Covered(invoices'[i])
    IN /\ figures'[i].outstanding_balance = OwedBy(entries', covered) - figures'[i].payments_made
       /\ figures'[i].payments_made
            \in 0..SumOf({<<p, payments[p].amount>> : p \in
                           {q \in DOMAIN payments : /\ payments[q].is_active
                                                    /\ payments[q].learner \in covered}})
OutstandingShortByPayments == [][OutstandingShort]_vars

\* The items of the ledger rows at the positions K.
Items(K) == {[doc |-> <<entries[k].dc, entries[k].ref>>, learner |-> entries[k].learner,
              amount |-> entries[k].amount] : k \in K}

Books == INSTANCE Accounts WITH open   <- Items(Unvoided(entries)),
                                closed <- Items(DOMAIN entries \ Unvoided(entries))

\* Billing implements the account book: every request posts one whole document,
\* withdraws one whole document, or leaves the books alone.
ImplementsAccounts == Books!Spec

(***************************************************************************)
(* A claim of the tests that the code does not keep.                       *)
(***************************************************************************)
\* While every learner is active, reconcile_check finds no discrepancy between
\* the ledger and the cached balances (tests/test_ledger.py and
\* tests/e2e_financial_tests.py assert it of the ledger and of the dashboard).
BooksReconcile == (\A l \in Learners : is_active[l]) => Reconciled(entries, balance, Learners)
=============================================================================

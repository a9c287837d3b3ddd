------------------------------- MODULE Reports -------------------------------
(***************************************************************************)
(* What the application tells about the books without changing them: the   *)
(* totals of GET /api/dashboard/stats and the learner's account statement  *)
(* (app/routers/dashboard.py, reports.py, app/pdf_generator.py).  Each of  *)
(* them reads other tables than the ledger, or the cached balance.         *)
(***************************************************************************)
EXTENDS Billing

\* is_active is forgotten; not part of the model (see Ledger).
FaultyActivePayments == DOMAIN payments

ActivePayments == {p \in DOMAIN payments : payments[p].is_active}
PaymentsOf(l)  == {p \in ActivePayments : payments[p].learner = l}
PaidIn(P)      == SumOf({<<p, payments[p].amount>> : p \in P})
ChargedOn(I)   == SumOf({<<i, figures[i].current_charges>> : i \in I})

\* get_stats: total_outstanding_balance from the ledger,
\* total_payments_received from the payments, total_charged (the denominator of
\* the collection rate) from the invoices.
TotalOutstanding      == TotalOf(entries, Unvoided(entries))
TotalPaymentsReceived == PaidIn(ActivePayments)
TotalCharged          == ChargedOn({i \in DOMAIN invoices : IsLive(invoices[i])})

\* build_statement_pdf for learner_statement_report: a debit for each live
\* invoice of the learner's own, a credit for the payments_made of each, and a
\* credit for each active payment.
StatementDebits(l)  == ChargedOn(OwnLive(l))
AppliedBefore(l)    == SumOf({<<i, figures[i].payments_made>> : i \in OwnLive(l)})
StatementCredits(l) == AppliedBefore(l) + PaidIn(PaymentsOf(l))

\* The last row of the statement, printed from the cache.
ClosingBalance(l) == balance[l]
------------------------------------------------------------------------------
(***************************************************************************)
(* Properties.                                                             *)
(***************************************************************************)
Resent == {i \in DOMAIN invoices : IsLive(invoices[i]) /\ invoices[i].voided}

\* The three totals of the dashboard come from three tables and agree (charged
\* less received is outstanding) but for the invoices that were voided and then
\* mailed again: those count as charged and have no debits left.
DashboardExplained ==
  TotalOutstanding = TotalCharged - TotalPaymentsReceived - ChargedOn(Resent)

\* What family invoices still in force charge the learner.
FamilyCharges(l) ==
  SumOf({<<i, invoices[i].lines[l]>> : i \in {j \in DOMAIN invoices :
           IsFamily(invoices[j]) /\ ~invoices[j].voided /\ l \in Covered(invoices[j])}})

\* The rows of a statement come to its closing balance except for three things
\* and no other: family invoices have no row, recent payments have two (their
\* own and the payments_made of a later invoice), and an invoice mailed after it
\* was voided has a row that the balance no longer holds.
StatementExplained ==
  \A l \in Learners : is_active[l] =>
    \/ ClosingBalance(l) = StatementDebits(l) - StatementCredits(l)
         + FamilyCharges(l) + AppliedBefore(l) - ChargedOn(Resent \cap OwnLive(l))
    \/ LeftStaleByDelete(l)
=============================================================================

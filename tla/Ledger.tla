------------------------------- MODULE Ledger -------------------------------
(***************************************************************************)
(* The financial core of app/ledger.py as operators on values.            *)
(*                                                                         *)
(* A ledger is a sequence of entries in the order the rows were inserted,  *)
(* so an entry's position is its primary key.  transaction_type,           *)
(* reference_type and dc_indicator of a row always agree (post_invoice     *)
(* writes invoice/Invoice/DR, post_payment writes payment/Payment/CR), so  *)
(* the single field dc stands for all three.  Money is a whole number of   *)
(* cents: every amount passes through quantize() before it is stored.      *)
(* The voided_at / voided_by / notes columns carry no decision and are     *)
(* left out.                                                               *)
(***************************************************************************)
EXTENDS Integers, Sequences, FiniteSets, FiniteSetsExt, Sums

CONSTANT NoRef   \* reference_number NULL or "": never a duplicate

(***************************************************************************)
(* Operators whose name begins with Faulty are not part of the model.  Each*)
(* is a plausible mistake in the definition that follows it, and the       *)
(* properties of the runs are sharp enough to notice it.                   *)
(***************************************************************************)
Posting(l, dc, ref, amount, day) ==
  [learner |-> l, dc |-> dc, ref |-> ref, amount |-> amount, day |-> day,
   is_voided |-> FALSE]

\* The row written by post_invoice, and the one written by post_payment.
Debit(l, invoice, amount, day)  == Posting(l, "DR", invoice, amount, day)
FaultyCredit(l, payment, amount, day) == Posting(l, "CR", payment, -amount, day)
Credit(l, payment, amount, day) == Posting(l, "CR", payment, amount, day)

Signed(e) == IF e.dc = "DR" THEN e.amount ELSE -e.amount

\* Positions of the rows with is_voided = 0.
Unvoided(es)  == {k \in DOMAIN es : ~es[k].is_voided}
OpenOf(es, l) == {k \in Unvoided(es) : es[k].learner = l}

FaultyOpenFor(es, dc, ref) == {k \in Unvoided(es) : es[k].ref = ref}
FaultyOpenForFirst(es, dc, ref) ==
  {k \in Unvoided(es) : /\ es[k].dc = dc /\ es[k].ref = ref
                        /\ \A j \in 1..(k - 1) : es[j].dc # dc \/ es[j].ref # ref}

\* Unvoided rows posted for one document: its kind (dc) and its id (ref).
OpenFor(es, dc, ref) == {k \in Unvoided(es) : es[k].dc = dc /\ es[k].ref = ref}

\* func.sum over the rows at the positions K.
TotalOf(es, K) == SumOf({<<k, Signed(es[k])>> : k \in K})

\* compute_balance: debits less credits over the learner's unvoided rows.
ComputeBalance(es, l) == TotalOf(es, OpenOf(es, l))

FaultySyncBalanceCache(bal, es, S) ==
  [l \in DOMAIN bal |-> IF S = {l} THEN ComputeBalance(es, l) ELSE bal[l]]

\* sync_balance_cache for every learner of S, after the ledger became es.
SyncBalanceCache(bal, es, S) ==
  [l \in DOMAIN bal |-> IF l \in S THEN ComputeBalance(es, l) ELSE bal[l]]

FaultyVoidRows(es, K) ==
  [k \in DOMAIN es |-> IF k \in K THEN [es[k] EXCEPT !.is_voided = TRUE, !.amount = 0] ELSE es[k]]

\* e.is_voided = True on the rows of K.
VoidRows(es, K) ==
  [k \in DOMAIN es |-> IF k \in K THEN [es[k] EXCEPT !.is_voided = TRUE] ELSE es[k]]

FaultyNextInvoiceNumber(counter, year) ==
  [year |-> counter.year, seq |-> IF counter.year = year THEN counter.seq + 1 ELSE 1]

\* next_invoice_number: the counter row afterwards, which is also the number
\* printed on the invoice.  A missing row behaves like <<any year, 0>>.
NextInvoiceNumber(counter, year) ==
  [year |-> year, seq |-> IF counter.year = year THEN counter.seq + 1 ELSE 1]

FaultyIsDuplicateReference(ps, ref) ==
  ref # NoRef /\ ps # <<>> /\ ps[Len(ps)].is_active /\ ps[Len(ps)].ref = ref

\* check_duplicate_reference: only active payments count.
IsDuplicateReference(ps, ref) ==
  ref # NoRef /\ \E k \in DOMAIN ps : ps[k].is_active /\ ps[k].ref = ref

\* reconcile_check: the whole ledger against the caches of the learners that
\* have is_active = 1.
Reconciled(es, bal, active) ==
  TotalOf(es, Unvoided(es)) = SumOf({<<l, bal[l]>> : l \in active})

FaultyCreditsAfter(es, l, day) ==
  TotalOf(es, {k \in OpenOf(es, l) : es[k].dc = "CR" /\ es[k].day > day})

\* The payments_made figure of generate_invoice_for_learner: unvoided credits
\* of the learner dated strictly after the last live learner invoice.
CreditsAfter(es, l, day) ==
  -TotalOf(es, {k \in OpenOf(es, l) : es[k].dc = "CR" /\ es[k].day > day})
=============================================================================

-------------------------------- MODULE Recon --------------------------------
(***************************************************************************)
(* Bank reconciliation (app/routers/recon.py) beside the requests of       *)
(* Billing.  A match is written twice, in the statement line and in the    *)
(* payment, and neither route looks at what is written there already.      *)
(***************************************************************************)
EXTENDS Billing

CONSTANTS
  StatementAmounts,     \* amounts of the credits on a bank statement
  MaxLines, MaxMatches  \* bounds of the model: lines imported, matches by hand

ASSUME StatementAssumption == StatementAmounts \subseteq Nat \ {0}

VARIABLES
  lines,       \* BankStatementLine rows; position = id, 0 is NULL
  bank_line,   \* Payment.bank_statement_line_id; position = id of the payment
  matches      \* the audit rows "Manually matched line .. to payment ..", in order

reconVars == <<lines, bank_line, matches>>
bankVars  == <<vars, reconVars>>

NoRow == 0

ReconInit == Init /\ lines = <<>> /\ bank_line = <<>> /\ matches = <<>>

\* The payments that the automatic match looks for: by reference, not linked
\* yet, reversed or not.
Candidates(ref) ==
  {p \in DOMAIN payments : ref # NoRef /\ payments[p].ref = ref /\ bank_line[p] = NoRow}

\* One credit row of POST /api/recon/import-statement (a file of several rows is
\* one commit of several of these).  With a candidate, the comparison of the
\* amounts subtracts a float from a Decimal and raises; the handler reports the
\* row as an error and keeps the line, which was flushed before.  So a line is
\* stored unmatched in every case.
ImportLine(ref, amount) ==
  /\ Len(lines) < MaxLines
  /\ lines' = Append(lines, [ref |-> ref, amount |-> amount, recon_status |-> "unmatched",
                             matched_payment |-> NoRow])
  /\ UNCHANGED <<vars, bank_line, matches>>

SetMatch(n, p) ==
  lines' = [lines EXCEPT ![n].recon_status = "manually_matched", ![n].matched_payment = p]

FaultyManualMatch(n, p) ==
  /\ Len(matches) < MaxMatches
  /\ SetMatch(n, p)
  /\ bank_line' = [bank_line EXCEPT ![p] = IF lines[n].matched_payment = NoRow THEN n ELSE @]
  /\ matches' = Append(matches, <<n, p>>)
  /\ UNCHANGED vars

FaultyAdjustingMatch(n, p) ==
  /\ Len(matches) < MaxMatches
  /\ SetMatch(n, p)
  /\ bank_line' = [bank_line EXCEPT ![p] = n]
  /\ matches' = Append(matches, <<n, p>>)
  /\ payments' = [payments EXCEPT ![p].amount = lines[n].amount]
  /\ UNCHANGED <<today, is_active, balance, invoices, figures, entries, invoice_counter, deleted>>

\* POST /api/recon/match/{line}: the links that the line or the payment had with
\* others stay as they are on the other side.
ManualMatch(n, p) ==
  /\ Len(matches) < MaxMatches
  /\ SetMatch(n, p)
  /\ bank_line' = [bank_line EXCEPT ![p] = n]
  /\ matches' = Append(matches, <<n, p>>)
  /\ UNCHANGED vars

FaultyExcludeLine(n) ==
  /\ lines' = [lines EXCEPT ![n].recon_status = IF @ = "excluded" THEN "unmatched" ELSE "excluded"]
  /\ UNCHANGED <<vars, bank_line, matches>>

\* POST /api/recon/exclude/{line}: the status only.
ExcludeLine(n) ==
  /\ lines' = [lines EXCEPT ![n].recon_status = "excluded"]
  /\ UNCHANGED <<vars, bank_line, matches>>

\* The requests of Billing: a new payment is not linked, and none of the others
\* touches a link, the reversal of a payment included.
Book ==
  \/ Receiving /\ bank_line' = Append(bank_line, NoRow) /\ UNCHANGED <<lines, matches>>
  \/ (Invoicing \/ Mailing \/ Upkeep) /\ UNCHANGED reconVars

ReconNext ==
  \/ \E ref \in Refs \cup {NoRef}, amount \in StatementAmounts : ImportLine(ref, amount)
  \/ \E n \in DOMAIN lines : ExcludeLine(n) \/ \E p \in DOMAIN payments : ManualMatch(n, p)
  \/ Book

ReconSpec == ReconInit /\ [][ReconNext]_bankVars
------------------------------------------------------------------------------
(***************************************************************************)
(* Properties.                                                             *)
(***************************************************************************)
LineRow ==
  [ref : Refs \cup {NoRef}, amount : StatementAmounts,
   recon_status : {"unmatched", "manually_matched", "excluded"},
   matched_payment : {NoRow} \cup DOMAIN payments]

\* The rows have their shape and every link names a row that exists.
ReconTypeOK ==
  /\ lines \in Seq(LineRow)
  /\ bank_line \in Seq({NoRow} \cup DOMAIN lines) /\ Len(bank_line) = Len(payments)
  /\ matches \in Seq((DOMAIN lines) \X (DOMAIN payments))

\* A match of n and p by hand, after which one side was matched with another.
LineTaken(n, p) ==
  \E j, k \in DOMAIN matches :
    j < k /\ matches[j] = <<n, p>> /\ matches[k][1] = n /\ matches[k][2] # p
PaymentTaken(n, p) ==
  \E j, k \in DOMAIN matches :
    j < k /\ matches[j] = <<n, p>> /\ matches[k][2] = p /\ matches[k][1] # n

\* The two sides of a match agree through imports, exclusions and reversals: a
\* line that names a payment is named by it unless the payment was later matched
\* with another line, and a payment that names a line is named by it unless the
\* line was later matched with another payment.
LinksAgreeUnlessRematched ==
  \A n \in DOMAIN lines, p \in DOMAIN payments :
    /\ lines[n].matched_payment = p => bank_line[p] = n \/ PaymentTaken(n, p)
    /\ bank_line[p] = n => lines[n].matched_payment = p \/ LineTaken(n, p)

\* A line that says "unmatched" has no payment on either side, and one that says
\* "manually_matched" has one, whatever was matched, excluded or imported since;
\* and a line has a payment only if the two were matched by hand.
StatusTells ==
  \A n \in DOMAIN lines :
    /\ lines[n].recon_status = "unmatched" =>
         lines[n].matched_payment = NoRow /\ \A p \in DOMAIN payments : bank_line[p] # n
    /\ lines[n].recon_status = "manually_matched" => lines[n].matched_payment # NoRow
    /\ lines[n].matched_payment # NoRow =>
         \E k \in DOMAIN matches : matches[k] = <<n, lines[n].matched_payment>>

\* Reconciliation never moves money: whatever is imported, matched or excluded,
\* the books change by the requests of Billing only.
ReconImplementsBilling == Spec

(***************************************************************************)
(* A claim of the documentation that the code does not keep.               *)
(***************************************************************************)
\* "CSV bank statement import with auto-match" (README.md): an imported line is
\* matched if its reference and amount are those of a payment without a line.
AutoMatches ==
  [][Len(lines') > Len(lines) =>
       LET line == lines'[Len(lines')]
       IN (\E p \in Candidates(line.ref) : payments[p].amount = line.amount)
            => line.recon_status = "matched"]_bankVars
=============================================================================

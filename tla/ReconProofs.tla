----------------------------- MODULE ReconProofs -----------------------------
(***************************************************************************)
(* Theorems about Recon for every value of its constants: reconciliation   *)
(* leaves the books alone, and what the lines and the payments say of each *)
(* other.                                                                  *)
(***************************************************************************)
EXTENDS Recon, BillingProofs, Facts

\* Reconciliation never moves money.
THEOREM ReconIsBilling == ReconSpec => ReconImplementsBilling
<1>1. ReconInit => Init
  BY DEF ReconInit
<1>2. [ReconNext]_bankVars => [Next]_vars
  <2>. SUFFICES ASSUME [ReconNext]_bankVars  PROVE [Next]_vars
    OBVIOUS
  <2>1. ASSUME NEW ref, NEW amount, ImportLine(ref, amount)  PROVE UNCHANGED vars
    BY <2>1 DEF ImportLine
  <2>2. ASSUME NEW n, ExcludeLine(n)  PROVE UNCHANGED vars
    BY <2>2 DEF ExcludeLine
  <2>3. ASSUME NEW n, NEW p, ManualMatch(n, p)  PROVE UNCHANGED vars
    BY <2>3 DEF ManualMatch
  <2>4. CASE Book
    BY <2>4 DEF Book, Next, Requests
  <2>5. CASE UNCHANGED bankVars
    BY <2>5 DEF bankVars
  <2>. QED  BY <2>1, <2>2, <2>3, <2>4, <2>5 DEF ReconNext
<1>. QED  BY <1>1, <1>2, PTL DEF ReconSpec, ReconImplementsBilling, Spec

------------------------------------------------------------------------------
(* What a step does to the tables, row by row. *)

\* A payment that says which line it belongs to was matched with it by hand.
PaymentsMatched ==
  \A p \in DOMAIN payments :
    bank_line[p] # NoRow => \E k \in DOMAIN matches : matches[k] = <<bank_line[p], p>>

\* The invariant behind the four properties.
ReconInv == ReconTypeOK /\ StatusTells /\ PaymentsMatched /\ LinksAgreeUnlessRematched

\* A row of every table has its shape, and the tables are numbered from 1.
LEMMA TableRows ==
  ASSUME TypeOK, ReconTypeOK
  PROVE  /\ DOMAIN payments = DOMAIN bank_line
         /\ \A n \in DOMAIN lines : lines[n] \in LineRow
         /\ \A p \in DOMAIN payments : bank_line[p] \in {NoRow} \cup DOMAIN lines
         /\ \A k \in DOMAIN matches : matches[k] \in (DOMAIN lines) \X (DOMAIN payments)
         /\ NoRow \notin DOMAIN lines /\ NoRow \notin DOMAIN payments
<1>1. /\ DOMAIN payments = 1..Len(payments) /\ DOMAIN bank_line = 1..Len(bank_line)
      /\ DOMAIN lines = 1..Len(lines) /\ Len(payments) = Len(bank_line)
  BY LenProperties DEF TypeOK, ReconTypeOK
<1>2. \A n \in DOMAIN lines : lines[n] \in LineRow
  BY RowInSet DEF ReconTypeOK
<1>3. \A p \in DOMAIN bank_line : bank_line[p] \in {NoRow} \cup DOMAIN lines
  BY RowInSet DEF ReconTypeOK
<1>4. \A k \in DOMAIN matches : matches[k] \in (DOMAIN lines) \X (DOMAIN payments)
  BY RowInSet DEF ReconTypeOK
<1>. QED  BY <1>1, <1>2, <1>3, <1>4 DEF NoRow

\* Only Receiving adds a payment, and it adds one.
LEMMA BooksAndPayments ==
  ASSUME TypeOK
  PROVE  /\ Receiving => /\ Len(payments') = Len(payments) + 1
                         /\ DOMAIN payments' = DOMAIN payments \cup {Len(payments) + 1}
         /\ Invoicing \/ Mailing \/ Upkeep =>
              Len(payments') = Len(payments) /\ DOMAIN payments' = DOMAIN payments
<1>0. payments \in Seq(PaymentRow) /\ Len(payments) \in Nat /\ DOMAIN payments = 1..Len(payments)
  BY LenProperties DEF TypeOK
<1>1. ASSUME Receiving  PROVE Len(payments') = Len(payments) + 1
  <2>1. PICK l \in Learners, amount \in Receipts, ref \in Refs \cup {NoRef}, day \in PaymentDates :
          RecordPayment(l, amount, ref, day)
    BY <1>1 DEF Receiving, CreatePayment, ImportPayment
  <2>2. \E row : payments' = Append(payments, row)
    BY <2>1 DEF RecordPayment
  <2>. QED  BY <1>0, <2>2
<1>2. ASSUME Invoicing  PROVE payments' = payments
  BY <1>2 DEF Invoicing, GenerateInvoice, GenerateStructureInvoice, GenerateParentInvoice,
              BillLearner, Issue
<1>3. ASSUME Mailing  PROVE payments' = payments
  BY <1>3 DEF Mailing, SendInvoice
<1>4. ASSUME NEW p \in DOMAIN payments, ReversePayment(p)  PROVE Len(payments') = Len(payments)
  <2>1. payments' \in Seq(PaymentRow) /\ DOMAIN payments' = DOMAIN payments
    BY <1>4, ReverseFacts
  <2>. QED  BY <1>0, <2>1, LenProperties
<1>5. ASSUME Upkeep  PROVE Len(payments') = Len(payments)
  BY <1>4, <1>5 DEF Upkeep, VoidInvoice, DeleteInvoice, DeactivateLearner, NextDay, ledgerVars
<1>6. ASSUME Receiving \/ Invoicing \/ Mailing \/ Upkeep
      PROVE  Len(payments') \in Nat /\ DOMAIN payments' = 1..Len(payments')
  <2>1. [Next]_vars
    BY <1>6 DEF Next, Requests
  <2>2. TypeOK'
    BY <2>1, TypeStep
  <2>. QED  BY <2>2, LenProperties DEF TypeOK
<1>7. 1..(Len(payments) + 1) = 1..Len(payments) \cup {Len(payments) + 1}
  BY <1>0
<1>8. ASSUME Receiving
      PROVE  Len(payments') = Len(payments) + 1 /\ DOMAIN payments' = DOMAIN payments \cup {Len(payments) + 1}
  BY <1>0, <1>1, <1>6, <1>7, <1>8
<1>9. ASSUME Invoicing \/ Mailing \/ Upkeep
      PROVE  Len(payments') = Len(payments) /\ DOMAIN payments' = DOMAIN payments
  BY <1>0, <1>2, <1>3, <1>5, <1>6, <1>9
<1>. QED  BY <1>8, <1>9

\* The tables before and after a step in which nothing is done to a line.
LEMMA BookKeepsLinks ==
  ASSUME TypeOK, ReconInv, Book
  PROVE  ReconInv'
<1>0. /\ bank_line \in Seq({NoRow} \cup DOMAIN lines) /\ Len(bank_line) = Len(payments)
      /\ lines \in Seq(LineRow) /\ matches \in Seq((DOMAIN lines) \X (DOMAIN payments))
  BY DEF ReconInv, ReconTypeOK
<1>1. /\ bank_line' \in Seq({NoRow} \cup DOMAIN lines) /\ Len(bank_line') = Len(payments')
      /\ DOMAIN payments \subseteq DOMAIN payments'
      /\ \A p \in DOMAIN payments : bank_line'[p] = bank_line[p]
      /\ \A p \in DOMAIN payments' : p \notin DOMAIN payments => bank_line'[p] = NoRow
  <2>1. CASE Receiving /\ bank_line' = Append(bank_line, NoRow)
    <3>1. DOMAIN payments = DOMAIN bank_line
      BY TableRows DEF ReconInv
    <3>2. /\ bank_line' \in Seq({NoRow} \cup DOMAIN lines)
          /\ DOMAIN bank_line' = DOMAIN bank_line \cup {Len(bank_line) + 1}
          /\ \A k \in DOMAIN bank_line : bank_line'[k] = bank_line[k]
          /\ bank_line'[Len(bank_line) + 1] = NoRow
      BY <1>0, <2>1, RowAppended
    <3>3. Len(bank_line') = Len(bank_line) + 1
      BY <1>0, <2>1, AppendProperties
    <3>. QED  BY <1>0, <2>1, <3>1, <3>2, <3>3, BooksAndPayments
  <2>2. CASE (Invoicing \/ Mailing \/ Upkeep) /\ UNCHANGED reconVars
    BY <1>0, <2>2, BooksAndPayments DEF reconVars
  <2>. QED  BY <2>1, <2>2 DEF Book
<1>2. lines' = lines /\ matches' = matches
  BY DEF Book, reconVars
<1>3. lines' \in Seq(LineRow')
  <2>1. LineRow \subseteq LineRow'
    BY <1>1 DEF LineRow
  <2>. QED  BY <1>0, <1>2, <2>1
<1>4. matches' \in Seq((DOMAIN lines') \X (DOMAIN payments'))
  BY <1>0, <1>1, <1>2
<1>5. ReconTypeOK'
  BY <1>1, <1>2, <1>3, <1>4 DEF ReconTypeOK
<1>6. NoRow \notin DOMAIN lines /\ \A n \in DOMAIN lines : lines[n].matched_payment \in {NoRow} \cup DOMAIN payments
  BY TableRows DEF ReconInv, LineRow
<1>7. StatusTells'
  BY <1>1, <1>2, <1>6 DEF StatusTells, ReconInv
<1>8. PaymentsMatched'
  BY <1>1, <1>2 DEF PaymentsMatched, ReconInv
<1>9. LinksAgreeUnlessRematched'
  <2>. SUFFICES ASSUME NEW n \in DOMAIN lines, NEW p \in DOMAIN payments'
                PROVE  /\ lines[n].matched_payment = p => bank_line'[p] = n \/ PaymentTaken(n, p)
                       /\ bank_line'[p] = n => lines[n].matched_payment = p \/ LineTaken(n, p)
    BY <1>2 DEF LinksAgreeUnlessRematched, PaymentTaken, LineTaken
  <2>1. CASE p \in DOMAIN payments
    BY <1>1, <2>1 DEF LinksAgreeUnlessRematched, ReconInv
  <2>2. CASE p \notin DOMAIN payments
    <3>1. TypeOK'
      <4>1. [Next]_vars
        BY DEF Book, Next, Requests
      <4>. QED  BY <4>1, TypeStep
    <3>2. p # NoRow
      BY <3>1, LenProperties DEF TypeOK, NoRow
    <3>. QED  BY <1>1, <1>6, <2>2, <3>2
  <2>. QED  BY <2>1, <2>2
<1>. QED  BY <1>5, <1>7, <1>8, <1>9 DEF ReconInv

\* An imported line is unmatched, and nothing names it.
LEMMA ImportKeepsLinks ==
  ASSUME TypeOK, ReconInv, NEW ref \in Refs \cup {NoRef}, NEW amount \in StatementAmounts,
         ImportLine(ref, amount)
  PROVE  ReconInv'
<1>. DEFINE row == [ref |-> ref, amount |-> amount, recon_status |-> "unmatched",
                    matched_payment |-> NoRow]
<1>0. /\ bank_line \in Seq({NoRow} \cup DOMAIN lines) /\ Len(bank_line) = Len(payments)
      /\ lines \in Seq(LineRow) /\ matches \in Seq((DOMAIN lines) \X (DOMAIN payments))
  BY DEF ReconInv, ReconTypeOK
<1>1. row \in LineRow /\ row.recon_status = "unmatched" /\ row.matched_payment = NoRow
  BY DEF LineRow
<1>2. /\ lines' \in Seq(LineRow)
      /\ DOMAIN lines' = DOMAIN lines \cup {Len(lines) + 1}
      /\ \A n \in DOMAIN lines : lines'[n] = lines[n]
      /\ lines'[Len(lines) + 1] = row /\ Len(lines) + 1 \notin DOMAIN lines
  <2>1. lines' = Append(lines, row)
    BY DEF ImportLine
  <2>. HIDE DEF row
  <2>. QED  BY <1>0, <1>1, <2>1, RowAppended
<1>3. UNCHANGED <<payments, bank_line, matches>>
  BY DEF ImportLine, vars, ledgerVars
<1>4. /\ NoRow \notin DOMAIN payments /\ Len(lines) + 1 # NoRow
      /\ \A p \in DOMAIN payments : bank_line[p] \in {NoRow} \cup DOMAIN lines
  <2>1. Len(lines) \in Nat
    BY <1>0, LenProperties
  <2>. QED  BY <2>1, TableRows DEF ReconInv, NoRow
<1>. HIDE DEF row
<1>5. ReconTypeOK'
  <2>1. lines' \in Seq(LineRow')
    BY <1>2, <1>3 DEF LineRow
  <2>2. bank_line' \in Seq({NoRow} \cup DOMAIN lines')
    BY <1>0, <1>2, <1>3
  <2>3. matches' \in Seq((DOMAIN lines') \X (DOMAIN payments'))
    BY <1>0, <1>2, <1>3
  <2>. QED  BY <1>0, <1>3, <2>1, <2>2, <2>3 DEF ReconTypeOK
<1>6. StatusTells'
  <2>. SUFFICES ASSUME NEW n \in DOMAIN lines'
                PROVE  /\ lines'[n].recon_status = "unmatched" =>
                            lines'[n].matched_payment = NoRow /\ \A p \in DOMAIN payments : bank_line[p] # n
                       /\ lines'[n].recon_status = "manually_matched" => lines'[n].matched_payment # NoRow
                       /\ lines'[n].matched_payment # NoRow =>
                            \E k \in DOMAIN matches : matches[k] = <<n, lines'[n].matched_payment>>
    BY <1>3 DEF StatusTells
  <2>1. CASE n \in DOMAIN lines
    BY <1>2, <2>1 DEF StatusTells, ReconInv
  <2>2. CASE n = Len(lines) + 1
    BY <1>1, <1>2, <1>4, <2>2
  <2>. QED  BY <1>2, <2>1, <2>2
<1>7. PaymentsMatched'
  BY <1>3 DEF PaymentsMatched, ReconInv
<1>8. LinksAgreeUnlessRematched'
  <2>. SUFFICES ASSUME NEW n \in DOMAIN lines', NEW p \in DOMAIN payments
                PROVE  /\ lines'[n].matched_payment = p => bank_line[p] = n \/ PaymentTaken(n, p)
                       /\ bank_line[p] = n => lines'[n].matched_payment = p \/ LineTaken(n, p)
    BY <1>3 DEF LinksAgreeUnlessRematched, PaymentTaken, LineTaken
  <2>1. CASE n \in DOMAIN lines
    BY <1>2, <2>1 DEF LinksAgreeUnlessRematched, ReconInv
  <2>2. CASE n = Len(lines) + 1
    BY <1>1, <1>2, <1>4, <2>2
  <2>. QED  BY <1>2, <2>1, <2>2
<1>. QED  BY <1>5, <1>6, <1>7, <1>8 DEF ReconInv

\* Excluding a line changes its status and no link.
LEMMA ExcludeKeepsLinks ==
  ASSUME TypeOK, ReconInv, NEW n0 \in DOMAIN lines, ExcludeLine(n0)
  PROVE  ReconInv'
<1>. DEFINE row == [lines[n0] EXCEPT !.recon_status = "excluded"]
<1>0. /\ bank_line \in Seq({NoRow} \cup DOMAIN lines) /\ Len(bank_line) = Len(payments)
      /\ lines \in Seq(LineRow) /\ matches \in Seq((DOMAIN lines) \X (DOMAIN payments))
  BY DEF ReconInv, ReconTypeOK
<1>1. /\ row \in LineRow /\ row.recon_status = "excluded"
      /\ row.matched_payment = lines[n0].matched_payment
  BY TableRows DEF LineRow, ReconInv
<1>2. /\ lines' \in Seq(LineRow) /\ DOMAIN lines' = DOMAIN lines
      /\ \A n \in DOMAIN lines : lines'[n] = IF n = n0 THEN row ELSE lines[n]
  <2>1. lines' = [lines EXCEPT ![n0] = row]
    BY DEF ExcludeLine
  <2>. HIDE DEF row
  <2>. QED  BY <1>0, <1>1, <2>1, RowReplaced
<1>3. UNCHANGED <<payments, bank_line, matches>>
  BY DEF ExcludeLine, vars, ledgerVars
<1>. HIDE DEF row
<1>4. \A n \in DOMAIN lines :
        /\ lines'[n].matched_payment = lines[n].matched_payment
        /\ lines'[n].recon_status = lines[n].recon_status \/ lines'[n].recon_status = "excluded"
  BY <1>1, <1>2
<1>5. ReconTypeOK'
  BY <1>0, <1>2, <1>3 DEF ReconTypeOK, LineRow
<1>6. StatusTells'
  BY <1>2, <1>3, <1>4 DEF StatusTells, ReconInv
<1>7. PaymentsMatched'
  BY <1>3 DEF PaymentsMatched, ReconInv
<1>8. LinksAgreeUnlessRematched'
  BY <1>2, <1>3, <1>4 DEF LinksAgreeUnlessRematched, PaymentTaken, LineTaken, ReconInv
<1>. QED  BY <1>5, <1>6, <1>7, <1>8 DEF ReconInv

\* A match by hand writes both sides and remembers it.  The links it tears are
\* those of the line and of the payment, and it is their cause.
LEMMA MatchKeepsLinks ==
  ASSUME TypeOK, ReconInv, NEW n0 \in DOMAIN lines, NEW p0 \in DOMAIN payments, ManualMatch(n0, p0)
  PROVE  ReconInv'
<1>. DEFINE row == [lines[n0] EXCEPT !.recon_status = "manually_matched", !.matched_payment = p0]
            last == Len(matches) + 1
<1>0. /\ bank_line \in Seq({NoRow} \cup DOMAIN lines) /\ Len(bank_line) = Len(payments)
      /\ lines \in Seq(LineRow) /\ matches \in Seq((DOMAIN lines) \X (DOMAIN payments))
      /\ DOMAIN payments = DOMAIN bank_line /\ NoRow \notin DOMAIN payments
  BY TableRows DEF ReconInv, ReconTypeOK
<1>1. row \in LineRow /\ row.recon_status = "manually_matched" /\ row.matched_payment = p0
  BY TableRows DEF LineRow, ReconInv
<1>2. /\ lines' \in Seq(LineRow) /\ DOMAIN lines' = DOMAIN lines
      /\ \A n \in DOMAIN lines : lines'[n] = IF n = n0 THEN row ELSE lines[n]
  <2>1. lines' = [lines EXCEPT ![n0] = row]
    BY DEF ManualMatch, SetMatch
  <2>. HIDE DEF row
  <2>. QED  BY <1>0, <1>1, <2>1, RowReplaced
<1>3. /\ bank_line' \in Seq({NoRow} \cup DOMAIN lines) /\ DOMAIN bank_line' = DOMAIN bank_line
      /\ \A p \in DOMAIN payments : bank_line'[p] = IF p = p0 THEN n0 ELSE bank_line[p]
  BY <1>0, RowReplaced DEF ManualMatch
<1>4. /\ matches' \in Seq((DOMAIN lines) \X (DOMAIN payments))
      /\ DOMAIN matches' = DOMAIN matches \cup {last} /\ last \notin DOMAIN matches
      /\ \A k \in DOMAIN matches : matches'[k] = matches[k]
      /\ matches'[last] = <<n0, p0>>
  <2>. DEFINE pairs == (DOMAIN lines) \X (DOMAIN payments)
              match == <<n0, p0>>
  <2>1. match \in pairs /\ matches \in Seq(pairs) /\ matches' = Append(matches, match)
    BY <1>0 DEF ManualMatch
  <2>2. /\ Append(matches, match) \in Seq(pairs)
        /\ DOMAIN Append(matches, match) = DOMAIN matches \cup {last} /\ last \notin DOMAIN matches
        /\ \A k \in DOMAIN matches : Append(matches, match)[k] = matches[k]
        /\ Append(matches, match)[last] = match
    <3>. HIDE DEF pairs, match
    <3>. QED  BY <2>1, RowAppended
  <2>. QED  BY <2>1, <2>2
<1>5. payments' = payments
  BY DEF ManualMatch, vars, ledgerVars
<1>6. \A k \in DOMAIN matches : k < last
  BY <1>0, LenProperties
<1>. HIDE DEF row, last
<1>7. ReconTypeOK'
  <2>1. Len(bank_line') = Len(payments')
    BY <1>0, <1>3, <1>5, LenProperties
  <2>. QED  BY <1>2, <1>3, <1>4, <1>5, <2>1 DEF ReconTypeOK, LineRow
<1>8. StatusTells'
  <2>. SUFFICES ASSUME NEW n \in DOMAIN lines
                PROVE  /\ lines'[n].recon_status = "unmatched" =>
                            lines'[n].matched_payment = NoRow /\ \A p \in DOMAIN payments : bank_line'[p] # n
                       /\ lines'[n].recon_status = "manually_matched" => lines'[n].matched_payment # NoRow
                       /\ lines'[n].matched_payment # NoRow =>
                            \E k \in DOMAIN matches' : matches'[k] = <<n, lines'[n].matched_payment>>
    BY <1>2, <1>5 DEF StatusTells
  <2>1. CASE n = n0
    BY <1>0, <1>1, <1>2, <1>4, <2>1
  <2>2. CASE n # n0
    <3>1. lines'[n] = lines[n]
      BY <1>2, <2>2
    <3>2. \A p \in DOMAIN payments : bank_line'[p] = n => bank_line[p] = n
      BY <1>3, <2>2
    <3>3. \A k \in DOMAIN matches : k \in DOMAIN matches' /\ matches'[k] = matches[k]
      BY <1>4
    <3>. QED  BY <3>1, <3>2, <3>3 DEF StatusTells, ReconInv
  <2>. QED  BY <2>1, <2>2
<1>9. PaymentsMatched'
  BY <1>3, <1>4, <1>5 DEF PaymentsMatched, ReconInv
<1>10. ASSUME NEW n \in DOMAIN lines, NEW p \in DOMAIN payments
       PROVE  /\ lines'[n].matched_payment = p => bank_line'[p] = n \/ PaymentTaken(n, p)'
              /\ bank_line'[p] = n => lines'[n].matched_payment = p \/ LineTaken(n, p)'
  <2>0. /\ PaymentTaken(n, p) => PaymentTaken(n, p)'
        /\ LineTaken(n, p) => LineTaken(n, p)'
    BY <1>4 DEF PaymentTaken, LineTaken
  <2>1. CASE n = n0 /\ p = p0
    BY <1>1, <1>2, <1>3, <2>1
  <2>2. CASE n = n0 /\ p # p0
    <3>1. lines'[n].matched_payment # p
      BY <1>1, <1>2, <2>2
    <3>2. bank_line[p] = n => \E j \in DOMAIN matches : matches[j] = <<n, p>>
      BY <1>0, TableRows DEF PaymentsMatched, ReconInv
    <3>3. bank_line'[p] = n => LineTaken(n, p)'
      BY <1>3, <1>4, <1>6, <2>2, <3>2 DEF LineTaken
    <3>. QED  BY <3>1, <3>3
  <2>3. CASE n # n0 /\ p = p0
    <3>1. bank_line'[p] # n
      BY <1>3, <2>3
    <3>2. lines[n].matched_payment = p => \E j \in DOMAIN matches : matches[j] = <<n, p>>
      BY <1>0 DEF StatusTells, ReconInv
    <3>3. \A j \in DOMAIN matches : matches[j] = <<n, p>> => PaymentTaken(n, p)'
      <4>1. matches'[last][2] = p /\ matches'[last][1] # n /\ last \in DOMAIN matches'
        BY <1>4, <2>3
      <4>. QED  BY <1>4, <1>6, <4>1 DEF PaymentTaken
    <3>. QED  BY <1>2, <2>3, <3>1, <3>2, <3>3
  <2>4. CASE n # n0 /\ p # p0
    BY <1>2, <1>3, <2>0, <2>4 DEF LinksAgreeUnlessRematched, ReconInv
  <2>. QED  BY <2>1, <2>2, <2>3, <2>4
<1>11. LinksAgreeUnlessRematched'
  BY <1>2, <1>5, <1>10 DEF LinksAgreeUnlessRematched
<1>. QED  BY <1>7, <1>8, <1>9, <1>11 DEF ReconInv

\* The invariant holds in every state.
LEMMA ReconInvariant == ReconSpec => []ReconInv
<1>1. ReconInit => ReconInv
  <2>. SUFFICES ASSUME ReconInit  PROVE ReconInv
    OBVIOUS
  <2>1. lines = <<>> /\ bank_line = <<>> /\ matches = <<>> /\ payments = <<>>
    BY DEF ReconInit, Init
  <2>2. ReconTypeOK
    BY <2>1 DEF ReconTypeOK
  <2>3. DOMAIN lines = {} /\ DOMAIN payments = {}
    BY <2>1
  <2>. QED
    BY <2>2, <2>3 DEF ReconInv, StatusTells, PaymentsMatched, LinksAgreeUnlessRematched
<1>2. TypeOK /\ ReconInv /\ [ReconNext]_bankVars => ReconInv'
  <2>. SUFFICES ASSUME TypeOK, ReconInv, [ReconNext]_bankVars  PROVE ReconInv'
    OBVIOUS
  <2>1. CASE UNCHANGED bankVars
    BY <2>1 DEF bankVars, reconVars, vars, ledgerVars, ReconInv, ReconTypeOK, LineRow, StatusTells,
         PaymentsMatched, LinksAgreeUnlessRematched, PaymentTaken, LineTaken
  <2>. QED
    BY <2>1, BookKeepsLinks, ImportKeepsLinks, ExcludeKeepsLinks, MatchKeepsLinks DEF ReconNext
<1>3. ReconSpec => []TypeOK
  BY ReconIsBilling, TypeCorrect DEF ReconImplementsBilling
<1>. QED  BY <1>1, <1>2, <1>3, PTL DEF ReconSpec

------------------------------------------------------------------------------
(* The theorems. *)

\* Every link names a row that exists.
THEOREM ReconTypeCorrect == ReconSpec => []ReconTypeOK
<1>1. ReconInv => ReconTypeOK
  BY DEF ReconInv
<1>. QED  BY <1>1, ReconInvariant, PTL

\* The two sides of a match disagree only if one was matched again afterwards.
THEOREM LinksAgree == ReconSpec => []LinksAgreeUnlessRematched
<1>1. ReconInv => LinksAgreeUnlessRematched
  BY DEF ReconInv
<1>. QED  BY <1>1, ReconInvariant, PTL

\* The status of a line tells whether it has a payment, and only matches by hand
\* give it one.
THEOREM StatusAlwaysTells == ReconSpec => []StatusTells
<1>1. ReconInv => StatusTells
  BY DEF ReconInv
<1>. QED  BY <1>1, ReconInvariant, PTL

\* Reconciliation with the bank (imports, matching, unmatching) leaves everything
\* true that is proved of the books, although a line can name a voided payment.
THEOREM BooksSurviveRecon == ReconSpec => []BooksSound /\ BooksKept
BY ReconIsBilling, BooksTogether DEF ReconImplementsBilling
=============================================================================

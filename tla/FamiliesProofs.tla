--------------------------- MODULE FamiliesProofs ---------------------------
(***************************************************************************)
(* Theorems about Families for every value of its constants: families that *)
(* change leave the books to Billing, nobody is left out of a family       *)
(* invoice, and no invoice is mailed outside its family.                   *)
(***************************************************************************)
EXTENDS Families, BillingProofs, Facts

\* Links stay within the bound of the model.
LinksInFamily == \A p \in Parents, l \in Learners : <<p, l>> \in links => l \in Family[p]

\* The payer of an invoice has been linked to every learner on it, and an invoice
\* without one is a learner's own.
PayersKnown ==
  \A i \in DOMAIN invoices :
    /\ payer[i] # NoParent => \A l \in Covered(invoices[i]) : <<payer[i], l>> \in known
    /\ payer[i] = NoParent => Covered(invoices[i]) = {invoices[i].learner}

\* The invariant behind the theorems.
FamiliesInv == FamiliesTypeOK /\ LinksInFamily /\ PayersKnown /\ MailsStayInFamily

------------------------------------------------------------------------------
(* The books. *)

\* A family invoice covers those that are due, at least one, and is one that
\* Billing may issue for the parent.
LEMMA FamilyInvoiceIsBilling ==
  ASSUME LinksInFamily, NEW p \in Parents, NEW period \in Periods, NEW attending, NEW fee_lines,
         FamilyInvoice(p, period, attending, fee_lines)
  PROVE  GenerateParentInvoice(p, period)
<1>. DEFINE S == Due(p, period, attending, fee_lines)
            totals == [l \in S |-> LineTotal(fee_lines[l])]
<1>1. DOMAIN totals = S
  OBVIOUS
<1>2. IssueFamily(p, period, totals)
  BY DEF FamilyInvoice
<1>3. S \subseteq Billable(p, period)
  BY DEF Due, Linked, Billable, LinksInFamily
<1>. HIDE DEF S
<1>4. S # {}
  <2>. SUFFICES ASSUME S = {}  PROVE totals = <<>>
    BY <1>2 DEF IssueFamily
  <2>. QED  OBVIOUS
<1>5. totals \in [S -> Fees]
  BY <1>1, <1>2 DEF IssueFamily
<1>6. \E order \in Bijection(1..Cardinality(S), S) :
        Issue(Draft(NoLearner, totals, period, FALSE), OwedBy(entries, S), 0, order)
  BY <1>1, <1>2 DEF IssueFamily
<1>. HIDE DEF totals
<1>7. S \in (SUBSET Billable(p, period)) \ {{}}
  BY <1>3, <1>4
<1>8. \E lines \in [S -> Fees], order \in Bijection(1..Cardinality(S), S) :
        Issue(Draft(NoLearner, lines, period, FALSE), OwedBy(entries, S), 0, order)
  BY <1>5, <1>6
<1>. QED  BY <1>7, <1>8 DEF GenerateParentInvoice

\* Whatever happens to the families, a request does to the books what Billing
\* allows.
LEMMA FamiliesStepIsBilling ==
  LinksInFamily /\ [FamiliesNext]_officeVars => [Next]_vars
<1>. SUFFICES ASSUME LinksInFamily, [FamiliesNext]_officeVars  PROVE [Next]_vars
  OBVIOUS
<1>1. ASSUME NEW S, CreateParents(S)  PROVE UNCHANGED vars
  BY <1>1 DEF CreateParents
<1>2. ASSUME NEW p, DeleteParent(p)  PROVE UNCHANGED vars
  BY <1>2 DEF DeleteParent
<1>3. ASSUME NEW p, NEW l, LinkLearner(p, l) \/ UnlinkLearner(p, l)  PROVE UNCHANGED vars
  BY <1>3 DEF LinkLearner, UnlinkLearner
<1>4. ASSUME NEW p \in Parents, NEW period \in Periods, NEW attending, NEW fee_lines,
             FamilyInvoice(p, period, attending, fee_lines)
      PROVE  Next
  BY <1>4, FamilyInvoiceIsBilling DEF Next, Requests, Invoicing
<1>5. ASSUME NEW l \in Learners, NEW period \in Periods, NEW fee \in Fees,
             LearnerInvoice(l, period, fee)
      PROVE  Next
  BY <1>5 DEF LearnerInvoice, Next, Requests, Invoicing
<1>6. ASSUME NEW i \in DOMAIN invoices, MailInvoice(i)  PROVE Next
  BY <1>6 DEF MailInvoice, Next, Requests, Mailing
<1>7. CASE OtherRequests
  BY <1>7 DEF OtherRequests, Next, Requests
<1>8. CASE UNCHANGED officeVars
  BY <1>8 DEF officeVars
<1>. QED  BY <1>1, <1>2, <1>3, <1>4, <1>5, <1>6, <1>7, <1>8 DEF FamiliesNext

\* Only LinkLearner makes a link, and it stays within the bound.
LEMMA LinksStep ==
  LinksInFamily /\ [FamiliesNext]_officeVars => LinksInFamily'
<1>. SUFFICES ASSUME LinksInFamily, [FamiliesNext]_officeVars  PROVE LinksInFamily'
  OBVIOUS
<1>1. ASSUME NEW p \in Parents, NEW l \in Learners, LinkLearner(p, l)  PROVE LinksInFamily'
  BY <1>1 DEF LinkLearner, LinksInFamily
<1>2. ASSUME NEW p, NEW l, UnlinkLearner(p, l)  PROVE LinksInFamily'
  BY <1>2 DEF UnlinkLearner, LinksInFamily
<1>3. ASSUME links' = links  PROVE LinksInFamily'
  BY <1>3 DEF LinksInFamily
<1>. QED
  BY <1>1, <1>2, <1>3 DEF FamiliesNext, CreateParents, DeleteParent, FamilyInvoice, IssueFamily,
     LearnerInvoice, IssuedTo, MailInvoice, OtherRequests, familyVars, officeVars

\* With families and fees that change, the books are still those of Billing.
THEOREM FamiliesAreBilling == FamiliesSpec => FamiliesImplementBilling
<1>1. FamiliesInit => Init /\ LinksInFamily
  BY DEF FamiliesInit, LinksInFamily
<1>. QED
  BY <1>1, FamiliesStepIsBilling, LinksStep, PTL DEF FamiliesSpec, FamiliesImplementBilling, Spec

------------------------------------------------------------------------------
(* What a request does to the invoices. *)

\* A draft that is issued is the last invoice; the others stay.
LEMMA DraftIssued ==
  ASSUME TypeOK, NEW l \in Learners \cup {NoLearner}, NEW lines \in Lines, NEW period \in Periods,
         NEW month_end \in BOOLEAN, NEW prev, NEW paid, NEW order,
         Issue(Draft(l, lines, period, month_end), prev, paid, order)
  PROVE  /\ Len(invoices') = Len(invoices) + 1
         /\ DOMAIN invoices' = DOMAIN invoices \cup {Len(invoices) + 1}
         /\ Len(invoices) + 1 \notin DOMAIN invoices
         /\ \A i \in DOMAIN invoices : invoices'[i] = invoices[i]
         /\ invoices'[Len(invoices) + 1].learner = l
         /\ invoices'[Len(invoices) + 1].lines = lines
         /\ invoices'[Len(invoices) + 1].period = period
         /\ invoices'[Len(invoices) + 1].status = "Generated"
<1>. DEFINE draft == Draft(l, lines, period, month_end)
            new   == [draft EXCEPT !.number = invoice_counter']
<1>1. Year(today) \in Nat
  BY YearIsNat, YearAssumption DEF TypeOK
<1>2. invoice_counter' \in [year : Nat, seq : Nat]
  BY <1>1 DEF Issue, NextInvoiceNumber, TypeOK
<1>3. draft \in InvoiceRow
  BY DraftIsRow
<1>4. draft.learner = l /\ draft.lines = lines /\ draft.period = period /\ draft.status = "Generated"
  BY DEF Draft
<1>5. invoices' = Append(invoices, new) /\ invoices \in Seq(InvoiceRow)
  BY DEF Issue, TypeOK
<1>. HIDE DEF draft
<1>6. /\ new \in InvoiceRow
      /\ new.learner = l /\ new.lines = lines /\ new.period = period /\ new.status = "Generated"
  BY <1>2, <1>3, <1>4 DEF InvoiceRow
<1>. HIDE DEF new
<1>7. /\ DOMAIN invoices' = DOMAIN invoices \cup {Len(invoices) + 1}
      /\ \A i \in DOMAIN invoices : invoices'[i] = invoices[i]
      /\ invoices'[Len(invoices) + 1] = new /\ Len(invoices) + 1 \notin DOMAIN invoices
  BY <1>5, <1>6, RowAppended
<1>8. Len(invoices') = Len(invoices) + 1
  BY <1>5, <1>6, AppendProperties
<1>. QED  BY <1>6, <1>7, <1>8

\* The invoice that a family invoice adds.
LEMMA FamilyInvoiceIssued ==
  ASSUME TypeOK, LinksInFamily, NEW p \in Parents, NEW period \in Periods, NEW attending, NEW fee_lines,
         FamilyInvoice(p, period, attending, fee_lines)
  PROVE  /\ Len(invoices') = Len(invoices) + 1
         /\ DOMAIN invoices' = DOMAIN invoices \cup {Len(invoices) + 1}
         /\ Len(invoices) + 1 \notin DOMAIN invoices
         /\ \A i \in DOMAIN invoices : invoices'[i] = invoices[i]
         /\ Covered(invoices'[Len(invoices) + 1]) = Due(p, period, attending, fee_lines)
         /\ invoices'[Len(invoices) + 1].period = period
         /\ invoices'[Len(invoices) + 1].status = "Generated"
<1>. DEFINE S == Due(p, period, attending, fee_lines)
            totals == [l \in S |-> LineTotal(fee_lines[l])]
<1>1. IssueFamily(p, period, totals)
  BY DEF FamilyInvoice
<1>2. S \in SUBSET Learners
  BY DEF Due, Linked
<1>3. DOMAIN totals = S
  OBVIOUS
<1>. HIDE DEF S
<1>4. totals \in [S -> Fees]
  BY <1>1, <1>3 DEF IssueFamily
<1>. HIDE DEF totals
<1>5. totals \in Lines
  BY <1>2, <1>4 DEF Lines
<1>6. PICK order : Issue(Draft(NoLearner, totals, period, FALSE), OwedBy(entries, DOMAIN totals), 0, order)
  BY <1>1 DEF IssueFamily
<1>. HIDE DEF Issue, Draft
<1>7. /\ Len(invoices') = Len(invoices) + 1
      /\ DOMAIN invoices' = DOMAIN invoices \cup {Len(invoices) + 1}
      /\ Len(invoices) + 1 \notin DOMAIN invoices
      /\ \A i \in DOMAIN invoices : invoices'[i] = invoices[i]
      /\ invoices'[Len(invoices) + 1].lines = totals
      /\ invoices'[Len(invoices) + 1].period = period
      /\ invoices'[Len(invoices) + 1].status = "Generated"
  BY <1>5, <1>6, DraftIssued
<1>. QED  BY <1>3, <1>7 DEF Covered, S

\* The invoice that a learner's own billing adds.
LEMMA LearnerInvoiceIssued ==
  ASSUME TypeOK, NEW l \in Learners, NEW period \in Periods, NEW fee \in Fees,
         LearnerInvoice(l, period, fee)
  PROVE  /\ Len(invoices') = Len(invoices) + 1
         /\ DOMAIN invoices' = DOMAIN invoices \cup {Len(invoices) + 1}
         /\ Len(invoices) + 1 \notin DOMAIN invoices
         /\ \A i \in DOMAIN invoices : invoices'[i] = invoices[i]
         /\ invoices'[Len(invoices) + 1].learner = l
         /\ Covered(invoices'[Len(invoices) + 1]) = {l}
<1>. DEFINE lines == [m \in {l} |-> fee]
<1>1. lines \in [{l} -> Fees] /\ {l} \in SUBSET Learners /\ DOMAIN lines = {l}
  OBVIOUS
<1>2. lines \in Lines
  BY <1>1 DEF Lines
<1>3. \E prev, paid, order : Issue(Draft(l, lines, period, FALSE), prev, paid, order)
  BY DEF LearnerInvoice, GenerateInvoice, GenerateStructureInvoice, BillLearner
<1>. HIDE DEF lines
<1>4. PICK prev, paid, order : Issue(Draft(l, lines, period, FALSE), prev, paid, order)
  BY <1>3
<1>5. /\ Len(invoices') = Len(invoices) + 1
      /\ DOMAIN invoices' = DOMAIN invoices \cup {Len(invoices) + 1}
      /\ Len(invoices) + 1 \notin DOMAIN invoices
      /\ \A i \in DOMAIN invoices : invoices'[i] = invoices[i]
      /\ invoices'[Len(invoices) + 1].learner = l
      /\ invoices'[Len(invoices) + 1].lines = lines
  BY <1>2, <1>4, DraftIssued
<1>. QED  BY <1>1, <1>5 DEF Covered

\* What nothing but an issue changes of the invoices.
SameCover ==
  /\ Len(invoices') = Len(invoices) /\ DOMAIN invoices' = DOMAIN invoices
  /\ \A i \in DOMAIN invoices :
       invoices'[i].learner = invoices[i].learner /\ invoices'[i].lines = invoices[i].lines

\* The other requests issue nothing.
LEMMA OthersKeepCover ==
  ASSUME TypeOK, \/ Receiving \/ Upkeep \/ UNCHANGED vars
                 \/ \E i \in DOMAIN invoices : SendInvoice(i)
  PROVE  SameCover
<1>1. ASSUME invoices' = invoices  PROVE SameCover
  BY <1>1 DEF SameCover
<1>2. ASSUME NEW i \in DOMAIN invoices, NEW status \in {"Sent", "Void"}, NEW voided \in BOOLEAN,
             SetInvoice(i, status, voided)
      PROVE  SameCover
  <2>1. invoices[i] \in InvoiceRow
    BY RowInSet DEF TypeOK
  <2>2. /\ Len(invoices') = Len(invoices) /\ DOMAIN invoices' = DOMAIN invoices
        /\ invoices'[i] = [invoices[i] EXCEPT !.status = status, !.voided = voided]
        /\ \A j \in DOMAIN invoices : j # i => invoices'[j] = invoices[j]
    BY <1>2, SetInvoiceFacts
  <2>3. invoices'[i].learner = invoices[i].learner /\ invoices'[i].lines = invoices[i].lines
    BY <2>1, <2>2 DEF InvoiceRow
  <2>. QED  BY <2>2, <2>3 DEF SameCover
<1>3. ASSUME NEW i \in DOMAIN invoices, VoidInvoice(i) \/ DeleteInvoice(i) \/ SendInvoice(i)
      PROVE  SameCover
  <2>0. invoices[i] \in InvoiceRow
    BY RowInSet DEF TypeOK
  <2>1. invoices[i].voided \in BOOLEAN
    BY <2>0 DEF InvoiceRow
  <2>. QED  BY <1>2, <1>3, <2>1 DEF VoidInvoice, DeleteInvoice, SendInvoice
<1>4. ASSUME NEW p \in DOMAIN payments, ReversePayment(p)  PROVE SameCover
  BY <1>1, <1>4 DEF ReversePayment
<1>5. ASSUME NEW l \in Learners, DeactivateLearner(l)  PROVE SameCover
  BY <1>1, <1>5 DEF DeactivateLearner, ledgerVars
<1>6. CASE NextDay \/ UNCHANGED vars
  BY <1>1, <1>6 DEF NextDay, vars, ledgerVars
<1>7. CASE Receiving
  BY <1>1, <1>7 DEF Receiving, CreatePayment, ImportPayment, RecordPayment
<1>. QED  BY <1>3, <1>4, <1>5, <1>6, <1>7 DEF Upkeep

------------------------------------------------------------------------------
(* The invariant. *)

\* A new invoice with its payer keeps the shape and the payers of the others.
LEMMA NewPayer ==
  ASSUME TypeOK, TypeOK', FamiliesInv, NEW p \in Parents \cup {NoParent}, IssuedTo(p),
         Len(invoices') = Len(invoices) + 1,
         DOMAIN invoices' = DOMAIN invoices \cup {Len(invoices) + 1},
         \A i \in DOMAIN invoices : invoices'[i] = invoices[i],
         p # NoParent => \A l \in Covered(invoices'[Len(invoices) + 1]) : <<p, l>> \in known,
         p = NoParent => Covered(invoices'[Len(invoices) + 1]) = {invoices'[Len(invoices) + 1].learner},
         parents' \in [Parents -> {"unknown", "active", "deleted"}]
  PROVE  FamiliesTypeOK' /\ PayersKnown' /\ MailsStayInFamily'
<1>1. payer \in Seq(Parents \cup {NoParent}) /\ Len(payer) = Len(invoices)
  BY DEF FamiliesInv, FamiliesTypeOK
<1>2. payer' = Append(payer, p) /\ UNCHANGED <<parents, links, last_mail, known>>
  BY DEF IssuedTo
<1>3. /\ payer' \in Seq(Parents \cup {NoParent}) /\ Len(payer') = Len(payer) + 1
      /\ DOMAIN payer' = DOMAIN payer \cup {Len(payer) + 1}
      /\ \A i \in DOMAIN payer : payer'[i] = payer[i]
      /\ payer'[Len(payer) + 1] = p
  BY <1>1, <1>2, RowAppended, AppendProperties
<1>4. DOMAIN payer = DOMAIN invoices
  BY <1>1, LenProperties DEF TypeOK
<1>5. FamiliesTypeOK'
  BY <1>1, <1>2, <1>3 DEF FamiliesTypeOK, FamiliesInv
<1>6. PayersKnown'
  <2>. SUFFICES ASSUME NEW i \in DOMAIN invoices'
                PROVE  /\ payer'[i] # NoParent => \A l \in Covered(invoices'[i]) : <<payer'[i], l>> \in known
                       /\ payer'[i] = NoParent => Covered(invoices'[i]) = {invoices'[i].learner}
    BY <1>2 DEF PayersKnown, Covered
  <2>1. CASE i \in DOMAIN invoices
    BY <1>3, <1>4, <2>1 DEF PayersKnown, FamiliesInv
  <2>2. CASE i = Len(invoices) + 1
    BY <1>1, <1>3, <2>2
  <2>. QED  BY <2>1, <2>2
<1>7. MailsStayInFamily'
  <2>1. last_mail \in {<<>>} \cup ((DOMAIN invoices) \X Parents)
    BY DEF FamiliesInv, FamiliesTypeOK
  <2>2. \A i, q : last_mail = <<i, q>> => i \in DOMAIN invoices
    BY <2>1
  <2>. QED  BY <1>2, <2>2 DEF MailsStayInFamily, FamiliesInv, Covered
<1>. QED  BY <1>5, <1>6, <1>7

\* A step that leaves the invoices and the payers keeps the payers known.
LEMMA SamePayers ==
  ASSUME FamiliesInv, SameCover, payer' = payer, known \subseteq known'
  PROVE  PayersKnown' /\ (last_mail' = last_mail => MailsStayInFamily')
<1>1. \A i \in DOMAIN invoices : Covered(invoices'[i]) = Covered(invoices[i])
  BY DEF SameCover, Covered
<1>2. PayersKnown'
  BY <1>1 DEF PayersKnown, SameCover, FamiliesInv, Covered
<1>3. ASSUME last_mail' = last_mail  PROVE MailsStayInFamily'
  BY <1>1, <1>3 DEF MailsStayInFamily, SameCover, FamiliesInv, Covered
<1>. QED  BY <1>2, <1>3

\* The contacts of an invoice have been linked to everyone on it.
LEMMA ContactsKnown ==
  ASSUME FamiliesInv, NEW i \in DOMAIN invoices, NEW p \in Contacts(i)
  PROVE  \A l \in Covered(invoices[i]) : <<p, l>> \in known
<1>1. CASE payer[i] # NoParent
  BY <1>1 DEF Contacts, PayersKnown, FamiliesInv
<1>2. CASE payer[i] = NoParent
  BY <1>2 DEF Contacts, PayersKnown, FamiliesInv, FamiliesTypeOK
<1>. QED  BY <1>1, <1>2

\* Every request keeps the invariant.
LEMMA FamiliesStep ==
  ASSUME TypeOK, FamiliesInv, [FamiliesNext]_officeVars
  PROVE  FamiliesInv'
<1>0. TypeOK' /\ LinksInFamily'
  BY FamiliesStepIsBilling, LinksStep, TypeStep DEF FamiliesInv
<1>1. ASSUME NEW p \in Parents, NEW period \in Periods, NEW attending, NEW fee_lines,
             FamilyInvoice(p, period, attending, fee_lines)
      PROVE  FamiliesInv'
  <2>1. IssuedTo(p)
    BY <1>1 DEF FamilyInvoice, IssueFamily
  <2>2. /\ Len(invoices') = Len(invoices) + 1
        /\ DOMAIN invoices' = DOMAIN invoices \cup {Len(invoices) + 1}
        /\ \A i \in DOMAIN invoices : invoices'[i] = invoices[i]
        /\ Covered(invoices'[Len(invoices) + 1]) = Due(p, period, attending, fee_lines)
    BY <1>1, FamilyInvoiceIssued DEF FamiliesInv
  <2>3. \A l \in Due(p, period, attending, fee_lines) : <<p, l>> \in known
    BY DEF Due, Linked, FamiliesInv, FamiliesTypeOK
  <2>4. p # NoParent /\ parents' \in [Parents -> {"unknown", "active", "deleted"}]
    BY <2>1, ParentAssumption DEF IssuedTo, FamiliesInv, FamiliesTypeOK
  <2>. QED  BY <1>0, <2>1, <2>2, <2>3, <2>4, NewPayer DEF FamiliesInv
<1>2. ASSUME NEW l \in Learners, NEW period \in Periods, NEW fee \in Fees,
             LearnerInvoice(l, period, fee)
      PROVE  FamiliesInv'
  <2>1. IssuedTo(NoParent)
    BY <1>2 DEF LearnerInvoice
  <2>2. /\ Len(invoices') = Len(invoices) + 1
        /\ DOMAIN invoices' = DOMAIN invoices \cup {Len(invoices) + 1}
        /\ \A i \in DOMAIN invoices : invoices'[i] = invoices[i]
        /\ Covered(invoices'[Len(invoices) + 1]) = {invoices'[Len(invoices) + 1].learner}
    BY <1>2, LearnerInvoiceIssued
  <2>3. parents' \in [Parents -> {"unknown", "active", "deleted"}]
    BY <2>1 DEF IssuedTo, FamiliesInv, FamiliesTypeOK
  <2>. QED  BY <1>0, <2>1, <2>2, <2>3, NewPayer DEF FamiliesInv
<1>3. ASSUME NEW i \in DOMAIN invoices, MailInvoice(i)  PROVE FamiliesInv'
  <2>1. SameCover
    BY <1>3, OthersKeepCover DEF MailInvoice
  <2>2. /\ last_mail' \in {last_mail} \cup {<<i, p>> : p \in Contacts(i)}
        /\ UNCHANGED <<parents, links, payer, known>>
    BY <1>3 DEF MailInvoice
  <2>3. Contacts(i) \subseteq Parents
    <3>1. DOMAIN payer = DOMAIN invoices
      BY LenProperties DEF TypeOK, FamiliesInv, FamiliesTypeOK
    <3>2. payer[i] \in Parents \cup {NoParent}
      BY <3>1, RowInSet DEF FamiliesInv, FamiliesTypeOK
    <3>. QED  BY <3>2 DEF Contacts
  <2>4. FamiliesTypeOK'
    BY <2>1, <2>2, <2>3 DEF FamiliesTypeOK, FamiliesInv, SameCover
  <2>5. PayersKnown' /\ (last_mail' = last_mail => MailsStayInFamily')
    BY <2>1, <2>2, SamePayers
  <2>6. ASSUME NEW p \in Contacts(i), last_mail' = <<i, p>>  PROVE MailsStayInFamily'
    <3>1. Covered(invoices'[i]) = Covered(invoices[i])
      BY <2>1 DEF SameCover, Covered
    <3>2. \A l \in Covered(invoices'[i]) : <<p, l>> \in known'
      BY <2>2, <3>1, ContactsKnown
    <3>. QED  BY <2>6, <3>2 DEF MailsStayInFamily, Covered
  <2>. QED  BY <1>0, <2>2, <2>4, <2>5, <2>6 DEF FamiliesInv
<1>4. ASSUME SameCover, UNCHANGED <<payer, last_mail>>, known \subseteq known',
             links' \subseteq known', known' \subseteq Parents \X Learners,
             parents' \in [Parents -> {"unknown", "active", "deleted"}]
      PROVE  FamiliesInv'
  <2>1. FamiliesTypeOK'
    BY <1>4 DEF FamiliesTypeOK, FamiliesInv, SameCover
  <2>. QED  BY <1>0, <1>4, <2>1, SamePayers DEF FamiliesInv
<1>5. ASSUME UNCHANGED vars  PROVE SameCover
  BY <1>5, OthersKeepCover
<1>6. ASSUME NEW S, CreateParents(S)  PROVE FamiliesInv'
  BY <1>4, <1>5, <1>6 DEF CreateParents, FamiliesInv, FamiliesTypeOK
<1>7. ASSUME NEW p, DeleteParent(p)  PROVE FamiliesInv'
  BY <1>4, <1>5, <1>7 DEF DeleteParent, FamiliesInv, FamiliesTypeOK
<1>8. ASSUME NEW p \in Parents, NEW l \in Learners, LinkLearner(p, l)  PROVE FamiliesInv'
  BY <1>4, <1>5, <1>8 DEF LinkLearner, FamiliesInv, FamiliesTypeOK
<1>9. ASSUME NEW p, NEW l, UnlinkLearner(p, l)  PROVE FamiliesInv'
  BY <1>4, <1>5, <1>9 DEF UnlinkLearner, FamiliesInv, FamiliesTypeOK
<1>10. ASSUME OtherRequests \/ UNCHANGED officeVars  PROVE FamiliesInv'
  <2>1. SameCover /\ UNCHANGED familyVars
    BY <1>10, OthersKeepCover DEF OtherRequests, officeVars
  <2>. QED  BY <1>4, <2>1 DEF familyVars, FamiliesInv, FamiliesTypeOK
<1>. QED
  BY <1>1, <1>2, <1>3, <1>6, <1>7, <1>8, <1>9, <1>10 DEF FamiliesNext

\* The invariant holds in every state.
LEMMA FamiliesInvariant == FamiliesSpec => [](TypeOK /\ FamiliesInv)
<1>1. FamiliesInit => FamiliesInv
  BY DEF FamiliesInit, Init, FamiliesInv, FamiliesTypeOK, LinksInFamily, PayersKnown, MailsStayInFamily
<1>2. FamiliesSpec => []TypeOK
  BY FamiliesAreBilling, TypeCorrect DEF FamiliesImplementBilling
<1>. QED  BY <1>1, <1>2, FamiliesStep, PTL DEF FamiliesSpec

------------------------------------------------------------------------------
(* The theorems. *)

\* The tables keep their shape, and every invoice has a payer or none.
THEOREM FamiliesTypeCorrect == FamiliesSpec => []FamiliesTypeOK
<1>1. FamiliesInv => FamiliesTypeOK
  BY DEF FamiliesInv
<1>. QED  BY <1>1, FamiliesInvariant, PTL

\* No invoice is mailed to a parent who was never linked to all of its learners.
THEOREM MailsStay == FamiliesSpec => []MailsStayInFamily
<1>1. FamiliesInv => MailsStayInFamily
  BY DEF FamiliesInv
<1>. QED  BY <1>1, FamiliesInvariant, PTL

\* After a family invoice everyone it should bill has been billed for the period.
THEOREM NobodyIsLeftOut == FamiliesSpec => NobodyLeftOut
<1>1. ASSUME TypeOK, FamiliesInv, NEW p \in Parents, NEW period \in Periods,
             NEW attending \in SUBSET Linked(p), NEW fee_lines, NEW l \in attending,
             FamilyInvoice(p, period, attending, fee_lines), is_active[l], fee_lines[l] # <<>>
      PROVE  AlreadyBilled(l, period)'
  <2>0. /\ DOMAIN invoices' = DOMAIN invoices \cup {Len(invoices) + 1}
        /\ \A i \in DOMAIN invoices : invoices'[i] = invoices[i]
        /\ Covered(invoices'[Len(invoices) + 1]) = Due(p, period, attending, fee_lines)
        /\ invoices'[Len(invoices) + 1].period = period
        /\ invoices'[Len(invoices) + 1].status = "Generated"
    BY <1>1, FamilyInvoiceIssued DEF FamiliesInv
  <2>1. CASE AlreadyBilled(l, period)
    BY <2>0, <2>1 DEF AlreadyBilled, IsLive, Covered
  <2>2. CASE ~AlreadyBilled(l, period)
    <3>1. l \in Due(p, period, attending, fee_lines)
      BY <1>1, <2>2 DEF Due
    <3>. QED  BY <2>0, <3>1 DEF AlreadyBilled, IsLive, Covered
  <2>. QED  BY <2>1, <2>2
<1>2. TypeOK /\ FamiliesInv =>
        (Len(payer') > Len(payer) =>
          \A p \in Parents, period \in Periods :
            \A attending \in SUBSET Linked(p), fee_lines \in [Linked(p) -> BillingLines] :
              FamilyInvoice(p, period, attending, fee_lines) =>
                \A l \in attending :
                  is_active[l] /\ fee_lines[l] # <<>> => AlreadyBilled(l, period)')
  BY <1>1
<1>. QED  BY <1>2, FamiliesInvariant, PTL DEF NobodyLeftOut

\* A deleted parent stays deleted, and is neither billed nor linked again.
THEOREM ParentsDeletedForGood == FamiliesSpec => DeletedForGood
<1>1. ASSUME FamiliesInv, [FamiliesNext]_officeVars, NEW p \in Parents, parents[p] = "deleted"
      PROVE  /\ parents'[p] = "deleted"
             /\ \A l \in Learners : <<p, l>> \in links' => <<p, l>> \in links
             /\ Len(payer') > Len(payer) => payer'[Len(payer')] # p
  <2>0. parents \in [Parents -> {"unknown", "active", "deleted"}] /\ payer \in Seq(Parents \cup {NoParent})
    BY <1>1 DEF FamiliesInv, FamiliesTypeOK
  <2>1. ASSUME NEW q \in Parents \cup {NoParent}, IssuedTo(q), q # p
        PROVE  payer'[Len(payer')] # p /\ UNCHANGED <<parents, links>>
    BY <2>0, <2>1, AppendProperties DEF IssuedTo
  <2>2. ASSUME NEW q \in Parents, NEW period, NEW attending, NEW fee_lines,
               FamilyInvoice(q, period, attending, fee_lines)
        PROVE  IssuedTo(q) /\ q # p
    BY <1>1, <2>2 DEF FamilyInvoice, IssueFamily
  <2>3. ASSUME NEW l, NEW period, NEW fee, LearnerInvoice(l, period, fee)
        PROVE  IssuedTo(NoParent) /\ NoParent # p
    BY <2>3, ParentAssumption DEF LearnerInvoice
  <2>4. ASSUME UNCHANGED <<parents, links, payer>>
        PROVE  /\ parents'[p] = "deleted"
               /\ \A l \in Learners : <<p, l>> \in links' => <<p, l>> \in links
               /\ ~(Len(payer') > Len(payer))
    <3>1. Len(payer) \in Nat
      BY <2>0, LenProperties
    <3>. QED  BY <1>1, <2>4, <3>1
  <2>5. ASSUME payer' = payer  PROVE ~(Len(payer') > Len(payer))
    BY <2>0, <2>5, LenProperties
  <2>6. ASSUME NEW S, CreateParents(S)  PROVE parents'[p] = "deleted" /\ UNCHANGED <<links, payer>>
    BY <1>1, <2>6 DEF CreateParents
  <2>7. ASSUME NEW q, DeleteParent(q)  PROVE parents'[p] = "deleted" /\ UNCHANGED <<links, payer>>
    BY <1>1, <2>0, <2>7 DEF DeleteParent
  <2>8. ASSUME NEW q \in Parents, NEW m \in Learners, LinkLearner(q, m) \/ UnlinkLearner(q, m)
        PROVE  /\ \A l \in Learners : <<p, l>> \in links' => <<p, l>> \in links
               /\ UNCHANGED <<parents, payer>>
    BY <1>1, <2>8 DEF LinkLearner, UnlinkLearner
  <2>9. ASSUME (\E i \in DOMAIN invoices : MailInvoice(i)) \/ OtherRequests \/ UNCHANGED officeVars
        PROVE  UNCHANGED <<parents, links, payer>>
    BY <2>9 DEF MailInvoice, OtherRequests, familyVars, officeVars
  <2>. QED
    BY <1>1, <2>1, <2>2, <2>3, <2>4, <2>5, <2>6, <2>7, <2>8, <2>9 DEF FamiliesNext
<1>2. FamiliesInv /\ [FamiliesNext]_officeVars =>
        \A p \in Parents : parents[p] = "deleted" =>
          /\ parents'[p] = "deleted"
          /\ \A l \in Learners : <<p, l>> \in links' => <<p, l>> \in links
          /\ Len(payer') > Len(payer) => payer'[Len(payer')] # p
  BY <1>1
<1>. QED  BY <1>2, FamiliesInvariant, PTL DEF FamiliesSpec, DeletedForGood

\* What the office does with parents and links, mails, edits and deletions
\* included, leaves everything true that is proved of the books.
THEOREM BooksSurviveFamilies == FamiliesSpec => []BooksSound /\ BooksKept
BY FamiliesAreBilling, BooksTogether DEF FamiliesImplementBilling
=============================================================================

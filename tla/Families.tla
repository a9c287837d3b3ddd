------------------------------ MODULE Families ------------------------------
(***************************************************************************)
(* The parents of the school, their links to learners, the fee lines that  *)
(* a learner is billed for, and who is sent an invoice                     *)
(* (app/routers/parents.py, invoices.py, imports.py, app/fee_engine.py,    *)
(* app/email_engine.py), composed with Billing: here the learners of a     *)
(* family are part of the state and change between one invoice and the     *)
(* next.  The fee lines and the status of a learner may change at any time *)
(* (Enrolment has the detail), so a request reads any that there can be.   *)
(* The month-end run, which knows no families, is left to MonthEnd.        *)
(***************************************************************************)
EXTENDS Billing

CONSTANTS
  FeeItems,     \* fee items with the frequency "monthly"
  Prices,       \* amounts a fee line can have; a custom amount may be zero
  NoParent      \* Invoice.parent_id NULL

ASSUME PriceAssumption  == Prices \subseteq Nat
ASSUME ParentAssumption == NoParent \notin Parents

VARIABLES
  parents,      \* Parent rows: "unknown" before creation, "active", "deleted"
  links,        \* LearnerParentRelationship rows, as <<parent, learner>>
  payer,        \* Invoice.parent_id; position = id of the invoice
  last_mail,    \* the newest EmailLog row for a parent: <<invoice, parent>>
  known         \* history: every link there ever was

familyVars == <<parents, links, payer, last_mail, known>>
officeVars == <<vars, familyVars>>

Linked(p) == {l \in Learners : <<p, l>> \in links}

\* What get_billing_lines returns for a learner: the amount (the custom one if
\* there is one) of each item that is assigned, active, monthly and in its dates.
BillingLines == UNION {[F -> Prices] : F \in SUBSET FeeItems}

\* The sum of these amounts.
LineTotal(lines) == SumLines(lines)
------------------------------------------------------------------------------
FamiliesInit ==
  /\ Init
  /\ parents = [p \in Parents |-> "unknown"]
  /\ links = {}
  /\ payer = <<>>
  /\ last_mail = <<>>
  /\ known = {}

\* POST /api/parents with one parent; a file of parents, all of it one commit.
CreateParents(S) ==
  /\ S # {} /\ \A p \in S : parents[p] = "unknown"
  /\ parents' = [p \in Parents |-> IF p \in S THEN "active" ELSE parents[p]]
  /\ UNCHANGED <<vars, links, payer, last_mail, known>>

\* A soft delete: the links stay.
DeleteParent(p) ==
  /\ parents[p] = "active"
  /\ parents' = [parents EXCEPT ![p] = "deleted"]
  /\ UNCHANGED <<vars, links, payer, last_mail, known>>

\* Family bounds the model: the learners a parent may ever be linked to.
LinkLearner(p, l) ==
  /\ parents[p] = "active" /\ is_active[l] /\ l \in Family[p] \ Linked(p)
  /\ links' = links \cup {<<p, l>>}
  /\ known' = known \cup {<<p, l>>}
  /\ UNCHANGED <<vars, parents, payer, last_mail>>

\* Any link may go, that of a deleted parent or of a deactivated learner too.
UnlinkLearner(p, l) ==
  /\ <<p, l>> \in links
  /\ links' = links \ {<<p, l>>}
  /\ UNCHANGED <<vars, parents, payer, last_mail, known>>
------------------------------------------------------------------------------
FaultyDue(p, period, attending, fee_lines) ==
  {l \in Linked(p) : /\ is_active[l] /\ l \in attending /\ fee_lines[l] # <<>>
                     /\ \A i \in DOMAIN invoices : payer[i] # p}

\* The learners a family invoice of p has to cover: linked, active, with the
\* status "Active" (attending), not yet billed for the period, and with lines.
Due(p, period, attending, fee_lines) ==
  {l \in Linked(p) : /\ is_active[l] /\ l \in attending
                     /\ ~AlreadyBilled(l, period) /\ fee_lines[l] # <<>>}

IssuedTo(p) ==
  /\ payer' = Append(payer, p)
  /\ UNCHANGED <<parents, links, last_mail, known>>

IssueFamily(p, period, totals) ==
  /\ parents[p] = "active" /\ totals # <<>>
  /\ \A l \in DOMAIN totals : totals[l] \in Fees
  /\ \E order \in Bijection(1..Cardinality(DOMAIN totals), DOMAIN totals) :
       Issue(Draft(NoLearner, totals, period, FALSE), OwedBy(entries, DOMAIN totals), 0, order)
  /\ IssuedTo(p)

FaultyFamilyInvoice(p, period, attending, fee_lines) ==
  IssueFamily(p, period,
    [l \in {m \in Due(p, period, attending, fee_lines) : LineTotal(fee_lines[m]) \in Fees}
       |-> LineTotal(fee_lines[l])])

\* POST /api/parents/{id}/generate-invoice.  post_invoice refuses a total that
\* is not positive, and with it the invoice of the whole family.
FamilyInvoice(p, period, attending, fee_lines) ==
  IssueFamily(p, period,
    [l \in Due(p, period, attending, fee_lines) |-> LineTotal(fee_lines[l])])

\* POST /api/invoices/generate: an invoice of a learner's own.
LearnerInvoice(l, period, fee) ==
  /\ GenerateInvoice(l, period, fee) \/ GenerateStructureInvoice(l, period, fee)
  /\ IssuedTo(NoParent)

FaultyContacts(i) ==
  {p \in Parents : \E l \in Covered(invoices[i]) : <<p, l>> \in links}

\* _parent_contacts_for_invoice: the payer, or else every linked parent,
\* whether deleted or not.
Contacts(i) ==
  IF payer[i] # NoParent THEN {payer[i]} ELSE {p \in Parents : <<p, invoices[i].learner>> \in links}

\* The mail goes to one of the contacts, the first that has an address; or else
\* to the address typed in by the sender or to a placeholder.
MailInvoice(i) ==
  /\ SendInvoice(i)
  /\ last_mail' \in {last_mail} \cup {<<i, p>> : p \in Contacts(i)}
  /\ UNCHANGED <<parents, links, payer, known>>

\* The other requests of Billing neither read nor write the families.
OtherRequests == (Receiving \/ Upkeep) /\ UNCHANGED familyVars

FamiliesNext ==
  \/ \E S \in SUBSET Parents : CreateParents(S)
  \/ \E p \in Parents : DeleteParent(p)
  \/ \E p \in Parents, l \in Learners : LinkLearner(p, l) \/ UnlinkLearner(p, l)
  \/ \E p \in Parents, period \in Periods :
       \E attending \in SUBSET Linked(p), fee_lines \in [Linked(p) -> BillingLines] :
         FamilyInvoice(p, period, attending, fee_lines)
  \/ \E l \in Learners, period \in Periods, fee \in Fees : LearnerInvoice(l, period, fee)
  \/ \E i \in DOMAIN invoices : MailInvoice(i)
  \/ OtherRequests

FamiliesSpec == FamiliesInit /\ [][FamiliesNext]_officeVars
------------------------------------------------------------------------------
(***************************************************************************)
(* Properties.                                                             *)
(***************************************************************************)
\* The rows have their shape, and every invoice has a payer or none.
FamiliesTypeOK ==
  /\ parents \in [Parents -> {"unknown", "active", "deleted"}]
  /\ links \subseteq known /\ known \subseteq Parents \X Learners
  /\ payer \in Seq(Parents \cup {NoParent}) /\ Len(payer) = Len(invoices)
  /\ last_mail \in {<<>>} \cup ((DOMAIN invoices) \X Parents)

\* An invoice is mailed only to parents who have been linked to every learner
\* on it at some time: links made and removed between the invoice and the mail,
\* a second parent of one of the siblings and the deletion of a parent do not
\* show a family's invoice to another family.  (A mail may go to a parent who
\* has been deleted or unlinked since the invoice.)
MailsStayInFamily ==
  \A i \in DOMAIN invoices, p \in Parents :
    last_mail = <<i, p>> => \A l \in Covered(invoices[i]) : <<p, l>> \in known

\* A family invoice leaves nobody out: afterwards every linked learner who is
\* active, has the status "Active" and has monthly lines is billed for the
\* period.  A sibling whose lines come to zero holds the whole invoice back.
NobodyLeftOut ==
  [][Len(payer') > Len(payer) =>
       \A p \in Parents, period \in Periods :
         \A attending \in SUBSET Linked(p), fee_lines \in [Linked(p) -> BillingLines] :
           FamilyInvoice(p, period, attending, fee_lines) =>
             \A l \in attending :
               is_active[l] /\ fee_lines[l] # <<>> => AlreadyBilled(l, period)']_officeVars

\* A deleted parent stays deleted (no route brings one back), is never billed
\* and never linked again.
DeletedForGood ==
  [][\A p \in Parents : parents[p] = "deleted" =>
       /\ parents'[p] = "deleted"
       /\ \A l \in Learners : <<p, l>> \in links' => <<p, l>> \in links
       /\ Len(payer') > Len(payer) => payer'[Len(payer')] # p]_officeVars

\* With families and fees that change, what happens to the books is still what
\* Billing allows: a learner with two parents, linked anew or with a changed
\* fee, is under FamilyBillsOnce and every other theorem about Billing.
FamiliesImplementBilling == Spec
=============================================================================

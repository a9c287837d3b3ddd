---------------------------- MODULE MonthEndProofs ----------------------------
(***************************************************************************)
(* Theorems about MonthEnd for every value of its constants: runs leave    *)
(* the books to Billing, bill once, count what they made, come nearer to   *)
(* their end with every step, and never take up the row of a crashed run.  *)
(***************************************************************************)
EXTENDS MonthEnd, BillingProofs

------------------------------------------------------------------------------
(* The run rows. *)

\* Appending a run row, and replacing one.
RunAdded(row) ==
  /\ Len(runs) + 1 \notin DOMAIN runs
  /\ DOMAIN runs' = DOMAIN runs \cup {Len(runs) + 1}
  /\ \A r \in DOMAIN runs : runs'[r] = runs[r]
  /\ runs'[Len(runs) + 1] = row

RunChanged(r, row) ==
  /\ DOMAIN runs' = DOMAIN runs
  /\ \A s \in DOMAIN runs : s # r => runs'[s] = runs[s]
  /\ runs'[r] = row

\* Appending a run adds one row.
LEMMA RunAppended ==
  ASSUME NEW S, runs \in Seq(S), NEW row \in S, runs' = Append(runs, row)
  PROVE  runs' \in Seq(S) /\ RunAdded(row)
<1>1. Len(runs) \in Nat /\ DOMAIN runs = 1..Len(runs)
  BY LenProperties
<1>2. /\ runs' \in Seq(S) /\ Len(runs') = Len(runs) + 1
      /\ \A r \in 1..Len(runs) : runs'[r] = runs[r]
      /\ runs'[Len(runs) + 1] = row
  BY AppendProperties
<1>3. DOMAIN runs' = 1..(Len(runs) + 1)
  BY <1>2, LenProperties
<1>. QED  BY <1>1, <1>2, <1>3 DEF RunAdded

\* Replacing a run changes one row.
LEMMA RunReplaced ==
  ASSUME NEW S, runs \in Seq(S), NEW r \in DOMAIN runs, NEW row \in S,
         runs' = [runs EXCEPT ![r] = row]
  PROVE  runs' \in Seq(S) /\ RunChanged(r, row)
<1>1. Len(runs) \in Nat /\ DOMAIN runs = 1..Len(runs)
  BY LenProperties
<1>2. /\ runs' \in Seq(S) /\ Len(runs') = Len(runs)
      /\ \A s \in 1..Len(runs) : runs'[s] = IF s = r THEN row ELSE runs[s]
  BY <1>1, ExceptSeq
<1>3. DOMAIN runs' = 1..Len(runs)
  BY <1>2, LenProperties
<1>. QED  BY <1>1, <1>2, <1>3 DEF RunChanged

\* When the invoices only grow, a run row stays one.
LEMMA RowsStayRows ==
  ASSUME runs \in Seq(RunRow), DOMAIN invoices \subseteq DOMAIN invoices'
  PROVE  runs \in Seq(RunRow')
<1>1. RunRow \subseteq RunRow'
  BY DEF RunRow
<1>2. Len(runs) \in Nat /\ runs \in [1..Len(runs) -> RunRow]
  BY LenProperties
<1>3. runs \in [1..Len(runs) -> RunRow']
  BY <1>1, <1>2
<1>. QED  BY <1>2, <1>3, SeqDef

\* What the types say of one row and of the run in progress.
LEMMA RunFacts ==
  ASSUME MonthEndTypeOK, NEW r \in DOMAIN runs
  PROVE  runs[r] \in RunRow
  BY LenProperties, ElementOfSeq DEF MonthEndTypeOK

\* The run in progress has a row, whose period parses.
LEMMA InProgressFacts ==
  ASSUME MonthEndTypeOK, InProgress
  PROVE  /\ job.run \in DOMAIN runs /\ runs[job.run] \in RunRow
         /\ Period \in Periods /\ Period = runs[job.run].period
<1>1. job.run \in DOMAIN runs
  BY DEF MonthEndTypeOK, InProgress
<1>2. runs[job.run] \in RunRow
  BY <1>1, RunFacts
<1>. QED  BY <1>1, <1>2 DEF Period, RunRow

------------------------------------------------------------------------------
(* The steps of a run, as seen by the books. *)

\* An invoice made by the run.
RunIssues(l, period) ==
  /\ Len(invoices) + 1 \notin DOMAIN invoices
  /\ Len(invoices') = Len(invoices) + 1
  /\ DOMAIN invoices' = DOMAIN invoices \cup {Len(invoices) + 1}
  /\ \A i \in DOMAIN invoices : invoices'[i] = invoices[i] /\ i < Len(invoices) + 1
  /\ invoices'[Len(invoices) + 1].learner = l
  /\ invoices'[Len(invoices) + 1].period = period

\* MonthEndInvoice makes one invoice, of the learner and period, and changes no other.
LEMMA RunIssueFacts ==
  ASSUME TypeOK, NEW l \in Learners, NEW period \in Periods, NEW fee \in Fees,
         MonthEndInvoice(l, period, fee)
  PROVE  RunIssues(l, period)
<1>. DEFINE lines == [m \in {l} |-> fee]
            inv   == Draft(l, lines, period, TRUE)
            new   == [inv EXCEPT !.number = NextInvoiceNumber(invoice_counter, Year(today))]
<1>1. Issue(inv, ComputeBalance(entries, l), PaymentsMade(l), <<l>>)
  BY DEF MonthEndInvoice, BillLearner
<1>2. invoices' = Append(invoices, new)
  BY <1>1 DEF Issue
<1>3. new.learner = l /\ new.period = period
  BY DEF Draft
<1>4. inv \in InvoiceRow
  <2>1. lines \in [{l} -> Fees] /\ {l} \in SUBSET Learners
    OBVIOUS
  <2>2. lines \in Lines
    BY <2>1 DEF Lines
  <2>. HIDE DEF lines
  <2>. QED  BY <2>2, DraftIsRow
<1>5. new \in InvoiceRow
  <2>1. Year(today) \in Nat
    BY YearIsNat, YearAssumption DEF TypeOK
  <2>2. NextInvoiceNumber(invoice_counter, Year(today)) \in [year : Nat, seq : Nat]
    BY <2>1 DEF NextInvoiceNumber, TypeOK
  <2>. HIDE DEF inv
  <2>. QED  BY <1>4, <2>2 DEF InvoiceRow
<1>6. Len(invoices) \in Nat /\ DOMAIN invoices = 1..Len(invoices)
  BY LenProperties DEF TypeOK
<1>7. /\ invoices' \in Seq(InvoiceRow) /\ Len(invoices') = Len(invoices) + 1
      /\ \A i \in DOMAIN invoices : invoices'[i] = invoices[i]
      /\ invoices'[Len(invoices) + 1] = new
  <2>. HIDE DEF new
  <2>1. invoices \in Seq(InvoiceRow)
    BY DEF TypeOK
  <2>. QED  BY <1>2, <1>5, <1>6, <2>1, AppendProperties
<1>8. DOMAIN invoices' = 1..(Len(invoices) + 1)
  BY <1>7, LenProperties
<1>. QED
  <2>. HIDE DEF new
  <2>. QED  BY <1>3, <1>6, <1>7, <1>8 DEF RunIssues

\* Every step of a run is a step of Billing or leaves the books alone.
LEMMA RunStepIsBilling ==
  MonthEndTypeOK /\ [MonthEndNext]_allVars => [Next]_vars
<1>. SUFFICES ASSUME MonthEndTypeOK, [MonthEndNext]_allVars  PROVE [Next]_vars
  OBVIOUS
<1>1. CASE Serve
  BY <1>1 DEF Serve, Next
<1>2. ASSUME NEW period \in Periods, StartRun(period)  PROVE [Next]_vars
  BY <1>2 DEF StartRun
<1>3. ASSUME NEW l \in Learners, SkipLearner(l) \/ LoseInvoice(l)  PROVE [Next]_vars
  BY <1>3 DEF SkipLearner, LoseInvoice
<1>4. ASSUME NEW l \in Learners, NEW fee \in Fees, BillInRun(l, fee)  PROVE [Next]_vars
  <2>1. Period \in Periods /\ MonthEndInvoice(l, Period, fee)
    BY <1>4, InProgressFacts DEF BillInRun, TakesUp
  <2>. QED  BY <2>1 DEF Next, MonthEndBilling
<1>5. CASE MailSent
  <2>1. job.mail \in DOMAIN invoices /\ SendInvoice(job.mail)
    BY <1>5 DEF MailSent, MonthEndTypeOK
  <2>. QED  BY <2>1 DEF Next, Requests, Mailing
<1>6. CASE MailFailed \/ FailRun \/ CompleteRun \/ Crash
  BY <1>6 DEF MailFailed, FailRun, CompleteRun, Crash
<1>7. CASE UNCHANGED allVars
  BY <1>7 DEF allVars
<1>. QED
  BY <1>1, <1>2, <1>3, <1>4, <1>5, <1>6, <1>7 DEF MonthEndNext, RunStep

\* Invoices stay, with their learner and period, and once voided stay voided.
InvoicesStay ==
  /\ DOMAIN invoices \subseteq DOMAIN invoices'
  /\ \A i \in DOMAIN invoices :
       /\ invoices'[i].learner = invoices[i].learner
       /\ invoices'[i].period = invoices[i].period
       /\ invoices[i].voided => invoices'[i].voided

\* A request loses no invoice, and forgets of none that it was voided.
LEMMA BooksGrow == TypeOK /\ [Next]_vars => InvoicesStay
<1>. SUFFICES ASSUME TypeOK, [Next]_vars  PROVE InvoicesStay
  OBVIOUS
<1>1. CASE IssueStep
  <2>1. PICK inv, order : Issued(inv, order)
    BY <1>1, IssueShape
  <2>. QED  BY <2>1 DEF Issued, NumberIssued, InvoicesStay
<1>2. CASE KeptInvoices
  BY <1>2 DEF KeptInvoices, InvoicesStay
<1>. QED  BY <1>1, <1>2, KeptOrIssued

------------------------------------------------------------------------------
(* Types. *)

\* What a step does to the run rows and to the run in progress: nothing (or the
\* process ends), a new row, an invoice, or the end of the run.
RowsSame == runs' = runs /\ (job'.run = job.run \/ job' = NoJob)

RowStarted ==
  \E period \in Periods :
    /\ ~InProgress
    /\ \A r \in DOMAIN runs : ~(runs[r].period = period /\ runs[r].status = "running")
    /\ RunAdded(NewRun(period))
    /\ job'.run = Len(runs) + 1

RowBilled(l) ==
  /\ InProgress
  /\ RunIssues(l, Period)
  /\ \A i \in OwnLive(l) : invoices[i].period # Period
  /\ RunChanged(job.run, [runs[job.run] EXCEPT !.invoices = @ \cup {Len(invoices')}])
  /\ job'.run = job.run

RowEnded ==
  /\ InProgress
  /\ job' = NoJob
  /\ \E row \in RunRow' :
       /\ RunChanged(job.run, row)
       /\ row.period = runs[job.run].period /\ row.invoices = runs[job.run].invoices
       /\ row.status # "running"
       /\ row.status = "completed" =>
            /\ row.invoices_generated = job.invoices_generated
            /\ row.notifications_sent = job.notifications_sent

RunsShape == RowsSame \/ RowStarted \/ (\E l \in Learners : RowBilled(l)) \/ RowEnded

\* The locals of the run, for run rows R and invoices M, and their updates.
Locals(R, M) == [run : R, todo : SUBSET Learners, mail : M, invoices_generated : Nat,
                 notifications_sent : Nat]

\* The changes a run makes to its locals keep their shape.
LEMMA LocalsFacts ==
  ASSUME NEW R, NEW M, NEW j \in Locals(R, M), 0 \in M, NEW l, NEW i \in M
  PROVE  /\ [j EXCEPT !.todo = @ \ {l}] \in Locals(R, M)
         /\ [j EXCEPT !.todo = @ \ {l}, !.invoices_generated = @ + 1] \in Locals(R, M)
         /\ [j EXCEPT !.todo = @ \ {l}, !.mail = i, !.invoices_generated = @ + 1]
              \in Locals(R, M)
         /\ [j EXCEPT !.mail = 0] \in Locals(R, M)
         /\ [j EXCEPT !.mail = 0, !.notifications_sent = @ + 1] \in Locals(R, M)
<1>. DEFINE T == SUBSET Learners
            rest == j.todo \ {l}
            more == j.invoices_generated + 1
            sent == j.notifications_sent + 1
<1>1. /\ j \in [run : R, todo : T, mail : M, invoices_generated : Nat, notifications_sent : Nat]
      /\ rest \in T /\ more \in Nat /\ sent \in Nat
  BY DEF Locals
<1>2. /\ [j EXCEPT !.todo = rest] \in Locals(R, M)
      /\ [j EXCEPT !.todo = rest, !.invoices_generated = more] \in Locals(R, M)
      /\ [j EXCEPT !.todo = rest, !.mail = i, !.invoices_generated = more] \in Locals(R, M)
      /\ [j EXCEPT !.mail = 0] \in Locals(R, M)
      /\ [j EXCEPT !.mail = 0, !.notifications_sent = sent] \in Locals(R, M)
  <2>1. Locals(R, M)
          = [run : R, todo : T, mail : M, invoices_generated : Nat, notifications_sent : Nat]
    BY DEF Locals
  <2>. HIDE DEF T, rest, more, sent
  <2>. QED  BY <1>1, <2>1
<1>. QED  BY <1>2

\* Every step of a run keeps the rows and the locals in shape.
LEMMA RunTypeStep ==
  TypeOK /\ MonthEndTypeOK /\ [MonthEndNext]_allVars => MonthEndTypeOK' /\ RunsShape
<1>. SUFFICES ASSUME TypeOK, MonthEndTypeOK, [MonthEndNext]_allVars
              PROVE  MonthEndTypeOK' /\ RunsShape
  OBVIOUS
<1>1. DOMAIN invoices \subseteq DOMAIN invoices'
  BY RunStepIsBilling, BooksGrow DEF InvoicesStay
<1>2. runs \in Seq(RunRow')
  BY <1>1, RowsStayRows DEF MonthEndTypeOK
<1>3. job \in Locals({0} \cup DOMAIN runs, {0} \cup DOMAIN invoices')
  BY <1>1 DEF MonthEndTypeOK, Locals
<1>13. ASSUME NEW l, NEW i \in {0} \cup DOMAIN invoices'
       PROVE  LET L == Locals({0} \cup DOMAIN runs, {0} \cup DOMAIN invoices')
              IN /\ [job EXCEPT !.todo = @ \ {l}] \in L
                 /\ [job EXCEPT !.todo = @ \ {l}, !.invoices_generated = @ + 1] \in L
                 /\ [job EXCEPT !.todo = @ \ {l}, !.mail = i, !.invoices_generated = @ + 1]
                      \in L
                 /\ [job EXCEPT !.mail = 0] \in L
                 /\ [job EXCEPT !.mail = 0, !.notifications_sent = @ + 1] \in L
  <2>. DEFINE R == {0} \cup DOMAIN runs
              M == {0} \cup DOMAIN invoices'
  <2>1. job \in Locals(R, M) /\ 0 \in M /\ i \in M
    BY <1>3
  <2>. HIDE DEF R, M
  <2>2. /\ [job EXCEPT !.todo = @ \ {l}] \in Locals(R, M)
        /\ [job EXCEPT !.todo = @ \ {l}, !.invoices_generated = @ + 1] \in Locals(R, M)
        /\ [job EXCEPT !.todo = @ \ {l}, !.mail = i, !.invoices_generated = @ + 1]
             \in Locals(R, M)
        /\ [job EXCEPT !.mail = 0] \in Locals(R, M)
        /\ [job EXCEPT !.mail = 0, !.notifications_sent = @ + 1] \in Locals(R, M)
    BY <2>1, LocalsFacts
  <2>. QED  BY <2>2 DEF R, M
<1>12. ASSUME runs' \in Seq(RunRow'),
              job' \in Locals({0} \cup DOMAIN runs', {0} \cup DOMAIN invoices')
       PROVE  MonthEndTypeOK'
  BY <1>12 DEF MonthEndTypeOK, Locals
<1>4. ASSUME runs' = runs, job' = job \/ job' = NoJob
      PROVE  MonthEndTypeOK' /\ RunsShape
  BY <1>2, <1>3, <1>4, <1>12 DEF Locals, NoJob, RunsShape, RowsSame
<1>5. ASSUME NEW period \in Periods, StartRun(period)
      PROVE  MonthEndTypeOK' /\ RunsShape
  <2>1. NewRun(period) \in RunRow'
    BY DEF NewRun, RunRow
  <2>2. runs' \in Seq(RunRow') /\ RunAdded(NewRun(period))
    BY <1>2, <1>5, <2>1, RunAppended DEF StartRun
  <2>3. PICK S \in SUBSET Learners : job' = [NoJob EXCEPT !.run = Len(runs) + 1, !.todo = S]
    BY <1>5 DEF StartRun
  <2>4. job' \in Locals({0} \cup DOMAIN runs', {0} \cup DOMAIN invoices')
        /\ job'.run = Len(runs) + 1
    BY <2>2, <2>3 DEF NoJob, RunAdded, Locals
  <2>5. \A r \in DOMAIN runs : ~(runs[r].period = period /\ runs[r].status = "running")
    BY <1>5 DEF StartRun
  <2>. QED  BY <1>5, <1>12, <2>2, <2>4, <2>5 DEF RunsShape, RowStarted, StartRun
<1>6. ASSUME NEW l \in Learners, SkipLearner(l) \/ LoseInvoice(l)
      PROVE  MonthEndTypeOK' /\ RunsShape
  <2>1. runs' = runs
    BY <1>6 DEF SkipLearner, LoseInvoice
  <2>2. job' \in Locals({0} \cup DOMAIN runs, {0} \cup DOMAIN invoices')
    BY <1>13, <1>6 DEF SkipLearner, LoseInvoice
  <2>3. job'.run = job.run
    BY <1>3, <1>6 DEF SkipLearner, LoseInvoice, Locals
  <2>. QED  BY <1>2, <1>12, <2>1, <2>2, <2>3 DEF RunsShape, RowsSame
<1>7. ASSUME NEW l \in Learners, NEW fee \in Fees, BillInRun(l, fee)
      PROVE  MonthEndTypeOK' /\ RunsShape
  <2>1. /\ InProgress /\ job.run \in DOMAIN runs /\ runs[job.run] \in RunRow
        /\ RunIssues(l, Period)
    BY <1>7, InProgressFacts, RunIssueFacts DEF BillInRun, TakesUp
  <2>2. Len(invoices') \in DOMAIN invoices'
    BY <2>1 DEF RunIssues
  <2>. DEFINE row == [runs[job.run] EXCEPT !.invoices = @ \cup {Len(invoices')}]
  <2>3. row \in RunRow' /\ row.period = runs[job.run].period
    BY <1>1, <2>1, <2>2 DEF RunRow
  <2>4. runs' = [runs EXCEPT ![job.run] = row]
    BY <1>7 DEF BillInRun
  <2>5. job' \in Locals({0} \cup DOMAIN runs, {0} \cup DOMAIN invoices')
    BY <1>13, <1>7, <2>2 DEF BillInRun
  <2>. HIDE DEF row
  <2>6. runs' \in Seq(RunRow') /\ RunChanged(job.run, row)
    BY <1>2, <2>1, <2>3, <2>4, RunReplaced
  <2>7. RowBilled(l)
    <3>1. job'.run = job.run
      BY <1>3, <1>7 DEF BillInRun, Locals
    <3>2. \A i \in OwnLive(l) : invoices[i].period # Period
      BY <1>7 DEF BillInRun, MonthEndInvoice
    <3>. QED  BY <2>1, <2>6, <3>1, <3>2 DEF RowBilled, row
  <2>. QED  BY <1>12, <2>5, <2>6, <2>7 DEF RunsShape, RunChanged
<1>8. CASE MailSent \/ MailFailed
  <2>1. runs' = runs
    BY <1>8 DEF MailSent, MailFailed
  <2>2. job' \in Locals({0} \cup DOMAIN runs, {0} \cup DOMAIN invoices')
    BY <1>13, <1>8 DEF MailSent, MailFailed
  <2>3. job'.run = job.run
    BY <1>3, <1>8 DEF MailSent, MailFailed, Locals
  <2>. QED  BY <1>2, <1>12, <2>1, <2>2, <2>3 DEF RunsShape, RowsSame
<1>9. CASE FailRun \/ CompleteRun
  <2>1. InProgress /\ job.run \in DOMAIN runs /\ runs[job.run] \in RunRow /\ job' = NoJob
    BY <1>9, InProgressFacts DEF FailRun, CompleteRun
  <2>2. ASSUME NEW row \in RunRow', runs' = [runs EXCEPT ![job.run] = row],
               row.period = runs[job.run].period, row.invoices = runs[job.run].invoices,
               row.status # "running",
               row.status = "completed" =>
                 /\ row.invoices_generated = job.invoices_generated
                 /\ row.notifications_sent = job.notifications_sent
        PROVE  MonthEndTypeOK' /\ RunsShape
    <3>1. runs' \in Seq(RunRow') /\ RunChanged(job.run, row)
      BY <1>2, <2>1, <2>2, RunReplaced
    <3>. QED  BY <1>12, <2>1, <2>2, <3>1 DEF RunsShape, RowEnded, NoJob, Locals
  <2>3. CASE FailRun
    <3>. DEFINE row == [runs[job.run] EXCEPT !.status = "failed"]
    <3>1. /\ row \in RunRow' /\ row.status = "failed"
          /\ row.period = runs[job.run].period /\ row.invoices = runs[job.run].invoices
      BY <1>1, <2>1 DEF RunRow
    <3>2. runs' = [runs EXCEPT ![job.run] = row]
      BY <2>3 DEF FailRun
    <3>. HIDE DEF row
    <3>. QED  BY <2>2, <3>1, <3>2
  <2>4. CASE CompleteRun
    <3>. DEFINE row == [runs[job.run] EXCEPT !.status = "completed",
                                             !.invoices_generated = job.invoices_generated,
                                             !.notifications_sent = job.notifications_sent]
    <3>1. job.invoices_generated \in Nat /\ job.notifications_sent \in Nat
      BY <1>3 DEF Locals
    <3>2. /\ row \in RunRow' /\ row.status = "completed"
          /\ row.period = runs[job.run].period /\ row.invoices = runs[job.run].invoices
          /\ row.invoices_generated = job.invoices_generated
          /\ row.notifications_sent = job.notifications_sent
      BY <1>1, <2>1, <3>1 DEF RunRow
    <3>3. runs' = [runs EXCEPT ![job.run] = row]
      BY <2>4 DEF CompleteRun
    <3>. HIDE DEF row
    <3>. QED  BY <2>2, <3>2, <3>3
  <2>. QED  BY <1>9, <2>3, <2>4
<1>10. CASE Crash
  BY <1>4, <1>10 DEF Crash
<1>11. CASE Serve \/ UNCHANGED allVars
  BY <1>4, <1>11 DEF Serve, allVars, monthEndVars
<1>. QED
  BY <1>5, <1>6, <1>7, <1>8, <1>9, <1>10, <1>11 DEF MonthEndNext, RunStep

\* The invariants of Billing and the types of the run rows, in every state.
THEOREM RunTypeCorrect == MonthEndSpec => [](TypeOK /\ MonthEndTypeOK)
<1>1. MonthEndInit => TypeOK /\ MonthEndTypeOK
  <2>1. ASSUME Init  PROVE TypeOK
    BY <2>1, YearAssumption DEF Init, TypeOK
  <2>2. ASSUME runs = <<>>, job = NoJob  PROVE MonthEndTypeOK
    BY <2>2, EmptySeq DEF MonthEndTypeOK, NoJob
  <2>. QED  BY <2>1, <2>2 DEF MonthEndInit
<1>2. TypeOK /\ MonthEndTypeOK /\ [MonthEndNext]_allVars => TypeOK' /\ MonthEndTypeOK'
  BY RunTypeStep, RunStepIsBilling, TypeStep
<1>. QED  BY <1>1, <1>2, PTL DEF MonthEndSpec

\* A month-end run, crashes and all, does to the books only what the requests
\* of Billing do.
THEOREM RunsAreRequests == MonthEndSpec => ImplementsBilling
<1>1. MonthEndTypeOK /\ [MonthEndNext]_allVars => [Next]_vars
  BY RunStepIsBilling
<1>2. MonthEndInit => Init
  BY DEF MonthEndInit
<1>. QED  BY <1>1, <1>2, RunTypeCorrect, PTL DEF MonthEndSpec, Spec, ImplementsBilling

------------------------------------------------------------------------------
(* One running row per period. *)

\* Every step leaves at most one running row per period.
LEMMA OneRunningStep ==
  MonthEndTypeOK /\ OneRunningRow /\ RunsShape => OneRunningRow'
<1>. SUFFICES ASSUME MonthEndTypeOK, OneRunningRow, RunsShape  PROVE OneRunningRow'
  OBVIOUS
<1>1. CASE RowsSame
  BY <1>1 DEF RowsSame, OneRunningRow, InProgress, NoJob
<1>2. CASE RowStarted
  <2>. DEFINE n == Len(runs) + 1
  <2>1. PICK period \in Periods :
          /\ \A r \in DOMAIN runs : ~(runs[r].period = period /\ runs[r].status = "running")
          /\ RunAdded(NewRun(period)) /\ job'.run = n
    BY <1>2 DEF RowStarted
  <2>2. NewRun(period).period = period /\ NewRun(period).status = "running"
    BY DEF NewRun
  <2>. HIDE DEF n
  <2>3. /\ DOMAIN runs' = DOMAIN runs \cup {n}
        /\ \A r \in DOMAIN runs : runs'[r] = runs[r]
        /\ runs'[n].period = period /\ runs'[n].status = "running"
    BY <2>1, <2>2 DEF RunAdded, n
  <2>. QED  BY <2>1, <2>3 DEF OneRunningRow, InProgress
<1>3. ASSUME NEW l \in Learners, RowBilled(l)  PROVE OneRunningRow'
  <2>1. job.run \in DOMAIN runs /\ runs[job.run] \in RunRow
    BY <1>3, InProgressFacts DEF RowBilled
  <2>2. /\ DOMAIN runs' = DOMAIN runs /\ job'.run = job.run
        /\ \A r \in DOMAIN runs : r # job.run => runs'[r] = runs[r]
        /\ runs'[job.run].period = runs[job.run].period
        /\ runs'[job.run].status = runs[job.run].status
    BY <1>3, <2>1 DEF RowBilled, RunChanged, RunRow
  <2>3. \A r \in DOMAIN runs :
          runs'[r].period = runs[r].period /\ runs'[r].status = runs[r].status
    BY <2>2
  <2>. QED  BY <1>3, <2>2, <2>3 DEF OneRunningRow, InProgress, RowBilled
<1>4. CASE RowEnded
  <2>1. PICK row : RunChanged(job.run, row) /\ row.status # "running"
    BY <1>4 DEF RowEnded
  <2>2. \A r \in DOMAIN runs' : runs'[r].status = "running" =>
          r \in DOMAIN runs /\ runs'[r] = runs[r]
    BY <2>1 DEF RunChanged
  <2>3. ~InProgress'
    BY <1>4 DEF RowEnded, InProgress, NoJob
  <2>. QED  BY <2>2, <2>3 DEF OneRunningRow
<1>. QED  BY <1>1, <1>2, <1>3, <1>4 DEF RunsShape

\* The guard of run_month_end keeps the rows that say "running" apart by period,
\* for any number of runs, crashes and periods.
THEOREM RunningRowsUnique == MonthEndSpec => []OneRunningRow
<1>1. MonthEndInit => OneRunningRow
  BY DEF MonthEndInit, OneRunningRow, InProgress, NoJob
<1>2. TypeOK /\ MonthEndTypeOK /\ OneRunningRow /\ [MonthEndNext]_allVars => OneRunningRow'
  BY RunTypeStep, OneRunningStep
<1>. QED  BY <1>1, <1>2, RunTypeCorrect, PTL DEF MonthEndSpec

------------------------------------------------------------------------------
(* No run makes an invoice a second time. *)

RunInvoices == UNION {runs[r].invoices : r \in DOMAIN runs}

\* A step adds at most one invoice to those made by runs.
LEMMA RunInvoicesStep ==
  ASSUME MonthEndTypeOK, RunsShape
  PROVE  \/ RunInvoices' \subseteq RunInvoices
         \/ \E l \in Learners :
              RowBilled(l) /\ RunInvoices' \subseteq RunInvoices \cup {Len(invoices')}
<1>1. CASE RowsSame
  BY <1>1 DEF RowsSame, RunInvoices
<1>2. CASE RowStarted
  <2>1. PICK period \in Periods : RunAdded(NewRun(period))
    BY <1>2 DEF RowStarted
  <2>2. NewRun(period).invoices = {}
    BY DEF NewRun
  <2>. QED  BY <2>1, <2>2 DEF RunAdded, RunInvoices
<1>3. ASSUME NEW l \in Learners, RowBilled(l)
      PROVE  RunInvoices' \subseteq RunInvoices \cup {Len(invoices')}
  <2>. DEFINE n == Len(invoices')
  <2>1. job.run \in DOMAIN runs /\ runs[job.run] \in RunRow
    BY <1>3, InProgressFacts DEF RowBilled
  <2>2. RunChanged(job.run, [runs[job.run] EXCEPT !.invoices = @ \cup {n}])
    BY <1>3 DEF RowBilled
  <2>. HIDE DEF n
  <2>3. /\ DOMAIN runs' = DOMAIN runs
        /\ \A r \in DOMAIN runs : r # job.run => runs'[r] = runs[r]
        /\ runs'[job.run].invoices = runs[job.run].invoices \cup {n}
    BY <2>1, <2>2 DEF RunChanged, RunRow
  <2>4. \A r \in DOMAIN runs : runs'[r].invoices \subseteq runs[r].invoices \cup {n}
    BY <2>3
  <2>5. RunInvoices' \subseteq RunInvoices \cup {n}
    BY <2>3, <2>4 DEF RunInvoices
  <2>. QED  BY <2>5 DEF n
<1>4. CASE RowEnded
  <2>1. PICK row \in RunRow' :
          RunChanged(job.run, row) /\ row.invoices = runs[job.run].invoices
    BY <1>4 DEF RowEnded
  <2>2. /\ DOMAIN runs' = DOMAIN runs
        /\ \A r \in DOMAIN runs : runs'[r].invoices = runs[r].invoices
    BY <2>1 DEF RunChanged
  <2>. QED  BY <2>2 DEF RunInvoices
<1>. QED  BY <1>1, <1>2, <1>3, <1>4 DEF RunsShape

\* No step makes a run repeat an invoice in force.
LEMMA NeverRepeatStep ==
  TypeOK /\ MonthEndTypeOK /\ InvoiceShape /\ RunsNeverRepeat /\ [MonthEndNext]_allVars
    => RunsNeverRepeat'
<1>. SUFFICES ASSUME TypeOK, MonthEndTypeOK, InvoiceShape, RunsNeverRepeat,
                     [MonthEndNext]_allVars
              PROVE  RunsNeverRepeat'
  OBVIOUS
<1>1. InvoicesStay /\ RunsShape
  BY RunStepIsBilling, BooksGrow, RunTypeStep
<1>2. RunInvoices \subseteq DOMAIN invoices
  BY RunFacts DEF RunInvoices, RunRow
<1>3. ASSUME NEW i \in RunInvoices, NEW j \in RunInvoices, i < j,
             invoices'[i].learner = invoices'[j].learner,
             invoices'[i].period = invoices'[j].period
      PROVE  invoices'[i].voided
  BY <1>1, <1>2, <1>3 DEF InvoicesStay, RunsNeverRepeat, RunInvoices
<1>4. CASE RunInvoices' \subseteq RunInvoices
  BY <1>3, <1>4 DEF RunsNeverRepeat, RunInvoices
<1>5. ASSUME NEW l \in Learners, RowBilled(l),
             RunInvoices' \subseteq RunInvoices \cup {Len(invoices')}
      PROVE  RunsNeverRepeat'
  <2>. DEFINE n == Len(invoices')
  <2>1. /\ n \in Nat /\ \A i \in DOMAIN invoices : i \in Nat /\ i < n
        /\ \A i \in DOMAIN invoices : invoices'[i] = invoices[i]
        /\ invoices'[n].learner = l /\ invoices'[n].period = Period
    BY <1>5, LenProperties DEF RowBilled, RunIssues, TypeOK
  <2>2. \A i \in OwnLive(l) : invoices[i].period # Period
    BY <1>5 DEF RowBilled
  <2>. HIDE DEF n
  <2>3. ASSUME NEW i \in RunInvoices', NEW j \in RunInvoices', i < j,
               invoices'[i].learner = invoices'[j].learner,
               invoices'[i].period = invoices'[j].period
        PROVE  invoices'[i].voided
    <3>1. i \in RunInvoices
      BY <1>2, <1>5, <2>1, <2>3 DEF n
    <3>2. CASE j \in RunInvoices
      BY <1>3, <2>3, <3>1, <3>2
    <3>3. CASE j = n
      <4>1. i \in DOMAIN invoices /\ invoices[i].learner = l /\ invoices[i].period = Period
        BY <1>2, <2>1, <2>3, <3>1, <3>3
      <4>2. invoices[i].status = "Void"
        BY <2>2, <4>1 DEF OwnLive, IsLive
      <4>. QED  BY <2>1, <4>1, <4>2 DEF InvoiceShape
    <3>. QED  BY <1>5, <2>3, <3>2, <3>3 DEF n
  <2>. QED  BY <2>3 DEF RunsNeverRepeat, RunInvoices
<1>. QED  BY <1>1, <1>4, <1>5, RunInvoicesStep

\* No month-end run makes an invoice that a run has already made and nobody has
\* voided, whatever crashed in between and whatever was mailed.
THEOREM RunsBillOnce == MonthEndSpec => []RunsNeverRepeat
<1>1. Spec => []InvoiceShape
  <2>1. Init => InvoiceShape /\ FamilyBillsOnce
    BY DEF Init, InvoiceShape, FamilyBillsOnce
  <2>2. TypeOK /\ InvoiceShape /\ FamilyBillsOnce /\ [Next]_vars
          => InvoiceShape' /\ FamilyBillsOnce'
    BY BillingStep
  <2>. QED  BY <2>1, <2>2, TypeCorrect, PTL DEF Spec
<1>2. MonthEndSpec => []InvoiceShape
  BY <1>1, RunsAreRequests DEF ImplementsBilling
<1>3. MonthEndInit => RunsNeverRepeat
  BY DEF MonthEndInit, RunsNeverRepeat
<1>4. TypeOK /\ MonthEndTypeOK /\ InvoiceShape /\ RunsNeverRepeat /\ [MonthEndNext]_allVars
        => RunsNeverRepeat'
  BY NeverRepeatStep
<1>. QED  BY <1>2, <1>3, <1>4, RunTypeCorrect, PTL DEF MonthEndSpec

------------------------------------------------------------------------------
(* The figures of a run. *)

\* The counts in the locals of the run against the invoices of its row; the
\* invoice being mailed is made but not yet notified.
CountsBehind ==
  /\ job.mail # 0 => InProgress
  /\ InProgress =>
       /\ Cardinality(runs[job.run].invoices) <= job.invoices_generated
       /\ job.mail = 0 => job.notifications_sent <= Cardinality(runs[job.run].invoices)
       /\ job.mail # 0 => job.notifications_sent < Cardinality(runs[job.run].invoices)

\* The invoices of a run are a finite set of existing ones.
LEMMA MadeIsFinite ==
  ASSUME TypeOK, MonthEndTypeOK, NEW r \in DOMAIN runs
  PROVE  /\ runs[r].invoices \subseteq DOMAIN invoices
         /\ IsFiniteSet(runs[r].invoices) /\ Cardinality(runs[r].invoices) \in Nat
<1>1. runs[r].invoices \subseteq DOMAIN invoices
  BY RunFacts DEF RunRow
<1>2. Len(invoices) \in Nat /\ DOMAIN invoices = 1..Len(invoices)
  BY LenProperties DEF TypeOK
<1>3. IsFiniteSet(DOMAIN invoices)
  BY <1>2, FS_Interval
<1>. QED  BY <1>1, <1>3, FS_Subset, FS_CardinalityType

\* Every step keeps the locals in line with the row of the run.
LEMMA CountsStep ==
  TypeOK /\ MonthEndTypeOK /\ CountsBehind /\ [MonthEndNext]_allVars => CountsBehind'
<1>. SUFFICES ASSUME TypeOK, MonthEndTypeOK, CountsBehind, [MonthEndNext]_allVars
              PROVE  CountsBehind'
  OBVIOUS
<1>1. job \in Locals({0} \cup DOMAIN runs, {0} \cup DOMAIN invoices)
  BY DEF MonthEndTypeOK, Locals
<1>2. /\ job.invoices_generated \in Nat /\ job.notifications_sent \in Nat
      /\ InProgress => Cardinality(runs[job.run].invoices) \in Nat
  BY <1>1, InProgressFacts, MadeIsFinite DEF Locals
<1>3. ASSUME runs' = runs, job' = job  PROVE CountsBehind'
  BY <1>3 DEF CountsBehind, InProgress
<1>4. ASSUME job' = NoJob  PROVE CountsBehind'
  BY <1>4 DEF CountsBehind, InProgress, NoJob
<1>5. ASSUME NEW period \in Periods, StartRun(period)  PROVE CountsBehind'
  <2>1. PICK S : job' = [NoJob EXCEPT !.run = Len(runs) + 1, !.todo = S]
    BY <1>5 DEF StartRun
  <2>2. /\ job'.run = Len(runs) + 1 /\ job'.mail = 0 /\ job'.invoices_generated = 0
        /\ job'.notifications_sent = 0
    BY <2>1 DEF NoJob
  <2>3. NewRun(period) \in RunRow /\ NewRun(period).invoices = {}
    BY <1>5 DEF NewRun, RunRow
  <2>4. RunAdded(NewRun(period))
    BY <1>5, <2>3, RunAppended DEF StartRun, MonthEndTypeOK
  <2>5. Cardinality(runs'[job'.run].invoices) = 0
    BY <2>2, <2>3, <2>4, FS_EmptySet DEF RunAdded
  <2>. QED  BY <2>2, <2>5 DEF CountsBehind
<1>6. ASSUME NEW l \in Learners, SkipLearner(l) \/ LoseInvoice(l)  PROVE CountsBehind'
  <2>1. /\ runs' = runs /\ job'.run = job.run /\ job'.mail = job.mail
        /\ job'.notifications_sent = job.notifications_sent
        /\ \/ job'.invoices_generated = job.invoices_generated
           \/ job'.invoices_generated = job.invoices_generated + 1
    BY <1>1, <1>6 DEF SkipLearner, LoseInvoice, Locals
  <2>. QED  BY <1>2, <2>1 DEF CountsBehind, InProgress
<1>7. ASSUME NEW l \in Learners, NEW fee \in Fees, BillInRun(l, fee)  PROVE CountsBehind'
  <2>. DEFINE made == runs[job.run].invoices
              n    == Len(invoices')
  <2>1. /\ InProgress /\ job.mail = 0 /\ job.run \in DOMAIN runs /\ runs[job.run] \in RunRow
        /\ RunIssues(l, Period)
    BY <1>7, InProgressFacts, RunIssueFacts DEF BillInRun, TakesUp
  <2>2. /\ job'.run = job.run /\ job'.mail = n
        /\ job'.invoices_generated = job.invoices_generated + 1
        /\ job'.notifications_sent = job.notifications_sent
    BY <1>1, <1>7 DEF BillInRun, Locals
  <2>3. n # 0 /\ n \notin made /\ IsFiniteSet(made) /\ Cardinality(made) \in Nat
    <3>1. Len(invoices) \in Nat
      BY LenProperties DEF TypeOK
    <3>. QED  BY <2>1, <3>1, MadeIsFinite DEF RunIssues
  <2>4. runs'[job.run].invoices = made \cup {n}
    <3>1. runs' = [runs EXCEPT ![job.run].invoices = @ \cup {n}]
      BY <1>7 DEF BillInRun
    <3>2. runs \in [DOMAIN runs -> RunRow]
      BY LenProperties DEF MonthEndTypeOK
    <3>. HIDE DEF n
    <3>. QED  BY <2>1, <3>1, <3>2 DEF RunRow
  <2>5. Cardinality(runs'[job.run].invoices) = Cardinality(made) + 1
    BY <2>3, <2>4, FS_AddElement
  <2>6. /\ Cardinality(made) <= job.invoices_generated
        /\ job.notifications_sent <= Cardinality(made)
    BY <2>1 DEF CountsBehind
  <2>. HIDE DEF made, n
  <2>. QED  BY <1>2, <2>1, <2>2, <2>3, <2>5, <2>6 DEF CountsBehind, InProgress
<1>8. CASE MailSent \/ MailFailed
  <2>1. /\ runs' = runs /\ job'.run = job.run /\ job.mail # 0 /\ job'.mail = 0
        /\ job'.invoices_generated = job.invoices_generated
        /\ \/ job'.notifications_sent = job.notifications_sent
           \/ job'.notifications_sent = job.notifications_sent + 1
    BY <1>1, <1>8 DEF MailSent, MailFailed, Locals
  <2>. QED  BY <1>2, <2>1 DEF CountsBehind, InProgress
<1>9. CASE FailRun \/ CompleteRun \/ Crash
  BY <1>4, <1>9 DEF FailRun, CompleteRun, Crash
<1>10. CASE Serve \/ UNCHANGED allVars
  BY <1>3, <1>10 DEF Serve, allVars, monthEndVars
<1>. QED
  BY <1>5, <1>6, <1>7, <1>8, <1>9, <1>10 DEF MonthEndNext, RunStep

\* Completing a run stores counts that cover its invoices.
LEMMA CountsCoverStep ==
  TypeOK /\ MonthEndTypeOK /\ OneRunningRow /\ CountsBehind /\ CountsCoverInvoices
    /\ [MonthEndNext]_allVars => CountsCoverInvoices'
<1>. SUFFICES ASSUME TypeOK, MonthEndTypeOK, OneRunningRow, CountsBehind, CountsCoverInvoices,
                     [MonthEndNext]_allVars
              PROVE  CountsCoverInvoices'
  OBVIOUS
<1>1. CASE RowsSame
  BY <1>1 DEF RowsSame, CountsCoverInvoices
<1>2. CASE RowStarted
  BY <1>2 DEF RowStarted, RunAdded, NewRun, CountsCoverInvoices
<1>3. ASSUME NEW l \in Learners, RowBilled(l)  PROVE CountsCoverInvoices'
  <2>1. /\ job.run \in DOMAIN runs /\ runs[job.run] \in RunRow
        /\ runs[job.run].status = "running"
    BY <1>3, InProgressFacts DEF RowBilled, OneRunningRow
  <2>2. /\ DOMAIN runs' = DOMAIN runs
        /\ \A r \in DOMAIN runs : r # job.run => runs'[r] = runs[r]
        /\ runs'[job.run].status = "running"
    BY <1>3, <2>1 DEF RowBilled, RunChanged, RunRow
  <2>. QED  BY <2>2 DEF CountsCoverInvoices
<1>4. CASE RowEnded
  <2>1. PICK row \in RunRow' :
          /\ RunChanged(job.run, row) /\ row.invoices = runs[job.run].invoices
          /\ row.status = "completed" =>
               /\ row.invoices_generated = job.invoices_generated
               /\ row.notifications_sent = job.notifications_sent
    BY <1>4 DEF RowEnded
  <2>2. /\ Cardinality(runs[job.run].invoices) <= job.invoices_generated
        /\ job.notifications_sent <= Cardinality(runs[job.run].invoices)
    <3>1. InProgress /\ job.run \in DOMAIN runs
      BY <1>4, InProgressFacts DEF RowEnded
    <3>2. Cardinality(runs[job.run].invoices) \in Nat /\ job.notifications_sent \in Nat
      BY <3>1, MadeIsFinite DEF MonthEndTypeOK
    <3>. QED  BY <3>1, <3>2 DEF CountsBehind
  <2>. QED  BY <2>1, <2>2 DEF RunChanged, CountsCoverInvoices
<1>. QED  BY <1>1, <1>2, <1>3, <1>4, RunTypeStep DEF RunsShape

\* A completed run reports at least the invoices it made, and no more
\* notifications than that.
THEOREM CountsCover == MonthEndSpec => []CountsCoverInvoices
<1>1. MonthEndInit => CountsBehind /\ CountsCoverInvoices
  BY DEF MonthEndInit, CountsBehind, CountsCoverInvoices, InProgress, NoJob
<1>2. TypeOK /\ MonthEndTypeOK /\ CountsBehind /\ [MonthEndNext]_allVars => CountsBehind'
  BY CountsStep
<1>3. TypeOK /\ MonthEndTypeOK /\ OneRunningRow /\ CountsBehind /\ CountsCoverInvoices
        /\ [MonthEndNext]_allVars => CountsCoverInvoices'
  BY CountsCoverStep
<1>. QED  BY <1>1, <1>2, <1>3, RunTypeCorrect, RunningRowsUnique, PTL DEF MonthEndSpec
------------------------------------------------------------------------------
(* How a run ends, and what a crash leaves behind. *)

\* The steps a run has left at the most: two for a learner to bill (the invoice
\* and its mail), one for a mail under way and one to end.
StepsLeft ==
  IF InProgress THEN 1 + 2 * Cardinality(job.todo) + (IF job.mail # 0 THEN 1 ELSE 0) ELSE 0

\* The learners left of a run are finitely many; taking one up leaves one less.
LEMMA TodoFacts ==
  ASSUME MonthEndTypeOK
  PROVE  /\ Cardinality(job.todo) \in Nat
         /\ Cardinality(job.todo) <= Cardinality(Learners)
         /\ \A l \in job.todo : Cardinality(job.todo \ {l}) = Cardinality(job.todo) - 1
<1>1. job.todo \subseteq Learners
  BY DEF MonthEndTypeOK
<1>2. IsFiniteSet(job.todo)
  BY <1>1, FiniteAssumption, FS_Subset
<1>. QED
  BY <1>1, <1>2, FiniteAssumption, FS_Subset, FS_CardinalityType, FS_RemoveElement

\* A run never has more than two steps for every learner and two others ahead.
LEMMA StepsBounded ==
  ASSUME MonthEndTypeOK
  PROVE  StepsLeft \in Nat /\ StepsLeft <= 2 + 2 * Cardinality(Learners)
<1>1. /\ Cardinality(job.todo) \in Nat /\ Cardinality(Learners) \in Nat
      /\ Cardinality(job.todo) <= Cardinality(Learners)
  BY TodoFacts, FiniteAssumption, FS_CardinalityType
<1>. QED  BY <1>1 DEF StepsLeft

\* A mail under way is one of the run in progress.
MailInProgress == job.mail # 0 => InProgress

\* A step of the run itself leaves it with less to do.
LEMMA RunStepNearer ==
  ASSUME MonthEndTypeOK, RunStep, InProgress
  PROVE  StepsLeft' \in Nat /\ StepsLeft' < StepsLeft
<1>. DEFINE n == Cardinality(job.todo)
            Nearer == StepsLeft' \in Nat /\ StepsLeft' < StepsLeft
<1>1. /\ job \in Locals({0} \cup DOMAIN runs, {0} \cup DOMAIN invoices)
      /\ n \in Nat /\ StepsLeft = 1 + 2 * n + (IF job.mail # 0 THEN 1 ELSE 0)
  BY TodoFacts DEF MonthEndTypeOK, Locals, StepsLeft
<1>2. ASSUME job' = NoJob  PROVE Nearer
  <2>1. StepsLeft' = 0
    BY <1>2 DEF StepsLeft, InProgress, NoJob
  <2>. HIDE DEF n
  <2>. QED  BY <1>1, <2>1
<1>3. ASSUME NEW l \in job.todo, job'.todo = job.todo \ {l}, job.mail = 0, job'.run = job.run
      PROVE  Nearer
  <2>. DEFINE m == Cardinality(job.todo \ {l})
  <2>1. m = n - 1 /\ m \in Nat
    <3>1. IsFiniteSet(job.todo \ {l})
      BY FiniteAssumption, FS_Subset DEF MonthEndTypeOK
    <3>. QED  BY <3>1, TodoFacts, FS_CardinalityType
  <2>2. StepsLeft' = 1 + 2 * m + (IF job'.mail # 0 THEN 1 ELSE 0)
    BY <1>3 DEF StepsLeft, InProgress
  <2>. HIDE DEF n, m
  <2>. QED  BY <1>1, <1>3, <2>1, <2>2
<1>4. ASSUME job.mail # 0, job'.mail = 0, job'.todo = job.todo, job'.run = job.run
      PROVE  Nearer
  <2>1. StepsLeft' = 1 + 2 * n
    BY <1>1, <1>4 DEF StepsLeft, InProgress
  <2>. HIDE DEF n
  <2>. QED  BY <1>1, <1>4, <2>1
<1>5. ASSUME NEW l \in Learners,
             SkipLearner(l) \/ LoseInvoice(l) \/ \E fee \in Fees : BillInRun(l, fee)
      PROVE  Nearer
  <2>1. /\ l \in job.todo /\ job.mail = 0
        /\ job'.todo = job.todo \ {l} /\ job'.run = job.run
    BY <1>1, <1>5 DEF SkipLearner, LoseInvoice, BillInRun, TakesUp, Locals
  <2>. QED  BY <1>3, <2>1
<1>6. CASE MailSent \/ MailFailed
  <2>1. job.mail # 0 /\ job'.mail = 0 /\ job'.todo = job.todo /\ job'.run = job.run
    BY <1>1, <1>6 DEF MailSent, MailFailed, Locals
  <2>. QED  BY <1>4, <2>1
<1>7. CASE FailRun \/ CompleteRun
  <2>1. job' = NoJob
    BY <1>7 DEF FailRun, CompleteRun
  <2>. QED  BY <1>2, <2>1
<1>. QED  BY <1>5, <1>6, <1>7 DEF RunStep

\* Only a run in progress has steps of a run, and only they and a crash change
\* what it has left to do.
LEMMA StepsNearer ==
  ASSUME MonthEndTypeOK, MailInProgress, [MonthEndNext]_allVars
  PROVE  /\ InProgress => StepsLeft' <= StepsLeft
         /\ RunStep => StepsLeft' < StepsLeft
<1>1. StepsLeft \in Nat
  BY StepsBounded
<1>2. CASE RunStep
  <2>1. InProgress
    BY <1>2 DEF RunStep, SkipLearner, LoseInvoice, BillInRun, TakesUp, MailSent, MailFailed,
                FailRun, CompleteRun, MailInProgress
  <2>. QED  BY <1>1, <1>2, <2>1, RunStepNearer
<1>3. CASE Serve \/ UNCHANGED allVars
  <2>1. StepsLeft' = StepsLeft
    BY <1>3 DEF Serve, allVars, monthEndVars, StepsLeft, InProgress
  <2>. QED  BY <1>1, <1>2, <2>1
<1>4. CASE Crash
  <2>1. StepsLeft' = 0
    BY <1>4 DEF Crash, StepsLeft, InProgress, NoJob
  <2>. QED  BY <1>1, <1>2, <2>1
<1>5. CASE \E period \in Periods : StartRun(period)
  BY <1>2, <1>5 DEF StartRun
<1>. QED  BY <1>2, <1>3, <1>4, <1>5 DEF MonthEndNext

\* It holds because the locals of a run are dropped as a whole.
LEMMA MailsAreOfRuns == MonthEndSpec => []MailInProgress
<1>1. CountsBehind => MailInProgress
  BY DEF CountsBehind, MailInProgress
<1>2. MonthEndInit => CountsBehind
  BY DEF MonthEndInit, CountsBehind, InProgress, NoJob
<1>. QED  BY <1>1, <1>2, CountsStep, RunTypeCorrect, PTL DEF MonthEndSpec

\* The safety half of RunsEnd: a run_month_end has at most 2 + 2 * |Learners|
\* steps ahead of it, every step it takes leaves it fewer, and nothing else adds
\* any, so that it cannot go round for ever.
THEOREM RunsGetNearer ==
  MonthEndSpec => /\ [](StepsLeft \in Nat /\ StepsLeft <= 2 + 2 * Cardinality(Learners))
                  /\ [][/\ InProgress => StepsLeft' <= StepsLeft
                        /\ RunStep => StepsLeft' < StepsLeft]_allVars
<1>1. MonthEndTypeOK => StepsLeft \in Nat /\ StepsLeft <= 2 + 2 * Cardinality(Learners)
  BY StepsBounded
<1>2. MonthEndTypeOK /\ MailInProgress /\ [MonthEndNext]_allVars
        => [/\ InProgress => StepsLeft' <= StepsLeft
            /\ RunStep => StepsLeft' < StepsLeft]_allVars
  BY StepsNearer
<1>. QED  BY <1>1, <1>2, MailsAreOfRuns, RunTypeCorrect, PTL DEF MonthEndSpec

\* A row that says "running" while its run is not in progress: a crash left it.
Orphan(r) == r \in DOMAIN runs /\ runs[r].status = "running" /\ job.run # r

\* No step changes such a row, takes its run up again or starts its period anew.
LEMMA OrphanStep ==
  ASSUME TypeOK, MonthEndTypeOK, [MonthEndNext]_allVars, NEW r, Orphan(r)
  PROVE  /\ Orphan(r)' /\ runs'[r] = runs[r]
         /\ ~StartRun(runs[r].period)
<1>1. ~StartRun(runs[r].period)
  BY DEF Orphan, StartRun
<1>2. RunsShape
  BY RunTypeStep
<1>3. r \in DOMAIN runs /\ runs[r].status = "running" /\ job.run # r /\ r # 0
  BY LenProperties DEF Orphan, MonthEndTypeOK
<1>4. CASE RowsSame
  BY <1>1, <1>3, <1>4 DEF RowsSame, Orphan, NoJob
<1>5. CASE RowStarted
  BY <1>1, <1>3, <1>5 DEF RowStarted, RunAdded, Orphan
<1>6. CASE \E l \in Learners : RowBilled(l)
  BY <1>1, <1>3, <1>6 DEF RowBilled, RunChanged, Orphan
<1>7. CASE RowEnded
  BY <1>1, <1>3, <1>7 DEF RowEnded, RunChanged, Orphan, NoJob
<1>. QED  BY <1>2, <1>4, <1>5, <1>6, <1>7 DEF RunsShape

\* What the run monthend_crash shows in one behaviour holds in all: the row a
\* crashed run_month_end leaves is never taken up, ended or changed, and its
\* period never gets another run.
THEOREM CrashedRowsStay ==
  MonthEndSpec => [][\A r \in DOMAIN runs : Orphan(r) =>
                       /\ Orphan(r)' /\ runs'[r] = runs[r]
                       /\ ~StartRun(runs[r].period)]_allVars
<1>1. TypeOK /\ MonthEndTypeOK /\ [MonthEndNext]_allVars
        => [\A r \in DOMAIN runs : Orphan(r) =>
              /\ Orphan(r)' /\ runs'[r] = runs[r]
              /\ ~StartRun(runs[r].period)]_allVars
  BY OrphanStep
<1>. QED  BY <1>1, RunTypeCorrect, PTL DEF MonthEndSpec

\* The month-end runs and their crashes leave everything true that is proved of
\* the books: mirrors, caches, reconciliation, dashboard, statements, refinement.
THEOREM BooksSurviveRuns == MonthEndSpec => []BooksSound /\ BooksKept
BY RunsAreRequests, BooksTogether DEF ImplementsBilling
=============================================================================

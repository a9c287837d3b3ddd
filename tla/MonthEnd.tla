------------------------------ MODULE MonthEnd ------------------------------
(***************************************************************************)
(* The month-end run (app/scheduler.py run_month_end) on top of Billing,   *)
(* one action per committed transaction.                                   *)
(*                                                                         *)
(* POST /api/month-end/trigger starts the run as a background task.  The   *)
(* database session of that request, and with it the semaphore, is         *)
(* released only when the task has ended, so no other request is served    *)
(* while a run is in progress; what can come between two transactions of a *)
(* run is the end of the process.  A crash loses job, the local variables  *)
(* of the coroutine, and keeps every committed row.                        *)
(***************************************************************************)
EXTENDS Billing

CONSTANTS
  Malformed,   \* periods that are not "YYYY-MM": the route takes any string
  MaxRuns      \* bound of the model: rows of MonthEndRun

ASSUME RunAssumption == Malformed \subseteq Periods /\ MaxRuns \in Nat

VARIABLES
  runs,   \* MonthEndRun rows; position = id
  job     \* the locals of the run in progress, or NoJob

monthEndVars == <<runs, job>>
allVars == <<vars, monthEndVars>>

FaultyNewRun(period) ==
  [period |-> period, status |-> "Running", invoices |-> {},
   invoices_generated |-> 0, notifications_sent |-> 0]

\* invoices of a run row: the invoices whose month_end_run_id is its id.
NewRun(period) ==
  [period |-> period, status |-> "running", invoices |-> {},
   invoices_generated |-> 0, notifications_sent |-> 0]

NoJob == [run |-> 0, todo |-> {}, mail |-> 0, invoices_generated |-> 0, notifications_sent |-> 0]

InProgress == job.run # 0
Period     == runs[job.run].period

MonthEndInit == Init /\ runs = <<>> /\ job = NoJob
------------------------------------------------------------------------------
FaultyStartRun(period) ==
  /\ ~InProgress
  /\ Len(runs) < MaxRuns
  /\ runs' = Append(runs, NewRun(period))
  /\ \E S \in SUBSET {l \in Learners : is_active[l]} :
       job' = [NoJob EXCEPT !.run = Len(runs) + 1, !.todo = S]
  /\ UNCHANGED vars

\* The guard on a "running" row, the insert of the run row and the list of the
\* learners to bill.  The subset stands for the free-text status "Active".
StartRun(period) ==
  /\ ~InProgress
  /\ Len(runs) < MaxRuns
  /\ ~\E r \in DOMAIN runs : runs[r].period = period /\ runs[r].status = "running"
  /\ runs' = Append(runs, NewRun(period))
  /\ \E S \in SUBSET {l \in Learners : is_active[l]} :
       job' = [NoJob EXCEPT !.run = Len(runs) + 1, !.todo = S]
  /\ UNCHANGED vars

\* The run takes up learner l: nothing of another learner is half done.
TakesUp(l) == InProgress /\ Period \notin Malformed /\ job.mail = 0 /\ l \in job.todo

\* Already invoiced, no longer active, no billable monthly fees, or an error
\* before the invoice is counted: no row changes.
SkipLearner(l) ==
  /\ TakesUp(l)
  /\ job' = [job EXCEPT !.todo = @ \ {l}]
  /\ UNCHANGED <<vars, runs>>

FaultyBillInRun(l, fee) ==
  /\ TakesUp(l)
  /\ MonthEndInvoice(l, Period, fee)
  /\ runs' = [runs EXCEPT ![job.run].invoices = @ \cup {Len(invoices')}]
  /\ job' = [job EXCEPT !.todo = @ \ {l}, !.mail = Len(invoices')]

\* The invoice is generated, counted, printed and committed.
BillInRun(l, fee) ==
  /\ TakesUp(l)
  /\ MonthEndInvoice(l, Period, fee)
  /\ runs' = [runs EXCEPT ![job.run].invoices = @ \cup {Len(invoices')}]
  /\ job' = [job EXCEPT !.todo = @ \ {l}, !.mail = Len(invoices'),
                        !.invoices_generated = @ + 1]

FaultyLoseInvoice(l) ==
  /\ TakesUp(l)
  /\ job' = [job EXCEPT !.todo = @ \ {l}, !.invoices_generated = @ + 1]
  /\ invoice_counter' = NextInvoiceNumber(invoice_counter, Year(today))
  /\ UNCHANGED <<today, is_active, balance, invoices, figures, payments, entries, deleted, runs>>

\* The invoice is generated and counted, then build_invoice_pdf or the commit
\* raises and everything but the count is rolled back.
LoseInvoice(l) ==
  /\ TakesUp(l)
  /\ is_active[l]
  /\ \A i \in OwnLive(l) : invoices[i].period # Period
  /\ job' = [job EXCEPT !.todo = @ \ {l}, !.invoices_generated = @ + 1]
  /\ UNCHANGED <<vars, runs>>

\* send_invoice_email: sent or simulated, and the status of the invoice set.
MailSent ==
  /\ job.mail # 0
  /\ SendInvoice(job.mail)
  /\ job' = [job EXCEPT !.mail = 0, !.notifications_sent = @ + 1]
  /\ UNCHANGED runs

\* It fails or raises: logged, and the run goes on.
MailFailed ==
  /\ job.mail # 0
  /\ job' = [job EXCEPT !.mail = 0]
  /\ UNCHANGED <<vars, runs>>

FaultyFailRun ==
  /\ InProgress /\ Period \in Malformed
  /\ runs' = [runs EXCEPT ![job.run].status = "failed"]
  /\ UNCHANGED <<vars, job>>

\* The period does not parse: the run row ends "failed".
FailRun ==
  /\ InProgress /\ Period \in Malformed
  /\ runs' = [runs EXCEPT ![job.run].status = "failed"]
  /\ job' = NoJob
  /\ UNCHANGED vars

CompleteRun ==
  /\ InProgress /\ Period \notin Malformed /\ job.todo = {} /\ job.mail = 0
  /\ runs' = [runs EXCEPT ![job.run].status = "completed",
                          ![job.run].invoices_generated = job.invoices_generated,
                          ![job.run].notifications_sent = job.notifications_sent]
  /\ job' = NoJob
  /\ UNCHANGED vars

\* The process ends: a deployment, a restart, a power cut.
Crash ==
  /\ InProgress
  /\ job' = NoJob
  /\ UNCHANGED <<vars, runs>>
------------------------------------------------------------------------------
RunStep ==
  \/ \E l \in Learners : SkipLearner(l) \/ LoseInvoice(l) \/ \E fee \in Fees : BillInRun(l, fee)
  \/ MailSent \/ MailFailed \/ FailRun \/ CompleteRun

\* Requests wait at the semaphore while a run is in progress; the clock does not.
Serve == Requests /\ (InProgress => NextDay) /\ UNCHANGED monthEndVars

MonthEndNext ==
  \/ Serve
  \/ \E period \in Periods : StartRun(period)
  \/ RunStep
  \/ Crash

MonthEndSpec == MonthEndInit /\ [][MonthEndNext]_allVars

\* The coroutine of a run keeps running while the process does, and an
\* administrator keeps asking for the periods that can be started.
FairMonthEnd ==
  /\ MonthEndSpec
  /\ WF_allVars(RunStep)
  /\ \A period \in Periods : WF_allVars(StartRun(period))
------------------------------------------------------------------------------
(***************************************************************************)
(* Properties.                                                             *)
(***************************************************************************)
RunRow == [period : Periods, status : {"running", "completed", "failed"},
           invoices : SUBSET DOMAIN invoices, invoices_generated : Nat, notifications_sent : Nat]

\* The run rows and the locals of the run have their shape.
MonthEndTypeOK ==
  /\ runs \in Seq(RunRow)
  /\ job \in [run : {0} \cup DOMAIN runs, todo : SUBSET Learners, mail : {0} \cup DOMAIN invoices,
              invoices_generated : Nat, notifications_sent : Nat]

\* At most one row per period says "running", although nothing in the database
\* forbids a second one (the constraint the docstring speaks of is not there),
\* and the run in progress is one that says so.
OneRunningRow ==
  /\ \A r, s \in DOMAIN runs :
       /\ runs[r].status = "running" /\ runs[s].status = "running"
       /\ runs[r].period = runs[s].period
       => r = s
  /\ InProgress => runs[job.run].status = "running"

\* The invoices of runs, across crashes and later runs of the same period: one
\* that a run has made and nobody has voided is not made again.
RunsNeverRepeat ==
  \A i, j \in UNION {runs[r].invoices : r \in DOMAIN runs} :
    /\ i < j /\ invoices[i].learner = invoices[j].learner
    /\ invoices[i].period = invoices[j].period
    => invoices[i].voided

\* The figures of a completed run: it counts at least the invoices it made, and
\* no more notifications than invoices it made.
CountsCoverInvoices ==
  \A r \in DOMAIN runs : runs[r].status = "completed" =>
    /\ Cardinality(runs[r].invoices) <= runs[r].invoices_generated
    /\ runs[r].notifications_sent <= Cardinality(runs[r].invoices)

\* A run does to the books only what Billing allows: it is one more kind of
\* request, and what is proved of Billing holds with runs and crashes as well.
ImplementsBilling == Spec

\* A run never hangs: the semaphore its request holds is released.
RunsEnd == InProgress ~> ~InProgress

(***************************************************************************)
(* A claim of the documentation that the code does not keep.               *)
(***************************************************************************)
\* "If a run crashes mid-way, re-running it picks up exactly where it left off"
\* (app/scheduler.py): a row does not say "running" for ever.
CrashedRunsResume ==
  \A r \in 1..MaxRuns :
    (r \in DOMAIN runs /\ runs[r].status = "running")
      ~> (r \in DOMAIN runs /\ runs[r].status # "running")
=============================================================================

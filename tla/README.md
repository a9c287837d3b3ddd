# LCCCA-IAS in TLA+

A verification development for the school invoicing system LCCCA-IAS (the
Python application under `src/app`): TLA+ modules translated from its source,
TLC runs on small instances, and theorems for every value of the constants that
TLAPS checks. Paths below are relative to `src/`.

## 1. Inventory

The application is one FastAPI process with SQLite (PostgreSQL is possible).
Every API request runs in one database transaction; `get_db` serialises the
requests with a semaphore; the month-end run is a background task of a request.

| Component | State | Operations that change it | What makes it correct |
|---|---|---|---|
| Ledger engine (`app/ledger.py`) | `ledger_entries`, `learners.balance` (a cache), `invoice_counter` | post, void, reverse, sync cache, next number | append-only; one posting per line; cache = ledger; numbers never repeat |
| Invoices (`routers/invoices.py`, `fee_engine.py`) | `invoices`, `invoice_items` | generate by profile or fee structure, void, delete, send | debits mirror the lines of the invoices through every route |
| Payments (`routers/payments.py`) | `payments` | create, reverse, delete | credits mirror payments; one active payment per reference |
| Parents (`routers/parents.py`) | `parents`, `learner_parent_relationships` | family invoice; create, update, delete, link, unlink | a family invoice bills nobody twice and leaves nobody out; a deleted parent is never billed again |
| Learners (`routers/learners.py`, hook in `models.py`) | `learners` | create, update, deactivate | codes unique, a free one always found; only settled learners deactivated |
| Fee catalogue (`routers/fee_items.py`, `fee_engine.py`) | `fee_items`, `learner_fee_items`, `transport_routes` | items, auto-assignment, assignment by hand | fees follow the grade; agreed prices stay |
| Month-end run (`scheduler.py`, `routers/month_end.py`) | `month_end_runs`, the locals of the coroutine | trigger, bill, mail, complete, fail | repeated and crashed runs bill once |
| Database access (`database.py`) | `_sem`, worker threads | set-up and tear-down of a session | one request at a time; no gridlock |
| E-mail (`email_engine.py`) | `email_logs`, `invoices.status` | send, resend | a mail does not touch the books, and goes to the family it is about |
| Bulk imports (`routers/imports.py`) | `import_jobs` and the tables filled | learners, parents, payments | a failed row leaves nothing; no reference twice |
| Bank reconciliation (`routers/recon.py`) | `bank_statement_lines`, `payments.bank_statement_line_id` | import, match, exclude | the two links of a match agree; the status tells; no money moves |
| Authentication (`routers/auth.py`, `auth.py`, `password_reset_email.py`, two-factor in `routers/settings.py`) | `users`, `totp_secrets`, `password_reset_tokens`, session cookies, keys of the environment | login, second factor, log-out, change, reset; set up, verify, disable two-factor | a session is given only after the second factor; a confirmed secret behind the switch; a link works once |
| Settings (`routers/settings.py`) | one SMTP and one SMS row | save | configuration |
| Rate limiter (`rate_limit.py`) | attempts per key, in memory or in Redis | hit, clear | each process keeps to the limit in a window, Redis to less than twice the limit for all of them; a block passes |
| Dashboard, account statement (`routers/dashboard.py`, `reports.py`, `pdf_generator.py`) | none: they read three tables and the cache | | the totals agree with the books, or differ for a stated reason |
| Audit log, other reports, seed data, front end | written or read only | | no decision reads them |

Interactions: every router calls `get_db`, then the fee engine and the ledger
engine inside one transaction. The billing routes (manual, family, month end)
share `next_invoice_number` and `post_invoice`; void and delete cancel through
different code; the run calls the same `generate_invoice_for_learner` as the
manual route and commits learner by learner. A mail changes the status of an
invoice, which the billing checks read. The learner routes and the import share
the auto-assignment of fees, and both make learner codes, in two formats. A
family invoice reads the links and the fee lines of the day, a mail the links of
its own day. Reconciliation links payments that are captured, imported and
reversed elsewhere; dashboard and statement add up the tables that these
requests update in different ways. Login
and forgotten passwords share the rate limiter under keys that differ; the
login and the two-factor settings meet in the secret of the user.

What is hard to test here:

* requests in an order nobody wrote a test for: void then send, delete of a
  family invoice, reversal after deactivation, a removed fee assigned again;
* links, activity and fees that change between an invoice, the next one and the
  mail; a sibling whose fees come to nothing; two parents of one child;
* a line or a payment matched twice, an excluded line matched, a reversed
  payment that stays matched;
* the end of the process between two commits of a run, and the run after it;
* counts and caches that stand for something else: the number of codes of a
  day, the cached balance, the printed figures;
* request threads that block each other at the semaphore;
* a challenge in one browser while another changes the two-factor settings, an
  old reset link, a window that ends, a process that ends inside one count;
* session cookies that the server keeps no record of: an older one, or the same
  one in two requests, with what it says about the challenge.

`PROJECT.json` lists each hazard at its line with the properties that cover it.

## 2. Modules

| Module | Extends | What it is |
|---|---|---|
| `Sums` | | the total of a column, which the queries take with `func.sum` |
| `Ledger` | `Sums` | `ledger.py` as operators on sequences of ledger rows |
| `Billing` | `Ledger` | invoices, payments, ledger rows, caches, counter; one action per request |
| `Accounts` | | the abstract books: whole documents are posted once, withdrawn whole, never return |
| `MonthEnd` | `Billing` | the run, one action per committed transaction, with crashes |
| `RequestGate` | | `get_db`, the semaphore and the worker threads |
| `Enrolment` | | learners, their codes, the fee catalogue and the assignments |
| `RateLimit` | | the two backends of the rate limiter with a clock |
| `Access` | `RateLimit` | login, two-factor, change and reset of passwords, restarts |
| `Reports` | `Billing` | the totals of the dashboard and of the account statement |
| `Families` | `Billing` | parents, their links, fee lines, payers and mails: the families as state |
| `Recon` | `Billing` | bank statement lines and their links with payments |
| `MCBilling`, `MCMonthEnd`, `MCFamilies`, `MCRecon`, `MCRequestGate`, `MCEnrolment`, `MCAccess` | | the instances for TLC (`MCBilling` extends `Reports`) |
| `BillingProofs`, `MonthEndProofs`, `FamiliesProofs`, `ReconProofs`, `RequestGateProofs`, `EnrolmentProofs`, `AccessProofs` | | the proofs (`BillingProofs` covers `Reports` too) |
| `Facts` | `Sums` | facts about tables, sums and induction that the proofs share |

`Billing` implements `Accounts` under the mapping that takes the unvoided rows
to the items in force and the voided rows to the withdrawn ones. `MonthEnd`
implements `Billing`: a run with its crashes is one more kind of request.
`Families` and `Recon` implement `Billing` too, each with state of its own beside
the books, so that the theorems about `Billing` hold in all three. `Billing`
groups its requests (`Invoicing`, `Mailing`, `Receiving`, `Upkeep`) for these
compositions.
Operators whose name begins with `Faulty` are not part of the model: each is a
plausible mistake in the definition after it, and the property that notices it
is named in `PROJECT.json` under `mutants`.

### Ledger and Billing

`entries` is the `ledger_entries` table in insertion order; a position is a
primary key. `dc` stands for `transaction_type`, `reference_type` and
`dc_indicator`, which always agree in the rows the code writes. Money is whole
cents: every amount passes through `quantize`. `invoices[i]` holds the columns
the code decides on (covered learners with their amounts, period, status, date,
number), `figures[i]` the printed money columns. `voided` in an invoice row
records that it was voided at some time, `deleted` that DELETE did it (the
audit log has the row); both are written by the actions that the code has and
read only by properties.

One action is one committed request; a request that raises is rolled back and
is no step. `Issue` is what all invoicing routes end with. `GenerateInvoice`
and `GenerateStructureInvoice` are the two branches of
`POST /api/invoices/generate`; `GenerateParentInvoice` is the family route;
`MonthEndInvoice` is the body of the run's loop. `VoidInvoice` goes learner by
learner and refreshes each cache; `DeleteInvoice` voids all rows and refreshes
the first learner's. `SendInvoice` sets the status to Sent whatever it was, as
`send_invoice_email` does. `ImportPayment` is one row of the payment import, which
checks neither the learner's activity nor the overpayment policy.

Abstracted: what a fee profile comes to (`Fees`; assignments are in
`Enrolment`), the free-text status of a learner and whether there are monthly
lines (any subset of the family may be billed), the family links (`Family`
is a constant here, and the bound on the links in `Families`), texts, PDF, audit
rows. Learners exist from the start. Requests
with a zero total raise in `post_invoice`, so they are no step. Negative
components of a fee structure are not modelled. The clock does not run
backwards.

### MonthEnd

`runs` is `month_end_runs`; `job` holds the locals of the coroutine
(`invoices_generated`, `notifications_sent`, the learners still to bill, the
invoice whose mail is due). The row, its commit and the list of learners are one
step, `StartRun`; then per learner `SkipLearner`, `BillInRun` (generated,
counted, printed, committed) or `LoseInvoice` (counted, then rolled back: the
counter variable is incremented before the PDF and the commit), then
`MailSent` or `MailFailed`; at the end `CompleteRun`, or `FailRun` for a period
that does not parse. `Crash` may come between any two of them: it loses `job`
and keeps every row. The order of learners is arbitrary.

The dependency that holds the semaphore is torn down after the background tasks
of the response, so between `StartRun` and the end of the run no other request
is served (`Serve`); the clock goes on. `runs[r].invoices` stands for
`Invoice.month_end_run_id`. `start_scheduler` is never called by the
application. `run_month_end` refuses a second run only by looking for a row that
says "running", which a crash leaves behind.

### Reports

No state and no action: `TotalOutstanding`, `TotalPaymentsReceived` and
`TotalCharged` are the three sums of `get_stats`, taken over the ledger, the
payments and the invoices; `StatementDebits` and `StatementCredits` are the two
columns of the account statement, `ClosingBalance` its last row, which is not
their difference but the cached balance. `DashboardExplained` and
`StatementExplained` say by which documents they differ. The collection rate and
the order of the rows are left out.

### Families

`parents`, `links` and `payer` stand for `parents`,
`learner_parent_relationships` and `Invoice.parent_id`; `last_mail` is the newest
`email_logs` row that is addressed to a parent, `known` a history of the links.
`CreateParents` is one parent or a file of them. `DeleteParent` is the soft
delete, which leaves the links; `update_parent` writes contact columns only and
is no step here. `FamilyInvoice` computes who is due (`Due`) from the links, the
activity, the status "Active" and the fee lines of the day; the last two belong
to `Enrolment` and may be anything there can be (`attending`, `fee_lines`; a
line may be zero through a custom amount). `post_invoice` refuses a total that
is not positive, and the handler then rolls everything back, so that a sibling
with zero lines holds the whole invoice back: this is the guard on `totals`.
`MailInvoice` goes to one of `Contacts`, or to no parent at all (an address typed
in, or the placeholder). The month-end run, which knows nothing of families, is
not in this composition.

### Recon

`lines` is `bank_statement_lines`, `bank_line` the column of the payments.
`ImportLine` stores every credit unmatched: with a candidate the comparison of
the amounts raises (`Decimal` less `float`), the handler reports the row and
keeps the line. `ManualMatch` writes the line and the payment and looks at
neither; `ExcludeLine` writes the status only. `matches` is history, the audit
rows of the matches. `Book` is every request of `Billing`: a new payment has no
link, and a reversal does not remove one.

### RequestGate

A request goes through `Arrive`, `EnterDependency` (a worker thread is taken and
blocks in `_sem.acquire()`), `Acquire`, `Authorise` (the `require_admin`
dependency, in a thread of its own), `Handle` (in a thread unless the route is
`async`), `Handled`, `Release`. The worker threads belong to the framework and
are modelled from the way `get_db` and the routes use them: at most `Threads`
(40 by default) at a time, the tear-down outside this limit. `Rejected` is the
401/403 path. Each request arrives once. The PostgreSQL path has no semaphore
and is not modelled; `write_lock` is not used by any route.

### Enrolment

`learners`, `items` and `assignments` are the three tables; `assignments` is
indexed by its unique key. A code is of the form YYYYMMDDNN ("daily") or
YYMMDDNNNN ("short", written by the insert hook for a value that is not ten
digits). `NewCodes` counts the codes of the day; past `DailyCodes` (99) the
generated value has eleven digits and the hook replaces it (the docstring of
`_generate_learner_code` speaks of eleven digits). `ShortCodes` tries
`Len(learners) + 1` numbers where the code tries 9999: one of the first
`Len(learners) + 1` is free, which is proved (`ShortCodeFound`). Dates of
admission before 2013 are left out, because then the prefix of one form could
match codes of the other. One import row is one step (`begin_nested`); rows
refused for an ID number or for equal personal data are no step. A request
that breaks a unique constraint is rolled back, so the constraint is a guard:
`Clashes(l, learner) = {}` in `AutoAssign`, `code \notin Codes` in `Register`.
`imported` is a history flag: the code came from a file. Names, prices and
frequencies are left out; `is_active` of a learner belongs to `Billing`.

### RateLimit and Access

`RateLimit` has the state of both backends; `backend` is chosen once.
`attempts[k]` is the list of the memory backend as a set of numbered hits,
which `Recent` prunes and `MemoryHit` extends; `count[k]` and `expires[k]` are
the counter of Redis and its deadline. Redis removes a counter by itself, which
is `Standing`. `CutHit` is a hit in which the process ends between INCR and
EXPIRE. `admitted` is history: every hit let through since the key was cleared,
with the `process` that let it through. A restart does not empty it: `Rebuild`
empties the list of the memory backend only, as the new process does, so a
window with a restart in it may hold the limit once for each process, and
`WindowHolds` promises no more than that: the limit for every process with the
memory backend, and for all of them together less than twice the limit with
Redis. `cut` remembers the counters left without a deadline. The Redis counter
of a refused key grows without limit; the guard of `Increment` stops it one
above the limit, where no decision tells the values apart.

`Access` has one action for each handler and outcome that changes state:
`FailedLogin`, `Login` (its three ends), `ChallengeEnds`, `WrongCode`,
`RightCode`, `Logout`, `ChangePassword`, `ForgotPassword`, `ResetPassword`,
`Setup2fa`, `Verify2fa`, `Disable2fa`. The session is a signed cookie and the
server has no record of it, so `cookies[b]` is the set of the cookies that
browser `b` was given and may still send. A request carries any of them; its
answer gives the browser a new one, and the one it carried is gone or stays, as
when it was sent with a second request at the same time or kept (`Answer`).
Hence `Logout` takes back no cookie: a complete one stays good until the key is
lost or its life ends, and `TwoSteps` speaks of browsers that hold none
(`SignedIn`). `pending` and `attempts` are the challenge in a cookie. The
number of wrong codes is nowhere else, so two wrong codes sent with the same
cookie count as one; `AccessTypeOK` bounds the number in a cookie, and not the
codes that were tried. A secret is a number, and `secret[u].sealed` the key it
is encrypted with, or `Plain` for a row from before encryption; `Reseal` is the
migration on the first good code. `Restart` gives the process the same keys or,
if none are configured, new ones: cookies and links of before are void and the
secrets sealed with the old key unreadable. The life of a cookie is left to
`Answer`, which may drop it, and the age of a code to the choice of `WrongCode`
or `RightCode`.

Assumed: requests come one after the other, as in `RequestGate`; users are
active administrators (no route creates or changes one); an address of a client
has its own keys, so that one address is enough; stored reset links are digests,
as the code writes them. Failed mails do not change what is stored.

## 3. Runs

| Run | Checks | Shows |
|---|---|---|
| `billing` | type, mirrors, caches, references, numbers, family, append-only, `OutstandingShortByPayments`, `DashboardExplained`, `StatementExplained`, `ImplementsAccounts` | 1.5 million states: every sequence of up to three documents of a family of two over a change of year |
| `billing_delete` | `BooksReconcile` (fails) | delete of a family invoice leaves the siblings' cache stale |
| `monthend` | type, `RunsNeverRepeat`, `CountsCoverInvoices`, `OneRunningRow`, `ImplementsBilling`, `RunsEnd` | 360 thousand states: two runs over two periods, one malformed, two learners, crashes everywhere, requests between runs; every run ends |
| `monthend_crash` | `CrashedRunsResume` (fails) | the row of a crashed run blocks its period for good |
| `families` | `MailsStayInFamily`, `NobodyLeftOut`, `FamiliesImplementBilling` | 1.5 million states: two parents who may share two learners, every change of links, lines and status between two invoices and their mails |
| `recon` | `LinksAgreeUnlessRematched`, `StatusTells`, `ReconImplementsBilling` | 890 thousand states: two lines, two documents, up to four matches by hand in any order, exclusions and reversals between them |
| `recon_automatch` | `AutoMatches` (fails) | the automatic match of an imported line never happens |
| `gate` | `OneSession`, `NoGridlock`, `RequestsAnswered` | three requests, one of them async, three threads |
| `gate_full` | `RequestsAnswered` (fails) | four requests, three threads: the owner of the session waits for a thread for ever |
| `enrolment` | type, `CountedCodes`, `RegistrationNeverBlocked`, `FeesFollowGrade`, `AgreementsKept` | 620 thousand states: three learners on one day with two two-digit numbers, one item, two grades |
| `enrolment_removed` | `AutoAssignPossible` (fails) | auto-assignment fails for ever once a mandatory item was removed |
| `access` | type, `WindowHolds`, `BlocksPass`, `SwitchConfirmed`, `OneUnusedLink`, `LinksSpentOnce`, `TwoSteps` | 730 thousand states: one user with two browsers that may send any cookie they were given, either limiter, a clock, restarts with and without the keys |

The runs that fail each check one sentence of the repository's documents or
tests that the code does not keep; `PROJECT.json` quotes it under `findings`.
Four more sentences that the code keeps only in part are stated as what it does
keep. "Outstanding balance is what remains due" (system guide) holds but for
the payments that `OutstandingShortByPayments` names. "Invoice charges equal
ledger debit totals" (system guide) holds but for invoices mailed after they
were voided, the last term of `DashboardExplained`. "Skips if already invoiced"
(`README.md`, month end) holds but for family invoices, the exception in
`FamilyBillsOnce`. The system "limits repeated attempts" of the second factor
(system guide; the security notes name them among the protected areas) holds
for a cookie and those that follow from it, as `AccessTypeOK` says:
`verify_login_2fa` keeps the number in the cookie and calls no limiter, so
wrong codes sent with an older cookie, or with one cookie in two requests, are
not added up.

Bounds and why they suffice. `MaxDocuments = 3` (invoices plus payments) lets a
document be repeated after the first was cancelled, with a payment between; two
learners in one family make both a sibling and a partial family invoice;
`DaysPerYear = 1` and `MaxDay = 1` make the sequence restart; `Fees = {2}`,
`Receipts = {1}` make amounts of invoices and payments differ and a full
settlement reachable with two payments; `PaymentDates = {1}` makes a payment
dated after an invoice of day 0 and on the day of one of day 1. `DailyCodes =
2` puts the third learner beyond the two-digit numbers. In `monthend` there are
two invoices at most, so a second run finds one learner billed and one not;
families are in `families` and in `billing`. In `families` one fee item with
the prices 0 and 2 gives a learner no line, a line of nothing or a charge; two
parents and two learners make every family of that size, shared children
included, and two invoices an invoice before and after a change. In `recon` two
lines and two payments are the least in which both sides of a match can be
taken by another, `MaxMatches = 4` lets every link be overwritten and restored,
and the amounts 1 and 2 make a line agree and disagree with a payment of 1. In
`access` two secrets besides the plain one make an older one exist beside the
newer, two browsers meet in the settings, `LoginMax = 1` ends a challenge after
a wrong code, and `MaxKeys = 1` loses the keys once; `ResetMax = 2` and
`ResetWindow = 2` make two attempts of different times meet in one window,
`MaxTime = 2` lets it end, and `MaxRestarts = 2` puts three processes into it;
two links make an older one exist beside the newer, and the clock passes the
last moment in which one is good (`TokenLife = 1`). Not all of this is large at
once: the constraint `InView` of `MCAccess` keeps TLC to states in which no
attempt was limited and the clock stands still (cookies and secrets), or nobody
has two-factor and one browser is in use, and then either no link was made and
no key lost (limits), or no login failed and the process started again at most
once (links). What is left out is the combination of parts that share only the
clock, the key and the user; the theorems have no such constraint. One user is
enough there, since users share nothing but the clock, the key and the
numbering of links and secrets. The learners are symmetric, and the parents in
`families`: no action distinguishes them (the order of the rows of a family
invoice is an arbitrary bijection). Every bound is a constant named in the
guards: `MaxDocuments`, `MaxDay`, `MaxRuns`, `MaxLearners`, `MaxItems`,
`MaxTime`, `MaxRestarts`, `MaxSecrets`, `MaxTokens`, `MaxKeys`, `MaxLines`,
`MaxMatches`. The theorems do not depend on them.

`CHECK_DEADLOCK FALSE` is in the runs of `Billing`, `MonthEnd`, `Families`,
`Recon` and `Access`, where the bounds can be exhausted, and of `RequestGate`,
where all requests have been answered in the end and where `NoGridlock` and
`RequestsAnswered` speak of the real deadlock. The runs of `Enrolment` check
deadlock.

Fairness. `MonthEnd`: weak fairness of `RunStep`, because the coroutine of a run
goes on while the process does (a mail has a timeout and is caught), and of
`StartRun(period)`, which says that an administrator asks again for a period
that can be started. It only strengthens the claim about crashed runs,
which is violated all the same; `RunsEnd` does not need it. `RequestGate`: weak
fairness of the steps of each request, since the event loop and the operating
system run what can run. No strong fairness for the semaphore is needed in
`gate`: each request arrives once, so finitely many others can go first.

## 4. Theorems

| Theorem | Property | Argument |
|---|---|---|
| `TypeCorrect` | `TypeOK` | action by action; `Issue`, `RecordPayment` and voiding have a lemma each |
| `LedgerIsAppendOnly` | `LedgerAppendOnly` | every step appends, voids or leaves rows alone |
| `DebitsMirrorInvoices` | `LedgerMirrorsInvoices` | inductive with `TypeOK`; voiding takes all rows of a document, by either route |
| `CreditsMirrorPayments` | `LedgerMirrorsPayments` | inductive with `TypeOK`; a payment has one row, so voiding one row voids all |
| `ReferencesUnique` | `ActiveReferencesUnique` | inductive with `TypeOK` |
| `CacheIsLedger` | `CacheStaleOnlyAfterDelete` | with both mirrors: which rows a step touches, and whose balance they can change |
| `NumbersInOrder` | `InvoiceNumbersInOrder` | strengthened by `NumbersBehindCounter`: no number is above the counter, no date after today |
| `FamilyNeverBillsTwice` | `FamilyBillsOnce` | strengthened by `InvoiceShape`: an invoice of one learner covers that learner only, and one whose status is Void has been voided (not conversely, since it may be mailed later) |
| `BillingImplementsAccounts` | `ImplementsAccounts` | initial states and each step under the mapping, from the mirrors |
| `ReconcileExplained` | `DifferencesExplained` | from `CacheIsLedger`: a sum over learners is compared with the sum over the rows of each |
| `BooksReconcileUnlessDeleted` | | the same, where no deletion has left a cache behind: the claim that `billing_delete` refutes, with the condition under which it is true |
| `FiguresCorrect` | | `FiguresAddUp`, inductive with the types: the columns printed on an invoice are numbers that add up, the charges being the total of its lines |
| `OutstandingIsShort` | `OutstandingShortByPayments` | the rows an issue posts raise the balances of the covered learners by its lines; from `FiguresAddUp`, and the payments deducted are among those in force |
| `BalancesComeFromDocuments` | | `BalancesAreDocuments`: the rows of a learner are grouped by document with the mirrors, and summed in either grouping |
| `DashboardTotalsExplained` | `DashboardExplained` | the same grouping over all rows, and `FiguresAddUp` for what an invoice charges |
| `StatementsExplained` | `StatementExplained` | `BalancesAreDocuments` for one learner, the cache being the ledger, and `InvoiceShape` for who is on an invoice |
| `RunTypeCorrect` | `MonthEndTypeOK` | the type of `Billing` carried along |
| `RunsAreRequests` | `ImplementsBilling` | each step of the run is `MonthEndInvoice`, `SendInvoice` or a stutter |
| `RunningRowsUnique` | `OneRunningRow` | inductive; the guard and the insert are one step under the semaphore |
| `RunsBillOnce` | `RunsNeverRepeat` | with `InvoiceShape`, which `Billing` keeps and `RunsAreRequests` carries over: an earlier invoice of the learner and period has the status Void when the run makes the next |
| `CountsCover` | `CountsCoverInvoices` | strengthened by `CountsBehind`: the locals against the row of the run in progress |
| `RunsGetNearer` | | `StepsLeft`, two for each learner left and one each for the mail and the end, is at most 2 + 2 for every learner, falls with every step of the run and does not rise while it lasts: all of `RunsEnd` but the fairness |
| `CrashedRowsStay` | | per shape of a step on the run rows; what `monthend_crash` shows in one behaviour, for all |
| `BooksSurviveRuns` | | `BooksTogether`, all of the above about the books, through `RunsAreRequests` |
| `FamiliesAreBilling` | `FamiliesImplementBilling` | `FamilyInvoice` is a `GenerateParentInvoice` for some learners of the family, `MailInvoice` a `SendInvoice`, the changes of links stutter |
| `FamiliesTypeCorrect` | `FamiliesTypeOK` | action by action, with the type of `Billing` carried over |
| `MailsStay` | `MailsStayInFamily` | strengthened by `LinksInFamily` and `PayersKnown`: a payer has been linked to every learner on the invoice since it was made, and no step changes whom an invoice covers |
| `NobodyIsLeftOut` | `NobodyLeftOut` | who is not due is billed already or has no lines, and the new invoice bills who is due |
| `ParentsDeletedForGood` | `DeletedForGood` | per action, from the types |
| `BooksSurviveFamilies` | | `BooksTogether` through `FamiliesAreBilling` |
| `ReconIsBilling` | `ReconImplementsBilling` | matches and imports stutter |
| `ReconTypeCorrect` | `ReconTypeOK` | action by action |
| `LinksAgree` | `LinksAgreeUnlessRematched` | inductive with the type, `StatusTells` and `PaymentsMatched` (a link of a payment comes from a match): a side is overwritten only by a later match, which is in the history |
| `StatusAlwaysTells` | `StatusTells` | from the same invariant |
| `BooksSurviveRecon` | | `BooksTogether` through `ReconIsBilling` |
| `GateTypeCorrect` | `GateTypeOK` | inductive with `OneSession`: only who has the session releases, so the semaphore stays at most one |
| `SessionsExclusive` | `OneSession` | inductive with the type |
| `EnoughThreads` | `NoGridlock` | if as many threads as requests: the owner is not in a thread, so one is left |
| `StandstillIsGridlock` | | with `OneSession`: outside a gridlock the owner of the session can go on, or who waits for it, or who wants a thread; in one nobody can |
| `GridlockIsForever` | | from the same lemma: nobody does a step, and an arrival takes no thread |
| `EnoughThreadsGoOn` | | `EnoughThreads` and the same lemma: all of `RequestsAnswered` but the fairness |
| `EnrolmentTypeCorrect` | `EnrolmentTypeOK` | action by action |
| `CodesCounted` | `CountedCodes` | inductive with the type; a run of n codes has n elements |
| `RegistrationPossible` | `RegistrationNeverBlocked` | from `CountedCodes`; above the daily numbers by counting and a least element |
| `NewLearnersNeverClash` | | from the types: the guard of `AutoAssign` never stops a registration, so what `enrolment_removed` shows concerns earlier learners only |
| `GradeGetsItsFees` | `FeesFollowGrade` | what auto-assignment adds, per action |
| `AgreementsStay` | `AgreementsKept` | auto-assignment adds rows and changes none |
| `AccessTypeCorrect` | `AccessTypeOK` | `DataOK` action by action, `RateInv` for the limiter; `Answered` says what an answer adds to the cookies. It bounds the number a cookie counts, not the codes tried |
| `WindowsHold` | `WindowHolds` | memory: every hit of the present process in the window is still in its list, which is at most as long as the limit, and the hits of an earlier process, which can only leave the window, were as few when it ended. Redis: what was let through lies in two windows of the counter, and the earlier one begins with the hit that set its deadline, which leaves the sliding window first |
| `BlocksAlwaysPass` | `BlocksPass` | the same invariant: a standing counter with a deadline was filled within the window |
| `SwitchAlwaysConfirmed` | `SwitchConfirmed` | inductive with the types: set-up needs the switch off, verify confirms the stored secret |
| `LinksUnique` | `OneUnusedLink` | inductive: `NewLink` retires every link of the user first |
| `LinksAreSpentOnce` | `LinksSpentOnce` | per action, from the types; a request that changes the password carries a complete session, which its browser therefore holds |
| `TwoStepsTaken` | `TwoSteps` | per action, from `Answered`: only the new cookie can make a session that the browser did not hold |
| `LockedOutForGood` | | strengthened by `KeysKnown`: nothing is sealed with a key to come, and a restart that loses the key makes every cookie invalid. A user whose secret became unreadable then has a complete session nowhere to disable two-factor with, and no other step writes the secret |
| `LostLinksStayLost` | | from `KeysKnown`: keys only grow, and a link keeps the key it was made with |

The assumptions are the named `ASSUME`s of the modules: the family links are
sets of learners, fees, receipts and statement amounts are positive whole
numbers, prices of fee lines whole numbers, the model values
for NULL are outside their sets, the learners and the requests are finite sets,
given codes are codes, limits and windows are positive. TLC evaluates all of
them.

`RateInv` is the invariant behind the two theorems on the limiter, for each key
on its own (`KeyKept`): hits have distinct numbers and none lies in the future;
for memory, the list is what is left of the hits of the present process in the
window, and no process has more than the limit there; for Redis, there
is a time at which the present counter began, the hits since then are as many as
it counted up to the limit, and those in the window before it are fewer than
the limit, because the hit that began that earlier counter has left it.

Sums. `SumOf` is a fold of the community modules. Its defining equation for a
set with one more row is proved once (`SumOfSumming` and the lemmas after it in
`Facts`), by an induction over finite sets stated for sets of sets; everything
else about totals follows from it: a union of disjoint parts, a regrouping (the
sum over all rows is the sum, over the keys, of the sum of the rows with the
key), a renaming of the keys, signs. This is how a total over the ledger becomes
one over invoices and payments. The mirrors say which row stands for which line,
`SumOfGroups` collects the rows of a document, `SumOfRenamed` carries a sum over
rows to one over the learners on the document. `FiguresAddUp` is the
strengthening that the printed totals need: the ledger holds the lines of an
invoice, the dashboard and the statement add up its `current_charges`.

`Facts` derives these inductions, and the least element of a set of naturals,
from the well-foundedness of finite sets in the library: unlike the induction
theorems of the library they take no operator.

`BooksSound` and `BooksKept` collect what is proved of the books, so that each
composition inherits it in one theorem. A run interleaved with families or with
reconciliation is not composed in one module; each of them is shown to be
`Billing`.

Two claims that runs refute are proved under the condition that makes them true
(`BooksReconcileUnlessDeleted`, `EnoughThreadsGoOn`), and two refutations are
proved to be general (`CrashedRowsStay`, `GridlockIsForever`). `LockedOutForGood`
covers a hazard that no sentence of the repository is about, and so no run.

The types of `Families`, `Recon` and `RequestGate` and `DeletedForGood`, which
follows action by action, are proved and not repeated in the runs.

Only model-checked: `RunsEnd` and `RequestsAnswered`, which are liveness, and
the refutations, which are single behaviours. Of the first two the safety half
is proved: what a run or a request has left to do cannot go on for ever
(`RunsGetNearer`), and somebody can go on (`EnoughThreadsGoOn`); that who can go
on does is the fairness, and that the guards `CanGoOn` are those of the actions
is `StepNeedsGuard` in one direction and plain from the text in the other,
because ENABLED is out of the prover's reach.

## 5. Not modelled

* PostgreSQL, migrations, demonstration data: other deployments of the same
  code.
* Layout and texts: PDF but for the account statement, templates, browser
  scripts, audit rows, the monthly reports and lists.
* SMTP itself, and `send_sms`, which nothing calls.
* The SMTP and SMS rows of the settings, CSRF cookies, roles.
* Transport routes and fee structures: records without a rule of their own.
* `import_jobs` rows and the primary flag of a link, which no decision reads.

## 6. Plan

Done: `Ledger`, `Billing` with `Accounts` and `Reports`, `MonthEnd`, `Families`,
`Recon`, `RequestGate`, `Enrolment`, `RateLimit` with `Access`, each with its runs
and proofs.

1. Proofs: a second abstract specification, of a month's billing, for `MonthEnd`
   and `Families`; the limiter as an abstract window that both backends implement.
2. `Families` over `Enrolment`: the fee lines and statuses that a family invoice
   reads, now any there can be, as the assignments of the learners.
3. Money: `quantize`, the payment status and the ageing of reports as operators
   checked against reference definitions over bounded inputs.

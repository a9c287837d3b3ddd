SPECIFICATION FairMonthEnd
CONSTANTS
  Learners = {l1, l2}
  Parents = {}
  Family <- MCFamily
  Periods = {m1, m2}
  Malformed = {m2}
  Refs = {}
  Fees = {2}
  Receipts = {}
  NoLearner = NoLearner
  NoRef = NoRef
  DaysPerYear = 1
  OverpaymentPolicy = "credit"
  MaxDay = 0
  PaymentDates = {}
  MaxDocuments = 2
  MaxRuns = 2
INVARIANTS
  MonthEndTypeOK
  RunsNeverRepeat
  CountsCoverInvoices
  OneRunningRow
PROPERTIES
  ImplementsBilling
  RunsEnd
CHECK_DEADLOCK FALSE

SPECIFICATION FairMonthEnd
CONSTANTS
  Learners = {l1}
  Parents = {p1}
  Family <- MCFamily
  Periods = {m1}
  Malformed = {}
  Refs = {}
  Fees = {2}
  Receipts = {}
  NoLearner = NoLearner
  NoRef = NoRef
  DaysPerYear = 1
  OverpaymentPolicy = "credit"
  MaxDay = 0
  PaymentDates = {}
  MaxDocuments = 1
  MaxRuns = 2
PROPERTIES
  CrashedRunsResume
CHECK_DEADLOCK FALSE

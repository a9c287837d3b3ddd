SPECIFICATION Spec
CONSTANTS
  Learners = {l1, l2}
  Parents = {p1}
  Family <- MCFamily
  Periods = {m1}
  Refs = {r1}
  Fees = {2}
  Receipts = {1}
  NoLearner = NoLearner
  NoRef = NoRef
  DaysPerYear = 1
  OverpaymentPolicy = "credit"
  MaxDay = 1
  PaymentDates = {1}
  MaxDocuments = 3
INVARIANTS
  BooksReconcile
CHECK_DEADLOCK FALSE

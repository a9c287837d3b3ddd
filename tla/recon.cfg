SPECIFICATION ReconSpec
CONSTANTS
  Learners = {l1}
  Parents = {}
  Family <- MCFamily
  Periods = {m1}
  Refs = {r1}
  Fees = {2}
  Receipts = {1}
  StatementAmounts = {1, 2}
  NoLearner = NoLearner
  NoRef = NoRef
  DaysPerYear = 1
  OverpaymentPolicy = "credit"
  MaxDay = 0
  PaymentDates = {0}
  MaxDocuments = 2
  MaxLines = 2
  MaxMatches = 4
INVARIANTS
  LinksAgreeUnlessRematched
  StatusTells
PROPERTIES
  ReconImplementsBilling
CHECK_DEADLOCK FALSE

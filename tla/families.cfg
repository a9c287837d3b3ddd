SPECIFICATION FamiliesSpec
CONSTANTS
  Learners = {l1, l2}
  Parents = {p1, p2}
  Family <- MCFamily
  Periods = {m1}
  Refs = {}
  Fees = {2}
  Receipts = {}
  FeeItems = {f1}
  Prices = {0, 2}
  NoLearner = NoLearner
  NoParent = NoParent
  NoRef = NoRef
  DaysPerYear = 1
  OverpaymentPolicy = "credit"
  MaxDay = 0
  PaymentDates = {}
  MaxDocuments = 2
SYMMETRY Symmetry
INVARIANTS
  MailsStayInFamily
PROPERTIES
  NobodyLeftOut
  FamiliesImplementBilling
CHECK_DEADLOCK FALSE

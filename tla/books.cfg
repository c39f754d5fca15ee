SPECIFICATION ReportsSpec
CHECK_DEADLOCK FALSE
CONSTANTS
  Requests = {p, q}
  a = a
  b = b
  Drafts = {a, b}
  Plans <- TwoDrafts
  Accounts <- Chart
  TypeOf <- Kind
  Cash = {"bank"}
  Quotes = {3, 5}
  Horizon = 3
  FetchWindow = 1
  RateScale = 2
  MaxRequests = 4
SYMMETRY Symmetry
INVARIANTS EntriesCarryStoredRates ReportsAgree ProfitNotOverstated
PROPERTIES ClosedAccountsRest

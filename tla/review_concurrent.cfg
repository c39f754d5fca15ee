SPECIFICATION FairSpec
CHECK_DEADLOCK FALSE
CONSTANTS
  d1 = d1
  d2 = d2
  c1 = c1
  Companies = {c1}
  Drafts = {d1, d2}
  CompanyOf <- OneCompany
  Users = {u1, u2}
  Chats = {t1}
  Workers = {}
  Approvers = {u1, u2}
  Editors = {u1, u2}
  Nobody = Nobody
  TransactionTypes = {"expense", "income"}
  Keys = {"k1"}
  Extracted <- OneKey
  InitialDups = {"unique"}
  FromTelegram = {d2}
  Findings = {}
  Patches <- PostingPatches
  MaxRequests = 2
  MaxInFlight = 2
  MaxRetries = 0
INVARIANTS
  PostedIsJournaled
PROPERTIES
  RequestsAnswered
  JournalIsLedger

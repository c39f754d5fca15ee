SPECIFICATION Spec
CHECK_DEADLOCK FALSE
CONSTANTS
  d1 = d1
  d2 = d2
  c1 = c1
  Companies = {c1}
  Drafts = {d1}
  CompanyOf <- OneDraft
  Users = {u1, u2}
  Chats = {}
  Workers = {}
  Approvers = {u1, u2}
  Editors = {u1}
  Nobody = Nobody
  TransactionTypes = {"expense", "income"}
  Keys = {"k1"}
  Extracted <- OneKey
  InitialDups = {"unique"}
  FromTelegram = {}
  Findings = {}
  Patches <- OnlyClassify
  MaxRequests = 2
  MaxInFlight = 2
  MaxRetries = 0
INVARIANTS
  AtMostOneEntryPerDraft

SPECIFICATION FairSpec
CHECK_DEADLOCK FALSE
CONSTANTS
  d1 = d1
  d2 = d2
  c1 = c1
  Companies = {c1}
  Drafts = {d1}
  CompanyOf <- OneDraft
  Users = {u1}
  Chats = {t1}
  Workers = {w1, w2}
  Approvers = {u1}
  Editors = {u1}
  Nobody = Nobody
  TransactionTypes = {"expense", "income"}
  Keys = {"k1"}
  Extracted <- OneKey
  InitialDups = {"exact_duplicate", "likely_duplicate"}
  FromTelegram = {d1}
  Findings <- BothTypes
  Patches <- AllPatches
  MaxRequests = 3
  MaxInFlight = 2
  MaxRetries = 2
INVARIANTS
  TypeOK
  MismatchNeedsCorrection
  AtMostOneEntryPerDraft
PROPERTIES
  RequestsAnswered
  PostedFieldsFrozen
  DuplicateFlagKept
  DecisionIsFinal

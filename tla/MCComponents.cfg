SPECIFICATION MCSpec
CONSTANTS
  Focuses = {"grants", "import", "migration", "index", "discovery", "route", "evidence", "loading", "period",
             "audit", "restore", "attachments"}
  IdempotencyKeys = {k1, k2}
  AttemptIds = {a1, a2}
  Outcomes = {out}
  Cards = {card}
  States = {s1, s2}
  Nonces = {nonce}
  NoGrant = NoGrant
  MaxRevision = 3
  MaxContracts = 1
  MaxEvents = 1
  p1 = p1
  p2 = p2
  l1 = l1
  o1 = o1
  n1 = n1
  n2 = n2
  Runs = {u1, u2}
  Contents <- MCContents
  CardIds = {c1, c2, c3}
  Pans = {p1, p2}
  Lifecycles = {l1}
  Offerings = {o1}
  Notes = {n1, n2}
  Unsaid = Unsaid
  MaxVaultRev = 2
  MaxWrites = 2
  MigrationEvents = {e1, e2, e3}
  Absent = Absent
  MaxEdits = 2
  NoIndex = NoIndex
  r1 = r1
  r2 = r2
  r3 = r3
  Rules <- MCRules
  Catalogs <- MCCatalogs
  Holdings <- MCHoldings
  Browsers = {b1}
  Threads = {t1, t2}
  PageSize = 1
  CursorLimit = 1
  MaxTokens = 2
  MaxSearches = 2
  MaxReleases = 1
  NoRequest = NoRequest
  g1 = g1
  g2 = g2
  Classes = {"guaranteed", "estimated"}
  CapGroups = {g1, g2}
  Components <- MCParts
  MaxComponents = 3
  BenefitRules = {1, 2, 3, 4, 5, 6, 7, 8, 9}
  Amounts = {20, 25, 40}
  Minor = 10
  MaxAge = 3
  MaxLimitedAge = 1
  Uncapped = Uncapped
  Graphs <- MCGraphs
  LastDay = 2
  NoDocument = NoDocument
  RawCatalogs <- MCRawCatalogs
  CatalogDays = {1, 2}
  NoValue = NoValue
  FirstYear = 2023
  LastYear = 2025
  Anniversaries <- MCAnniversaries
  q1 = q1
  q2 = q2
  Actors = {q1, q2}
  Kinds = {"edit", "reveal"}
  CallerIds = 2
  MaxPurges = 1
  Retention = 1
  LastAuditDay = 2
  LogCapacity = 2
  NoActor = NoActor
  Passphrases = {"pass1", "pass2"}
  MaxSaves = 1
  Keep = 1
  MaxBackups = 2
  MaxTouches = 1
  NoBytes = NoBytes
  Attachments = {f1, f2}
  LastFileDay = 2
  NoFile = NoFile
  Corrupt = Corrupt
SYMMETRY MCSymmetry
CONSTRAINT MCConstraint
INVARIANTS KeyedOnce ImportsUnique OneTrueEvent JournalTellsState
  QueryCurrent PagesContinue RouteValueSound EvidenceSound CatalogSound
  PeriodsTile AuditTrail RestoreVerified AttachmentsWhole
PROPERTIES AppliedAsAuthorized ImportAddsOnly AppliedAsApproved
CHECK_DEADLOCK FALSE

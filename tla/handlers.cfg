SPECIFICATION Spec
CONSTANTS
  Reports = {"r1", "r2"}
  Authors = {"veteran", "doubted"}
  Anonymous = "anonymous"
  Filings <- MCFilings
  Verifications = {"v1", "v2"}
  Earned <- MCEarned
  MaxDecisions = 2
  Sos = {"s1", "s2"}
  Messages <- MCMessages
  MinUrgency = 3
  MaxRestarts = 1
  Assessments = {"u1", "u2", "u3"}
  Contents = {"c1", "text"}
  Images = {"c1"}
  Suffixes = {"jpg", "png"}
  Backend = "local"
  Logins = {"l1", "l2"}
  MaxFailures = 2
  MaxGuesses = 6
  MaxAuthFaults = 1
  Visits <- MCVisits
  ChunkSize = 2
  MaxIngests = 2
  LastInstant = 2
  MaxRetries = 1
  Catalogue <- MCCatalogue
  Limits <- MCLimits
  Weights = {"flood_lstm"}
  Scores = {60}
  Rainfalls <- MCRainfalls
  Cities <- MCCities
  Inquiries <- MCInquiries
  MaxRevised = 1
INVARIANTS
  AuditExplains
  TiersAreEarned
  VerifiedOncePerIncident
  AuthorHasTheLastWord
  AnsweredIsSeen
  StoredHasBytes
  GuessesAreBounded
  TablesAgree
  WorseIsNeverMilder
  StandingEventsAreSeen
  ThreatsAreTop
  CascadesPointForward
PROPERTIES
  AnsweredIsTriaged
CHECK_DEADLOCK FALSE

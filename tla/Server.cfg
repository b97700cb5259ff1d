SPECIFICATION Spec
CONSTANTS
  None = None
  r1 = r1
  r2 = r2
  Requests = {r1, r2}
  Readers = {r1}
  Addons = {Broadcast, other}
  Broadcast = Broadcast
  Fields = {f1, f2}
  admin = admin
  tutor = tutor
  Admin = admin
  Users = {admin, tutor}
  Tokens = {t1}
  First = First
  algebra = algebra
  Algebra = Algebra
  physics = physics
  Names = {algebra, Algebra, physics}
  FirstName = physics
  Fold <- MCFold
  People = {p1, p2}
  Bookings = {b1}
  s1 = s1
  s2 = s2
  g1 = g1
  l1 = l1
  l2 = l2
  l3 = l3
  m1 = m1
  m2 = m2
  Students = {s1, s2}
  Groups = {g1}
  Lessons = {l1, l2, l3}
  Seeded = {s1, s2, g1, l1, l2, l3}
  SeedBalance = 0
  Typed = {1}
  AudienceOf <- MCAudienceOf
  TutorOf <- MCTutorOf
  GradeScaleMax = 5
  MAX_PERCENTAGE = 100
  Payloads <- MCPayloads
  Filed <- MCFiled
  Kept <- MCKept
  Day <- MCDay
  Minutes <- MCMinutes
  SubjectOf <- MCSubjectOf
  Today = 0
  Queries <- MCQueries
  DEFAULT_WINDOW_DAYS = 30
  MAX_WINDOW_DAYS = 400
  MAX_BREAKDOWN_ROWS = 2
  HISTORY_LIMIT = 1
  Marks = {"PRESENT", "ABSENT_EXCUSED"}
  MaxWrites = 2
  Thresholds <- MCThresholds
  DEFAULT_AT_OR_BELOW = 0
  Booker = tutor
  Columns <- MCColumns
  Patches <- MCPatches
  MaxBookings = 1
  Varied <- MCVaried
  a1 = a1
  a2 = a2
  Addresses = {a1, a2}
  Calling <- MCCalling
  Routes = {"signIn", "calendar"}
  GLOBAL_THROTTLERS <- MCGlobal
  Throttle <- MCThrottle
  MaxCalls = 3
  MaxClock = 3
INVARIANTS
  TypeOK
  RevokedStaysRevoked
  GrantsAsSubmitted
  SettingsKept
  SentIsStored
  HiddenIsUnused
  OneOfAName
  FiledAsWritten
  ReportAddsUp
  DebtorsAgree
  SettingsHold
  LinksStayOnProvider
  NeverWanting
  OwnAllowance
PROPERTIES
  DeviceKept
  RequestsEnd
CHECK_DEADLOCK FALSE

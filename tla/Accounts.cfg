SPECIFICATION Spec
CONSTANTS
  None = None
  Requests = {r1, r2, r3, r4}
  Schools = {A, B}
  Slugs = {g}
INVARIANTS
  TypeOK
  UsedMeansJoined
  SchoolHasAdmin
  ToldOfJoiner
  JoinedNotPending
PROPERTIES
  MembershipSpec
  RequestsEnd
CHECK_DEADLOCK FALSE

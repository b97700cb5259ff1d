SPECIFICATION Spec
CONSTANTS
  f1 = f1
  f2 = f2
  f3 = f3
  p1 = p1
  A = A
  B = B
  Library = Library
  Files = {f1, f2, f3}
  Parents = {p1}
  Schools = {A, B}
  ParentOf <- MCParentOf
  SchoolOf <- MCSchoolOf
  SizeOf <- MCSizeOf
  Quota = 2
  Removers = {r1, r2}
INVARIANTS
  TypeOK
  WithinQuotaUnlessOverlapped
  OrphansExplained
PROPERTIES
  ShelfSpec
  PlaceholderReleased

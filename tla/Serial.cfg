SPECIFICATION Spec
CONSTANTS
  Nil = Nil
  s1 = s1
  g1 = g1
  l1 = l1
  AudienceOf <- MCAudience
  Students = {s1, s2}
  Groups = {g1}
  Lessons = {l1, l2}
  Seeded <- OnlyS1
  SeedBalance = 0
  Typed = {1}
  Writers = {w1, w2}
  Marks = {"PRESENT", "ABSENT_EXCUSED"}
  Said = {"unstated", "CANCELLED"}
  OnePerLesson = TRUE
  MaxWriteUps = 2
INVARIANTS
  BooksAgree
PROPERTIES
  LedgerSpec
CHECK_DEADLOCK FALSE

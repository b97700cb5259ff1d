SPECIFICATION Spec
CONSTANTS
  Nil = Nil
  s1 = s1
  g1 = g1
  l1 = l1
  AudienceOf <- MCAudience
  Students = {s1, s2}
  Groups = {g1}
  Lessons = {l1}
  Seeded <- Everything
  SeedBalance = 1
  Typed = {2}
  Writers = {w1, w2}
  Marks = {"PRESENT", "ABSENT_EXCUSED"}
  Said = {"unstated"}
  OnePerLesson = FALSE
  MaxWriteUps = 2
INVARIANT BooksAgree
CHECK_DEADLOCK FALSE

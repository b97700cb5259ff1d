SPECIFICATION Spec
CONSTANTS
  Nothing = Nothing
  Connects = {c1, c2}
  Bookings = {b1, b2}
INVARIANTS
  TypeOK
  ConnectionUsable
  ClosedStaysClosed
  FailsOnlyWhenClosed
  LabelNamesAccountUnlessCrossed
PROPERTIES
  EveryBookingEnds

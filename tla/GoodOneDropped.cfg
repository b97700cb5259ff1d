SPECIFICATION Spec
CONSTANTS
  Nothing = Nothing
  Connects = {c1}
  Bookings = {b1, b2}
INVARIANT DropsOnlyWhatFailed

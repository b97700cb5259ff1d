SPECIFICATION Spec
CONSTANTS
  Nothing = Nothing
  Connects = {c1, c2}
  Bookings = {b1, b2}
INVARIANT BookingNeverFails

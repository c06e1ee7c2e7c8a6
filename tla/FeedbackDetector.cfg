SPECIFICATION Spec
CONSTANTS
  Windows = 5
  Levels = {0, 1, 2, 4, 8, 16}
INVARIANTS TypeOK NoMissedTrip TripIsAnnounced
PROPERTIES NoStaleTrip

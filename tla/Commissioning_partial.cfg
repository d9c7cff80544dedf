SPECIFICATION Spec
CONSTANTS
  Qty = 2
  Attempts = 1
  MaxDrops = 1
  EventsMayLag = FALSE
INVARIANTS
  TypeOK
  BooksAgreeOnSuccess
  PendingIsRemaining
  MirrorWithinVenue
  FailureShowsExposure
  RecordsFollowVenue
PROPERTIES
  KeepsPromise
  RecordsAdvance
CHECK_DEADLOCK FALSE

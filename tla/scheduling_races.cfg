\* Two concurrent requests on the schedule of one order.
SPECIFICATION Spec
CONSTANTS
  Orders = {o1}
  Requests = {r1, r2}
  Dates = {0, 1}
  Times = {1, 2, 3}
  FirstDay = 1
  LastDay = 2
  Null = Null
SYMMETRY Symmetry
INVARIANTS
  TypeOK
  PendingComesFirst
  NoDateFromThePast
  EventsTellTheTruth
  IInv
PROPERTIES
  OnlyStaleConfirmBreaksTheWindow
  UndisturbedSavesAreExact
  ImplementsScheduleTable

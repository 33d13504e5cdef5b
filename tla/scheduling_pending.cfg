\* A reschedule and a confirm of the same schedule.
SPECIFICATION Spec
CONSTANTS
  Orders = {o1}
  Requests = {r1, r2}
  Dates = {1}
  Times = {1, 2}
  FirstDay = 1
  LastDay = 1
  Null = Null
PROPERTIES
  RescheduleReturnsToPending

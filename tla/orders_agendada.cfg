\* A confirmed schedule is redefined between the check and the write.
SPECIFICATION Spec
CONSTANTS
  Orders = {o1}
  Customers = {c1}
  TransportTypes = {t1}
  Items = {i1}
  Requests = {r1}
  Stocked = {c1, t1, i1}
  Null = Null
PROPERTIES
  AgendadaNeedsConfirmedSchedule

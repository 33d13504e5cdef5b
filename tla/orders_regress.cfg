\* Two concurrent requests send an order back.
SPECIFICATION Spec
CONSTANTS
  Orders = {o1}
  Customers = {c1}
  TransportTypes = {t1}
  Items = {i1}
  Requests = {r1, r2}
  Stocked = {c1, t1, i1}
  Null = Null
PROPERTIES
  SequentialFlow

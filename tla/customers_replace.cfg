\* Two concurrent PUTs on the list of one customer.
SPECIFICATION Spec
CONSTANTS
  CustomerIds = {c1}
  Documents = {d1}
  TransportTypes = {t1, t2}
  Requests = {r1, r2}
  Null = Null
PROPERTIES
  PutReplacesTheList

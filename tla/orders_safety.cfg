\* Two concurrent requests on one order, every other service free to interfere;
\* neither the customer nor the item is registered at first.
SPECIFICATION Spec
CONSTANTS
  Orders = {o1}
  Customers = {c1}
  TransportTypes = {t1, t2}
  Items = {i1}
  Requests = {r1, r2}
  Stocked = {t1, t2}
  Null = Null
SYMMETRY Symmetry
INVARIANTS
  TypeOK
  NothingSkipped
  ScheduledOnceConfirmed
  TransportOnceAuthorized
  EventsTellTheTruth
  AnsweredIsDone
  IInv
PROPERTIES
  OnlyStaleCopiesGoBack
  ImplementsLifecycle
  OrdersKeepTheirIdentity

\* Two concurrent requests on two customers and two transport types.
SPECIFICATION Spec
CONSTANTS
  CustomerIds = {c1, c2}
  Documents = {d1, d2}
  TransportTypes = {t1, t2}
  Requests = {r1, r2}
  Null = Null
SYMMETRY Symmetry
INVARIANTS
  TypeOK
  DocumentsUnique
  AuthorizedAreRegistered
  IInv
PROPERTIES
  UndisturbedSavesAreExact
  OnlyStalePatchRevives
  ImplementsTransportGrants

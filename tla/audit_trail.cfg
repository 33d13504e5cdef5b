\* Two requests, two orders, three changes, two moments: what becomes
\* of their events.
SPECIFICATION FairTrailSpec
CONSTANTS
  OrderIds = {o1, o2}
  Status = {CRIADA, PLANEJADA}
  Created = CRIADA
  Requests = {r1, r2}
  MaxChanges = 3
  FirstTick = 1
  LastTick = 2
  Null = Null
INVARIANTS
  TrailIInv
  TrailTellsTheOrder
PROPERTIES
  KeepsTheLedger
  LossesHaveACause
  EventsSettle

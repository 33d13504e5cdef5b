\* A request is answered before its event is inserted.
SPECIFICATION TrailSpec
CONSTANTS
  OrderIds = {o1, o2}
  Status = {CRIADA, PLANEJADA}
  Created = CRIADA
  Requests = {r1, r2}
  MaxChanges = 2
  FirstTick = 1
  LastTick = 1
  Null = Null
INVARIANTS
  AnsweredIsRecorded

\* Two requests, two orders, three changes, a day of three ticks whose last
\* millisecond has two; a client that reads pages of one row.
SPECIFICATION Spec
CONSTANTS
  OrderIds = {o1, o2}
  Status = {CRIADA, PLANEJADA}
  Created = CRIADA
  Requests = {r1, r2}
  MaxChanges = 3
  FirstTick = 1
  LastTick = 2
  Days = {0, 1}
  DayLength = 3
  Millisecond = 2
  Limits = {1}
  Queries <- SomeQueries
  Null = Null
SYMMETRY Symmetry
INVARIANTS
  IInv
  OnlyTheLastMillisecondEscapes
PROPERTIES
  CompleteWalksMissNothing

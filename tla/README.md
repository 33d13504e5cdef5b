# Verification of the OVGS API

This directory holds TLA+ models of the sales order service under `src/`
(NestJS, TypeORM, PostgreSQL), the TLC configurations that check them on small
instances, and TLAPS proofs of what they promise for instances of any size.
Paths below are relative to the repository (`src/sales-orders/...` and so on).

## 1. The system

| component | state | operations | talks to |
|---|---|---|---|
| Order flow (`sales-order-state-machine.ts`) | none, a table of transitions | `canTransition` | used by sales orders |
| Sales orders (`sales-orders.service.ts`) | `sales_orders`, `sales_order_items` | `create`, `updateStatus`, `changeTransport`, `findOne`, `findAll` | reads customers, transport types, items and the `schedules` table; emits audit events |
| Scheduling (`scheduling.service.ts`) | `schedules`, one row for an order | `define`, `confirm`, `reschedule`, `findByOrder` | looks the order up; emits audit events |
| Customers (`customers.service.ts`) | `customers` and the join table of authorized transports | `create`, `update` (PATCH), `setAuthorizedTransports` (PUT), `isTransportAuthorized` | looks transport types up |
| Transport types, items | one table each, unique `code` / `sku` | `create`, `update`, lookups | read by the two above |
| Audit (`audit/`) | `audit_events`, append only | listener of one event, `record`, `findAll` | called by the event emitter |
| Auth (`auth/`) | `users`, tokens held by clients | `login`, `validate`, both guards, `create` user (the seed) | in front of every handler |
| HTTP layer, configuration, health | none | validation pipe, exception filter | around every handler |

One Node process serves requests concurrently. A handler runs alone between two
`await`s; at an `await` any other handler may run, and several processes over
one database would interleave in the same places. No handler opens a
transaction around its reads and its write, takes a lock or checks a version.
There are no deletes. The database adds primary keys, `UNIQUE` constraints and
one transaction for each `save`.

**`repo.save(entity)`** is where most of the behaviour hides, and the models
follow it in three steps: the handler sets columns of an entity it loaded
earlier; `save` reads the row again, outside any transaction, and keeps the
columns that differ from the entity (for a many-to-many list, in a second
query, the rows to insert and delete); then one transaction writes just those.
What is written is hence decided by three versions of the row: the one loaded,
the one compared with, the one updated. Two details matter and are modelled:
a `time` column reads back as `HH:MM:SS` and a body has `HH:MM`, so windows
taken from a body always differ; and an undefined property is passed over,
which is what makes PATCH partial, because dto classes compiled for ES2023 have
all their fields.

What is hard here, and what would make each component correct:

* *Sales orders.* The status is checked on a stale copy, and a stale copy is
  saved. An order must not skip a status, must not reach AGENDADA without a
  confirmed schedule, must keep to transports its customer was granted, must
  keep its customer and items; an answer and an audit event must be true.
* *Scheduling.* Columns of two requests may merge in one row. A schedule must
  be pending before it is confirmed, with a date and a window somebody checked.
* *Customers.* Check-then-insert of the unique document; lists that are saved
  as differences, PATCH carrying along a list that has been revoked.
* *Catalogues, users.* Check-then-insert of unique keys; a PATCH that saves a
  row it loaded earlier and must not conflict with itself.
* *Audit.* The listener is registered `{ async: true }` without `promisify`, so
  the emitter defers it (`setImmediate`) and `emitAsync` has nothing to wait
  for: the answer goes out before the event is inserted. Events lost by a crash
  or a failed insert after the commit; rows that show up in another order than
  they are sorted in. The trail must not invent, repeat or take back an event,
  lose one without a cause, nor put it before one it already had.
* *Monitoring.* Date ranges at the ends of a day, pages read by several queries
  over a moving table: a reader must not miss rows without anybody knowing why.
* *Auth.* A token outlives the role it was signed with; the role and the active
  flag are read once per request, an await before the handler.

`PROJECT.json` lists each of these hazards at its line.

## 2. Modules

| module | what it is |
|---|---|
| `OrderFlow` | the transition table of the code, and the documented flow (`Position`, `Follows`, `FlowClosed`) to compare it with |
| `OrderLifecycle` | abstract: what an order promises. `StrictSpec`: one status after the other. `Spec`: what is left of that with concurrent requests, the *furthest* status advances one by one and the status may fall back to one it has had; it is checked and proved of the code, `StrictSpec` only proved, under conditions |
| `SalesOrders` | the three handlers that write orders; the other services appear as the effects they have on the tables read here |
| `Scheduling` | the three handlers of the schedule, and the clock |
| `Customers` | the three handlers of customers |
| `ScheduleTable`, `TransportGrants` | abstract: what the sales orders see of the scheduling and of the customers service |
| `Auth` | login, tokens, the two guards, the seed, the table `users` |
| `Catalog` | extends `Auth`: the handlers of transport types and items, behind the guards, each answer with its status |
| `AuditLedger` | abstract: what the audit trail promises: an event is recorded once and for good, or lost, one at a time or all that are pending, and then for good too |
| `AuditTrail` | from the commit of a change to its row in `audit_events`, by way of a listener nobody waits for, with the clock of the database; it is checked by itself and needs no MC module |
| `Monitoring` | extends `AuditTrail`: the two listings, filtered, sorted and read page by page |
| `MCSalesOrders`, `MCScheduling`, `MCCustomers`, `MCCatalog`, `MCMonitoring` | symmetry sets and queries for TLC |
| `SalesOrdersProofs`, `SchedulingProofs`, `CustomersProofs`, `CatalogProofs`, `AuditTrailProofs` | theorems: for each component its inductive invariant and what follows from it |
| `MonitoringProofs`, `PagingProofs` | theorems about the filters, and about walks through the listings |
| `IsolationProofs` | theorems about what the documents promise of orders, and which row would have to be held for it, on top of `SalesOrdersProofs` |

`SalesOrders` extends `OrderFlow` and instantiates `OrderLifecycle` with the
status of each order (`Lifecycle == INSTANCE OrderLifecycle WITH ...`).

The services meet in two small abstract modules. What scheduling may do to a
schedule while an order is handled is a step of `ScheduleTable`
(`SalesOrders!DefineSchedule` is `Table!Define(o)` with its history), what the
customers service may do to a list is a step of `TransportGrants`. The other
half is a refinement: `Scheduling!ImplementsScheduleTable` and
`Customers!ImplementsTransportGrants` say that the real services do nothing
else, lost updates and failures included, and both are proved. So the
environment in which the sales orders are checked is not an invention of theirs.
What the two services may expect in return is proved as well
(`KeepsTheScheduleTable`, `KeepsTheGrants`): an order stays once it is there, and
no handler of the sales orders touches a schedule, a customer, a transport type
or a list. The second proof showed a gap in the model: one set, `registered`,
holds the ids of three tables, which is faithful only if an id names a row of
one table at most. `IdsAssumption` now says so.

### How a module corresponds to the code

`pc[r]` names the `await` at which request `r` stands, and there is one action
for the code from one `await` to the next:

* `SalesOrders`. create: `FindCustomer`, `FindTransport`, `CheckAuthorized`,
  `FindItems`, `InsertOrder`, `Emit`, `Answer`. updateStatus: `LoadForStatus`
  (findOne and `canTransition`), `assertConfirmedSchedule` when the target is
  AGENDADA, `Reload` and `Write` (the two halves of `save`), `Emit`, `Answer`.
  changeTransport: `LoadForTransport`, `FindTransport`, `CheckAuthorized`,
  `Reload`, `Write`, `Emit`, `Answer`.
* `Scheduling`. `FindOrder` (define only), `FindSchedule` (with
  `assertValidWindow`, which has no await, and the 404 of the other two),
  `Insert` or `Reload` and `Write`, `Emit`, `Answer`.
* `Customers`. `FindOne`, `assertDocumentAvailable`, `FindByIds`, `Insert` or
  `Reload`, `ReloadList` and `Write`, `Answer`.

* `Auth`, `Catalog`. A protected route starts at `JwtAuthGuard` (a token, or
  401) and waits at `validate` for `findById`; `RolesGuard` has no await of its
  own, so 401, 403 or the handler's first query follow in one step. login:
  `validateUser`, then `login` (bcrypt and the signature). Seed:
  `SeedFindByEmail`, `CreateFindByEmail`, `InsertUser`. Transport types:
  `assertCodeAvailable` and `InsertType`; `FindOne`, `assertCodeAvailable` if
  the code is a new one, `Reload` and `Write`; `Get`. Items: `FindSku`,
  `InsertItem`. No route changes a user; `Administer` is somebody at the
  database. Tokens expire at any moment, and outlive a restart.
* `AuditTrail`. `BeginInsert` (create only: `created_at` is taken when the
  transaction begins), `Save` (the commit, which gives the change its number),
  `Emit` (the event is with the emitter, the handler goes on), `Answer`; on the
  listener's side, at any time later, `Handle` (`occurred_at` is taken), then
  `Record` or `Refuse`. Which status follows which is the subject of
  `SalesOrders`; here an order may be saved with any.
* `Monitoring`. `findAll` of orders joins two tables and has `skip` and `take`,
  for which TypeORM runs three queries, `FindIds`, `FindRows` and `Count`; the
  audit listing runs two. A client goes on while `total` says there is more.

An exception is a `Release` of the request (an `End` with a status in `Auth`
and `Catalog`). `Fail` is a query that rejects,
at any await, including one whose commit was not acknowledged. `Crash` is the
process being killed and started again: requests and events in memory vanish,
tables stay. `HandleAudit` is the listener settling, whenever it does: no
handler waits for it.

The variables `reached`, `carried`, `everConfirmed`, `everAuthorized`, `had`,
`overtaken`, `standing`, `raced`, `changes`, `refused` and `due` are history: no
guard of a handler reads them (in `AuditTrail` the length of `changes` also
numbers the changes, for the bound `MaxChanges`). Definitions with an underscore
in their name (`Reload_GiveUp`) are mutants: each is a plausible bug, put in
place of the definition after it to see that a property notices.

## 3. What the runs check and show

| run | instance | checks |
|---|---|---|
| `orders_safety` | 1 order, 2 requests, 2 transport types; 2.1 M states | `TypeOK`, `NothingSkipped`, `ScheduledOnceConfirmed`, `TransportOnceAuthorized`, `EventsTellTheTruth`, `AnsweredIsDone`, `IInv`, `OnlyStaleCopiesGoBack`, `ImplementsLifecycle`, `OrdersKeepTheirIdentity` |
| `scheduling_races` | 1 order, 2 requests, 3 times, 2 dates, 2 days; 1.5 M states | `TypeOK`, `PendingComesFirst`, `NoDateFromThePast`, `EventsTellTheTruth`, `IInv`, `OnlyStaleConfirmBreaksTheWindow`, `UndisturbedSavesAreExact`, `ImplementsScheduleTable` |
| `customers_races` | 2 customers, 2 documents, 2 transport types, 2 requests; 1.0 M states | `TypeOK`, `DocumentsUnique`, `AuthorizedAreRegistered`, `IInv`, `UndisturbedSavesAreExact`, `OnlyStalePatchRevives`, `ImplementsTransportGrants` |
| `catalog_guarded` | 2 users, 1 e-mail, 2 rows, 2 codes, 1 sku, 2 requests; 0.7 M states | `UniqueKeys`, `IInv`, `OnlyPresentAdminsConfigure`, `TokensAreEarned`, `OnlyRacesEscapeTheLookup`, `ConflictsNameAnotherRow`, `PatchesWriteWhatTheyName` |
| `monitoring` | 2 orders, 2 statuses, 2 requests, 3 changes, 2 moments, pages of 1; 2.7 M states | `IInv`, `OnlyTheLastMillisecondEscapes`, `CompleteWalksMissNothing` |
| `audit_trail` | 2 orders, 2 statuses, 2 requests, 3 changes, 2 moments, fairness; 0.3 M states | `TrailIInv`, `TrailTellsTheOrder`, `KeepsTheLedger`, `LossesHaveACause`, `EventsSettle` |

Six runs are expected to find a violation: each checks a sentence of the
documentation that the code does not keep, five of them because requests
interleave, the last because nobody waits for the listener.

| run | the sentence | what TLC shows |
|---|---|---|
| `orders_regress` | README.md:234, only sequential transitions | an order goes back, e.g. a changeTransport that loaded it before an updateStatus writes the old status |
| `orders_agendada` | README.md:235, AGENDADA requires a confirmed schedule | the schedule is redefined between its check and the write of the status |
| `orders_unauthorized` | customer.entity.ts:33, only transports on the list | the transport is taken off the list between its check and the insert |
| `scheduling_pending` | scheduling.service.ts:54, a reschedule returns to PENDING | a confirm commits between the two halves of the reschedule's save: the new window is CONFIRMED |
| `customers_replace` | docs/API.md:75, PUT replaces the list | two PUTs leave the union of their lists |
| `audit_durable` | README.md:262, ADR 0003, README.md:386: `emitAsync` makes the audit durable within the request | the handler goes on to its answer while its event is still with the emitter |

For each of the first five section 4 has a theorem that says what it would take
to make it true. Around each of them the passing properties say what is left,
which is the more useful statement: statuses go back but are never skipped
(`NothingSkipped`, `ImplementsLifecycle`), and only by a request with a stale
copy (`OnlyStaleCopiesGoBack`); no save takes the customer or the items of an
order away (`OrdersKeepTheirIdentity`); a change of status or of transport that
is answered did take place, if only for a moment (`AnsweredIsDone`); a schedule
*was* confirmed, a transport *was* granted; windows are torn only by a stale
confirm; a request that no other overtakes does exactly what was asked of it
(`UndisturbedSavesAreExact`).

What the other runs show, beyond what passes:

* *Answers.* docs/API.md says 409 for a duplicate. The lookup alone would not
  keep keys unique and the constraint alone would answer 500; together they keep
  the keys unique, and a 500 means that another request took the key in between
  (`OnlyRacesEscapeTheLookup`). A PATCH that repeats its own code is never in
  conflict with itself, unless its own row was given the code meanwhile
  (`ConflictsNameAnotherRow`).
* *Roles.* The role in the token decides nothing. The one that counts was true
  after the request came in (`OnlyPresentAdminsConfigure`), and may be gone when
  the handler writes.
* *Durability.* README.md:262 and ADR 0003 promise that `emitAsync` makes the
  audit durable within the request. It does not: `audit_durable` answers a
  request whose event is still in memory, and a process that stops there leaves
  an *answered* change without a record. What the code keeps is `AuditLedger`:
  what is lost is lost for good. `LossesHaveACause` says by what: the process
  stops, the database refuses the insert (the emitter keeps the error to itself,
  `Refuse`), or the handler throws between its commit and its `emitAsync`, as
  when a commit is not acknowledged; an answered change by the first two only.
  And with nobody to wait for the listener, each event still settles, as a row
  or as a loss (`EventsSettle`).
* *Order.* What was in the trail when a change was committed does not come after
  it when sorted by `occurred_at` (`TrailTellsTheOrder`). No more than that: two
  changes may be *answered* one after the other and sorted the other way, since
  neither answer waits for its event.
* *Days.* `T23:59:59.999Z` leaves out the orders of the last millisecond of a
  day, whose `created_at` has microseconds, and no others.
* *Pages.* A walk to the last page misses no row that was there when it began,
  except one that shares its time with another row, and unless some row
  stopped to match the filter while it went on. Rows may well come twice.

### Bounds

Ids, documents and slots for requests are finite sets given in the `.cfg`. Two
requests on one row are enough for every race above, since a race is between one
writer and one reader of a row; the proofs remove the bound for the safety
properties. Two orders (or customers) matter only for the identity of rows and
for unique keys, hence two customers in `customers_races`, and for the trail;
the theorems about orders hold for any number of them. Three times of day are
what a torn window needs (start, end, and one between); two dates, one of them
past, and one midnight what the date check needs. `Create` is guarded so that
creates in flight do not outnumber the free ids: in the program there is always
a fresh uuid. `LastDay` bounds the calendar.

In `catalog_guarded` one e-mail is enough, since users interfere only over an
equal one, and one sku, since nothing compares two. In `monitoring`,
`MaxChanges` bounds the changes, `FirstTick` and `LastTick` the clock, `Queries`
the listings asked for: all orders, the new ones of one day, all events. A day
has three ticks, the last millisecond of it two, so that the moments 1 and 2 lie
inside and a day's end can be missed; two moments are what equal times and
different ones need. A page size of one (`Limits`) makes every row its own page:
two orders fill two pages and three events three. `audit_trail` has the same
instance without the reader; `audit_durable` needs no more than one change. That
`Matching` is computed in one step is what one SQL query is; that the order
among equal times is chosen anew at each query is more than a database does most
days, and less than it promises.

Symmetry permutes requests and ids that no constant tells apart, and is not
used where liveness is checked.

### Fairness

`FairTrailSpec` of `AuditTrail` has weak fairness of `Step(r)` for each request
and of `Listener(n)` for each event: the event loop comes to every callback that
is due, the deferred listener among them, and the driver answers every query or
throws. New requests, failures, crashes and the clock have no fairness. Under
it, `EventsSettle`. No handler and no listener loops, retries or waits for
another one, so weak fairness is all it takes.

## 4. What is proved

The proofs hold for every value of the constants, under the `ASSUME`s of the
modules: `Null` is none of the other values, `Stocked` is a set of ids,
dates and times are integers, the administrator's e-mail is an e-mail, a day has at least one millisecond, customers, transport
types and items share no id, and in `AuditTrail` the requests at one time are
finitely many (for the bound on changes), as are the order ids there may ever be
(a page counts rows). Nothing else is assumed; TLC evaluates these in every
passing run.

Each proof module has the same shape. The invariant `IInv` joins the type
invariant, the safety invariants and, for each request, what it *knows* at the
await it stands at (`RequestKnows`). It has to, because none of the safety
invariants is inductive: that a write moves a status legally depends on a check
made several awaits earlier. And what a request knows cannot speak of the
present row, which others write. So it speaks of facts that never become false
again: statuses and transports an order has had, transports once granted
(`SalesOrders!HoldsOldRow`, `ChecksPassed`); or it carries the proviso that no
other request has saved that row since (`overtaken` in `Scheduling` and
`Customers`). One lemma says what the steps of other requests preserve of it,
one goes through the request's own steps.

* `SalesOrdersProofs`: `Invariance` (`Spec => []IInv`) and from it
  `TypeCorrect`, `NoSkipping`, `DeliveredWentThroughAll`, `SchedulingRequired`,
  `AuthorizationRequired`, `TruthfulAudit`, `AnswersAreTrue`; the action
  properties `IdentityKept` and `StaleCopiesAreTheCause`; and `Refinement`,
  that `SalesOrders` implements the lifecycle. Then `KeepsTheScheduleTable` and
  `KeepsTheGrants`, the two interfaces seen from this side.
* `SchedulingProofs`: `Invariance`, `TypeCorrect`, `PendingFirst`,
  `DatesChecked`, `TruthfulAudit`, `NoLostUpdateWithoutRace`,
  `StaleConfirmIsTheCause`, and `FitsTheOrders`: it implements `ScheduleTable`.
* `CustomersProofs`: `Invariance`, `TypeCorrect`, `UniqueDocuments`,
  `ListsAreRegistered`, `NoLostUpdateWithoutRace`, `StalePatchIsTheCause`, and
  `FitsTheOrders`: it implements `TransportGrants`.
* `CatalogProofs`: `Invariance`, `KeysAreUnique`, `AdminsConfigure`,
  `EarnedTokens`, `RacesEscape`, `NoConflictWithItself`, `PatchesAreExact`. Each
  fact a request has looked up holds *unless it is in `raced`*; a step of one
  request either stores nothing in the tables another has read, or marks that
  one (`KnowledgeStays`). While a request waits at `validate` or in a login,
  `standing` gathers every role its user has had, so the role that the query
  will find is in it already.
* `AuditTrailProofs`: `TrailInvariance`, `TrailIsOrdered`, `LedgerIsKept`,
  `LossesAreAccidents`. Two ideas carry the invariant. `ChangesComeFirst`:
  whatever is known of a change follows its commit, and an event is in one
  place, at its handler, with the listener, or in the table; hence no event
  twice. `TimesRise`: what was in the trail before a change was committed got
  there at a time that the clock has passed when the listener takes that of
  the change.
* `MonitoringProofs`: `FiltersAreInclusive`, and `ReadersOnlyRead`: every
  behaviour of `Monitoring` is one of `AuditTrail`, so the theorems about the
  trail hold whoever reads it.
* `PagingProofs`: `Invariance` of the whole `IInv` of `Monitoring`, and
  `WalksAreComplete`, that a walk to the last page misses nothing
  (`CompleteWalksMissNothing`), for pages of any size and any number of changes.

`Monitoring!IInv` has two halves. `Core` is what is known of the trail,
and the types of what the reader has. `WalkInv` is about the
reader: a row that is still due, unless it is tied with another, has at least
as many newer rows as the pages passed so far hold. An insert can only add newer
rows. A page that was cut in an order by time shows each untied row with fewer
newer rows than it reaches, so what it does not show is further down
(`Rank` and `OnThePageOrBelow`, from the cardinality of the rows before a
position); that a row keeps its time while it sinks needs `TrailTellsTheOrder`,
by which a change has one event.
And the last page reaches further than the number of rows there are, which is
more than any row has newer ones. The run `monitoring` checks this invariant
before the proof uses it.

### What the documents promise, and what would have to be held

Five of the sentences that TLC refutes are true under conditions that the code
does not establish. Each is proved under one that names the row that must not
move, between two awaits; so these theorems say what a lock or a transaction
would have to cover, and that it would be enough.

| sentence | refuted by | theorem | condition |
|---|---|---|---|
| README.md:234, only sequential transitions | `orders_regress` | `SequentialWithoutOverlap`, `StrictWithoutOverlap` (the whole strict lifecycle) | `NoOverlap`: of the requests that have loaded an order and not yet saved, no two are for one order |
| README.md:235, AGENDADA requires a confirmed schedule | `orders_agendada` | `AgendadaWithHeldSchedule` | `NoOverlap`, and `ScheduleHeld`: the schedule stays as it is from its check to the save |
| customer.entity.ts:33, only transports on the list | `orders_unauthorized` | `CreatedWithHeldList` | `ListHeld`: the list stays as it is from its check to the insert; requests may overlap |
| scheduling.service.ts:54, a reschedule returns to PENDING | `scheduling_pending` | `RescheduleAlone` | `NoOverlap` of `SchedulingProofs`, from findOne to the save, for one order |
| docs/API.md:75, PUT replaces the list | `customers_replace` | `PutAlone` | `NoOverlap` of `CustomersProofs`, from findOne to the save, for one customer |

There is no such theorem for the durable audit: no condition on the schedule of
requests makes it true, only another registration of the listener or an outbox.

`StrictOneAtATime` has no condition beyond a single request slot. Under `NoOverlap` more
is true than the documents say: a save changes what its request was about and
no other column (`NoLostUpdates`), the status of an order tells its whole history
(`StatusTellsHistory`), every stored window starts before it ends
(`WindowsAlone`), and a transport that was revoked comes back only by a PUT
that names it (`RevokedStaysRevoked`).

The argument is the same three times, and has a lemma of its own in each module
(`CopiesAreFresh`): the invariants of section 3 speak of copies that were once
the row; under `NoOverlap` it is inductive that the copy *is* the row, until its
request has saved. `NoOverlap` is assumed of every state of a behaviour, so it is
a condition on the schedule of requests and not on what they do, and a queue for
each row would satisfy it. It leaves all else free: requests for other rows,
creates, the checks before the load, audit and answers, failures and crashes,
the other services.

### What is only model-checked

`EventsSettle`, since liveness is out of the prover's reach. Every other property
that a passing run checks is a theorem. The six violations are counterexamples
of TLC.

## 5. What is left out

* Quantities of order lines, names, e-mails, descriptions: no other step reads
  them. An order's items are the set of item ids.
* Wording of answers, and outside `Auth` and `Catalog` their status: a refused
  request ends, whatever its code. The bodies that the exception filter builds
  are formatting.
* Passwords (a login has the right one or not), signatures (a token is its
  payload), the secret and its configuration.
* Plain reads without a decision in them: `findAll` of customers, transport
  types and items, `GET` of one order, schedule, customer, item, `/auth/me`.
* The filters of orders by customer and by transport type, which work as the
  one by status; `updated_at`.
* The forms of ISO dates other than `YYYY-MM-DD`: a day is a number. What
  `slice(0, 10)` makes of a week date is a matter of one pure call.
* TypeORM may leave out the query that counts when the rows of a page tell the
  total; the model always runs it, later than the page, and so has more
  interleavings than the program.
* The events of schedules and transports in `AuditTrail`: emitted and recorded
  as those of a status; what they say is checked in `Scheduling` and
  `SalesOrders`.
* Environment validation, health, Swagger, logging and module wiring: no state,
  or pure I/O.
* PostgreSQL and TypeORM are modelled from how the code uses them: a `save` as
  described in section 1, constraints that refuse a row, transactions that are
  atomic, `now()` the start of a transaction. Such definitions are marked
  external in the map.

## 6. Plan

The plan of the first stage is carried out: sales orders, scheduling, customers,
their composition, catalogue and guards, audit trail and listings, and a proof
of every safety property. What could follow:

1. The conditions of section 4 are sufficient. That each is also necessary, in the
   sense that a weaker one lets a run of section 3 find its violation again, could
   be shown by a run for each of them.
2. Several processes of the service over one database. They interleave where
   one process does, so `Crash` would have to end the requests of one process
   only; every other action stays as it is.
3. Should the service get an outbox, as ADR 0003 suggests, what it would have to
   implement is `AuditLedger` without `Lose` and `Stop`.

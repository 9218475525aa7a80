# TLA+ models of the network monitoring map API

The repository is a NestJS REST API over MongoDB (with RabbitMQ, InfluxDB, SNMP
and the Ubersmith ticket system beside it) that keeps the documents of a network
monitoring map: maps, the devices placed in them, the links between devices, the
alerts on devices, and the log of every status change. This directory holds the
TLA+ modules that model it, the TLC configurations that check them and the
proofs that TLAPS checks.

All paths below are relative to `src/src/`.

## 1. Inventory

| Component | State it keeps | Operations | What makes it correct |
|---|---|---|---|
| DevicesService (`devices/devices.service.ts`) | device documents; the `Devices` array and `AmountDevices` counter of the map documents | create (insert or reactivate), update, remove, each a MongoDB transaction of several awaits; read queries | device and maps agree whatever fails or interleaves; the counter counts the array; timestamps follow the status; every request ends and releases its documents |
| its listener (`handledeviceStatusIcmpChangedEvent`) | EventLog documents | on DEVICE_STATUS_ICMP_CHANGED: read the last log, write the next | the logs of a device are a chain of real changes, in order, with their durations; the newest agrees with the device |
| MapasService (`mapas/mapas.service.ts`) | map documents | create (insert or reactivate, a transaction), update, remove, add and remove classifications | inner maps and classifications were active when attached; the submap count is that of the list of inner maps, or zero; only a create brings a removed map back; tickets stay listed |
| EnlacesService (`enlaces/enlaces.service.ts`) | link documents and their destination documents | create, update, remove (transactions); a hook on updateOne that stamps status changes; SNMP subtree walks | the active destinations are those active links refer to; the stamp follows the status; a walk's promise settles once |
| AlertsService (`alerts/alerts.service.ts`) | alert documents, their EventLog documents | create, update, remove, without transactions; listener of ALERT_IS_ACTIVE_CHANGED | the log follows isActiveAlert; devices existed; a removed alert stays removed |
| ChannelsService, LabelsService | channel and label documents | create, update, remove (hard) | references of alerts; labels belong to an active map |
| ClasificationsService | documents with soft delete | create (insert or reactivate), update, remove | attached to maps only while active |
| UsersService | user documents with soft delete | create (insert or reactivate), update, remove | one document per email |
| AuthService, JwtStrategy | none (reads users) | login, validate | only active users |
| RabbitmqService (`common/rabbitmq.service.ts`) | the map of subscribed queues, the channel's setups and consumers | subscribe, unsubscribe, publish, reconnect | one consumer per subscribed queue; a message is acknowledged after its handler; what waits in a subscribed queue is handled, unless a refused setup leaves the queue without a consumer |
| InfluxService (`influx/influx.service.ts`) | none | choice of the aggregation window, query | the window is not longer than the range |
| UbersmithService | none (external tickets) | forwards requests; closes lists of tickets | partial failure is visible |
| EventLogsService | none | read queries | (read only) |
| CommonService | none | handleExceptions | always throws |

How they interact. A controller calls its service; a service calls another one's
`findById` (DevicesService asks MapasService for an active map) or writes another
one's documents (DevicesService updates map documents). DevicesService and
AlertsService emit events whose listeners run after the request has been
answered. Everything else meets in MongoDB: the services use a session for the
writes of a transaction and read outside it, so a handler decides on documents
that another request may have changed since.

What is hard. Every handler is a sequence of awaits in one Node process, and any
other handler may run between two of them; transactions conflict and fail
instead of waiting; `handleExceptions` throws before `abortTransaction`, so
`endSession` is what aborts; every field of an update may be null, because a
`PartialType` makes it optional and `IsOptional` lets null pass; listeners are
not awaited; the server may stop between a commit and the event it should have
emitted; connections to the broker and to routers end at any moment. The full
list, each at its line, is `hazards` in `PROJECT.json`.

## 2. Plan

Done, in this order:

1. `MongoTxn`, `Devices`, `MapRoster`, `DevicesRoster`, `DeviceLog` and
   `DevicesProofs`: the core of the system, its maps and their devices.
2. `Enlaces` (on `MongoTxn`) and `EnlacesProofs`: links and their destinations.
3. `Alerts`: alerts, channels and the alert listener.
4. `Mapas` (on `MongoTxn`): maps, their inner maps, classifications, tickets and
   labels. It discharges what `Devices` assumes of maps.
5. `Rabbitmq`: subscriptions, reconnections, acknowledgements. `SnmpWalk`: the
   walks of one query and its promise. `TrafficWindow`: the window of a traffic
   query, with its proofs.

6. `SnmpWalkProofs`, `RabbitmqProofs`, `MapasProofs`, `AlertsProofs`,
   `DeviceLogProofs` and the stamps of devices and links: every invariant and
   every action property the runs check is a theorem for any number of
   everything.

Left:

7. An abstract specification of links (each active link has one set of active
   destinations), implemented with one request at a time on a link.

## 3. Modules

**MongoTxn** is the part of MongoDB the handlers rely on, modelled from its use:
a transaction is the set of documents it has written (`writes`) and the set of
documents somebody committed since its snapshot (`missed`). A transactional write
to a document another transaction holds, or that was committed since the
snapshot, is a write conflict and fails; a write outside a transaction waits. It
is external code and all its definitions are marked so. Reads are not in it
because the handlers read without their session: a read returns the last
committed document.

**Devices** models create, update and remove of DevicesService. `Req` is a set
of request slots; `req[r]` holds where the handler is and its local variables:

| `req[r]` | in the code |
|---|---|
| `pc` | `find`: before the first read; `work`: the transaction; `after`: committed, before the answer; `logging`: answered, the event's listener running |
| `op` | the handler; `create` becomes `insert` or `reactivate` when it has looked for an inactive device of that ip |
| `seen` | the document `findOne` / `findById` returned |
| `stamp` | the `Date.now()` the handler took |
| `pulled`, `pushed` | the maps whose `$pull`/`$inc -1` and `$push`/`$inc +1` the open transaction has sent |
| `looked` | the map `mapasService.findById` returned and that is not pushed yet |

`device` and `mapa` are the committed documents; what a transaction wrote becomes
visible at `Commit`, where the updates are applied to the documents as they are
then (nobody else can have written them since: that is what a conflict is).
`device[d].state` is absent, active or inactive (`isActive`); a map's `Devices`
is the number of times the array holds each device, because two `$push` may put
it there twice while one `$pull` removes every copy.

One action per await: `Begin` (the controller), `Find`, `PullFromMap`,
`LookUpMap`, `PushToMap`, `WriteDevice`, `Commit`, then `Emit` or `Respond`.
`Refuse` is every way a call is answered with an exception (no such device, no
such active map, duplicate ip, write conflict), `DbError` any other failure,
`Restart` a new process. `MapasWrite` is what MapasService may do to a map in
between. The order in which a handler visits the maps of an array is left open:
the runs cover every order. A read that decides nothing (the
`_mapaModel.findById` before a `$pull`: maps are never deleted) is part of the
write that follows it. The fields no condition reads (name, position, type,
SNMP and ping settings, tickets) are left out.

Which ip a device has is left open: an update may change it, so a create may find
any inactive device, and a write that carries an ip may meet another device's
(`MayRepeatIp`), which the unique index refuses. `Nulls` are the fields an update
may set to null. A null `StatusIcmp` is stored with no stamp and no event. A null
`MapUUID` takes the path of a body without one and is stored (`NullMaps`): the
device stays in the maps that listed it, and a handler that has to go through its
maps afterwards throws (`Usable`).

**MapRoster** is the abstract specification: a set of maps for each device,
changed for one device at a time, and a counter for each map.
**DevicesRoster** is the refinement mapping, read off the map documents alone.

**DeviceLog** extends Devices with the listener: `HandlerFind` (read the last
log, maybe stop), `HandlerCreate` (write the next one), `HandlerFail`. A log's
`Time` is kept as the number of milliseconds, with its sign; the code writes it
as hours, minutes, seconds and milliseconds. The history variable `unlogged`
holds the devices whose last change of status will have no log: the event was
lost with an error or a restart, or there is none (`Silent`): an update set the
status to null, or `remove` took down a device that was not up (*verified*, or
null), for which it neither stamps nor emits. The next change that is logged
takes the device out again. `StatusTransition` requires both of its ends, so a
log from or to a null status is not valid and its listener fails (`NotValid`).

**Enlaces** models create, update and remove of EnlacesService in the same way:
`req[r]` is a slot with its program counter and the handler's local variables
(`old`, the destinations of the link `findById` returned, when the handler needs
them; `new`, those `insertMany` stored; `stamp`, what the hook put in the
update). One action per await:

| Action | create | update | remove |
|---|---|---|---|
| `Find` | | `findById` | `findById` |
| `Retire` | | `updateMany` isActive false, if there were destinations | the same, last |
| `Pull` | | `$pull` of their references | `$pullAll` |
| `Insert` | `insertMany` | `insertMany`, if the body brings destinations | |
| `Hook` | | the `pre('updateOne')` hook's own read | |
| `Write` | `create` of the link | `updateOne` with `$set` | `updateOne` isActive false |
| `Commit` | all three | | |

The hook is a step of its own because it awaits a read that is in no
transaction, between the handler's call and the write. The hook also runs before
`$pull` and before the `updateOne` of `remove`, where it returns at once: those
bring no `lastStatus`. `findById` after the commit only answers. The ids of
destinations are taken from the set `DestinationEnlace`; nothing uses an id
twice, and a request begins only while there are ids left for it
(`WithinBounds`). `Nulls` are the fields a client may set to null. A null list
of destinations takes the path of a body without one: nothing is retired, the
null is stored (`NullEnds`), and the link can no longer be given destinations
(its list has no length) nor removed (`$pullAll` of null is refused); the
history variable `forgotten` holds the destinations that were in it. A null
`lastStatus` is stored, and the hook leaves at it. Whether the link's own
`MapUUID`, which `$pullAll` of `remove` names too, is null is left open: that
call may be refused at any time. Devices, interfaces, maps and drawing of a link
are left out: nothing decides on them. An `updateOne` of mongoose sets
`updatedAt`, so even one that changes nothing else writes its document and can
conflict.

**Alerts** models create, update and remove of AlertsService and its listener.
There are no transactions here: every await stands alone, and a write selects
the alert by its id. `req[r].pc` is the await ahead (`find`, `devices` for
`validateDevices`, `channels` for `validateChannels`, `write`, `emit`,
`logging`); validations of nothing are skipped, as in the code, and null devices
or channels are nothing. A null `isActiveAlert` is stored by an update and
refused by the schema in a create (`PassesSchema`); the listener, which writes
*up* or *down*, takes it for down (`StatusString`). `current` is the
`isActiveAlert` of the alert update read first, which is compared with what
`findByIdAndUpdate` returned; when the alert was removed meanwhile, that is
`null`, and the event names no alert. `event` and `found` are the payload and
the log of the listener. Devices change by themselves (`DeviceChanges`, what
DevicesService may do); channels are created and removed by ChannelsService. The
history variables: `seen`, the devices active at some time of a request;
`raced`, the alerts of which two requests overlapped (listeners included);
`lost`, those whose last change was lost to a failure.

**Mapas** models the five handlers of MapasService, those of LabelsService that
look at maps, and the life cycle of classifications. A map stands for its unique
name. `create` is a transaction of one write (`insert` or `reactivate`); the
other handlers write by `_id` alone and wait for a transaction that holds the
document. The fields kept are the ones conditions or counts read: `state`,
`mapsInternal`, `amountSubmaps`, `classifications`, `ubersmithTicketId` and
`listTicketsUbersmith`. The order of validations and lookups is the code's: a
create validates its inner maps before it looks for the name, an update after.
An update stores a null list as it is (`NullList`): null inner maps leave
`amountSubmaps` alone, and null classifications, which only a create can bring,
make the two endpoints for classifications fail (`CanClassify`). A label's
update without a map, or with a null one, looks for none, and stores the null.
The history variable `seen` holds the documents active at some time of each
request. Its property `MapLifeCycle` is what `Devices` takes for granted of maps
in its step `MapasWrite`: one map at a time changes its state, none is deleted,
and only a create brings a removed one back.

**Rabbitmq** models RabbitmqService over the channel wrapper of
amqp-connection-manager and a broker, both external. The service's part is
`connectionReady`, `subscribedQueues` (the keys of its map), the subscribe calls
that wait for the connection, and the handlers at work. The wrapper keeps
`setups` and runs them on every new channel (`AssertQueue`, `Consume`); it sends
and resends what is published until it is confirmed. The promises of a setup are
settled one way or the other: `SetupRefused` is a refused `assertQueue` or
`consume`, upon which the broker closes the channel. The `catch` of
`setupQueueConsumer` swallows it, so every queue stays subscribed with no
consumer until the wrapper connects again (`refused`): it opens a channel for
each connection, not for one that was closed. `ConsumerCancelled` is the null
message of a consumer the broker takes away, which the callback ignores;
`cancelled` counts them. `Deaf` is a queue in one of these two states.
`Disconnect` takes the consumers and puts what was not acknowledged back in the
queue, while handlers go on: `LateHandlerEnds` is one whose channel has closed,
whose `ack` throws, as does the `nack` in its `catch`, which ends the process.
`Restart` is any other end of the process. The history variables: `unsubscribed`
counts the `unsubscribeFromQueue` calls, `routed` the messages that reached a
queue, `ended` those of which a handler ended.

**SnmpWalk** models one call of `snmpQuerySubtree`: the walks run at once,
`Feed` is an answer (some varbinds may be errors, which the callback skips),
`WalkEnds` the end callback, which counts a failed walk like any other, and
`SessionError` the session's error event, which rejects the promise and leaves
the session to the walks. `unread` is history: the rows that came as errors.

**TrafficWindow** defines the window InfluxService chooses for a range, in
minutes, and proves what holds of it. It has no state and no run.

**DevicesProofs**, **DeviceLogProofs** (on DevicesProofs), **EnlacesProofs**,
**AlertsProofs**, **MapasProofs**, **RabbitmqProofs** and **SnmpWalkProofs** hold
the proofs about the module they are named for. The **MC** modules give the
constants their values for TLC.

## 4. Runs

| Run | Instance | States | What it shows |
|---|---|---|---|
| `devices_serial` | 2 requests, 2 devices, 2 maps, faults, null `MapUUID`, one request at a time per device | 1,626,901 | the maps list exactly the active devices, save those whose `MapUUID` is null, and count what they list; every change of a map is the placing of one device |
| `devices_overlap` | 2 requests on 1 device and 1 map, faults, null `MapUUID`, fair | 399,342 | what is left when requests on one device overlap: an active device is never missing from its maps, no error path leaks a transaction, and every request ends |
| `devices_counter` | 2 overlapping requests | violation | a counter goes down although the array lost nothing |
| `log_chain` | 1 request, 3 statuses and null, clock to 5, faults | 1,418,409 | timestamps move forward and only with the status; the newest log agrees with the device unless its last change had no event or lost it; logs are a chain of real changes, even when events are lost |
| `log_unchanged` | 2 requests, one at a time per device | violation | racing listeners write a log without a change |
| `links_serial` | 2 requests, 2 links, 3 destinations, up to 2 in a body, status up, null or none, null lists, clock to 4, faults, one request at a time per link | 1,820,148 | no destination is left active that no active link refers to, save those of a list set to null, links never share one, and a link's stamp moves exactly when its status takes another value that is not null |
| `links_overlap` | 2 requests, 1 link, 3 destinations, null lists, faults, fair | 227,734 | an active link never refers to a retired destination, whatever overlaps; every request ends, although update and remove take documents in opposite orders |
| `alerts` | 2 requests, 1 alert, 2 devices, 1 channel, null `isActiveAlert`, clock to 4, faults | 4,569,207 | whatever overlaps, an alert takes only devices that were active while its request ran and is never brought back once removed; without overlap its log is a chain that follows it, through lost events |
| `mapas` | 2 requests, 2 maps, 1 classification, 1 label, 1 ticket, null lists, faults | 3,862,526 | whatever overlaps, what is attached to a map was active meanwhile, classifications change only through their endpoints, only a create brings a map back, tickets stay listed, the count of a map with a list is that of the list or zero |
| `mapas_submaps` | the same, without nulls and tickets | violation | a reactivation without inner maps keeps the old ones and counts none |
| `rabbit` | 1 queue, 2 messages, 3 calls, 1 lost connection or restart, 2 refused setups or cancelled consumers, fair | 133,199 | one consumer for a subscribed queue, and one more for each time it was unsubscribed, less those cancelled; a confirmed message is never lost; messages of a subscribed queue are handled, unless from some time on it is deaf |
| `snmp_walk` | 3 columns of up to 2 rows, fair | 101,306 | a resolved table misses nothing the router said; no walk outlives the session or the answer; every query is answered and closes its session |

`Overlap` separates the two halves of the story. The client (a map editor) can
send two requests about one device at once and nothing in the server orders
them: with `Overlap = TRUE` the counters drift and the array may hold a device
twice, because the handlers decide on documents read outside their transaction.
With `Overlap = FALSE` (requests on *different* devices still interleave freely)
the two sides agree exactly, except for a device whose `MapUUID` was set to
null, which no longer says where it is. `LogFollowsStatus` and `LogChain` use
one slot, which also makes a request wait for the listener of the one before;
two slots are enough to break the comment that nothing is logged when the status
has not changed (`log_unchanged`), by two listeners that read the same last log.
A listener that comes late behind a newer one may also log a negative `Time`,
for the same reason.

For the links the same switch tells the same story: with overlapping requests
active links stay sound (`EndsAreActive`), but an update that read the link
before another one committed leaves the other's destinations active with no
link, and the hook's comparison can be stale, so that a status changes without a
stamp. With one request at a time neither happens, errors and restarts leave
nothing behind, and only an update with a null list does (`NoOrphanEnds`,
`LinkStampFollowsStatus`).

Alerts and maps need no such switch. Their requests overlap freely in the runs:
the properties either hold of every interleaving or leave out the alerts whose
requests did overlap (`raced`). Of those the log can miss a change or repeat one,
because update compares two readings made at different times.

The three violations, each a comment of the code that its own handlers break, are
the `findings` of `PROJECT.json`.

### Bounds, and why they are enough

* Two requests: a transaction conflicts with another one, and every anomaly the
  handlers can have is already between two. Two maps: a device moves from one to
  the other, keeps one of two, and two transactions can take the maps in opposite
  orders. Two devices: one map shared by two independent requests. The proofs
  cover any number of each.
* `MaxCopies` stops *beginning* requests on a device that a map lists more often
  (or whose counter has drifted further) than that. With `Overlap = FALSE` it
  never binds; with `Overlap = TRUE` 1 lets a device be listed more than once.
* `MaxClock` and `ClockStep`: the clock moves at each request, so two requests
  one after the other have different times (in the code, a millisecond apart);
  4 or 5 requests are enough for insert, change, remove, reactivate and remove
  again with a restart in between. With `ClockStep = 0` the clock is off, in the
  runs whose properties do not read it.
* `DestinationEnlace` bounds how many destinations a behaviour ever inserts: 3 let a
  link be created and updated, or removed while another link or request inserts its
  own. `MaxEnds = 2` gives a body with none, one or several; with 1, in
  `links_overlap`, three requests insert. In `links_serial` a body brings the status
  up, a null or none at all, which is enough for a change, a repetition, a change
  back, and a body that leaves the status alone.
* `Body` in `MCAlerts` and `MCMapas`: what clients send, a body for each field
  and those that combine fields a handler reads together, with the nulls that
  validation lets through. In `MCMapas` one map is filled by the clients and the
  other one is its inner map and has the label, so both change state under the
  requests that refer to them.
* `MaxCalls`, `MaxDrops` and `MaxRefusals` in `rabbit`: three calls of a queue
  are two subscriptions at once, or subscribe, unsubscribe and subscribe again;
  one lost connection comes while a setup runs, while a handler does, or after a
  refusal; two refusals are a refused setup and, on the channel that follows,
  another one or a cancelled consumer. Two messages: one with a handler and one
  in the queue. The safety properties are proved for any bounds.
  `EveryMessageHandled` assumes that refusals and lost connections end at some
  time: a broker that refuses for ever leaves the queue without a consumer again
  and again.
* `Oid` and `Row` in `snmp_walk`: three walks of the six, because the callbacks
  tell them apart only as the first, the last and one in between; two rows, so
  that an answer may bring part of a column. `MaxRepetitions` 2 of the library's 20.
* Symmetry (interchangeable slots, devices, maps, links, destinations) is used
  in safety runs only.

Deadlock checking is on, except in `rabbit` and `snmp_walk`, which really may
stop: a query is over once answered, and with the calls and failures of its
bounds used up a broker whose messages are handled has nothing left to do.

### Fairness

`Fairness` is weak fairness of each request's own steps: Node runs every callback
it has queued, MongoDB answers every call, and a write that conflicts fails at
once instead of waiting. Nothing makes a client send a request, a map change or
the server restart. `EveryRequestEnds` under it says that conflicting
transactions never wait for one another; its mutant, in which a conflicting write
waits, has an update holding a map and waiting for the device while a
reactivation holds the device and waits for the map: the two handlers write them
in opposite orders, so one map is enough for it. (Two updates can also take two
maps in opposite orders; that instance is in `devices_serial`, for safety only.)
`EveryLinkRequestEnds` says the same of links, where update and remove take a
link and its destinations in opposite orders.

In `Rabbitmq` the connection manager tries to connect again and again, the
promises of `assertQueue` and `consume` are settled, kept or rejected
(`AssertSettled`, `ConsumeSettled`), publications are sent and confirmed while
there is a channel, the broker delivers what waits for a consumer, and every
handler ends. Once a setup was refused nothing makes the connection fail, so the
queue may stay deaf for ever: the last disjunct of `EveryMessageHandled`.
Nothing makes a client call or a connection fail; `EveryMessageHandled` ends
early when the process does, because nothing in the service subscribes again by
itself. In `SnmpWalk` net-snmp resends a request and gives up after its timeout,
so every walk goes on to its next answer or ends; which of the two is not
promised.

## 5. Proofs

TLAPS checks that every invariant and every action property of the passing runs
holds for any sets of requests and documents, and for any bound. What is assumed
is one named assumption on the constants in each module, which TLC evaluates on
the instances of the runs:

| Module | Assumption | Hypotheses some of its theorems add |
|---|---|---|
| Devices | `DevicesAssumption`: finitely many devices, that are no maps, the statuses of the code, the two fields that may be null, bounds are numbers | `~Overlap`; `ClockStep > 0` for the stamps |
| DeviceLog | that of Devices | `OneSlot`, `~Overlap`, `ClockStep > 0` for the two properties of the log |
| Enlaces | `EnlacesAssumption`: a status is not the mark of none or of null, the two fields that may be null, bounds are numbers, no link is a destination | `~Overlap`; `ClockStep > 0` for the stamps |
| Alerts | `AlertsAssumption`: bodies have their types, `NoAlert` is no alert | none |
| Mapas | `MapasAssumption`: bodies have their types, finitely many maps, the kinds of document are disjoint and none is the null | none |
| Rabbitmq | `RabbitmqAssumption`: a message has a queue, bounds are numbers | none |
| SnmpWalk | `SnmpAssumption`: finitely many columns, at least one, and rows | none |

`~Overlap` is one request at a time on a document, and requests on different ones
interleave freely. `OneSlot` says that there is one slot: a request also waits
for the listener of the one before, as in the run `log_chain`; without it both
properties of the log are false (`log_unchanged`). `ClockStep > 0` says the clock
moves at each request; the runs that check stamps have it too.

An action property is written as `[][StepFormula]_vars`, with the step formula a
definition of its own: its theorem proves `Inv /\ [Next]_vars => [StepFormula]_vars`
from the inductive invariant `Inv` of the module.

**Devices** (`DevicesProofs.tla`):

* `TypeCorrect`: `Spec => []TypeOK`. TypeOK is not inductive: a step writes the
  document `req[r].dev`, so a busy slot must have one, and what is stored depends
  on the body its operation takes. `TypeInv` adds these facts (`RequestOK`).
* `ActiveDevicesAreListed`, `TransactionsEnd`: for any overlap. Beside the types
  both are inductive. Only a commit changes what documents hold, and what a
  commit has pushed is exactly what it stores in `MapUUID`; an update without
  maps keeps `MapUUID`, or makes it null, and has pulled nothing.
* `MembershipIsExact`, `AmountIsExact`: with `~Overlap`. Membership is not
  inductive: a commit applies what the handler decided from the document it
  read. The strengthening `SerialInv` adds that no two requests in flight are
  about the same device (`OneInFlight`), that therefore the document a request
  read is still the committed one (`SeenIsCurrent`), and that the maps named
  anywhere are stored (`MapsStored`), so that none is passed over. A null
  `MapUUID` is only that of an active device (`NullMapsActive`), because nothing
  can remove the device then: so a create never starts from one. Then what was
  pulled is every map that listed the device, and what was pushed every map it
  names from now on.
* `RosterIsImplemented`: with `~Overlap`, every step of Devices is a step of
  MapRoster or leaves placed and counted alone; a commit is
  `Place(d, maps of d)`.
* `StampsFollowStatus`: with `~Overlap` and a moving clock. A stamp is a
  `Date.now()` taken after the document was read, and the commit stores it over
  the time the document has then. `ClockInv` says that the first is later: the
  document's time is before the clock of a request about to read it, and before
  the stamp of one that has (`SlotClock`). It also covers what `SeenIsCurrent`
  does not, that the document a reactivation found is still the committed one.

**DeviceLog** (`DeviceLogProofs.tla`):

* `LogIsDevices`: a step of DeviceLog is a step of Devices or leaves its variables
  alone, so the invariants above hold here without another proof.
* `LogTypeCorrect`: for any number of requests and listeners side by side.
* `LogsFollowStatus`, `LogsAreAChain`: with `OneSlot`. Neither is inductive: the
  listener writes what an event says, compares it with a log it read an await
  earlier, and an event may never come. `LogInv` follows a change from the
  commit to its log: all logs of the device are older than the change under way
  (`SlotLogs`), what the listener has read is still the newest log and differs
  from the event (`FoundIsNewest`), and for a device with no change under way,
  none lost and none silent the newest log has its status (`LastTells`, in
  `DeviceLogs`). Logs are in the order of their times (`LogsOrdered`), so the
  query for the newest by `changedAt` returns the one written last. A lost event
  leaves the status and the log apart but not the log itself in disorder: the
  chain survives because each log starts from the one found, whatever the device
  did in between.

**Enlaces** (`EnlacesProofs.tla`):

* `EnlacesTypeCorrect`: as above, a busy slot has a link.
* `EndsStayActive`: for any overlap. A commit retires the destinations its
  request read and refers to those it inserted, so `LinkInv` adds that what a
  request read belongs to no other link (`OldIsOwn`), that what it inserted is
  held by nobody else (`NewIsFresh`, from the ids in `writes`), that referenced
  ends are stored (`EndsStored`), that a create works alone on its link
  (`CreatesAlone`), and that a request which leaves the destinations alone has
  read none (`OldIsNeeded`), so that a null list retires nothing. It does not
  need the write conflicts: however stale what a request read is, the commit
  that retires it takes it from the only link that may refer to it.
* `NoOrphans`: with `~Overlap`. `SerialInv` adds that two requests in flight
  have different links (`OneEach`), that what a request read is still there when
  it commits (`SeenCurrent`), a list that has become null included, and that
  ends are inserted only by a request that will refer to them
  (`InsertsToRefer`).
* `LinkStampsFollowStatus`: with `~Overlap` and a moving clock. The hook
  compares with a document read in no transaction. `StampInv` says that what it
  decided still holds until the commit: there is no stamp when the body keeps
  the status or brings null, and one later than the link's when it does not
  (`SlotStamp`).

**Alerts** (`AlertsProofs.tla`), for any overlap: `AlertsInv`.

* `RemovedAlertsStay`, `AttachedDevicesWereActive`: they need what each slot has
  established so far (`SlotOK`): the devices its body names were all seen active
  once it is past `validateDevices`, and a create works on an alert not stored yet.
* `LogsFollowAlerts`, `LogsFormAChain`, `LogsHaveAlerts`: the properties leave out
  the alerts whose requests overlapped, and the invariant must show that the
  history variable misses none (`OverlapsAreNoted`). For the others `LogOK` says
  that the change on its way is the next one to log (`ChangeIsNext`): the alert
  read first is still the stored one, the event comes after every log, and what
  the listener has found is the last of them; and that with nothing on its way and
  nothing lost the last log agrees with the alert (`LastIsLogged`).

**Mapas** (`MapasProofs.tla`), for any overlap: `MapasInv`.

* `SlotOK` is the argument: what a handler has validated it has seen active
  (`ValidatedWereSeen`), what it found was stored and stays so
  (`FoundIsStored`), and a transaction holds one map, its own, and only before
  its commit (`HoldsItsMap`); two never hold the same (`OneWriter`). The map an
  insert is about is therefore absent at the commit, and `DocOK` says of the
  documents that an absent one is empty, that the ticket a map carries is listed
  and that the count of a map with a list is of that list or zero. A map with a
  null list keeps the count it had, of which nothing is said; the next list
  brings its own.
* From it `AttachedWereActive`, `EndpointsClassify`, `MapsLiveInOrder`,
  `TicketsAreKept`, `SubmapsAreCounted` and `TransactionsEnd`. `MapsLiveInOrder` is
  what the step `MapasWrite` of Devices takes for granted.

**Rabbitmq** (`RabbitmqProofs.tla`), for any number of queues, messages, calls,
refusals and lost connections: `RabbitInv`.

* `OneConsumer`: the subscribe calls that wait, the subscriptions and the
  unsubscriptions account for every setup (`SetupsOfSubscriptions`), and the
  setups of an open channel are those to assert, those to consume, its consumers
  and those cancelled (`SetupsOnChannel`): a refusal leaves no setup halfway
  because the channel goes with it.
* `MessagesAreKept`: a message in the queue or unacknowledged stays one of the
  two until a handler of it ends (`CopiesAreKept`); its copies are at most one
  more than the lost connections and refusals (`CopiesOfMessages`), so that the
  type of the state has no bound on the handlers left over from closed channels:
  there may be more of them than one for each lost connection, because a message
  resent is handled twice.

**SnmpWalk** (`SnmpWalkProofs.tla`), for any finite columns and rows: `WalkInv`.
The properties hold because the shared counter is exactly the number of walks that
have ended (`CounterIsExact`, a cardinality), so that the promise is resolved by
the last of them (`ResolvedByTheLast`), when the table holds all that was answered
(`TableHoldsAnswers`) and no walk is left to use the session
(`SessionOutlivesWalks`).

**TrafficWindow** has theorems about pure functions, from no assumption, for
every number of minutes, hours, days, weeks, months or years: `WindowFitsRange`
(the window is never longer than the range, also when the month has 28 days),
`FewPoints` (at most 1440 windows below 30 days), and `SecondsCountAsHours`,
where the first one stops: a unit the service does not know counts as hours.

Model-checked only: the liveness properties `EveryRequestEnds`,
`EveryLinkRequestEnds`, `EveryMessageHandled` and `EveryQueryEnds`, because neither
fairness nor ENABLED is in this prover's reach. The three properties of the runs
that expect a violation are false, and their counterexamples are TLC's.

The inductive invariants were checked by TLC on the instances of the runs before
they were proved.

## 6. Not modelled

* Read queries and their pagination, EventLogsService among them: they change
  nothing.
* The swagger and validation layers: the bodies the models send are those that
  pass validation, the nulls of optional fields included.
* Nulls in fields no condition reads, which are left out whatever their value, and
  in the `MapUUID` of a link, whose one effect, a refused removal, is left open.
* What an operator does to the broker by hand, such as deleting a queue with its
  messages: a confirmed message stays with the broker until it is handled.
* UsersService: create, reactivate, update and remove of one document at a time,
  written like ClasificationsService; no other document refers to a user.
  AuthService and JwtStrategy keep no state.
* UbersmithService keeps no state: it forwards each request to the ticket system,
  and closing a list of tickets is a loop of such requests, whose only state is
  the ticket system's.
* The query text and the answers of InfluxService, beside its window.
* `snmpQuerySubtreeSimple`, `sshConnection`, `processTxtToJson` and
  `sendToRabbitMQByMapUUID`, which nothing calls, and the scheduled Unimus and
  LibreNMS jobs, which are commented out. `subscribeToQueue`,
  `unsubscribeFromQueue` and `publishToQueue` of RabbitmqService have no caller
  in the repository either; they are the whole of an exported service, and are
  modelled (§3) as any caller may use them.
* Fields that no condition, count or other document depends on (names,
  positions, types, SNMP and ping settings).

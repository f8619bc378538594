# A TLA+ model of ocpp-cp-admin

ocpp-cp-admin is a central system (CSMS) for electric vehicle charge points: a
Node.js process with an Express API, a synchronous SQLite database
(better-sqlite3) and an `ocpp-rpc` WebSocket server that speaks OCPP 1.6 and
2.0.1. This directory holds TLA+ specifications of its protocol state, the TLC
configurations that check them on small instances, and TLAPS proofs of the
properties that matter most. Line references are to the repository (`src/...`).

## How the system runs, and what an action is

Node runs one handler at a time and the database calls are synchronous, so **a
handler, or the part of one between two `await`s, is one action**. What
interleaves is

- handshakes, frames and `close` events of several sockets of one identity;
- answers to the calls the server sends (`callClient`), and their timeouts
  (`callTimeoutSeconds`);
- timers: the offline grace period, the heartbeat watchdog (60 s), the
  reservation cleanup (60 s), the wait for NotifyReport (30 s);
- HTTP requests of administrators and managers, before and after each `await`;
- a crash or restart, after which only the database is left and
  `resetStateOnStartup` (database.js 2480-2515) puts it in order.

Charge points are the environment: they lose calls and answers, repeat calls,
give up, and send what they queued long after it happened.

## Inventory

| Component | State it keeps | Operations | What is hard | What makes it correct |
| --- | --- | --- | --- | --- |
| Connections (ocpp-common.js 189-617, 670-786) | `connectedClients`, `pendingOfflineNotifs`, `reconnectTracker`, the `chargepoints` row, `client._disconnectReason` | auth callback, `client` and `close` events, flapping, watchdog, `disconnectChargepoint`, routes that register, revoke, delete | `client.close()` is not awaited; late `close` of a replaced socket; timers that outlive what they were set for; rows that disappear while connected | one serving socket per identity; the row mirrors the map; a revoked charge point is on its way out; notices of presence are true |
| Transactions 1.6 (ocpp-server-16.js 755-1187, database.js 704-775) | `transactions` | StartTransaction, StopTransaction, MeterValues, StatusNotification(Available), disconnection, restart, deletion | lost and repeated calls, late Stop and MeterValues, recovery by guess when an id is unknown | one Active row per connector; a closed row never changes; the energy billed is the energy metered; an id names one session |
| Transactions 2.0.1 (ocpp-server-201.js 477-592, 696-1156) | `transactions`, `connectors.cnstatus` | TransactionEvent Started, Updated, Ended; StatusNotification | ids given by the station; connectors numbered per EVSE; two unordered sources of the status | as above, and a connector shows its transaction |
| Reservations (routes.js 1246-1362, ocpp-common.js 788-826, database.js 2343-2478) | `reservations` | POST, DELETE, cleanup, StatusNotification, Start/StopTransaction, ReservationStatusUpdate | ids chosen before an `await`; statuses overwritten after one; ids given again | live ids differ; what the manager was told stays live; a terminated reservation stays so |
| Initialization sequence and configuration (ocpp-server-16.js 213-440, ocpp-server-201.js 236-461, routes.js 1671-2072) | `chargepoint_config`, `chargepoint_variables`, `initialized`, `initSeqVersions`, the call queue of the client | the five steps, PUT and lock of a key, cascade, apply, reinitialize | several boots; a connection lost in the middle; three writers of one key | sequences do not mix; the table is what the charge point holds; an interrupted sequence does not count; every sequence ends; locked values are kept |
| Remote start/stop (routes.js 1424-1509, 2688-2895, ocpp-server-16.js 658-690, ocpp-server-201.js 501-535) | `pendingRemoteStarts` and its timers | RemoteStart, RemoteStop, Plug&Charge, StartTransaction | 60 s timers that are never cleared; entries deleted by the key of the connector whichever request is answered | an entry always has its timer and lets one session in; an accepted start is attributed to the request that caused it |
| Charging profiles (routes.js 904-1228, database.js 2275-2340) | `charging_profiles` | set, clear, delete, push-all; the clearing at boot; the change of protocol | list read before an `await`, several writers, calls lost or overtaken | profile ids differ; the table is what the charge point holds; nothing stays Pending; the boot spares managed profiles |
| Tag authorization (database.js 1563-1650, 1783-1820, ocpp-common.js 619-668) | `id_tags`, `user_sites`, `authRejectTracker` | `authorizeIdTag`, Authorize, routes of tags, of members and of sites, deletion of users and sites | a row of the site and one of all sites; columns set to NULL by a deletion; an equality on a count | the verdict is that of the row that counts; repeated rejections are told once |
| State refresh (ocpp-server-16.js 1264-1318) | a timer and a callback per connection | two TriggerMessage calls | timers of a connection that is gone | no call to a successor |
| Notifications (notifications.js, channels) | preferences, cooldown maps | `emit`, recipients, channels | debounce and cooldown timers | presence notices (modelled); the rest is selection and formatting |
| Server start and shutdown (server.js 55-67, 655-745) | - | reset, RemoteStop of all, close of the servers | charge points go on calling during the shutdown | the table after a restart |
| Administration, users, auth, sites (routes.js, auth.js) | their tables | CRUD | none beyond the above | - |
| Configuration file, validation, i18n, logging, metrics, migrator, backup, browser interface | files | pure or write-only | - | - |

## The modules

| Module | Models | Extends / uses |
| --- | --- | --- |
| `Presence` | the abstract specification of presence notices: a link is up or down, the last notice is true when told | - |
| `Connections` | the connections of all identities; implements `Presence` | INSTANCE `Presence` |
| `ConnectionsProofs` | inductive invariant, safety, refinement | `Connections`, TLAPS |
| `Ledger` | the abstract specification of the transactions table: rows opened once per place, closed once, never changed | - |
| `Transactions16` | transactions of 1.6 charge points; implements `Ledger` | INSTANCE `Ledger` |
| `Transactions16Proofs` | safety of the table, refinement, what rows show and bill was metered | `Transactions16`, TLAPS |
| `Transactions201` | transactions and connector statuses of a 2.0.1 station; implements `Ledger` | INSTANCE `Ledger` |
| `Transactions201Proofs` | type, one row per number, refinement, what is shown and billed | `Transactions201`, TLAPS |
| `Reservations` | reservations of one charge point in either protocol | - |
| `ReservationsProofs` | type, live ids, terminated rows, what is held and used | `Reservations`, TLAPS |
| `InitSequence` | boot sequences, administrators and the call queue of one charge point | - |
| `InitSequenceProofs` | type, order of the queue, table, mark | `InitSequence`, TLAPS |
| `ChargingProfiles` | charging profiles of one charge point, the requests that write them, the boot | - |
| `ChargingProfilesProofs` | type, profile ids, boot, table, what is Pending is queued | `ChargingProfiles`, TLAPS |
| `Authorization` | verdicts on one tag, what managers change about it, its rejections | - |
| `AuthorizationProofs` | type, verdict, notices | `Authorization`, TLAPS |
| `RemoteStart` | remote starts and stops on one connector, and the entries of `pendingRemoteStarts` | - |
| `RemoteStartProofs` | type, timers, entries | `RemoteStart`, TLAPS |
| `MC*` | the instances for TLC | the module they are named after |

Operators keep the names of the handlers, statements and columns they come
from (`StartTransaction`, `Orphans`, `connectedClients`, `isSuperseded` as
`Superseded`, ...). `PROJECT.json` maps every definition to its lines. An
operator whose comment begins with "Mutant:" is not part of the model: it is
the form that a plausible bug would give to the definition after it, used to
see that a property notices it.

### Connections

A client object is `idle` (unused), `open` or `closing`: `close()` only starts
the closing, and `CloseStale` / `CloseCurrent` are its `close` event with and
without the map entry (ocpp-common.js 529-532). `Session` holds what its
closures captured: identity, protocol, `cpId`, `_disconnectReason`. Connect is
the auth callback and the `client` event in one step; `ReplaceExisting`,
`AcceptedRow`, and the flapping rejection follow its branches. The Active
transactions of a row are abstracted to the set of protocols they were started
under. Heartbeats are `never`, `recent` or `late`; one tick of the watchdog is
one action per identity.

Left out: password and certificate checks, the IP rate limit, the comparison of
addresses for `duplicate_identity`, connectors and error events, the clearing of
profiles and `initialized` at a change of protocol. `announced` starts anew
with the server, as the timers do.

### Ledger

What the table promises to those who bill from it, without calls, sessions or
meters. A row is a status, a place and, once closed, a record; `Open` takes a free
id and closes what else is open at the place, `Close` closes rows with any record,
`Delete` takes all rows of its places. A place is a charge point and a connector in
1.6, a connector number in 2.0.1; the record is the whole closed row.

### Transactions16

The table is a function from ids to rows; a charge point has a session per
connector with the id it was given and a meter. `StartTransaction`,
`StopTransaction` and `MeterValues` are the whole handlers, with their fallbacks
for unknown ids; the answer of a StartTransaction may be lost, and every call
may be sent again. Ids are of one day; `start_time` order is the order of ids;
`charging_state`, connector columns, reservations and the start source are left
out. `KeepsMemory` says whether a charge point that was deleted comes back with
its sessions; the run and the theorems on energy take it FALSE.

### Transactions201

One station; connectors are pairs `<<EVSE, number>>` and, as in the code, rows
are looked up by the number alone. `Updated` and `Ended` carry the fallbacks of
the handler. Suspended states go the way of Charging; `Unavailable` stands for
Reserved and Faulted; the reasons the server gives itself are one value. Started
always names its EVSE and connector; with `OmitsEvse` an Updated may leave out both, or
the connector, and is then taken to be about connector 1 of the row's EVSE, or of the
one it names (ocpp-server-201.js 708-709, 891). `astray` and `misread` are history
variables, which no guard reads: the connectors that an Updated showed wrongly or passed
over, and the rows it gave another connector's energy. They are the exceptions of
`ActiveIsShown` and `EndedKeepsEnergy`, no wider than what the code gets wrong: a
connector is astray only until its next status. Left out: reservations, Plug&Charge.

### Reservations

A POST is a state of its manager, `sent` and then answered or timed out, and a
cancel or cleanup in flight is a pair of row and target status, since the code
overwrites the status after its `await` whatever it has become. The clock is
abstracted: the cleanup may list any Pending or Active row. ReserveNow may be
overtaken by the StatusNotification that follows it; a request that times out
may yet be carried out. Left out: the check of the tag, the cascade of a
deleted charge point. As in the code, a cancel takes a row in any status and
names it to the charge point by an id that may have been given again.

### InitSequence

`sequences[n]` is the sequence of the n-th boot: its step, the keys left, the values it
read, whether it awaits a call, and `disconnectedDuringInit`. The queue `calls` is the
one of the `ocpp-rpc` client, one call on its way at a time. `station` is what the
charge point holds; `doubt` are the keys whose last call was lost (nobody can know).
ClearCache and ClearChargingProfile are one step; a paginated or partial
GetConfiguration is any subset of the keys; the enabled initial value does not change;
RebootRequired counts as Accepted, as in the code. A lost connection fails every queued
call, and the model assumes of the library that it does so with one of the four messages
that `isDisconnectionError` knows (ocpp-server-16.js 194-202). `doubt` also takes every
key at a factory reset. PUT and cascade have at most one request outstanding each.

### ChargingProfiles

`profiles` is the table, `requests[m]` what a manager's request still has to do
after its `await`, `calls` the queue of the `ocpp-rpc` client, `held` the row that
each profile_id of the charge point came from. The handling of a call by the
charge point and the handler of its answer are one step, since nothing else reads
`held`. A slot stands for purpose, connector and stack level, which is what a
filter may name. `doubt` are the ids of which the table cannot know what the charge
point holds: their call was lost, timed out or interrupted by a restart, the
charge point was reset or spoke another protocol, or a deletion of the row
overtook the call that gave the profile. Left out: composite schedules, the
content of a schedule, the expiry of a profile.

### Authorization

One tag: `idTags` is its row of each site and of all sites, `userSites` the link of
each user to each site. `getIdTagByTag` and `authorizeIdTag` are operators, with the
early returns of the code in its order; `trackRepeatedAuthReject` counts what they
reject. The routes call the operators named after the functions of database.js.
Deletions act through the schema: the user of a tag becomes NULL, the rows of a
deleted site become rows of all sites. Left out: the roles of the managers, the log
of tag events, the branch `wrong_site`, which no row that `getIdTagByTag` returns
can reach.

### RemoteStart

One connector. `pending` is its entry in `pendingRemoteStarts`, by the number of the
request that made it; `timers` are the requests whose 60 s run, since nothing clears
them. `StartTransaction` takes the entry whatever tag it carries; `Started` of 2.0.1
takes its source from the trigger and leaves the entry. `waiting` and `session` are the
charge point: what it accepted, and what it charges. `entry` in a row is a history
variable. One stop is in the queue at a time, a bound that the routes do not have. The
verdict on a card is `cardAccepted`, which changes at any time (module `Authorization`
says how). Left out: the rows of the WEB-, ADMIN and MGR- tags, which no check reads,
the StopTransaction of a refused session, the connection (a call on a lost connection
fails like one that times out). The deletion at a change of protocol (ocpp-common.js
422) uses the identity as the key, which no entry has.

## What is checked

| Run | Instance | Shows |
| --- | --- | --- |
| `connections` | 1 identity, 2 client objects, flap threshold 2, unknown identities pending, 2 row ids, fair | `OneServingClient`, `RowMirrorsConnection`, `TransactionsMatchProtocol`, `RevokedIsClosing`, `OwnCloseOnly`, `Presence` as a refinement, and under fairness `UnresponsiveIsDropped`, `OfflineIsAnnounced`. Two sockets are a live one and the one it replaced, and each is used again; two row ids are a row and the one that replaces it. The safety properties are proved for any number of both |
| `tx16` | 1 charge point, 2 interchangeable connectors, 2 ids, meters to 2 | `OneActivePerConnector`, `StopKeepsEnergy`, `EnergyIsMetered`, `Ledger` as a refinement (`LedgerIsKept`) |
| `tx201` | 2 EVSEs with numbers 1 and 2, Updated events with and without evse, 2 transactions, meters to 1 | `OneActivePerNumber`, `ActiveIsShown`, `EndedKeepsEnergy`, `Ledger` as a refinement (`LedgerIsKept`) |
| `tx201_evse` | 2 EVSEs, both connectors numbered 1 | violated: `OrphansAreOnTheConnector` (finding 1) |
| `tx201_ended` | 2 EVSEs with numbers 1 and 2 | violated: `EndedClosesWhatIsOver` (finding 2) |
| `reservations` | 2 interchangeable connectors, 1 tag, 1 manager, 2 rows | `LiveIdsDiffer`, `HeldIsLive`, `UsedIsNotWithdrawn`, `TerminatedStays` |
| `init_sequence` | 1 key, 2 values, 2 boots, queue of 2, fair | `TableIsTheStations`, `SequencesDoNotMix`, `MarkedOverOneConnection`, `SequenceEnds` |
| `init_locks` | as above | violated: `LockedIsSent` (finding 3) |
| `charging_profiles` | 2 slots, 2 managers of whom 1 uses push-all, 2 rows, fair | `ProfileIdsDiffer`, `TableIsTheStations`, `BootSparesManaged`, `PendingIsDecided` |
| `authorization` | 2 sites, 1 user, 2 types, 5 rows that managers write, threshold 2 | `VerdictIsRight`, `RepeatsAreTold` |
| `remote_start` | 2 remote starts, 2 rows, both protocols, the three modes | `PendingHasTimer`, `EntryServesOnce` |
| `remote_start_marked` | 2 remote starts, 1 row | violated: `AcceptedStartIsMarked` (finding 4) |

Every module also has a type invariant. The bounds are named constants: they cap
counters that the code does not cap (`MaxRowId`, `MaxTxs`, `MaxMeter`,
`MaxRows`, `MaxBoots`, `MaxCalls`, `MaxRequests`), or choose what managers do
(`Pushers`, who use push-all; `Written`, the rows of a tag that they write:
in order, switched off, of another type, of the user with either). Two of each actor are enough for the
hazards: each is a race of an old and a new object, row, id or sequence. No
run shows more than its bounds; where it matters most the proofs do.

### Fairness

- `Connections!Fairness`: Node fires a timer that is set, the watchdog ticks for
  as long as the process lives, and a socket on which `close()` was called emits
  `close` (ocpp-rpc terminates it after its own timeout). Charge points,
  administrators and restarts are not fair.
- `InitSequence!Fairness`: a sequence that does not await anything goes on, the
  30 s wait for the report ends, and the first call of the queue is answered or
  times out (`callTimeoutMs`). Nothing is assumed of the charge point.
- `ChargingProfiles!Fairness`: the first call of the queue is answered or times out.
  Managers and charge points need not do anything, nor come back.

### Findings

1. `tx201_evse`: orphans are selected by connector number without the EVSE
   (ocpp-server-201.js 755): a Started closes another EVSE's transaction.
2. `tx201_ended`: the Ended of a refused session closes the latest Active
   transaction of the station (ocpp-server-201.js 1044).
3. `init_locks`: step 4 in 2.0.1 overwrites locked variables, on the charge
   point and in the table (ocpp-server-201.js 345).
4. `remote_start_marked`: the entry of a connector is deleted by its key
   (routes.js 2743, 2748): a second remote start that the charge point refuses, or
   the timer of an older one, takes the entry of the start that it accepted. Its
   StartTransaction is then taken for a card's, and in mode 1 its WEB- or MGR- tag is
   Blocked.

Seen while modelling, and stated here without a run: a charge point deleted while
connected gets an authorized row again from the `close` event of its own socket
(ocpp-common.js 535, database.js 443; README.md 905 says that charge points must be
registered); deleting a charge point frees its highest transaction ids of the day,
and the next start is given an id that a session may still carry (database.js 733);
the recovery of a StopTransaction with an unknown id skips the correction of
`meterStop` (ocpp-server-16.js 935); README.md promises that managed profiles are
applied again on reconnection, and only push-all does; a profile NotSupported, or
one that the charge point has forgotten, cannot be deleted, as its clearing is never
Accepted (routes.js 1218); a threshold of 1 never notifies (ocpp-common.js 636).

Properties that had to be limited say so in their comments: an Updated that names no
connector, or whose Started was lost, leaves connectors showing a stale status and rows
with another connector's energy (ocpp-server-201.js 709, 867, 891); two managers whose
requests overlap are given one reservation id; the 2.0.1 PUT stores refused values; the
2.0.1 sequence does not notice a connection lost while it waits for a report; rows
closed by the server itself forget their energy, which the tests assert.

## What is proved

The theorems hold for every value of the constants under the assumptions named in the
modules (`ConnectionsAssumption`, `TransactionsAssumption`, `Transactions201Assumption`,
`ReservationsAssumption`, `AuthorizationAssumption`, `RemoteStartAssumption`,
`ChargingProfilesAssumption`, `InitSequenceAssumption`). Some need more, which their
statements name: no overlapping requests of managers (`Reservations`), no overlapping
push-alls (`ChargingProfiles`), no sessions that outlive the deletion of their charge
point (`Transactions16`). TLC finds each of these theorems false without its condition;
the conditions hold in the runs.

`ConnectionsProofs`:

- `Invariance`: `Spec => []IInv`. `IInv` adds to the four safety invariants what
  makes them inductive: an entry of the map is a live client of that identity
  (`EntryIsLive`), a served client has an identity (`ServedHasIdentity`), row ids
  never exceed the counter nor come back (`RowIdsGrow`, without which a row
  inserted again could be taken for the one a closure captured), a grace timer is
  tracked, unique and belongs to an identity that is down and was told online
  (`TimerIsTracked`), and a connected identity was told online or its timeout
  (`ConnectedWasAnnounced`). One lemma per action; `RowFits` states what the row
  invariants say of one row, so that the lemmas of row updates are shared.
- `TypeCorrect`, `OneServing`, `RowsMirror`, `TransactionsMatch`, `RevokedCloses`: the
  safety invariants of the run, consequences of `IInv`.
- `OwnCloseTheorem`: `Spec => OwnCloseOnly`, from `IInv` in the first state of a step.
- `PresenceRefinement`: `Spec => Presence!Spec`: every action is a step of
  `Presence` or stutters; `TimerIsTracked` is what makes the expiry of a grace
  timer a `TellOffline`.

`Transactions16Proofs`:

- `TableSafe`: `Spec => [](TypeOK /\ OneActivePerConnector)`. The invariant is
  inductive: `StoppedRows` says what a list of closings leaves, and
  `StartTransaction` closes every Active row of its connector before it opens one.
- `TypeCorrect`: the first half of it.
- `LedgerRefinement`: `Spec => Ledger!Spec`. A step does one of three things to the
  rows (`OnlyCloses`, `Inserts`, `Drops`) or nothing, and each is a step of `Ledger`;
  `FreeIsFree` is what makes an unused id the ledger's `NoRow`.
- `EnergyIsAlwaysMetered`, `StopAlwaysKeepsEnergy`, under `~KeepsMemory`: `EInv` adds that a session began
  at a value its meter has reached (`SessionsWithinMeter`), that the id a session
  carries is that of a row it opened, at its own start (`OwnRows`), and that the
  start, the energy and the bill of every row fit its meter (`RowFits`). Without
  `OwnRows` the value `s.start` that a firmware sends as `meterStop` could be that of
  another session. A charge point that is deleted and comes back with its sessions
  (`KeepsMemory`) breaks `OwnRows`: the id it sends may be another row's by then.

`Transactions201Proofs`:

- `TypeCorrect`, `NumbersStayApart`: as for 1.6, with `SessionsHaveIds`, for any
  numbering of the connectors.
- `LedgerRefinement`: as for 1.6; the places of the ledger are connector numbers,
  whatever the EVSE (finding 1 says what that means).
- `ActiveIsAlwaysShown`, `EndedAlwaysKeepsEnergy`, for any numbering of the connectors
  and whatever Updated events leave out. `Tracked` adds to `IInv` that rows are of
  sessions that have begun (`RowsAreOfSessions`), that sessions have ids of their own
  (`SessionsApart`), that the row of a session is on its connector and, once written,
  the only Active one there (`OwnRows`), and that no row outside `misread` shows more
  than its meter has counted (`EnergyFits`). `OwnRows` is what makes the Finishing of an
  Ended harmless to a later transaction, and the meter value of an Ended that of its own
  row. `UpdatedIsOne` says that an Updated changes one Active row at most, its own or
  the one of a number; what it shows elsewhere than on that row's connector is `astray`.
  The exceptions are needed: without `astray` TLC finds `ActiveIsShown` false in five
  states (Started and Occupied, then an Updated without evse on connector 2), and
  without `misread` it finds `EndedKeepsEnergy` false once meters run to 2. No
  theorem says that the orphans a Started closes are those of its connector: it is
  false where numbers repeat (finding 1).

`AuthorizationProofs`:

- `VerdictIsAlwaysRight`: by `Decision`, which takes the early returns one by one, in
  the two cases of a site with and without a row of its own.
- `TypeCorrect`, `RepeatsAreAlwaysTold`: `TablesFit` and `CountsFit` are inductive;
  `CountsFit` says how many notices a count stands for, for a threshold of 1 too.

`RemoteStartProofs`:

- `TypeCorrect`, `PendingAlwaysHasTimer`, `EntryAlwaysServesOnce`. The strengthening
  is `EntriesFresh`: no row took the entry that waits, because entries are numbered
  by request, the numbers grow, and `StartTransaction` removes what it takes.

`InitSequenceProofs`:

- `TypeCorrect`, `SequencesNeverMix`: `IInv` says who has which call in the queue
  (`Queue`: nobody awaits two, only the first is answered, a lost connection leaves
  none), what a sequence may await at each step (`SequenceFits`), that later boots have
  not begun (`UnbornAreLater`) and that what is locked has a value. The queue changes in
  three ways, at its head, its tail, or all of it (`QueueAppend`, `QueueTail`, ...), and
  only the latest sequence may append.
- `TableIsAlwaysTheStations`: `Mirrors` says it for every key with the accepted calls
  that are still in the queue: at most one, the first.
- `MarkedAlwaysOverOneConnection`: `UncutIsSteady`, a sequence that was not cut has had
  one connection, is kept by every step.

`ChargingProfilesProofs`:

- `TypeCorrect`: `IInv` adds that every request has its call in the queue, and one only
  (`QueueFits`), and that the call is the one its request is about (`RequestCall`).
- `ProfileIdsAlwaysDiffer`, `BootAlwaysSparesManaged`: `Order` says that what a call
  assumed when it was asked still holds: a profile that is not yet there, for the
  clearing of the boot, a POST, a push-all or a DELETE of the same id, is sent by a
  request that stands behind it (`Precedes`, `Settles`).
- `TableIsAlwaysTheStations`, for at most one manager who uses push-all: `OwedIsFree` and
  `PushersPush` say what a push-all has cleared and not sent again. The two halves,
  `AcceptedIsHeld` and `HeldIsAccepted`, go through the steps of the queue. With two
  overlapping push-alls it is false: both clear, one sends a profile that is Accepted,
  the other sends it again and is refused (routes.js 1138), and the refusal is stored.
- `PendingIsAlwaysQueued`, for any push-alls: what `PendingIsDecided` rests on besides the
  fairness of the queue. `PendingIsAwaited` is inductive: a clear that takes a row out of
  doubt takes it from the charge point, and then the row goes or is owed (`ClearedIsOwed`);
  what is awaited when calls fail at once is unsettled (`AwaitedIsUnsettled`).

`ReservationsProofs`:

- `TypeCorrect`, `TerminatedAlwaysStays`: `IInv` adds that rows are created in order
  (`RowsInOrder`), that no id exceeds the number of rows ever created (`IdsBounded`)
  and that every request that waits finds room (`RoomForAll`). Every step but the one
  that creates a row takes each row to itself or to a status that it may move on to
  (`RowsMoveOn`).
- `LiveIdsAlwaysDiffer`, for one manager: `NextIdIsNew` says that the id a request
  reads is no live row's, and `WaitingIsNew` that it is still none's when the answer
  comes, for nobody else creates a row in between. Two managers do break it: both
  read the table before either is answered (routes.js 1264), which is why the run
  has a single one.
- `HeldIsAlwaysLive`, `UsedIsNeverWithdrawn`, for one manager: `Kept` follows the ids.
  Whoever holds one, holds it at one connector (`HeldFits`), where the request that was
  granted or the live row of that id says (`GrantIsAlone`, `HeldIsOfRow`), and not
  where it charges (`ChargingFits`). A step that neither grants nor creates lets go of
  an id before it ends its row, and withdraws no row in use whose id nobody holds
  (`KeptStep`, `EndsWell`): CancelReservation of a reservation in use finds nothing to
  cancel, and is not Accepted.

Only model-checked: the liveness properties `UnresponsiveIsDropped` and
`OfflineIsAnnounced` of `Connections`, `SequenceEnds` of `InitSequence` and
`PendingIsDecided` of `ChargingProfiles`, which are out of the prover's reach
(`PendingIsAlwaysQueued` is the safety half of the last). Every other property of a passing run is stated by a theorem.

## Not modelled

State refresh after a reconnection (a timer and two calls of one connection, which
write nothing themselves and fail when the connection was replaced), the selection
of recipients and the channels of notifications, the configuration file, passwords
and HTTP sessions, meter values outside transactions, the migrator, validation,
texts, logs, metrics, the backup script and the browser interface: stateless,
write-only or plain input and output.

## Plan

1. `Shutdown`: the order of server.js 668-745 with charge points that go on.
2. Compositions: `Transactions16` with `Connections` (closing by disconnection as
   an action of the connection), `Reservations` with the transactions that use
   them. Abstract specification: one sequence of initialization at a time.
3. Proofs: what the other liveness properties rest on, as `PendingIsAlwaysQueued` does
   for `PendingIsDecided` (a sequence that has not ended has a call in the queue or a
   step to take, an identity that is down a timer).

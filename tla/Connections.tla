----------------------------- MODULE Connections -----------------------------
(***************************************************************************)
(* The life of charge point connections in ocpp-common.js: the `client'    *)
(* event of the RPC server, the `close' event of each client, the offline  *)
(* grace timer, flapping detection, the heartbeat watchdog, forced         *)
(* disconnection, and the routes that register, revoke and delete charge   *)
(* points.                                                                 *)
(*                                                                         *)
(* Node runs one handler at a time, so a handler is one action.  What      *)
(* interleaves is: handshakes, frames and close events of several sockets  *)
(* of the same identity, the timers, and the admin's HTTP requests.  The   *)
(* promise returned by client.close() is not awaited: between the call and *)
(* the close event the client is "closing", refuses calls, and every other *)
(* handler may run.                                                        *)
(*                                                                         *)
(* A charge point row keeps the columns that the connection logic reads or *)
(* writes; the Active transactions of a row are abstracted to the set of   *)
(* protocols under which they were started.                                *)
(***************************************************************************)
EXTENDS Integers

CONSTANTS Identity,       \* charge point identities
          Client,         \* RPC server client objects, reused once closed
          NoClient,       \* no entry in connectedClients
          NoIdentity,     \* the identity of an unused client object
          FlapThreshold,  \* notifs.flapThreshold
          UnknownPolicy,  \* what the auth callback does with an unknown identity
          MaxRowId        \* bound: rows ever inserted (AUTOINCREMENT ids)

Version == {"1.6", "2.0.1"}
NoVersion == "null"

ASSUME ConnectionsAssumption ==
  /\ NoClient \notin Client
  /\ NoIdentity \notin Identity
  /\ FlapThreshold \in Nat \ {0}
  /\ UnknownPolicy \in {"autoAdd", "pending", "reject"}
  /\ MaxRowId \in Nat

VARIABLES connectedClients,      \* Map identity -> client
          clients,               \* the client objects, with what their closures captured
          chargepoints,          \* the chargepoints table
          lastRowId,             \* sqlite_sequence of that table
          pendingOfflineNotifs,  \* Map identity -> timer: is there an entry
          graceTimers,           \* how many of the timers set for it still run
          reconnectTracker,      \* Map identity -> {count}: 0 when absent or outdated
          pendingChargepoints,   \* identities waiting for approval
          announced              \* last presence notification since the server started

vars == <<connectedClients, clients, chargepoints, lastRowId, pendingOfflineNotifs,
          graceTimers, reconnectTracker, pendingChargepoints, announced>>

\* The closures of one connection: loggedHandle captures chargepointId (cpId);
\* `served' says that the client event got as far as registering the handlers
\* and the close listener; `reason' is client._disconnectReason.
Session == [state: {"idle", "open", "closing"}, identity: Identity \cup {NoIdentity},
            protocol: Version, cpId: Nat, served: BOOLEAN,
            reason: {"none", "heartbeat_timeout"}]

Unused == [state |-> "idle", identity |-> NoIdentity, protocol |-> "1.6", cpId |-> 0,
           served |-> FALSE, reason |-> "none"]

\* last_heartbeat is "never" (NULL), "recent" or "late" (older than two intervals).
Row == [id: Nat, authorized: BOOLEAN, connected: BOOLEAN,
        ocpp_version: Version \cup {NoVersion}, heartbeat: {"never", "recent", "late"},
        activeTxs: SUBSET Version]

\* id 0: no row.
NoRow == [id |-> 0, authorized |-> FALSE, connected |-> FALSE,
          ocpp_version |-> NoVersion, heartbeat |-> "never", activeTxs |-> {}]

\* The row of createChargepoint, and the one that upsertChargepoint inserts for an
\* identity without one: both are authorized.
NewRow(id) ==
  [id |-> id, authorized |-> TRUE, connected |-> FALSE,
   ocpp_version |-> NoVersion, heartbeat |-> "never", activeTxs |-> {}]

HasRow(i) == chargepoints[i].id # 0

Init ==
  /\ connectedClients = [i \in Identity |-> NoClient]
  /\ clients = [c \in Client |-> Unused]
  /\ chargepoints = [i \in Identity |-> NoRow]
  /\ lastRowId = 0
  /\ pendingOfflineNotifs = [i \in Identity |-> FALSE]
  /\ graceTimers = [i \in Identity |-> 0]
  /\ reconnectTracker = [i \in Identity |-> 0]
  /\ pendingChargepoints = {}
  /\ announced = [i \in Identity |-> "nothing"]

-----------------------------------------------------------------------------
(* Registration: the routes that insert, change and delete rows.           *)

\* POST /chargepoints; the UNIQUE identity column refuses a second row.
CreateChargepoint(i) ==
  /\ ~HasRow(i)
  /\ lastRowId < MaxRowId
  /\ lastRowId' = lastRowId + 1
  /\ chargepoints' = [chargepoints EXCEPT ![i] = NewRow(lastRowId + 1)]
  /\ UNCHANGED <<connectedClients, clients, pendingOfflineNotifs, graceTimers,
                 reconnectTracker, pendingChargepoints, announced>>

\* POST /chargepoints/pending/:identity/accept: when the insert throws, the
\* entry stays pending.
AcceptPending(i) ==
  /\ i \in pendingChargepoints
  /\ ~HasRow(i)
  /\ lastRowId < MaxRowId
  /\ lastRowId' = lastRowId + 1
  /\ chargepoints' = [chargepoints EXCEPT ![i] = NewRow(lastRowId + 1)]
  /\ pendingChargepoints' = pendingChargepoints \ {i}
  /\ UNCHANGED <<connectedClients, clients, pendingOfflineNotifs, graceTimers,
                 reconnectTracker, announced>>

\* DELETE /chargepoints/pending/:identity
RejectPending(i) ==
  /\ i \in pendingChargepoints
  /\ pendingChargepoints' = pendingChargepoints \ {i}
  /\ UNCHANGED <<connectedClients, clients, chargepoints, lastRowId,
                 pendingOfflineNotifs, graceTimers, reconnectTracker, announced>>

\* DELETE /chargepoints/:id removes the row (and, ON DELETE CASCADE, its
\* transactions) and leaves the connection alone.
DeleteChargepoint(i) ==
  /\ HasRow(i)
  /\ chargepoints' = [chargepoints EXCEPT ![i] = NoRow]
  /\ UNCHANGED <<connectedClients, clients, lastRowId, pendingOfflineNotifs,
                 graceTimers, reconnectTracker, pendingChargepoints, announced>>

\* disconnectChargepoint: the row's Active transactions are stopped at once
\* and the current client starts to close; nothing when there is none.
ClosingFor(s, reason) ==
  [s EXCEPT !.state = "closing", !.reason = IF reason = "none" THEN s.reason ELSE reason]

DisconnectedClients(i, reason) ==
  LET current == connectedClients[i]
  IN IF current = NoClient THEN clients
     ELSE [clients EXCEPT ![current] = ClosingFor(clients[current], reason)]

DisconnectedTxs(i) ==
  IF connectedClients[i] = NoClient THEN chargepoints[i].activeTxs ELSE {}

\* PUT /chargepoints/:id with authorized going from 1 to 0
Deauthorize(i) ==
  /\ HasRow(i)
  /\ chargepoints[i].authorized
  /\ chargepoints' = [chargepoints EXCEPT
       ![i] = [@ EXCEPT !.authorized = FALSE, !.activeTxs = DisconnectedTxs(i)]]
  /\ clients' = DisconnectedClients(i, "none")
  /\ UNCHANGED <<connectedClients, lastRowId, pendingOfflineNotifs, graceTimers,
                 reconnectTracker, pendingChargepoints, announced>>

\* PUT /chargepoints/:id with authorized going from 0 to 1
Authorize(i) ==
  /\ HasRow(i)
  /\ ~chargepoints[i].authorized
  /\ chargepoints' = [chargepoints EXCEPT ![i] = [@ EXCEPT !.authorized = TRUE]]
  /\ UNCHANGED <<connectedClients, clients, lastRowId, pendingOfflineNotifs,
                 graceTimers, reconnectTracker, pendingChargepoints, announced>>

-----------------------------------------------------------------------------
(* Connecting: server.auth and the `client' event run back to back.        *)

\* server.auth for an unknown identity under pendingUnknownChargepoints
PendUnknown(i) ==
  /\ ~HasRow(i)
  /\ UnknownPolicy = "pending"
  /\ i \notin pendingChargepoints
  /\ pendingChargepoints' = pendingChargepoints \cup {i}
  /\ UNCHANGED <<connectedClients, clients, chargepoints, lastRowId,
                 pendingOfflineNotifs, graceTimers, reconnectTracker, announced>>

\* Mutant: a known charge point is let in whatever its authorized column.
AuthAcceptsKnown(i) ==
  HasRow(i) \/ (UnknownPolicy = "autoAdd" /\ lastRowId < MaxRowId)

\* The row server.auth lets through: an authorized one, or one it inserts.
AuthAccepts(i) ==
  IF HasRow(i) THEN chargepoints[i].authorized
  ELSE UnknownPolicy = "autoAdd" /\ lastRowId < MaxRowId

AuthorizedRow(i) == IF HasRow(i) THEN chargepoints[i] ELSE NewRow(lastRowId + 1)

\* trackFlapping: counts above the threshold behave alike, the model stops at
\* FlapThreshold + 1.  It fires when the count reaches the threshold exactly,
\* never on the entry that opens the window.
FlapCount(i) ==
  IF reconnectTracker[i] > FlapThreshold THEN reconnectTracker[i] ELSE reconnectTracker[i] + 1

Flaps(i) == reconnectTracker[i] # 0 /\ FlapCount(i) = FlapThreshold

\* Reconnections in a burst: the new client is closed with no handler and no
\* close listener, the existing one stays.
RejectFlapping(c, i) ==
  /\ clients[c].state = "idle"
  /\ AuthAccepts(i)
  /\ connectedClients[i] # NoClient
  /\ Flaps(i)
  /\ lastRowId' = IF HasRow(i) THEN lastRowId ELSE lastRowId + 1
  /\ chargepoints' = [chargepoints EXCEPT ![i] = AuthorizedRow(i)]
  /\ reconnectTracker' = [reconnectTracker EXCEPT ![i] = FlapCount(i)]
  /\ clients' = [clients EXCEPT ![c] = [Unused EXCEPT !.state = "closing", !.identity = i]]
  /\ UNCHANGED <<connectedClients, pendingOfflineNotifs, graceTimers,
                 pendingChargepoints, announced>>

\* Mutant: a protocol change leaves the transactions Active.
KeptTxsAlways(row, v) == row.activeTxs

\* The transactions left Active: none when the protocol changed.
KeptTxs(row, v) ==
  IF row.ocpp_version \notin {NoVersion, v} THEN {} ELSE row.activeTxs

\* Mutant: the existing client is forgotten without being closed.
KeepExistingOpen(c, i, fresh) == [clients EXCEPT ![c] = fresh]

\* existingClient.close()
ReplaceExisting(c, i, fresh) ==
  LET old == connectedClients[i]
  IN IF old = NoClient THEN [clients EXCEPT ![c] = fresh]
     ELSE [clients EXCEPT ![c] = fresh, ![old] = [@ EXCEPT !.state = "closing"]]

\* Mutant: the map entry goes, the timer keeps running.
TimersKept(i) == graceTimers[i]

\* clearTimeout(pendingOffline)
TimersCleared(i) == graceTimers[i] - 1

\* A client that replaced another closes it; the map entry, the row and the
\* closures of the new one are written before the close event of the old one.
Connect(c, i, v) ==
  LET old == connectedClients[i]
      row == AuthorizedRow(i)
      fresh == [state |-> "open", identity |-> i, protocol |-> v, cpId |-> row.id,
                served |-> TRUE, reason |-> "none"]
  IN
  /\ clients[c].state = "idle"
  /\ AuthAccepts(i)
  /\ ~(old # NoClient /\ Flaps(i))
  /\ lastRowId' = IF HasRow(i) THEN lastRowId ELSE lastRowId + 1
  /\ reconnectTracker' = IF old = NoClient THEN reconnectTracker
                         ELSE [reconnectTracker EXCEPT ![i] = FlapCount(i)]
  /\ clients' = ReplaceExisting(c, i, fresh)
  /\ connectedClients' = [connectedClients EXCEPT ![i] = c]
  /\ chargepoints' = [chargepoints EXCEPT
       ![i] = [row EXCEPT !.connected = TRUE, !.ocpp_version = v,
                          !.activeTxs = KeptTxs(row, v)]]
  /\ IF pendingOfflineNotifs[i]
     THEN /\ graceTimers' = [graceTimers EXCEPT ![i] = TimersCleared(i)]
          /\ pendingOfflineNotifs' = [pendingOfflineNotifs EXCEPT ![i] = FALSE]
          /\ UNCHANGED announced
     ELSE /\ announced' = [announced EXCEPT ![i] = "online"]
          /\ UNCHANGED <<graceTimers, pendingOfflineNotifs>>
  /\ UNCHANGED pendingChargepoints

-----------------------------------------------------------------------------
(* Traffic on a connection.                                                *)

RowOf(c) == chargepoints[clients[c].identity]

\* A call is handled only on an open client.  When the row captured at
\* connection time is gone, the message log's foreign key makes loggedHandle
\* throw before anything else: no step.
Handles(c) ==
  /\ clients[c].state = "open"
  /\ clients[c].served
  /\ RowOf(c).id = clients[c].cpId

\* Any call: touchLastHeartbeat; a boot or a status also writes connected.
Message(c) ==
  /\ Handles(c)
  /\ \E status \in BOOLEAN :
       chargepoints' = [chargepoints EXCEPT ![clients[c].identity] =
         [RowOf(c) EXCEPT !.heartbeat = "recent",
                          !.connected = RowOf(c).connected \/ status]]
  /\ UNCHANGED <<connectedClients, clients, lastRowId, pendingOfflineNotifs,
                 graceTimers, reconnectTracker, pendingChargepoints, announced>>

\* A method without a handler: last_heartbeat is written by identity, so also
\* when the row is not the one the closures captured; the answer is an error.
UnmanagedCall(c) ==
  /\ clients[c].state = "open"
  /\ clients[c].served
  /\ HasRow(clients[c].identity)
  /\ chargepoints' = [chargepoints EXCEPT
       ![clients[c].identity] = [RowOf(c) EXCEPT !.heartbeat = "recent"]]
  /\ UNCHANGED <<connectedClients, clients, lastRowId, pendingOfflineNotifs,
                 graceTimers, reconnectTracker, pendingChargepoints, announced>>

\* StartTransaction, or TransactionEvent(Started)
StartTransaction(c) ==
  /\ Handles(c)
  /\ chargepoints' = [chargepoints EXCEPT
       ![clients[c].identity] =
         [RowOf(c) EXCEPT !.heartbeat = "recent",
                          !.activeTxs = RowOf(c).activeTxs \cup {clients[c].protocol}]]
  /\ UNCHANGED <<connectedClients, clients, lastRowId, pendingOfflineNotifs,
                 graceTimers, reconnectTracker, pendingChargepoints, announced>>

\* StopTransaction, or TransactionEvent(Ended): the last one of the row ends
StopTransaction(c) ==
  /\ Handles(c)
  /\ RowOf(c).activeTxs # {}
  /\ chargepoints' = [chargepoints EXCEPT
       ![clients[c].identity] = [RowOf(c) EXCEPT !.heartbeat = "recent", !.activeTxs = {}]]
  /\ UNCHANGED <<connectedClients, clients, lastRowId, pendingOfflineNotifs,
                 graceTimers, reconnectTracker, pendingChargepoints, announced>>

\* Two heartbeat intervals go by without a call.
HeartbeatLapses(i) ==
  /\ HasRow(i)
  /\ chargepoints[i].heartbeat = "recent"
  /\ chargepoints' = [chargepoints EXCEPT ![i] = [@ EXCEPT !.heartbeat = "late"]]
  /\ UNCHANGED <<connectedClients, clients, lastRowId, pendingOfflineNotifs,
                 graceTimers, reconnectTracker, pendingChargepoints, announced>>

\* flapWindowMinutes go by since the first reconnection of the burst.
FlapWindowEnds(i) ==
  /\ reconnectTracker[i] # 0
  /\ reconnectTracker' = [reconnectTracker EXCEPT ![i] = 0]
  /\ UNCHANGED <<connectedClients, clients, chargepoints, lastRowId,
                 pendingOfflineNotifs, graceTimers, pendingChargepoints, announced>>

\* Mutant: the watchdog spares a charge point that is charging.
UnresponsiveAndIdle(i) ==
  HasRow(i) /\ chargepoints[i].heartbeat = "late" /\ chargepoints[i].activeTxs = {}

\* A row that was never heard of (last_heartbeat NULL) is skipped.
Unresponsive(i) == HasRow(i) /\ chargepoints[i].heartbeat = "late"

\* One identity of a tick of the heartbeat watchdog.  It looks at the row only:
\* a client that is already closing is reported and closed again.
WatchdogFires(i) ==
  /\ connectedClients[i] # NoClient
  /\ Unresponsive(i)
  /\ announced' = [announced EXCEPT ![i] = "timeout"]
  /\ clients' = DisconnectedClients(i, "heartbeat_timeout")
  /\ chargepoints' = [chargepoints EXCEPT
       ![i] = [@ EXCEPT !.activeTxs = DisconnectedTxs(i)]]
  /\ UNCHANGED <<connectedClients, lastRowId, pendingOfflineNotifs, graceTimers,
                 reconnectTracker, pendingChargepoints>>

-----------------------------------------------------------------------------
(* Disconnecting.                                                          *)

\* Mutant: the close listener does not compare its client with the map's.
HasListener(c) == clients[c].served

\* connectedClients.get(identity) === client, in the close listener
IsCurrent(c) == clients[c].served /\ connectedClients[clients[c].identity] = c

\* Mutant: every disconnection arms the grace timer.
AlwaysArms(c) == TRUE

\* Mutant: no disconnection arms the grace timer.
NeverArms(c) == FALSE

\* The watchdog has announced the disconnection already.
ArmsGraceTimer(c) == clients[c].reason # "heartbeat_timeout"

\* The close event of a client that is not the identity's current one, or that
\* has no listener.
CloseStale(c) ==
  /\ clients[c].state \in {"open", "closing"}
  /\ ~IsCurrent(c)
  /\ clients' = [clients EXCEPT ![c] = Unused]
  /\ UNCHANGED <<connectedClients, chargepoints, lastRowId, pendingOfflineNotifs,
                 graceTimers, reconnectTracker, pendingChargepoints, announced>>

\* The close event of the current client, after close() or because the socket
\* dropped.  upsertChargepoint inserts the row again when it was deleted.
CloseCurrent(c) ==
  LET i == clients[c].identity
      row == IF HasRow(i) THEN chargepoints[i] ELSE NewRow(lastRowId + 1)
  IN
  /\ clients[c].state \in {"open", "closing"}
  /\ IsCurrent(c)
  /\ HasRow(i) \/ lastRowId < MaxRowId
  /\ lastRowId' = IF HasRow(i) THEN lastRowId ELSE lastRowId + 1
  /\ chargepoints' = [chargepoints EXCEPT ![i] = [row EXCEPT !.connected = FALSE]]
  /\ connectedClients' = [connectedClients EXCEPT ![i] = NoClient]
  /\ clients' = [clients EXCEPT ![c] = Unused]
  /\ IF ArmsGraceTimer(c)
     THEN /\ graceTimers' = [graceTimers EXCEPT ![i] = @ + 1]
          /\ pendingOfflineNotifs' = [pendingOfflineNotifs EXCEPT ![i] = TRUE]
     ELSE UNCHANGED <<graceTimers, pendingOfflineNotifs>>
  /\ UNCHANGED <<reconnectTracker, pendingChargepoints, announced>>

\* A grace timer runs: it does not look at connectedClients.
GraceExpires(i) ==
  /\ graceTimers[i] > 0
  /\ graceTimers' = [graceTimers EXCEPT ![i] = @ - 1]
  /\ pendingOfflineNotifs' = [pendingOfflineNotifs EXCEPT ![i] = FALSE]
  /\ announced' = [announced EXCEPT ![i] = "offline"]
  /\ UNCHANGED <<connectedClients, clients, chargepoints, lastRowId,
                 reconnectTracker, pendingChargepoints>>

\* The process stops, cleanly or not, and starts again: its maps, timers and
\* sockets are gone; resetStateOnStartup rewrites the table.
Restart ==
  /\ connectedClients' = [i \in Identity |-> NoClient]
  /\ clients' = [c \in Client |-> Unused]
  /\ chargepoints' = [i \in Identity |->
       [chargepoints[i] EXCEPT !.connected = FALSE, !.activeTxs = {}]]
  /\ pendingOfflineNotifs' = [i \in Identity |-> FALSE]
  /\ graceTimers' = [i \in Identity |-> 0]
  /\ reconnectTracker' = [i \in Identity |-> 0]
  /\ pendingChargepoints' = {}
  /\ announced' = [i \in Identity |-> "nothing"]
  /\ UNCHANGED lastRowId

-----------------------------------------------------------------------------
AdminStep(i) ==
  \/ CreateChargepoint(i) \/ AcceptPending(i) \/ RejectPending(i)
  \/ DeleteChargepoint(i) \/ Deauthorize(i) \/ Authorize(i)

TimeStep(i) ==
  HeartbeatLapses(i) \/ FlapWindowEnds(i) \/ WatchdogFires(i) \/ GraceExpires(i)

ClientStep(c) ==
  \/ Message(c) \/ UnmanagedCall(c) \/ StartTransaction(c) \/ StopTransaction(c)
  \/ CloseStale(c) \/ CloseCurrent(c)

Next ==
  \/ \E i \in Identity : AdminStep(i) \/ TimeStep(i) \/ PendUnknown(i)
  \/ \E c \in Client, i \in Identity :
       RejectFlapping(c, i) \/ \E v \in Version : Connect(c, i, v)
  \/ \E c \in Client : ClientStep(c)
  \/ Restart

Spec == Init /\ [][Next]_vars

\* Node runs every timer that is due, and close() ends in a close event: the
\* websocket library destroys a socket whose peer does not answer.
Closes(c) == clients[c].state = "closing" /\ (CloseStale(c) \/ CloseCurrent(c))

Fairness ==
  /\ \A i \in Identity : WF_vars(GraceExpires(i)) /\ WF_vars(WatchdogFires(i))
  /\ \A c \in Client : WF_vars(Closes(c))

FairSpec == Spec /\ Fairness

-----------------------------------------------------------------------------
(* Properties.                                                             *)

\* Every map, table and closure holds values of its kind; at most one grace
\* timer runs per identity (ocpp-common.js, pendingOfflineNotifs).
TypeOK ==
  /\ connectedClients \in [Identity -> Client \cup {NoClient}]
  /\ clients \in [Client -> Session]
  /\ chargepoints \in [Identity -> Row]
  /\ lastRowId \in Nat
  /\ pendingOfflineNotifs \in [Identity -> BOOLEAN]
  /\ graceTimers \in [Identity -> {0, 1}]
  /\ reconnectTracker \in [Identity -> Nat]
  /\ pendingChargepoints \subseteq Identity
  /\ announced \in [Identity -> {"nothing", "online", "offline", "timeout"}]

\* Two sockets of one identity never both have their calls handled: whatever
\* the order of handshakes, close() calls and close events, a client whose
\* handlers run is the one connectedClients names (the `client' event).
OneServingClient ==
  \A c \in Client : clients[c].state = "open" /\ clients[c].served
                        => connectedClients[clients[c].identity] = c

\* The table mirrors the map: the row a live connection was opened on is marked
\* connected and holds the protocol of that connection, by which callClient
\* picks the 1.6 or the 2.0.1 implementation; with no connection no row is
\* marked connected.
RowMirrorsConnection ==
  \A i \in Identity :
    LET c == connectedClients[i] IN
    IF c = NoClient THEN ~chargepoints[i].connected
    ELSE HasRow(i) /\ chargepoints[i].id = clients[c].cpId
           => /\ chargepoints[i].connected
              /\ chargepoints[i].ocpp_version = clients[c].protocol

\* No transaction survives a change of protocol: what is Active was started
\* under the protocol the row holds (the reset of the `client' event).
TransactionsMatchProtocol ==
  \A i \in Identity : chargepoints[i].activeTxs \subseteq {chargepoints[i].ocpp_version}

\* De-authorization takes effect on the live connection: the client of a
\* revoked row is closing and the row has no Active transaction, whatever
\* reconnects, boots or starts in between (PUT /chargepoints/:id).  Revoking
\* a charge point that is not connected stops nothing: its transactions stay
\* Active until the server restarts.
RevokedIsClosing ==
  \A i \in Identity :
    HasRow(i) /\ ~chargepoints[i].authorized /\ connectedClients[i] # NoClient =>
      /\ clients[connectedClients[i]].state = "closing"
      /\ chargepoints[i].activeTxs = {}

\* An identity loses its map entry only by the close event of that very
\* client: the late close event of a client that was replaced, or of one that
\* was turned away for flapping, never disconnects its successor.
OwnCloseOnly ==
  [][\A i \in Identity :
       connectedClients[i] # NoClient /\ connectedClients'[i] = NoClient
         => clients'[connectedClients[i]].state = "idle"]_vars

\* A connected charge point that is no longer heard of loses its connection
\* (startHeartbeatWatchdog), unless it speaks again or its row changes.
UnresponsiveIsDropped ==
  \A i \in Identity, c \in Client :
    (connectedClients[i] = c /\ HasRow(i) /\ chargepoints[i].heartbeat = "late")
      ~> (connectedClients[i] # c \/ ~HasRow(i) \/ chargepoints[i].heartbeat # "late")

\* What the subscribers of presence notifications observe.
Presence == INSTANCE Presence WITH
  link <- [i \in Identity |-> IF connectedClients[i] = NoClient THEN "down" ELSE "up"],
  told <- announced

\* The notifications tell the truth: offline is said once, of a charge point
\* said to be online that is down, never of one whose heartbeat timeout was
\* announced (the grace period and the watchdog of README.md).
PresenceNeverLies == Presence!Spec

\* A charge point that stays down after it was said to be online is eventually
\* said to be offline (README.md, reconnectGracePeriodSeconds).
OfflineIsAnnounced ==
  \A i \in Identity :
    (connectedClients[i] = NoClient /\ announced[i] = "online")
      ~> (connectedClients[i] # NoClient \/ announced[i] # "online")
=============================================================================

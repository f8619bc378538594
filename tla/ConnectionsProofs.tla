-------------------------- MODULE ConnectionsProofs --------------------------
(***************************************************************************)
(* For every set of identities, clients and every threshold: the           *)
(* invariants of Connections, and that it implements Presence.             *)
(***************************************************************************)
EXTENDS Connections, TLAPS

\* A map entry names a client of that identity that got its handlers and whose
\* close event is still to come.
EntryIsLive ==
  \A i \in Identity : connectedClients[i] # NoClient =>
    /\ clients[connectedClients[i]].state # "idle"
    /\ clients[connectedClients[i]].served
    /\ clients[connectedClients[i]].identity = i

\* The closures of a client event name an identity and a row.
ServedHasIdentity ==
  \A c \in Client : clients[c].served => clients[c].identity \in Identity /\ clients[c].cpId # 0

\* Row ids are never used again: what a closure captured is at most the last.
RowIdsGrow ==
  /\ \A i \in Identity : chargepoints[i].id <= lastRowId
  /\ \A c \in Client : clients[c].cpId <= lastRowId

\* The timer of a map entry is the only one that runs, and it runs only while
\* the charge point is down and was last said to be online.
TimerIsTracked ==
  \A i \in Identity :
    /\ graceTimers[i] = IF pendingOfflineNotifs[i] THEN 1 ELSE 0
    /\ pendingOfflineNotifs[i] => connectedClients[i] = NoClient /\ announced[i] = "online"

\* A connected charge point was said to be online, or its timeout was
\* announced and its client carries the reason.
ConnectedWasAnnounced ==
  \A i \in Identity : connectedClients[i] # NoClient =>
    \/ announced[i] = "online"
    \/ /\ announced[i] = "timeout"
       /\ clients[connectedClients[i]].reason = "heartbeat_timeout"

IInv ==
  /\ TypeOK
  /\ EntryIsLive
  /\ ServedHasIdentity
  /\ OneServingClient
  /\ RowIdsGrow
  /\ RowMirrorsConnection
  /\ TransactionsMatchProtocol
  /\ RevokedIsClosing
  /\ TimerIsTracked
  /\ ConnectedWasAnnounced

\* What the invariants say of row r of identity i in the present state.
RowFits(r, i) ==
  LET c == connectedClients[i] IN
  /\ c = NoClient => ~r.connected
  /\ (c # NoClient /\ r.id # 0 /\ r.id = clients[c].cpId)
       => r.connected /\ r.ocpp_version = clients[c].protocol
  /\ r.activeTxs \subseteq {r.ocpp_version}
  /\ (c # NoClient /\ r.id # 0 /\ ~r.authorized)
       => clients[c].state = "closing" /\ r.activeTxs = {}

-----------------------------------------------------------------------------
(* Rows and sessions: what the EXCEPTs of the actions build.               *)

\* The three row invariants say that every row fits.
LEMMA RowsFit ==
  (\A i \in Identity : RowFits(chargepoints[i], i))
    <=> RowMirrorsConnection /\ TransactionsMatchProtocol /\ RevokedIsClosing
BY DEF RowFits, RowMirrorsConnection, TransactionsMatchProtocol, RevokedIsClosing, HasRow

\* A session that starts to close is a session.
LEMMA SessionUpdates ==
  ASSUME NEW s \in Session, NEW i \in Identity, NEW reason \in {"none", "heartbeat_timeout"}
  PROVE  /\ Unused \in Session
         /\ [Unused EXCEPT !.state = "closing", !.identity = i] \in Session
         /\ [s EXCEPT !.state = "closing"] \in Session
         /\ ClosingFor(s, reason) \in Session
BY DEF Session, Unused, Version, ClosingFor

-----------------------------------------------------------------------------
(* Steps that change one row and no connection.                            *)

\* A new value for row i that fits keeps the invariant.
LEMMA RowStepKeeps ==
  ASSUME IInv, NEW i \in Identity, NEW r \in Row, RowFits(r, i),
         chargepoints' = [chargepoints EXCEPT ![i] = r],
         lastRowId' \in Nat, lastRowId <= lastRowId', r.id <= lastRowId',
         pendingChargepoints' \subseteq Identity,
         UNCHANGED <<connectedClients, clients, pendingOfflineNotifs, graceTimers,
                     reconnectTracker, announced>>
  PROVE  IInv'
<1> USE DEF IInv
<1>1. TypeOK'
  BY DEF TypeOK
<1>2. EntryIsLive' /\ ServedHasIdentity' /\ OneServingClient'
  BY DEF EntryIsLive, ServedHasIdentity, OneServingClient
<1>3. RowIdsGrow'
  BY DEF RowIdsGrow, TypeOK, Row, Session
<1>4. RowMirrorsConnection' /\ TransactionsMatchProtocol' /\ RevokedIsClosing'
  <2>1. \A j \in Identity : RowFits(chargepoints[j], j)
    BY RowsFit
  <2>2. ASSUME NEW j \in Identity PROVE RowFits(chargepoints[j], j)'
    <3>1. chargepoints'[j] = IF j = i THEN r ELSE chargepoints[j]
      BY DEF TypeOK
    <3> QED
      BY <2>1, <3>1 DEF RowFits
  <2> QED
    BY <2>2 DEF RowFits, RowMirrorsConnection, TransactionsMatchProtocol,
                RevokedIsClosing, HasRow
<1>5. TimerIsTracked' /\ ConnectedWasAnnounced'
  BY DEF TimerIsTracked, ConnectedWasAnnounced
<1> QED
  BY <1>1, <1>2, <1>3, <1>4, <1>5

\* Most of these steps insert no row.
LEMMA RowUpdateKeeps ==
  ASSUME IInv, NEW i \in Identity, NEW r \in Row, RowFits(r, i),
         r.id \in {0, chargepoints[i].id},
         chargepoints' = [chargepoints EXCEPT ![i] = r],
         UNCHANGED <<connectedClients, clients, lastRowId, pendingOfflineNotifs, graceTimers,
                     reconnectTracker, pendingChargepoints, announced>>
  PROVE  IInv'
<1>1. /\ lastRowId' \in Nat /\ lastRowId <= lastRowId' /\ r.id <= lastRowId'
      /\ pendingChargepoints' \subseteq Identity
  BY DEF IInv, TypeOK, RowIdsGrow
<1> QED
  BY <1>1, RowStepKeeps

LEMMA CreateChargepointKeeps ==
  ASSUME IInv, NEW i \in Identity, CreateChargepoint(i) \/ AcceptPending(i)
  PROVE  IInv'
<1> DEFINE r == NewRow(lastRowId + 1)
<1>1. lastRowId \in Nat /\ lastRowId + 1 \in Nat
  BY DEF IInv, TypeOK
<1>p. pendingChargepoints' \subseteq Identity
  BY DEF IInv, TypeOK, CreateChargepoint, AcceptPending
<1>2. r \in Row
  BY <1>1 DEF NewRow, Row
<1>3. RowFits(r, i)
  BY <1>1 DEF IInv, RowFits, RowIdsGrow, NewRow, EntryIsLive, TypeOK, Session
<1>4. /\ chargepoints' = [chargepoints EXCEPT ![i] = r]
      /\ lastRowId' = lastRowId + 1
      /\ UNCHANGED <<connectedClients, clients, pendingOfflineNotifs, graceTimers,
                     reconnectTracker, announced>>
  BY DEF CreateChargepoint, AcceptPending
<1>5. lastRowId' \in Nat /\ lastRowId <= lastRowId' /\ r.id <= lastRowId'
  BY <1>1, <1>4 DEF NewRow
<1> HIDE DEF r
<1> QED
  BY <1>1, <1>2, <1>3, <1>4, <1>5, <1>p, RowStepKeeps

LEMMA DeleteChargepointKeeps ==
  ASSUME IInv, NEW i \in Identity, DeleteChargepoint(i)
  PROVE  IInv'
<1>1. NoRow \in Row /\ NoRow.id = 0
  BY DEF Row, NoRow
<1>2. RowFits(NoRow, i)
  BY DEF RowFits, NoRow
<1> QED
  BY <1>1, <1>2, RowUpdateKeeps DEF DeleteChargepoint

LEMMA AuthorizeKeeps ==
  ASSUME IInv, NEW i \in Identity, Authorize(i)
  PROVE  IInv'
<1> DEFINE r == [chargepoints[i] EXCEPT !.authorized = TRUE]
<1>1. chargepoints[i] \in Row /\ RowFits(chargepoints[i], i)
  BY RowsFit DEF IInv, TypeOK
<1>2. r \in Row
  BY <1>1 DEF Row
<1>3. RowFits(r, i) /\ r.id \in {0, chargepoints[i].id}
  BY <1>1 DEF RowFits, Row
<1>4. /\ chargepoints' = [chargepoints EXCEPT ![i] = r]
      /\ UNCHANGED <<connectedClients, clients, lastRowId, pendingOfflineNotifs,
                     graceTimers, reconnectTracker, pendingChargepoints, announced>>
  BY DEF Authorize
<1> HIDE DEF r
<1> QED
  BY <1>1, <1>2, <1>3, <1>4, RowUpdateKeeps

\* Nothing but the watchdog looks at the heartbeat of a row.
LEMMA HeartbeatKeeps ==
  ASSUME IInv, NEW i \in Identity, NEW heartbeat \in {"recent", "late"},
         chargepoints' = [chargepoints EXCEPT
           ![i] = [chargepoints[i] EXCEPT !.heartbeat = heartbeat]],
         UNCHANGED <<connectedClients, clients, lastRowId, pendingOfflineNotifs,
                     graceTimers, reconnectTracker, pendingChargepoints, announced>>
  PROVE  IInv'
<1> DEFINE r == [chargepoints[i] EXCEPT !.heartbeat = heartbeat]
<1>1. chargepoints[i] \in Row /\ RowFits(chargepoints[i], i)
  BY RowsFit DEF IInv, TypeOK
<1>2. r \in Row
  BY <1>1 DEF Row
<1>3. RowFits(r, i) /\ r.id \in {0, chargepoints[i].id}
  BY <1>1 DEF RowFits, Row
<1>4. chargepoints' = [chargepoints EXCEPT ![i] = r]
  OBVIOUS
<1> HIDE DEF r
<1> QED
  BY <1>1, <1>2, <1>3, <1>4, RowUpdateKeeps

LEMMA HeartbeatLapsesKeeps ==
  ASSUME IInv, NEW i \in Identity, HeartbeatLapses(i)
  PROVE  IInv'
BY HeartbeatKeeps DEF HeartbeatLapses

LEMMA UnmanagedCallKeeps ==
  ASSUME IInv, NEW c \in Client, UnmanagedCall(c)
  PROVE  IInv'
<1>1. clients[c].identity \in Identity
  BY DEF IInv, UnmanagedCall, ServedHasIdentity
<1> QED
  BY <1>1, HeartbeatKeeps DEF UnmanagedCall, RowOf

\* A call is handled for an identity whose map entry is the caller, on the row
\* its connection was opened on.
LEMMA HandledCall ==
  ASSUME IInv, NEW c \in Client, Handles(c)
  PROVE  /\ clients[c].identity \in Identity
         /\ connectedClients[clients[c].identity] = c
         /\ c # NoClient
         /\ clients[c].protocol \in Version
         /\ chargepoints[clients[c].identity].id = clients[c].cpId
         /\ clients[c].cpId # 0
         /\ chargepoints[clients[c].identity] \in Row
         /\ RowFits(chargepoints[clients[c].identity], clients[c].identity)
<1>1. /\ clients[c].identity \in Identity /\ clients[c].cpId # 0
      /\ connectedClients[clients[c].identity] = c
  BY DEF IInv, Handles, ServedHasIdentity, OneServingClient
<1> QED
  BY <1>1, RowsFit, ConnectionsAssumption DEF IInv, Handles, RowOf, TypeOK, Session

LEMMA MessageKeeps ==
  ASSUME IInv, NEW c \in Client, Message(c)
  PROVE  IInv'
<1> DEFINE i == clients[c].identity
<1> PICK status \in BOOLEAN :
       chargepoints' = [chargepoints EXCEPT ![i] =
         [chargepoints[i] EXCEPT !.heartbeat = "recent",
                             !.connected = chargepoints[i].connected \/ status]]
  BY DEF Message, RowOf
<1> DEFINE r == [chargepoints[i] EXCEPT !.heartbeat = "recent", !.connected = chargepoints[i].connected \/ status]
<1>1. /\ i \in Identity /\ connectedClients[i] = c /\ c # NoClient
      /\ clients[c].protocol \in Version
      /\ chargepoints[i].id = clients[c].cpId /\ clients[c].cpId # 0
      /\ chargepoints[i] \in Row /\ RowFits(chargepoints[i], i)
      /\ clients[c].state = "open"
  BY HandledCall DEF Message, Handles
<1>2. r \in Row
  BY <1>1 DEF Row
<1>3. RowFits(r, i) /\ r.id \in {0, chargepoints[i].id}
  <2>1. /\ chargepoints[i].connected
        /\ chargepoints[i].activeTxs \cup {clients[c].protocol} \subseteq {chargepoints[i].ocpp_version}
    BY <1>1 DEF RowFits, Row
  <2> QED
    BY <1>1, <2>1 DEF RowFits, Row
<1>4. /\ chargepoints' = [chargepoints EXCEPT ![i] = r]
      /\ UNCHANGED <<connectedClients, clients, lastRowId, pendingOfflineNotifs,
                     graceTimers, reconnectTracker, pendingChargepoints, announced>>
  BY DEF Message, RowOf
<1> HIDE DEF r, i
<1> QED
  BY <1>1, <1>2, <1>3, <1>4, RowUpdateKeeps

LEMMA StartTransactionKeeps ==
  ASSUME IInv, NEW c \in Client, StartTransaction(c)
  PROVE  IInv'
<1> DEFINE i == clients[c].identity
<1> DEFINE r == [chargepoints[i] EXCEPT !.heartbeat = "recent",
                                            !.activeTxs = chargepoints[i].activeTxs \cup {clients[c].protocol}]
<1>1. /\ i \in Identity /\ connectedClients[i] = c /\ c # NoClient
      /\ clients[c].protocol \in Version
      /\ chargepoints[i].id = clients[c].cpId /\ clients[c].cpId # 0
      /\ chargepoints[i] \in Row /\ RowFits(chargepoints[i], i)
      /\ clients[c].state = "open"
  BY HandledCall DEF StartTransaction, Handles
<1>2. r \in Row
  BY <1>1 DEF Row
<1>3. RowFits(r, i) /\ r.id \in {0, chargepoints[i].id}
  <2>1. /\ chargepoints[i].connected
        /\ chargepoints[i].activeTxs \cup {clients[c].protocol} \subseteq {chargepoints[i].ocpp_version}
    BY <1>1 DEF RowFits, Row
  <2> QED
    BY <1>1, <2>1 DEF RowFits, Row
<1>4. /\ chargepoints' = [chargepoints EXCEPT ![i] = r]
      /\ UNCHANGED <<connectedClients, clients, lastRowId, pendingOfflineNotifs,
                     graceTimers, reconnectTracker, pendingChargepoints, announced>>
  BY DEF StartTransaction, RowOf
<1> HIDE DEF r, i
<1> QED
  BY <1>1, <1>2, <1>3, <1>4, RowUpdateKeeps

LEMMA StopTransactionKeeps ==
  ASSUME IInv, NEW c \in Client, StopTransaction(c)
  PROVE  IInv'
<1> DEFINE i == clients[c].identity
<1> DEFINE r == [chargepoints[i] EXCEPT !.heartbeat = "recent", !.activeTxs = {}]
<1>1. /\ i \in Identity /\ connectedClients[i] = c /\ c # NoClient
      /\ clients[c].protocol \in Version
      /\ chargepoints[i].id = clients[c].cpId /\ clients[c].cpId # 0
      /\ chargepoints[i] \in Row /\ RowFits(chargepoints[i], i)
      /\ clients[c].state = "open"
  BY HandledCall DEF StopTransaction, Handles
<1>2. r \in Row
  BY <1>1 DEF Row
<1>3. RowFits(r, i) /\ r.id \in {0, chargepoints[i].id}
  <2>1. /\ chargepoints[i].connected
        /\ chargepoints[i].activeTxs \cup {clients[c].protocol} \subseteq {chargepoints[i].ocpp_version}
    BY <1>1 DEF RowFits, Row
  <2> QED
    BY <1>1, <2>1 DEF RowFits, Row
<1>4. /\ chargepoints' = [chargepoints EXCEPT ![i] = r]
      /\ UNCHANGED <<connectedClients, clients, lastRowId, pendingOfflineNotifs,
                     graceTimers, reconnectTracker, pendingChargepoints, announced>>
  BY DEF StopTransaction, RowOf
<1> HIDE DEF r, i
<1> QED
  BY <1>1, <1>2, <1>3, <1>4, RowUpdateKeeps

-----------------------------------------------------------------------------
(* Steps that leave the table and the connections alone.                   *)

LEMMA BookkeepingKeeps ==
  ASSUME IInv, NEW i \in Identity, RejectPending(i) \/ PendUnknown(i) \/ FlapWindowEnds(i)
  PROVE  IInv'
<1>1. /\ UNCHANGED <<connectedClients, clients, chargepoints, lastRowId,
                     pendingOfflineNotifs, graceTimers, announced>>
  BY DEF RejectPending, PendUnknown, FlapWindowEnds
<1>2. pendingChargepoints' \subseteq Identity
  BY DEF RejectPending, PendUnknown, FlapWindowEnds, IInv, TypeOK
<1>3. reconnectTracker' \in [Identity -> Nat]
  BY DEF RejectPending, PendUnknown, FlapWindowEnds, IInv, TypeOK
<1> QED
  BY <1>1, <1>2, <1>3 DEF IInv, TypeOK, EntryIsLive, ServedHasIdentity, OneServingClient,
     RowIdsGrow, RowMirrorsConnection, TransactionsMatchProtocol, RevokedIsClosing,
     TimerIsTracked, ConnectedWasAnnounced, HasRow

\* The timer of a map entry fires: it is the only one.
LEMMA GraceExpiresKeeps ==
  ASSUME IInv, NEW i \in Identity, GraceExpires(i)
  PROVE  IInv'
<1> USE DEF IInv, GraceExpires
<1>1. pendingOfflineNotifs[i] /\ graceTimers[i] = 1 /\ connectedClients[i] = NoClient
  BY DEF TimerIsTracked
<1>2. TypeOK'
  <2>1. graceTimers' \in [Identity -> {0, 1}]
    BY <1>1 DEF TypeOK
  <2>2. pendingOfflineNotifs' \in [Identity -> BOOLEAN]
    BY DEF TypeOK
  <2>3. announced' \in [Identity -> {"nothing", "online", "offline", "timeout"}]
    BY DEF TypeOK
  <2> QED
    BY <2>1, <2>2, <2>3 DEF TypeOK
<1>3. TimerIsTracked' /\ ConnectedWasAnnounced'
  BY <1>1 DEF TimerIsTracked, ConnectedWasAnnounced, TypeOK
<1> QED
  BY <1>2, <1>3 DEF EntryIsLive, ServedHasIdentity, OneServingClient, RowIdsGrow,
     RowMirrorsConnection, TransactionsMatchProtocol, RevokedIsClosing, HasRow

-----------------------------------------------------------------------------
(* Steps that close a client.                                              *)

\* What disconnectChargepoint does to sessions: the current client closes,
\* keeping its closures; its reason changes only to the one given.
LEMMA DisconnectedSessions ==
  ASSUME IInv, NEW i \in Identity, NEW reason \in {"none", "heartbeat_timeout"},
         clients' = DisconnectedClients(i, reason)
  PROVE  /\ clients' \in [Client -> Session]
         /\ \A c \in Client :
              /\ clients'[c].identity = clients[c].identity
              /\ clients'[c].protocol = clients[c].protocol
              /\ clients'[c].cpId = clients[c].cpId
              /\ clients'[c].served = clients[c].served
              /\ clients'[c].state \in {clients[c].state, "closing"}
              /\ clients[c].reason = "heartbeat_timeout" => clients'[c].reason = "heartbeat_timeout"
         /\ connectedClients[i] # NoClient =>
              /\ clients'[connectedClients[i]].state = "closing"
              /\ reason = "heartbeat_timeout" =>
                   clients'[connectedClients[i]].reason = "heartbeat_timeout"
<1> USE DEF IInv
<1>1. CASE connectedClients[i] = NoClient
  BY <1>1 DEF DisconnectedClients, TypeOK
<1>2. CASE connectedClients[i] # NoClient
  <2> DEFINE k == connectedClients[i]
             s == ClosingFor(clients[k], reason)
  <2>1. k \in Client /\ clients[k] \in Session
    BY <1>2 DEF TypeOK
  <2>2. s \in Session
    BY <2>1, SessionUpdates
  <2>3. clients' = [clients EXCEPT ![k] = s]
    BY <1>2 DEF DisconnectedClients
  <2>4. /\ s.identity = clients[k].identity /\ s.protocol = clients[k].protocol
        /\ s.cpId = clients[k].cpId /\ s.served = clients[k].served
        /\ s.state = "closing"
        /\ s.reason = IF reason = "none" THEN clients[k].reason ELSE reason
    BY <2>1 DEF Session, ClosingFor
  <2> HIDE DEF s
  <2> QED
    BY <2>1, <2>2, <2>3, <2>4, <1>2 DEF TypeOK
<1> QED
  BY <1>1, <1>2

LEMMA DisconnectKeeps ==
  ASSUME IInv, NEW i \in Identity, Deauthorize(i) \/ WatchdogFires(i)
  PROVE  IInv'
<1> USE DEF IInv
<1>1. PICK reason \in {"none", "heartbeat_timeout"} :
         /\ clients' = DisconnectedClients(i, reason)
         /\ Deauthorize(i) \/ reason = "heartbeat_timeout"
  BY DEF Deauthorize, WatchdogFires
<1>2. /\ UNCHANGED <<connectedClients, lastRowId, pendingOfflineNotifs, graceTimers,
                     reconnectTracker, pendingChargepoints>>
      /\ HasRow(i)
  BY DEF Deauthorize, WatchdogFires, Unresponsive
<1>3. PICK r \in Row :
         /\ chargepoints' = [chargepoints EXCEPT ![i] = r]
         /\ r.id = chargepoints[i].id
         /\ r.connected = chargepoints[i].connected
         /\ r.ocpp_version = chargepoints[i].ocpp_version
         /\ r.activeTxs = DisconnectedTxs(i)
         /\ Deauthorize(i) \/ r.authorized = chargepoints[i].authorized
  <2>1. chargepoints[i] \in Row /\ DisconnectedTxs(i) \in SUBSET Version
    BY DEF TypeOK, Row, DisconnectedTxs
  <2>2. CASE Deauthorize(i)
    <3> DEFINE r == [chargepoints[i] EXCEPT !.authorized = FALSE, !.activeTxs = DisconnectedTxs(i)]
    <3>1. r \in Row
      BY <2>1 DEF Row
    <3>2. chargepoints' = [chargepoints EXCEPT ![i] = r]
      BY <2>2 DEF Deauthorize
    <3>3. /\ r.id = chargepoints[i].id /\ r.connected = chargepoints[i].connected
          /\ r.ocpp_version = chargepoints[i].ocpp_version
          /\ r.activeTxs = DisconnectedTxs(i)
      BY <2>1 DEF Row
    <3> HIDE DEF r
    <3> QED
      BY <2>2, <3>1, <3>2, <3>3
  <2>3. CASE WatchdogFires(i)
    <3> DEFINE r == [chargepoints[i] EXCEPT !.activeTxs = DisconnectedTxs(i)]
    <3>1. r \in Row
      BY <2>1 DEF Row
    <3>2. chargepoints' = [chargepoints EXCEPT ![i] = r]
      BY <2>3 DEF WatchdogFires
    <3>3. /\ r.id = chargepoints[i].id /\ r.connected = chargepoints[i].connected
          /\ r.ocpp_version = chargepoints[i].ocpp_version
          /\ r.activeTxs = DisconnectedTxs(i)
          /\ r.authorized = chargepoints[i].authorized
      BY <2>1 DEF Row
    <3> HIDE DEF r
    <3> QED
      BY <3>1, <3>2, <3>3
  <2> QED
    BY <2>2, <2>3
<1>4. /\ announced' \in [Identity -> {"nothing", "online", "offline", "timeout"}]
      /\ \A j \in Identity : announced'[j] = announced[j] \/
           (j = i /\ connectedClients[i] # NoClient /\ announced'[j] = "timeout"
              /\ reason = "heartbeat_timeout")
  <2>1. CASE Deauthorize(i)
    BY <2>1 DEF Deauthorize, TypeOK
  <2>2. CASE ~Deauthorize(i)
    BY <1>1, <2>2 DEF WatchdogFires, TypeOK
  <2> QED
    BY <2>1, <2>2
<1>5. /\ clients' \in [Client -> Session]
      /\ \A c \in Client :
           /\ clients'[c].identity = clients[c].identity
           /\ clients'[c].protocol = clients[c].protocol
           /\ clients'[c].cpId = clients[c].cpId
           /\ clients'[c].served = clients[c].served
           /\ clients'[c].state \in {clients[c].state, "closing"}
           /\ clients[c].reason = "heartbeat_timeout" => clients'[c].reason = "heartbeat_timeout"
      /\ connectedClients[i] # NoClient =>
           /\ clients'[connectedClients[i]].state = "closing"
           /\ reason = "heartbeat_timeout" =>
                clients'[connectedClients[i]].reason = "heartbeat_timeout"
  BY <1>1, DisconnectedSessions
<1>6. TypeOK'
  BY <1>2, <1>3, <1>4, <1>5 DEF TypeOK
<1>7. EntryIsLive' /\ ServedHasIdentity' /\ OneServingClient'
  BY <1>2, <1>5 DEF EntryIsLive, ServedHasIdentity, OneServingClient, TypeOK
<1>8. RowIdsGrow'
  BY <1>2, <1>3, <1>5 DEF RowIdsGrow, TypeOK
<1>9. RowMirrorsConnection'
  BY <1>2, <1>3, <1>5 DEF RowMirrorsConnection, TypeOK, HasRow
<1>10. TransactionsMatchProtocol'
  BY <1>2, <1>3 DEF TransactionsMatchProtocol, TypeOK, DisconnectedTxs
<1>11. RevokedIsClosing'
  BY <1>2, <1>3, <1>5 DEF RevokedIsClosing, TypeOK, HasRow, DisconnectedTxs
<1>12. TimerIsTracked'
  BY <1>2, <1>4 DEF TimerIsTracked, TypeOK
<1>13. ConnectedWasAnnounced'
  BY <1>2, <1>4, <1>5 DEF ConnectedWasAnnounced, TypeOK
<1> QED
  BY <1>6, <1>7, <1>8, <1>9, <1>10, <1>11, <1>12, <1>13

\* The close event of a client that serves no map entry.
LEMMA CloseStaleKeeps ==
  ASSUME IInv, NEW c \in Client, CloseStale(c)
  PROVE  IInv'
<1> USE DEF IInv
<1>1. \A i \in Identity : connectedClients[i] # c
  BY ConnectionsAssumption DEF CloseStale, IsCurrent, EntryIsLive
<1>2. clients' \in [Client -> Session]
  <2>1. Unused \in Session
    BY DEF Unused, Session, Version
  <2> QED
    BY <2>1 DEF CloseStale, TypeOK
<1>3. \A d \in Client : clients'[d] = IF d = c THEN Unused ELSE clients[d]
  BY DEF CloseStale, TypeOK
<1>4. UNCHANGED <<connectedClients, chargepoints, lastRowId, pendingOfflineNotifs,
                  graceTimers, reconnectTracker, pendingChargepoints, announced>>
  BY DEF CloseStale
<1>5. TypeOK'
  BY <1>2, <1>4 DEF TypeOK
<1>6. EntryIsLive' /\ ServedHasIdentity' /\ OneServingClient'
  BY <1>1, <1>3, <1>4 DEF EntryIsLive, ServedHasIdentity, OneServingClient, Unused, TypeOK
<1>7. RowIdsGrow'
  BY <1>3, <1>4 DEF RowIdsGrow, Unused, TypeOK
<1>8. RowMirrorsConnection' /\ TransactionsMatchProtocol' /\ RevokedIsClosing'
  BY <1>1, <1>3, <1>4 DEF RowMirrorsConnection, TransactionsMatchProtocol,
     RevokedIsClosing, HasRow, TypeOK
<1>9. TimerIsTracked' /\ ConnectedWasAnnounced'
  BY <1>1, <1>3, <1>4 DEF TimerIsTracked, ConnectedWasAnnounced, TypeOK
<1> QED
  BY <1>5, <1>6, <1>7, <1>8, <1>9

\* The close event of the current client of an identity.
LEMMA CloseCurrentKeeps ==
  ASSUME IInv, NEW c \in Client, CloseCurrent(c)
  PROVE  IInv'
<1> USE DEF IInv
<1> DEFINE i == clients[c].identity
           row == IF HasRow(i) THEN chargepoints[i] ELSE NewRow(lastRowId + 1)
           r == [row EXCEPT !.connected = FALSE]
<1>1. /\ i \in Identity /\ connectedClients[i] = c /\ c # NoClient
      /\ \A j \in Identity : connectedClients[j] = c => j = i
      /\ connectedClients' = [connectedClients EXCEPT ![i] = NoClient]
  BY ConnectionsAssumption DEF CloseCurrent, IsCurrent, ServedHasIdentity, EntryIsLive
<1>2. /\ lastRowId \in Nat /\ lastRowId' \in Nat /\ lastRowId <= lastRowId'
      /\ lastRowId' = IF HasRow(i) THEN lastRowId ELSE lastRowId + 1
  BY DEF CloseCurrent, TypeOK
<1>3. /\ row \in Row /\ row.id <= lastRowId' /\ row.activeTxs \subseteq {row.ocpp_version}
  <2>1. CASE HasRow(i)
    BY <1>1, <1>2, <2>1 DEF TypeOK, RowIdsGrow, TransactionsMatchProtocol
  <2>2. CASE ~HasRow(i)
    BY <1>2, <2>2 DEF NewRow, Row
  <2> QED
    BY <2>1, <2>2
<1>4. chargepoints' = [chargepoints EXCEPT ![i] = r]
  BY DEF CloseCurrent
<1>5. /\ r \in Row /\ r.id <= lastRowId' /\ r.activeTxs \subseteq {r.ocpp_version}
      /\ ~r.connected
  <2> HIDE DEF row
  <2> QED
    BY <1>3 DEF Row
<1>6. clients' \in [Client -> Session]
  <2>1. Unused \in Session
    BY DEF Unused, Session, Version
  <2> QED
    BY <2>1 DEF CloseCurrent, TypeOK
<1>7. /\ \A d \in Client : clients'[d] = IF d = c THEN Unused ELSE clients[d]
      /\ UNCHANGED <<reconnectTracker, pendingChargepoints, announced>>
  BY DEF CloseCurrent, TypeOK
<1>8. /\ \/ UNCHANGED <<graceTimers, pendingOfflineNotifs>>
         \/ /\ graceTimers' = [graceTimers EXCEPT ![i] = graceTimers[i] + 1]
            /\ pendingOfflineNotifs' = [pendingOfflineNotifs EXCEPT ![i] = TRUE]
            /\ clients[c].reason # "heartbeat_timeout"
      /\ ~pendingOfflineNotifs[i] /\ graceTimers[i] = 0
  BY <1>1 DEF CloseCurrent, ArmsGraceTimer, TimerIsTracked
<1> HIDE DEF i, r, row
<1>9. TypeOK'
  <2>1. /\ connectedClients' \in [Identity -> Client \cup {NoClient}]
        /\ chargepoints' \in [Identity -> Row]
    BY <1>1, <1>4, <1>5 DEF TypeOK
  <2>2. graceTimers' \in [Identity -> {0, 1}]
    BY <1>1, <1>8 DEF TypeOK
  <2>3. pendingOfflineNotifs' \in [Identity -> BOOLEAN]
    BY <1>1, <1>8 DEF TypeOK
  <2> QED
    BY <2>1, <2>2, <2>3, <1>2, <1>6, <1>7 DEF TypeOK
<1>10. EntryIsLive' /\ ServedHasIdentity'
  BY <1>1, <1>7 DEF EntryIsLive, ServedHasIdentity, Unused, TypeOK
<1>11. OneServingClient'
  <2> SUFFICES ASSUME NEW d \in Client, clients'[d].state = "open", clients'[d].served
               PROVE  connectedClients'[clients'[d].identity] = d
    BY DEF OneServingClient
  <2>1. d # c /\ clients'[d] = clients[d]
    BY <1>7 DEF Unused
  <2>2. clients[d].identity \in Identity /\ connectedClients[clients[d].identity] = d
    BY <2>1 DEF ServedHasIdentity, OneServingClient
  <2> QED
    BY <2>1, <2>2, <1>1 DEF TypeOK
<1>12. RowIdsGrow'
  <2>1. \A j \in Identity : chargepoints[j].id \in Nat
    BY DEF TypeOK, Row
  <2>2. \A d \in Client : clients[d].cpId \in Nat /\ Unused.cpId = 0
    BY DEF TypeOK, Session, Unused
  <2> QED
    BY <1>1, <1>2, <1>4, <1>5, <1>7, <2>1, <2>2 DEF RowIdsGrow, TypeOK
<1>13. RowMirrorsConnection' /\ TransactionsMatchProtocol' /\ RevokedIsClosing'
  BY <1>1, <1>4, <1>5, <1>7 DEF RowMirrorsConnection, TransactionsMatchProtocol,
     RevokedIsClosing, HasRow, TypeOK
<1>14. TimerIsTracked' /\ ConnectedWasAnnounced'
  <2>1. clients[c].reason # "heartbeat_timeout" => announced[i] = "online"
    BY <1>1 DEF ConnectedWasAnnounced
  <2>2. ConnectedWasAnnounced'
    BY <1>1, <1>7 DEF ConnectedWasAnnounced, TypeOK
  <2>3. ASSUME NEW j \in Identity
        PROVE  /\ graceTimers'[j] = IF pendingOfflineNotifs'[j] THEN 1 ELSE 0
               /\ pendingOfflineNotifs'[j] => connectedClients'[j] = NoClient /\ announced'[j] = "online"
    BY <1>1, <1>7, <1>8, <2>1 DEF TimerIsTracked, TypeOK
  <2> QED
    BY <2>2, <2>3 DEF TimerIsTracked
<1> QED
  BY <1>9, <1>10, <1>11, <1>12, <1>13, <1>14

-----------------------------------------------------------------------------
(* Steps that accept a handshake.                                          *)

\* The row a handshake is accepted on.
LEMMA AcceptedRow ==
  ASSUME IInv, NEW i \in Identity, AuthAccepts(i),
         lastRowId' = IF HasRow(i) THEN lastRowId ELSE lastRowId + 1
  PROVE  /\ lastRowId' \in Nat /\ lastRowId <= lastRowId'
         /\ AuthorizedRow(i) \in Row
         /\ AuthorizedRow(i).id # 0 /\ AuthorizedRow(i).id <= lastRowId'
         /\ AuthorizedRow(i).authorized
         /\ AuthorizedRow(i).activeTxs \subseteq {AuthorizedRow(i).ocpp_version}
         /\ AuthorizedRow(i) = chargepoints[i] \/
              /\ AuthorizedRow(i).id = lastRowId + 1
              /\ AuthorizedRow(i).activeTxs = {}
<1>1. CASE HasRow(i)
  BY <1>1 DEF IInv, TypeOK, AuthAccepts, AuthorizedRow, HasRow, RowIdsGrow,
              TransactionsMatchProtocol
<1>2. CASE ~HasRow(i)
  BY <1>2 DEF IInv, TypeOK, AuthorizedRow, NewRow, Row
<1> QED
  BY <1>1, <1>2

\* A client object that is not in use is in no map entry.
LEMMA IdleIsUnmapped ==
  ASSUME IInv, NEW c \in Client, clients[c].state = "idle"
  PROVE  \A j \in Identity : connectedClients[j] # c
BY ConnectionsAssumption DEF IInv, EntryIsLive

LEMMA RejectFlappingKeeps ==
  ASSUME IInv, NEW c \in Client, NEW i \in Identity, RejectFlapping(c, i)
  PROVE  IInv'
<1> USE DEF IInv
<1> DEFINE r == AuthorizedRow(i)
           s == [Unused EXCEPT !.state = "closing", !.identity = i]
<1>1. \A j \in Identity : connectedClients[j] # c
  BY IdleIsUnmapped DEF RejectFlapping
<1>2. /\ lastRowId' \in Nat /\ lastRowId <= lastRowId'
      /\ r \in Row /\ r.id # 0 /\ r.id <= lastRowId' /\ r.authorized
      /\ r.activeTxs \subseteq {r.ocpp_version}
      /\ r = chargepoints[i] \/ r.id = lastRowId + 1
  BY AcceptedRow DEF RejectFlapping
<1>3. /\ s \in Session /\ ~s.served /\ s.state = "closing" /\ s.cpId = 0
  BY DEF Session, Unused, Version
<1>4. /\ chargepoints' = [chargepoints EXCEPT ![i] = r]
      /\ clients' = [clients EXCEPT ![c] = s]
      /\ reconnectTracker' = [reconnectTracker EXCEPT ![i] = FlapCount(i)]
      /\ connectedClients[i] # NoClient
      /\ UNCHANGED <<connectedClients, pendingOfflineNotifs, graceTimers,
                     pendingChargepoints, announced>>
  BY DEF RejectFlapping
<1>5. FlapCount(i) \in Nat
  BY DEF FlapCount, TypeOK
<1> HIDE DEF r, s
<1>6. TypeOK'
  BY <1>2, <1>3, <1>4, <1>5 DEF TypeOK
<1>7. \A d \in Client : clients'[d] = IF d = c THEN s ELSE clients[d]
  BY <1>4 DEF TypeOK
<1>8. EntryIsLive' /\ ServedHasIdentity' /\ OneServingClient'
  BY <1>1, <1>3, <1>4, <1>7 DEF EntryIsLive, ServedHasIdentity, OneServingClient, TypeOK
<1>9. \A j \in Identity : chargepoints[j].id \in Nat
  BY DEF TypeOK, Row
<1>10. \A d \in Client : clients[d].cpId \in Nat
  BY DEF TypeOK, Session
<1>11. RowIdsGrow'
  BY <1>2, <1>3, <1>4, <1>7, <1>9, <1>10 DEF RowIdsGrow, TypeOK
<1>12. r.id = lastRowId + 1 => \A d \in Client : r.id # clients[d].cpId
  BY <1>10 DEF RowIdsGrow, TypeOK
<1>13. RowMirrorsConnection'
  BY <1>1, <1>2, <1>4, <1>7, <1>12 DEF RowMirrorsConnection, HasRow, TypeOK
<1>14. TransactionsMatchProtocol'
  BY <1>2, <1>4 DEF TransactionsMatchProtocol, TypeOK
<1>15. RevokedIsClosing'
  BY <1>1, <1>2, <1>4, <1>7 DEF RevokedIsClosing, HasRow, TypeOK
<1>16. TimerIsTracked' /\ ConnectedWasAnnounced'
  BY <1>1, <1>4, <1>7 DEF TimerIsTracked, ConnectedWasAnnounced, TypeOK
<1> QED
  BY <1>6, <1>8, <1>11, <1>13, <1>14, <1>15, <1>16

\* A handshake that becomes the connection of its identity, over the row, the
\* closures and the timers that the client event leaves.
LEMMA ConnectKeeps ==
  ASSUME IInv, NEW c \in Client, NEW i \in Identity, NEW v \in Version, Connect(c, i, v)
  PROVE  IInv'
<1> USE DEF IInv
<1> DEFINE old == connectedClients[i]
           row == AuthorizedRow(i)
           r == [row EXCEPT !.connected = TRUE, !.ocpp_version = v, !.activeTxs = KeptTxs(row, v)]
           fresh == [state |-> "open", identity |-> i, protocol |-> v, cpId |-> row.id,
                     served |-> TRUE, reason |-> "none"]
<1>1. \A j \in Identity : connectedClients[j] # c
  BY IdleIsUnmapped DEF Connect
<1>2. /\ lastRowId' \in Nat /\ lastRowId <= lastRowId'
      /\ row \in Row /\ row.id # 0 /\ row.id <= lastRowId' /\ row.authorized
      /\ row.activeTxs \subseteq {row.ocpp_version}
  BY AcceptedRow DEF Connect
<1>3. KeptTxs(row, v) \subseteq {v}
  BY <1>2 DEF KeptTxs, Version, NoVersion, Row
<1>4. /\ fresh \in Session /\ fresh.served /\ fresh.state = "open" /\ fresh.identity = i
      /\ fresh.cpId = row.id /\ fresh.protocol = v
  BY <1>2 DEF Session, Row
<1>5. /\ chargepoints' = [chargepoints EXCEPT ![i] = r]
      /\ connectedClients' = [connectedClients EXCEPT ![i] = c]
      /\ clients' = ReplaceExisting(c, i, fresh)
      /\ UNCHANGED pendingChargepoints
  BY DEF Connect
<1>6. /\ r \in Row /\ r.id = row.id /\ r.connected /\ r.ocpp_version = v
      /\ r.authorized /\ r.activeTxs \subseteq {v}
  <2> HIDE DEF row
  <2> QED
    BY <1>2, <1>3 DEF Row
<1>7. reconnectTracker' \in [Identity -> Nat]
  <2>1. FlapCount(i) \in Nat
    BY DEF FlapCount, TypeOK
  <2> QED
    BY <2>1 DEF Connect, TypeOK
<1>8. \/ /\ pendingOfflineNotifs[i] /\ graceTimers[i] = 1 /\ announced[i] = "online"
         /\ graceTimers' = [graceTimers EXCEPT ![i] = 0]
         /\ pendingOfflineNotifs' = [pendingOfflineNotifs EXCEPT ![i] = FALSE]
         /\ announced' = announced
      \/ /\ ~pendingOfflineNotifs[i] /\ graceTimers[i] = 0
         /\ announced' = [announced EXCEPT ![i] = "online"]
         /\ graceTimers' = graceTimers /\ pendingOfflineNotifs' = pendingOfflineNotifs
  BY DEF Connect, TimersCleared, TimerIsTracked
<1> HIDE DEF r, fresh, row
<1>9. /\ clients' \in [Client -> Session]
      /\ clients'[c] = fresh
      /\ \A d \in Client : d # c =>
           /\ clients'[d].identity = clients[d].identity
           /\ clients'[d].protocol = clients[d].protocol
           /\ clients'[d].cpId = clients[d].cpId
           /\ clients'[d].served = clients[d].served
           /\ clients'[d].reason = clients[d].reason
           /\ clients'[d].state \in {clients[d].state, "closing"}
           /\ d = old => clients'[d].state = "closing"
  <2>1. CASE old = NoClient
    BY <1>4, <1>5, <2>1, ConnectionsAssumption DEF ReplaceExisting, TypeOK
  <2>2. CASE old # NoClient
    <3> DEFINE s == [clients[old] EXCEPT !.state = "closing"]
    <3>1. old \in Client /\ old # c /\ clients[old] \in Session
      BY <1>1, <2>2 DEF TypeOK
    <3>2. /\ s \in Session /\ s.identity = clients[old].identity
          /\ s.protocol = clients[old].protocol /\ s.cpId = clients[old].cpId
          /\ s.served = clients[old].served /\ s.reason = clients[old].reason
          /\ s.state = "closing"
      BY <3>1 DEF Session
    <3>3. clients' = [clients EXCEPT ![c] = fresh, ![old] = s]
      BY <1>5, <2>2, <3>1 DEF ReplaceExisting, TypeOK
    <3> HIDE DEF s
    <3> QED
      BY <1>4, <3>1, <3>2, <3>3 DEF TypeOK
  <2> QED
    BY <2>1, <2>2
<1>10. TypeOK'
  <2>1. /\ connectedClients' \in [Identity -> Client \cup {NoClient}]
        /\ chargepoints' \in [Identity -> Row]
    BY <1>5, <1>6 DEF TypeOK
  <2>2. graceTimers' \in [Identity -> {0, 1}]
    BY <1>8 DEF TypeOK
  <2>3. pendingOfflineNotifs' \in [Identity -> BOOLEAN]
    BY <1>8 DEF TypeOK
  <2>4. announced' \in [Identity -> {"nothing", "online", "offline", "timeout"}]
    BY <1>8 DEF TypeOK
  <2> QED
    BY <2>1, <2>2, <2>3, <2>4, <1>2, <1>5, <1>7, <1>9 DEF TypeOK
<1>11. EntryIsLive'
  BY <1>1, <1>4, <1>5, <1>9 DEF EntryIsLive, TypeOK
<1>12. ServedHasIdentity'
  BY <1>2, <1>4, <1>9 DEF ServedHasIdentity
<1>13. OneServingClient'
  <2> SUFFICES ASSUME NEW d \in Client, clients'[d].state = "open", clients'[d].served
               PROVE  connectedClients'[clients'[d].identity] = d
    BY DEF OneServingClient
  <2>1. CASE d = c
    BY <2>1, <1>4, <1>5, <1>9 DEF TypeOK
  <2>2. CASE d # c
    <3>1. d # old /\ clients[d].state = "open" /\ clients[d].served
      BY <2>2, <1>9
    <3>2. clients[d].identity \in Identity /\ connectedClients[clients[d].identity] = d
      BY <3>1 DEF ServedHasIdentity, OneServingClient
    <3> QED
      BY <2>2, <3>1, <3>2, <1>5, <1>9 DEF TypeOK
  <2> QED
    BY <2>1, <2>2
<1>14. \A j \in Identity : chargepoints[j].id \in Nat
  BY DEF TypeOK, Row
<1>15. \A d \in Client : clients[d].cpId \in Nat
  BY DEF TypeOK, Session
<1>16. RowIdsGrow'
  BY <1>2, <1>4, <1>5, <1>6, <1>9, <1>14, <1>15 DEF RowIdsGrow, TypeOK
<1>17. RowMirrorsConnection'
  <2> SUFFICES ASSUME NEW j \in Identity
               PROVE  LET k == connectedClients'[j] IN
                      IF k = NoClient THEN ~chargepoints'[j].connected
                      ELSE chargepoints'[j].id # 0 /\ chargepoints'[j].id = clients'[k].cpId
                             => /\ chargepoints'[j].connected
                                /\ chargepoints'[j].ocpp_version = clients'[k].protocol
    BY DEF RowMirrorsConnection, HasRow
  <2>1. CASE j = i
    BY <2>1, <1>4, <1>5, <1>6, <1>9, ConnectionsAssumption DEF TypeOK
  <2>2. CASE j # i
    <3>1. connectedClients'[j] = connectedClients[j] /\ chargepoints'[j] = chargepoints[j]
      BY <2>2, <1>5 DEF TypeOK
    <3>2. connectedClients[j] # NoClient =>
            connectedClients[j] \in Client /\ connectedClients[j] # c
      BY <1>1 DEF TypeOK
    <3> QED
      BY <3>1, <3>2, <1>9 DEF RowMirrorsConnection, HasRow
  <2> QED
    BY <2>1, <2>2
<1>18. TransactionsMatchProtocol'
  BY <1>5, <1>6 DEF TransactionsMatchProtocol, TypeOK
<1>19. RevokedIsClosing'
  BY <1>1, <1>5, <1>6, <1>9 DEF RevokedIsClosing, HasRow, TypeOK
<1>20. TimerIsTracked'
  <2> SUFFICES ASSUME NEW j \in Identity
               PROVE  /\ graceTimers'[j] = IF pendingOfflineNotifs'[j] THEN 1 ELSE 0
                      /\ pendingOfflineNotifs'[j] =>
                           connectedClients'[j] = NoClient /\ announced'[j] = "online"
    BY DEF TimerIsTracked
  <2>1. CASE j = i
    BY <2>1, <1>8 DEF TypeOK
  <2>2. CASE j # i
    BY <2>2, <1>5, <1>8 DEF TypeOK, TimerIsTracked
  <2> QED
    BY <2>1, <2>2
<1>21. ConnectedWasAnnounced'
  <2> SUFFICES ASSUME NEW j \in Identity, connectedClients'[j] # NoClient
               PROVE  \/ announced'[j] = "online"
                      \/ /\ announced'[j] = "timeout"
                         /\ clients'[connectedClients'[j]].reason = "heartbeat_timeout"
    BY DEF ConnectedWasAnnounced
  <2>1. CASE j = i
    BY <2>1, <1>8 DEF TypeOK
  <2>2. CASE j # i
    <3>1. connectedClients'[j] = connectedClients[j] /\ announced'[j] = announced[j]
      BY <2>2, <1>5, <1>8 DEF TypeOK
    <3>2. connectedClients[j] \in Client /\ connectedClients[j] # c
      BY <3>1, <1>1 DEF TypeOK
    <3> QED
      BY <3>1, <3>2, <1>9 DEF ConnectedWasAnnounced
  <2> QED
    BY <2>1, <2>2
<1> QED
  BY <1>10, <1>11, <1>12, <1>13, <1>16, <1>17, <1>18, <1>19, <1>20, <1>21

\* A restart leaves a table without connections and without Active transactions.
LEMMA RestartKeeps ==
  ASSUME IInv, Restart
  PROVE  IInv'
<1> USE DEF IInv, Restart
<1>1. Unused \in Session /\ ~Unused.served /\ Unused.cpId = 0
  BY DEF Unused, Session, Version
<1>2. ASSUME NEW i \in Identity
      PROVE  /\ chargepoints'[i] \in Row /\ chargepoints'[i].id = chargepoints[i].id
             /\ ~chargepoints'[i].connected /\ chargepoints'[i].activeTxs = {}
  <2>1. chargepoints[i] \in Row
    BY DEF TypeOK
  <2>2. chargepoints'[i] = [chargepoints[i] EXCEPT !.connected = FALSE, !.activeTxs = {}]
    OBVIOUS
  <2> QED
    BY <2>1, <2>2 DEF Row
<1>3. TypeOK'
  <2>1. chargepoints' \in [Identity -> Row]
    BY <1>2
  <2> QED
    BY <2>1, <1>1 DEF TypeOK
<1>4. EntryIsLive' /\ ServedHasIdentity' /\ OneServingClient'
  BY <1>1 DEF EntryIsLive, ServedHasIdentity, OneServingClient
<1>5. RowIdsGrow'
  <2>1. /\ lastRowId' = lastRowId /\ lastRowId \in Nat
        /\ \A c \in Client : clients'[c].cpId = 0
    BY <1>1 DEF TypeOK
  <2> HIDE DEF Restart
  <2> QED
    BY <1>2, <2>1 DEF RowIdsGrow
<1>6. RowMirrorsConnection' /\ TransactionsMatchProtocol' /\ RevokedIsClosing'
  BY <1>2 DEF RowMirrorsConnection, TransactionsMatchProtocol, RevokedIsClosing
<1>7. TimerIsTracked' /\ ConnectedWasAnnounced'
  BY DEF TimerIsTracked, ConnectedWasAnnounced
<1> QED
  BY <1>3, <1>4, <1>5, <1>6, <1>7

-----------------------------------------------------------------------------
(* The invariant, and what follows from it.                                *)

LEMMA InitIInv == Init => IInv
<1> SUFFICES ASSUME Init PROVE IInv
  OBVIOUS
<1> USE DEF Init
<1>1. Unused \in Session /\ ~Unused.served /\ Unused.cpId = 0
  BY DEF Unused, Session, Version
<1>2. NoRow \in Row /\ NoRow.id = 0 /\ ~NoRow.connected /\ NoRow.activeTxs = {}
  BY DEF NoRow, Row
<1>3. TypeOK
  BY <1>1, <1>2 DEF TypeOK
<1>4. EntryIsLive /\ ServedHasIdentity /\ OneServingClient /\ RowIdsGrow
  BY <1>1, <1>2 DEF EntryIsLive, ServedHasIdentity, OneServingClient, RowIdsGrow
<1>5. RowMirrorsConnection /\ TransactionsMatchProtocol /\ RevokedIsClosing
  BY <1>2 DEF RowMirrorsConnection, TransactionsMatchProtocol, RevokedIsClosing
<1>6. TimerIsTracked /\ ConnectedWasAnnounced
  BY DEF TimerIsTracked, ConnectedWasAnnounced
<1> QED
  BY <1>3, <1>4, <1>5, <1>6 DEF IInv

LEMMA NextKeepsIInv == IInv /\ [Next]_vars => IInv'
<1> SUFFICES ASSUME IInv, [Next]_vars PROVE IInv'
  OBVIOUS
<1>1. ASSUME NEW i \in Identity, AdminStep(i) \/ TimeStep(i) \/ PendUnknown(i) PROVE IInv'
  BY <1>1, CreateChargepointKeeps, DeleteChargepointKeeps, AuthorizeKeeps, DisconnectKeeps,
     HeartbeatLapsesKeeps, BookkeepingKeeps, GraceExpiresKeeps DEF AdminStep, TimeStep
<1>2. ASSUME NEW c \in Client, NEW i \in Identity,
             RejectFlapping(c, i) \/ \E v \in Version : Connect(c, i, v)
      PROVE  IInv'
  BY <1>2, RejectFlappingKeeps, ConnectKeeps
<1>3. ASSUME NEW c \in Client, ClientStep(c) PROVE IInv'
  BY <1>3, MessageKeeps, UnmanagedCallKeeps, StartTransactionKeeps, StopTransactionKeeps, CloseStaleKeeps,
     CloseCurrentKeeps DEF ClientStep
<1>4. CASE Restart
  BY <1>4, RestartKeeps
<1>5. CASE UNCHANGED vars
  BY <1>5 DEF vars, IInv, TypeOK, EntryIsLive, ServedHasIdentity, OneServingClient,
     RowIdsGrow, RowMirrorsConnection, TransactionsMatchProtocol, RevokedIsClosing,
     TimerIsTracked, ConnectedWasAnnounced, HasRow
<1> QED
  BY <1>1, <1>2, <1>3, <1>4, <1>5 DEF Next

\* The inductive invariant holds in every state of the connections.
THEOREM Invariance == Spec => []IInv
  BY InitIInv, NextKeepsIInv, PTL DEF Spec

\* The maps, the table and the closures hold values of their kinds, and no
\* identity ever has two grace timers.
THEOREM TypeCorrect == Spec => []TypeOK
<1>1. IInv => TypeOK
  BY DEF IInv
<1> QED
  BY <1>1, Invariance, PTL

\* The sockets of an identity never have their calls handled side by side (the
\* listeners of the client event, and their removal).
THEOREM OneServing == Spec => []OneServingClient
<1>1. IInv => OneServingClient
  BY DEF IInv
<1> QED
  BY <1>1, Invariance, PTL

\* connectedClients and the column connected tell the same story, after every
\* replacement, rejection, deletion, restart and late close event.
THEOREM RowsMirror == Spec => []RowMirrorsConnection
<1>1. IInv => RowMirrorsConnection
  BY DEF IInv
<1> QED
  BY <1>1, Invariance, PTL

\* No Active transaction of a connected charge point is of the other protocol
\* (the client event closes those).
THEOREM TransactionsMatch == Spec => []TransactionsMatchProtocol
<1>1. IInv => TransactionsMatchProtocol
  BY DEF IInv
<1> QED
  BY <1>1, Invariance, PTL

\* A charge point that is no longer authorized is being disconnected (the PATCH
\* of routes.js and the boots).
THEOREM RevokedCloses == Spec => []RevokedIsClosing
<1>1. IInv => RevokedIsClosing
  BY DEF IInv
<1> QED
  BY <1>1, Invariance, PTL

-----------------------------------------------------------------------------
(* What steps may do.                                                      *)

\* How each step changes the map of connections and the announcements.
LEMMA PresenceSteps ==
  ASSUME IInv, [Next]_vars
  PROVE  \/ UNCHANGED <<connectedClients, announced>>
         \/ \E i \in Identity, c \in Client :
              /\ connectedClients' = [connectedClients EXCEPT ![i] = c]
              /\ announced' = [announced EXCEPT ![i] = "online"]
         \/ \E i \in Identity :
              /\ connectedClients[i] # NoClient
              /\ connectedClients' = [connectedClients EXCEPT ![i] = NoClient]
              /\ clients'[connectedClients[i]].state = "idle"
              /\ UNCHANGED announced
         \/ \E i \in Identity :
              /\ connectedClients[i] = NoClient /\ announced[i] = "online"
              /\ announced' = [announced EXCEPT ![i] = "offline"]
              /\ UNCHANGED connectedClients
         \/ \E i \in Identity :
              /\ connectedClients[i] # NoClient
              /\ announced' = [announced EXCEPT ![i] = "timeout"]
              /\ UNCHANGED connectedClients
         \/ Restart
<1> USE DEF IInv
<1>1. ASSUME NEW i \in Identity, AdminStep(i) \/ HeartbeatLapses(i) \/ FlapWindowEnds(i)
                                   \/ PendUnknown(i)
      PROVE  UNCHANGED <<connectedClients, announced>>
  BY <1>1 DEF AdminStep, CreateChargepoint, AcceptPending, RejectPending, DeleteChargepoint,
     Deauthorize, Authorize, HeartbeatLapses, FlapWindowEnds, PendUnknown
<1>2. ASSUME NEW i \in Identity, WatchdogFires(i)
      PROVE  /\ connectedClients[i] # NoClient
             /\ announced' = [announced EXCEPT ![i] = "timeout"]
             /\ UNCHANGED connectedClients
  BY <1>2 DEF WatchdogFires
<1>3. ASSUME NEW i \in Identity, GraceExpires(i)
      PROVE  /\ connectedClients[i] = NoClient /\ announced[i] = "online"
             /\ announced' = [announced EXCEPT ![i] = "offline"]
             /\ UNCHANGED connectedClients
  BY <1>3 DEF GraceExpires, TimerIsTracked
<1>4. ASSUME NEW c \in Client, NEW i \in Identity, RejectFlapping(c, i)
      PROVE  UNCHANGED <<connectedClients, announced>>
  BY <1>4 DEF RejectFlapping
<1>5. ASSUME NEW c \in Client, NEW i \in Identity, NEW v \in Version, Connect(c, i, v)
      PROVE  /\ connectedClients' = [connectedClients EXCEPT ![i] = c]
             /\ announced' = [announced EXCEPT ![i] = "online"]
  <2>1. pendingOfflineNotifs[i] => announced[i] = "online"
    BY DEF TimerIsTracked
  <2>2. announced \in [Identity -> {"nothing", "online", "offline", "timeout"}]
    BY DEF TypeOK
  <2>3. /\ connectedClients' = [connectedClients EXCEPT ![i] = c]
        /\ IF pendingOfflineNotifs[i] THEN UNCHANGED announced
           ELSE announced' = [announced EXCEPT ![i] = "online"]
    BY <1>5 DEF Connect
  <2> QED
    BY <2>1, <2>2, <2>3
<1>6. ASSUME NEW c \in Client,
             \/ Message(c) \/ UnmanagedCall(c) \/ StartTransaction(c) \/ StopTransaction(c)
             \/ CloseStale(c)
      PROVE  UNCHANGED <<connectedClients, announced>>
  BY <1>6 DEF Message, UnmanagedCall, StartTransaction, StopTransaction, CloseStale
<1>7. ASSUME NEW c \in Client, CloseCurrent(c)
      PROVE  \E i \in Identity :
               /\ connectedClients[i] # NoClient
               /\ connectedClients' = [connectedClients EXCEPT ![i] = NoClient]
               /\ clients'[connectedClients[i]].state = "idle"
               /\ UNCHANGED announced
  <2>1. clients[c].identity \in Identity /\ connectedClients[clients[c].identity] = c
    BY <1>7 DEF CloseCurrent, IsCurrent, ServedHasIdentity
  <2>2. clients'[c].state = "idle"
    BY <1>7 DEF CloseCurrent, Unused, TypeOK
  <2>3. /\ connectedClients' = [connectedClients EXCEPT ![clients[c].identity] = NoClient]
        /\ UNCHANGED announced
    BY <1>7 DEF CloseCurrent
  <2> QED
    BY <2>1, <2>2, <2>3, ConnectionsAssumption
<1>8. ASSUME UNCHANGED vars PROVE UNCHANGED <<connectedClients, announced>>
  BY <1>8 DEF vars
<1> QED
  BY <1>1, <1>2, <1>3, <1>4, <1>5, <1>6, <1>7, <1>8 DEF Next, TimeStep, ClientStep

\* Only its own close event, or a restart, takes the map entry of a client.
THEOREM OwnCloseTheorem == Spec => OwnCloseOnly
<1>1. IInv /\ [Next]_vars =>
        [\A i \in Identity : connectedClients[i] # NoClient /\ connectedClients'[i] = NoClient
                               => clients'[connectedClients[i]].state = "idle"]_vars
  <2> SUFFICES ASSUME IInv, [Next]_vars, NEW i \in Identity,
                      connectedClients[i] # NoClient, connectedClients'[i] = NoClient
               PROVE  clients'[connectedClients[i]].state = "idle"
    OBVIOUS
  <2>1. /\ connectedClients \in [Identity -> Client \cup {NoClient}]
        /\ connectedClients[i] \in Client
    BY DEF IInv, TypeOK
  <2>2. CASE Restart
    BY <2>1, <2>2 DEF Restart, Unused
  <2>3. CASE ~Restart
    BY <2>1, <2>3, PresenceSteps, ConnectionsAssumption
  <2> QED
    BY <2>2, <2>3
<1> QED
  BY <1>1, Invariance, PTL DEF Spec, OwnCloseOnly

\* The maps, timers and sessions implement the promise of the notifications.
THEOREM PresenceRefinement == Spec => PresenceNeverLies
<1>1. Init => Presence!Init
  BY DEF Init, Presence!Init
<1>2. IInv /\ [Next]_vars => [Presence!Next]_(Presence!vars)
  <2> SUFFICES ASSUME IInv, [Next]_vars PROVE [Presence!Next]_(Presence!vars)
    OBVIOUS
  <2> USE DEF Presence!vars, Presence!Next
  <2>0. connectedClients \in [Identity -> Client \cup {NoClient}] /\ NoClient \notin Client
    BY ConnectionsAssumption DEF IInv, TypeOK
  <2>1. CASE UNCHANGED <<connectedClients, announced>>
    BY <2>1
  <2>2. ASSUME NEW i \in Identity, NEW c \in Client,
               connectedClients' = [connectedClients EXCEPT ![i] = c],
               announced' = [announced EXCEPT ![i] = "online"]
        PROVE  Presence!ComeUp(i)
    BY <2>0, <2>2 DEF Presence!ComeUp
  <2>3. ASSUME NEW i \in Identity, connectedClients[i] # NoClient,
               connectedClients' = [connectedClients EXCEPT ![i] = NoClient],
               UNCHANGED announced
        PROVE  Presence!GoDown(i)
    BY <2>0, <2>3 DEF Presence!GoDown
  <2>4. ASSUME NEW i \in Identity, connectedClients[i] = NoClient, announced[i] = "online",
               announced' = [announced EXCEPT ![i] = "offline"], UNCHANGED connectedClients
        PROVE  Presence!TellOffline(i)
    BY <2>4 DEF Presence!TellOffline
  <2>5. ASSUME NEW i \in Identity, connectedClients[i] # NoClient,
               announced' = [announced EXCEPT ![i] = "timeout"], UNCHANGED connectedClients
        PROVE  Presence!TellTimeout(i)
    BY <2>5 DEF Presence!TellTimeout
  <2>6. CASE Restart
    BY <2>6 DEF Restart, Presence!Reset
  <2> QED
    BY <2>1, <2>2, <2>3, <2>4, <2>5, <2>6, PresenceSteps
<1> QED
  BY <1>1, <1>2, Invariance, PTL DEF Spec, PresenceNeverLies, Presence!Spec

=============================================================================

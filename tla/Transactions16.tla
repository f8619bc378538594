---------------------------- MODULE Transactions16 ----------------------------
(***************************************************************************)
(* Charging transactions of OCPP 1.6 charge points: the transactions table *)
(* of database.js, the handlers of ocpp-server-16.js that open, meter and  *)
(* close its rows, and everything else that closes them (disconnection by  *)
(* the server, change of protocol, startup, deletion of a charge point).   *)
(*                                                                         *)
(* The charge points are the environment: they run one session per         *)
(* connector, get the id of its transaction in the reply to                *)
(* StartTransaction, and send a call again when its reply was lost.  The   *)
(* server learns what happened only from the calls, and their order is not *)
(* that of the sessions.  Every handler runs to its end before the next.   *)
(***************************************************************************)
EXTENDS Integers

CONSTANTS ChargePoint,  \* identities that may be registered
          Connector,    \* connectors of each of them
          NoChargePoint, NoConnector,  \* of an id that is free
          KeepsMemory,  \* does a deleted charge point come back with its sessions
          MaxTxs,       \* bound: highest transaction id
          MaxMeter      \* bound: highest meter value

ASSUME TransactionsAssumption ==
  /\ NoChargePoint \notin ChargePoint
  /\ NoConnector \notin Connector
  /\ KeepsMemory \in BOOLEAN
  /\ MaxTxs \in Nat
  /\ MaxMeter \in Nat

VARIABLES registered,    \* charge points that have a row
          transactions,  \* the transactions table, by transaction_id
          session,       \* what each charge point knows of each connector
          meter          \* the energy meter of each connector

vars == <<registered, transactions, session, meter>>

\* transaction_id is "AAJJJ" and a daily number; the model stays within a day.
TxId == 1 .. MaxTxs
NULL == -1 - MaxMeter

\* A row, or a free id (status "none").
Tx == [cp: ChargePoint \cup {NoChargePoint}, connector: Connector \cup {NoConnector},
       status: {"none", "Active", "Completed"}, meterStart: Nat, meterStop: Int, energy: Int,
       reason: {"none", "Local", "Remote", "Other", "EVDisconnected", "DeAuthorized",
                "PowerLoss"}]

Free == [cp |-> NoChargePoint, connector |-> NoConnector, status |-> "none",
         meterStart |-> 0, meterStop |-> NULL, energy |-> NULL, reason |-> "none"]

\* id 0: the charge point was given none.  A session is announced ("starting"),
\* confirmed ("charging"), then over but not yet reported ("stopping").
Session == [phase: {"idle", "starting", "charging", "stopping"}, id: TxId \cup {0}, start: Nat]

Confirmed(s, id) == [s EXCEPT !.phase = "charging", !.id = id]
Over(s) == [s EXCEPT !.phase = "stopping"]

NoSession == [phase |-> "idle", id |-> 0, start |-> 0]

Exists(id) == id \in TxId /\ transactions[id].status # "none"
IsActive(id) == transactions[id].status = "Active"

\* getTransactions({ chargepoint_id, status: 'Active' })
ActiveOf(c) == {id \in TxId : IsActive(id) /\ transactions[id].cp = c}
ActiveAt(c, k) == {id \in ActiveOf(c) : transactions[id].connector = k}

\* ORDER BY id DESC LIMIT 1.  The start times of one charge point grow with its
\* ids, so this is also the most recent by start_time.
Latest(ids) == CHOOSE id \in ids : \A other \in ids : other <= id

Init ==
  /\ registered = ChargePoint
  /\ transactions = [id \in TxId |-> Free]
  /\ session = [c \in ChargePoint |-> [k \in Connector |-> NoSession]]
  /\ meter = [c \in ChargePoint |-> [k \in Connector |-> 0]]

-----------------------------------------------------------------------------
(* The table.                                                              *)

\* SELECT MAX(transaction_id) + 1 over the rows that are left.
IsNext(id) ==
  /\ \A other \in TxId : Exists(other) => other < id
  /\ id = 1 \/ Exists(id - 1)

NewTx(c, k, meterStart) ==
  [cp |-> c, connector |-> k, status |-> "Active", meterStart |-> meterStart,
   meterStop |-> NULL, energy |-> NULL, reason |-> "none"]

\* Mutant: an UPDATE without AND status = 'Active'.
StopsAnyRow(id) == Exists(id)

\* WHERE transaction_id = ? AND status = 'Active'
StopsRow(id) == IsActive(id)

\* stopTransaction of each of ids, at the meter value At[id]
Stopped(ids, At, reason) ==
  [id \in TxId |->
     IF id \in ids /\ StopsRow(id)
     THEN [transactions[id] EXCEPT !.status = "Completed", !.meterStop = At[id],
                                   !.reason = reason]
     ELSE transactions[id]]

AllAt(value) == [id \in TxId |-> value]

\* tx.meter_start || 0
AtTheirStart == [id \in TxId |-> transactions[id].meterStart]

-----------------------------------------------------------------------------
(* The charge points.                                                      *)

PlugIn(c, k) ==
  /\ session[c][k].phase = "idle"
  /\ session' = [session EXCEPT ![c][k] =
       [phase |-> "starting", id |-> 0, start |-> meter[c][k]]]
  /\ UNCHANGED <<registered, transactions, meter>>

\* Energy flows, also before the transaction is confirmed.
Charge(c, k) ==
  /\ session[c][k].phase \in {"starting", "charging"}
  /\ meter[c][k] < MaxMeter
  /\ meter' = [meter EXCEPT ![c][k] = meter[c][k] + 1]
  /\ UNCHANGED <<registered, transactions, session>>

\* A session may end before its StartTransaction was answered.
Unplug(c, k) ==
  /\ session[c][k].phase \in {"starting", "charging"}
  /\ session' = [session EXCEPT ![c][k] = Over(session[c][k])]
  /\ UNCHANGED <<registered, transactions, meter>>

\* The charge point never reports the end of a session.
Forget(c, k) ==
  /\ session[c][k].phase = "stopping"
  /\ session' = [session EXCEPT ![c][k] = NoSession]
  /\ UNCHANGED <<registered, transactions, meter>>

-----------------------------------------------------------------------------
(* The handlers.  A call of a charge point without a row fails on the      *)
(* foreign key of the message log: no step.                                *)

\* Mutant: StartTransaction does not look for orphans.
NoOrphans(c, k) == {}

\* The orphans that StartTransaction closes.
Orphans(c, k) == ActiveAt(c, k)

\* Rejected: transactionId 0, no row.  The session is over.
RejectStart(c, k) ==
  /\ c \in registered
  /\ session[c][k].phase = "starting"
  /\ session' = [session EXCEPT ![c][k] = Over(session[c][k])]
  /\ UNCHANGED <<registered, transactions, meter>>

\* Accepted.  When the reply is lost the charge point starts again, and the row
\* of the first call is the orphan of the second.
StartTransaction(c, k) ==
  LET s == session[c][k]
  IN
  /\ c \in registered
  /\ s.phase = "starting"
  /\ \E id \in TxId, delivered \in BOOLEAN :
       /\ IsNext(id)
       /\ transactions' = [Stopped(Orphans(c, k), AllAt(s.start), "Other") EXCEPT
                             ![id] = NewTx(c, k, s.start)]
       /\ session' = IF delivered
                     THEN [session EXCEPT ![c][k] = Confirmed(s, id)]
                     ELSE session
  /\ UNCHANGED <<registered, meter>>

\* Mutant: a meterStop equal to meter_start is taken at its word.
MeterStopStrict(id, meterStop) ==
  IF transactions[id].energy > 0 /\ meterStop < transactions[id].meterStart
  THEN transactions[id].meterStart + transactions[id].energy
  ELSE meterStop

\* "meterStop incoherent": a value that denies the energy consumed is replaced.
MeterStop(id, meterStop) ==
  IF transactions[id].energy > 0 /\ meterStop <= transactions[id].meterStart
  THEN transactions[id].meterStart + transactions[id].energy
  ELSE meterStop

\* Mutant: an absent reason is stored as it is.
ReasonAsGiven(reason, default) == reason

\* reason || default
ReasonOr(reason, default) == IF reason = "none" THEN default ELSE reason

\* The row is found by id alone; an unknown id closes the most recent Active
\* row of the charge point, at the value sent.
StopTransaction(c, k) ==
  LET s == session[c][k]
  IN
  /\ c \in registered
  /\ s.phase = "stopping"
  /\ \E meterStop \in {meter[c][k], s.start}, reason \in {"none", "Remote"},
        delivered \in BOOLEAN :
       /\ IF Exists(s.id)
          THEN transactions' = Stopped({s.id}, AllAt(MeterStop(s.id, meterStop)),
                                       ReasonOr(reason, "Local"))
          ELSE IF ActiveOf(c) # {}
          THEN transactions' = Stopped({Latest(ActiveOf(c))}, AllAt(meterStop),
                                       ReasonOr(reason, "Other"))
          ELSE UNCHANGED transactions
       /\ session' = IF delivered THEN [session EXCEPT ![c][k] = NoSession] ELSE session
  /\ UNCHANGED <<registered, meter>>

\* Mutant: the Active row is looked for on the whole charge point.
MeteredOnChargePoint(c, k, id) == IF Exists(id) THEN {id} ELSE ActiveOf(c)

\* The row a MeterValues is for: its transactionId, else the connector's.
Metered(c, k, id) ==
  IF Exists(id) THEN {id}
  ELSE IF ActiveAt(c, k) = {} THEN {} ELSE {Latest(ActiveAt(c, k))}

\* Values for a closed row, or for none, are dropped.
MeterValues(c, k) ==
  /\ c \in registered
  /\ session[c][k].phase \in {"starting", "charging"}
  /\ \E id \in {session[c][k].id, 0} :
       transactions' = [tx \in TxId |->
         IF tx \in Metered(c, k, id) /\ IsActive(tx)
         THEN [transactions[tx] EXCEPT !.energy = meter[c][k] - transactions[tx].meterStart]
         ELSE transactions[tx]]
  /\ UNCHANGED <<registered, session, meter>>

\* StatusNotification(Available) of a connector the car has left: what is
\* Active on it is closed without energy.
StatusAvailable(c, k) ==
  /\ c \in registered
  /\ session[c][k].phase \in {"idle", "stopping"}
  /\ transactions' =
       IF ActiveAt(c, k) = {} THEN transactions
       ELSE Stopped({Latest(ActiveAt(c, k))}, AtTheirStart, "EVDisconnected")
  /\ UNCHANGED <<registered, session, meter>>

-----------------------------------------------------------------------------
(* The server.                                                             *)

\* disconnectChargepoint ("DeAuthorized"), or a client that speaks another
\* protocol than its row ("PowerLoss").  The session goes on.
CloseAll(c) ==
  /\ c \in registered
  /\ ActiveOf(c) # {}
  /\ \E reason \in {"DeAuthorized", "PowerLoss"} :
       transactions' = Stopped(ActiveOf(c), AtTheirStart, reason)
  /\ UNCHANGED <<registered, session, meter>>

\* resetStateOnStartup
Restart ==
  /\ \E id \in TxId : IsActive(id)
  /\ transactions' = [id \in TxId |->
       IF IsActive(id)
       THEN [transactions[id] EXCEPT
               !.status = "Completed",
               !.meterStop = IF transactions[id].energy # NULL
                             THEN transactions[id].meterStart + transactions[id].energy
                             ELSE transactions[id].meterStop,
               !.energy = NULL,
               !.reason = "Other"]
       ELSE transactions[id]]
  /\ UNCHANGED <<registered, session, meter>>

\* ON DELETE CASCADE: the ids of the rows are free again.
DeleteChargepoint(c) ==
  /\ c \in registered
  /\ registered' = registered \ {c}
  /\ transactions' = [id \in TxId |->
       IF transactions[id].cp = c THEN Free ELSE transactions[id]]
  /\ session' = IF KeepsMemory THEN session
                ELSE [session EXCEPT ![c] = [k \in Connector |-> NoSession]]
  /\ UNCHANGED meter

CreateChargepoint(c) ==
  /\ c \notin registered
  /\ registered' = registered \cup {c}
  /\ UNCHANGED <<transactions, session, meter>>

-----------------------------------------------------------------------------
SessionStep(c, k) == PlugIn(c, k) \/ Charge(c, k) \/ Unplug(c, k) \/ Forget(c, k)

CallStep(c, k) ==
  \/ RejectStart(c, k) \/ StartTransaction(c, k) \/ StopTransaction(c, k)
  \/ MeterValues(c, k) \/ StatusAvailable(c, k)

Next ==
  \/ \E c \in ChargePoint, k \in Connector : SessionStep(c, k) \/ CallStep(c, k)
  \/ \E c \in ChargePoint : CloseAll(c) \/ DeleteChargepoint(c) \/ CreateChargepoint(c)
  \/ Restart

Spec == Init /\ [][Next]_vars

-----------------------------------------------------------------------------
(* Properties.                                                             *)

\* Every row and every session holds values of its kind, and a closed row says
\* why it was closed (stop_reason, stopTransaction).
TypeOK ==
  /\ registered \subseteq ChargePoint
  /\ transactions \in [TxId -> Tx]
  /\ session \in [ChargePoint -> [Connector -> Session]]
  /\ meter \in [ChargePoint -> [Connector -> Nat]]
  /\ \A id \in TxId : transactions[id].status = "Completed" => transactions[id].reason # "none"

\* A connector never has two Active transactions, whatever calls are lost, sent
\* again or answered too late (the orphans of StartTransaction).
OneActivePerConnector ==
  \A a, b \in TxId :
    /\ IsActive(a) /\ IsActive(b)
    /\ transactions[a].cp = transactions[b].cp
    /\ transactions[a].connector = transactions[b].connector
    => a = b

\* The table as a ledger: the record of a row is what it was closed with.
Ledger == INSTANCE Ledger WITH
  Id <- TxId,
  Place <- ChargePoint \X Connector,
  NoPlace <- <<NoChargePoint, NoConnector>>,
  NoRecord <- Free,
  rows <- [id \in TxId |->
    [status |-> transactions[id].status,
     place |-> <<transactions[id].cp, transactions[id].connector>>,
     record |-> IF transactions[id].status = "Completed" THEN transactions[id] ELSE Free]]

\* The handlers, whatever calls are lost, sent again, late or of an unknown id,
\* keep the ledger: a start closes what is open on its connector and nothing
\* else, and a closed transaction is a record that no StopTransaction,
\* MeterValues or restart that comes after it changes.
LedgerIsKept == Ledger!Spec

\* What a transaction stopped by its own StopTransaction bills is at least the
\* energy it showed while Active, also when the charge point's firmware reports
\* a meterStop that does not move (the correction in StopTransaction).
StopKeepsEnergy ==
  \A id \in TxId :
    transactions[id].status = "Completed" /\ transactions[id].reason = "Local" =>
      /\ transactions[id].meterStop >= transactions[id].meterStart
      /\ transactions[id].meterStop >= transactions[id].meterStart + transactions[id].energy

\* The energy shown for an Active transaction was measured by the meter of its
\* connector after it started, whichever transactionId MeterValues carries.
EnergyIsMetered ==
  \A id \in TxId : IsActive(id) /\ transactions[id].energy # NULL =>
    /\ transactions[id].energy >= 0
    /\ transactions[id].energy <=
         meter[transactions[id].cp][transactions[id].connector] - transactions[id].meterStart
=============================================================================

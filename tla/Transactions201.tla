---------------------------- MODULE Transactions201 ----------------------------
(***************************************************************************)
(* Charging transactions of one OCPP 2.0.1 charging station: the rows that *)
(* TransactionEvent of ocpp-server-201.js opens, meters and closes, the    *)
(* connector statuses it writes, and what else closes rows.                *)
(*                                                                         *)
(* Unlike in 1.6 (Transactions16) the station names its transactions, and  *)
(* a connector is identified by its EVSE and its number on that EVSE,      *)
(* while the rows are looked up by the number alone.  The station queues   *)
(* the events of a session in order and sends one again when its answer    *)
(* was lost; StatusNotification is not queued with them.                   *)
(***************************************************************************)
EXTENDS Integers

CONSTANTS Place,      \* connectors: pairs <<EVSE, number>>
          OmitsEvse,  \* may an Updated leave out its evse, or the connector in it
          MaxTxs,     \* bound: transactions the station starts
          MaxMeter    \* bound: highest meter value

ASSUME Transactions201Assumption ==
  /\ Place \subseteq Nat \X Nat
  /\ OmitsEvse \in BOOLEAN
  /\ MaxTxs \in Nat
  /\ MaxMeter \in Nat

VARIABLES transactions,  \* the transactions table, by transaction_id
          connectors,    \* cnstatus of each row of the connectors table
          session,       \* what the station does on each connector
          lastTx,        \* the last id the station gave
          meter          \* its energy meters

\* History variables, which no guard reads: they record the traces that an
\* Updated leaves on a connector or a row it is not about.
VARIABLES astray,   \* connectors whose charging state went to another one, or that
                    \* were shown another's, and have shown none of their own since
          misread   \* rows that were given another connector's energy

strays == <<astray, misread>>

vars == <<transactions, connectors, session, lastTx, meter, strays>>

TxId == 1 .. MaxTxs
NULL == -1 - MaxMeter

NoPlace == <<-1, -1>>

\* The suspended states go the way of Charging.
ChargingState == {"EVConnected", "Charging"}

\* Mutant: the charging state itself is written as the status.
ShownRaw(state) == state

\* CHARGING_STATE_TO_CNSTATUS
Shown(state) == IF state = "EVConnected" THEN "Preparing" ELSE "Charging"

\* "Server" stands for the reasons the server gives itself: Other,
\* EVDisconnected, DeAuthorized, PowerLoss.
Tx == [status: {"none", "Active", "Completed"}, place: Place \cup {NoPlace},
       state: ChargingState \cup {"null"}, meterStart: Nat, meterStop: Int, energy: Int,
       reason: {"none", "Local", "Server"}]

Free == [status |-> "none", place |-> NoPlace, state |-> "null", meterStart |-> 0,
         meterStop |-> NULL, energy |-> NULL, reason |-> "none"]

\* "Unavailable" stands for Reserved and Faulted too.
CnStatus == {"absent", "null", "Available", "Preparing", "Charging", "Finishing",
             "Unavailable"}

\* A session is "starting" until its Started is answered, "ending" once it is
\* over and until its Ended is answered.
Session == [phase: {"idle", "starting", "running", "ending"}, id: TxId \cup {0}, start: Nat]

NoSession == [phase |-> "idle", id |-> 0, start |-> 0]

Exists(id) == transactions[id].status # "none"
IsActive(id) == transactions[id].status = "Active"
Active == {id \in TxId : IsActive(id)}

\* The number of a connector: params.evse.connectorId ?? 1
Number(p) == p[2]

\* The numbers an Updated about p may be taken to be about.
Numbers(p) == IF OmitsEvse THEN {Number(p), 1} ELSE {Number(p)}
ActiveOn(number) == {id \in Active : Number(transactions[id].place) = number}

\* activeTxs.sort by start_time: the station's ids grow with its sessions.
Latest(ids) == CHOOSE id \in ids : \A other \in ids : other <= id

Init ==
  /\ transactions = [id \in TxId |-> Free]
  /\ connectors = [p \in Place |-> "absent"]
  /\ session = [p \in Place |-> NoSession]
  /\ lastTx = 0
  /\ meter = [p \in Place |-> 0]
  /\ astray = {}
  /\ misread = {}

-----------------------------------------------------------------------------
(* The station.                                                            *)

PlugIn(p) ==
  /\ session[p].phase = "idle"
  /\ lastTx < MaxTxs
  /\ lastTx' = lastTx + 1
  /\ session' = [session EXCEPT ![p] = [phase |-> "starting", id |-> lastTx + 1,
                                        start |-> meter[p]]]
  /\ UNCHANGED <<transactions, connectors, meter, strays>>

Charge(p) ==
  /\ session[p].phase \in {"starting", "running"}
  /\ meter[p] < MaxMeter
  /\ meter' = [meter EXCEPT ![p] = meter[p] + 1]
  /\ UNCHANGED <<transactions, connectors, session, lastTx, strays>>

\* TransactionMessageAttempts are used up without an answer to Started or Ended.
GiveUp(p) ==
  /\ \/ /\ session[p].phase = "starting"
        /\ session' = [session EXCEPT ![p].phase = "running"]
     \/ /\ session[p].phase = "ending"
        /\ session' = [session EXCEPT ![p] = NoSession]
  /\ UNCHANGED <<transactions, connectors, lastTx, meter, strays>>

Unplug(p) ==
  /\ session[p].phase = "running"
  /\ session' = [session EXCEPT ![p].phase = "ending"]
  /\ UNCHANGED <<transactions, connectors, lastTx, meter, strays>>

-----------------------------------------------------------------------------
(* TransactionEvent.                                                       *)

\* Mutant: an UPDATE without AND status = 'Active'.
StopsAnyRow(id) == Exists(id)

\* WHERE transaction_id = ? AND status = 'Active'
StopsRow(id) == IsActive(id)

\* stopTransaction of each of ids
Stopped(ids, At, reason) ==
  [id \in TxId |->
     IF id \in ids /\ StopsRow(id)
     THEN [transactions[id] EXCEPT !.status = "Completed", !.state = "null",
                                   !.meterStop = At[id], !.reason = reason]
     ELSE transactions[id]]

AllAt(value) == [id \in TxId |-> value]
AtTheirStart == [id \in TxId |-> transactions[id].meterStart]

\* updateConnectorCnstatus: an UPDATE, nothing when there is no such row
Showing(p, status) ==
  [q \in Place |-> IF q = p /\ connectors[q] # "absent" THEN status ELSE connectors[q]]

\* Started with an idToken that authorizeIdTag refuses: no row; the station
\* ends the session it had begun.
RejectStarted(p) ==
  /\ session[p].phase = "starting"
  /\ session' = [session EXCEPT ![p].phase = "ending"]
  /\ UNCHANGED <<transactions, connectors, lastTx, meter, strays>>

\* Mutant: Started does not look for orphans.
NoOrphans(p) == {}

\* The rows that Started closes: Active on a connector of that number.
Orphans(p) == ActiveOn(Number(p))

\* The orphans are closed first, without a meter value.  When the row exists
\* already, the INSERT fails on its UNIQUE id and the event is answered by an
\* error.  A lost answer leaves the station starting.
Started(p) ==
  LET s == session[p]
      closed == Stopped(Orphans(p), AllAt(NULL), "Server")
  IN
  /\ s.phase = "starting"
  /\ \E state \in ChargingState, meterStart \in {s.start, 0}, answered \in BOOLEAN :
       /\ IF Exists(s.id)
          THEN /\ transactions' = closed
               /\ UNCHANGED <<connectors, astray>>
          ELSE /\ transactions' = [closed EXCEPT ![s.id] =
                    [Free EXCEPT !.status = "Active", !.place = p, !.state = state,
                                 !.meterStart = meterStart]]
               /\ connectors' = Showing(p, Shown(state))
               /\ astray' = astray \ {p}
       /\ session' = IF answered THEN [session EXCEPT ![p].phase = "running"] ELSE session
  /\ UNCHANGED <<lastTx, meter, misread>>

\* The row an Updated is for: its own, else the Active one of the number.
UpdatedRows(id, number) ==
  IF Exists(id) THEN {id} ELSE ActiveOn(number)

\* The state of a row on connector p is shown on another one, or on itself.
Astray(p, shown) ==
  IF p = shown THEN astray \ {p} ELSE astray \cup ({p, shown} \cap Place)

\* The EVSEs an Updated about p may be taken to be on: without an evse, the row's.
Evses(p, number, row) ==
  IF OmitsEvse /\ number = 1 THEN {p[1], row.place[1]} ELSE {p[1]}

\* Updated: charging state and connector status, then the energy.  One that finds
\* no Active row changes nothing.
Updated(p) ==
  /\ session[p].phase = "running"
  /\ \E number \in Numbers(p) :
       LET ids == {id \in UpdatedRows(session[p].id, number) : IsActive(id)}
           row == transactions[Latest(ids)]
       IN
       /\ ids # {}
       /\ \E evse \in Evses(p, number, row), state \in ChargingState \cup {"null"},
             energy \in {meter[p], NULL} :
            /\ transactions' = [id \in TxId |->
                 IF id \in ids
                 THEN [transactions[id] EXCEPT
                         !.state = IF state = "null" THEN transactions[id].state ELSE state,
                         !.energy = IF energy = NULL THEN transactions[id].energy
                                    ELSE energy - transactions[id].meterStart]
                 ELSE transactions[id]]
            /\ IF state = "null"
               THEN UNCHANGED <<connectors, astray>>
               ELSE /\ connectors' = Showing(<<evse, number>>, Shown(state))
                    /\ astray' = Astray(row.place, <<evse, number>>)
            /\ misread' = IF energy = NULL \/ row.place = p THEN misread
                          ELSE misread \cup ids
  /\ UNCHANGED <<session, lastTx, meter>>

\* Mutant: only a meterStop that was sent is corrected.
MeterStopGiven(id, meterStop) ==
  IF IsActive(id) /\ transactions[id].energy > 0 /\ meterStop # NULL
     /\ meterStop <= transactions[id].meterStart
  THEN transactions[id].meterStart + transactions[id].energy
  ELSE meterStop

\* "meterStop incohérent": absent, or denying the energy consumed
MeterStop(id, meterStop) ==
  IF /\ IsActive(id) /\ transactions[id].energy > 0
     /\ (meterStop = NULL \/ meterStop <= transactions[id].meterStart)
  THEN transactions[id].meterStart + transactions[id].energy
  ELSE meterStop

\* Ended finds its row by id, and when there is none takes the station's most
\* recent Active one; the connector of the row is shown Finishing even if the
\* row was closed before.
Ended(p) ==
  LET own == session[p].id
      ids == IF Exists(own) THEN {own} ELSE IF Active = {} THEN {} ELSE {Latest(Active)}
  IN
  /\ session[p].phase = "ending"
  /\ \E meterStop \in {meter[p], session[p].start, NULL}, answered \in BOOLEAN :
       /\ transactions' = Stopped(ids, AllAt(MeterStop(own, meterStop)), "Local")
       /\ connectors' = IF ids = {} THEN connectors
                        ELSE Showing(transactions[Latest(ids)].place, "Finishing")
       /\ session' = IF answered THEN [session EXCEPT ![p] = NoSession] ELSE session
  /\ UNCHANGED <<lastTx, meter, strays>>

-----------------------------------------------------------------------------
(* StatusNotification.                                                     *)

\* Mutant: Occupied always shows Preparing.
ShownCoarse(number) == "Preparing"

\* Occupied is coarse: the charging state of the Active row is shown instead.
ShownOccupied(number) ==
  IF ActiveOn(number) = {} THEN "Preparing"
  ELSE Shown(transactions[Latest(ActiveOn(number))].state)

StatusOccupied(p) ==
  /\ session[p].phase # "idle"
  /\ connectors' = [connectors EXCEPT ![p] = ShownOccupied(Number(p))]
  /\ astray' = astray \ {p}
  /\ UNCHANGED <<transactions, session, lastTx, meter, misread>>

StatusUnavailable(p) ==
  /\ connectors' = [connectors EXCEPT ![p] = "Unavailable"]
  /\ astray' = astray \ {p}
  /\ UNCHANGED <<transactions, session, lastTx, meter, misread>>

\* Available of a connector whose cable left: the Active row of the number is
\* closed without energy.
StatusAvailable(p) ==
  /\ session[p].phase \in {"idle", "ending"}
  /\ connectors' = [connectors EXCEPT ![p] = "Available"]
  /\ transactions' = Stopped(ActiveOn(Number(p)), AtTheirStart, "Server")
  /\ astray' = astray \ {p}
  /\ UNCHANGED <<session, lastTx, meter, misread>>

-----------------------------------------------------------------------------
(* The server.                                                             *)

\* disconnectChargepoint, or a client that speaks 1.6
CloseAll ==
  /\ Active # {}
  /\ transactions' = Stopped(Active, AtTheirStart, "Server")
  /\ UNCHANGED <<connectors, session, lastTx, meter, strays>>

NoStatus == [p \in Place |-> IF connectors[p] = "absent" THEN "absent" ELSE "null"]

\* resetConnectorsByChargepoint, at every close event
Disconnected ==
  /\ connectors' = NoStatus
  /\ astray' = {}
  /\ UNCHANGED <<transactions, session, lastTx, meter, misread>>

\* resetStateOnStartup
Restart ==
  /\ connectors' = NoStatus
  /\ transactions' = [id \in TxId |->
       IF IsActive(id)
       THEN [transactions[id] EXCEPT
               !.status = "Completed", !.state = "null",
               !.meterStop = IF transactions[id].energy # NULL
                             THEN transactions[id].meterStart + transactions[id].energy
                             ELSE transactions[id].meterStop,
               !.energy = NULL,
               !.reason = "Server"]
       ELSE transactions[id]]
  /\ astray' = {}
  /\ UNCHANGED <<session, lastTx, meter, misread>>

\* The station is deleted (ON DELETE CASCADE), registered again and reconnects.
Reregister ==
  /\ transactions' = [id \in TxId |-> Free]
  /\ connectors' = [p \in Place |-> "absent"]
  /\ astray' = {}
  /\ misread' = {}
  /\ UNCHANGED <<session, lastTx, meter>>

-----------------------------------------------------------------------------
PlaceStep(p) ==
  \/ PlugIn(p) \/ Charge(p) \/ GiveUp(p) \/ Unplug(p)
  \/ RejectStarted(p) \/ Started(p) \/ Updated(p) \/ Ended(p)
  \/ StatusOccupied(p) \/ StatusUnavailable(p) \/ StatusAvailable(p)

Next ==
  \/ \E p \in Place : PlaceStep(p)
  \/ CloseAll \/ Disconnected \/ Restart \/ Reregister

Spec == Init /\ [][Next]_vars

-----------------------------------------------------------------------------
(* Properties.                                                             *)

\* Rows, statuses and sessions hold values of their kinds.
TypeOK ==
  /\ transactions \in [TxId -> Tx]
  /\ connectors \in [Place -> CnStatus]
  /\ session \in [Place -> Session]
  /\ lastTx \in TxId \cup {0}
  /\ meter \in [Place -> Nat]
  /\ astray \subseteq Place
  /\ misread \subseteq TxId

\* Two Active rows are never on connectors of the same number, whatever events
\* are lost, sent again or out of step with StatusNotification: the lookups by
\* number find one row (getActiveTransactionByConnector).
OneActivePerNumber ==
  \A a, b \in Active :
    Number(transactions[a].place) = Number(transactions[b].place) => a = b

\* The table as a ledger: the record of a row is what it was closed with.
Ledger == INSTANCE Ledger WITH
  Id <- TxId,
  Place <- {Number(p) : p \in Place},
  NoPlace <- Number(NoPlace),
  NoRecord <- Free,
  rows <- [id \in TxId |->
    [status |-> transactions[id].status,
     place |-> Number(transactions[id].place),
     record |-> IF transactions[id].status = "Completed" THEN transactions[id] ELSE Free]]

\* The handlers, whatever events are lost, sent again, late or of an id that has
\* no row, keep the ledger of the connector numbers: a Started opens one row and
\* closes those of its number, and no event changes or reopens a closed one.
LedgerIsKept == Ledger!Spec

\* An Ended that finds its row Active bills at least the energy the row showed,
\* also when its meter value is missing or has not moved, provided Started told
\* the meter value.  The exception is a row that was given the energy of another
\* connector: an Updated whose Started was lost meters the Active row of its number.
EndedKeepsEnergy ==
  [][\A p \in Place : LET id == session[p].id IN
       /\ id \in Active \ misread /\ transactions[id].energy > 0
       /\ transactions[id].meterStart = session[p].start /\ Ended(p)
       => transactions'[id].meterStop >= transactions[id].meterStart + transactions[id].energy
     ]_vars

\* While its transaction is Active a connector shows that transaction's charging
\* state, whichever of Occupied and TransactionEvent comes first and after a
\* reconnection: only a status of its own, or none, replaces it.  The exceptions
\* are the connectors gone astray.  An Updated without evse shows the state of a
\* row on connector 1 of its EVSE, whatever connector the row is on; one whose
\* Started was lost changes the Active row of its number, and shows it on its own
\* connector.  Both connectors may be wrong, until the next status of each.
ActiveIsShown ==
  \A id \in Active :
    \/ transactions[id].place \in astray
    \/ connectors[transactions[id].place] \in
         {Shown(transactions[id].state), "Unavailable", "null", "absent"}

\* "Fermer les transactions orphelines sur le même connecteur": the rows that a
\* Started closes are those of its own connector.
OrphansAreOnTheConnector ==
  [][\A id, new \in TxId :
       /\ IsActive(id) /\ transactions'[id].status = "Completed"
       /\ ~Exists(new) /\ transactions'[new].status = "Active"
       => transactions[id].place = transactions'[new].place]_vars

\* An Ended without a row of its own is ignored, or closes a transaction that
\* is over: it never closes one that the station runs on another connector.
EndedClosesWhatIsOver ==
  [][\A id \in TxId : IsActive(id) /\ transactions'[id].reason = "Local" =>
       \A p \in Place : session[p].id = id => session[p].phase # "running"]_vars
=============================================================================

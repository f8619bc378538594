------------------------------ MODULE Reservations ------------------------------
(***************************************************************************)
(* Connector reservations of one charge point: the rows of the table       *)
(* reservations, the manager requests and the cleanup timer that await an  *)
(* answer of the charge point before they write them, the handlers that    *)
(* move them along, and the charge point, which keeps its own list.        *)
(*                                                                         *)
(* A charge point handles a call and its answer is processed before what   *)
(* it sends afterwards; only the answer of ReserveNow may be overtaken, by *)
(* the StatusNotification of the connector it reserved.  A call that fails *)
(* or times out may have been handled all the same.                        *)
(***************************************************************************)
EXTENDS Integers, FiniteSets

CONSTANTS Connectors,  \* connectors in 1.6, EVSEs in 2.0.1
          Tags,        \* idTags
          NoTag,
          Managers,    \* requests of managers that may overlap
          MaxRows      \* bound: reservations ever created

ASSUME ReservationsAssumption ==
  /\ NoTag \notin Tags
  /\ IsFiniteSet(Managers)
  /\ MaxRows \in Nat

VARIABLES version,       \* ocpp_version of the charge point
          reservations,  \* the table reservations, by id
          lastRow,       \* its AUTOINCREMENT
          posts,         \* the POST requests awaiting ReserveNow
          withdrawals,   \* the calls of CancelReservation awaited, and why
          serving,       \* id_tag of the Active transaction of each connector
          held,          \* what the charge point has reserved
          session        \* who charges on it

server == <<version, reservations, lastRow, posts, withdrawals, serving>>
vars == <<version, reservations, lastRow, posts, withdrawals, serving, held, session>>

Rows == 1 .. MaxRows

Live == {"Pending", "Active", "InUse"}
Terminated == {"Cancelled", "Expired", "Fulfilled"}

Row == [status: {"none"} \cup Live \cup Terminated, id: Nat, connector: Connectors \cup {0},
        tag: Tags \cup {NoTag}]

NoRow == [status |-> "none", id |-> 0, connector |-> 0, tag |-> NoTag]

Post == [phase: {"idle", "sent", "granted"}, id: Nat, connector: Connectors \cup {0},
         tag: Tags \cup {NoTag}]

NoPost == [phase |-> "idle", id |-> 0, connector |-> 0, tag |-> NoTag]

\* What a charge point holds; "confirmed" once the manager was told so.
Held == [id: Nat, tag: Tags \cup {NoTag}, confirmed: BOOLEAN]
NotHeld == [id |-> 0, tag |-> NoTag, confirmed |-> FALSE]

Session == [phase: {"idle", "starting", "running", "ending"}, tag: Tags \cup {NoTag}, id: Nat]
NoSession == [phase |-> "idle", tag |-> NoTag, id |-> 0]

Init ==
  /\ version \in {"1.6", "2.0.1"}
  /\ reservations = [r \in Rows |-> NoRow]
  /\ lastRow = 0
  /\ posts = [m \in Managers |-> NoPost]
  /\ withdrawals = {}
  /\ serving = [c \in Connectors |-> NoTag]
  /\ held = [c \in Connectors |-> NotHeld]
  /\ session = [c \in Connectors |-> NoSession]

-----------------------------------------------------------------------------
(* The table.                                                              *)

IsLive(r) == reservations[r].status \in Live
Of(c) == {r \in Rows : reservations[r].connector = c}
OfTag(c, tag) == {r \in Of(c) : reservations[r].tag = tag}

\* UPDATE reservations SET status = to for rows among ids
Marked(ids, from, to) ==
  [r \in Rows |-> IF r \in ids /\ reservations[r].status \in from
                  THEN [reservations[r] EXCEPT !.status = to] ELSE reservations[r]]

\* updateReservationStatus: whatever the status was, if the row is still there
Overwritten(r, to) == Marked({r}, Live \cup Terminated, to)

\* Mutant: a reservation in use does not keep its id.
TakenIdsUnused == {reservations[r].id : r \in {q \in Rows : reservations[q].status \in {"Pending", "Active"}}}

TakenIds == {reservations[r].id : r \in {q \in Rows : IsLive(q)}}

\* getNextReservationId
NextReservationId(taken) ==
  1 + CHOOSE n \in taken \cup {0} : \A id \in taken : id <= n

\* Mutant: whatever the status was.
ActivatedAny(c) == Marked(Of(c), Live \cup Terminated, "Active")

\* activateReservationByConnector, activateReservationByEvse
Activated(c) == Marked(Of(c), {"Pending"}, "Active")

\* startUsingReservationByConnectorAndIdTag
Using(c, tag) == Marked(OfTag(c, tag), {"Active"}, "InUse")

\* Mutant: everything that is not terminated expires.
ExpiringLive == Live

\* The statuses that expireActiveReservationByConnector takes.
Expiring == {"Pending", "Active"}

\* expireActiveReservationByConnector, then fulfillInUseReservationByConnector
Freed(c) ==
  [r \in Rows |->
     IF r \in Of(c) /\ reservations[r].status \in Expiring
     THEN [reservations[r] EXCEPT !.status = "Expired"]
     ELSE IF r \in Of(c) /\ reservations[r].status = "InUse"
     THEN [reservations[r] EXCEPT !.status = "Fulfilled"]
     ELSE reservations[r]]

\* getReservationByOcppId: the oldest row with that id, live or not
ByOcppId(id) ==
  {r \in Rows : /\ reservations[r].status # "none" /\ reservations[r].id = id
                /\ \A q \in Rows : reservations[q].status # "none" /\ reservations[q].id = id
                                     => r <= q}

-----------------------------------------------------------------------------
(* Managers, and the cleanup timer.                                        *)

Open == {m \in Managers : posts[m].phase # "idle"}

\* POST reservations: the id is read before the answer is awaited.
Reserve(m, c, tag) ==
  /\ posts[m].phase = "idle"
  /\ lastRow + Cardinality(Open) < MaxRows
  /\ posts' = [posts EXCEPT ![m] = [phase |-> "sent", id |-> NextReservationId(TakenIds),
                                    connector |-> c, tag |-> tag]]
  /\ UNCHANGED <<version, reservations, lastRow, withdrawals, serving, held, session>>

\* The charge point accepts; an id it holds already moves to the new place.
Granted(m) ==
  LET p == posts[m] IN
  /\ p.phase = "sent"
  /\ session[p.connector] = NoSession
  /\ held[p.connector].id \in {0, p.id}
  /\ posts' = [posts EXCEPT ![m].phase = "granted"]
  /\ held' = [c \in Connectors |->
                IF c = p.connector THEN [id |-> p.id, tag |-> p.tag, confirmed |-> FALSE]
                ELSE IF held[c].id = p.id THEN NotHeld ELSE held[c]]
  /\ UNCHANGED <<version, reservations, lastRow, withdrawals, serving, session>>

\* status === 'Accepted': the row is created, Pending.
Reserved(m) ==
  LET p == posts[m] IN
  /\ p.phase = "granted"
  /\ lastRow' = lastRow + 1
  /\ reservations' = [reservations EXCEPT ![lastRow + 1] =
       [status |-> "Pending", id |-> p.id, connector |-> p.connector, tag |-> p.tag]]
  /\ posts' = [posts EXCEPT ![m] = NoPost]
  /\ held' = [c \in Connectors |->
                IF c = p.connector /\ held[c].id = p.id
                THEN [held[c] EXCEPT !.confirmed = TRUE] ELSE held[c]]
  /\ UNCHANGED <<version, withdrawals, serving, session>>

\* Refused, offline, or no answer in time, whatever the charge point did.
ReserveFails(m) ==
  /\ posts[m].phase # "idle"
  /\ posts' = [posts EXCEPT ![m] = NoPost]
  /\ UNCHANGED <<version, reservations, lastRow, withdrawals, serving, held, session>>

\* DELETE reservations/:id, in any status
Cancel(r) ==
  /\ reservations[r].status # "none"
  /\ withdrawals' = withdrawals \cup {<<r, "Cancelled">>}
  /\ UNCHANGED <<version, reservations, lastRow, posts, serving, held, session>>

\* getExpiredActiveReservations: the timer lists a row when the clock says so.
Cleanup(r) ==
  /\ reservations[r].status \in {"Pending", "Active"}
  /\ withdrawals' = withdrawals \cup {<<r, "Expired">>}
  /\ UNCHANGED <<version, reservations, lastRow, posts, serving, held, session>>

HoldersOf(id) == {c \in Connectors : held[c].id = id /\ id # 0}

\* Mutant: the status of the answer is not looked at.
AnyAnswer(accepted) == TRUE

\* status === 'Accepted'
Accepted(accepted) == accepted

\* CancelReservation is answered; the row may have changed in the meantime.
Withdrawn(w) ==
  LET r == w[1]
      at == HoldersOf(reservations[r].id)
  IN
  /\ w \in withdrawals
  /\ \E accepted \in {at # {}, FALSE} :
       /\ reservations' = IF Accepted(accepted) THEN Overwritten(r, w[2]) ELSE reservations
       /\ held' = IF accepted THEN [c \in Connectors |-> IF c \in at THEN NotHeld ELSE held[c]]
                  ELSE held
  /\ withdrawals' = withdrawals \ {w}
  /\ UNCHANGED <<version, lastRow, posts, serving, session>>

\* The answer is lost after the charge point gave up the reservation.
WithdrawalTimesOut(w) ==
  /\ w \in withdrawals
  /\ withdrawals' = withdrawals \ {w}
  /\ held' = [c \in Connectors |->
                IF c \in HoldersOf(reservations[w[1]].id) THEN NotHeld ELSE held[c]]
  /\ UNCHANGED <<version, reservations, lastRow, posts, serving, session>>

\* DELETE reservations/:id/delete, refused for a live one
Delete(r) ==
  /\ reservations[r].status \in Terminated
  /\ reservations' = [reservations EXCEPT ![r] = NoRow]
  /\ UNCHANGED <<version, lastRow, posts, withdrawals, serving, held, session>>

-----------------------------------------------------------------------------
(* The charge point.                                                       *)

\* A session begins, and uses up a reservation for its tag.
Begin(c, tag) ==
  /\ session[c] = NoSession
  /\ held[c] = NotHeld \/ held[c].tag = tag
  /\ session' = [session EXCEPT ![c] = [phase |-> "starting", tag |-> tag, id |-> held[c].id]]
  /\ held' = [held EXCEPT ![c] = NotHeld]
  /\ UNCHANGED server

GiveUp(c) ==
  /\ session[c].phase = "starting"
  /\ session' = [session EXCEPT ![c].phase = "running"]
  /\ UNCHANGED <<server, held>>

Unplug(c) ==
  /\ session[c].phase = "running"
  /\ session' = [session EXCEPT ![c].phase = "ending"]
  /\ UNCHANGED <<server, held>>

\* The rows a start puts InUse: by the id it names, in 2.0.1 else by the tag.
Started(c, tag, id) ==
  IF id # 0 THEN Marked({r \in ByOcppId(id) : reservations[r].tag = tag}, {"Active"}, "InUse")
  ELSE IF version = "2.0.1" THEN Using(c, tag) ELSE reservations

\* StartTransaction, TransactionEvent(Started)
StartTransaction(c) ==
  LET s == session[c] IN
  /\ s.phase = "starting"
  /\ serving' = [serving EXCEPT ![c] = s.tag]
  /\ \E id \in {s.id, 0}, answered \in BOOLEAN :
       /\ reservations' = Started(c, s.tag, id)
       /\ session' = IF answered THEN [session EXCEPT ![c].phase = "running"] ELSE session
  /\ UNCHANGED <<version, lastRow, posts, withdrawals, held>>

\* StopTransaction, TransactionEvent(Ended): of a transaction that is Active or
\* was closed before; of one that is unknown, an Active one elsewhere is taken.
StopTransaction(c) ==
  LET s == session[c] IN
  /\ s.phase = "ending"
  /\ \E d \in {c} \cup {k \in Connectors : serving[c] = NoTag /\ serving[k] # NoTag} :
       LET tag == IF serving[d] = NoTag THEN s.tag ELSE serving[d] IN
       /\ reservations' = Marked(OfTag(d, tag), {"InUse"}, "Fulfilled")
       /\ serving' = [serving EXCEPT ![d] = NoTag]
  /\ \E answered \in BOOLEAN :
       session' = IF answered THEN [session EXCEPT ![c] = NoSession] ELSE session
  /\ UNCHANGED <<version, lastRow, posts, withdrawals, held>>

\* StatusNotification(Reserved)
StatusReserved(c) ==
  /\ session[c] = NoSession /\ held[c] # NotHeld
  /\ reservations' = Activated(c)
  /\ UNCHANGED <<version, lastRow, posts, withdrawals, serving, held, session>>

\* StatusNotification(Charging, SuspendedEV, SuspendedEVSE)
StatusCharging(c) ==
  /\ session[c].phase \in {"starting", "running"}
  /\ serving[c] # NoTag
  /\ reservations' = Using(c, serving[c])
  /\ UNCHANGED <<version, lastRow, posts, withdrawals, serving, held, session>>

\* StatusNotification(Available) closes the transaction too.
StatusAvailable(c) ==
  /\ session[c].phase \in {"idle", "ending"} /\ held[c] = NotHeld
  /\ reservations' = Freed(c)
  /\ serving' = [serving EXCEPT ![c] = NoTag]
  /\ UNCHANGED <<version, lastRow, posts, withdrawals, held, session>>

\* A connector that goes Faulted or Unavailable gives up its reservation.
StatusFaulted(c) ==
  /\ held' = [held EXCEPT ![c] = NotHeld]
  /\ \E told \in BOOLEAN : reservations' = IF told THEN Freed(c) ELSE reservations
  /\ UNCHANGED <<version, lastRow, posts, withdrawals, serving, session>>

\* Mutant: the update is written as it came.
NewStatusRaw(update) == update

\* statusMap
NewStatus(update) == "Expired"

\* A reservation ends on the charge point's clock; only 2.0.1 says so, by
\* ReservationStatusUpdate.
ReservationEnds(c) ==
  /\ held[c] # NotHeld
  /\ held' = [held EXCEPT ![c] = NotHeld]
  /\ \E told \in {FALSE, version = "2.0.1"}, update \in {"Expired", "Removed"} :
       reservations' = IF told
                       THEN Marked(ByOcppId(held[c].id), Live \cup Terminated, NewStatus(update))
                       ELSE reservations
  /\ UNCHANGED <<version, lastRow, posts, withdrawals, serving, session>>

-----------------------------------------------------------------------------
(* The server.                                                             *)

\* disconnectChargepoint, a change of protocol
TransactionClosed(c) ==
  /\ serving[c] # NoTag
  /\ serving' = [serving EXCEPT ![c] = NoTag]
  /\ UNCHANGED <<version, reservations, lastRow, posts, withdrawals, held, session>>

\* What was awaited is forgotten; the table is kept as it is.
Restart ==
  /\ posts' = [m \in Managers |-> NoPost]
  /\ withdrawals' = {}
  /\ serving' = [c \in Connectors |-> NoTag]
  /\ UNCHANGED <<version, reservations, lastRow, held, session>>

-----------------------------------------------------------------------------
ManagerStep ==
  \/ \E m \in Managers : \/ \E c \in Connectors, tag \in Tags : Reserve(m, c, tag)
                         \/ Granted(m) \/ Reserved(m) \/ ReserveFails(m)
  \/ \E r \in Rows : Cancel(r) \/ Cleanup(r) \/ Delete(r)
  \/ \E w \in withdrawals : Withdrawn(w) \/ WithdrawalTimesOut(w)

ConnectorStep(c) ==
  \/ \E tag \in Tags : Begin(c, tag)
  \/ GiveUp(c) \/ Unplug(c) \/ StartTransaction(c) \/ StopTransaction(c)
  \/ StatusReserved(c) \/ StatusCharging(c) \/ StatusAvailable(c) \/ StatusFaulted(c)
  \/ ReservationEnds(c) \/ TransactionClosed(c)

Next ==
  \/ ManagerStep
  \/ \E c \in Connectors : ConnectorStep(c)
  \/ Restart

Spec == Init /\ [][Next]_vars

-----------------------------------------------------------------------------
(* Properties.                                                             *)

\* Rows, requests and reservations hold values of their kinds.
TypeOK ==
  /\ version \in {"1.6", "2.0.1"}
  /\ reservations \in [Rows -> Row]
  /\ lastRow \in Rows \cup {0}
  /\ posts \in [Managers -> Post]
  /\ withdrawals \subseteq Rows \X {"Cancelled", "Expired"}
  /\ serving \in [Connectors -> Tags \cup {NoTag}]
  /\ held \in [Connectors -> Held]
  /\ session \in [Connectors -> Session]

\* Two live reservations of the charge point never share the id that
\* ReserveNow and CancelReservation name them by, although ids of terminated
\* ones are given again and one is chosen before its row exists: as long as
\* requests do not overlap (one manager).
LiveIdsDiffer ==
  \A r, q \in Rows : IsLive(r) /\ IsLive(q) /\ reservations[r].id = reservations[q].id => r = q

\* A reservation that was answered to its manager and that the charge point
\* still holds is live in the table, for that connector and tag: no cancel, late
\* cleanup, notification or reused id ends the row before the charge point lets
\* go of the reservation (one manager).
HeldIsLive ==
  \A c \in Connectors : held[c].confirmed =>
    \E r \in OfTag(c, held[c].tag) : IsLive(r) /\ reservations[r].id = held[c].id

\* While a session of its tag charges on its connector, a reservation in use is
\* not Cancelled or Expired, although a cancel or a cleanup begun before it was
\* used overwrites the status whatever it has become (one manager).
UsedIsNotWithdrawn ==
  [][\A r \in Rows, c \in Connectors :
       /\ reservations[r].status = "InUse" /\ r \in OfTag(c, session[c].tag)
       => reservations'[r].status \in {"InUse", "Fulfilled"}]_vars

\* A terminated reservation is never revived by a late notification, a start
\* that names its id, or a request that was waiting.
TerminatedStays ==
  [][\A r \in Rows : reservations[r].status \in Terminated
       => reservations'[r].status \in Terminated \cup {"none"}]_vars
=============================================================================

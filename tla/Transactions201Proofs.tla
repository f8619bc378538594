------------------------ MODULE Transactions201Proofs ------------------------
(***************************************************************************)
(* For every set of connectors, and every bound: the invariants of the     *)
(* transactions table of Transactions201, and that the table is a Ledger   *)
(* of the connector numbers.                                               *)
(***************************************************************************)
EXTENDS Transactions201, WellFoundedInduction, TLAPS

Reason == {"Local", "Server"}

\* A session got its id when it began.
SessionsHaveIds == \A p \in Place : session[p].phase # "idle" => session[p].id \in TxId

IInv == TypeOK /\ SessionsHaveIds /\ OneActivePerNumber

\* What the steps do to the rows: an Active one may be closed where it is,
OnlyCloses ==
  \A id \in TxId :
    \/ transactions'[id] = transactions[id]
    \/ /\ IsActive(id) /\ transactions'[id].status # "none"
       /\ transactions'[id].place = transactions[id].place

\* where an Active one that is left is left as it was (but by Updated);
RowsKept ==
  \A id \in TxId : transactions'[id].status = "Active" => transactions'[id] = transactions[id]

\* the free id of a session may get a row, which closes those of its number,
Inserts(p) ==
  \E id \in TxId :
    /\ id = session[p].id /\ transactions[id].status = "none"
    /\ transactions'[id].status = "Active" /\ transactions'[id].place = p
    /\ transactions'[id].energy = NULL
    /\ \A other \in TxId \ {id} :
         IF other \in ActiveOn(Number(p))
         THEN /\ transactions'[other].status = "Completed"
              /\ transactions'[other].place = transactions[other].place
         ELSE transactions'[other] = transactions[other]

\* or all rows may go.
Clears == transactions' = [id \in TxId |-> Free]

-----------------------------------------------------------------------------
(* Rows, statuses and sessions.                                            *)

LEMMA NullIsInt == NULL \in Int
  BY Transactions201Assumption DEF NULL

LEMMA FreeIsTx == Free \in Tx /\ Free.status = "none"
  BY NullIsInt DEF Free, Tx

LEMMA StatusTypes ==
  ASSUME TypeOK
  PROVE  /\ NoStatus \in [Place -> CnStatus]
         /\ \A p : \A status \in CnStatus : Showing(p, status) \in [Place -> CnStatus]
         /\ \A state : Shown(state) \in CnStatus
         /\ \A number : ShownOccupied(number) \in CnStatus
<1>1. \A state : Shown(state) \in CnStatus
  BY DEF Shown, CnStatus
<1>2. \A number : ShownOccupied(number) \in CnStatus
  BY <1>1 DEF ShownOccupied, CnStatus
<1>3. NoStatus \in [Place -> CnStatus]
  BY DEF NoStatus, TypeOK, CnStatus
<1>4. \A p : \A status \in CnStatus : Showing(p, status) \in [Place -> CnStatus]
  BY DEF Showing, TypeOK
<1> QED
  BY <1>1, <1>2, <1>3, <1>4

LEMMA SessionUpdate ==
  ASSUME TypeOK, SessionsHaveIds, NEW p \in Place, NEW s \in Session,
         s.phase # "idle" => s.id \in TxId,
         session' \in {session, [session EXCEPT ![p] = s]}
  PROVE  session' \in [Place -> Session] /\ SessionsHaveIds'
BY DEF TypeOK, SessionsHaveIds

LEMMA PhaseUpdate ==
  ASSUME TypeOK, SessionsHaveIds, NEW p \in Place, session[p].phase # "idle",
         NEW phase \in {"starting", "running", "ending"},
         session' \in {session, [session EXCEPT ![p].phase = phase]}
  PROVE  session' \in [Place -> Session] /\ SessionsHaveIds'
<1> DEFINE s == [session[p] EXCEPT !.phase = phase]
<1>1. session[p] \in Session /\ session[p].id \in TxId
  BY DEF TypeOK, SessionsHaveIds
<1>2. s \in Session /\ s.id \in TxId
  BY <1>1 DEF Session
<1>3. session' \in {session, [session EXCEPT ![p] = s]}
  BY DEF TypeOK
<1> HIDE DEF s
<1> QED
  BY <1>2, <1>3, SessionUpdate

LEMMA NoSessionUpdate ==
  ASSUME TypeOK, SessionsHaveIds, NEW p \in Place,
         session' \in {session, [session EXCEPT ![p] = NoSession]}
  PROVE  session' \in [Place -> Session] /\ SessionsHaveIds'
<1>1. NoSession \in Session /\ NoSession.phase = "idle"
  BY DEF NoSession, Session
<1> QED
  BY <1>1, SessionUpdate

\* What a list of stopTransaction calls leaves of the table.
LEMMA StoppedRows ==
  ASSUME TypeOK, NEW ids, NEW At \in [TxId -> Int], NEW reason \in Reason
  PROVE  /\ Stopped(ids, At, reason) \in [TxId -> Tx]
         /\ \A id \in TxId :
              LET row == Stopped(ids, At, reason)[id] IN
              /\ row.place = transactions[id].place
              /\ IF id \in ids /\ IsActive(id) THEN row.status = "Completed"
                 ELSE row = transactions[id]
<1> DEFINE T == Stopped(ids, At, reason)
<1>1. ASSUME NEW id \in TxId
      PROVE  /\ T[id] \in Tx
             /\ T[id].place = transactions[id].place
             /\ IF id \in ids /\ IsActive(id) THEN T[id].status = "Completed"
                ELSE T[id] = transactions[id]
  <2> DEFINE row == [transactions[id] EXCEPT !.status = "Completed", !.state = "null",
                                             !.meterStop = At[id], !.reason = reason]
  <2>1. transactions[id] \in Tx /\ At[id] \in Int
    BY DEF TypeOK
  <2>2. T[id] = IF id \in ids /\ IsActive(id) THEN row ELSE transactions[id]
    BY DEF Stopped, StopsRow
  <2>3. row \in Tx /\ row.status = "Completed" /\ row.place = transactions[id].place
    BY <2>1 DEF Tx, Reason
  <2> HIDE DEF row, T
  <2> QED
    BY <2>1, <2>2, <2>3
<1>2. T \in [TxId -> Tx]
  BY <1>1 DEF Stopped
<1> QED
  BY <1>1, <1>2

LEMMA StopOnlyCloses ==
  ASSUME TypeOK, NEW ids, NEW At \in [TxId -> Int], NEW reason \in Reason,
         transactions' = Stopped(ids, At, reason)
  PROVE  transactions' \in [TxId -> Tx] /\ OnlyCloses /\ RowsKept
<1>1. ASSUME NEW id \in TxId
      PROVE  /\ transactions'[id].place = transactions[id].place
             /\ IF id \in ids /\ IsActive(id) THEN transactions'[id].status = "Completed"
                ELSE transactions'[id] = transactions[id]
  <2>1. \A tx \in TxId :
          LET row == Stopped(ids, At, reason)[tx] IN
          /\ row.place = transactions[tx].place
          /\ IF tx \in ids /\ IsActive(tx) THEN row.status = "Completed"
             ELSE row = transactions[tx]
    BY StoppedRows
  <2> QED
    BY <2>1
<1>2. OnlyCloses /\ RowsKept
  BY <1>1 DEF OnlyCloses, RowsKept
<1> QED
  BY <1>2, StoppedRows

LEMMA StartsAreInts ==
  ASSUME TypeOK
  PROVE  /\ AtTheirStart \in [TxId -> Int]
         /\ \A value \in Int : AllAt(value) \in [TxId -> Int]
BY DEF AtTheirStart, AllAt, TypeOK, Tx

-----------------------------------------------------------------------------
(* Single rows.                                                            *)

LEMMA Least ==
  ASSUME NEW S \in SUBSET Nat, S # {}
  PROVE  \E m \in S : \A n \in S : m <= n
<1>1. PICK m \in S : \A n \in S : <<n, m>> \notin OpToRel(<, Nat)
  BY WFMin, NatLessThanWellFounded, Zenon
<1>2. \A n \in S : ~(n < m)
  BY <1>1 DEF OpToRel
<1> QED
  BY <1>2

LEMMA LatestOfSome ==
  ASSUME NEW ids \in SUBSET TxId, ids # {}
  PROVE  Latest(ids) \in ids
<1> DEFINE rest == {MaxTxs - id : id \in ids}
<1>1. rest \in SUBSET Nat /\ rest # {}
  <2>1. \A id \in ids : MaxTxs - id \in Nat
    BY Transactions201Assumption DEF TxId
  <2> QED
    BY <2>1
<1>2. PICK d \in rest : \A e \in rest : d <= e
  <2> HIDE DEF rest
  <2> QED
    BY <1>1, Least
<1>3. PICK last \in ids : d = MaxTxs - last
  BY <1>2
<1>4. \A id \in ids : id <= last
  BY <1>2, <1>3, Transactions201Assumption DEF TxId
<1> QED
  BY <1>4 DEF Latest

LEMMA LatestOfOne ==
  ASSUME NEW id \in TxId
  PROVE  Latest({id}) = id
BY LatestOfSome

LEMMA OneOfNumber ==
  ASSUME IInv, NEW number, NEW id \in ActiveOn(number)
  PROVE  ActiveOn(number) = {id}
BY DEF IInv, OneActivePerNumber, ActiveOn

-----------------------------------------------------------------------------
(* The steps: each keeps the types, and does to the rows one of the three. *)

\* What the other parts of a step leave to show of it.
Fits ==
  /\ transactions' \in [TxId -> Tx]
  /\ connectors' \in [Place -> CnStatus]
  /\ session' \in [Place -> Session] /\ SessionsHaveIds'
  /\ lastTx' \in TxId \cup {0}
  /\ meter' \in [Place -> Nat]
  /\ astray' \subseteq Place /\ misread' \subseteq TxId

LEMMA StationFits ==
  ASSUME IInv, NEW p \in Place,
         PlugIn(p) \/ Charge(p) \/ GiveUp(p) \/ Unplug(p) \/ RejectStarted(p)
  PROVE  Fits /\ OnlyCloses /\ RowsKept
<1> USE DEF IInv
<1>1. /\ UNCHANGED <<transactions, connectors, strays>>
      /\ astray' \subseteq Place /\ misread' \subseteq TxId
  BY DEF PlugIn, Charge, GiveUp, Unplug, RejectStarted, strays, TypeOK
<1>2. OnlyCloses /\ RowsKept
  BY <1>1 DEF OnlyCloses, RowsKept
<1>3. CASE PlugIn(p)
  <2> DEFINE s == [phase |-> "starting", id |-> lastTx + 1, start |-> meter[p]]
  <2>1. lastTx + 1 \in TxId /\ meter[p] \in Nat
    BY <1>3, Transactions201Assumption DEF PlugIn, TypeOK, TxId
  <2>2. s \in Session /\ s.id \in TxId
    BY <2>1 DEF Session
  <2>3. session' = [session EXCEPT ![p] = s]
    BY <1>3 DEF PlugIn
  <2> HIDE DEF s
  <2>4. session' \in [Place -> Session] /\ SessionsHaveIds'
    BY <2>2, <2>3, SessionUpdate
  <2> QED
    BY <1>1, <1>2, <1>3, <2>1, <2>4 DEF PlugIn, Fits, TypeOK
<1>4. CASE Charge(p)
  <2>1. session' \in [Place -> Session] /\ SessionsHaveIds'
    BY <1>4 DEF Charge, TypeOK, SessionsHaveIds
  <2>2. meter' \in [Place -> Nat]
    BY <1>4 DEF Charge, TypeOK
  <2> QED
    BY <1>1, <1>2, <1>4, <2>1, <2>2 DEF Charge, Fits, TypeOK
<1>5. CASE GiveUp(p) \/ Unplug(p) \/ RejectStarted(p)
  <2>1. session' \in [Place -> Session] /\ SessionsHaveIds'
    BY <1>5, PhaseUpdate, NoSessionUpdate DEF GiveUp, Unplug, RejectStarted
  <2>2. UNCHANGED <<lastTx, meter>>
    BY <1>5 DEF GiveUp, Unplug, RejectStarted
  <2> QED
    BY <1>1, <1>2, <2>1, <2>2 DEF Fits, TypeOK
<1> QED
  BY <1>3, <1>4, <1>5

LEMMA StartedFits ==
  ASSUME IInv, NEW p \in Place, Started(p)
  PROVE  /\ Fits
         /\ \/ OnlyCloses /\ RowsKept /\ UNCHANGED <<connectors, astray>>
            \/ /\ Inserts(p)
               /\ connectors' = Showing(p, Shown(transactions'[session[p].id].state))
               /\ astray' = astray \ {p}
<1> USE DEF IInv
<1> DEFINE s == session[p]
           closed == Stopped(Orphans(p), AllAt(NULL), "Server")
<1>1. PICK state \in ChargingState, meterStart \in {s.start, 0}, answered \in BOOLEAN :
        /\ IF Exists(s.id)
           THEN /\ transactions' = closed
                /\ UNCHANGED <<connectors, astray>>
           ELSE /\ transactions' = [closed EXCEPT ![s.id] =
                     [Free EXCEPT !.status = "Active", !.place = p, !.state = state,
                                  !.meterStart = meterStart]]
                /\ connectors' = Showing(p, Shown(state))
                /\ astray' = astray \ {p}
        /\ session' = IF answered THEN [session EXCEPT ![p].phase = "running"] ELSE session
  BY DEF Started
<1>2. s \in Session /\ s.id \in TxId /\ s.start \in Nat
  BY DEF Started, TypeOK, SessionsHaveIds, Session
<1>3. session' \in [Place -> Session] /\ SessionsHaveIds'
  BY <1>1, PhaseUpdate DEF Started
<1>4. AllAt(NULL) \in [TxId -> Int] /\ "Server" \in Reason
  BY NullIsInt, StartsAreInts DEF Reason
<1>5. /\ UNCHANGED <<lastTx, meter>> /\ lastTx \in TxId \cup {0} /\ meter \in [Place -> Nat]
      /\ astray' \subseteq Place /\ misread' \subseteq TxId
  BY <1>1 DEF Started, TypeOK
<1>6. CASE Exists(s.id)
  <2>1. transactions' \in [TxId -> Tx] /\ OnlyCloses /\ RowsKept
    BY <1>1, <1>4, <1>6, StopOnlyCloses
  <2> QED
    BY <1>1, <1>3, <1>5, <1>6, <2>1 DEF Fits, TypeOK
<1>7. CASE ~Exists(s.id)
  <2> DEFINE row == [Free EXCEPT !.status = "Active", !.place = p, !.state = state,
                                 !.meterStart = meterStart]
  <2>1. /\ row \in Tx /\ row.status = "Active" /\ row.place = p
        /\ row.energy = NULL /\ row.state = state
    BY <1>1, <1>2, FreeIsTx DEF Tx, Free
  <2>2. /\ transactions' = [closed EXCEPT ![s.id] = row]
        /\ connectors' = Showing(p, Shown(state)) /\ astray' = astray \ {p}
    BY <1>1, <1>7
  <2>3. /\ closed \in [TxId -> Tx]
        /\ \A id \in TxId :
             /\ closed[id].place = transactions[id].place
             /\ IF id \in Orphans(p) /\ IsActive(id) THEN closed[id].status = "Completed"
                ELSE closed[id] = transactions[id]
    BY <1>4, StoppedRows
  <2>4. connectors' \in [Place -> CnStatus]
    BY <2>2, StatusTypes
  <2> HIDE DEF row, closed
  <2>5. /\ transactions' \in [TxId -> Tx]
        /\ \A id \in TxId : transactions'[id] = IF id = s.id THEN row ELSE closed[id]
    BY <1>2, <2>1, <2>2, <2>3
  <2>6. transactions[s.id].status = "none"
    BY <1>7 DEF Exists
  <2>7. Inserts(p)
    <3>1. /\ transactions'[s.id].status = "Active" /\ transactions'[s.id].place = p
          /\ transactions'[s.id].energy = NULL
      BY <1>2, <2>1, <2>5
    <3>2. ASSUME NEW other \in TxId \ {s.id}
          PROVE  IF other \in ActiveOn(Number(p))
                 THEN /\ transactions'[other].status = "Completed"
                      /\ transactions'[other].place = transactions[other].place
                 ELSE transactions'[other] = transactions[other]
      BY <2>3, <2>5 DEF Orphans, ActiveOn, Active
    <3> QED
      BY <1>2, <2>6, <3>1, <3>2 DEF Inserts
  <2>8. connectors' = Showing(p, Shown(transactions'[s.id].state))
    BY <1>2, <2>1, <2>2, <2>5
  <2> QED
    BY <1>3, <1>5, <2>2, <2>4, <2>5, <2>7, <2>8 DEF Fits
<1> QED
  BY <1>6, <1>7

\* What an Updated makes of a row.
UpdatedTo(id, state, energy) ==
  [transactions[id] EXCEPT
     !.state = IF state = "null" THEN transactions[id].state ELSE state,
     !.energy = IF energy = NULL THEN transactions[id].energy
                ELSE energy - transactions[id].meterStart]

\* It changes one Active row, whatever connector that is on.
LEMMA UpdatedIsOne ==
  ASSUME IInv, NEW p \in Place, Updated(p)
  PROVE  \E id \in Active, state \in ChargingState \cup {"null"}, energy \in {meter[p], NULL} :
         \E shown :
           /\ transactions' = [transactions EXCEPT ![id] = UpdatedTo(id, state, energy)]
           /\ IF state = "null"
              THEN UNCHANGED <<connectors, astray>>
              ELSE /\ connectors' = Showing(shown, Shown(state))
                   /\ astray' = Astray(transactions[id].place, shown)
           /\ misread' = IF energy = NULL \/ transactions[id].place = p THEN misread
                         ELSE misread \cup {id}
<1>1. PICK number \in Numbers(p) :
        LET ids == {k \in UpdatedRows(session[p].id, number) : IsActive(k)}
            row == transactions[Latest(ids)]
        IN
        /\ ids # {}
        /\ \E evse \in Evses(p, number, row), state \in ChargingState \cup {"null"},
              energy \in {meter[p], NULL} :
             /\ transactions' = [k \in TxId |->
                  IF k \in ids THEN UpdatedTo(k, state, energy) ELSE transactions[k]]
             /\ IF state = "null"
                THEN UNCHANGED <<connectors, astray>>
                ELSE /\ connectors' = Showing(<<evse, number>>, Shown(state))
                     /\ astray' = Astray(row.place, <<evse, number>>)
             /\ misread' = IF energy = NULL \/ row.place = p THEN misread ELSE misread \cup ids
  BY DEF Updated, UpdatedTo
<1> DEFINE ids == {k \in UpdatedRows(session[p].id, number) : IsActive(k)}
<1>2. PICK id \in Active : ids = {id}
  <2>1. session[p].id \in TxId
    BY DEF Updated, IInv, SessionsHaveIds
  <2>2. ids # {}
    BY <1>1
  <2>3. CASE Exists(session[p].id)
    BY <2>1, <2>2, <2>3 DEF UpdatedRows, Active
  <2>4. CASE ~Exists(session[p].id)
    <3>1. ids = ActiveOn(number)
      BY <2>4 DEF UpdatedRows, ActiveOn, Active
    <3>2. PICK id \in ActiveOn(number) : TRUE
      BY <2>2, <3>1
    <3> QED
      BY <3>1, <3>2, OneOfNumber DEF ActiveOn
  <2> QED
    BY <2>3, <2>4
<1>3. Latest(ids) = id
  BY <1>2, LatestOfOne DEF Active
<1>4. PICK evse \in Evses(p, number, transactions[Latest(ids)]),
           state \in ChargingState \cup {"null"}, energy \in {meter[p], NULL} :
        /\ transactions' = [k \in TxId |->
             IF k \in ids THEN UpdatedTo(k, state, energy) ELSE transactions[k]]
        /\ IF state = "null"
           THEN UNCHANGED <<connectors, astray>>
           ELSE /\ connectors' = Showing(<<evse, number>>, Shown(state))
                /\ astray' = Astray(transactions[Latest(ids)].place, <<evse, number>>)
        /\ misread' = IF energy = NULL \/ transactions[Latest(ids)].place = p THEN misread
                      ELSE misread \cup ids
  BY <1>1
<1> HIDE DEF ids
<1>5. transactions' = [transactions EXCEPT ![id] = UpdatedTo(id, state, energy)]
  BY <1>2, <1>4 DEF IInv, TypeOK
<1>6. IF state = "null"
      THEN UNCHANGED <<connectors, astray>>
      ELSE /\ connectors' = Showing(<<evse, number>>, Shown(state))
           /\ astray' = Astray(transactions[id].place, <<evse, number>>)
  BY <1>3, <1>4
<1>7. misread' = IF energy = NULL \/ transactions[id].place = p THEN misread ELSE misread \cup {id}
  BY <1>2, <1>3, <1>4
<1> QED
  BY <1>5, <1>6, <1>7

LEMMA UpdatedRow ==
  ASSUME TypeOK, NEW p \in Place, NEW id \in TxId, NEW state \in ChargingState \cup {"null"},
         NEW energy \in {meter[p], NULL}
  PROVE  LET row == UpdatedTo(id, state, energy) IN
         /\ row \in Tx
         /\ row.status = transactions[id].status /\ row.place = transactions[id].place
         /\ row.meterStart = transactions[id].meterStart
         /\ row.state = IF state = "null" THEN transactions[id].state ELSE state
         /\ row.energy = IF energy = NULL THEN transactions[id].energy
                         ELSE energy - transactions[id].meterStart
<1> DEFINE newState == IF state = "null" THEN transactions[id].state ELSE state
           newEnergy == IF energy = NULL THEN transactions[id].energy
                        ELSE energy - transactions[id].meterStart
<1>1. transactions[id] \in Tx /\ meter[p] \in Nat
  BY DEF TypeOK
<1>2. newState \in ChargingState \cup {"null"} /\ newEnergy \in Int
  BY <1>1, NullIsInt DEF Tx
<1>3. UpdatedTo(id, state, energy)
        = [transactions[id] EXCEPT !.state = newState, !.energy = newEnergy]
  BY DEF UpdatedTo
<1> HIDE DEF newState, newEnergy
<1>4. /\ UpdatedTo(id, state, energy) \in Tx
      /\ UpdatedTo(id, state, energy).status = transactions[id].status
      /\ UpdatedTo(id, state, energy).place = transactions[id].place
      /\ UpdatedTo(id, state, energy).meterStart = transactions[id].meterStart
      /\ UpdatedTo(id, state, energy).state = newState
      /\ UpdatedTo(id, state, energy).energy = newEnergy
  BY <1>1, <1>2, <1>3 DEF Tx
<1> QED
  BY <1>4 DEF newState, newEnergy

LEMMA UpdatedFits ==
  ASSUME IInv, NEW p \in Place, Updated(p)
  PROVE  Fits /\ OnlyCloses
<1>0. TypeOK /\ SessionsHaveIds
  BY DEF IInv
<1>1. PICK id \in Active, state \in ChargingState \cup {"null"}, energy \in {meter[p], NULL} :
      \E shown :
        /\ transactions' = [transactions EXCEPT ![id] = UpdatedTo(id, state, energy)]
        /\ IF state = "null"
           THEN UNCHANGED <<connectors, astray>>
           ELSE /\ connectors' = Showing(shown, Shown(state))
                /\ astray' = Astray(transactions[id].place, shown)
        /\ misread' = IF energy = NULL \/ transactions[id].place = p THEN misread
                      ELSE misread \cup {id}
  BY UpdatedIsOne
<1>2. id \in TxId /\ transactions[id].status = "Active"
  BY DEF Active, IsActive
<1>3. /\ UpdatedTo(id, state, energy) \in Tx
      /\ UpdatedTo(id, state, energy).status = "Active"
      /\ UpdatedTo(id, state, energy).place = transactions[id].place
  BY <1>0, <1>2, UpdatedRow
<1>4. transactions' \in [TxId -> Tx] /\ OnlyCloses
  <2>1. transactions' = [transactions EXCEPT ![id] = UpdatedTo(id, state, energy)]
    BY <1>1
  <2> QED
    BY <1>0, <1>2, <1>3, <2>1 DEF OnlyCloses, IsActive, TypeOK
<1>5. connectors' \in [Place -> CnStatus]
  <2>1. UNCHANGED connectors \/ \E place : connectors' = Showing(place, Shown(state))
    BY <1>1
  <2> QED
    BY <1>0, <2>1, StatusTypes DEF TypeOK
<1>6. astray' \subseteq Place /\ misread' \subseteq TxId
  BY <1>0, <1>1, <1>2 DEF Astray, TypeOK
<1> QED
  BY <1>0, <1>4, <1>5, <1>6 DEF Updated, Fits, TypeOK, SessionsHaveIds

LEMMA EndedFits ==
  ASSUME IInv, NEW p \in Place, Ended(p)
  PROVE  Fits /\ OnlyCloses /\ RowsKept
<1> USE DEF IInv
<1> DEFINE own == session[p].id
           ids == IF Exists(own) THEN {own} ELSE IF Active = {} THEN {} ELSE {Latest(Active)}
<1>1. PICK meterStop \in {meter[p], session[p].start, NULL}, answered \in BOOLEAN :
        /\ transactions' = Stopped(ids, AllAt(MeterStop(own, meterStop)), "Local")
        /\ \/ UNCHANGED connectors
           \/ connectors' = Showing(transactions[Latest(ids)].place, "Finishing")
        /\ session' = IF answered THEN [session EXCEPT ![p] = NoSession] ELSE session
  BY DEF Ended
<1>2. session' \in [Place -> Session] /\ SessionsHaveIds'
  BY <1>1, NoSessionUpdate
<1>3. MeterStop(own, meterStop) \in Int
  <2>1. session[p] \in Session /\ own \in TxId
    BY DEF Ended, TypeOK, SessionsHaveIds
  <2>2. meter[p] \in Nat /\ session[p].start \in Nat
    BY <2>1 DEF TypeOK, Session
  <2>3. meterStop \in Int
    BY <2>2, NullIsInt
  <2>4. transactions[own].meterStart \in Int /\ transactions[own].energy \in Int
    BY <2>1 DEF TypeOK, Tx
  <2> HIDE DEF own
  <2> QED
    BY <2>3, <2>4 DEF MeterStop
<1>4. transactions' \in [TxId -> Tx] /\ OnlyCloses /\ RowsKept
  <2>1. AllAt(MeterStop(own, meterStop)) \in [TxId -> Int] /\ "Local" \in Reason
    BY <1>3, StartsAreInts DEF Reason
  <2> HIDE DEF ids, own
  <2> QED
    BY <1>1, <2>1, StopOnlyCloses
<1>5. connectors' \in [Place -> CnStatus]
  <2>1. "Finishing" \in CnStatus
    BY DEF CnStatus
  <2>2. UNCHANGED connectors \/ \E place : connectors' = Showing(place, "Finishing")
    BY <1>1
  <2> QED
    BY <2>1, <2>2, StatusTypes DEF TypeOK
<1> QED
  BY <1>2, <1>4, <1>5 DEF Ended, Fits, TypeOK, strays

LEMMA StatusFits ==
  ASSUME IInv, NEW p \in Place,
         StatusOccupied(p) \/ StatusUnavailable(p) \/ StatusAvailable(p)
  PROVE  Fits /\ OnlyCloses /\ RowsKept
<1> USE DEF IInv
<1>1. "Available" \in CnStatus /\ "Unavailable" \in CnStatus
  BY DEF CnStatus
<1>2. \E status \in CnStatus : connectors' = [connectors EXCEPT ![p] = status]
  BY <1>1, StatusTypes DEF StatusOccupied, StatusUnavailable, StatusAvailable
<1>3. connectors' \in [Place -> CnStatus]
  BY <1>2 DEF TypeOK
<1>4. /\ UNCHANGED <<session, lastTx, meter>>
      /\ astray' \subseteq Place /\ misread' \subseteq TxId
  BY DEF StatusOccupied, StatusUnavailable, StatusAvailable, TypeOK
<1>5. transactions' \in [TxId -> Tx] /\ OnlyCloses /\ RowsKept
  <2>1. CASE UNCHANGED transactions
    BY <2>1 DEF TypeOK, OnlyCloses, RowsKept
  <2>2. CASE transactions' = Stopped(ActiveOn(Number(p)), AtTheirStart, "Server")
    <3>1. "Server" \in Reason
      BY DEF Reason
    <3> QED
      BY <2>2, <3>1, StartsAreInts, StopOnlyCloses
  <2> QED
    BY <2>1, <2>2 DEF StatusOccupied, StatusUnavailable, StatusAvailable
<1> QED
  BY <1>3, <1>4, <1>5 DEF Fits, TypeOK, SessionsHaveIds

LEMMA ServerFits ==
  ASSUME IInv, CloseAll \/ Disconnected \/ Restart \/ Reregister
  PROVE  Fits /\ (OnlyCloses \/ Clears) /\ RowsKept
<1> USE DEF IInv
<1>1. /\ UNCHANGED <<session, lastTx, meter>>
      /\ astray' \subseteq Place /\ misread' \subseteq TxId
  BY DEF CloseAll, Disconnected, Restart, Reregister, strays, TypeOK
<1>2. connectors' \in [Place -> CnStatus]
  BY StatusTypes DEF CloseAll, Disconnected, Restart, Reregister, TypeOK, CnStatus
<1>3. transactions' \in [TxId -> Tx] /\ (OnlyCloses \/ Clears) /\ RowsKept
  <2>1. CASE CloseAll
    <3>1. "Server" \in Reason
      BY DEF Reason
    <3> QED
      BY <2>1, <3>1, StartsAreInts, StopOnlyCloses DEF CloseAll
  <2>2. CASE Disconnected
    BY <2>2 DEF Disconnected, TypeOK, OnlyCloses, RowsKept
  <2>3. CASE Restart
    <3>1. ASSUME NEW id \in TxId
          PROVE  /\ transactions'[id] \in Tx
                 /\ transactions'[id].place = transactions[id].place
                 /\ IF IsActive(id) THEN transactions'[id].status = "Completed"
                    ELSE transactions'[id] = transactions[id]
      <4> DEFINE value == IF transactions[id].energy # NULL
                          THEN transactions[id].meterStart + transactions[id].energy
                          ELSE transactions[id].meterStop
                 row == [transactions[id] EXCEPT !.status = "Completed", !.state = "null",
                                                 !.meterStop = value, !.energy = NULL,
                                                 !.reason = "Server"]
      <4>1. transactions[id] \in Tx
        BY DEF TypeOK
      <4>2. value \in Int
        BY <4>1 DEF Tx
      <4>3. transactions'[id] = IF IsActive(id) THEN row ELSE transactions[id]
        BY <2>3 DEF Restart
      <4> HIDE DEF value
      <4>4. row \in Tx /\ row.status = "Completed" /\ row.place = transactions[id].place
        BY <4>1, <4>2, NullIsInt DEF Tx
      <4> HIDE DEF row
      <4> QED
        BY <4>1, <4>3, <4>4
    <3>2. transactions' \in [TxId -> Tx]
      BY <2>3, <3>1 DEF Restart
    <3>3. OnlyCloses /\ RowsKept
      BY <3>1 DEF OnlyCloses, RowsKept
    <3> QED
      BY <3>2, <3>3
  <2>4. CASE Reregister
    BY <2>4, FreeIsTx DEF Reregister, Clears, RowsKept
  <2> QED
    BY <2>1, <2>2, <2>3, <2>4
<1> QED
  BY <1>1, <1>2, <1>3 DEF Fits, TypeOK, SessionsHaveIds

-----------------------------------------------------------------------------
(* The invariant.                                                          *)

\* Whatever a step does to the rows, no number gets a second Active one.
LEMMA RowsStayApart ==
  ASSUME IInv, Fits, OnlyCloses \/ (\E p \in Place : Inserts(p)) \/ Clears
  PROVE  OneActivePerNumber'
<1> SUFFICES ASSUME NEW a \in TxId, NEW b \in TxId,
                    transactions'[a].status = "Active", transactions'[b].status = "Active",
                    Number(transactions'[a].place) = Number(transactions'[b].place)
             PROVE  a = b
  BY DEF OneActivePerNumber, Active, IsActive, Number
<1>1. CASE OnlyCloses
  BY <1>1 DEF OnlyCloses, IInv, OneActivePerNumber, Active, IsActive, Number
<1>2. CASE \E p \in Place : Inserts(p)
  <2>1. PICK p \in Place, id \in TxId :
          /\ transactions'[id].place = p
          /\ \A other \in TxId \ {id} :
               IF other \in ActiveOn(Number(p))
               THEN transactions'[other].status = "Completed"
               ELSE transactions'[other] = transactions[other]
    BY <1>2 DEF Inserts
  <2>2. ASSUME NEW other \in TxId \ {id}, transactions'[other].status = "Active"
        PROVE  /\ transactions'[other] = transactions[other]
               /\ Number(transactions[other].place) # Number(p)
    BY <2>1, <2>2 DEF ActiveOn, Active, IsActive
  <2>3. CASE a # id /\ b # id
    BY <2>2, <2>3 DEF IInv, OneActivePerNumber, Active, IsActive
  <2>4. CASE a = id \/ b = id
    BY <2>1, <2>2, <2>4
  <2> QED
    BY <2>3, <2>4
<1>3. CASE Clears
  BY <1>3, FreeIsTx DEF Clears
<1> QED
  BY <1>1, <1>2, <1>3

LEMMA InitIInv == Init => IInv
<1> SUFFICES ASSUME Init PROVE IInv
  OBVIOUS
<1>1. NoSession \in Session /\ NoSession.phase = "idle"
  BY DEF NoSession, Session
<1>2. TypeOK
  BY <1>1, FreeIsTx DEF Init, TypeOK, CnStatus
<1>3. SessionsHaveIds /\ OneActivePerNumber
  BY <1>1, FreeIsTx DEF Init, SessionsHaveIds, OneActivePerNumber, Active, IsActive
<1> QED
  BY <1>2, <1>3 DEF IInv

\* Every step keeps the invariant, and does to the rows one of the three.
LEMMA NextKeepsIInv ==
  ASSUME IInv, [Next]_vars
  PROVE  IInv' /\ (OnlyCloses \/ (\E p \in Place : Inserts(p)) \/ Clears)
<1>1. Fits /\ (OnlyCloses \/ (\E p \in Place : Inserts(p)) \/ Clears)
  <2>1. ASSUME NEW p \in Place, PlaceStep(p)
        PROVE  Fits /\ (OnlyCloses \/ Inserts(p))
    BY <2>1, StationFits, StartedFits, UpdatedFits, EndedFits, StatusFits DEF PlaceStep
  <2>2. CASE CloseAll \/ Disconnected \/ Restart \/ Reregister
    BY <2>2, ServerFits
  <2>3. CASE UNCHANGED vars
    BY <2>3 DEF vars, strays, IInv, TypeOK, SessionsHaveIds, Fits, OnlyCloses
  <2> QED
    BY <2>1, <2>2, <2>3 DEF Next
<1>2. OneActivePerNumber'
  BY <1>1, RowsStayApart
<1> QED
  BY <1>1, <1>2 DEF Fits, IInv, TypeOK

\* Rows, statuses and sessions hold values of their kinds.
THEOREM TypeCorrect == Spec => []TypeOK
<1>1. IInv /\ [Next]_vars => IInv'
  BY NextKeepsIInv
<1> QED
  BY <1>1, InitIInv, PTL DEF Spec, IInv

\* Two Active rows are never on connectors of one number, so that the lookups by
\* number (getActiveTransactionByConnector) find one row.
THEOREM NumbersStayApart == Spec => []OneActivePerNumber
<1>1. IInv /\ [Next]_vars => IInv'
  BY NextKeepsIInv
<1> QED
  BY <1>1, InitIInv, PTL DEF Spec, IInv

-----------------------------------------------------------------------------
(* The ledger.                                                             *)

\* What the ledger shows as no row, is one that was never written or deleted.
FreeIsFree == \A id \in TxId : transactions[id].status = "none" => transactions[id] = Free

LEMMA NextKeepsFree ==
  ASSUME IInv, FreeIsFree, [Next]_vars
  PROVE  FreeIsFree'
<1>1. CASE OnlyCloses
  BY <1>1 DEF OnlyCloses, FreeIsFree
<1>2. CASE \E p \in Place : Inserts(p)
  BY <1>2 DEF Inserts, FreeIsFree
<1>3. CASE Clears
  BY <1>3 DEF Clears, FreeIsFree
<1> QED
  BY <1>1, <1>2, <1>3, NextKeepsIInv

\* The rows of the ledger, in terms of the table.
Row(tx) ==
  [status |-> tx.status,
   place |-> Number(tx.place),
   record |-> IF tx.status = "Completed" THEN tx ELSE Free]

Rows == [id \in TxId |-> Row(transactions[id])]

LEMMA LedgerRows ==
  /\ Ledger!NoRow = Row(Free)
  /\ Ledger!Init <=> Rows = [id \in TxId |-> Ledger!NoRow]
  /\ \A n : Ledger!OpenedAt(n) = [status |-> "Active", place |-> n, record |-> Free]
BY DEF Ledger!NoRow, Ledger!Init, Ledger!OpenedAt, Row, Rows, Free

LEMMA ClosingIsClose ==
  ASSUME IInv, IInv', OnlyCloses
  PROVE  Ledger!Close
<1> SUFFICES ASSUME NEW id \in TxId
             PROVE  Row(transactions'[id]) = Row(transactions[id]) \/ Ledger!Closes(id)
  BY DEF Ledger!Close, Row, Number
<1>1. CASE transactions'[id] = transactions[id]
  BY <1>1
<1>2. CASE /\ IsActive(id) /\ transactions'[id].status # "none"
           /\ transactions'[id].place = transactions[id].place
  <2>1. transactions'[id].status \in {"Active", "Completed"}
    BY <1>2 DEF IInv, TypeOK, Tx
  <2>2. CASE transactions'[id].status = "Active"
    BY <1>2, <2>2 DEF Row, IsActive
  <2>3. CASE transactions'[id].status = "Completed"
    BY <1>2, <2>3 DEF Ledger!Closes, IsActive, Number
  <2> QED
    BY <2>1, <2>2, <2>3
<1> QED
  BY <1>1, <1>2 DEF OnlyCloses

LEMMA InsertingIsOpen ==
  ASSUME IInv, FreeIsFree, NEW p \in Place, Inserts(p)
  PROVE  \E id \in TxId : Ledger!Open(id, Number(p))
<1>1. PICK id \in TxId :
        /\ transactions[id].status = "none"
        /\ transactions'[id].status = "Active" /\ transactions'[id].place = p
        /\ \A other \in TxId \ {id} :
             IF other \in ActiveOn(Number(p))
             THEN /\ transactions'[other].status = "Completed"
                  /\ transactions'[other].place = transactions[other].place
             ELSE transactions'[other] = transactions[other]
  BY DEF Inserts
<1>2. Row(transactions[id]) = Ledger!NoRow
  BY <1>1, LedgerRows DEF FreeIsFree
<1>3. Row(transactions'[id]) = Ledger!OpenedAt(Number(p))
  BY <1>1, LedgerRows DEF Row
<1>4. ASSUME NEW other \in TxId \ {id}
      PROVE  IF Row(transactions[other]) = Ledger!OpenedAt(Number(p))
             THEN Ledger!Closes(other)
             ELSE Row(transactions'[other]) = Row(transactions[other])
  <2>1. Row(transactions[other]) = Ledger!OpenedAt(Number(p)) <=> other \in ActiveOn(Number(p))
    <3> DEFINE tx == transactions[other]
    <3>1. other \in ActiveOn(Number(p)) <=> tx.status = "Active" /\ Number(tx.place) = Number(p)
      BY DEF ActiveOn, Active, IsActive
    <3>2. Ledger!OpenedAt(Number(p)) = [status |-> "Active", place |-> Number(p), record |-> Free]
      BY LedgerRows
    <3> HIDE DEF tx
    <3>3. Row(tx) = [status |-> "Active", place |-> Number(p), record |-> Free]
            <=> tx.status = "Active" /\ Number(tx.place) = Number(p)
      BY DEF Row
    <3> QED
      BY <3>1, <3>2, <3>3 DEF tx
  <2>2. CASE other \in ActiveOn(Number(p))
    BY <1>1, <2>1, <2>2 DEF Ledger!Closes, ActiveOn, Active, IsActive, Number
  <2>3. CASE other \notin ActiveOn(Number(p))
    BY <1>1, <2>1, <2>3
  <2> QED
    BY <2>2, <2>3
<1> QED
  BY <1>2, <1>3, <1>4 DEF Ledger!Open, Row, Number

LEMMA ClearingIsDelete ==
  ASSUME Clears
  PROVE  Ledger!Delete(TxId)
<1>1. Rows' = [id \in TxId |-> Ledger!NoRow]
  BY LedgerRows DEF Clears, Rows
<1> QED
  BY <1>1 DEF Ledger!Delete, Row, Rows, Number

\* Every step of the handlers is a step of the ledger, or leaves it alone.
LEMMA NextIsLedgerNext ==
  ASSUME IInv, FreeIsFree, [Next]_vars
  PROVE  Ledger!Next
<1>1. CASE OnlyCloses
  BY <1>1, NextKeepsIInv, ClosingIsClose DEF Ledger!Next
<1>2. CASE \E p \in Place : Inserts(p)
  BY <1>2, InsertingIsOpen DEF Ledger!Next
<1>3. CASE Clears
  BY <1>3, ClearingIsDelete DEF Ledger!Next
<1> QED
  BY <1>1, <1>2, <1>3, NextKeepsIInv

\* The transactions table, whatever events are lost, repeated or of an id without
\* a row, is a ledger of the connector numbers: a Started opens one row and closes
\* those of its number, and a closed row is never changed.
THEOREM LedgerRefinement == Spec => LedgerIsKept
<1>1. Init => IInv /\ FreeIsFree /\ Ledger!Init
  <2> SUFFICES ASSUME Init PROVE FreeIsFree /\ Ledger!Init
    BY InitIInv
  <2>1. Rows = [id \in TxId |-> Ledger!NoRow]
    BY LedgerRows DEF Init, Rows
  <2> QED
    BY <2>1, LedgerRows DEF Init, FreeIsFree
<1>2. IInv /\ FreeIsFree /\ [Next]_vars => IInv' /\ FreeIsFree'
  BY NextKeepsIInv, NextKeepsFree
<1>3. IInv /\ FreeIsFree /\ [Next]_vars => Ledger!Next
  BY NextIsLedgerNext
<1> QED
  BY <1>1, <1>2, <1>3, PTL DEF Spec, LedgerIsKept, Ledger!Spec

-----------------------------------------------------------------------------
(* What the connectors show and what an Ended bills.                       *)

\* Rows are of sessions that have begun.
RowsAreOfSessions ==
  \A id \in TxId : Exists(id) => id <= lastTx /\ transactions[id].place \in Place

\* Sessions that are not over have ids of their own.
SessionsApart ==
  /\ \A p \in Place : session[p].phase # "idle" => session[p].id <= lastTx
  /\ \A p, q \in Place :
       session[p].phase # "idle" /\ session[q].phase # "idle" /\ session[p].id = session[q].id
         => p = q

\* The row of a session is where the session is, and once it is written no other
\* is Active there.
OwnRows ==
  \A p \in Place : session[p].phase # "idle" /\ Exists(session[p].id) =>
    /\ transactions[session[p].id].place = p
    /\ \A id \in Active : transactions[id].place = p => id = session[p].id

\* An Active row never shows more energy than the meter of its connector, unless
\* it was given another's.
EnergyFits ==
  \A id \in Active \ misread, p \in Place :
    transactions[id].place = p /\ transactions[id].energy > 0 =>
      transactions[id].meterStart + transactions[id].energy <= meter[p]

Tracked == RowsAreOfSessions /\ SessionsApart /\ OwnRows /\ EnergyFits

\* What every step but PlugIn does to the sessions,
SessionsGoOn ==
  /\ lastTx' = lastTx
  /\ \A p \in Place : session'[p].phase # "idle" =>
       session[p].phase # "idle" /\ session'[p].id = session[p].id

\* and every step to the meters.
MetersGrow == \A p \in Place : meter[p] <= meter'[p]

\* A row that was given another connector's energy is so for good.
MisreadStays == \A id \in misread : transactions'[id].status = "Active" => id \in misread'

LEMMA SameMeters ==
  ASSUME TypeOK, UNCHANGED meter
  PROVE  MetersGrow
BY DEF TypeOK, MetersGrow

LEMMA SameSessionsGoOn ==
  ASSUME UNCHANGED <<session, lastTx>>
  PROVE  SessionsGoOn
BY DEF SessionsGoOn

LEMMA PhasesGoOn ==
  ASSUME TypeOK, NEW p \in Place, session[p].phase # "idle", NEW phase, UNCHANGED lastTx,
         session' \in {session, [session EXCEPT ![p].phase = phase],
                       [session EXCEPT ![p] = NoSession]}
  PROVE  SessionsGoOn
<1>1. session[p] \in Session /\ NoSession.phase = "idle"
  BY DEF TypeOK, NoSession
<1>2. [session[p] EXCEPT !.phase = phase].id = session[p].id
  BY <1>1 DEF Session
<1> QED
  BY <1>1, <1>2 DEF TypeOK, SessionsGoOn

\* Every step but PlugIn lets the sessions go on.
LEMMA PlaceGoesOn ==
  ASSUME IInv, NEW p \in Place, PlaceStep(p)
  PROVE  MetersGrow /\ (PlugIn(p) \/ SessionsGoOn)
<1>1. TypeOK
  BY DEF IInv
<1>2. CASE PlugIn(p)
  BY <1>1, <1>2, SameMeters DEF PlugIn
<1>3. CASE Charge(p)
  BY <1>1, <1>3, SameSessionsGoOn DEF Charge, MetersGrow, TypeOK
<1>4. CASE GiveUp(p) \/ Unplug(p) \/ RejectStarted(p) \/ Started(p) \/ Ended(p)
  <2>1. /\ session[p].phase # "idle" /\ UNCHANGED <<lastTx, meter>>
        /\ \E phase : session' \in {session, [session EXCEPT ![p].phase = phase],
                                    [session EXCEPT ![p] = NoSession]}
    BY <1>4 DEF GiveUp, Unplug, RejectStarted, Started, Ended
  <2> QED
    BY <1>1, <2>1, PhasesGoOn, SameMeters
<1>5. CASE Updated(p) \/ StatusOccupied(p) \/ StatusUnavailable(p) \/ StatusAvailable(p)
  <2>1. UNCHANGED <<session, lastTx, meter>>
    BY <1>5 DEF Updated, StatusOccupied, StatusUnavailable, StatusAvailable
  <2> QED
    BY <1>1, <2>1, SameSessionsGoOn, SameMeters
<1> QED
  BY <1>2, <1>3, <1>4, <1>5 DEF PlaceStep

\* Rows that only close, or go.
LEMMA ClosingKeepsOwn ==
  ASSUME IInv, IInv', Tracked, OnlyCloses \/ Clears, SessionsGoOn
  PROVE  RowsAreOfSessions' /\ SessionsApart' /\ OwnRows'
<1>1. ASSUME NEW id \in TxId, transactions'[id].status # "none"
      PROVE  /\ Exists(id) /\ transactions'[id].place = transactions[id].place
             /\ transactions'[id].status = "Active" => id \in Active
  <2>1. CASE OnlyCloses
    BY <1>1, <2>1 DEF OnlyCloses, Exists, Active, IsActive
  <2>2. CASE Clears
    BY <1>1, <2>2, FreeIsTx DEF Clears
  <2> QED
    BY <2>1, <2>2
<1>2. RowsAreOfSessions'
  BY <1>1 DEF Tracked, RowsAreOfSessions, SessionsGoOn, Exists
<1>3. SessionsApart'
  <2>1. ASSUME NEW p \in Place, session'[p].phase # "idle"
        PROVE  /\ session[p].phase # "idle" /\ session'[p].id = session[p].id
               /\ session'[p].id <= lastTx'
    BY <2>1 DEF Tracked, SessionsApart, SessionsGoOn
  <2>2. ASSUME NEW p \in Place, NEW q \in Place, session'[p].phase # "idle",
               session'[q].phase # "idle", session'[p].id = session'[q].id
        PROVE  p = q
    BY <2>1, <2>2 DEF Tracked, SessionsApart
  <2> QED
    BY <2>1, <2>2 DEF SessionsApart
<1>4. OwnRows'
  <2>1. ASSUME NEW p \in Place, session'[p].phase # "idle",
               transactions'[session'[p].id].status # "none"
        PROVE  /\ transactions'[session'[p].id].place = p
               /\ \A id \in TxId : transactions'[id].status = "Active"
                                   /\ transactions'[id].place = p => id = session'[p].id
    <3>1. session[p].phase # "idle" /\ session'[p].id = session[p].id /\ session[p].id \in TxId
      BY <2>1 DEF SessionsGoOn, IInv, SessionsHaveIds
    <3>2. /\ transactions[session[p].id].place = p
          /\ \A id \in Active : transactions[id].place = p => id = session[p].id
      BY <1>1, <2>1, <3>1 DEF Tracked, OwnRows
    <3> QED
      BY <1>1, <2>1, <3>1, <3>2
  <2> QED
    BY <2>1 DEF OwnRows, Active, IsActive, Exists
<1> QED
  BY <1>2, <1>3, <1>4

\* A session that begins has no row.
LEMMA PlugInKeepsOwn ==
  ASSUME IInv, Tracked, NEW p \in Place, PlugIn(p)
  PROVE  RowsAreOfSessions' /\ SessionsApart' /\ OwnRows'
<1>1. /\ UNCHANGED transactions /\ lastTx' = lastTx + 1 /\ lastTx \in Nat
      /\ session'[p].id = lastTx + 1
      /\ \A q \in Place : q # p => session'[q] = session[q]
  BY Transactions201Assumption DEF PlugIn, IInv, TypeOK, TxId
<1>2. \A q \in Place : session[q].phase # "idle" => session[q].id \in Nat
  BY DEF IInv, SessionsHaveIds, TxId
<1>3. RowsAreOfSessions'
  BY <1>1 DEF Tracked, RowsAreOfSessions, Exists, TxId
<1>4. SessionsApart'
  <2>1. ASSUME NEW q \in Place, session'[q].phase # "idle"
        PROVE  session'[q].id <= lastTx' /\ (q = p \/ session'[q].id <= lastTx)
    BY <1>1, <1>2, <2>1 DEF Tracked, SessionsApart
  <2>2. ASSUME NEW q \in Place, NEW o \in Place, session'[q].phase # "idle",
               session'[o].phase # "idle", session'[q].id = session'[o].id
        PROVE  q = o
    <3>1. CASE q = p \/ o = p
      BY <1>1, <2>1, <2>2, <3>1
    <3>2. CASE q # p /\ o # p
      BY <1>1, <2>2, <3>2 DEF Tracked, SessionsApart
    <3> QED
      BY <3>1, <3>2
  <2> QED
    BY <2>1, <2>2 DEF SessionsApart
<1>5. OwnRows'
  <2>1. transactions[lastTx + 1].status = "none" \/ lastTx + 1 \notin TxId
    BY <1>1 DEF Tracked, RowsAreOfSessions, Exists
  <2>2. lastTx + 1 \in TxId
    BY <1>1, Transactions201Assumption DEF PlugIn, TxId
  <2>3. ASSUME NEW q \in Place, session'[q].phase # "idle",
               transactions'[session'[q].id].status # "none"
        PROVE  session'[q] = session[q]
    BY <1>1, <2>1, <2>2, <2>3
  <2> QED
    BY <1>1, <2>3 DEF Tracked, OwnRows, Active, IsActive, Exists
<1> QED
  BY <1>3, <1>4, <1>5

\* The row of a session that is written.
LEMMA InsertKeepsOwn ==
  ASSUME IInv, Tracked, SessionsGoOn, NEW p \in Place, session[p].phase # "idle", Inserts(p)
  PROVE  RowsAreOfSessions' /\ SessionsApart' /\ OwnRows'
<1>1. PICK own \in TxId :
        /\ own = session[p].id /\ transactions[own].status = "none"
        /\ transactions'[own].status = "Active" /\ transactions'[own].place = p
        /\ \A other \in TxId \ {own} :
             IF other \in ActiveOn(Number(p))
             THEN /\ transactions'[other].status = "Completed"
                  /\ transactions'[other].place = transactions[other].place
             ELSE transactions'[other] = transactions[other]
  BY DEF Inserts
<1>2. ASSUME NEW other \in TxId \ {own}
      PROVE  /\ transactions'[other].place = transactions[other].place
             /\ transactions'[other].status # "none" => Exists(other)
             /\ transactions'[other].status = "Active" =>
                  other \in Active /\ transactions[other].place # p
  BY <1>1 DEF ActiveOn, Active, IsActive, Exists
<1>3. ASSUME NEW q \in Place, session'[q].phase # "idle"
      PROVE  /\ session[q].phase # "idle" /\ session'[q].id = session[q].id
             /\ session[q].id \in TxId /\ session[q].id <= lastTx' /\ (q # p => session[q].id # own)
  BY <1>1, <1>3 DEF Tracked, SessionsApart, SessionsGoOn, IInv, SessionsHaveIds
<1>4. RowsAreOfSessions'
  <2>1. own <= lastTx'
    BY <1>1 DEF Tracked, SessionsApart, SessionsGoOn
  <2> QED
    BY <1>1, <1>2, <2>1 DEF Tracked, RowsAreOfSessions, SessionsGoOn, Exists
<1>5. SessionsApart'
  <2>1. ASSUME NEW q \in Place, NEW o \in Place, session'[q].phase # "idle",
               session'[o].phase # "idle", session'[q].id = session'[o].id
        PROVE  q = o
    BY <1>3, <2>1 DEF Tracked, SessionsApart
  <2> QED
    BY <1>3, <2>1 DEF SessionsApart
<1>6. OwnRows'
  <2>1. ASSUME NEW q \in Place, session'[q].phase # "idle",
               transactions'[session'[q].id].status # "none"
        PROVE  /\ transactions'[session'[q].id].place = q
               /\ \A id \in TxId : transactions'[id].status = "Active"
                                   /\ transactions'[id].place = q => id = session'[q].id
    <3>1. CASE q = p
      BY <1>1, <1>2, <1>3, <2>1, <3>1
    <3>2. CASE q # p
      <4>1. /\ transactions[session[q].id].place = q
            /\ \A id \in Active : transactions[id].place = q => id = session[q].id
        BY <1>2, <1>3, <2>1, <3>2 DEF Tracked, OwnRows
      <4> QED
        BY <1>1, <1>2, <1>3, <2>1, <3>2, <4>1
    <3> QED
      BY <3>1, <3>2
  <2> QED
    BY <2>1 DEF OwnRows, Active, IsActive, Exists
<1> QED
  BY <1>4, <1>5, <1>6

-----------------------------------------------------------------------------
(* The steps.                                                              *)

LEMMA RowsKeepEnergy ==
  ASSUME IInv, IInv', Tracked, MetersGrow, MisreadStays, RowsKept
  PROVE  EnergyFits'
<1> SUFFICES ASSUME NEW id \in TxId, transactions'[id].status = "Active", NEW p \in Place,
                    id \notin misread', transactions'[id].place = p, transactions'[id].energy > 0
             PROVE  transactions'[id].meterStart + transactions'[id].energy <= meter'[p]
  BY DEF EnergyFits, Active, IsActive
<1>1. transactions'[id] = transactions[id] /\ id \in Active \ misread
  BY DEF RowsKept, MisreadStays, Active, IsActive
<1>2. /\ transactions[id].meterStart + transactions[id].energy <= meter[p]
      /\ meter[p] <= meter'[p]
  BY <1>1 DEF Tracked, EnergyFits, MetersGrow
<1>3. /\ meter[p] \in Nat /\ meter'[p] \in Nat
      /\ transactions[id].meterStart \in Int /\ transactions[id].energy \in Int
  BY DEF IInv, TypeOK, Tx
<1> QED
  BY <1>1, <1>2, <1>3

\* What a step may do to the connector of a row that stays.
StillShown(p, state) ==
  \/ connectors'[p] = connectors[p] /\ p \notin astray
  \/ connectors'[p] \in {Shown(state), "Unavailable", "null", "absent"}
  \/ p \in astray'

LEMMA KeptIsShown ==
  ASSUME ActiveIsShown, RowsKept,
         \A id \in TxId : transactions'[id].status = "Active" =>
           StillShown(transactions[id].place, transactions[id].state)
  PROVE  ActiveIsShown'
BY DEF ActiveIsShown, RowsKept, StillShown, Active, IsActive, Shown

\* An Active row that stays is on a connector that was there.
LEMMA KeptIsPlaced ==
  ASSUME Tracked, RowsKept, NEW id \in TxId, transactions'[id].status = "Active"
  PROVE  id \in Active /\ transactions[id].place \in Place
BY DEF Tracked, RowsAreOfSessions, RowsKept, Active, IsActive, Exists

LEMMA InsertKeeps ==
  ASSUME IInv, IInv', Tracked, ActiveIsShown, MetersGrow, SessionsGoOn,
         NEW p \in Place, Started(p), Inserts(p),
         connectors' = Showing(p, Shown(transactions'[session[p].id].state)),
         astray' = astray \ {p}
  PROVE  Tracked' /\ ActiveIsShown'
<1>1. PICK own \in TxId :
        /\ own = session[p].id /\ transactions'[own].place = p /\ transactions'[own].energy = NULL
        /\ \A other \in TxId \ {own} :
             IF other \in ActiveOn(Number(p))
             THEN transactions'[other].status = "Completed"
             ELSE transactions'[other] = transactions[other]
  BY DEF Inserts
<1>2. ASSUME NEW id \in TxId, transactions'[id].status = "Active", id # own
      PROVE  /\ transactions'[id] = transactions[id] /\ id \in Active
             /\ transactions[id].place \in Place \ {p}
  BY <1>1, <1>2 DEF ActiveOn, Active, IsActive, Tracked, RowsAreOfSessions, Exists
<1>3. RowsAreOfSessions' /\ SessionsApart' /\ OwnRows'
  BY InsertKeepsOwn DEF Started
<1>4. EnergyFits'
  <2> SUFFICES ASSUME NEW id \in TxId, transactions'[id].status = "Active", NEW q \in Place,
                      id \notin misread', transactions'[id].place = q, transactions'[id].energy > 0
               PROVE  transactions'[id].meterStart + transactions'[id].energy <= meter'[q]
    BY DEF EnergyFits, Active, IsActive
  <2>1. id # own /\ id \notin misread
    BY <1>1, Transactions201Assumption DEF NULL, Started
  <2>2. /\ transactions[id].meterStart + transactions[id].energy <= meter[q]
        /\ meter[q] <= meter'[q]
    BY <1>2, <2>1 DEF Tracked, EnergyFits, MetersGrow
  <2>3. /\ meter[q] \in Nat /\ meter'[q] \in Nat
        /\ transactions[id].meterStart \in Int /\ transactions[id].energy \in Int
    BY DEF IInv, TypeOK, Tx
  <2> QED
    BY <1>2, <2>1, <2>2, <2>3
<1>5. ActiveIsShown'
  <2> SUFFICES ASSUME NEW id \in TxId, transactions'[id].status = "Active"
               PROVE  \/ transactions'[id].place \in astray'
                      \/ connectors'[transactions'[id].place] \in
                           {Shown(transactions'[id].state), "Unavailable", "null", "absent"}
    BY DEF ActiveIsShown, Active, IsActive, Shown
  <2>1. CASE id = own
    BY <1>1, <2>1 DEF Showing
  <2>2. CASE id # own
    BY <1>2, <2>2 DEF Showing, ActiveIsShown
  <2> QED
    BY <2>1, <2>2
<1> QED
  BY <1>3, <1>4, <1>5 DEF Tracked

\* An Updated gives a row its own connector's energy, or marks it; and a state it
\* shows on another connector than the row's sends both astray.
LEMMA UpdatedKeeps ==
  ASSUME IInv, IInv', Tracked, ActiveIsShown, NEW p \in Place, Updated(p)
  PROVE  EnergyFits' /\ ActiveIsShown'
<1>0. TypeOK
  BY DEF IInv
<1>1. PICK id \in Active, state \in ChargingState \cup {"null"}, energy \in {meter[p], NULL} :
      \E shown :
        /\ transactions' = [transactions EXCEPT ![id] = UpdatedTo(id, state, energy)]
        /\ IF state = "null"
           THEN UNCHANGED <<connectors, astray>>
           ELSE /\ connectors' = Showing(shown, Shown(state))
                /\ astray' = Astray(transactions[id].place, shown)
        /\ misread' = IF energy = NULL \/ transactions[id].place = p THEN misread
                      ELSE misread \cup {id}
  BY UpdatedIsOne
<1>2. PICK shown :
        IF state = "null"
        THEN UNCHANGED <<connectors, astray>>
        ELSE /\ connectors' = Showing(shown, Shown(state))
             /\ astray' = Astray(transactions[id].place, shown)
  BY <1>1
<1>3. id \in TxId /\ transactions[id].place \in Place
  BY DEF Active, IsActive, Tracked, RowsAreOfSessions, Exists
<1>4. /\ transactions'[id].place = transactions[id].place
      /\ transactions'[id].meterStart = transactions[id].meterStart
      /\ transactions'[id].state = IF state = "null" THEN transactions[id].state ELSE state
      /\ transactions'[id].energy = IF energy = NULL THEN transactions[id].energy
                                    ELSE energy - transactions[id].meterStart
  <2>1. transactions'[id] = UpdatedTo(id, state, energy)
    BY <1>0, <1>1, <1>3 DEF TypeOK
  <2> QED
    BY <1>0, <1>3, <2>1, UpdatedRow
<1>5. ASSUME NEW other \in TxId \ {id}
      PROVE  transactions'[other] = transactions[other]
  BY <1>0, <1>1 DEF TypeOK
<1>6. EnergyFits'
  <2> SUFFICES ASSUME NEW tx \in TxId, transactions'[tx].status = "Active", tx \notin misread',
                      NEW q \in Place, transactions'[tx].place = q,
                      transactions'[tx].energy > 0
               PROVE  transactions'[tx].meterStart + transactions'[tx].energy <= meter[q]
    BY DEF EnergyFits, Active, IsActive, Updated
  <2>1. tx \notin misread
    BY <1>1
  <2>2. CASE tx # id
    BY <1>5, <2>1, <2>2 DEF Tracked, EnergyFits, Active, IsActive
  <2>3. CASE tx = id /\ energy = NULL
    BY <1>4, <2>1, <2>3 DEF Tracked, EnergyFits
  <2>4. CASE tx = id /\ energy # NULL
    <3>1. q = p /\ energy = meter[p]
      BY <1>1, <1>4, <2>4
    <3>2. meter[p] \in Nat /\ transactions[id].meterStart \in Int
      BY <1>0, <1>3 DEF TypeOK, Tx
    <3> QED
      BY <1>4, <2>4, <3>1, <3>2
  <2> QED
    BY <2>2, <2>3, <2>4
<1>7. ActiveIsShown'
  <2> SUFFICES ASSUME NEW tx \in TxId, transactions'[tx].status = "Active"
               PROVE  \/ transactions'[tx].place \in astray'
                      \/ connectors'[transactions'[tx].place] \in
                           {Shown(transactions'[tx].state), "Unavailable", "null", "absent"}
    BY DEF ActiveIsShown, Active, IsActive, Shown
  <2>1. tx \in Active /\ transactions'[tx].place = transactions[tx].place
    BY <1>4, <1>5 DEF Active, IsActive
  <2>2. /\ transactions[tx].place \in Place
        /\ \/ transactions[tx].place \in astray
           \/ connectors[transactions[tx].place] \in
                {Shown(transactions[tx].state), "Unavailable", "null", "absent"}
    BY <2>1 DEF ActiveIsShown, Active, IsActive, Tracked, RowsAreOfSessions, Exists
  <2>3. CASE state = "null"
    <3>1. transactions'[tx].state = transactions[tx].state /\ UNCHANGED <<connectors, astray>>
      BY <1>2, <1>4, <1>5, <2>3
    <3> QED
      BY <2>1, <2>2, <3>1
  <2>4. CASE state # "null" /\ tx = id
    <3>1. CASE transactions[id].place = shown
      BY <1>2, <1>3, <1>4, <2>2, <2>4, <3>1 DEF Showing
    <3>2. CASE transactions[id].place # shown
      BY <1>2, <1>3, <1>4, <2>4, <3>2 DEF Astray
    <3> QED
      BY <3>1, <3>2
  <2>5. CASE state # "null" /\ tx # id
    <3>1. transactions'[tx] = transactions[tx] /\ transactions[tx].place # transactions[id].place
      <4>1. transactions[tx].place = transactions[id].place => tx = id
        BY <2>1 DEF IInv, OneActivePerNumber
      <4> QED
        BY <1>5, <2>5, <4>1
    <3>2. CASE transactions[tx].place = shown
      BY <1>2, <2>2, <2>5, <3>1, <3>2 DEF Astray
    <3>3. CASE transactions[tx].place # shown
      BY <1>2, <2>2, <2>5, <3>1, <3>3 DEF Astray, Showing
    <3> QED
      BY <3>2, <3>3
  <2> QED
    BY <2>3, <2>4, <2>5
<1> QED
  BY <1>6, <1>7

\* The row whose connector an Ended shows Finishing is Active no longer, and was
\* the only Active one there.
LEMMA EndedIsShown ==
  ASSUME IInv, Tracked, ActiveIsShown, RowsKept, NEW p \in Place, Ended(p)
  PROVE  ActiveIsShown'
<1>1. PICK own, ids, At : /\ own = session[p].id
                          /\ ids = IF Exists(own) THEN {own}
                                   ELSE IF Active = {} THEN {} ELSE {Latest(Active)}
                          /\ transactions' = Stopped(ids, At, "Local")
                          /\ connectors' = IF ids = {} THEN connectors
                                ELSE Showing(transactions[Latest(ids)].place, "Finishing")
                          /\ astray' = astray
  BY DEF Ended, strays
<1>2. session[p].phase # "idle" /\ own \in TxId
  BY <1>1 DEF Ended, IInv, SessionsHaveIds
<1>3. CASE ids = {}
  BY <1>1, <1>3, KeptIsShown DEF StillShown
<1>4. CASE ids # {}
  <2>1. PICK last \in TxId :
          /\ ids = {last}
          /\ \A id \in Active : transactions[id].place = transactions[last].place => id = last
    <3>1. CASE Exists(own)
      BY <1>1, <1>2, <3>1 DEF Tracked, OwnRows
    <3>2. CASE ~Exists(own)
      <4>1. Active # {} /\ ids = {Latest(Active)}
        BY <1>1, <1>4, <3>2
      <4>2. Latest(Active) \in Active
        BY <4>1, LatestOfSome DEF Active
      <4> QED
        BY <4>1, <4>2 DEF IInv, OneActivePerNumber, Active
    <3> QED
      BY <3>1, <3>2
  <2>2. connectors' = Showing(transactions[last].place, "Finishing")
    BY <1>1, <1>4, <2>1, LatestOfOne
  <2>3. transactions'[last].status # "Active"
    <3>1. transactions[last] \in Tx
      BY DEF IInv, TypeOK
    <3>2. transactions'[last] = IF IsActive(last)
                                THEN [transactions[last] EXCEPT !.status = "Completed", !.state = "null",
                                                    !.meterStop = At[last], !.reason = "Local"]
                                ELSE transactions[last]
      BY <1>1, <2>1 DEF Stopped, StopsRow
    <3> QED
      BY <3>1, <3>2 DEF Tx, IsActive
  <2>4. ASSUME NEW id \in TxId, transactions'[id].status = "Active"
        PROVE  connectors'[transactions[id].place] = connectors[transactions[id].place]
    <3>1. id # last /\ id \in Active /\ transactions[id].place \in Place
      BY <2>3, <2>4, KeptIsPlaced
    <3> QED
      BY <2>1, <2>2, <3>1 DEF Showing
  <2> QED
    BY <1>1, <2>4, KeptIsShown DEF StillShown
<1> QED
  BY <1>3, <1>4

LEMMA StatusIsShown ==
  ASSUME IInv, Tracked, ActiveIsShown, RowsKept, NEW p \in Place,
         StatusOccupied(p) \/ StatusUnavailable(p) \/ StatusAvailable(p)
  PROVE  ActiveIsShown'
<1>1. ASSUME NEW id \in TxId, transactions'[id].status = "Active"
      PROVE  StillShown(transactions[id].place, transactions[id].state)
  <2>1. id \in Active /\ transactions[id].place \in Place
    BY <1>1, KeptIsPlaced
  <2>2. CASE transactions[id].place # p
    BY <2>1, <2>2 DEF StatusOccupied, StatusUnavailable, StatusAvailable, StillShown,
                         IInv, TypeOK
  <2>3. CASE transactions[id].place = p
    <3>1. id \in ActiveOn(Number(p))
      BY <2>1, <2>3 DEF ActiveOn
    <3>2. CASE StatusOccupied(p)
      <4>1. ShownOccupied(Number(p)) = Shown(transactions[id].state)
        BY <3>1, OneOfNumber, LatestOfOne DEF ShownOccupied
      <4> QED
        BY <2>1, <2>3, <3>2, <4>1 DEF StatusOccupied, StillShown, IInv, TypeOK
    <3>3. CASE StatusUnavailable(p)
      BY <2>1, <2>3, <3>3 DEF StatusUnavailable, StillShown, IInv, TypeOK
    <3>4. CASE StatusAvailable(p)
      <4>1. transactions'[id] = [transactions[id] EXCEPT !.status = "Completed", !.state = "null",
                                      !.meterStop = AtTheirStart[id], !.reason = "Server"]
        BY <2>1, <3>1, <3>4 DEF StatusAvailable, Stopped, StopsRow, Active
      <4>2. transactions[id] \in Tx
        BY DEF IInv, TypeOK
      <4> QED
        BY <1>1, <4>1, <4>2 DEF Tx
    <3> QED
      BY <3>2, <3>3, <3>4
  <2> QED
    BY <2>2, <2>3
<1> QED
  BY <1>1, KeptIsShown

LEMMA ServerIsShown ==
  ASSUME IInv, Tracked, ActiveIsShown, RowsKept, CloseAll \/ Disconnected \/ Restart \/ Reregister
  PROVE  ActiveIsShown'
<1>1. \/ UNCHANGED <<connectors, astray>>
      \/ \A p \in Place : connectors'[p] \in {"null", "absent"}
  BY DEF CloseAll, Disconnected, Restart, Reregister, NoStatus, strays
<1> QED
  BY <1>1, KeptIsPlaced, KeptIsShown DEF StillShown

LEMMA InitTracked == Init => Tracked /\ ActiveIsShown
<1>1. NoSession.phase = "idle"
  BY DEF NoSession
<1> QED
  BY <1>1, FreeIsTx DEF Init, Tracked, RowsAreOfSessions, SessionsApart, OwnRows, EnergyFits,
                        ActiveIsShown, Active, IsActive, Exists

LEMMA NextKeepsTracked ==
  ASSUME IInv, Tracked, ActiveIsShown, [Next]_vars
  PROVE  Tracked' /\ ActiveIsShown'
<1>0. IInv'
  BY NextKeepsIInv
<1>1. ASSUME OnlyCloses \/ Clears, RowsKept, SessionsGoOn, MetersGrow, MisreadStays,
             ActiveIsShown'
      PROVE  Tracked' /\ ActiveIsShown'
  BY <1>0, <1>1, ClosingKeepsOwn, RowsKeepEnergy DEF Tracked
<1>2. ASSUME NEW p \in Place, PlaceStep(p)
      PROVE  Tracked' /\ ActiveIsShown'
  <2>1. MetersGrow /\ (PlugIn(p) \/ SessionsGoOn)
    BY <1>2, PlaceGoesOn
  <2>2. CASE PlugIn(p)
    <3>1. RowsKept /\ UNCHANGED <<connectors, astray, misread>>
      BY <2>2, StationFits DEF PlugIn, strays
    <3> QED
      BY <1>0, <2>1, <2>2, <3>1, PlugInKeepsOwn, RowsKeepEnergy, KeptIsShown
         DEF Tracked, StillShown, MisreadStays
  <2>3. CASE SessionsGoOn /\ (Charge(p) \/ GiveUp(p) \/ Unplug(p) \/ RejectStarted(p))
    <3>1. OnlyCloses /\ RowsKept /\ UNCHANGED <<connectors, astray, misread>>
      BY <2>3, StationFits DEF Charge, GiveUp, Unplug, RejectStarted, strays
    <3> QED
      BY <1>1, <2>1, <2>3, <3>1, KeptIsShown DEF StillShown, MisreadStays
  <2>4. CASE SessionsGoOn /\ Started(p)
    <3>0. MisreadStays
      BY <2>4 DEF Started, MisreadStays
    <3>1. CASE OnlyCloses /\ RowsKept /\ UNCHANGED <<connectors, astray>>
      BY <1>1, <2>1, <2>4, <3>0, <3>1, KeptIsShown DEF StillShown
    <3>2. CASE /\ Inserts(p)
               /\ connectors' = Showing(p, Shown(transactions'[session[p].id].state))
               /\ astray' = astray \ {p}
      BY <1>0, <2>1, <2>4, <3>2, InsertKeeps
    <3> QED
      BY <2>4, <3>1, <3>2, StartedFits
  <2>5. CASE SessionsGoOn /\ Updated(p)
    BY <1>0, <2>1, <2>5, UpdatedFits, UpdatedKeeps, ClosingKeepsOwn DEF Tracked
  <2>6. CASE SessionsGoOn /\ Ended(p)
    BY <1>1, <2>1, <2>6, EndedFits, EndedIsShown DEF Ended, strays, MisreadStays
  <2>7. CASE SessionsGoOn /\ (StatusOccupied(p) \/ StatusUnavailable(p) \/ StatusAvailable(p))
    BY <1>1, <2>1, <2>7, StatusFits, StatusIsShown
       DEF StatusOccupied, StatusUnavailable, StatusAvailable, MisreadStays
  <2> QED
    BY <1>2, <2>1, <2>2, <2>3, <2>4, <2>5, <2>6, <2>7 DEF PlaceStep, PlugIn
<1>3. CASE CloseAll \/ Disconnected \/ Restart \/ Reregister
  <2>1. UNCHANGED <<session, lastTx, meter>>
    BY <1>3 DEF CloseAll, Disconnected, Restart, Reregister
  <2>2. MisreadStays
    BY <1>3, FreeIsTx, ServerFits
       DEF CloseAll, Disconnected, Restart, Reregister, strays, MisreadStays, IInv, TypeOK
  <2> QED
    BY <1>1, <1>3, <2>1, <2>2, ServerFits, ServerIsShown, SameSessionsGoOn, SameMeters DEF IInv
<1>4. CASE UNCHANGED vars
  <2>1. OnlyCloses /\ RowsKept
    BY <1>4 DEF vars, strays, OnlyCloses, RowsKept
  <2> QED
    BY <1>1, <1>4, <2>1, KeptIsShown, SameSessionsGoOn, SameMeters
       DEF vars, strays, IInv, StillShown, MisreadStays
<1> QED
  BY <1>2, <1>3, <1>4 DEF Next

\* For any connectors, numbered in any way, and whatever Updated events leave out:
\* a connector with an Active transaction that has not gone astray shows its
\* charging state, or a status of its own, or none, whatever events are lost,
\* repeated or out of step with StatusNotification.
THEOREM ActiveIsAlwaysShown == Spec => []ActiveIsShown
<1>1. IInv /\ Tracked /\ ActiveIsShown /\ [Next]_vars => IInv' /\ Tracked' /\ ActiveIsShown'
  BY NextKeepsIInv, NextKeepsTracked
<1> QED
  BY <1>1, InitIInv, InitTracked, PTL DEF Spec

\* What an Ended of an Active row writes.
LEMMA EndedBills ==
  ASSUME IInv, Tracked, NEW p \in Place, Ended(p), NEW id \in Active \ misread, id = session[p].id,
         transactions[id].energy > 0, transactions[id].meterStart = session[p].start
  PROVE  transactions'[id].meterStop >= transactions[id].meterStart + transactions[id].energy
<1>1. PICK meterStop \in {meter[p], session[p].start, NULL} :
        transactions' = Stopped({id}, AllAt(MeterStop(id, meterStop)), "Local")
  BY DEF Ended, Active, IsActive, Exists
<1>2. /\ id \in TxId /\ IsActive(id) /\ session[p].phase # "idle" /\ session[p] \in Session
      /\ transactions[id] \in Tx /\ meter[p] \in Nat
  BY DEF Ended, Active, IInv, TypeOK
<1>3. transactions'[id].meterStop = MeterStop(id, meterStop)
  BY <1>1, <1>2 DEF Stopped, StopsRow, AllAt, Tx
<1>4. transactions[id].meterStart + transactions[id].energy <= meter[p]
  BY <1>2 DEF Tracked, OwnRows, EnergyFits, Active, IsActive, Exists
<1>5. /\ transactions[id].meterStart \in Nat /\ transactions[id].energy \in Int
      /\ meterStop \in Int
  BY <1>2, NullIsInt DEF Tx, Session
<1>6. CASE meterStop = NULL \/ meterStop <= transactions[id].meterStart
  BY <1>2, <1>3, <1>5, <1>6 DEF MeterStop
<1>7. CASE meterStop # NULL /\ ~(meterStop <= transactions[id].meterStart)
  <2>1. meterStop = meter[p]
    BY <1>1, <1>5, <1>7
  <2>2. MeterStop(id, meterStop) = meterStop
    BY <1>7 DEF MeterStop
  <2> QED
    BY <1>2, <1>3, <1>4, <1>5, <2>1, <2>2
<1> QED
  BY <1>6, <1>7

\* For any connectors, numbered in any way: an Ended never bills less than the
\* energy its Active row showed, where Started told the meter value and the row
\* was not given the energy of another connector.
THEOREM EndedAlwaysKeepsEnergy == Spec => EndedKeepsEnergy
<1>1. IInv /\ Tracked /\ ActiveIsShown /\ [Next]_vars => IInv' /\ Tracked' /\ ActiveIsShown'
  BY NextKeepsIInv, NextKeepsTracked
<1>2. ASSUME IInv, Tracked, [Next]_vars
      PROVE  [\A p \in Place : LET id == session[p].id IN
                /\ id \in Active \ misread /\ transactions[id].energy > 0
                /\ transactions[id].meterStart = session[p].start /\ Ended(p)
                => transactions'[id].meterStop
                     >= transactions[id].meterStart + transactions[id].energy]_vars
  BY <1>2, EndedBills
<1> QED
  BY <1>1, <1>2, InitIInv, InitTracked, PTL DEF Spec, EndedKeepsEnergy
=============================================================================

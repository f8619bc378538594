------------------------- MODULE Transactions16Proofs -------------------------
(***************************************************************************)
(* For every set of charge points and connectors, and every bound: the     *)
(* invariants of the transactions table of Transactions16, that the table  *)
(* is a Ledger, and that what its rows bill and show was metered, as long  *)
(* as a charge point that is deleted does not come back with its sessions. *)
(***************************************************************************)
EXTENDS Transactions16, TLAPS

Reason == {"Local", "Remote", "Other", "EVDisconnected", "DeAuthorized", "PowerLoss"}

IInv == TypeOK /\ OneActivePerConnector

\* What the steps do to the rows: an Active one may be closed where it is,
OnlyCloses ==
  \A id \in TxId :
    \/ transactions'[id] = transactions[id]
    \/ /\ IsActive(id) /\ transactions'[id].status # "none"
       /\ transactions'[id].cp = transactions[id].cp
       /\ transactions'[id].connector = transactions[id].connector

\* a free id may get a row, which closes those of its connector,
Inserts(c, k) ==
  \E id \in TxId :
    /\ transactions[id].status = "none"
    /\ \E start \in Nat : transactions'[id] = NewTx(c, k, start)
    /\ \A other \in TxId \ {id} :
         IF other \in ActiveAt(c, k)
         THEN /\ transactions'[other].status = "Completed"
              /\ transactions'[other].cp = c /\ transactions'[other].connector = k
         ELSE transactions'[other] = transactions[other]

\* or all rows of a charge point may go.
Drops(c) ==
  transactions' = [id \in TxId |-> IF transactions[id].cp = c THEN Free ELSE transactions[id]]

-----------------------------------------------------------------------------
(* Rows and sessions.                                                      *)

LEMMA NullIsInt == NULL \in Int
  BY TransactionsAssumption DEF NULL

LEMMA FreeIsTx == Free \in Tx
  BY NullIsInt DEF Free, Tx

LEMMA NewTxIsTx ==
  ASSUME NEW c \in ChargePoint, NEW k \in Connector, NEW m \in Nat
  PROVE  NewTx(c, k, m) \in Tx
BY NullIsInt DEF NewTx, Tx

LEMMA SessionUpdate ==
  ASSUME TypeOK, NEW c \in ChargePoint, NEW k \in Connector, NEW s \in Session
  PROVE  [session EXCEPT ![c][k] = s] \in [ChargePoint -> [Connector -> Session]]
BY DEF TypeOK

LEMMA SessionValues ==
  ASSUME TypeOK, NEW c \in ChargePoint, NEW k \in Connector, NEW id \in TxId
  PROVE  /\ session[c][k] \in Session /\ NoSession \in Session
         /\ session[c][k].start \in Nat /\ session[c][k].id \in TxId \cup {0}
         /\ Over(session[c][k]) \in Session
         /\ Confirmed(session[c][k], id) \in Session
         /\ meter[c][k] \in Nat
<1>1. session[c][k] \in Session /\ meter[c][k] \in Nat
  BY DEF TypeOK
<1> QED
  BY <1>1 DEF Session, NoSession, Over, Confirmed

\* What a list of stopTransaction calls leaves of the table.
LEMMA StoppedRows ==
  ASSUME TypeOK, NEW ids, NEW At \in [TxId -> Int], NEW reason \in Reason
  PROVE  /\ Stopped(ids, At, reason) \in [TxId -> Tx]
         /\ \A id \in TxId :
              LET row == Stopped(ids, At, reason)[id] IN
              /\ row.cp = transactions[id].cp /\ row.connector = transactions[id].connector
              /\ id \in ids /\ IsActive(id) => row.status = "Completed"
              /\ id \in ids => row.status # "Active"
              /\ id \notin ids => row = transactions[id]
              /\ IsActive(id) \/ row = transactions[id]
              /\ row.status = "Active" => IsActive(id)
              /\ row.status = "Completed" => row.reason # "none"
              /\ row.status = "none" <=> transactions[id].status = "none"
<1> DEFINE T == Stopped(ids, At, reason)
<1>1. ASSUME NEW id \in TxId
      PROVE  /\ T[id] \in Tx
             /\ T[id].cp = transactions[id].cp /\ T[id].connector = transactions[id].connector
             /\ id \in ids /\ IsActive(id) => T[id].status = "Completed"
             /\ id \in ids => T[id].status # "Active"
             /\ id \notin ids => T[id] = transactions[id]
             /\ IsActive(id) \/ T[id] = transactions[id]
             /\ T[id].status = "Active" => IsActive(id)
             /\ T[id].status = "Completed" => T[id].reason # "none"
             /\ T[id].status = "none" <=> transactions[id].status = "none"
  <2>1. transactions[id] \in Tx /\ At[id] \in Int
    BY DEF TypeOK
  <2>2. CASE id \in ids /\ IsActive(id)
    <3> DEFINE row == [transactions[id] EXCEPT !.status = "Completed", !.meterStop = At[id],
                                               !.reason = reason]
    <3>1. T[id] = row
      BY <2>2 DEF Stopped, StopsRow
    <3>2. /\ row \in Tx /\ row.status = "Completed" /\ row.reason # "none"
          /\ row.cp = transactions[id].cp /\ row.connector = transactions[id].connector
      BY <2>1 DEF Tx, Reason
    <3> HIDE DEF row, T
    <3> QED
      BY <2>2, <3>1, <3>2 DEF IsActive
  <2>3. CASE ~(id \in ids /\ IsActive(id))
    <3>1. T[id] = transactions[id]
      BY <2>3 DEF Stopped, StopsRow
    <3> HIDE DEF T
    <3> QED
      BY <2>1, <2>3, <3>1 DEF IsActive, TypeOK
  <2> QED
    BY <2>2, <2>3
<1>2. T \in [TxId -> Tx]
  BY <1>1 DEF Stopped
<1> QED
  BY <1>1, <1>2

\* A table that has no Active row the present one has not keeps the invariant.
LEMMA TableStepKeeps ==
  ASSUME IInv, transactions' \in [TxId -> Tx],
         registered' \subseteq ChargePoint,
         session' \in [ChargePoint -> [Connector -> Session]],
         meter' \in [ChargePoint -> [Connector -> Nat]],
         \A id \in TxId :
           /\ transactions'[id].status = "Completed" => transactions'[id].reason # "none"
           /\ transactions'[id].status = "Active" =>
                /\ IsActive(id)
                /\ transactions'[id].cp = transactions[id].cp
                /\ transactions'[id].connector = transactions[id].connector
  PROVE  IInv'
BY DEF IInv, TypeOK, OneActivePerConnector, IsActive

-----------------------------------------------------------------------------
(* The steps.                                                              *)

LEMMA SessionStepKeeps ==
  ASSUME IInv, NEW c \in ChargePoint, NEW k \in Connector,
         SessionStep(c, k) \/ RejectStart(c, k)
  PROVE  IInv' /\ UNCHANGED transactions
<1>1. session[c][k] \in Session /\ meter[c][k] \in Nat
  BY DEF IInv, TypeOK
<1>2. [phase |-> "starting", id |-> 0, start |-> meter[c][k]] \in Session
  BY <1>1 DEF Session
<1>3. NoSession \in Session /\ Over(session[c][k]) \in Session
  BY <1>1 DEF Session, NoSession, Over
<1>4. session' \in [ChargePoint -> [Connector -> Session]]
  <2>1. session \in [ChargePoint -> [Connector -> Session]]
    BY DEF IInv, TypeOK
  <2>2. \/ UNCHANGED session
        \/ \E s \in Session : session' = [session EXCEPT ![c][k] = s]
    BY <1>2, <1>3 DEF SessionStep, PlugIn, Charge, Unplug, Forget, RejectStart
  <2> QED
    BY <2>1, <2>2
<1>5. meter' \in [ChargePoint -> [Connector -> Nat]]
  <2>1. meter \in [ChargePoint -> [Connector -> Nat]] /\ meter[c][k] + 1 \in Nat
    BY <1>1 DEF IInv, TypeOK
  <2>2. UNCHANGED meter \/ meter' = [meter EXCEPT ![c][k] = meter[c][k] + 1]
    BY DEF SessionStep, PlugIn, Charge, Unplug, Forget, RejectStart
  <2> QED
    BY <2>1, <2>2
<1>6. UNCHANGED <<registered, transactions>>
  BY DEF SessionStep, PlugIn, Charge, Unplug, Forget, RejectStart
<1> QED
  BY <1>4, <1>5, <1>6 DEF IInv, TypeOK, OneActivePerConnector, IsActive

\* What every step of the server leaves of the rows: nothing but closing and
\* deleting, except that StartTransaction inserts one.
LEMMA StartTransactionKeeps ==
  ASSUME IInv, NEW c \in ChargePoint, NEW k \in Connector, StartTransaction(c, k)
  PROVE  /\ IInv'
         /\ Inserts(c, k)
<1> USE DEF IInv
<1> PICK id \in TxId, delivered \in BOOLEAN :
       /\ IsNext(id)
       /\ transactions' = [Stopped(Orphans(c, k), AllAt(session[c][k].start), "Other") EXCEPT
                             ![id] = NewTx(c, k, session[c][k].start)]
       /\ session' = IF delivered
                     THEN [session EXCEPT ![c][k] = Confirmed(session[c][k], id)]
                     ELSE session
  BY DEF StartTransaction
<1> DEFINE T == Stopped(Orphans(c, k), AllAt(session[c][k].start), "Other")
           row == NewTx(c, k, session[c][k].start)
<1>1. session[c][k].start \in Nat /\ Confirmed(session[c][k], id) \in Session
  BY SessionValues
<1>2. AllAt(session[c][k].start) \in [TxId -> Int]
  BY <1>1 DEF AllAt
<1>3. /\ T \in [TxId -> Tx]
      /\ \A other \in TxId :
           /\ T[other].cp = transactions[other].cp
           /\ T[other].connector = transactions[other].connector
           /\ other \in Orphans(c, k) /\ IsActive(other) => T[other].status = "Completed"
           /\ other \in Orphans(c, k) => T[other].status # "Active"
           /\ other \notin Orphans(c, k) => T[other] = transactions[other]
           /\ IsActive(other) \/ T[other] = transactions[other]
           /\ T[other].status = "Active" => IsActive(other)
           /\ T[other].status = "Completed" => T[other].reason # "none"
  BY <1>2, StoppedRows DEF Reason
<1>4. row \in Tx
  BY <1>1, NewTxIsTx
<1>5. /\ row.status = "Active" /\ row.cp = c /\ row.connector = k
  BY DEF NewTx
<1>6. transactions' = [T EXCEPT ![id] = row]
  OBVIOUS
<1>7. /\ session' \in [ChargePoint -> [Connector -> Session]]
      /\ UNCHANGED <<registered, meter>>
  BY <1>1, SessionUpdate DEF StartTransaction, TypeOK
<1> HIDE DEF T, row
<1>8. /\ transactions' \in [TxId -> Tx]
      /\ \A other \in TxId : transactions'[other] = IF other = id THEN row ELSE T[other]
  BY <1>3, <1>4, <1>6
<1>9. TypeOK'
  BY <1>3, <1>5, <1>7, <1>8 DEF TypeOK
<1>10. \A other \in TxId : T[other].status = "Active" /\ T[other].cp = c
                             /\ T[other].connector = k => FALSE
  BY <1>3 DEF Orphans, ActiveAt, ActiveOf
<1>11. OneActivePerConnector'
  <2> SUFFICES ASSUME NEW a \in TxId, NEW b \in TxId,
                      transactions'[a].status = "Active", transactions'[b].status = "Active",
                      transactions'[a].cp = transactions'[b].cp,
                      transactions'[a].connector = transactions'[b].connector
               PROVE  a = b
    BY DEF OneActivePerConnector, IsActive
  <2>1. CASE a # id /\ b # id
    BY <2>1, <1>3, <1>8 DEF OneActivePerConnector
  <2>2. CASE a = id \/ b = id
    BY <2>2, <1>5, <1>8, <1>10
  <2> QED
    BY <2>1, <2>2
<1>12. transactions[id].status = "none"
  <2>1. Exists(id) => id < id
    BY DEF IsNext
  <2> QED
    BY <2>1 DEF Exists, TxId
<1>13. Inserts(c, k)
  <2>1. transactions'[id] = NewTx(c, k, session[c][k].start)
    BY <1>8 DEF row
  <2>2. ASSUME NEW other \in TxId \ {id}
        PROVE  IF other \in ActiveAt(c, k)
               THEN /\ transactions'[other].status = "Completed"
                    /\ transactions'[other].cp = c /\ transactions'[other].connector = k
               ELSE transactions'[other] = transactions[other]
    BY <1>3, <1>8 DEF Orphans, ActiveAt, ActiveOf
  <2> QED
    BY <1>1, <1>12, <2>1, <2>2 DEF Inserts
<1> QED
  BY <1>9, <1>11, <1>13

\* A table out of stopTransaction keeps the invariant, and its closed rows.
LEMMA StopKeeps ==
  ASSUME IInv, NEW ids, NEW At \in [TxId -> Int], NEW reason \in Reason,
         transactions' = Stopped(ids, At, reason),
         session' \in [ChargePoint -> [Connector -> Session]],
         UNCHANGED <<registered, meter>>
  PROVE  /\ IInv'
         /\ OnlyCloses
<1>1. TypeOK
  BY DEF IInv
<1>2. ASSUME NEW id \in TxId
      PROVE  /\ transactions'[id].status = "none" <=> transactions[id].status = "none"
             /\ transactions'[id].cp = transactions[id].cp
             /\ transactions'[id].connector = transactions[id].connector
             /\ IsActive(id) \/ transactions'[id] = transactions[id]
             /\ transactions'[id].status = "Active" => IsActive(id)
             /\ transactions'[id].status = "Completed" => transactions'[id].reason # "none"
  BY <1>1, StoppedRows DEF Reason
<1>3. transactions' \in [TxId -> Tx]
  <2>1. At \in [TxId -> Int] /\ reason \in Reason
    OBVIOUS
  <2> QED
    BY <1>1, <2>1, StoppedRows
<1>4. IInv'
  BY <1>1, <1>2, <1>3, TableStepKeeps DEF TypeOK
<1> QED
  BY <1>2, <1>4 DEF IsActive, OnlyCloses

LEMMA StopTransactionKeeps ==
  ASSUME IInv, NEW c \in ChargePoint, NEW k \in Connector, StopTransaction(c, k)
  PROVE  /\ IInv'
         /\ OnlyCloses
<1> USE DEF IInv
<1> DEFINE s == session[c][k]
<1>1. PICK meterStop \in {meter[c][k], s.start}, reason \in {"none", "Remote"},
           delivered \in BOOLEAN :
       /\ IF Exists(s.id)
          THEN transactions' = Stopped({s.id}, AllAt(MeterStop(s.id, meterStop)),
                                       ReasonOr(reason, "Local"))
          ELSE IF ActiveOf(c) # {}
          THEN transactions' = Stopped({Latest(ActiveOf(c))}, AllAt(meterStop),
                                       ReasonOr(reason, "Other"))
          ELSE UNCHANGED transactions
       /\ session' = IF delivered THEN [session EXCEPT ![c][k] = NoSession] ELSE session
  BY DEF StopTransaction
<1>2. s.start \in Nat /\ meter[c][k] \in Nat
  BY DEF TypeOK, Session
<1>3. NoSession \in Session
  BY DEF NoSession, Session
<1>4. /\ session' \in [ChargePoint -> [Connector -> Session]]
      /\ UNCHANGED <<registered, meter>>
  BY <1>1, <1>3, SessionUpdate DEF StopTransaction, TypeOK
<1>5. ReasonOr(reason, "Local") \in Reason /\ ReasonOr(reason, "Other") \in Reason
  BY <1>1 DEF ReasonOr, Reason
<1>6. meterStop \in Int /\ AllAt(meterStop) \in [TxId -> Int]
  BY <1>1, <1>2 DEF AllAt
<1>7. CASE Exists(s.id)
  <2>1. transactions[s.id].meterStart \in Int /\ transactions[s.id].energy \in Int
    BY <1>7 DEF Exists, TypeOK, Tx
  <2>2. MeterStop(s.id, meterStop) \in Int
    BY <1>6, <2>1 DEF MeterStop
  <2>3. AllAt(MeterStop(s.id, meterStop)) \in [TxId -> Int]
    BY <2>2 DEF AllAt
  <2> QED
    BY <1>1, <1>4, <1>5, <1>7, <2>3, StopKeeps
<1>8. CASE ~Exists(s.id) /\ ActiveOf(c) # {}
  BY <1>1, <1>4, <1>5, <1>6, <1>8, StopKeeps
<1>9. CASE ~Exists(s.id) /\ ActiveOf(c) = {}
  <2>1. UNCHANGED transactions
    BY <1>1, <1>9
  <2> QED
    BY <2>1, <1>4, TableStepKeeps DEF TypeOK, IsActive, OnlyCloses
<1> QED
  BY <1>7, <1>8, <1>9

LEMMA MeterValuesKeeps ==
  ASSUME IInv, NEW c \in ChargePoint, NEW k \in Connector, MeterValues(c, k)
  PROVE  /\ IInv'
         /\ OnlyCloses
<1> USE DEF IInv
<1> PICK given \in {session[c][k].id, 0} :
       transactions' = [tx \in TxId |->
         IF tx \in Metered(c, k, given) /\ IsActive(tx)
         THEN [transactions[tx] EXCEPT !.energy = meter[c][k] - transactions[tx].meterStart]
         ELSE transactions[tx]]
  BY DEF MeterValues
<1>1. UNCHANGED <<registered, session, meter>>
  BY DEF MeterValues
<1>2. ASSUME NEW tx \in TxId
      PROVE  /\ transactions'[tx] \in Tx
             /\ transactions'[tx].cp = transactions[tx].cp
             /\ transactions'[tx].connector = transactions[tx].connector
             /\ transactions'[tx].status = transactions[tx].status
             /\ transactions'[tx].reason = transactions[tx].reason
             /\ IsActive(tx) \/ transactions'[tx] = transactions[tx]
  <2> DEFINE row == [transactions[tx] EXCEPT !.energy = meter[c][k] - transactions[tx].meterStart]
  <2>1. transactions[tx] \in Tx /\ meter[c][k] \in Int
    BY DEF TypeOK
  <2>2. /\ row \in Tx /\ row.cp = transactions[tx].cp
        /\ row.connector = transactions[tx].connector
        /\ row.status = transactions[tx].status /\ row.reason = transactions[tx].reason
    BY <2>1 DEF Tx
  <2>3. (transactions'[tx] = row /\ IsActive(tx)) \/ transactions'[tx] = transactions[tx]
    OBVIOUS
  <2> HIDE DEF row
  <2> QED
    BY <2>1, <2>2, <2>3
<1>3. transactions' \in [TxId -> Tx]
  <2> HIDE DEF IInv
  <2> QED
    BY <1>2 DEF MeterValues
<1>4. IInv'
  BY <1>1, <1>2, <1>3, TableStepKeeps DEF TypeOK, IsActive
<1> QED
  BY <1>2, <1>4 DEF IsActive, OnlyCloses

LEMMA CloseKeeps ==
  ASSUME IInv, NEW c \in ChargePoint, NEW k \in Connector, StatusAvailable(c, k) \/ CloseAll(c)
  PROVE  /\ IInv'
         /\ OnlyCloses
<1>1. AtTheirStart \in [TxId -> Int]
  BY DEF AtTheirStart, IInv, TypeOK, Tx
<1>2. \/ UNCHANGED transactions
      \/ \E ids, reason : reason \in Reason /\ transactions' = Stopped(ids, AtTheirStart, reason)
  BY DEF StatusAvailable, CloseAll, Reason
<1>3. /\ UNCHANGED <<registered, session, meter>>
      /\ session \in [ChargePoint -> [Connector -> Session]]
  BY DEF StatusAvailable, CloseAll, IInv, TypeOK
<1>4. CASE UNCHANGED transactions
  BY <1>3, <1>4, TableStepKeeps DEF IInv, TypeOK, IsActive, OnlyCloses
<1>5. CASE \E ids, reason : reason \in Reason /\ transactions' = Stopped(ids, AtTheirStart, reason)
  BY <1>1, <1>3, <1>5, StopKeeps
<1> QED
  BY <1>2, <1>4, <1>5

LEMMA RestartKeeps ==
  ASSUME IInv, Restart
  PROVE  /\ IInv'
         /\ OnlyCloses
<1> USE DEF IInv
<1>1. ASSUME NEW id \in TxId
      PROVE  /\ transactions'[id] \in Tx /\ transactions'[id].status # "Active"
             /\ transactions'[id].cp = transactions[id].cp
             /\ transactions'[id].connector = transactions[id].connector
             /\ transactions'[id].status = "none" => ~IsActive(id)
             /\ transactions'[id].status = "Completed" => transactions'[id].reason # "none"
             /\ IsActive(id) \/ transactions'[id] = transactions[id]
  <2> DEFINE value == IF transactions[id].energy # NULL
                      THEN transactions[id].meterStart + transactions[id].energy
                      ELSE transactions[id].meterStop
             row == [transactions[id] EXCEPT !.status = "Completed", !.meterStop = value,
                                             !.energy = NULL, !.reason = "Other"]
  <2>1. transactions[id] \in Tx
    BY DEF TypeOK
  <2>2. value \in Int
    BY <2>1 DEF Tx
  <2>3. IsActive(id) => transactions'[id] = row
    BY DEF Restart
  <2>4. ~IsActive(id) => transactions'[id] = transactions[id]
    BY DEF Restart
  <2>5. /\ row \in Tx /\ row.status = "Completed" /\ row.reason = "Other"
        /\ row.cp = transactions[id].cp /\ row.connector = transactions[id].connector
    <3> HIDE DEF value
    <3> QED
      BY <2>1, <2>2, NullIsInt DEF Tx
  <2> HIDE DEF row
  <2> QED
    BY <2>1, <2>3, <2>4, <2>5 DEF IsActive, TypeOK
<1>2. transactions' \in [TxId -> Tx]
  BY <1>1 DEF Restart
<1>3. UNCHANGED <<registered, session, meter>>
  BY DEF Restart
<1>4. IInv'
  BY <1>1, <1>2, <1>3, TableStepKeeps DEF TypeOK
<1> QED
  BY <1>1, <1>4 DEF IsActive, OnlyCloses

LEMMA RegistrationKeeps ==
  ASSUME IInv, NEW c \in ChargePoint, DeleteChargepoint(c) \/ CreateChargepoint(c)
  PROVE  /\ IInv'
         /\ OnlyCloses \/ Drops(c)
<1> USE DEF IInv
<1>1. \A id \in TxId : transactions'[id] \in {transactions[id], Free}
  BY DEF DeleteChargepoint, CreateChargepoint, TypeOK
<1>2. transactions' \in [TxId -> Tx]
  <2>1. UNCHANGED transactions \/ transactions' = [id \in TxId |->
          IF transactions[id].cp = c THEN Free ELSE transactions[id]]
    BY DEF DeleteChargepoint, CreateChargepoint
  <2> QED
    BY <2>1, FreeIsTx DEF TypeOK
<1>3. Free.status = "none"
  BY DEF Free
<1>4. session' \in [ChargePoint -> [Connector -> Session]]
  <2>1. [j \in Connector |-> NoSession] \in [Connector -> Session]
    BY DEF NoSession, Session
  <2> QED
    BY <2>1 DEF DeleteChargepoint, CreateChargepoint, TypeOK
<1>5. registered' \subseteq ChargePoint /\ UNCHANGED meter
  BY DEF DeleteChargepoint, CreateChargepoint, TypeOK
<1>6. IInv'
  BY <1>1, <1>2, <1>3, <1>4, <1>5, TableStepKeeps DEF TypeOK, IsActive
<1> QED
  BY <1>6 DEF DeleteChargepoint, CreateChargepoint, OnlyCloses, Drops

-----------------------------------------------------------------------------
(* The invariant, and what follows from it.                                *)

LEMMA InitIInv == Init => IInv
<1> SUFFICES ASSUME Init PROVE IInv
  OBVIOUS
<1>1. NoSession \in Session /\ Free.status = "none"
  BY DEF NoSession, Session, Free
<1>2. TypeOK
  BY <1>1, FreeIsTx DEF Init, TypeOK
<1>3. OneActivePerConnector
  BY <1>1 DEF Init, OneActivePerConnector, IsActive
<1> QED
  BY <1>2, <1>3 DEF IInv

\* Every step keeps the invariant, and does to the rows one of the three.
LEMMA NextKeepsIInv ==
  ASSUME IInv, [Next]_vars
  PROVE  /\ IInv'
         /\ \/ OnlyCloses
            \/ \E c \in ChargePoint, k \in Connector : Inserts(c, k)
            \/ \E c \in ChargePoint : Drops(c)
<1>1. ASSUME NEW c \in ChargePoint, NEW k \in Connector, SessionStep(c, k) \/ CallStep(c, k)
      PROVE  /\ IInv'
             /\ OnlyCloses \/ Inserts(c, k)
  <2>1. CASE SessionStep(c, k) \/ RejectStart(c, k)
    BY <2>1, SessionStepKeeps DEF OnlyCloses
  <2>2. CASE StartTransaction(c, k)
    BY <2>2, StartTransactionKeeps
  <2>3. CASE StopTransaction(c, k) \/ MeterValues(c, k) \/ StatusAvailable(c, k)
    BY <2>3, StopTransactionKeeps, MeterValuesKeeps, CloseKeeps
  <2> QED
    BY <1>1, <2>1, <2>2, <2>3 DEF CallStep
<1>2. ASSUME NEW c \in ChargePoint, CloseAll(c)
      PROVE  IInv' /\ OnlyCloses
  <2>1. AtTheirStart \in [TxId -> Int]
    BY DEF AtTheirStart, IInv, TypeOK, Tx
  <2>2. PICK reason \in Reason : transactions' = Stopped(ActiveOf(c), AtTheirStart, reason)
    BY <1>2 DEF CloseAll, Reason
  <2>3. /\ UNCHANGED <<registered, session, meter>>
        /\ session \in [ChargePoint -> [Connector -> Session]]
    BY <1>2 DEF CloseAll, IInv, TypeOK
  <2> QED
    BY <2>1, <2>2, <2>3, StopKeeps
<1>3. ASSUME NEW c \in ChargePoint, DeleteChargepoint(c) \/ CreateChargepoint(c)
      PROVE  IInv' /\ (OnlyCloses \/ Drops(c))
  BY <1>3, RegistrationKeeps
<1>4. CASE Restart
  BY <1>4, RestartKeeps
<1>5. CASE UNCHANGED vars
  BY <1>5 DEF vars, IInv, TypeOK, OneActivePerConnector, IsActive, OnlyCloses
<1> QED
  BY <1>1, <1>2, <1>3, <1>4, <1>5 DEF Next

-----------------------------------------------------------------------------
(* The ledger.                                                             *)

\* What the ledger shows as no row, is one that was never written or deleted.
FreeIsFree == \A id \in TxId : transactions[id].status = "none" => transactions[id] = Free

LEMMA NextKeepsFree ==
  ASSUME IInv, FreeIsFree, [Next]_vars
  PROVE  FreeIsFree'
<1>1. CASE OnlyCloses
  BY <1>1 DEF OnlyCloses, FreeIsFree
<1>2. CASE \E c \in ChargePoint, k \in Connector : Inserts(c, k)
  BY <1>2 DEF Inserts, FreeIsFree, NewTx
<1>3. CASE \E c \in ChargePoint : Drops(c)
  BY <1>3 DEF Drops, FreeIsFree
<1> QED
  BY <1>1, <1>2, <1>3, NextKeepsIInv

\* The rows of the ledger, and its opened row, in terms of the table.
Row(tx) ==
  [status |-> tx.status,
   place |-> <<tx.cp, tx.connector>>,
   record |-> IF tx.status = "Completed" THEN tx ELSE Free]

Rows == [id \in TxId |-> Row(transactions[id])]

LEMMA LedgerRows ==
  /\ Ledger!NoRow = Row(Free)
  /\ Ledger!Init <=> Rows = [id \in TxId |-> Ledger!NoRow]
  /\ \A c \in ChargePoint, k \in Connector :
       Ledger!OpenedAt(<<c, k>>) = [status |-> "Active", place |-> <<c, k>>, record |-> Free]
BY DEF Ledger!NoRow, Ledger!Init, Ledger!OpenedAt, Row, Rows, Free

\* The table holds rows, a closed row has a reason, and a connector never has
\* two Active transactions.
THEOREM TableSafe == Spec => [](TypeOK /\ OneActivePerConnector)
<1>1. IInv /\ [Next]_vars => IInv'
  BY NextKeepsIInv
<1> QED
  BY <1>1, InitIInv, PTL DEF Spec, IInv

\* Rows and sessions hold values of their kinds, and a closed row says why it was
\* closed (stop_reason).
THEOREM TypeCorrect == Spec => []TypeOK
<1>1. TypeOK /\ OneActivePerConnector => TypeOK
  OBVIOUS
<1> QED
  BY <1>1, TableSafe, PTL

LEMMA ClosingIsClose ==
  ASSUME IInv, IInv', OnlyCloses
  PROVE  Ledger!Close
<1> SUFFICES ASSUME NEW id \in TxId
             PROVE  Row(transactions'[id]) = Row(transactions[id]) \/ Ledger!Closes(id)
  BY DEF Ledger!Close, Row
<1>1. CASE transactions'[id] = transactions[id]
  BY <1>1
<1>2. CASE /\ IsActive(id) /\ transactions'[id].status # "none"
           /\ transactions'[id].cp = transactions[id].cp
           /\ transactions'[id].connector = transactions[id].connector
  <2>1. transactions'[id].status \in {"Active", "Completed"}
    BY <1>2 DEF IInv, TypeOK, Tx
  <2>2. CASE transactions'[id].status = "Active"
    BY <1>2, <2>2 DEF Row, IsActive
  <2>3. CASE transactions'[id].status = "Completed"
    BY <1>2, <2>3 DEF Ledger!Closes, IsActive
  <2> QED
    BY <2>1, <2>2, <2>3
<1> QED
  BY <1>1, <1>2 DEF OnlyCloses

LEMMA InsertingIsOpen ==
  ASSUME IInv, FreeIsFree, NEW c \in ChargePoint, NEW k \in Connector, Inserts(c, k)
  PROVE  \E id \in TxId : Ledger!Open(id, <<c, k>>)
<1>1. PICK id \in TxId :
        /\ transactions[id].status = "none"
        /\ \E start \in Nat : transactions'[id] = NewTx(c, k, start)
        /\ \A other \in TxId \ {id} :
             IF other \in ActiveAt(c, k)
             THEN /\ transactions'[other].status = "Completed"
                  /\ transactions'[other].cp = c /\ transactions'[other].connector = k
             ELSE transactions'[other] = transactions[other]
  BY DEF Inserts
<1>2. Row(transactions[id]) = Ledger!NoRow
  BY <1>1, LedgerRows DEF FreeIsFree
<1>3. Row(transactions'[id]) = Ledger!OpenedAt(<<c, k>>)
  BY <1>1, LedgerRows DEF NewTx, Row
<1>4. ASSUME NEW other \in TxId \ {id}
      PROVE  IF Row(transactions[other]) = Ledger!OpenedAt(<<c, k>>)
             THEN Ledger!Closes(other)
             ELSE Row(transactions'[other]) = Row(transactions[other])
  <2>1. Row(transactions[other]) = Ledger!OpenedAt(<<c, k>>) <=> other \in ActiveAt(c, k)
    <3> DEFINE tx == transactions[other]
    <3>1. other \in ActiveAt(c, k) <=> tx.status = "Active" /\ tx.cp = c /\ tx.connector = k
      BY DEF ActiveAt, ActiveOf, IsActive
    <3>2. Ledger!OpenedAt(<<c, k>>) = [status |-> "Active", place |-> <<c, k>>, record |-> Free]
      BY LedgerRows
    <3> HIDE DEF tx
    <3>3. Row(tx) = [status |-> "Active", place |-> <<c, k>>, record |-> Free]
            <=> tx.status = "Active" /\ tx.cp = c /\ tx.connector = k
      BY DEF Row
    <3> QED
      BY <3>1, <3>2, <3>3 DEF tx
  <2>2. CASE other \in ActiveAt(c, k)
    BY <1>1, <2>1, <2>2 DEF Ledger!Closes, ActiveAt, ActiveOf, IsActive
  <2>3. CASE other \notin ActiveAt(c, k)
    BY <1>1, <2>1, <2>3
  <2> QED
    BY <2>2, <2>3
<1> QED
  BY <1>2, <1>3, <1>4 DEF Ledger!Open, Row

LEMMA DroppingIsDelete ==
  ASSUME IInv, NEW c \in ChargePoint, Drops(c)
  PROVE  \E ids \in SUBSET TxId : Ledger!Delete(ids)
<1> PICK ids \in SUBSET TxId : ids = {id \in TxId : transactions[id].cp = c}
  OBVIOUS
<1>1. ASSUME NEW a \in ids, NEW b \in TxId,
             Row(transactions[b]).place = Row(transactions[a]).place
      PROVE  b \in ids
  BY <1>1 DEF Row
<1>2. Rows' = [id \in TxId |-> IF id \in ids THEN Ledger!NoRow ELSE Row(transactions[id])]
  BY LedgerRows DEF Drops, Rows
<1>3. Ledger!Delete(ids)
  BY <1>1, <1>2 DEF Ledger!Delete, Row, Rows
<1> QED
  BY <1>3

\* Every step of the handlers is a step of the ledger, or leaves it alone.
LEMMA NextIsLedgerNext ==
  ASSUME IInv, FreeIsFree, [Next]_vars
  PROVE  Ledger!Next
<1>1. CASE OnlyCloses
  BY <1>1, NextKeepsIInv, ClosingIsClose DEF Ledger!Next
<1>2. CASE \E c \in ChargePoint, k \in Connector : Inserts(c, k)
  BY <1>2, InsertingIsOpen DEF Ledger!Next
<1>3. CASE \E c \in ChargePoint : Drops(c)
  BY <1>3, DroppingIsDelete DEF Ledger!Next
<1> QED
  BY <1>1, <1>2, <1>3, NextKeepsIInv

\* The transactions table, under every handler, restart and deletion, is a
\* ledger: a start opens one row and closes those of its connector, a closed row
\* is never changed, and rows are deleted with their charge point only.
THEOREM LedgerRefinement == Spec => LedgerIsKept
<1>1. Init => IInv /\ FreeIsFree /\ Ledger!Init
  <2> SUFFICES ASSUME Init PROVE FreeIsFree /\ Ledger!Init
    BY InitIInv
  <2>1. Rows = [id \in TxId |-> Ledger!NoRow]
    BY LedgerRows DEF Init, Rows
  <2> QED
    BY <2>1, LedgerRows DEF Init, FreeIsFree
<1>2. IInv /\ FreeIsFree /\ [Next]_vars => IInv' /\ FreeIsFree'
  BY NextKeepsIInv, NextKeepsFree
<1>3. IInv /\ FreeIsFree /\ [Next]_vars => Ledger!Next
  BY NextIsLedgerNext
<1> QED
  BY <1>1, <1>2, <1>3, PTL DEF Spec, LedgerIsKept, Ledger!Spec

-----------------------------------------------------------------------------
(* What the meters allow.                                                  *)

\* A session began at a value that its meter has reached.
SessionsWithinMeter ==
  \A c \in ChargePoint, k \in Connector :
    session[c][k].phase # "idle" => session[c][k].start <= meter[c][k]

\* The row tx was opened by the session of a connector, at its start.
OpenedBy(tx, c, k) ==
  /\ tx.status # "none" /\ tx.cp = c /\ tx.connector = k
  /\ tx.meterStart = session[c][k].start

\* A session carries the id of a row of its own.  This is where KeepsMemory
\* matters: a deleted row's id would be given to another.
OwnRows ==
  \A c \in ChargePoint, k \in Connector :
    session[c][k].id # 0 =>
      /\ session[c][k].phase # "idle"
      /\ OpenedBy(transactions[session[c][k].id], c, k)

\* The start and the energy of a row are within what the meter m measured.
WithinMeter(tx, m) ==
  /\ tx.meterStart <= m
  /\ tx.energy # NULL => 0 <= tx.energy /\ tx.energy <= m - tx.meterStart

\* A row closed by its own StopTransaction bills what it showed.
Billed(tx) ==
  tx.status = "Completed" /\ tx.reason = "Local" =>
    tx.meterStop >= tx.meterStart /\ tx.meterStop >= tx.meterStart + tx.energy

RowFits(tx) ==
  tx.status # "none" =>
    /\ tx.cp \in ChargePoint /\ tx.connector \in Connector
    /\ WithinMeter(tx, meter[tx.cp][tx.connector])
    /\ Billed(tx)

EInv ==
  /\ SessionsWithinMeter /\ OwnRows
  /\ \A id \in TxId : RowFits(transactions[id])

-----------------------------------------------------------------------------
(* Rows.                                                                   *)

LEMMA FreeFits == RowFits(Free)
  BY DEF RowFits, Free

LEMMA NewTxFits ==
  ASSUME IInv, EInv, NEW c \in ChargePoint, NEW k \in Connector, session[c][k].phase # "idle"
  PROVE  RowFits(NewTx(c, k, session[c][k].start))
<1>1. session[c][k].start \in Nat /\ meter[c][k] \in Nat
  BY DEF IInv, TypeOK, Session
<1>2. session[c][k].start <= meter[c][k]
  BY DEF EInv, SessionsWithinMeter
<1> QED
  BY <1>1, <1>2 DEF RowFits, NewTx, WithinMeter, Billed

\* A row that is closed, and what a closing leaves of it.
Closing(tx, meterStop, reason) ==
  [tx EXCEPT !.status = "Completed", !.meterStop = meterStop, !.reason = reason]

LEMMA StoppedRow ==
  ASSUME NEW ids, NEW At, NEW reason, NEW id \in TxId
  PROVE  Stopped(ids, At, reason)[id] =
           IF id \in ids /\ IsActive(id) THEN Closing(transactions[id], At[id], reason)
           ELSE transactions[id]
BY DEF Stopped, StopsRow, Closing

LEMMA ClosingFits ==
  ASSUME NEW tx \in Tx, RowFits(tx), tx.status = "Active", NEW value \in Int, NEW reason \in Reason,
         reason = "Local" => value >= tx.meterStart /\ value >= tx.meterStart + tx.energy
  PROVE  RowFits(Closing(tx, value, reason))
<1> DEFINE row == Closing(tx, value, reason)
<1>1. /\ row.status = "Completed" /\ row.cp = tx.cp /\ row.connector = tx.connector
      /\ row.meterStart = tx.meterStart /\ row.energy = tx.energy
      /\ row.meterStop = value /\ row.reason = reason
  BY DEF Closing, Tx
<1> HIDE DEF row
<1>2. WithinMeter(row, meter[row.cp][row.connector])
  BY <1>1 DEF RowFits, WithinMeter
<1>3. Billed(row)
  BY <1>1 DEF Billed
<1>4. RowFits(row)
  BY <1>1, <1>2, <1>3 DEF RowFits
<1> QED
  BY <1>4 DEF row

\* A step that leaves rows that fit, and no row without one.
RowsFit ==
  \A id \in TxId :
    /\ RowFits(transactions'[id])
    /\ transactions[id].status # "none" =>
         /\ transactions'[id].status # "none"
         /\ transactions'[id].cp = transactions[id].cp
         /\ transactions'[id].connector = transactions[id].connector
         /\ transactions'[id].meterStart = transactions[id].meterStart

\* Closings for any reason but a StopTransaction's own.
LEMMA StopRowsFit ==
  ASSUME IInv, EInv, NEW ids, NEW At \in [TxId -> Int], NEW reason \in Reason \ {"Local"},
         transactions' = Stopped(ids, At, reason)
  PROVE  RowsFit
<1> SUFFICES ASSUME NEW id \in TxId
             PROVE  /\ RowFits(transactions'[id])
                    /\ transactions[id].status # "none" =>
                         /\ transactions'[id].status # "none"
                         /\ transactions'[id].cp = transactions[id].cp
                         /\ transactions'[id].connector = transactions[id].connector
                         /\ transactions'[id].meterStart = transactions[id].meterStart
  BY DEF RowsFit
<1>1. transactions[id] \in Tx /\ RowFits(transactions[id]) /\ At[id] \in Int
  BY DEF IInv, TypeOK, EInv
<1>2. transactions'[id] = IF id \in ids /\ IsActive(id)
                          THEN Closing(transactions[id], At[id], reason) ELSE transactions[id]
  BY StoppedRow
<1>3. CASE id \in ids /\ IsActive(id)
  <2>1. RowFits(Closing(transactions[id], At[id], reason))
    BY <1>1, <1>3, ClosingFits DEF IsActive
  <2> QED
    BY <1>1, <1>2, <1>3, <2>1 DEF Closing, Tx
<1>4. CASE ~(id \in ids /\ IsActive(id))
  BY <1>1, <1>2, <1>4
<1> QED
  BY <1>3, <1>4

LEMMA SameRowsFit ==
  ASSUME EInv, UNCHANGED transactions
  PROVE  RowsFit
BY DEF EInv, RowsFit

\* A session that has an id after the step had it before, or was just given it.
SessionsCarryOn ==
  \A c \in ChargePoint, k \in Connector :
    /\ session'[c][k].phase # "idle" => session'[c][k].start <= meter[c][k]
    /\ session'[c][k].id # 0 =>
         /\ session'[c][k].phase # "idle"
         /\ \/ /\ session'[c][k].id = session[c][k].id
               /\ session'[c][k].start = session[c][k].start
            \/ OpenedBy(transactions[session[c][k].id], c, k)'

LEMMA SameSessionsCarryOn ==
  ASSUME EInv, UNCHANGED session
  PROVE  SessionsCarryOn
BY DEF EInv, SessionsWithinMeter, OwnRows, SessionsCarryOn

LEMMA StepKeepsEInv ==
  ASSUME IInv, EInv, IInv', RowsFit, SessionsCarryOn, UNCHANGED meter
  PROVE  EInv'
<1>1. SessionsWithinMeter'
  BY DEF SessionsCarryOn, SessionsWithinMeter
<1>2. OwnRows'
  <2> SUFFICES ASSUME NEW c \in ChargePoint, NEW k \in Connector, session'[c][k].id # 0
               PROVE  /\ session'[c][k].phase # "idle"
                      /\ OpenedBy(transactions[session[c][k].id], c, k)'
    BY DEF OwnRows
  <2>1. session'[c][k].phase # "idle" /\ session'[c][k].id \in TxId
    BY DEF SessionsCarryOn, IInv, TypeOK, Session
  <2>2. CASE /\ session'[c][k].id = session[c][k].id
             /\ session'[c][k].start = session[c][k].start
    <3>1. OpenedBy(transactions[session[c][k].id], c, k)
      BY <2>2 DEF EInv, OwnRows
    <3> QED
      BY <2>1, <2>2, <3>1 DEF RowsFit, OpenedBy
  <2> QED
    BY <2>1, <2>2 DEF SessionsCarryOn
<1>3. \A id \in TxId : RowFits(transactions[id])'
  BY DEF RowsFit, RowFits
<1> QED
  BY <1>1, <1>2, <1>3 DEF EInv

-----------------------------------------------------------------------------
(* The steps.                                                              *)

LEMMA SessionStepMetered ==
  ASSUME IInv, EInv, IInv', NEW c \in ChargePoint, NEW k \in Connector,
         PlugIn(c, k) \/ Unplug(c, k) \/ Forget(c, k) \/ RejectStart(c, k)
  PROVE  EInv'
<1>1. UNCHANGED <<transactions, meter>>
  BY DEF PlugIn, Unplug, Forget, RejectStart
<1>2. PICK s : /\ session' = [session EXCEPT ![c][k] = s]
               /\ \/ s.id = 0 /\ (s.phase # "idle" => s.start = meter[c][k])
                  \/ /\ s.id = session[c][k].id /\ s.start = session[c][k].start
                     /\ s.phase # "idle" /\ session[c][k].phase # "idle"
  <2>1. CASE PlugIn(c, k)
    <3> DEFINE s == [phase |-> "starting", id |-> 0, start |-> meter[c][k]]
    <3>1. session' = [session EXCEPT ![c][k] = s] /\ s.id = 0 /\ s.start = meter[c][k]
      BY <2>1 DEF PlugIn
    <3> HIDE DEF s
    <3> QED
      BY <3>1
  <2>2. CASE Unplug(c, k) \/ RejectStart(c, k)
    <3> DEFINE s == Over(session[c][k])
    <3>1. session[c][k] \in Session /\ session[c][k].phase # "idle"
      BY <2>2 DEF Unplug, RejectStart, IInv, TypeOK
    <3>2. s.id = session[c][k].id /\ s.start = session[c][k].start /\ s.phase # "idle"
      BY <3>1 DEF Over, Session
    <3>3. session' = [session EXCEPT ![c][k] = s]
      BY <2>2 DEF Unplug, RejectStart
    <3> HIDE DEF s
    <3> QED
      BY <3>1, <3>2, <3>3
  <2>3. CASE Forget(c, k)
    <3>1. NoSession.id = 0 /\ NoSession.phase = "idle"
      BY DEF NoSession
    <3>2. session' = [session EXCEPT ![c][k] = NoSession]
      BY <2>3 DEF Forget
    <3> QED
      BY <3>1, <3>2
  <2> QED
    BY <2>1, <2>2, <2>3
<1>3. ASSUME NEW d \in ChargePoint, NEW j \in Connector
      PROVE  session'[d][j] = IF d = c /\ j = k THEN s ELSE session[d][j]
  BY <1>2 DEF IInv, TypeOK
<1>4. meter[c][k] \in Nat
  BY DEF IInv, TypeOK
<1>5. SessionsCarryOn
  BY <1>2, <1>3, <1>4 DEF SessionsCarryOn, EInv, SessionsWithinMeter, OwnRows
<1> QED
  BY <1>1, <1>5, SameRowsFit, StepKeepsEInv

LEMMA ChargeMetered ==
  ASSUME IInv, EInv, IInv', NEW c \in ChargePoint, NEW k \in Connector, Charge(c, k)
  PROVE  EInv'
<1>1. UNCHANGED <<transactions, session>>
  BY DEF Charge
<1>2. ASSUME NEW d \in ChargePoint, NEW j \in Connector
      PROVE  /\ meter[d][j] \in Nat /\ meter'[d][j] \in Nat
             /\ meter[d][j] <= meter'[d][j]
  BY DEF Charge, IInv, TypeOK
<1>3. SessionsWithinMeter'
  <2> SUFFICES ASSUME NEW d \in ChargePoint, NEW j \in Connector, session[d][j].phase # "idle"
               PROVE  session[d][j].start <= meter'[d][j]
    BY <1>1 DEF SessionsWithinMeter
  <2>1. session[d][j].start \in Nat /\ session[d][j].start <= meter[d][j]
    BY DEF IInv, TypeOK, Session, EInv, SessionsWithinMeter
  <2> QED
    BY <1>2, <2>1
<1>4. OwnRows'
  BY <1>1 DEF EInv, OwnRows, OpenedBy
<1>5. ASSUME NEW id \in TxId
      PROVE  RowFits(transactions[id])'
  <2> DEFINE tx == transactions[id]
  <2>1. tx \in Tx /\ RowFits(tx) /\ transactions'[id] = tx
    BY <1>1 DEF IInv, TypeOK, EInv
  <2>2. CASE tx.status # "none"
    <3>1. /\ tx.cp \in ChargePoint /\ tx.connector \in Connector
          /\ WithinMeter(tx, meter[tx.cp][tx.connector]) /\ Billed(tx)
      BY <2>1, <2>2 DEF RowFits
    <3>2. WithinMeter(tx, meter'[tx.cp][tx.connector])
      <4>1. tx.meterStart \in Nat /\ tx.energy \in Int
        BY <2>1 DEF Tx
      <4> QED
        BY <1>2, <3>1, <4>1, NullIsInt DEF WithinMeter
    <3> QED
      BY <2>1, <3>1, <3>2 DEF RowFits, Billed, WithinMeter
  <2>3. CASE tx.status = "none"
    BY <2>1, <2>3 DEF RowFits
  <2> QED
    BY <2>2, <2>3
<1> QED
  BY <1>3, <1>4, <1>5 DEF EInv

LEMMA StartTransactionMetered ==
  ASSUME IInv, EInv, IInv', NEW c \in ChargePoint, NEW k \in Connector, StartTransaction(c, k)
  PROVE  EInv'
<1> DEFINE s == session[c][k]
           T == Stopped(Orphans(c, k), AllAt(s.start), "Other")
           row == NewTx(c, k, s.start)
<1>1. PICK id \in TxId, delivered \in BOOLEAN :
        /\ IsNext(id)
        /\ transactions' = [T EXCEPT ![id] = row]
        /\ session' = IF delivered THEN [session EXCEPT ![c][k] = Confirmed(s, id)] ELSE session
  BY DEF StartTransaction
<1>2. /\ s \in Session /\ s.start \in Nat /\ s.phase # "idle"
      /\ UNCHANGED <<registered, meter>> /\ TypeOK
  BY DEF StartTransaction, IInv, TypeOK, Session
<1>3. transactions[id].status = "none"
  <2>1. Exists(id) => id < id
    BY <1>1 DEF IsNext
  <2> QED
    BY <2>1 DEF Exists, TxId
<1>4. AllAt(s.start) \in [TxId -> Int] /\ "Other" \in Reason
  BY <1>2 DEF AllAt, Reason
<1>5. ASSUME NEW other \in TxId
      PROVE  transactions'[other] = IF other = id THEN row ELSE T[other]
  BY <1>1, <1>2, <1>4, StoppedRows
<1>6. RowsFit
  <2> SUFFICES ASSUME NEW other \in TxId
               PROVE  /\ RowFits(transactions'[other])
                      /\ transactions[other].status # "none" =>
                           /\ transactions'[other].status # "none"
                           /\ transactions'[other].cp = transactions[other].cp
                           /\ transactions'[other].connector = transactions[other].connector
                           /\ transactions'[other].meterStart = transactions[other].meterStart
    BY DEF RowsFit
  <2>1. CASE other = id
    BY <1>2, <1>3, <1>5, <2>1, NewTxFits
  <2>2. CASE other # id
    <3>1. transactions[other] \in Tx /\ RowFits(transactions[other]) /\ AllAt(s.start)[other] \in Int
      BY <1>2, <1>4 DEF TypeOK, EInv
    <3>2. transactions'[other] = IF other \in Orphans(c, k) /\ IsActive(other)
                                 THEN Closing(transactions[other], AllAt(s.start)[other], "Other")
                                 ELSE transactions[other]
      BY <1>5, <2>2, StoppedRow
    <3>3. IsActive(other) => RowFits(Closing(transactions[other], AllAt(s.start)[other], "Other"))
      BY <1>4, <3>1, ClosingFits DEF IsActive
    <3> QED
      BY <3>1, <3>2, <3>3 DEF Closing, Tx
  <2> QED
    BY <2>1, <2>2
<1>7. SessionsCarryOn
  <2>1. CASE ~delivered
    BY <1>1, <2>1, SameSessionsCarryOn
  <2>2. CASE delivered
    <3>1. ASSUME NEW d \in ChargePoint, NEW j \in Connector
          PROVE  session'[d][j] = IF d = c /\ j = k THEN Confirmed(s, id) ELSE session[d][j]
      BY <1>1, <1>2, <2>2 DEF TypeOK
    <3>2. /\ Confirmed(s, id).phase = "charging" /\ Confirmed(s, id).id = id
          /\ Confirmed(s, id).start = s.start
      BY <1>2 DEF Confirmed, Session
    <3>3. OpenedBy(transactions[session[c][k].id], c, k)'
      <4>1. session'[c][k].id = id /\ session'[c][k].start = s.start
        BY <3>1, <3>2
      <4>2. row.status = "Active" /\ row.cp = c /\ row.connector = k /\ row.meterStart = s.start
        BY DEF NewTx
      <4> HIDE DEF row, s
      <4> QED
        BY <1>5, <4>1, <4>2 DEF OpenedBy
    <3> QED
      BY <1>2, <3>1, <3>2, <3>3 DEF SessionsCarryOn, EInv, SessionsWithinMeter, OwnRows
  <2> QED
    BY <2>1, <2>2
<1> QED
  BY <1>2, <1>6, <1>7, StepKeepsEInv

LEMMA StopTransactionMetered ==
  ASSUME IInv, EInv, IInv', NEW c \in ChargePoint, NEW k \in Connector, StopTransaction(c, k)
  PROVE  EInv'
<1> DEFINE s == session[c][k]
<1>1. PICK meterStop \in {meter[c][k], s.start}, reason \in {"none", "Remote"},
           delivered \in BOOLEAN :
        /\ IF Exists(s.id)
           THEN transactions' = Stopped({s.id}, AllAt(MeterStop(s.id, meterStop)),
                                        ReasonOr(reason, "Local"))
           ELSE IF ActiveOf(c) # {}
           THEN transactions' = Stopped({Latest(ActiveOf(c))}, AllAt(meterStop),
                                        ReasonOr(reason, "Other"))
           ELSE UNCHANGED transactions
        /\ session' = IF delivered THEN [session EXCEPT ![c][k] = NoSession] ELSE session
  BY DEF StopTransaction
<1>2. /\ s \in Session /\ s.start \in Nat /\ s.phase = "stopping" /\ meter[c][k] \in Nat
      /\ UNCHANGED meter /\ TypeOK
  BY DEF StopTransaction, IInv, TypeOK, Session
<1>3. SessionsCarryOn
  <2>1. CASE ~delivered
    BY <1>1, <2>1, SameSessionsCarryOn
  <2>2. CASE delivered
    <3>1. ASSUME NEW d \in ChargePoint, NEW j \in Connector
          PROVE  session'[d][j] = IF d = c /\ j = k THEN NoSession ELSE session[d][j]
      BY <1>1, <1>2, <2>2 DEF TypeOK
    <3>2. NoSession.phase = "idle" /\ NoSession.id = 0
      BY DEF NoSession
    <3> QED
      BY <3>1, <3>2 DEF SessionsCarryOn, EInv, SessionsWithinMeter, OwnRows
  <2> QED
    BY <2>1, <2>2
<1>4. RowsFit
  <2>1. CASE Exists(s.id)
    <3> DEFINE id == s.id
               tx == transactions[id]
               value == MeterStop(id, meterStop)
               why == ReasonOr(reason, "Local")
    <3>1. id \in TxId /\ id # 0 /\ tx \in Tx /\ RowFits(tx) /\ tx.status # "none"
      BY <1>2, <2>1 DEF Exists, TxId, TypeOK, EInv
    <3>2. tx.cp = c /\ tx.connector = k /\ tx.meterStart = s.start
      BY <3>1 DEF EInv, OwnRows, OpenedBy
    <3>3. tx.meterStart \in Nat /\ tx.energy \in Int
      BY <3>1 DEF Tx
    <3>4. WithinMeter(tx, meter[c][k])
      BY <3>1, <3>2 DEF RowFits
    <3>5. /\ value = IF tx.energy > 0 /\ meterStop <= tx.meterStart
                     THEN tx.meterStart + tx.energy ELSE meterStop
          /\ why \in Reason
      BY <1>1 DEF MeterStop, ReasonOr, Reason
    <3>6. transactions' = Stopped({id}, AllAt(value), why)
      BY <1>1, <2>1
    <3>7. meterStop \in {meter[c][k], s.start}
      OBVIOUS
    <3> HIDE DEF id, tx, value, why, s
    <3>8. NULL < 0 /\ NULL \in Int
      BY TransactionsAssumption DEF NULL
    <3>9. value \in Int /\ value >= tx.meterStart /\ value >= tx.meterStart + tx.energy
      BY <1>2, <3>2, <3>3, <3>4, <3>5, <3>7, <3>8 DEF WithinMeter
    <3>10. ASSUME NEW other \in TxId
           PROVE  transactions'[other] = IF other = id /\ IsActive(other)
                                         THEN Closing(tx, value, why) ELSE transactions[other]
      BY <3>6, StoppedRow DEF AllAt, tx
    <3>11. tx.status = "Active" => RowFits(Closing(tx, value, why))
      BY <3>1, <3>5, <3>9, ClosingFits
    <3>12. /\ Closing(tx, value, why).status = "Completed"
           /\ Closing(tx, value, why).cp = tx.cp
           /\ Closing(tx, value, why).connector = tx.connector
           /\ Closing(tx, value, why).meterStart = tx.meterStart
      BY <3>1 DEF Closing, Tx
    <3> QED
      BY <3>10, <3>11, <3>12 DEF RowsFit, EInv, IsActive, tx
  <2>2. CASE ~Exists(s.id) /\ ActiveOf(c) # {}
    <3>1. AllAt(meterStop) \in [TxId -> Int]
      BY <1>2 DEF AllAt
    <3>2. ReasonOr(reason, "Other") \in Reason \ {"Local"}
      BY DEF ReasonOr, Reason
    <3> QED
      BY <1>1, <2>2, <3>1, <3>2, StopRowsFit
  <2>3. CASE ~Exists(s.id) /\ ActiveOf(c) = {}
    BY <1>1, <2>3, SameRowsFit
  <2> QED
    BY <2>1, <2>2, <2>3
<1> QED
  BY <1>2, <1>3, <1>4, StepKeepsEInv

LEMMA MeterValuesMetered ==
  ASSUME IInv, EInv, IInv', NEW c \in ChargePoint, NEW k \in Connector, MeterValues(c, k)
  PROVE  EInv'
<1>1. PICK given \in {session[c][k].id, 0} :
        transactions' = [tx \in TxId |->
          IF tx \in Metered(c, k, given) /\ IsActive(tx)
          THEN [transactions[tx] EXCEPT !.energy = meter[c][k] - transactions[tx].meterStart]
          ELSE transactions[tx]]
  BY DEF MeterValues
<1>2. UNCHANGED <<session, meter>> /\ TypeOK
  BY DEF MeterValues, IInv
<1>3. ASSUME NEW id \in Metered(c, k, given), id \in TxId, IsActive(id)
      PROVE  transactions[id].cp = c /\ transactions[id].connector = k
  <2>1. CASE Exists(given)
    <3>1. given = session[c][k].id /\ given # 0 /\ id = given
      BY <1>3, <2>1 DEF Exists, TxId, Metered
    <3> QED
      BY <3>1 DEF EInv, OwnRows, OpenedBy
  <2>2. CASE ~Exists(given)
    <3>1. ActiveAt(c, k) # {} /\ id = Latest(ActiveAt(c, k))
      BY <1>3, <2>2 DEF Metered
    <3>2. PICK some \in ActiveAt(c, k) : TRUE
      BY <3>1
    <3>3. ActiveAt(c, k) = {some}
      BY <3>2 DEF IInv, OneActivePerConnector, ActiveAt, ActiveOf
    <3>4. some \in Nat
      BY DEF ActiveAt, ActiveOf, TxId
    <3>5. id = some
      BY <3>1, <3>3, <3>4 DEF Latest
    <3> QED
      BY <3>2, <3>5 DEF ActiveAt, ActiveOf
  <2> QED
    BY <2>1, <2>2
<1>4. RowsFit
  <2> SUFFICES ASSUME NEW id \in TxId
               PROVE  /\ RowFits(transactions'[id])
                      /\ transactions[id].status # "none" =>
                           /\ transactions'[id].status # "none"
                           /\ transactions'[id].cp = transactions[id].cp
                           /\ transactions'[id].connector = transactions[id].connector
                           /\ transactions'[id].meterStart = transactions[id].meterStart
    BY DEF RowsFit
  <2> DEFINE tx == transactions[id]
             row == [tx EXCEPT !.energy = meter[c][k] - tx.meterStart]
  <2>1. tx \in Tx /\ RowFits(tx)
    BY <1>2 DEF TypeOK, EInv
  <2>2. transactions'[id] = IF id \in Metered(c, k, given) /\ IsActive(id) THEN row ELSE tx
    BY <1>1
  <2>3. CASE id \in Metered(c, k, given) /\ IsActive(id)
    <3>1. tx.cp = c /\ tx.connector = k /\ tx.status = "Active" /\ tx.meterStart \in Nat
      BY <1>3, <2>1, <2>3 DEF IsActive, Tx
    <3>2. meter[c][k] \in Nat /\ tx.meterStart <= meter[c][k]
      BY <1>2, <2>1, <3>1 DEF TypeOK, RowFits, WithinMeter
    <3>3. /\ row.status = "Active" /\ row.cp = c /\ row.connector = k
          /\ row.meterStart = tx.meterStart /\ row.energy = meter[c][k] - tx.meterStart
      BY <2>1, <3>1 DEF Tx
    <3> HIDE DEF row, tx
    <3>4. RowFits(row)
      BY <3>1, <3>2, <3>3 DEF RowFits, WithinMeter, Billed
    <3> QED
      BY <2>2, <2>3, <3>1, <3>3, <3>4 DEF tx
  <2>4. CASE ~(id \in Metered(c, k, given) /\ IsActive(id))
    BY <2>1, <2>2, <2>4
  <2> QED
    BY <2>3, <2>4
<1> QED
  BY <1>2, <1>4, SameSessionsCarryOn, StepKeepsEInv

LEMMA CloseMetered ==
  ASSUME IInv, EInv, IInv', NEW c \in ChargePoint,
         CloseAll(c) \/ \E k \in Connector : StatusAvailable(c, k)
  PROVE  EInv'
<1>1. AtTheirStart \in [TxId -> Int]
  BY DEF AtTheirStart, IInv, TypeOK, Tx
<1>2. \/ UNCHANGED transactions
      \/ \E ids : \E reason \in Reason \ {"Local"} : transactions' = Stopped(ids, AtTheirStart, reason)
  BY DEF StatusAvailable, CloseAll, Reason
<1>3. UNCHANGED <<session, meter>>
  BY DEF StatusAvailable, CloseAll
<1>4. RowsFit
  BY <1>1, <1>2, SameRowsFit, StopRowsFit
<1> QED
  BY <1>3, <1>4, SameSessionsCarryOn, StepKeepsEInv

LEMMA RestartMetered ==
  ASSUME IInv, EInv, IInv', Restart
  PROVE  EInv'
<1>1. UNCHANGED <<session, meter>>
  BY DEF Restart
<1>2. RowsFit
  <2> SUFFICES ASSUME NEW id \in TxId
               PROVE  /\ RowFits(transactions'[id])
                      /\ transactions[id].status # "none" =>
                           /\ transactions'[id].status # "none"
                           /\ transactions'[id].cp = transactions[id].cp
                           /\ transactions'[id].connector = transactions[id].connector
                           /\ transactions'[id].meterStart = transactions[id].meterStart
    BY DEF RowsFit
  <2> DEFINE tx == transactions[id]
             value == IF tx.energy # NULL THEN tx.meterStart + tx.energy ELSE tx.meterStop
             row == [tx EXCEPT !.status = "Completed", !.meterStop = value,
                               !.energy = NULL, !.reason = "Other"]
  <2>1. tx \in Tx /\ RowFits(tx)
    BY DEF IInv, TypeOK, EInv
  <2>2. transactions'[id] = IF IsActive(id) THEN row ELSE tx
    BY DEF Restart
  <2>3. CASE IsActive(id)
    <3> HIDE DEF value
    <3>1. /\ row.status = "Completed" /\ row.cp = tx.cp /\ row.connector = tx.connector
          /\ row.meterStart = tx.meterStart /\ row.energy = NULL /\ row.reason = "Other"
      BY <2>1 DEF Tx
    <3>2. tx.status = "Active"
      BY <2>3 DEF IsActive
    <3> HIDE DEF row, tx
    <3>3. RowFits(row)
      BY <2>1, <3>1, <3>2 DEF RowFits, WithinMeter, Billed
    <3> QED
      BY <2>2, <2>3, <3>1, <3>3 DEF tx
  <2>4. CASE ~IsActive(id)
    BY <2>1, <2>2, <2>4
  <2> QED
    BY <2>3, <2>4
<1> QED
  BY <1>1, <1>2, SameSessionsCarryOn, StepKeepsEInv

\* The sessions of a deleted charge point lose their ids, the others their rows do
\* not touch.
LEMMA DeleteMetered ==
  ASSUME IInv, EInv, IInv', ~KeepsMemory, NEW c \in ChargePoint, DeleteChargepoint(c)
  PROVE  EInv'
<1>1. UNCHANGED meter
  BY DEF DeleteChargepoint
<1>2. ASSUME NEW d \in ChargePoint, NEW k \in Connector
      PROVE  session'[d][k] = IF d = c THEN NoSession ELSE session[d][k]
  <2>1. session' = [session EXCEPT ![c] = [j \in Connector |-> NoSession]]
    BY DEF DeleteChargepoint
  <2> QED
    BY <2>1 DEF IInv, TypeOK
<1>3. ASSUME NEW id \in TxId
      PROVE  transactions'[id] = IF transactions[id].cp = c THEN Free ELSE transactions[id]
  BY DEF DeleteChargepoint
<1>4. NoSession.phase = "idle" /\ NoSession.id = 0
  BY DEF NoSession
<1>5. SessionsWithinMeter'
  BY <1>1, <1>2, <1>4 DEF EInv, SessionsWithinMeter
<1>6. OwnRows'
  <2> SUFFICES ASSUME NEW d \in ChargePoint, NEW k \in Connector, session'[d][k].id # 0
               PROVE  /\ session'[d][k].phase # "idle"
                      /\ OpenedBy(transactions[session[d][k].id], d, k)'
    BY DEF OwnRows
  <2>1. d # c /\ session'[d][k] = session[d][k]
    BY <1>2, <1>4
  <2>2. session[d][k].phase # "idle" /\ OpenedBy(transactions[session[d][k].id], d, k)
    BY <2>1 DEF EInv, OwnRows
  <2>3. session[d][k].id \in TxId
    BY <2>1 DEF IInv, TypeOK, Session
  <2>4. transactions'[session[d][k].id] = transactions[session[d][k].id]
    BY <1>3, <2>1, <2>2, <2>3 DEF OpenedBy
  <2> QED
    BY <2>1, <2>2, <2>4 DEF OpenedBy
<1>7. \A id \in TxId : RowFits(transactions[id])'
  BY <1>1, <1>3, FreeFits DEF EInv, RowFits
<1> QED
  BY <1>5, <1>6, <1>7 DEF EInv

-----------------------------------------------------------------------------
(* The invariant, and what follows from it.                                *)

LEMMA InitEInv == Init => EInv
<1> SUFFICES ASSUME Init PROVE EInv
  OBVIOUS
<1>1. \A c \in ChargePoint, k \in Connector :
        session[c][k].phase = "idle" /\ session[c][k].id = 0
  BY DEF Init, NoSession
<1>2. \A id \in TxId : transactions[id] = Free
  BY DEF Init
<1> QED
  BY <1>1, <1>2, FreeFits DEF EInv, SessionsWithinMeter, OwnRows

LEMMA NextKeepsEInv ==
  ASSUME IInv, EInv, ~KeepsMemory, [Next]_vars
  PROVE  IInv' /\ EInv'
<1>1. IInv'
  BY NextKeepsIInv
<1>2. ASSUME NEW c \in ChargePoint, NEW k \in Connector, SessionStep(c, k) \/ CallStep(c, k)
      PROVE  EInv'
  BY <1>1, <1>2, SessionStepMetered, ChargeMetered, StartTransactionMetered,
     StopTransactionMetered, MeterValuesMetered, CloseMetered DEF SessionStep, CallStep
<1>3. ASSUME NEW c \in ChargePoint, CloseAll(c) \/ DeleteChargepoint(c) \/ CreateChargepoint(c)
      PROVE  EInv'
  <2>1. CASE CloseAll(c) \/ DeleteChargepoint(c)
    BY <1>1, <2>1, CloseMetered, DeleteMetered
  <2>2. CASE CreateChargepoint(c)
    BY <1>1, <2>2, SameRowsFit, SameSessionsCarryOn, StepKeepsEInv DEF CreateChargepoint
  <2> QED
    BY <1>3, <2>1, <2>2
<1>4. CASE Restart
  BY <1>1, <1>4, RestartMetered
<1>5. CASE UNCHANGED vars
  BY <1>1, <1>5, SameRowsFit, SameSessionsCarryOn, StepKeepsEInv DEF vars
<1> QED
  BY <1>1, <1>2, <1>3, <1>4, <1>5 DEF Next

LEMMA EInvSafe == IInv /\ EInv => EnergyIsMetered /\ StopKeepsEnergy
<1> SUFFICES ASSUME IInv, EInv PROVE EnergyIsMetered /\ StopKeepsEnergy
  OBVIOUS
<1>1. ASSUME NEW id \in TxId PROVE RowFits(transactions[id])
  BY DEF EInv
<1>2. EnergyIsMetered
  BY <1>1 DEF EnergyIsMetered, IsActive, RowFits, WithinMeter
<1>3. StopKeepsEnergy
  BY <1>1 DEF StopKeepsEnergy, RowFits, Billed
<1> QED
  BY <1>2, <1>3

\* While no charge point comes back from a deletion with the ids of deleted rows,
\* what an Active row shows was measured by the meter of its connector since its
\* start, by whatever id MeterValues was sent with.
THEOREM EnergyIsAlwaysMetered ==
  ASSUME ~KeepsMemory
  PROVE  Spec => []EnergyIsMetered
<1>1. IInv /\ EInv /\ [Next]_vars => IInv' /\ EInv'
  BY NextKeepsEInv
<1>2. IInv /\ EInv => EnergyIsMetered
  BY EInvSafe
<1> QED
  BY <1>1, <1>2, InitIInv, InitEInv, PTL DEF Spec

\* Under the same condition, a transaction stopped by its own StopTransaction bills
\* at least what it showed, whatever meterStop was sent (the correction).
THEOREM StopAlwaysKeepsEnergy ==
  ASSUME ~KeepsMemory
  PROVE  Spec => []StopKeepsEnergy
<1>1. IInv /\ EInv /\ [Next]_vars => IInv' /\ EInv'
  BY NextKeepsEInv
<1>2. IInv /\ EInv => StopKeepsEnergy
  BY EInvSafe
<1> QED
  BY <1>1, <1>2, InitIInv, InitEInv, PTL DEF Spec
=============================================================================

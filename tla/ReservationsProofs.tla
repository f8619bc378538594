-------------------------- MODULE ReservationsProofs --------------------------
(***************************************************************************)
(* For any connectors, tags, managers and bound: the rows of the table     *)
(* reservations only ever move on, and, when requests do not overlap, the  *)
(* live ones never share an id, what the charge point holds is live, and   *)
(* what it uses is not withdrawn.  An id is the thread: whoever holds one  *)
(* holds it where its live row says, so that a row ends when it is let go. *)
(***************************************************************************)
EXTENDS Reservations, FiniteSetTheorems, WellFoundedInduction, TLAPS

\* Row ids are given in order.
RowsInOrder == \A r \in Rows : r > lastRow => reservations[r].status = "none"

\* An id is at most one above the number of rows ever created.
IdsBounded ==
  /\ \A r \in Rows : reservations[r].id <= lastRow
  /\ \A m \in Managers : posts[m].phase # "idle" => posts[m].id <= lastRow + 1

\* Every request that waits will find room for its row.
RoomForAll == lastRow + Cardinality(Open) <= MaxRows

IInv == TypeOK /\ RowsInOrder /\ IdsBounded /\ RoomForAll

-----------------------------------------------------------------------------
(* Ids.                                                                    *)

LEMMA Least ==
  ASSUME NEW S \in SUBSET Nat, S # {}
  PROVE  \E m \in S : \A n \in S : m <= n
<1>1. PICK m \in S : \A n \in S : <<n, m>> \notin OpToRel(<, Nat)
  BY WFMin, NatLessThanWellFounded, Zenon
<1>2. \A n \in S : ~(n < m)
  BY <1>1 DEF OpToRel
<1> QED
  BY <1>2

LEMMA Greatest ==
  ASSUME NEW bound \in Nat, NEW S \in SUBSET (0 .. bound), S # {}
  PROVE  \E m \in S : \A n \in S : n <= m
<1>0. \A n \in S : n \in Nat /\ bound - n \in Nat
  OBVIOUS
<1> DEFINE rest == {bound - n : n \in S}
<1>1. rest \in SUBSET Nat /\ rest # {}
  <2>1. rest \subseteq Nat
    BY <1>0
  <2>2. PICK n \in S : TRUE
    OBVIOUS
  <2>3. bound - n \in rest
    BY <2>2
  <2> QED
    BY <2>1, <2>3
<1>2. PICK d \in rest : \A e \in rest : d <= e
  <2> HIDE DEF rest
  <2> QED
    BY <1>1, Least
<1>3. PICK m \in S : d = bound - m
  BY <1>2
<1>4. ASSUME NEW n \in S
      PROVE  n <= m
  <2>1. d <= bound - n
    BY <1>2
  <2>2. n \in Nat /\ m \in Nat
    BY <1>0
  <2> QED
    BY <1>3, <2>1, <2>2
<1> QED
  BY <1>4

\* getNextReservationId gives an id that no live row has.
LEMMA NextIdIsNew ==
  ASSUME TypeOK, IdsBounded
  PROVE  /\ NextReservationId(TakenIds) \in Nat
         /\ NextReservationId(TakenIds) <= lastRow + 1
         /\ NextReservationId(TakenIds) \notin TakenIds
         /\ NextReservationId(TakenIds) # 0
<1> DEFINE taken == TakenIds \cup {0}
           n == CHOOSE n \in taken : \A id \in TakenIds : id <= n
<1>1. lastRow \in Nat
  BY ReservationsAssumption DEF TypeOK, Rows
<1>2. taken \in SUBSET (0 .. lastRow) /\ taken # {}
  BY <1>1 DEF TakenIds, IdsBounded, TypeOK, Row
<1>3. \E m \in taken : \A id \in taken : id <= m
  <2> HIDE DEF taken
  <2> QED
    BY <1>1, <1>2, Greatest
<1>4. n \in taken /\ \A id \in TakenIds : id <= n
  BY <1>3
<1>5. NextReservationId(TakenIds) = 1 + n
  BY DEF NextReservationId
<1>6. n \in 0 .. lastRow
  BY <1>2, <1>4
<1> HIDE DEF n, taken
<1>7. 1 + n \notin TakenIds
  BY <1>4, <1>6
<1> QED
  BY <1>1, <1>5, <1>6, <1>7

-----------------------------------------------------------------------------
(* Rows.                                                                   *)

\* What the steps do to a row that is there: it moves on, never back among the
\* live ones, or is deleted once terminated.
MovesOn(r) ==
  \/ reservations'[r] = reservations[r]
  \/ reservations[r].status \in Terminated /\ reservations'[r] = NoRow
  \/ /\ reservations[r].status # "none"
     /\ \E status \in Live \cup Terminated :
          /\ reservations'[r] = [reservations[r] EXCEPT !.status = status]
          /\ status \in Live => reservations[r].status \in Live

RowsMoveOn == reservations' \in [Rows -> Row] /\ \A r \in Rows : MovesOn(r)

LEMMA RowStaysRow ==
  ASSUME NEW row \in Row, NEW status \in Live \cup Terminated
  PROVE  LET new == [row EXCEPT !.status = status] IN
         /\ new \in Row /\ new.status = status
         /\ new.id = row.id /\ new.connector = row.connector /\ new.tag = row.tag
BY DEF Row

LEMMA NoRowIsRow == NoRow \in Row /\ NoRow.status = "none" /\ NoRow.id = 0
  BY DEF NoRow, Row

LEMMA SameRowsMoveOn ==
  ASSUME TypeOK, UNCHANGED reservations
  PROVE  RowsMoveOn
BY DEF TypeOK, RowsMoveOn, MovesOn

LEMMA MarkedMoveOn ==
  ASSUME TypeOK, NEW ids, NEW from \in SUBSET (Live \cup Terminated),
         NEW to \in Live \cup Terminated, to \in Live => from \subseteq Live,
         reservations' = Marked(ids, from, to)
  PROVE  RowsMoveOn
<1>1. "none" \notin Live \cup Terminated
  BY DEF Live, Terminated
<1>2. ASSUME NEW r \in Rows
      PROVE  reservations'[r] \in Row /\ MovesOn(r)
  <2> DEFINE new == [reservations[r] EXCEPT !.status = to]
  <2>1. reservations[r] \in Row
    BY DEF TypeOK
  <2>2. new \in Row
    BY <2>1, RowStaysRow
  <2>3. reservations'[r] = IF r \in ids /\ reservations[r].status \in from THEN new
                           ELSE reservations[r]
    BY DEF Marked
  <2>4. CASE r \in ids /\ reservations[r].status \in from
    <3>1. reservations'[r] = new
      BY <2>3, <2>4
    <3>2. reservations[r].status # "none" /\ (to \in Live => reservations[r].status \in Live)
      BY <1>1, <2>4
    <3> QED
      BY <2>2, <3>1, <3>2 DEF MovesOn
  <2>5. CASE ~(r \in ids /\ reservations[r].status \in from)
    BY <2>1, <2>3, <2>5 DEF MovesOn
  <2> QED
    BY <2>4, <2>5
<1>3. reservations' \in [Rows -> Row]
  BY <1>2 DEF Marked
<1> QED
  BY <1>2, <1>3 DEF RowsMoveOn

LEMMA StatusSets ==
  /\ "Pending" \in Live /\ "Active" \in Live /\ "InUse" \in Live
  /\ "Expired" \in Terminated /\ "Fulfilled" \in Terminated /\ "Cancelled" \in Terminated
  /\ \A s : ~(s \in Live /\ s \in Terminated)
BY DEF Live, Terminated

LEMMA FreedMoveOn ==
  ASSUME TypeOK, NEW c, reservations' = Freed(c)
  PROVE  RowsMoveOn
<1>1. ASSUME NEW r \in Rows
      PROVE  reservations'[r] \in Row /\ MovesOn(r)
  <2>1. reservations[r] \in Row
    BY DEF TypeOK
  <2>2. \/ reservations'[r] = reservations[r]
        \/ \E status \in {"Expired", "Fulfilled"} :
             /\ reservations[r].status \in Live
             /\ reservations'[r] = [reservations[r] EXCEPT !.status = status]
    BY DEF Freed, Expiring, Live
  <2>3. "none" \notin Live /\ {"Expired", "Fulfilled"} \subseteq Live \cup Terminated
    BY DEF Live, Terminated
  <2>4. CASE reservations'[r] = reservations[r]
    BY <2>1, <2>4 DEF MovesOn
  <2>5. CASE \E status \in {"Expired", "Fulfilled"} :
               /\ reservations[r].status \in Live
               /\ reservations'[r] = [reservations[r] EXCEPT !.status = status]
    <3>1. PICK status \in {"Expired", "Fulfilled"} :
            /\ reservations[r].status \in Live
            /\ reservations'[r] = [reservations[r] EXCEPT !.status = status]
      BY <2>5
    <3>2. reservations'[r] \in Row
      BY <2>1, <2>3, <3>1, RowStaysRow
    <3>3. MovesOn(r)
      BY <2>3, <3>1 DEF MovesOn
    <3> QED
      BY <3>2, <3>3
  <2> QED
    BY <2>2, <2>4, <2>5
<1>2. reservations' \in [Rows -> Row]
  BY <1>1 DEF Freed
<1> QED
  BY <1>1, <1>2 DEF RowsMoveOn

LEMMA DeletedMoveOn ==
  ASSUME TypeOK, NEW d \in Rows, Delete(d)
  PROVE  RowsMoveOn
<1>1. ASSUME NEW r \in Rows
      PROVE  reservations'[r] = IF r = d THEN NoRow ELSE reservations[r]
  BY DEF Delete, TypeOK
<1>2. reservations' \in [Rows -> Row]
  BY NoRowIsRow DEF Delete, TypeOK
<1>3. reservations[d].status \in Terminated
  BY DEF Delete
<1> QED
  BY <1>1, <1>2, <1>3 DEF RowsMoveOn, MovesOn

\* Rows that move on keep their ids, and those that are live were live.
LEMMA MovingOn ==
  ASSUME RowsMoveOn, NEW r \in Rows, TypeOK
  PROVE  /\ reservations'[r].id \in {reservations[r].id, 0}
         /\ reservations[r].status = "none" => reservations'[r].status = "none"
         /\ reservations'[r].status \in Live =>
              /\ reservations[r].status \in Live
              /\ reservations'[r].id = reservations[r].id
              /\ reservations'[r].connector = reservations[r].connector
              /\ reservations'[r].tag = reservations[r].tag
         /\ reservations[r].status \in Terminated =>
              reservations'[r].status \in Terminated \cup {"none"}
<1>1. reservations[r] \in Row /\ MovesOn(r)
  BY DEF TypeOK, RowsMoveOn
<1>2. "none" \notin Live /\ "none" \notin Terminated
  BY DEF Live, Terminated
<1>3. CASE reservations'[r] = reservations[r]
  BY <1>2, <1>3
<1>4. CASE reservations[r].status \in Terminated /\ reservations'[r] = NoRow
  BY <1>2, <1>4, NoRowIsRow
<1>5. CASE /\ reservations[r].status # "none"
           /\ \E status \in Live \cup Terminated :
                /\ reservations'[r] = [reservations[r] EXCEPT !.status = status]
                /\ status \in Live => reservations[r].status \in Live
  <2>1. PICK status \in Live \cup Terminated :
          /\ reservations'[r] = [reservations[r] EXCEPT !.status = status]
          /\ status \in Live => reservations[r].status \in Live
    BY <1>5
  <2>2. /\ reservations'[r].status = status
        /\ reservations'[r].id = reservations[r].id
        /\ reservations'[r].connector = reservations[r].connector
        /\ reservations'[r].tag = reservations[r].tag
    BY <1>1, <2>1, RowStaysRow
  <2> QED
    BY <1>5, <2>1, <2>2, StatusSets
<1> QED
  BY <1>1, <1>3, <1>4, <1>5 DEF MovesOn

-----------------------------------------------------------------------------
(* The steps.                                                              *)

\* What a step leaves besides the table and the requests.
OthersFit ==
  /\ version' = version
  /\ withdrawals' \subseteq Rows \X {"Cancelled", "Expired"}
  /\ serving' \in [Connectors -> Tags \cup {NoTag}]
  /\ held' \in [Connectors -> Held]
  /\ session' \in [Connectors -> Session]

\* No request begins, and no row is created.
Quiet ==
  /\ lastRow' = lastRow
  /\ posts' \in [Managers -> Post]
  /\ \A m \in Managers :
       posts'[m].phase # "idle" => posts[m].phase # "idle" /\ posts'[m].id = posts[m].id

LEMMA OpenIsFinite ==
  /\ IsFiniteSet(Open) /\ Cardinality(Open) \in Nat
BY ReservationsAssumption, FS_Subset, FS_CardinalityType DEF Open

LEMMA QuietKeeps ==
  ASSUME IInv, RowsMoveOn, OthersFit, Quiet
  PROVE  IInv'
<1>1. TypeOK'
  BY DEF IInv, TypeOK, OthersFit, Quiet, RowsMoveOn
<1>2. lastRow \in Nat
  BY ReservationsAssumption DEF IInv, TypeOK, Rows
<1>3. RowsInOrder'
  BY MovingOn DEF IInv, RowsInOrder, Quiet
<1>4. IdsBounded'
  BY <1>2, MovingOn DEF IInv, IdsBounded, Quiet
<1>5. RoomForAll'
  <2>1. Open' \subseteq Open
    BY DEF Open, Quiet
  <2>2. Cardinality(Open') <= Cardinality(Open) /\ Cardinality(Open') \in Nat
    BY <2>1, OpenIsFinite, FS_Subset, FS_CardinalityType
  <2>3. RoomForAll /\ lastRow' = lastRow /\ Cardinality(Open) \in Nat /\ MaxRows \in Nat
    BY OpenIsFinite, ReservationsAssumption DEF IInv, Quiet
  <2> QED
    BY <1>2, <2>2, <2>3 DEF RoomForAll
<1> QED
  BY <1>1, <1>3, <1>4, <1>5 DEF IInv

LEMMA SamePostsQuiet ==
  ASSUME TypeOK, UNCHANGED <<posts, lastRow>>
  PROVE  Quiet
BY DEF TypeOK, Quiet

LEMMA SameOthersFit ==
  ASSUME TypeOK, UNCHANGED <<version, withdrawals, serving, held, session>>
  PROVE  OthersFit
BY DEF TypeOK, OthersFit

LEMMA NothingFits ==
  NotHeld \in Held /\ NoSession \in Session /\ NoPost \in Post /\ NoPost.phase = "idle"
BY DEF NotHeld, Held, NoSession, Session, NoPost, Post

\* A reservation that the charge point lets go of.
LEMMA LetGo ==
  ASSUME TypeOK, NEW at, held' \in {held, [held EXCEPT ![at] = NotHeld],
                                    [c \in Connectors |-> IF c \in at THEN NotHeld ELSE held[c]]}
  PROVE  held' \in [Connectors -> Held]
BY NothingFits DEF TypeOK

\* POST reservations, up to its row.
LEMMA ReserveKeeps ==
  ASSUME IInv, NEW m \in Managers, NEW c \in Connectors, NEW tag \in Tags, Reserve(m, c, tag)
  PROVE  IInv'
<1> DEFINE id == NextReservationId(TakenIds)
           p == [phase |-> "sent", id |-> id, connector |-> c, tag |-> tag]
<1>1. id \in Nat /\ id <= lastRow + 1
  BY NextIdIsNew DEF IInv
<1> HIDE DEF id
<1>2. p \in Post /\ p.phase = "sent" /\ p.id = id
  BY <1>1 DEF Post
<1>3. /\ posts' = [posts EXCEPT ![m] = p] /\ posts[m].phase = "idle"
      /\ UNCHANGED <<version, reservations, lastRow, withdrawals, serving, held, session>>
      /\ lastRow + Cardinality(Open) < MaxRows
  BY DEF Reserve, id
<1> HIDE DEF p
<1>4. posts' \in [Managers -> Post]
      /\ \A n \in Managers : posts'[n] = IF n = m THEN p ELSE posts[n]
  BY <1>2, <1>3 DEF IInv, TypeOK
<1>5. TypeOK' /\ RowsInOrder'
  BY <1>3, <1>4 DEF IInv, TypeOK, RowsInOrder
<1>6. IdsBounded'
  BY <1>1, <1>2, <1>3, <1>4 DEF IInv, IdsBounded
<1>7. RoomForAll'
  <2>1. Open' = Open \cup {m} /\ m \notin Open
    BY <1>2, <1>3, <1>4 DEF Open
  <2>2. Cardinality(Open') = Cardinality(Open) + 1
    BY <2>1, OpenIsFinite, FS_AddElement
  <2>3. lastRow \in Nat /\ Cardinality(Open) \in Nat /\ MaxRows \in Nat
    BY OpenIsFinite, ReservationsAssumption DEF IInv, TypeOK, Rows
  <2> QED
    BY <1>3, <2>2, <2>3 DEF RoomForAll
<1> QED
  BY <1>5, <1>6, <1>7 DEF IInv

\* What the creation of a row leaves of the table.
LEMMA ReservedRow ==
  ASSUME IInv, NEW m \in Managers, Reserved(m)
  PROVE  /\ IInv' /\ lastRow + 1 \in Rows /\ reservations[lastRow + 1].status = "none"
         /\ reservations'[lastRow + 1].id = posts[m].id
         /\ reservations'[lastRow + 1].connector = posts[m].connector
         /\ reservations'[lastRow + 1].tag = posts[m].tag
         /\ reservations'[lastRow + 1].status = "Pending"
         /\ \A r \in Rows \ {lastRow + 1} : reservations'[r] = reservations[r]
         /\ posts[m].phase = "granted"
         /\ \A n \in Managers : posts'[n] = IF n = m THEN NoPost ELSE posts[n]
<1> DEFINE p == posts[m]
           row == [status |-> "Pending", id |-> p.id, connector |-> p.connector, tag |-> p.tag]
<1>1. /\ lastRow \in Nat /\ Cardinality(Open) \in Nat /\ MaxRows \in Nat
      /\ p \in Post /\ p.phase = "granted"
  BY OpenIsFinite, ReservationsAssumption DEF IInv, TypeOK, Rows, Reserved
<1>2. m \in Open /\ Cardinality(Open) # 0
  BY <1>1, OpenIsFinite, FS_EmptySet DEF Open
<1>3. lastRow + 1 \in Rows
  BY <1>1, <1>2 DEF IInv, RoomForAll, Rows
<1>4. /\ row \in Row /\ row.status = "Pending" /\ row.id = p.id
      /\ row.connector = p.connector /\ row.tag = p.tag
  BY <1>1 DEF Row, Post, Live
<1>5. /\ reservations' = [reservations EXCEPT ![lastRow + 1] = row] /\ lastRow' = lastRow + 1
      /\ posts' = [posts EXCEPT ![m] = NoPost]
      /\ UNCHANGED <<version, withdrawals, serving, session>>
  BY DEF Reserved
<1> HIDE DEF row
<1>6. /\ reservations' \in [Rows -> Row]
      /\ \A r \in Rows : reservations'[r] = IF r = lastRow + 1 THEN row ELSE reservations[r]
  BY <1>3, <1>4, <1>5 DEF IInv, TypeOK
<1>7. /\ posts' \in [Managers -> Post]
      /\ \A n \in Managers : posts'[n] = IF n = m THEN NoPost ELSE posts[n]
  BY <1>5, NothingFits DEF IInv, TypeOK
<1>8. held' \in [Connectors -> Held]
  <2>1. ASSUME NEW c \in Connectors
        PROVE  held'[c] \in Held
    BY DEF Reserved, IInv, TypeOK, Held
  <2> QED
    BY <2>1 DEF Reserved
<1>9. TypeOK'
  BY <1>3, <1>5, <1>6, <1>7, <1>8 DEF IInv, TypeOK
<1>10. RowsInOrder'
  <2>1. ASSUME NEW r \in Rows, r > lastRow + 1
        PROVE  reservations'[r].status = "none"
    <3>1. r # lastRow + 1 /\ r > lastRow
      BY <1>1, <2>1 DEF Rows
    <3> QED
      BY <1>6, <3>1 DEF IInv, RowsInOrder
  <2> QED
    BY <1>5, <2>1 DEF RowsInOrder
<1>11. IdsBounded'
  <2>1. ASSUME NEW r \in Rows
        PROVE  reservations'[r].id <= lastRow + 1
    <3>1. reservations[r].id \in Nat /\ reservations[r].id <= lastRow
      BY DEF IInv, TypeOK, Row, IdsBounded
    <3>2. p.id <= lastRow + 1
      BY <1>1 DEF IInv, IdsBounded
    <3> QED
      BY <1>1, <1>4, <1>6, <3>1, <3>2
  <2>2. ASSUME NEW n \in Managers, posts'[n].phase # "idle"
        PROVE  posts'[n].id <= lastRow + 1 + 1
    <3>1. posts'[n] = posts[n]
      BY <1>7, <2>2, NothingFits
    <3>2. posts[n].id \in Nat /\ posts[n].id <= lastRow + 1
      BY <2>2, <3>1 DEF IInv, TypeOK, Post, IdsBounded
    <3> QED
      BY <1>1, <3>1, <3>2
  <2> QED
    BY <1>5, <2>1, <2>2 DEF IdsBounded
<1>12. RoomForAll'
  <2>1. Open' = Open \ {m}
    BY <1>7, NothingFits DEF Open
  <2>2. Cardinality(Open') = Cardinality(Open) - 1
    BY <1>2, <2>1, OpenIsFinite, FS_RemoveElement
  <2> QED
    BY <1>1, <1>5, <2>2 DEF IInv, RoomForAll
<1>13. reservations[lastRow + 1].status = "none"
  BY <1>1, <1>3 DEF IInv, RowsInOrder
<1> QED
  BY <1>1, <1>3, <1>4, <1>6, <1>7, <1>9, <1>10, <1>11, <1>12, <1>13 DEF IInv

LEMMA RequestIsQuiet ==
  ASSUME IInv, NEW m \in Managers, Granted(m) \/ ReserveFails(m)
  PROVE  RowsMoveOn /\ OthersFit /\ Quiet
<1>1. /\ UNCHANGED <<version, reservations, lastRow, withdrawals, serving, session>>
      /\ posts[m] \in Post /\ posts[m].phase # "idle" /\ TypeOK
  BY DEF Granted, ReserveFails, IInv, TypeOK
<1>2. RowsMoveOn
  BY <1>1, SameRowsMoveOn
<1>3. CASE Granted(m)
  <2> DEFINE p == posts[m]
             new == [p EXCEPT !.phase = "granted"]
             here == [id |-> p.id, tag |-> p.tag, confirmed |-> FALSE]
  <2>1. new \in Post /\ new.id = p.id /\ here \in Held
    BY <1>1 DEF Post, Held
  <2>2. /\ posts' = [posts EXCEPT ![m] = new]
        /\ held' = [c \in Connectors |->
                      IF c = p.connector THEN here
                      ELSE IF held[c].id = p.id THEN NotHeld ELSE held[c]]
    BY <1>1, <1>3 DEF Granted, TypeOK
  <2> HIDE DEF new, here
  <2>3. held' \in [Connectors -> Held]
    BY <1>1, <2>1, <2>2, NothingFits DEF TypeOK
  <2>4. Quiet
    BY <1>1, <2>1, <2>2 DEF Quiet, TypeOK
  <2> QED
    BY <1>1, <1>2, <2>3, <2>4 DEF OthersFit, TypeOK
<1>4. CASE ReserveFails(m)
  <2>1. posts' = [posts EXCEPT ![m] = NoPost] /\ UNCHANGED held
    BY <1>4 DEF ReserveFails
  <2>2. Quiet
    BY <1>1, <2>1, NothingFits DEF Quiet, TypeOK
  <2> QED
    BY <1>1, <1>2, <2>1, <2>2, SameOthersFit
<1> QED
  BY <1>3, <1>4

LEMMA CancellingIsQuiet ==
  ASSUME IInv, NEW r \in Rows, Cancel(r) \/ Cleanup(r) \/ Delete(r)
  PROVE  RowsMoveOn /\ OthersFit /\ Quiet
<1>1. UNCHANGED <<version, lastRow, posts, serving, held, session>> /\ TypeOK
  BY DEF Cancel, Cleanup, Delete, IInv
<1>2. RowsMoveOn
  BY <1>1, SameRowsMoveOn, DeletedMoveOn DEF Cancel, Cleanup
<1>3. withdrawals' \subseteq Rows \X {"Cancelled", "Expired"}
  BY <1>1 DEF Cancel, Cleanup, Delete, TypeOK
<1> QED
  BY <1>1, <1>2, <1>3, SamePostsQuiet DEF OthersFit, TypeOK

LEMMA WithdrawalIsQuiet ==
  ASSUME IInv, NEW w \in withdrawals, Withdrawn(w) \/ WithdrawalTimesOut(w)
  PROVE  RowsMoveOn /\ OthersFit /\ Quiet
<1>1. /\ UNCHANGED <<version, lastRow, posts, serving, session>> /\ TypeOK
      /\ w[1] \in Rows /\ w[2] \in {"Cancelled", "Expired"}
      /\ withdrawals' \subseteq Rows \X {"Cancelled", "Expired"}
  BY DEF Withdrawn, WithdrawalTimesOut, IInv, TypeOK
<1>2. RowsMoveOn
  <2>1. UNCHANGED reservations \/ reservations' = Overwritten(w[1], w[2])
    BY DEF Withdrawn, WithdrawalTimesOut
  <2>2. w[2] \in Live \cup Terminated /\ w[2] \notin Live
    BY <1>1 DEF Live, Terminated
  <2> QED
    BY <1>1, <2>1, <2>2, SameRowsMoveOn, MarkedMoveOn DEF Overwritten
<1>3. held' \in [Connectors -> Held]
  <2> DEFINE at == HoldersOf(reservations[w[1]].id)
  <2>1. \/ UNCHANGED held
        \/ held' = [c \in Connectors |-> IF c \in at THEN NotHeld ELSE held[c]]
    BY DEF Withdrawn, WithdrawalTimesOut
  <2> HIDE DEF at
  <2> QED
    BY <1>1, <2>1, LetGo
<1> QED
  BY <1>1, <1>2, <1>3, SamePostsQuiet DEF OthersFit, TypeOK

\* A session that goes on to another phase.
LEMMA PhaseUpdate ==
  ASSUME TypeOK, NEW c \in Connectors, NEW phase \in {"idle", "starting", "running", "ending"},
         session' \in {session, [session EXCEPT ![c].phase = phase],
                       [session EXCEPT ![c] = NoSession]}
  PROVE  session' \in [Connectors -> Session]
<1> DEFINE s == [session[c] EXCEPT !.phase = phase]
<1>1. session[c] \in Session
  BY DEF TypeOK
<1>2. s \in Session
  BY <1>1 DEF Session
<1>3. session' \in {session, [session EXCEPT ![c] = s], [session EXCEPT ![c] = NoSession]}
  BY DEF TypeOK
<1> HIDE DEF s
<1> QED
  BY <1>2, <1>3, NothingFits DEF TypeOK

LEMMA SessionIsQuiet ==
  ASSUME IInv, NEW c \in Connectors,
         (\E tag \in Tags : Begin(c, tag)) \/ GiveUp(c) \/ Unplug(c)
  PROVE  RowsMoveOn /\ OthersFit /\ Quiet
<1>1. UNCHANGED <<version, reservations, lastRow, posts, withdrawals, serving>> /\ TypeOK
  BY DEF Begin, GiveUp, Unplug, server, IInv
<1>2. session' \in [Connectors -> Session] /\ held' \in [Connectors -> Held]
  <2>1. CASE \E tag \in Tags : Begin(c, tag)
    <3>1. PICK tag \in Tags :
            /\ session' = [session EXCEPT ![c] = [phase |-> "starting", tag |-> tag, id |-> held[c].id]]
            /\ held' = [held EXCEPT ![c] = NotHeld]
      BY <2>1 DEF Begin
    <3>2. held[c].id \in Nat
      BY <1>1 DEF TypeOK, Held
    <3>3. [phase |-> "starting", tag |-> tag, id |-> held[c].id] \in Session
      BY <3>2 DEF Session
    <3>4. session' \in [Connectors -> Session]
      BY <1>1, <3>1, <3>3 DEF TypeOK
    <3>5. NotHeld \in Held
      BY NothingFits
    <3>6. held' \in [Connectors -> Held]
      BY <1>1, <3>1, <3>5 DEF TypeOK
    <3> QED
      BY <3>4, <3>6
  <2>2. CASE GiveUp(c) \/ Unplug(c)
    BY <1>1, <2>2, PhaseUpdate DEF GiveUp, Unplug, TypeOK
  <2> QED
    BY <2>1, <2>2
<1> QED
  BY <1>1, <1>2, SameRowsMoveOn, SamePostsQuiet DEF OthersFit, TypeOK

LEMMA TransactionIsQuiet ==
  ASSUME IInv, NEW c \in Connectors, StartTransaction(c) \/ StopTransaction(c)
  PROVE  RowsMoveOn /\ OthersFit /\ Quiet
<1>1. /\ UNCHANGED <<version, lastRow, posts, withdrawals, held>> /\ TypeOK
      /\ session[c] \in Session
  BY DEF StartTransaction, StopTransaction, IInv, TypeOK
<1>2. session' \in [Connectors -> Session]
  BY <1>1, PhaseUpdate DEF StartTransaction, StopTransaction
<1>3. serving' \in [Connectors -> Tags \cup {NoTag}]
  BY <1>1 DEF StartTransaction, StopTransaction, TypeOK, Session
<1>4. RowsMoveOn
  <2>1. \/ UNCHANGED reservations
        \/ \E ids : reservations' = Marked(ids, {"Active"}, "InUse")
        \/ \E ids : reservations' = Marked(ids, {"InUse"}, "Fulfilled")
    BY DEF StartTransaction, StopTransaction, Started, Using
  <2>2. CASE \E ids : reservations' = Marked(ids, {"Active"}, "InUse")
    <3>1. {"Active"} \in SUBSET (Live \cup Terminated) /\ {"Active"} \subseteq Live
      BY StatusSets
    <3> QED
      BY <1>1, <2>2, <3>1, StatusSets, MarkedMoveOn
  <2>3. CASE \E ids : reservations' = Marked(ids, {"InUse"}, "Fulfilled")
    <3>1. {"InUse"} \in SUBSET (Live \cup Terminated) /\ "Fulfilled" \in Live \cup Terminated
          /\ {"InUse"} \subseteq Live
      BY StatusSets
    <3> QED
      BY <1>1, <2>3, <3>1, MarkedMoveOn
  <2> QED
    BY <1>1, <2>1, <2>2, <2>3, SameRowsMoveOn
<1> QED
  BY <1>1, <1>2, <1>3, <1>4, SamePostsQuiet DEF OthersFit, TypeOK

LEMMA StatusIsQuiet ==
  ASSUME IInv, NEW c \in Connectors,
         \/ StatusReserved(c) \/ StatusCharging(c) \/ StatusAvailable(c) \/ StatusFaulted(c)
         \/ ReservationEnds(c)
  PROVE  RowsMoveOn /\ OthersFit /\ Quiet
<1>1. UNCHANGED <<version, lastRow, posts, withdrawals, session>> /\ TypeOK
  BY DEF StatusReserved, StatusCharging, StatusAvailable, StatusFaulted, ReservationEnds, IInv
<1>2. serving' \in [Connectors -> Tags \cup {NoTag}]
  BY <1>1 DEF StatusReserved, StatusCharging, StatusAvailable, StatusFaulted, ReservationEnds, TypeOK
<1>3. held' \in [Connectors -> Held]
  <2>1. held' \in {held, [held EXCEPT ![c] = NotHeld]}
    BY DEF StatusReserved, StatusCharging, StatusAvailable, StatusFaulted, ReservationEnds
  <2> QED
    BY <1>1, <2>1, LetGo
<1>4. RowsMoveOn
  <2>1. CASE StatusReserved(c)
    <3>1. {"Pending"} \in SUBSET (Live \cup Terminated) /\ {"Pending"} \subseteq Live
      BY StatusSets
    <3> QED
      BY <1>1, <2>1, <3>1, StatusSets, MarkedMoveOn DEF StatusReserved, Activated
  <2>2. CASE StatusCharging(c)
    <3>1. {"Active"} \in SUBSET (Live \cup Terminated) /\ {"Active"} \subseteq Live
      BY StatusSets
    <3> QED
      BY <1>1, <2>2, <3>1, StatusSets, MarkedMoveOn DEF StatusCharging, Using
  <2>3. CASE StatusAvailable(c) \/ StatusFaulted(c)
    BY <1>1, <2>3, SameRowsMoveOn, FreedMoveOn DEF StatusAvailable, StatusFaulted
  <2>4. CASE ReservationEnds(c)
    <3>1. \/ UNCHANGED reservations
          \/ \E ids : reservations' = Marked(ids, Live \cup Terminated, "Expired")
      BY <2>4 DEF ReservationEnds, NewStatus
    <3>2. "Expired" \in Live \cup Terminated /\ "Expired" \notin Live
      BY StatusSets
    <3> QED
      BY <1>1, <3>1, <3>2, SameRowsMoveOn, MarkedMoveOn
  <2> QED
    BY <2>1, <2>2, <2>3, <2>4
<1> QED
  BY <1>1, <1>2, <1>3, <1>4, SamePostsQuiet DEF OthersFit, TypeOK

LEMMA ServerIsQuiet ==
  ASSUME IInv, Restart \/ \E c \in Connectors : TransactionClosed(c)
  PROVE  RowsMoveOn /\ OthersFit /\ Quiet
<1>1. UNCHANGED <<version, reservations, lastRow, held, session>> /\ TypeOK
  BY DEF Restart, TransactionClosed, IInv
<1>2. /\ serving' \in [Connectors -> Tags \cup {NoTag}]
      /\ withdrawals' \subseteq Rows \X {"Cancelled", "Expired"}
  BY <1>1 DEF Restart, TransactionClosed, TypeOK
<1>3. Quiet
  <2>1. UNCHANGED posts \/ posts' = [m \in Managers |-> NoPost]
    BY DEF Restart, TransactionClosed
  <2> QED
    BY <1>1, <2>1, NothingFits, SamePostsQuiet DEF Quiet
<1> QED
  BY <1>1, <1>2, <1>3, SameRowsMoveOn DEF OthersFit, TypeOK

-----------------------------------------------------------------------------
(* The invariant, and what follows from it.                                *)

LEMMA InitIInv == Init => IInv
<1> SUFFICES ASSUME Init PROVE IInv
  OBVIOUS
<1>1. TypeOK
  BY NoRowIsRow, NothingFits, ReservationsAssumption DEF Init, TypeOK
<1>2. RowsInOrder /\ IdsBounded
  BY NoRowIsRow, NothingFits DEF Init, RowsInOrder, IdsBounded
<1>3. RoomForAll
  <2>1. Open = {}
    BY NothingFits DEF Init, Open
  <2> QED
    BY <2>1, FS_EmptySet, ReservationsAssumption DEF Init, RoomForAll
<1> QED
  BY <1>1, <1>2, <1>3 DEF IInv

\* A step begins a request, creates its row, or does neither.
LEMMA NextSteps ==
  ASSUME IInv, [Next]_vars
  PROVE  \/ RowsMoveOn /\ OthersFit /\ Quiet
         \/ \E m \in Managers : Reserved(m)
         \/ \E m \in Managers, c \in Connectors, tag \in Tags : Reserve(m, c, tag)
<1>1. ASSUME ManagerStep
      PROVE  \/ RowsMoveOn /\ OthersFit /\ Quiet
             \/ \E m \in Managers : Reserved(m)
             \/ \E m \in Managers, c \in Connectors, tag \in Tags : Reserve(m, c, tag)
  BY <1>1, RequestIsQuiet, CancellingIsQuiet, WithdrawalIsQuiet DEF ManagerStep
<1>2. ASSUME NEW c \in Connectors, ConnectorStep(c)
      PROVE  RowsMoveOn /\ OthersFit /\ Quiet
  BY <1>2, SessionIsQuiet, TransactionIsQuiet, StatusIsQuiet, ServerIsQuiet DEF ConnectorStep
<1>3. CASE Restart
  BY <1>3, ServerIsQuiet
<1>4. CASE UNCHANGED vars
  BY <1>4, SameRowsMoveOn, SameOthersFit, SamePostsQuiet DEF vars, IInv
<1> QED
  BY <1>1, <1>2, <1>3, <1>4 DEF Next

LEMMA NextKeepsIInv ==
  ASSUME IInv, [Next]_vars
  PROVE  IInv'
BY NextSteps, QuietKeeps, ReservedRow, ReserveKeeps

\* Rows, requests and reservations hold values of their kinds, for any number of
\* managers whose requests overlap.
THEOREM TypeCorrect == Spec => []TypeOK
<1>1. IInv /\ [Next]_vars => IInv'
  BY NextKeepsIInv
<1>2. IInv => TypeOK
  BY DEF IInv
<1> QED
  BY <1>1, <1>2, InitIInv, PTL DEF Spec

\* No notification, start, answer or request, however late, brings a terminated
\* reservation back.
THEOREM TerminatedAlwaysStays == Spec => TerminatedStays
<1>1. IInv /\ [Next]_vars => IInv'
  BY NextKeepsIInv
<1>2. ASSUME IInv, [Next]_vars
      PROVE  [\A r \in Rows : reservations[r].status \in Terminated
                => reservations'[r].status \in Terminated \cup {"none"}]_vars
  <2>1. CASE RowsMoveOn
    BY <1>2, <2>1, MovingOn DEF IInv
  <2>2. CASE \E m \in Managers : Reserved(m)
    <3>1. PICK m \in Managers : Reserved(m)
      BY <2>2
    <3>2. "none" \notin Terminated
      BY DEF Terminated
    <3> QED
      BY <1>2, <3>1, <3>2, ReservedRow
  <2>3. CASE \E m \in Managers, c \in Connectors, tag \in Tags : Reserve(m, c, tag)
    BY <2>3 DEF Reserve
  <2> QED
    BY <1>2, <2>1, <2>2, <2>3, NextSteps
<1> QED
  BY <1>1, <1>2, InitIInv, PTL DEF Spec, TerminatedStays

\* Without overlapping requests, the id of a request that waits is that of no
\* live row: none becomes live while it waits.
WaitingIsNew ==
  \A m \in Managers : posts[m].phase # "idle" => posts[m].id \notin TakenIds

LEMMA NextKeepsApart ==
  ASSUME \A m, n \in Managers : m = n,
         IInv, WaitingIsNew, LiveIdsDiffer, [Next]_vars
  PROVE  WaitingIsNew' /\ LiveIdsDiffer'
<1>1. CASE RowsMoveOn /\ Quiet
  <2>1. ASSUME NEW r \in Rows, IsLive(r)'
        PROVE  IsLive(r) /\ reservations'[r].id = reservations[r].id
    BY <1>1, <2>1, MovingOn DEF IsLive, IInv
  <2>2. TakenIds' \subseteq TakenIds
    BY <2>1 DEF TakenIds
  <2>3. WaitingIsNew'
    BY <1>1, <2>2 DEF WaitingIsNew, Quiet
  <2>4. LiveIdsDiffer'
    BY <2>1 DEF LiveIdsDiffer
  <2> QED
    BY <2>3, <2>4
<1>2. CASE \E m \in Managers : Reserved(m)
  <2>1. PICK m \in Managers : Reserved(m)
    BY <1>2
  <2> DEFINE new == lastRow + 1
  <2>2. /\ new \in Rows /\ reservations'[new].id = posts[m].id
        /\ \A r \in Rows \ {new} : reservations'[r] = reservations[r]
        /\ posts[m].phase = "granted"
        /\ \A n \in Managers : posts'[n] = IF n = m THEN NoPost ELSE posts[n]
    BY <2>1, ReservedRow
  <2> HIDE DEF new
  <2>3. WaitingIsNew'
    BY <2>2, NothingFits DEF WaitingIsNew
  <2>4. posts[m].id \notin TakenIds
    BY <2>2 DEF WaitingIsNew
  <2>5. ASSUME NEW r \in Rows \ {new}, IsLive(r)'
        PROVE  IsLive(r) /\ reservations'[r].id = reservations[r].id
               /\ reservations[r].id # posts[m].id
    BY <2>2, <2>4, <2>5 DEF IsLive, TakenIds
  <2>6. LiveIdsDiffer'
    <3> SUFFICES ASSUME NEW r \in Rows, NEW q \in Rows, IsLive(r)', IsLive(q)',
                        reservations'[r].id = reservations'[q].id
                 PROVE  r = q
      BY DEF LiveIdsDiffer
    <3>1. CASE r # new /\ q # new
      BY <2>5, <3>1 DEF LiveIdsDiffer
    <3>2. CASE r = new \/ q = new
      BY <2>2, <2>5, <3>2
    <3> QED
      BY <3>1, <3>2
  <2> QED
    BY <2>3, <2>6
<1>3. CASE \E m \in Managers, c \in Connectors, tag \in Tags : Reserve(m, c, tag)
  <2>1. PICK m \in Managers, c \in Connectors, tag \in Tags : Reserve(m, c, tag)
    BY <1>3
  <2>2. UNCHANGED reservations /\ posts'[m].id = NextReservationId(TakenIds)
    BY <2>1 DEF Reserve, IInv, TypeOK
  <2>3. TakenIds' = TakenIds /\ LiveIdsDiffer'
    BY <2>2 DEF TakenIds, IsLive, LiveIdsDiffer
  <2>4. posts'[m].id \notin TakenIds
    BY <2>2, NextIdIsNew DEF IInv
  <2> QED
    BY <2>3, <2>4 DEF WaitingIsNew
<1> QED
  BY <1>1, <1>2, <1>3, NextSteps

\* One manager whose requests do not overlap never gives two live reservations one
\* id, whatever calls are lost, late or repeated and whenever the server restarts.
THEOREM LiveIdsAlwaysDiffer ==
  ASSUME \A m, n \in Managers : m = n
  PROVE  Spec => []LiveIdsDiffer
<1>1. Init => IInv /\ WaitingIsNew /\ LiveIdsDiffer
  <2> SUFFICES ASSUME Init PROVE WaitingIsNew /\ LiveIdsDiffer
    BY InitIInv
  <2>1. "none" \notin Live
    BY DEF Live
  <2> QED
    BY <2>1, NoRowIsRow, NothingFits DEF Init, WaitingIsNew, LiveIdsDiffer, IsLive
<1>2. IInv /\ WaitingIsNew /\ LiveIdsDiffer /\ [Next]_vars
        => IInv' /\ WaitingIsNew' /\ LiveIdsDiffer'
  BY NextKeepsIInv, NextKeepsApart
<1> QED
  BY <1>1, <1>2, PTL DEF Spec

-----------------------------------------------------------------------------
(* What the charge point holds, when requests do not overlap.              *)

\* Requests that wait, and live rows, name an id and a tag.
NamesFit ==
  /\ \A m \in Managers : posts[m].phase # "idle" => posts[m].id # 0 /\ posts[m].tag \in Tags
  /\ \A r \in Rows : IsLive(r) => reservations[r].id # 0 /\ reservations[r].tag \in Tags

\* The charge point holds an id at one connector.
HeldFits ==
  \A c \in Connectors : held[c] # NotHeld =>
    held[c].id # 0 /\ \A d \in Connectors : held[c].id = held[d].id => c = d

\* It charges where it holds nothing, and the server knows of no other sessions.
ChargingFits ==
  \A c \in Connectors : /\ held[c] # NotHeld => session[c] = NoSession
                        /\ serving[c] # NoTag => session[c] # NoSession

\* It holds what it granted, and what is live, where it was asked to.
GrantIsAlone ==
  \A m \in Managers, d \in Connectors :
    posts[m].phase = "granted" /\ held[d].id = posts[m].id =>
      d = posts[m].connector /\ held[d].tag = posts[m].tag

HeldIsOfRow ==
  \A r \in Rows, d \in Connectors :
    IsLive(r) /\ held[d].id = reservations[r].id => d = reservations[r].connector

Kept == NamesFit /\ HeldFits /\ ChargingFits /\ GrantIsAlone /\ HeldIsOfRow

HeldShrinks == \A c \in Connectors : held'[c] = held[c] \/ held'[c] = NotHeld

PostsStay == \A m \in Managers : posts'[m].phase # "idle" => posts'[m] = posts[m]

\* A row ends once nobody holds its id, and one in use whose id nobody holds
\* ends by being fulfilled.
EndsWell ==
  \A r \in Rows :
    /\ IsLive(r) /\ ~IsLive(r)' => \A d \in Connectors : held'[d].id # reservations[r].id
    /\ reservations[r].status = "InUse" /\ (\A d \in Connectors : held[d].id # reservations[r].id)
         => reservations'[r].status \in {"InUse", "Fulfilled"}

\* A step that grants nothing and creates nothing.
KeptStep == HeldShrinks /\ PostsStay /\ ChargingFits' /\ EndsWell

LEMMA NothingHasNoId ==
  /\ NotHeld.id = 0 /\ ~NotHeld.confirmed
  /\ NoSession.phase = "idle" /\ NoSession.tag = NoTag /\ NoPost.phase = "idle"
BY DEF NotHeld, NoSession, NoPost

LEMMA KeptStepKeeps ==
  ASSUME IInv, Kept, RowsMoveOn, KeptStep
  PROVE  Kept'
<1>1. ASSUME NEW r \in Rows, IsLive(r)'
      PROVE  /\ IsLive(r)
             /\ reservations'[r].id = reservations[r].id /\ reservations[r].id # 0
             /\ reservations'[r].connector = reservations[r].connector
             /\ reservations'[r].tag = reservations[r].tag /\ reservations[r].tag \in Tags
  BY <1>1, MovingOn DEF IsLive, IInv, Kept, NamesFit
<1>2. ASSUME NEW d \in Connectors, held'[d].id # 0
      PROVE  held'[d] = held[d]
  BY <1>2, NothingHasNoId DEF KeptStep, HeldShrinks
<1>3. NamesFit'
  BY <1>1 DEF Kept, NamesFit, KeptStep, PostsStay
<1>4. HeldFits'
  BY <1>2 DEF Kept, HeldFits, KeptStep, HeldShrinks
<1>5. GrantIsAlone'
  <2>1. ASSUME NEW m \in Managers, NEW d \in Connectors, posts'[m].phase = "granted",
               held'[d].id = posts'[m].id
        PROVE  d = posts'[m].connector /\ held'[d].tag = posts'[m].tag
    <3>1. posts'[m] = posts[m] /\ posts[m].id # 0
      BY <2>1 DEF Kept, NamesFit, KeptStep, PostsStay
    <3> QED
      BY <1>2, <2>1, <3>1 DEF Kept, GrantIsAlone
  <2> QED
    BY <2>1 DEF GrantIsAlone
<1>6. HeldIsOfRow'
  <2>1. ASSUME NEW r \in Rows, NEW d \in Connectors, IsLive(r)',
               held'[d].id = reservations'[r].id
        PROVE  d = reservations'[r].connector
    BY <1>1, <1>2, <2>1 DEF Kept, HeldIsOfRow
  <2> QED
    BY <2>1 DEF HeldIsOfRow
<1> QED
  BY <1>3, <1>4, <1>5, <1>6 DEF Kept, KeptStep

LEMMA KeptStepKeepsLive ==
  ASSUME IInv, Kept, HeldIsLive, RowsMoveOn, KeptStep
  PROVE  HeldIsLive'
<1>1. SUFFICES ASSUME NEW c \in Connectors, held'[c].confirmed
               PROVE  \E r \in Rows : /\ IsLive(r)' /\ reservations'[r].connector = c
                                      /\ reservations'[r].tag = held'[c].tag
                                      /\ reservations'[r].id = held'[c].id
  BY DEF HeldIsLive, OfTag, Of
<1>2. held'[c] = held[c]
  BY <1>1, NothingHasNoId DEF KeptStep, HeldShrinks
<1>3. PICK r \in Rows : /\ IsLive(r) /\ reservations[r].connector = c
                        /\ reservations[r].tag = held[c].tag /\ reservations[r].id = held[c].id
  BY <1>1, <1>2 DEF HeldIsLive, OfTag, Of
<1>4. IsLive(r)'
  BY <1>2, <1>3 DEF KeptStep, EndsWell
<1>5. /\ reservations'[r].connector = reservations[r].connector
      /\ reservations'[r].tag = reservations[r].tag /\ reservations'[r].id = reservations[r].id
  BY <1>4, MovingOn DEF IsLive, IInv
<1> QED
  BY <1>2, <1>3, <1>4, <1>5

\* What is not marked as terminated ends nothing.
LEMMA SameEndsWell ==
  ASSUME UNCHANGED reservations
  PROVE  EndsWell
BY DEF EndsWell, IsLive

LEMMA MarkedEndsWell ==
  ASSUME TypeOK, NEW ids, NEW from, NEW to \in Live, "InUse" \notin from,
         reservations' = Marked(ids, from, to)
  PROVE  EndsWell
<1>1. ASSUME NEW r \in Rows
      PROVE  /\ IsLive(r) => IsLive(r)'
             /\ reservations[r].status = "InUse" => reservations'[r] = reservations[r]
  <2>1. reservations[r] \in Row
    BY DEF TypeOK
  <2>2. reservations'[r] = IF r \in ids /\ reservations[r].status \in from
                           THEN [reservations[r] EXCEPT !.status = to] ELSE reservations[r]
    BY DEF Marked
  <2> QED
    BY <2>1, <2>2, RowStaysRow DEF IsLive
<1> QED
  BY <1>1 DEF EndsWell

\* The rows of a connector where nothing is held.
LEMMA FreeEndsWell ==
  ASSUME TypeOK, Kept, HeldShrinks, NEW c \in Connectors, held'[c] = NotHeld,
         \A r \in Rows : \/ reservations'[r].status = reservations[r].status
                         \/ /\ reservations[r].connector = c
                            /\ reservations[r].status = "InUse" =>
                                 reservations'[r].status = "Fulfilled"
  PROVE  EndsWell
<1>1. ASSUME NEW r \in Rows, IsLive(r), ~IsLive(r)', NEW d \in Connectors,
             held'[d].id = reservations[r].id
      PROVE  FALSE
  <2>1. reservations[r].connector = c
    BY <1>1 DEF IsLive
  <2>2. reservations[r].id # 0
    BY <1>1 DEF Kept, NamesFit
  <2>3. held'[d] = held[d]
    BY <1>1, <2>2, NothingHasNoId DEF HeldShrinks
  <2>4. d = c
    BY <1>1, <2>1, <2>3 DEF Kept, HeldIsOfRow
  <2> QED
    BY <1>1, <2>2, <2>4, NothingHasNoId
<1>2. ASSUME NEW r \in Rows, reservations[r].status = "InUse"
      PROVE  reservations'[r].status \in {"InUse", "Fulfilled"}
  BY <1>2
<1> QED
  BY <1>1, <1>2 DEF EndsWell

\* Nobody's session changes.
LEMMA ChargingStays ==
  ASSUME Kept, HeldShrinks, UNCHANGED session,
         \A c \in Connectors : serving'[c] = serving[c] \/ serving'[c] = NoTag
  PROVE  ChargingFits'
BY DEF Kept, ChargingFits, HeldShrinks

LEMMA FailingIsKept ==
  ASSUME IInv, Kept, NEW m \in Managers, ReserveFails(m)
  PROVE  KeptStep
<1>1. /\ posts' = [posts EXCEPT ![m] = NoPost]
      /\ UNCHANGED <<reservations, serving, held, session>>
  BY DEF ReserveFails
<1>2. PostsStay
  BY <1>1, NothingHasNoId DEF PostsStay, IInv, TypeOK
<1>3. HeldShrinks
  BY <1>1 DEF HeldShrinks
<1> QED
  BY <1>1, <1>2, <1>3, ChargingStays, SameEndsWell DEF KeptStep

LEMMA CancellingIsKept ==
  ASSUME IInv, Kept, NEW r \in Rows, Cancel(r) \/ Cleanup(r) \/ Delete(r)
  PROVE  KeptStep
<1>1. UNCHANGED <<posts, serving, held, session>>
  BY DEF Cancel, Cleanup, Delete
<1>2. HeldShrinks /\ PostsStay
  BY <1>1 DEF HeldShrinks, PostsStay
<1>3. EndsWell
  <2>1. CASE UNCHANGED reservations
    BY <2>1, SameEndsWell
  <2>2. CASE Delete(r)
    <3>1. /\ reservations[r].status \in Terminated
          /\ reservations' = [reservations EXCEPT ![r] = NoRow]
      BY <2>2 DEF Delete
    <3>2. \A q \in Rows : q # r => reservations'[q] = reservations[q]
      BY <3>1 DEF IInv, TypeOK
    <3>3. reservations[r].status \notin Live /\ reservations[r].status # "InUse"
      BY <3>1, StatusSets
    <3> QED
      BY <3>2, <3>3 DEF EndsWell, IsLive
  <2> QED
    BY <2>1, <2>2 DEF Cancel, Cleanup
<1> QED
  BY <1>1, <1>2, <1>3, ChargingStays DEF KeptStep

\* A row is withdrawn when the charge point gives up what it holds of that id.
LEMMA WithdrawalIsKept ==
  ASSUME IInv, Kept, NEW w \in withdrawals, Withdrawn(w) \/ WithdrawalTimesOut(w)
  PROVE  KeptStep
<1>1. PICK at, r : r = w[1] /\ at = HoldersOf(reservations[r].id)
  OBVIOUS
<1>2. UNCHANGED <<posts, serving, session>> /\ r \in Rows /\ w[2] \in {"Cancelled", "Expired"}
  BY <1>1 DEF Withdrawn, WithdrawalTimesOut, IInv, TypeOK
<1>3. \/ UNCHANGED <<held, reservations>>
      \/ /\ at # {} \/ UNCHANGED reservations
         /\ held' = [c \in Connectors |-> IF c \in at THEN NotHeld ELSE held[c]]
         /\ reservations' \in {reservations, Overwritten(r, w[2])}
  BY <1>1 DEF Withdrawn, WithdrawalTimesOut, Accepted
<1>4. HeldShrinks /\ PostsStay
  BY <1>2, <1>3 DEF HeldShrinks, PostsStay
<1>5. CASE UNCHANGED reservations
  BY <1>2, <1>4, <1>5, ChargingStays, SameEndsWell DEF KeptStep
<1>6. CASE ~UNCHANGED reservations
  <2>1. /\ at # {} /\ reservations' = Overwritten(r, w[2])
        /\ held' = [c \in Connectors |-> IF c \in at THEN NotHeld ELSE held[c]]
    BY <1>3, <1>6
  <2>2. \A q \in Rows : q # r => reservations'[q] = reservations[q]
    BY <2>1 DEF Overwritten, Marked
  <2>3. PICK d \in Connectors : held[d].id = reservations[r].id /\ reservations[r].id # 0
    BY <1>1, <2>1 DEF HoldersOf
  <2>4. \A c \in Connectors : held'[c].id # reservations[r].id
    BY <1>1, <2>1, <2>3, NothingHasNoId DEF HoldersOf
  <2>5. EndsWell
    BY <2>2, <2>3, <2>4 DEF EndsWell, IsLive
  <2> QED
    BY <1>2, <1>4, <2>5, ChargingStays DEF KeptStep
<1> QED
  BY <1>5, <1>6

LEMMA SessionIsKept ==
  ASSUME IInv, Kept, NEW c \in Connectors,
         (\E tag \in Tags : Begin(c, tag)) \/ GiveUp(c) \/ Unplug(c)
  PROVE  KeptStep
<1>1. /\ UNCHANGED <<reservations, posts, serving>>
      /\ held \in [Connectors -> Held] /\ session \in [Connectors -> Session]
  BY DEF Begin, GiveUp, Unplug, server, IInv, TypeOK
<1>2. PostsStay /\ EndsWell
  BY <1>1, SameEndsWell DEF PostsStay
<1>3. CASE \E tag \in Tags : Begin(c, tag)
  <2>1. PICK tag \in Tags : Begin(c, tag)
    BY <1>3
  <2>2. PICK s : s = [phase |-> "starting", tag |-> tag, id |-> held[c].id]
    OBVIOUS
  <2>3. session' = [session EXCEPT ![c] = s] /\ held' = [held EXCEPT ![c] = NotHeld]
    BY <2>1, <2>2 DEF Begin
  <2>4. s # NoSession
    BY <2>2, NothingHasNoId
  <2>5. HeldShrinks
    BY <1>1, <2>3 DEF HeldShrinks
  <2>6. ChargingFits'
    BY <1>1, <2>3, <2>4 DEF Kept, ChargingFits
  <2> QED
    BY <1>2, <2>5, <2>6 DEF KeptStep
<1>4. CASE GiveUp(c) \/ Unplug(c)
  <2>1. PICK s : /\ session[c] # NoSession /\ session' = [session EXCEPT ![c] = s] /\ UNCHANGED held
                 /\ s.phase \in {"running", "ending"}
    <3>1. session[c].phase \in {"starting", "running"} /\ session[c] \in Session
      BY <1>1, <1>4 DEF GiveUp, Unplug
    <3>2. PICK phase \in {"running", "ending"} : session' = [session EXCEPT ![c].phase = phase]
      BY <1>4 DEF GiveUp, Unplug
    <3>3. PICK s : s = [session[c] EXCEPT !.phase = phase]
      OBVIOUS
    <3>4. s.phase = phase
      BY <3>1, <3>3 DEF Session
    <3>5. session' = [session EXCEPT ![c] = s]
      BY <3>2, <3>3
    <3> QED
      BY <1>4, <3>1, <3>2, <3>4, <3>5, NothingHasNoId DEF GiveUp, Unplug
  <2>2. HeldShrinks
    BY <2>1 DEF HeldShrinks
  <2>3. ChargingFits'
    BY <1>1, <2>1, NothingHasNoId DEF Kept, ChargingFits
  <2> QED
    BY <1>2, <2>2, <2>3 DEF KeptStep
<1> QED
  BY <1>3, <1>4

\* StartTransaction uses rows, and ends none.
LEMMA StartIsKept ==
  ASSUME IInv, Kept, NEW c \in Connectors, StartTransaction(c)
  PROVE  KeptStep
<1>1. /\ UNCHANGED <<posts, held>> /\ TypeOK
      /\ session[c].phase = "starting" /\ session[c] \in Session /\ session \in [Connectors -> Session]
      /\ serving' = [serving EXCEPT ![c] = session[c].tag]
  BY DEF StartTransaction, IInv, TypeOK
<1>2. session[c] # NoSession /\ held[c] = NotHeld
  BY <1>1, NothingHasNoId DEF Kept, ChargingFits
<1>3. EndsWell
  <2>1. \/ UNCHANGED reservations
        \/ \E ids : reservations' = Marked(ids, {"Active"}, "InUse")
    BY DEF StartTransaction, Started, Using
  <2>2. "InUse" \notin {"Active"} /\ "InUse" \in Live
    BY StatusSets
  <2> QED
    BY <1>1, <2>1, <2>2, SameEndsWell, MarkedEndsWell
<1>4. PICK s : session' = [session EXCEPT ![c] = s] /\ s # NoSession
  <2>1. session' = session \/ session' = [session EXCEPT ![c].phase = "running"]
    BY DEF StartTransaction
  <2>2. CASE session' = session
    <3>1. session' = [session EXCEPT ![c] = session[c]]
      BY <1>1, <2>2
    <3> QED
      BY <1>2, <3>1
  <2>3. CASE session' = [session EXCEPT ![c].phase = "running"]
    <3>1. PICK s : s = [session[c] EXCEPT !.phase = "running"]
      OBVIOUS
    <3>2. s.phase = "running"
      BY <1>1, <3>1 DEF Session
    <3> QED
      BY <2>3, <3>1, <3>2, NothingHasNoId
  <2> QED
    BY <2>1, <2>2, <2>3
<1>5. HeldShrinks /\ PostsStay
  BY <1>1 DEF HeldShrinks, PostsStay
<1>6. ChargingFits'
  BY <1>1, <1>2, <1>4 DEF Kept, ChargingFits, TypeOK
<1> QED
  BY <1>3, <1>5, <1>6 DEF KeptStep

\* StopTransaction ends rows of a connector where somebody charges.
LEMMA StopIsKept ==
  ASSUME IInv, Kept, NEW c \in Connectors, StopTransaction(c)
  PROVE  KeptStep
<1>1. /\ UNCHANGED <<posts, held>> /\ TypeOK
      /\ session[c].phase = "ending" /\ session \in [Connectors -> Session]
      /\ session' \in {session, [session EXCEPT ![c] = NoSession]}
  BY DEF StopTransaction, IInv, TypeOK
<1>2. PICK d, tag :
        /\ d \in {c} \cup {k \in Connectors : serving[c] = NoTag /\ serving[k] # NoTag}
        /\ reservations' = Marked(OfTag(d, tag), {"InUse"}, "Fulfilled")
        /\ serving' = [serving EXCEPT ![d] = NoTag]
  BY DEF StopTransaction
<1>3. HeldShrinks /\ PostsStay
  BY <1>1 DEF HeldShrinks, PostsStay
<1>4. d \in Connectors /\ held[d] = NotHeld
  BY <1>1, <1>2, NothingHasNoId DEF Kept, ChargingFits
<1>5. ASSUME NEW r \in Rows
      PROVE  \/ reservations'[r].status = reservations[r].status
             \/ /\ reservations[r].connector = d
                /\ reservations[r].status = "InUse" => reservations'[r].status = "Fulfilled"
  <2>1. reservations[r] \in Row
    BY <1>1 DEF TypeOK
  <2>2. reservations'[r] = IF r \in OfTag(d, tag) /\ reservations[r].status \in {"InUse"}
                           THEN [reservations[r] EXCEPT !.status = "Fulfilled"]
                           ELSE reservations[r]
    BY <1>2 DEF Marked
  <2>3. r \in OfTag(d, tag) => reservations[r].connector = d
    BY DEF OfTag, Of
  <2> QED
    BY <2>1, <2>2, <2>3, RowStaysRow, StatusSets
<1>6. EndsWell
  BY <1>1, <1>3, <1>4, <1>5, FreeEndsWell
<1>7. serving'[c] = NoTag
  BY <1>1, <1>2 DEF TypeOK
<1>8. ChargingFits'
  BY <1>1, <1>2, <1>4, <1>7, NothingHasNoId DEF Kept, ChargingFits, TypeOK
<1> QED
  BY <1>3, <1>6, <1>8 DEF KeptStep

LEMMA StatusIsKept ==
  ASSUME IInv, Kept, NEW c \in Connectors,
         \/ StatusReserved(c) \/ StatusCharging(c) \/ StatusAvailable(c) \/ StatusFaulted(c)
         \/ ReservationEnds(c)
  PROVE  KeptStep
<1>1. /\ UNCHANGED <<posts, session>> /\ TypeOK
      /\ held' \in {held, [held EXCEPT ![c] = NotHeld]}
      /\ serving' \in {serving, [serving EXCEPT ![c] = NoTag]}
  BY DEF StatusReserved, StatusCharging, StatusAvailable, StatusFaulted, ReservationEnds, IInv
<1>2. HeldShrinks /\ PostsStay /\ ChargingFits'
  <2>1. HeldShrinks /\ PostsStay
    BY <1>1 DEF HeldShrinks, PostsStay, TypeOK
  <2>2. \A d \in Connectors : serving'[d] = serving[d] \/ serving'[d] = NoTag
    BY <1>1 DEF TypeOK
  <2> QED
    BY <1>1, <2>1, <2>2, ChargingStays
<1>3. CASE StatusReserved(c)
  <2>1. "InUse" \notin {"Pending"} /\ reservations' = Marked(Of(c), {"Pending"}, "Active")
    BY <1>3 DEF StatusReserved, Activated
  <2> QED
    BY <1>1, <1>2, <2>1, StatusSets, MarkedEndsWell DEF KeptStep
<1>4. CASE StatusCharging(c)
  <2>1. "InUse" \notin {"Active"}
        /\ reservations' = Marked(OfTag(c, serving[c]), {"Active"}, "InUse")
    BY <1>4 DEF StatusCharging, Using
  <2> QED
    BY <1>1, <1>2, <2>1, StatusSets, MarkedEndsWell DEF KeptStep
<1>5. CASE StatusAvailable(c) \/ StatusFaulted(c)
  <2>1. held'[c] = NotHeld /\ (UNCHANGED reservations \/ reservations' = Freed(c))
    BY <1>1, <1>5 DEF StatusAvailable, StatusFaulted, TypeOK
  <2>2. ASSUME NEW r \in Rows, reservations' = Freed(c)
        PROVE  \/ reservations'[r].status = reservations[r].status
               \/ /\ reservations[r].connector = c
                  /\ reservations[r].status = "InUse" => reservations'[r].status = "Fulfilled"
    <3>1. reservations[r] \in Row
      BY <1>1 DEF TypeOK
    <3>2. reservations'[r] =
            IF r \in Of(c) /\ reservations[r].status \in {"Pending", "Active"}
            THEN [reservations[r] EXCEPT !.status = "Expired"]
            ELSE IF r \in Of(c) /\ reservations[r].status = "InUse"
            THEN [reservations[r] EXCEPT !.status = "Fulfilled"]
            ELSE reservations[r]
      BY <2>2 DEF Freed, Expiring
    <3>3. r \in Of(c) => reservations[r].connector = c
      BY DEF Of
    <3> QED
      BY <3>1, <3>2, <3>3, RowStaysRow, StatusSets
  <2>3. EndsWell
    BY <1>1, <1>2, <2>1, <2>2, SameEndsWell, FreeEndsWell
  <2> QED
    BY <1>2, <2>3 DEF KeptStep
<1>6. CASE ReservationEnds(c)
  <2>1. /\ held[c] # NotHeld /\ held'[c] = NotHeld
        /\ \/ UNCHANGED reservations
           \/ reservations' = Marked(ByOcppId(held[c].id), Live \cup Terminated, "Expired")
    BY <1>1, <1>6 DEF ReservationEnds, NewStatus, TypeOK
  <2>2. ASSUME NEW r \in Rows, reservations[r].id # held[c].id,
               reservations' = Marked(ByOcppId(held[c].id), Live \cup Terminated, "Expired")
        PROVE  reservations'[r] = reservations[r]
    BY <2>2 DEF Marked, ByOcppId
  <2>3. ASSUME NEW r \in Rows, reservations[r].id = held[c].id, IsLive(r),
               NEW d \in Connectors, held'[d].id = reservations[r].id
        PROVE  FALSE
    <3>1. reservations[r].id # 0
      BY <2>3 DEF Kept, NamesFit
    <3>2. held'[d] = held[d]
      BY <1>2, <2>3, <3>1, NothingHasNoId DEF HeldShrinks
    <3>3. d = c
      BY <2>1, <2>3, <3>2 DEF Kept, HeldFits
    <3> QED
      BY <2>1, <2>3, <3>1, <3>3, NothingHasNoId
  <2>4. EndsWell
    BY <2>1, <2>2, <2>3, SameEndsWell DEF EndsWell, IsLive
  <2> QED
    BY <1>2, <2>4 DEF KeptStep
<1> QED
  BY <1>3, <1>4, <1>5, <1>6

LEMMA ServerIsKept ==
  ASSUME IInv, Kept, Restart \/ \E c \in Connectors : TransactionClosed(c)
  PROVE  KeptStep
<1>1. /\ UNCHANGED <<reservations, held, session>>
      /\ posts' \in {posts, [m \in Managers |-> NoPost]}
  BY DEF Restart, TransactionClosed
<1>2. \A c \in Connectors : serving'[c] = serving[c] \/ serving'[c] = NoTag
  BY DEF Restart, TransactionClosed, IInv, TypeOK
<1>3. HeldShrinks /\ PostsStay
  BY <1>1, NothingHasNoId DEF HeldShrinks, PostsStay
<1> QED
  BY <1>1, <1>2, <1>3, ChargingStays, SameEndsWell DEF KeptStep

\* POST reservations, up to its row.
LEMMA ReserveKeepsLive ==
  ASSUME IInv, Kept, NEW m \in Managers, NEW c \in Connectors, NEW tag \in Tags, Reserve(m, c, tag)
  PROVE  Kept' /\ (HeldIsLive => HeldIsLive')
<1>1. PICK id, p : /\ id = NextReservationId(TakenIds)
                   /\ p = [phase |-> "sent", id |-> id, connector |-> c, tag |-> tag]
                   /\ posts' = [posts EXCEPT ![m] = p]
                   /\ UNCHANGED <<reservations, serving, held, session>>
  BY DEF Reserve
<1>2. id # 0
  BY <1>1, NextIdIsNew DEF IInv
<1>3. p.phase = "sent" /\ p.id = id /\ p.tag = tag
  BY <1>1
<1>4. \A k \in Managers : posts'[k] = IF k = m THEN p ELSE posts[k]
  BY <1>1 DEF IInv, TypeOK
<1>5. NamesFit'
  BY <1>1, <1>2, <1>3, <1>4 DEF Kept, NamesFit, IsLive
<1>6. GrantIsAlone'
  BY <1>1, <1>3, <1>4 DEF Kept, GrantIsAlone
<1> QED
  BY <1>1, <1>5, <1>6 DEF Kept, HeldFits, ChargingFits, HeldIsOfRow, HeldIsLive, IsLive, OfTag, Of

LEMMA GrantKeepsLive ==
  ASSUME \A m, n \in Managers : m = n, IInv, Kept, WaitingIsNew, NEW m \in Managers, Granted(m)
  PROVE  Kept' /\ (HeldIsLive => HeldIsLive')
<1>1. PICK p, new, here :
        /\ p = posts[m] /\ new = [p EXCEPT !.phase = "granted"]
        /\ here = [id |-> p.id, tag |-> p.tag, confirmed |-> FALSE]
  OBVIOUS
<1>2. /\ p.phase = "sent" /\ session[p.connector] = NoSession
      /\ posts' = [posts EXCEPT ![m] = new]
      /\ held' = [c \in Connectors |-> IF c = p.connector THEN here
                                       ELSE IF held[c].id = p.id THEN NotHeld ELSE held[c]]
      /\ UNCHANGED <<reservations, serving, session>>
  BY <1>1 DEF Granted, IInv, TypeOK
<1>3. /\ p \in Post /\ new.phase = "granted" /\ new.id = p.id /\ new.tag = p.tag
      /\ new.connector = p.connector
      /\ here.id = p.id /\ here.tag = p.tag /\ ~here.confirmed
  BY <1>1 DEF IInv, TypeOK, Post
<1>4. \A k \in Managers : k = m /\ posts'[k] = new
  BY <1>2 DEF IInv, TypeOK
<1>5. p.id # 0 /\ p.tag \in Tags /\ p.id \notin TakenIds
  BY <1>1, <1>2 DEF Kept, NamesFit, WaitingIsNew
<1>6. ASSUME NEW c \in Connectors
      PROVE  \/ c = p.connector /\ held'[c] = here
             \/ c # p.connector /\ held[c].id # p.id /\ held'[c] = held[c]
             \/ c # p.connector /\ held'[c] = NotHeld
  BY <1>2
<1>7. \A r \in Rows : IsLive(r) => reservations[r].id # p.id
  BY <1>5 DEF TakenIds
<1>8. NamesFit'
  BY <1>2, <1>3, <1>4, <1>5 DEF Kept, NamesFit, IsLive
<1>9. HeldFits'
  BY <1>3, <1>5, <1>6, NothingHasNoId DEF Kept, HeldFits
<1>10. ChargingFits'
  BY <1>2, <1>6 DEF Kept, ChargingFits
<1>11. GrantIsAlone'
  BY <1>3, <1>4, <1>5, <1>6, NothingHasNoId DEF GrantIsAlone
<1>12. HeldIsOfRow'
  <2>1. ASSUME NEW r \in Rows, NEW d \in Connectors, IsLive(r), held'[d].id = reservations[r].id
        PROVE  d = reservations[r].connector
    <3>1. reservations[r].id # 0 /\ reservations[r].id # p.id
      BY <1>7, <2>1 DEF Kept, NamesFit
    <3>2. held'[d] = held[d]
      BY <1>3, <1>6, <2>1, <3>1, NothingHasNoId
    <3> QED
      BY <2>1, <3>2 DEF Kept, HeldIsOfRow
  <2> QED
    BY <1>2, <2>1 DEF HeldIsOfRow, IsLive
<1>13. HeldIsLive => HeldIsLive'
  <2>1. \A c \in Connectors : held'[c].confirmed => held'[c] = held[c]
    BY <1>3, <1>6, NothingHasNoId
  <2> QED
    BY <1>2, <2>1 DEF HeldIsLive, IsLive, OfTag, Of
<1> QED
  BY <1>8, <1>9, <1>10, <1>11, <1>12, <1>13 DEF Kept

\* The row of a request that was granted is what the charge point holds.
LEMMA CreationKeepsLive ==
  ASSUME IInv, Kept, NEW m \in Managers, Reserved(m)
  PROVE  Kept' /\ (HeldIsLive => HeldIsLive')
<1>1. PICK p, new : p = posts[m] /\ new = lastRow + 1
  OBVIOUS
<1>2. /\ new \in Rows /\ reservations[new].status = "none"
      /\ reservations'[new].id = p.id /\ reservations'[new].connector = p.connector
      /\ reservations'[new].tag = p.tag /\ reservations'[new].status = "Pending"
      /\ \A r \in Rows \ {new} : reservations'[r] = reservations[r]
      /\ p.phase = "granted"
      /\ \A n \in Managers : posts'[n] = IF n = m THEN NoPost ELSE posts[n]
  BY <1>1, ReservedRow
<1>3. /\ held' = [c \in Connectors |-> IF c = p.connector /\ held[c].id = p.id
                                       THEN [held[c] EXCEPT !.confirmed = TRUE] ELSE held[c]]
      /\ UNCHANGED <<serving, session>>
  BY <1>1 DEF Reserved
<1>4. ASSUME NEW c \in Connectors
      PROVE  /\ held'[c].id = held[c].id /\ held'[c].tag = held[c].tag
             /\ held'[c] = held[c] \/ (c = p.connector /\ held[c].id = p.id)
  BY <1>3 DEF IInv, TypeOK, Held
<1>5. p.id # 0 /\ p.tag \in Tags
  BY <1>1, <1>2 DEF Kept, NamesFit
<1>6. ASSUME NEW c \in Connectors, held'[c] # NotHeld
      PROVE  held[c] # NotHeld
  BY <1>4, <1>5, <1>6, NothingHasNoId
<1>7. "Pending" \in Live /\ "none" \notin Live
  BY DEF Live
<1>8. NamesFit'
  BY <1>2, <1>5, <1>7, NothingHasNoId DEF Kept, NamesFit, IsLive
<1>9. HeldFits'
  BY <1>4, <1>6 DEF Kept, HeldFits
<1>10. ChargingFits'
  BY <1>3, <1>6 DEF Kept, ChargingFits
<1>11. GrantIsAlone'
  BY <1>2, <1>4, NothingHasNoId DEF Kept, GrantIsAlone
<1>12. HeldIsOfRow'
  <2>1. ASSUME NEW r \in Rows, NEW d \in Connectors, IsLive(r)',
               held'[d].id = reservations'[r].id
        PROVE  d = reservations'[r].connector
    <3>1. CASE r = new
      BY <1>1, <1>2, <1>4, <2>1, <3>1 DEF Kept, GrantIsAlone
    <3>2. CASE r # new
      <4>1. reservations'[r] = reservations[r] /\ IsLive(r)
        BY <1>2, <2>1, <3>2 DEF IsLive
      <4> QED
        BY <1>4, <2>1, <4>1 DEF Kept, HeldIsOfRow
    <3> QED
      BY <3>1, <3>2
  <2> QED
    BY <2>1 DEF HeldIsOfRow
<1>13. ASSUME HeldIsLive
       PROVE  HeldIsLive'
  <2>1. SUFFICES ASSUME NEW c \in Connectors, held'[c].confirmed
                 PROVE  \E r \in Rows : /\ IsLive(r)' /\ reservations'[r].connector = c
                                        /\ reservations'[r].tag = held'[c].tag
                                        /\ reservations'[r].id = held'[c].id
    BY DEF HeldIsLive, OfTag, Of
  <2>2. CASE c = p.connector /\ held[c].id = p.id
    <3>1. held[c].tag = p.tag
      BY <1>1, <1>2, <2>2 DEF Kept, GrantIsAlone
    <3>2. IsLive(new)'
      BY <1>2, <1>7 DEF IsLive
    <3> QED
      BY <1>2, <1>4, <2>2, <3>1, <3>2
  <2>3. CASE held'[c] = held[c]
    <3>1. PICK r \in Rows : /\ IsLive(r) /\ reservations[r].connector = c
                            /\ reservations[r].tag = held[c].tag /\ reservations[r].id = held[c].id
      BY <1>13, <2>1, <2>3 DEF HeldIsLive, OfTag, Of
    <3>2. r # new
      BY <1>2, <1>7, <3>1 DEF IsLive
    <3>3. reservations'[r] = reservations[r] /\ IsLive(r)'
      BY <1>2, <3>1, <3>2 DEF IsLive
    <3> QED
      BY <2>3, <3>1, <3>3
  <2> QED
    BY <1>4, <2>2, <2>3
<1> QED
  BY <1>8, <1>9, <1>10, <1>11, <1>12, <1>13 DEF Kept

LEMMA InitLive == Init => IInv /\ WaitingIsNew /\ LiveIdsDiffer /\ Kept /\ HeldIsLive
<1> SUFFICES ASSUME Init PROVE WaitingIsNew /\ LiveIdsDiffer /\ Kept /\ HeldIsLive
  BY InitIInv
<1>1. "none" \notin Live
  BY DEF Live
<1>2. WaitingIsNew /\ LiveIdsDiffer
  BY <1>1, NoRowIsRow, NothingFits DEF Init, WaitingIsNew, LiveIdsDiffer, IsLive
<1>3. Kept /\ HeldIsLive
  BY <1>1, NoRowIsRow, NothingHasNoId
     DEF Init, Kept, NamesFit, HeldFits, ChargingFits, GrantIsAlone, HeldIsOfRow, HeldIsLive, IsLive
<1> QED
  BY <1>2, <1>3

\* A step asks for a reservation, grants it, creates its row, or does none of it.
LEMMA NextIsKept ==
  ASSUME IInv, Kept, [Next]_vars
  PROVE  \/ RowsMoveOn /\ KeptStep
         \/ \E m \in Managers : Granted(m)
         \/ \E m \in Managers : Reserved(m)
         \/ \E m \in Managers, c \in Connectors, tag \in Tags : Reserve(m, c, tag)
<1>1. ASSUME NEW m \in Managers, ReserveFails(m)
      PROVE  RowsMoveOn /\ KeptStep
  BY <1>1, RequestIsQuiet, FailingIsKept
<1>2. ASSUME NEW r \in Rows, Cancel(r) \/ Cleanup(r) \/ Delete(r)
      PROVE  RowsMoveOn /\ KeptStep
  BY <1>2, CancellingIsQuiet, CancellingIsKept
<1>3. ASSUME NEW w \in withdrawals, Withdrawn(w) \/ WithdrawalTimesOut(w)
      PROVE  RowsMoveOn /\ KeptStep
  BY <1>3, WithdrawalIsQuiet, WithdrawalIsKept
<1>4. ASSUME NEW c \in Connectors,
             (\E tag \in Tags : Begin(c, tag)) \/ GiveUp(c) \/ Unplug(c)
      PROVE  RowsMoveOn /\ KeptStep
  BY <1>4, SessionIsQuiet, SessionIsKept
<1>5. ASSUME NEW c \in Connectors, StartTransaction(c) \/ StopTransaction(c)
      PROVE  RowsMoveOn /\ KeptStep
  BY <1>5, TransactionIsQuiet, StartIsKept, StopIsKept
<1>6. ASSUME NEW c \in Connectors,
             \/ StatusReserved(c) \/ StatusCharging(c) \/ StatusAvailable(c) \/ StatusFaulted(c)
             \/ ReservationEnds(c)
      PROVE  RowsMoveOn /\ KeptStep
  BY <1>6, StatusIsQuiet, StatusIsKept
<1>7. ASSUME Restart \/ \E c \in Connectors : TransactionClosed(c)
      PROVE  RowsMoveOn /\ KeptStep
  BY <1>7, ServerIsQuiet, ServerIsKept
<1>8. ASSUME UNCHANGED vars
      PROVE  RowsMoveOn /\ KeptStep
  <2>1. UNCHANGED <<reservations, posts, serving, held, session>>
    BY <1>8 DEF vars
  <2>2. HeldShrinks /\ PostsStay
    BY <2>1 DEF HeldShrinks, PostsStay
  <2> QED
    BY <2>1, <2>2, ChargingStays, SameEndsWell, SameRowsMoveOn DEF KeptStep, IInv
<1>9. CASE ManagerStep
  BY <1>1, <1>2, <1>3, <1>9 DEF ManagerStep
<1>10. ASSUME NEW c \in Connectors, ConnectorStep(c)
       PROVE  RowsMoveOn /\ KeptStep
  BY <1>4, <1>5, <1>6, <1>7, <1>10 DEF ConnectorStep
<1> QED
  BY <1>7, <1>8, <1>9, <1>10 DEF Next

LEMMA NextKeepsLive ==
  ASSUME \A m, n \in Managers : m = n,
         IInv, WaitingIsNew, Kept, HeldIsLive, [Next]_vars
  PROVE  Kept' /\ HeldIsLive'
<1>1. CASE RowsMoveOn /\ KeptStep
  BY <1>1, KeptStepKeeps, KeptStepKeepsLive
<1>2. CASE \E m \in Managers : Granted(m)
  BY <1>2, GrantKeepsLive
<1>3. CASE \E m \in Managers : Reserved(m)
  BY <1>3, CreationKeepsLive
<1>4. CASE \E m \in Managers, c \in Connectors, tag \in Tags : Reserve(m, c, tag)
  BY <1>4, ReserveKeepsLive
<1> QED
  BY <1>1, <1>2, <1>3, <1>4, NextIsKept

\* A reservation in use whose tag charges on its connector is held by nobody any
\* more, so that neither a cancel nor a cleanup of it is accepted.
LEMMA UsedIsNotHeld ==
  ASSUME TypeOK, Kept, NEW r \in Rows, NEW c \in Connectors,
         reservations[r].status = "InUse", r \in OfTag(c, session[c].tag)
  PROVE  \A d \in Connectors : held[d].id # reservations[r].id
<1>1. IsLive(r) /\ reservations[r].connector = c /\ reservations[r].tag = session[c].tag
  BY DEF IsLive, Live, OfTag, Of
<1>2. reservations[r].id # 0 /\ session[c] # NoSession
  BY <1>1, NothingHasNoId, ReservationsAssumption DEF Kept, NamesFit
<1>3. held[c] = NotHeld
  BY <1>2 DEF Kept, ChargingFits
<1> QED
  BY <1>1, <1>2, <1>3, NothingHasNoId DEF Kept, HeldIsOfRow

LEMMA NextSparesUsed ==
  ASSUME IInv, Kept, [Next]_vars, NEW r \in Rows, NEW c \in Connectors,
         reservations[r].status = "InUse", r \in OfTag(c, session[c].tag)
  PROVE  reservations'[r].status \in {"InUse", "Fulfilled"}
<1>1. CASE RowsMoveOn /\ KeptStep
  BY <1>1, UsedIsNotHeld DEF KeptStep, EndsWell, IInv
<1>2. CASE \/ \E m \in Managers : Granted(m)
           \/ \E m \in Managers, d \in Connectors, tag \in Tags : Reserve(m, d, tag)
  BY <1>2 DEF Granted, Reserve
<1>3. CASE \E m \in Managers : Reserved(m)
  BY <1>3, ReservedRow
<1> QED
  BY <1>1, <1>2, <1>3, NextIsKept

\* What was answered to the manager and is still held by the charge point is live
\* in the table, for one manager whose requests do not overlap, any number of
\* connectors, tags and rows, and calls that fail, are late or lose their answers.
THEOREM HeldIsAlwaysLive ==
  ASSUME \A m, n \in Managers : m = n
  PROVE  Spec => []HeldIsLive
<1>1. IInv /\ WaitingIsNew /\ LiveIdsDiffer /\ Kept /\ HeldIsLive /\ [Next]_vars
        => IInv' /\ WaitingIsNew' /\ LiveIdsDiffer' /\ Kept' /\ HeldIsLive'
  BY NextKeepsIInv, NextKeepsApart, NextKeepsLive
<1> QED
  BY <1>1, InitLive, PTL DEF Spec

\* No cancel, cleanup or late answer withdraws a reservation while the session
\* it was made for charges, under the same assumption.
THEOREM UsedIsNeverWithdrawn ==
  ASSUME \A m, n \in Managers : m = n
  PROVE  Spec => UsedIsNotWithdrawn
<1>1. IInv /\ WaitingIsNew /\ LiveIdsDiffer /\ Kept /\ HeldIsLive /\ [Next]_vars
        => IInv' /\ WaitingIsNew' /\ LiveIdsDiffer' /\ Kept' /\ HeldIsLive'
  BY NextKeepsIInv, NextKeepsApart, NextKeepsLive
<1>2. ASSUME IInv, Kept, [Next]_vars
      PROVE  [\A r \in Rows, c \in Connectors :
                /\ reservations[r].status = "InUse" /\ r \in OfTag(c, session[c].tag)
                => reservations'[r].status \in {"InUse", "Fulfilled"}]_vars
  BY <1>2, NextSparesUsed
<1> QED
  BY <1>1, <1>2, InitLive, PTL DEF Spec, UsedIsNotWithdrawn
=============================================================================

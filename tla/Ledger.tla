-------------------------------- MODULE Ledger --------------------------------
(***************************************************************************)
(* What the table of transactions promises to those who bill from it, for  *)
(* either protocol and with no session, call or meter: a row is opened     *)
(* once, at a place where it leaves no other row open; it is closed once,  *)
(* with a record that nothing changes afterwards; and rows are deleted     *)
(* only together with all others of their places.                          *)
(***************************************************************************)
CONSTANTS Id,
          Place, NoPlace,  \* where a transaction takes place, as the table identifies it
          NoRecord         \* the record of a row that is not closed

VARIABLE rows

NoRow == [status |-> "none", place |-> NoPlace, record |-> NoRecord]
OpenedAt(p) == [status |-> "Active", place |-> p, record |-> NoRecord]

Init == rows = [id \in Id |-> NoRow]

\* A row that was open is closed where it was, with any record.
Closes(id) ==
  /\ rows[id].status = "Active"
  /\ rows'[id].status = "Completed"
  /\ rows'[id].place = rows[id].place

\* What else is open at the place is closed in the same step.
Open(id, p) ==
  /\ rows[id] = NoRow
  /\ rows'[id] = OpenedAt(p)
  /\ \A other \in Id \ {id} :
       IF rows[other] = OpenedAt(p) THEN Closes(other) ELSE rows'[other] = rows[other]

Close == \A id \in Id : rows'[id] = rows[id] \/ Closes(id)

Delete(ids) ==
  /\ \A a \in ids, b \in Id : rows[b] # NoRow /\ rows[b].place = rows[a].place => b \in ids
  /\ rows' = [id \in Id |-> IF id \in ids THEN NoRow ELSE rows[id]]

\* Most calls leave the ledger alone: they are found to be steps of it at once.
Next ==
  \/ UNCHANGED rows
  \/ Close
  \/ \E id \in Id, p \in Place : Open(id, p)
  \/ \E ids \in SUBSET Id : Delete(ids)

Spec == Init /\ [][Next]_rows
=============================================================================

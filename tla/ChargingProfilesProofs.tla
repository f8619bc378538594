------------------------ MODULE ChargingProfilesProofs ------------------------
(***************************************************************************)
(* For any number of managers, requests, profiles and slots: no two        *)
(* managed profiles have the same profile_id, the clearing of the boot     *)
(* spares them, what is Pending waits for a call of the queue, and, when   *)
(* no two push-alls overlap, the table is what the charge point holds.     *)
(* The argument follows the order of the queue: what a call was decided    *)
(* on, when it was asked, still holds when its turn comes, because         *)
(* whatever could change it stands behind it.                              *)
(***************************************************************************)
EXTENDS ChargingProfiles, SequenceTheorems, WellFoundedInduction, TLAPS

Created(r) == profiles[r].status # "none"

\* Rows are created in order, each with an id.
RowsFit ==
  /\ \A r \in Rows : Created(r) => profiles[r].id \in Ids
  /\ \A r \in Rows : r > lastRow => ~Created(r)

\* The charge point holds profiles under their own ids.
HeldFits == \A n \in Ids : held[n] # 0 => Created(held[n]) /\ profiles[held[n]].id = n

RequestFits(q) ==
  /\ q.kind = "idle" => q = Idle
  /\ q.kind \in {"post", "delete"} => q.row \in Rows /\ Created(q.row)
  /\ \A r \in q.rows : Created(r)
  /\ q.kind # "push" => ~q.sending /\ q.rows = {}

\* The call that a request awaits.
RequestCall(call, q) ==
  /\ q.kind # "idle"
  /\ call.method = "Set" <=> q.kind = "post" \/ q.sending
  /\ q.kind = "post" => call.row = q.row
  /\ q.sending => q.rows # {} /\ call.row = NextRow(q.rows)
  /\ q.kind = "delete" => call.filter = [id |-> profiles[q.row].id, slot |-> AnySlot]
  /\ q.kind = "push" /\ ~q.sending => call.filter = Everything

CallFits(call) ==
  /\ call.by = Boot => call.method = "Clear"
  /\ call.by \in Managers => RequestCall(call, requests[call.by])
  /\ call.method = "Set" =>
       call.row \in Rows /\ Created(call.row) /\ call.filter.id = profiles[call.row].id

CalledOnce == \A i, j \in 1 .. Len(calls) : i < j => calls[i].by # calls[j].by

QueueFits ==
  /\ \A i \in 1 .. Len(calls) : CallFits(calls[i])
  /\ CalledOnce
  /\ \A m \in Managers : requests[m] # Idle => \E i \in 1 .. Len(calls) : calls[i].by = m
  /\ online \/ calls = <<>>

IInv ==
  /\ TypeOK
  /\ RowsFit
  /\ HeldFits
  /\ \A m \in Managers : RequestFits(requests[m])
  /\ QueueFits

\* The requests that send a profile to the charge point, now or later,
Settles(by, q) ==
  /\ by \in Managers
  /\ \/ requests[by].kind = "post" /\ requests[by].row = q
     \/ q \in requests[by].rows

\* and those whose call assumes that it is not there yet.
Assumes(request, q) ==
  \/ request.kind = "post" /\ request.row = q
  \/ request.kind = "push" /\ ~request.sending /\ q \notin request.rows
  \/ request.kind = "delete" /\ request.row # q /\ profiles[request.row].id = profiles[q].id

Precedes(by, q) == by = Boot \/ (by \in Managers /\ Assumes(requests[by], q))

\* They are right: it is sent behind them.
Order ==
  \A i \in 1 .. Len(calls), q \in Table :
    Precedes(calls[i].by, q) =>
      /\ profiles[q].status = "Pending"
      /\ \A n \in Ids : held[n] # q
      /\ \A j \in 1 .. Len(calls) : Settles(calls[j].by, q) => i <= j

\* What push-all has cleared is not there until push-all sends it.
OwedIsFree ==
  \A r \in Owed \cap Table :
    /\ \A n \in Ids : held[n] # r
    /\ \A m \in Managers : requests[m].kind = "post" => requests[m].row # r

-----------------------------------------------------------------------------
(* Rows.                                                                   *)

LEMMA Least ==
  ASSUME NEW S \in SUBSET Nat, S # {}
  PROVE  \E m \in S : \A n \in S : m <= n
<1>1. PICK m \in S : \A n \in S : <<n, m>> \notin OpToRel(<, Nat)
  BY WFMin, NatLessThanWellFounded, Zenon
<1>2. \A n \in S : ~(n < m)
  BY <1>1 DEF OpToRel
<1> QED
  BY <1>2

LEMMA NextRowIsOne ==
  ASSUME NEW rows \in SUBSET Rows, rows # {}
  PROVE  NextRow(rows) \in rows
<1>1. rows \in SUBSET Nat
  BY ChargingProfilesAssumption DEF Rows
<1>2. \E r \in rows : \A q \in rows : r <= q
  BY <1>1, Least
<1> QED
  BY <1>2 DEF NextRow

\* No row that was created is forgotten.
RowsGrow ==
  \A r \in Rows : Created(r) => Created(r)' /\ profiles'[r].id = profiles[r].id

\* Rows keep their ids, and none comes back.
RowsKeep ==
  /\ profiles' \in [Rows -> Row]
  /\ \A r \in Rows : /\ profiles'[r].id = profiles[r].id
                     /\ profiles'[r].slot = profiles[r].slot
                     /\ Created(r)' <=> Created(r)
                     /\ Exists(r)' => Exists(r)

LEMMA StatusFacts ==
  /\ "gone" \notin Status /\ "none" \notin Status
  /\ "Pending" \in Status /\ "Accepted" \in Status /\ Refusals \subseteq Status
  /\ "Accepted" \notin Refusals /\ "Pending" \notin Refusals /\ "Unknown" \notin Refusals
BY DEF Status, Refusals

\* A row with another status is a row with the same id.
LEMMA RowStaysRow ==
  ASSUME NEW row \in Row, NEW status \in Status \cup {"gone"}
  PROVE  LET new == [row EXCEPT !.status = status] IN
         /\ new \in Row /\ new.id = row.id /\ new.slot = row.slot /\ new.status = status
BY DEF Row

LEMMA WithoutKeeps ==
  ASSUME profiles \in [Rows -> Row], NEW rows \in SUBSET Table, profiles' = Without(rows)
  PROVE  /\ RowsKeep
         /\ \A r \in Rows : profiles'[r].status = IF r \in rows THEN "gone" ELSE profiles[r].status
<1>1. \A r \in Rows : profiles'[r] = IF r \in rows THEN [profiles[r] EXCEPT !.status = "gone"]
                                     ELSE profiles[r]
  BY DEF Without
<1>2. ASSUME NEW r \in Rows
      PROVE  /\ profiles'[r] \in Row
             /\ profiles'[r].id = profiles[r].id /\ profiles'[r].slot = profiles[r].slot
             /\ profiles'[r].status = IF r \in rows THEN "gone" ELSE profiles[r].status
  <2> DEFINE new == [profiles[r] EXCEPT !.status = "gone"]
  <2>1. /\ new \in Row /\ new.id = profiles[r].id /\ new.slot = profiles[r].slot
        /\ new.status = "gone"
    BY RowStaysRow
  <2>2. profiles'[r] = IF r \in rows THEN new ELSE profiles[r]
    BY <1>1
  <2> HIDE DEF new
  <2> QED
    BY <2>1, <2>2
<1>3. profiles' \in [Rows -> Row]
  BY <1>2 DEF Without
<1>4. \A r \in rows : Exists(r)
  BY DEF Table
<1> QED
  BY <1>2, <1>3, <1>4, StatusFacts DEF RowsKeep, Created, Exists

LEMMA WithStatusKeeps ==
  ASSUME profiles \in [Rows -> Row], NEW r \in Rows, NEW status \in Status,
         profiles' = WithStatus(r, status)
  PROVE  /\ RowsKeep
         /\ \A q \in Rows : profiles'[q].status = IF q = r /\ Exists(q) THEN status
                                                  ELSE profiles[q].status
<1>1. CASE ~Exists(r)
  BY <1>1 DEF WithStatus, RowsKeep, Created, Exists
<1>2. CASE Exists(r)
  <2> DEFINE new == [profiles[r] EXCEPT !.status = status]
  <2>1. /\ new \in Row /\ new.id = profiles[r].id /\ new.slot = profiles[r].slot
        /\ new.status = status
    BY RowStaysRow
  <2>2. profiles' = [profiles EXCEPT ![r] = new]
    BY <1>2 DEF WithStatus
  <2> HIDE DEF new
  <2>3. profiles' \in [Rows -> Row] /\ \A q \in Rows : profiles'[q] = IF q = r THEN new ELSE profiles[q]
    BY <2>1, <2>2
  <2> QED
    BY <1>2, <2>1, <2>3, StatusFacts DEF RowsKeep, Created, Exists
<1> QED
  BY <1>1, <1>2

LEMMA SameRowsKeep ==
  ASSUME profiles \in [Rows -> Row], UNCHANGED profiles
  PROVE  RowsKeep
BY DEF RowsKeep, Created, Exists

\* Rows of the table, after a step that adds none.
LEMMA TableShrinks ==
  ASSUME RowsKeep
  PROVE  /\ Table' \subseteq Table /\ RowsGrow
         /\ \A r \in Rows : Exists(r)' <=> profiles'[r].status \in Status
BY DEF RowsKeep, RowsGrow, Table, Exists

LEMMA RowsFitNext ==
  ASSUME RowsKeep, RowsFit, UNCHANGED lastRow
  PROVE  RowsFit'
BY DEF RowsKeep, RowsFit, Rows, Ids, Created

-----------------------------------------------------------------------------
(* Calls and requests.                                                     *)

LEMMA IdleIsRequest == Idle \in Request /\ Idle.kind = "idle" /\ ~Idle.sending /\ Idle.rows = {}
BY DEF Idle, Request

\* What the invariant says of the first call.
LEMMA HeadFits ==
  ASSUME IInv, calls # <<>>
  PROVE  /\ Len(calls) \in Nat \ {0} /\ 1 \in 1 .. Len(calls)
         /\ Head(calls) = calls[1] /\ Head(calls) \in Call /\ CallFits(Head(calls))
         /\ Head(calls).by \in Managers => /\ requests[Head(calls).by] \in Request
                                           /\ RequestFits(requests[Head(calls).by])
         /\ Head(calls).by \notin Managers => Head(calls).by = Boot
         /\ online
<1>1. Len(calls) \in Nat \ {0} /\ Head(calls) = calls[1] /\ Head(calls) \in Call
  BY HeadTailProperties, EmptySeq DEF IInv, TypeOK
<1> QED
  BY <1>1 DEF IInv, TypeOK, QueueFits, Call

LEMMA RequestStays ==
  ASSUME RowsGrow, NEW q \in Request, RequestFits(q)
  PROVE  RequestFits(q)'
BY DEF RequestFits, RowsGrow, Request

LEMMA CallStays ==
  ASSUME RowsGrow, NEW call \in Call, CallFits(call),
         call.by \in Managers => /\ requests'[call.by] = requests[call.by]
                                 /\ requests[call.by] \in Request /\ RequestFits(requests[call.by])
  PROVE  CallFits(call)'
<1>1. ASSUME call.by \in Managers
      PROVE  RequestCall(call, requests[call.by])'
  <2> DEFINE q == requests[call.by]
  <2>1. RequestCall(call, q) /\ RequestFits(q) /\ q' = q
    BY <1>1 DEF CallFits
  <2>2. q.kind = "delete" => profiles'[q.row].id = profiles[q.row].id
    BY <1>1 DEF RequestFits, RowsGrow
  <2> QED
    BY <1>1, <2>1, <2>2 DEF RequestCall
<1>2. call.method = "Set" => /\ call.row \in Rows /\ Created(call.row)'
                             /\ call.filter.id = profiles'[call.row].id
  BY DEF CallFits, RowsGrow
<1>3. call.by = Boot => call.method = "Clear"
  BY DEF CallFits
<1> QED
  BY <1>1, <1>2, <1>3 DEF CallFits

\* Where the profiles of the charge point may go.
HeldMoves ==
  /\ held' \in [Ids -> Rows \cup {0}]
  /\ \A n \in Ids : held'[n] # 0 =>
       held'[n] = held[n] \/ (Created(held'[n]) /\ profiles[held'[n]].id = n)

LEMMA HeldFitsNext ==
  ASSUME HeldFits, held \in [Ids -> Rows \cup {0}], RowsGrow, HeldMoves
  PROVE  HeldFits'
<1> SUFFICES ASSUME NEW n \in Ids, held'[n] # 0
             PROVE  Created(held[n])' /\ profiles'[held'[n]].id = n
  BY DEF HeldFits, Ids
<1>1. Created(held'[n]) /\ profiles[held'[n]].id = n /\ held'[n] \in Rows
  BY DEF HeldFits, HeldMoves
<1> QED
  BY <1>1 DEF RowsGrow

\* A call of m joins the queue.
LEMMA JoinFits ==
  ASSUME IInv, RowsGrow, profiles' \in [Rows -> Row], lastRow' \in 0 .. MaxRows, RowsFit',
         NEW call \in Call, calls' = Append(calls, call), CallFits(call)',
         \A i \in 1 .. Len(calls) : calls[i].by # call.by,
         \A m \in Managers : m # call.by => requests'[m] = requests[m],
         call.by \in Managers => requests'[call.by] \in Request /\ RequestFits(requests[call.by])',
         requests' \in [Managers -> Request],
         online, UNCHANGED <<online, held, doubt>>
  PROVE  /\ IInv'
         /\ Len(calls') = Len(calls) + 1 /\ Len(calls) \in Nat
         /\ \A i \in 1 .. Len(calls) : calls'[i] = calls[i] /\ calls[i] \in Call
         /\ calls'[Len(calls) + 1] = call
<1>1. /\ calls' \in Seq(Call)
      /\ Len(calls') = Len(calls) + 1 /\ Len(calls) \in Nat
      /\ \A i \in 1 .. Len(calls) : calls'[i] = calls[i] /\ calls[i] \in Call
      /\ calls'[Len(calls) + 1] = call
  BY AppendProperties, LenProperties, ElementOfSeq DEF IInv, TypeOK
<1>2. ASSUME NEW i \in 1 .. Len(calls')
      PROVE  \/ i \in 1 .. Len(calls) /\ calls'[i] = calls[i]
             \/ i = Len(calls) + 1 /\ calls'[i] = call
  BY <1>1
<1>3. TypeOK'
  BY <1>1 DEF IInv, TypeOK, Ids, Rows, Request, Call, Row, Filter
<1>4. HeldFits'
  BY HeldFitsNext DEF IInv, TypeOK, HeldFits, HeldMoves
<1>5. \A m \in Managers : RequestFits(requests[m])'
  <2> SUFFICES ASSUME NEW m \in Managers
               PROVE  RequestFits(requests[m])'
    OBVIOUS
  <2>1. requests[m] \in Request /\ RequestFits(requests[m])
    BY DEF IInv, TypeOK
  <2>2. CASE m = call.by
    BY <2>2
  <2>3. CASE m # call.by
    <3>1. requests'[m] = requests[m]
      BY <2>3
    <3> QED
      BY <2>1, <3>1, RequestStays
  <2> QED
    BY <2>2, <2>3
<1>6. \A i \in 1 .. Len(calls') : CallFits(calls[i])'
  <2> SUFFICES ASSUME NEW i \in 1 .. Len(calls')
               PROVE  CallFits(calls[i])'
    OBVIOUS
  <2>1. CASE i \in 1 .. Len(calls) /\ calls'[i] = calls[i]
    <3>1. CallFits(calls[i]) /\ calls[i].by # call.by /\ calls[i] \in Call
      BY <1>1, <2>1 DEF IInv, QueueFits
    <3>2. calls[i].by \in Managers =>
            /\ requests'[calls[i].by] = requests[calls[i].by]
            /\ requests[calls[i].by] \in Request /\ RequestFits(requests[calls[i].by])
      BY <3>1 DEF IInv, TypeOK
    <3> QED
      BY <2>1, <3>1, <3>2, CallStays
  <2>2. CASE calls'[i] = call
    BY <2>2
  <2> QED
    BY <1>2, <2>1, <2>2
<1>7. CalledOnce'
  <2> SUFFICES ASSUME NEW i \in 1 .. Len(calls'), NEW j \in 1 .. Len(calls'), i < j
               PROVE  calls'[i].by # calls'[j].by
    BY DEF CalledOnce
  <2>1. i \in 1 .. Len(calls)
    BY <1>1
  <2> QED
    BY <1>1, <1>2, <2>1 DEF IInv, QueueFits, CalledOnce
<1>8. ASSUME NEW m \in Managers, requests'[m] # Idle
      PROVE  \E i \in 1 .. Len(calls') : calls'[i].by = m
  <2>1. CASE m = call.by
    BY <1>1, <2>1
  <2>2. CASE m # call.by
    <3>1. PICK i \in 1 .. Len(calls) : calls[i].by = m
      BY <1>8, <2>2 DEF IInv, QueueFits
    <3> QED
      BY <1>1, <3>1
  <2> QED
    BY <2>1, <2>2
<1> QED
  BY <1>1, <1>3, <1>4, <1>5, <1>6, <1>7, <1>8 DEF IInv, QueueFits

\* A request whose call returned is over, or is a push-all with its next profile.
LEMMA ResumedRequest ==
  ASSUME NEW q \in Request, RequestFits(q), NEW ok \in BOOLEAN
  PROVE  LET next == Resumed(q, ok) IN
         /\ next \in Request
         /\ next # Idle =>
              /\ q.kind = "push" /\ next.kind = "push" /\ next.sending /\ next.rows # {}
              /\ next.row = q.row /\ next.rows \subseteq q.rows
              /\ q.sending => NextRow(q.rows) \notin next.rows /\ q.rows # {}
              /\ ~q.sending => ok /\ next.rows = q.rows
         /\ q.sending => q.rows \ {NextRow(q.rows)} \subseteq next.rows
         /\ q.kind = "push" /\ ~q.sending /\ ok => next.rows = q.rows
<1> DEFINE rest == IF q.sending THEN q.rows \ {NextRow(q.rows)} ELSE q.rows
           on == [q EXCEPT !.rows = rest, !.sending = TRUE]
<1>1. rest \subseteq q.rows /\ (~q.sending => rest = q.rows)
      /\ (q.sending => NextRow(q.rows) \notin rest /\ rest = q.rows \ {NextRow(q.rows)})
  OBVIOUS
<1>2. Resumed(q, ok) = IF q.kind = "push" /\ rest # {} /\ (q.sending \/ ok) THEN on ELSE Idle
  BY DEF Resumed
<1>3. q.sending => q.kind = "push"
  BY DEF RequestFits
<1> HIDE DEF rest
<1>4. on \in Request /\ on.kind = q.kind /\ on.sending /\ on.rows = rest /\ on.row = q.row
  BY <1>1 DEF Request
<1> HIDE DEF on
<1> QED
  BY <1>1, <1>2, <1>3, <1>4, IdleIsRequest

LEMMA SetCallIsCall ==
  ASSUME IInv, NEW m \in Managers, NEW r \in Rows, Created(r)
  PROVE  LET call == SetCall(m, r) IN
         /\ call \in Call /\ call.by = m /\ call.method = "Set" /\ call.row = r
         /\ call.filter.id = profiles[r].id
<1>1. profiles[r].id \in Ids
  BY DEF IInv, RowsFit
<1> QED
  BY <1>1 DEF SetCall, Call, Filter

\* The queue after the first call has returned.
LEMMA ReturnedQueue ==
  ASSUME IInv, calls # <<>>, NEW ok \in BOOLEAN, Returned(Head(calls), ok)
  PROVE  LET by == Head(calls).by
             next == requests'[by]
             call == SetCall(by, NextRow(next.rows)) IN
         /\ requests' \in [Managers -> Request] /\ calls' \in Seq(Call)
         /\ Len(calls) \in Nat \ {0} /\ Len(calls') \in Nat
         /\ \A m \in Managers : m # by => requests'[m] = requests[m]
         /\ by \in Managers => next = Resumed(requests[by], ok)
         /\ \A i \in 1 .. Len(calls') :
              \/ i + 1 \in 1 .. Len(calls) /\ calls'[i] = calls[i + 1]
              \/ /\ by \in Managers /\ next # Idle /\ calls'[i] = call
                 /\ i = Len(calls) /\ i = Len(calls')
         /\ \A i \in 1 .. Len(calls) : i # 1 => i - 1 \in 1 .. Len(calls') /\ calls'[i - 1] = calls[i]
         /\ by \in Managers /\ next # Idle => Len(calls') = Len(calls) /\ calls'[Len(calls)] = call
<1> DEFINE by == Head(calls).by
           next == requests'[by]
           call == SetCall(by, NextRow(next.rows))
           rest == Tail(calls)
<1>1. /\ rest \in Seq(Call) /\ Len(rest) = Len(calls) - 1 /\ Len(calls) \in Nat \ {0}
      /\ \A i \in 1 .. Len(rest) : rest[i] = calls[i + 1]
  BY HeadTailProperties, EmptySeq DEF IInv, TypeOK
<1>2. CASE by \notin Managers
  <2>1. by = Boot /\ UNCHANGED requests /\ calls' = rest
    BY <1>2, HeadFits DEF Returned
  <2> HIDE DEF by, rest
  <2>2. requests' \in [Managers -> Request]
    BY <2>1 DEF IInv, TypeOK
  <2> QED
    BY <1>1, <1>2, <2>1, <2>2 DEF by
<1>3. CASE by \in Managers
  <2>1. requests[by] \in Request /\ RequestFits(requests[by]) /\ by # Boot
    BY <1>3, HeadFits, ChargingProfilesAssumption
  <2>2. /\ requests' = [requests EXCEPT ![by] = Resumed(requests[by], ok)]
        /\ calls' = rest \o Following(by, Resumed(requests[by], ok))
    BY <2>1 DEF Returned
  <2>3. /\ requests' \in [Managers -> Request] /\ next = Resumed(requests[by], ok)
        /\ \A m \in Managers : m # by => requests'[m] = requests[m]
    BY <1>3, <2>1, <2>2, ResumedRequest DEF IInv, TypeOK
  <2>4. CASE next = Idle
    <3>1. calls' = rest
      BY <1>1, <2>2, <2>3, <2>4, ConcatEmptySeq DEF Following
    <3> HIDE DEF by, rest
    <3> QED
      BY <1>1, <2>3, <2>4, <3>1 DEF by
  <2>5. CASE next # Idle
    <3>1. next.rows # {} /\ next.rows \subseteq requests[by].rows
      BY <2>1, <2>3, <2>5, ResumedRequest
    <3>2. next.rows \subseteq Rows /\ \A r \in next.rows : Created(r)
      BY <2>1, <3>1 DEF Request, RequestFits
    <3>3. call \in Call
      BY <1>3, <3>1, <3>2, NextRowIsOne, SetCallIsCall
    <3>4. calls' = Append(rest, call)
      BY <1>1, <2>2, <2>3, <2>5, <3>3, AppendIsConcat DEF Following
    <3> HIDE DEF by, rest, call
    <3>5. /\ calls' \in Seq(Call) /\ Len(calls') = Len(rest) + 1
          /\ \A i \in 1 .. Len(rest) : calls'[i] = rest[i]
          /\ calls'[Len(rest) + 1] = call
      BY <1>1, <3>3, <3>4, AppendProperties
    <3>6. ASSUME NEW i \in 1 .. Len(calls')
          PROVE  \/ i + 1 \in 1 .. Len(calls) /\ calls'[i] = calls[i + 1]
                 \/ i = Len(calls) /\ i = Len(calls') /\ calls'[i] = call
      BY <1>1, <3>5
    <3>7. ASSUME NEW i \in 1 .. Len(calls), i # 1
          PROVE  i - 1 \in 1 .. Len(calls') /\ calls'[i - 1] = calls[i]
      <4>1. i - 1 \in 1 .. Len(rest) /\ (i - 1) + 1 = i
        BY <1>1, <3>7
      <4> QED
        BY <1>1, <3>5, <4>1
    <3> QED
      BY <1>1, <1>3, <2>3, <2>5, <3>5, <3>6, <3>7 DEF by, call
  <2> QED
    BY <2>4, <2>5
<1> QED
  BY <1>2, <1>3

LEMMA ReturnedFits ==
  ASSUME IInv, calls # <<>>, NEW ok \in BOOLEAN, Returned(Head(calls), ok),
         RowsKeep, HeldMoves, doubt' \subseteq Ids, UNCHANGED <<lastRow, online>>
  PROVE  IInv'
<1>0. PICK by, next, call :
        by = Head(calls).by /\ next = requests'[by] /\ call = SetCall(by, NextRow(next.rows))
  OBVIOUS
<1>1. RowsGrow
  BY TableShrinks
<1>2. /\ requests' \in [Managers -> Request] /\ calls' \in Seq(Call)
      /\ Len(calls) \in Nat \ {0} /\ Len(calls') \in Nat
      /\ \A m \in Managers : m # by => requests'[m] = requests[m]
      /\ by \in Managers => next = Resumed(requests[by], ok)
      /\ \A i \in 1 .. Len(calls') :
           \/ i + 1 \in 1 .. Len(calls) /\ calls'[i] = calls[i + 1]
           \/ /\ by \in Managers /\ next # Idle /\ calls'[i] = call
              /\ i = Len(calls) /\ i = Len(calls')
      /\ \A i \in 1 .. Len(calls) : i # 1 => i - 1 \in 1 .. Len(calls') /\ calls'[i - 1] = calls[i]
      /\ by \in Managers /\ next # Idle => Len(calls') = Len(calls) /\ calls'[Len(calls)] = call
  BY <1>0, ReturnedQueue
<1>3. TypeOK'
  BY <1>2 DEF IInv, TypeOK, RowsKeep, HeldMoves, Ids, Rows, Request, Call, Row, Filter
<1>4. RowsFit' /\ HeldFits'
  BY <1>1, RowsFitNext, HeldFitsNext DEF IInv, TypeOK
<1>5. ASSUME by \in Managers
      PROVE  RequestFits(next)'
  <2>1. requests[by] \in Request /\ RequestFits(requests[by])
    BY <1>0, <1>5, HeadFits
  <2>2. CASE next = Idle
    BY <2>2, IdleIsRequest DEF RequestFits
  <2>3. CASE next # Idle
    <3>1. next \in Request /\ next.kind = "push" /\ next.rows \subseteq requests[by].rows
      BY <1>2, <1>5, <2>1, <2>3, ResumedRequest
    <3>2. \A r \in next.rows : Created(r)'
      BY <1>1, <2>1, <3>1 DEF RequestFits, RowsGrow, Request
    <3> QED
      BY <3>1, <3>2 DEF RequestFits
  <2> QED
    BY <2>2, <2>3
<1>6. \A m \in Managers : RequestFits(requests[m])'
  <2> SUFFICES ASSUME NEW m \in Managers
               PROVE  RequestFits(requests[m])'
    OBVIOUS
  <2>1. requests[m] \in Request /\ RequestFits(requests[m])
    BY DEF IInv, TypeOK
  <2>2. CASE m = by
    BY <1>0, <1>5, <2>2
  <2>3. CASE m # by
    <3>1. requests'[m] = requests[m]
      BY <1>2, <2>3
    <3> QED
      BY <1>1, <2>1, <3>1, RequestStays
  <2> QED
    BY <2>2, <2>3
<1>7. \A i \in 1 .. Len(calls) : i # 1 => calls[i].by # by
  <2>1. by = calls[1].by /\ 1 \in 1 .. Len(calls)
    BY <1>0, HeadFits
  <2> QED
    BY <1>2, <2>1 DEF IInv, QueueFits, CalledOnce
<1>8. ASSUME by \in Managers, next # Idle
      PROVE  CallFits(call)' /\ call.by = by
  <2>1. requests[by] \in Request /\ RequestFits(requests[by])
    BY <1>0, <1>8, HeadFits
  <2>2. /\ next.kind = "push" /\ next.sending /\ next.rows # {}
        /\ next.rows \subseteq requests[by].rows
    BY <1>2, <1>8, <2>1, ResumedRequest
  <2>3. next.rows \subseteq Rows /\ \A r \in next.rows : Created(r)
    BY <2>1, <2>2 DEF Request, RequestFits
  <2>3a. PICK r : r = NextRow(next.rows)
    OBVIOUS
  <2>4. r \in Rows /\ Created(r) /\ Created(r)' /\ profiles'[r].id = profiles[r].id
    BY <1>1, <2>2, <2>3, <2>3a, NextRowIsOne DEF RowsGrow
  <2>5. /\ call \in Call /\ call.by = by /\ call.method = "Set" /\ call.row = r
        /\ call.filter.id = profiles[r].id
    BY <1>0, <1>8, <2>3a, <2>4, SetCallIsCall
  <2>6. by # Boot
    BY <1>8, ChargingProfilesAssumption
  <2>7. RequestCall(call, next)'
    BY <2>2, <2>3a, <2>5 DEF RequestCall
  <2> QED
    BY <1>0, <1>8, <2>4, <2>5, <2>6, <2>7 DEF CallFits
<1>9. \A i \in 1 .. Len(calls') : CallFits(calls[i])'
  <2> SUFFICES ASSUME NEW i \in 1 .. Len(calls')
               PROVE  CallFits(calls[i])'
    OBVIOUS
  <2>1. CASE i + 1 \in 1 .. Len(calls) /\ calls'[i] = calls[i + 1]
    <3>1. PICK old : old = calls[i + 1]
      OBVIOUS
    <3>2. CallFits(old) /\ old \in Call /\ old.by # by
      BY <1>2, <1>7, <2>1, <3>1, ElementOfSeq DEF IInv, TypeOK, QueueFits
    <3>3. old.by \in Managers =>
            /\ requests'[old.by] = requests[old.by]
            /\ requests[old.by] \in Request /\ RequestFits(requests[old.by])
      BY <1>2, <3>2 DEF IInv, TypeOK
    <3>4. CallFits(old)'
      BY <1>1, <3>2, <3>3, CallStays
    <3> QED
      BY <2>1, <3>1, <3>4
  <2>2. CASE by \in Managers /\ next # Idle /\ calls'[i] = call
    BY <1>8, <2>2
  <2> QED
    BY <1>2, <2>1, <2>2
<1>10. CalledOnce'
  <2> SUFFICES ASSUME NEW i \in 1 .. Len(calls'), NEW j \in 1 .. Len(calls'), i < j
               PROVE  calls'[i].by # calls'[j].by
    BY DEF CalledOnce
  <2>0. i # Len(calls') /\ i + 1 # 1
    BY <1>2
  <2>1. i + 1 \in 1 .. Len(calls) /\ calls'[i] = calls[i + 1] /\ i + 1 # 1
    BY <1>2, <2>0
  <2>2. CASE j + 1 \in 1 .. Len(calls) /\ calls'[j] = calls[j + 1]
    BY <2>1, <2>2 DEF IInv, QueueFits, CalledOnce
  <2>3. CASE by \in Managers /\ next # Idle /\ calls'[j] = call
    BY <1>7, <1>8, <2>1, <2>3
  <2> QED
    BY <1>2, <2>2, <2>3
<1>11. ASSUME NEW m \in Managers, requests'[m] # Idle
       PROVE  \E i \in 1 .. Len(calls') : calls'[i].by = m
  <2>1. CASE m = by
    BY <1>0, <1>2, <1>8, <1>11, <2>1
  <2>2. CASE m # by
    <3>1. PICK i \in 1 .. Len(calls) : calls[i].by = m
      BY <1>2, <1>11, <2>2 DEF IInv, QueueFits
    <3>2. i # 1
      BY <1>0, <2>2, <3>1, HeadFits
    <3> QED
      BY <1>2, <3>1, <3>2
  <2> QED
    BY <2>1, <2>2
<1>12. online
  BY HeadFits
<1> QED
  BY <1>3, <1>4, <1>6, <1>9, <1>10, <1>11, <1>12 DEF IInv, QueueFits

\* A connection is lost, or the server stops.
LEMMA StoppedFits ==
  ASSUME IInv, RowsKeep, HeldMoves, doubt' \subseteq Ids, UNCHANGED lastRow,
         calls' = <<>>, requests' = [m \in Managers |-> Idle], online' \in BOOLEAN
  PROVE  IInv'
<1>1. RowsGrow
  BY TableShrinks
<1>2. calls' \in Seq(Call) /\ Len(calls') = 0
  BY EmptySeq
<1>3. TypeOK'
  BY <1>2, IdleIsRequest DEF IInv, TypeOK, RowsKeep, HeldMoves, Ids, Rows, Request, Call, Row, Filter
<1>4. RowsFit' /\ HeldFits'
  BY <1>1, RowsFitNext, HeldFitsNext DEF IInv, TypeOK
<1>5. \A m \in Managers : RequestFits(requests[m])'
  BY IdleIsRequest DEF RequestFits
<1>6. QueueFits'
  BY <1>2 DEF QueueFits, CalledOnce
<1> QED
  BY <1>3, <1>4, <1>5, <1>6 DEF IInv

\* A step that concerns neither calls nor requests.
LEMMA AsideFits ==
  ASSUME IInv, RowsKeep, HeldMoves, doubt' \subseteq Ids, UNCHANGED <<lastRow, calls, requests>>,
         online' \in BOOLEAN, online' \/ calls = <<>>
  PROVE  IInv'
<1>1. RowsGrow
  BY TableShrinks
<1>2. TypeOK'
  BY DEF IInv, TypeOK, RowsKeep, HeldMoves, Ids, Rows, Request, Call, Row, Filter
<1>3. RowsFit' /\ HeldFits'
  BY <1>1, RowsFitNext, HeldFitsNext DEF IInv, TypeOK
<1>4. \A m \in Managers : RequestFits(requests[m])'
  BY <1>1, RequestStays DEF IInv, TypeOK
<1>5. \A i \in 1 .. Len(calls) : CallFits(calls[i])'
  <2> SUFFICES ASSUME NEW i \in 1 .. Len(calls)
               PROVE  CallFits(calls[i])'
    OBVIOUS
  <2>1. PICK call : call = calls[i]
    OBVIOUS
  <2>2. call \in Call /\ CallFits(call)
    BY <2>1, ElementOfSeq DEF IInv, TypeOK, QueueFits
  <2>3. call.by \in Managers => /\ requests[call.by] \in Request
                                /\ RequestFits(requests[call.by])
    BY DEF IInv, TypeOK
  <2>4. CallFits(call)'
    BY <1>1, <2>2, <2>3, CallStays
  <2> QED
    BY <2>1, <2>4
<1>6. QueueFits'
  BY <1>5 DEF IInv, QueueFits, CalledOnce
<1> QED
  BY <1>2, <1>3, <1>4, <1>6 DEF IInv

-----------------------------------------------------------------------------
(* What the handlers of an answer write.                                   *)

\* The rows that a step deletes.
Deletes(rows) ==
  \A r \in Rows : profiles'[r].status = IF r \in rows THEN "gone" ELSE profiles[r].status

LEMMA SetIsSettled ==
  ASSUME IInv, calls # <<>>, Head(calls).method = "Set"
  PROVE  LET call == Head(calls) IN
         /\ call.by \in Managers /\ call.row \in Rows /\ Created(call.row)
         /\ call.filter.id = profiles[call.row].id /\ call.filter.id \in Ids
         /\ Settles(call.by, call.row)
         /\ \/ requests[call.by].kind = "post" /\ requests[call.by].row = call.row
               /\ requests[call.by].rows = {}
            \/ requests[call.by].kind = "push" /\ requests[call.by].sending
               /\ call.row \in requests[call.by].rows /\ call.row = NextRow(requests[call.by].rows)
<1> DEFINE call == Head(calls)
           q == requests[call.by]
<1>1. /\ call.by \in Managers /\ CallFits(call) /\ q \in Request /\ RequestFits(q)
  BY HeadFits DEF CallFits
<1>2. call.row \in Rows /\ Created(call.row) /\ call.filter.id = profiles[call.row].id
  BY <1>1 DEF CallFits
<1>3. call.filter.id \in Ids
  BY <1>2 DEF IInv, RowsFit
<1>4. RequestCall(call, q)
  BY <1>1 DEF CallFits
<1>5. CASE q.kind = "post"
  BY <1>1, <1>2, <1>3, <1>4, <1>5 DEF RequestCall, RequestFits, Settles
<1>6. CASE q.sending
  <2>1. q.rows # {} /\ q.rows \subseteq Rows /\ call.row = NextRow(q.rows) /\ q.kind = "push"
    BY <1>1, <1>4, <1>6 DEF RequestCall, Request, RequestFits
  <2>2. call.row \in q.rows
    BY <2>1, NextRowIsOne
  <2> QED
    BY <1>1, <1>2, <1>3, <1>6, <2>1, <2>2 DEF Settles
<1> QED
  BY <1>4, <1>5, <1>6 DEF RequestCall

LEMMA SetWritten ==
  ASSUME IInv, calls # <<>>, Head(calls).method = "Set", NEW status \in {"Accepted"} \cup Refusals,
         profiles' = Written(Head(calls), status)
  PROVE  /\ RowsKeep
         /\ \A q \in Rows : profiles'[q].status = IF q = Head(calls).row /\ Exists(q) THEN status
                                                  ELSE profiles[q].status
<1>1. /\ Head(calls).by \in Managers /\ Head(calls).by # Boot /\ Head(calls).row \in Rows
      /\ requests[Head(calls).by].kind \in {"post", "push"}
  BY SetIsSettled, ChargingProfilesAssumption
<1>2. profiles' = WithStatus(Head(calls).row, status)
  BY <1>1 DEF Written, Answered
<1>3. status \in Status /\ profiles \in [Rows -> Row]
  BY StatusFacts DEF IInv, TypeOK
<1> QED
  BY <1>1, <1>2, <1>3, WithStatusKeeps

\* A clear that is accepted deletes what its filter names, a deletion its row.
LEMMA ClearWritten ==
  ASSUME IInv, calls # <<>>, Head(calls).method = "Clear", NEW status \in {"Accepted", "Unknown"},
         profiles' = Written(Head(calls), status)
  PROVE  LET call == Head(calls) IN
         /\ RowsKeep
         /\ \/ /\ status = "Accepted" /\ call.by \in Managers /\ requests[call.by].kind = "clear"
               /\ Deletes({r \in Table : Matches(r, call.filter)})
            \/ /\ status = "Accepted" /\ call.by \in Managers /\ requests[call.by].kind = "delete"
               /\ Deletes({requests[call.by].row} \cap Table)
            \/ /\ status = "Accepted" /\ call.by \in Managers =>
                    requests[call.by].kind \notin {"clear", "delete"}
               /\ Deletes({})
<1> DEFINE call == Head(calls)
           by == IF call.by = Boot THEN "boot" ELSE requests[call.by].kind
<1>1. /\ call.by \notin Managers => call.by = Boot
      /\ call.by \in Managers => call.by # Boot /\ RequestCall(call, requests[call.by])
  BY HeadFits, ChargingProfilesAssumption DEF CallFits
<1>2. by # "post" /\ profiles \in [Rows -> Row] /\ call.method = "Clear"
  BY <1>1 DEF RequestCall, IInv, TypeOK
<1>3. profiles' = CASE by = "clear" /\ status = "Accepted" ->
                         Without({r \in Table : Matches(r, call.filter)})
                    [] by = "delete" /\ status = "Accepted" ->
                         Without({requests[call.by].row} \cap Table)
                    [] ~(by \in {"clear", "delete"} /\ status = "Accepted") -> profiles
  <2>1. profiles' = Answered(call, status)
    BY DEF Written
  <2>2. CASE by = "clear" /\ status = "Accepted"
    BY <1>2, <2>1, <2>2 DEF Answered
  <2>3. CASE by = "delete" /\ status = "Accepted"
    BY <1>2, <2>1, <2>3 DEF Answered
  <2>4. CASE ~(by \in {"clear", "delete"} /\ status = "Accepted")
    BY <1>2, <2>1, <2>4 DEF Answered
  <2> QED
    BY <2>2, <2>3, <2>4
<1>4. CASE by = "clear" /\ status = "Accepted"
  <2>1. call.by \in Managers /\ requests[call.by].kind = "clear"
    BY <1>1, <1>4
  <2>2. profiles' = Without({r \in Table : Matches(r, call.filter)})
    BY <1>3, <1>4
  <2> HIDE DEF by
  <2> QED
    BY <1>2, <1>4, <2>1, <2>2, WithoutKeeps DEF Deletes
<1>5. CASE by = "delete" /\ status = "Accepted"
  <2>1. call.by \in Managers /\ requests[call.by].kind = "delete"
    BY <1>1, <1>5
  <2>2. profiles' = Without({requests[call.by].row} \cap Table)
    BY <1>3, <1>5
  <2> HIDE DEF by
  <2> QED
    BY <1>2, <1>5, <2>1, <2>2, WithoutKeeps DEF Deletes
<1>6. CASE ~(by \in {"clear", "delete"} /\ status = "Accepted")
  <2>1. UNCHANGED profiles
    BY <1>3, <1>6
  <2>2. status = "Accepted" /\ call.by \in Managers => requests[call.by].kind \notin {"clear", "delete"}
    BY <1>1, <1>6
  <2> HIDE DEF by
  <2> QED
    BY <1>2, <2>1, <2>2, SameRowsKeep DEF Deletes
<1> QED
  BY <1>4, <1>5, <1>6

\* A call that fails deletes at most the row of its POST.
LEMMA ExceptedWritten ==
  ASSUME IInv, calls # <<>>, profiles' = Excepted(Head(calls))
  PROVE  /\ RowsKeep
         /\ \E rows \in SUBSET Table : /\ Deletes(rows) /\ rows \subseteq {Head(calls).row}
                                       /\ rows # {} => Head(calls).method = "Set"
<1> DEFINE call == Head(calls)
<1>1. profiles \in [Rows -> Row]
  BY DEF IInv, TypeOK
<1>2. CASE call.by # Boot /\ requests[call.by].kind = "post"
  <2>1. call.method = "Set"
    BY <1>2, HeadFits DEF CallFits, RequestCall
  <2>2. profiles' = Without({call.row} \cap Table)
    BY <1>2 DEF Excepted
  <2> QED
    BY <1>1, <2>1, <2>2, WithoutKeeps DEF Deletes
<1>3. CASE ~(call.by # Boot /\ requests[call.by].kind = "post")
  <2>1. UNCHANGED profiles
    BY <1>3 DEF Excepted
  <2>2. Deletes({})
    BY <2>1 DEF Deletes
  <2> QED
    BY <1>1, <2>1, <2>2, SameRowsKeep
<1> QED
  BY <1>2, <1>3

\* What the charge point may have done with the first call.
LEMMA CarriedMoves ==
  ASSUME IInv, calls # <<>>, held' \in {held, Carried(Head(calls))}
  PROVE  LET call == Head(calls) IN
         /\ HeldMoves
         /\ \A n \in Ids : held'[n] # held[n] =>
              /\ n \in Named(call)
              /\ \/ held'[n] = 0 /\ call.method = "Clear"
                 \/ held'[n] = call.row /\ call.method = "Set" /\ n = call.filter.id
         /\ Named(call) \subseteq Ids
<1> DEFINE call == Head(calls)
<1>1. held \in [Ids -> Rows \cup {0}] /\ call \in Call
  BY HeadFits DEF IInv, TypeOK
<1>2. CASE call.method = "Set"
  <2>1. call.row \in Rows /\ Created(call.row) /\ call.filter.id = profiles[call.row].id
        /\ call.filter.id \in Ids
    BY <1>2, SetIsSettled
  <2>2. held' = held \/ held' = [held EXCEPT ![call.filter.id] = call.row]
    BY <1>2 DEF Carried
  <2>3. Named(call) = {call.filter.id}
    BY <1>2 DEF Named
  <2> HIDE DEF call
  <2>4. \A n \in Ids : held'[n] = held[n] \/ (held'[n] = call.row /\ n = call.filter.id)
    BY <1>1, <2>1, <2>2
  <2>5. held' \in [Ids -> Rows \cup {0}]
    BY <1>1, <2>1, <2>2
  <2> QED
    BY <1>2, <2>1, <2>3, <2>4, <2>5 DEF HeldMoves, call
<1>3. CASE call.method # "Set"
  <2>1. call.method = "Clear" /\ Named(call) = Cleared(call.filter)
    BY <1>1, <1>3 DEF Call, Named
  <2>2. held' = held \/ held' = [n \in Ids |-> IF n \in Cleared(call.filter) THEN 0 ELSE held[n]]
    BY <1>3 DEF Carried
  <2>3. Cleared(call.filter) \subseteq Ids
    BY DEF Cleared
  <2> HIDE DEF call
  <2> QED
    BY <1>1, <2>1, <2>2, <2>3 DEF HeldMoves, call
<1> QED
  BY <1>2, <1>3

-----------------------------------------------------------------------------
(* What joins the queue.                                                   *)

\* Nobody who is idle is in the queue.
LEMMA IdleIsAbsent ==
  ASSUME IInv, NEW m \in Managers, requests[m] = Idle
  PROVE  m # Boot /\ \A i \in 1 .. Len(calls) : calls[i].by # m
<1>1. ASSUME NEW i \in 1 .. Len(calls), calls[i].by = m
      PROVE  FALSE
  <2>1. CallFits(calls[i])
    BY DEF IInv, QueueFits
  <2>2. requests[m].kind # "idle"
    BY <1>1, <2>1 DEF CallFits, RequestCall
  <2> QED
    BY <2>2, IdleIsRequest
<1> QED
  BY <1>1, ChargingProfilesAssumption

\* The queue and the requests after m has begun a request.
Joined(m, q, call) ==
  /\ Len(calls) \in Nat /\ Len(calls') = Len(calls) + 1
  /\ \A i \in 1 .. Len(calls) : calls'[i] = calls[i] /\ calls[i].by # m
  /\ calls'[Len(calls) + 1] = call /\ call.by = m
  /\ requests' = [requests EXCEPT ![m] = q] /\ requests[m] = Idle
  /\ UNCHANGED <<online, held, doubt>>

\* A request that adds no row.
LEMMA BeginsFits ==
  ASSUME IInv, NEW m \in Managers, NEW kind, NEW r, NEW rows, NEW call \in Call,
         Begins(m, kind, r, rows, call), call.by = m,
         LET q == [kind |-> kind, row |-> r, rows |-> rows, sending |-> FALSE] IN
           q \in Request /\ RequestFits(q) /\ RequestCall(call, q),
         call.method = "Clear", UNCHANGED <<profiles, lastRow, online, held, doubt>>
  PROVE  /\ IInv'
         /\ Joined(m, [kind |-> kind, row |-> r, rows |-> rows, sending |-> FALSE], call)
<1> DEFINE q == [kind |-> kind, row |-> r, rows |-> rows, sending |-> FALSE]
<1>1. q \in Request /\ RequestFits(q) /\ RequestCall(call, q)
  OBVIOUS
<1>2. /\ online /\ requests[m] = Idle /\ requests' = [requests EXCEPT ![m] = q]
      /\ calls' = Append(calls, call)
  BY DEF Begins
<1> HIDE DEF q
<1>3. requests' \in [Managers -> Request] /\ requests'[m] = q
      /\ \A k \in Managers : k # m => requests'[k] = requests[k]
  BY <1>1, <1>2 DEF IInv, TypeOK
<1>4. RequestFits(q)' /\ RequestCall(call, q)'
  BY <1>1 DEF RequestFits, RequestCall, Created
<1>5. CallFits(call)' /\ RequestFits(requests[m])'
  BY <1>2, <1>3, <1>4, IdleIsAbsent DEF CallFits
<1>6. profiles' \in [Rows -> Row] /\ lastRow' \in 0 .. MaxRows /\ RowsFit' /\ RowsGrow
  BY DEF IInv, TypeOK, RowsFit, Rows, Ids, Created, RowsGrow
<1>7. \A i \in 1 .. Len(calls) : calls[i].by # call.by
  BY <1>2, IdleIsAbsent
<1> QED
  BY <1>2, <1>3, <1>5, <1>6, <1>7, JoinFits DEF Joined, q

LEMMA ClearCallFits ==
  ASSUME NEW by \in Managers \cup {Boot}, NEW filter \in Filter
  PROVE  LET call == ClearCall(by, filter) IN
         call \in Call /\ call.by = by /\ call.method = "Clear" /\ call.filter = filter
BY DEF ClearCall, Call

LEMMA ClearKeeps ==
  ASSUME IInv, NEW m \in Managers, NEW filter \in Filter, Clear(m, filter)
  PROVE  /\ IInv'
         /\ Joined(m, [kind |-> "clear", row |-> 0, rows |-> {}, sending |-> FALSE],
                   ClearCall(m, filter))
<1> DEFINE q == [kind |-> "clear", row |-> 0, rows |-> {}, sending |-> FALSE]
<1>1. q \in Request /\ RequestFits(q) /\ RequestCall(ClearCall(m, filter), q)
  BY ClearCallFits DEF Request, RequestFits, RequestCall
<1>2. ClearCall(m, filter) \in Call /\ ClearCall(m, filter).by = m
      /\ ClearCall(m, filter).method = "Clear"
  BY ClearCallFits
<1>3. /\ Begins(m, "clear", 0, {}, ClearCall(m, filter))
      /\ UNCHANGED <<profiles, lastRow, online, held, doubt>>
  BY DEF Clear
<1> QED
  BY <1>1, <1>2, <1>3, BeginsFits

LEMMA PushKeeps ==
  ASSUME IInv, NEW m \in Managers, PushAll(m)
  PROVE  /\ IInv'
         /\ Joined(m, [kind |-> "push", row |-> 0, rows |-> Table, sending |-> FALSE],
                   ClearCall(m, Everything))
<1> DEFINE q == [kind |-> "push", row |-> 0, rows |-> Table, sending |-> FALSE]
<1>0. Everything \in Filter /\ \A r \in Table : r \in Rows /\ Created(r)
  BY StatusFacts DEF Everything, Filter, Table, Exists, Created
<1>1. q \in Request /\ RequestFits(q) /\ RequestCall(ClearCall(m, Everything), q)
  BY <1>0, ClearCallFits DEF Request, RequestFits, RequestCall
<1> QED
  BY <1>0, <1>1, ClearCallFits, BeginsFits DEF PushAll, PushedProfiles

LEMMA DeleteKeeps ==
  ASSUME IInv, NEW m \in Managers, NEW r \in Rows, Delete(m, r)
  PROVE  /\ IInv'
         /\ Joined(m, [kind |-> "delete", row |-> r, rows |-> {}, sending |-> FALSE],
                   ClearCall(m, [id |-> profiles[r].id, slot |-> AnySlot]))
<1> DEFINE q == [kind |-> "delete", row |-> r, rows |-> {}, sending |-> FALSE]
           filter == [id |-> profiles[r].id, slot |-> AnySlot]
<1>0. Created(r) /\ profiles[r].id \in Ids
  BY StatusFacts DEF Delete, Exists, Created, IInv, RowsFit
<1>1. filter \in Filter
  BY <1>0 DEF Filter
<1>2. q \in Request /\ RequestFits(q) /\ RequestCall(ClearCall(m, filter), q)
  BY <1>0, <1>1, ClearCallFits DEF Request, RequestFits, RequestCall
<1> QED
  BY <1>1, <1>2, ClearCallFits, BeginsFits DEF Delete

LEMMA BootClearKeeps ==
  ASSUME IInv, BootClear
  PROVE  /\ IInv'
         /\ Len(calls) \in Nat /\ Len(calls') = Len(calls) + 1
         /\ \A i \in 1 .. Len(calls) : calls'[i] = calls[i]
         /\ calls'[Len(calls) + 1].by = Boot
<1> DEFINE call == ClearCall(Boot, Everything)
<1>1. call \in Call /\ call.by = Boot /\ call.method = "Clear"
  BY ClearCallFits DEF Everything, Filter
<1>2. /\ online /\ \A i \in 1 .. Len(calls) : calls[i].by # Boot
      /\ calls' = Append(calls, call)
      /\ UNCHANGED <<profiles, lastRow, requests, online, held, doubt>>
  BY DEF BootClear
<1> HIDE DEF call
<1>3. CallFits(call)'
  BY <1>1, ChargingProfilesAssumption DEF CallFits
<1>4. profiles' \in [Rows -> Row] /\ lastRow' \in 0 .. MaxRows /\ RowsFit' /\ RowsGrow
      /\ requests' \in [Managers -> Request]
  BY <1>2 DEF IInv, TypeOK, RowsFit, Rows, Ids, Created, RowsGrow
<1> QED
  BY <1>1, <1>2, <1>3, <1>4, ChargingProfilesAssumption, JoinFits

LEMMA PostKeeps ==
  ASSUME IInv, NEW m \in Managers, NEW slot \in Slots, Post(m, slot)
  PROVE  LET r == lastRow + 1 IN
         /\ IInv' /\ RowsGrow /\ r \in Rows /\ ~Created(r)
         /\ \E call : Joined(m, [kind |-> "post", row |-> r, rows |-> {}, sending |-> FALSE], call)
         /\ \E n \in Ids : NextProfileId(n) /\ profiles' =
              [profiles EXCEPT ![r] = [status |-> "Pending", id |-> n, slot |-> slot]]
<1> DEFINE r == lastRow + 1
           q == [kind |-> "post", row |-> r, rows |-> {}, sending |-> FALSE]
<1>1. PICK n \in Ids :
        /\ NextProfileId(n)
        /\ profiles' = [profiles EXCEPT ![r] = [status |-> "Pending", id |-> n, slot |-> slot]]
        /\ Begins(m, "post", r, {},
                  [by |-> m, method |-> "Set", row |-> r, filter |-> [id |-> n, slot |-> AnySlot]])
  BY DEF Post
<1> DEFINE row == [status |-> "Pending", id |-> n, slot |-> slot]
           call == [by |-> m, method |-> "Set", row |-> r, filter |-> [id |-> n, slot |-> AnySlot]]
<1>2. r \in Rows /\ lastRow' = r /\ lastRow \in Nat /\ UNCHANGED <<online, held, doubt>>
  BY ChargingProfilesAssumption DEF Post, IInv, TypeOK, Rows
<1>3. ~Created(r)
  BY <1>2 DEF IInv, RowsFit
<1>4. row \in Row /\ row.status = "Pending" /\ row.id = n
  BY StatusFacts DEF Row
<1>5. call \in Call /\ call.by = m /\ call.method = "Set" /\ call.row = r /\ call.filter.id = n
  BY <1>2 DEF Call, Filter
<1>6. q \in Request /\ q.kind = "post" /\ q.row = r /\ q.rows = {} /\ ~q.sending
  BY <1>2 DEF Request
<1>7. /\ online /\ requests[m] = Idle /\ requests' = [requests EXCEPT ![m] = q]
      /\ calls' = Append(calls, call)
  BY <1>1 DEF Begins
<1>7a. PICK x, c, s : x = r /\ c = call /\ s = q
  OBVIOUS
<1> HIDE DEF row, call, q, r
<1>8. profiles' \in [Rows -> Row] /\ \A k \in Rows : profiles'[k] = IF k = r THEN row ELSE profiles[k]
  BY <1>1, <1>2, <1>4 DEF IInv, TypeOK, row
<1>9. RowsGrow
  BY <1>3, <1>8 DEF RowsGrow, Created
<1>10. RowsFit'
  BY <1>2, <1>4, <1>8 DEF IInv, RowsFit, Rows, Ids, Created, r
<1>11. Created(x)' /\ profiles'[x].id = n /\ x \in Rows
  BY <1>2, <1>4, <1>7a, <1>8 DEF Created
<1>12. requests' \in [Managers -> Request] /\ requests'[m] = s
       /\ \A k \in Managers : k # m => requests'[k] = requests[k]
  BY <1>6, <1>7, <1>7a DEF IInv, TypeOK
<1>13. RequestFits(s)' /\ RequestCall(c, s)'
  BY <1>5, <1>6, <1>7a, <1>11 DEF RequestFits, RequestCall
<1>14. CallFits(c)' /\ RequestFits(requests[m])'
  BY <1>5, <1>7, <1>7a, <1>11, <1>12, <1>13, IdleIsAbsent DEF CallFits
<1>15. \A i \in 1 .. Len(calls) : calls[i].by # m
  BY <1>7, IdleIsAbsent
<1>16. lastRow' \in 0 .. MaxRows
  BY <1>2 DEF Rows
<1>17. /\ IInv' /\ Len(calls') = Len(calls) + 1 /\ Len(calls) \in Nat
       /\ \A i \in 1 .. Len(calls) : calls'[i] = calls[i]
       /\ calls'[Len(calls) + 1] = c
  BY <1>2, <1>5, <1>7, <1>7a, <1>8, <1>9, <1>10, <1>12, <1>14, <1>15, <1>16, JoinFits
<1>18. Joined(m, s, c)
  BY <1>2, <1>5, <1>7, <1>7a, <1>15, <1>17 DEF Joined
<1> QED
  BY <1>1, <1>2, <1>3, <1>7a, <1>9, <1>17, <1>18 DEF q, r, row

-----------------------------------------------------------------------------
(* What the other steps do.                                                *)

LEMMA TakeDoes ==
  ASSUME IInv, TakeProfile
  PROVE  LET call == Head(calls) IN
         /\ IInv' /\ RowsKeep
         /\ calls # <<>> /\ call.method = "Set" /\ Returned(call, TRUE)
         /\ \A n \in Ids : held'[n] = IF n = call.filter.id THEN call.row ELSE held[n]
         /\ \A q \in Rows : profiles'[q].status = IF q = call.row /\ Exists(q) THEN "Accepted"
                                                  ELSE profiles[q].status
<1> DEFINE call == Head(calls)
<1>1. /\ calls # <<>> /\ call.method = "Set" /\ Returned(call, TRUE)
      /\ held' = [held EXCEPT ![call.filter.id] = call.row]
      /\ profiles' = Written(call, "Accepted")
      /\ doubt' = IF Exists(call.row) THEN doubt \ {call.filter.id} ELSE doubt \cup {call.filter.id}
      /\ UNCHANGED <<lastRow, online>>
  BY DEF TakeProfile
<1>2. call.filter.id \in Ids
  BY <1>1, SetIsSettled
<1>3. held' = Carried(call)
  BY <1>1 DEF Carried
<1>4. HeldMoves
  BY <1>1, <1>3, CarriedMoves
<1>5. RowsKeep /\ \A q \in Rows : profiles'[q].status = IF q = call.row /\ Exists(q) THEN "Accepted"
                                                       ELSE profiles[q].status
  BY <1>1, SetWritten
<1>6. doubt' \subseteq Ids
  BY <1>1, <1>2 DEF IInv, TypeOK
<1>7. IInv'
  BY <1>1, <1>4, <1>5, <1>6, ReturnedFits
<1>8. \A n \in Ids : held'[n] = IF n = call.filter.id THEN call.row ELSE held[n]
  BY <1>1, <1>2 DEF IInv, TypeOK
<1> QED
  BY <1>1, <1>5, <1>7, <1>8

LEMMA RefuseDoes ==
  ASSUME IInv, RefuseProfile
  PROVE  LET call == Head(calls) IN
         /\ IInv' /\ RowsKeep
         /\ calls # <<>> /\ call.method = "Set" /\ Returned(call, TRUE)
         /\ UNCHANGED <<held, doubt>>
         /\ \E status \in Refusals : \A q \in Rows :
              profiles'[q].status = IF q = call.row /\ Exists(q) THEN status ELSE profiles[q].status
<1> DEFINE call == Head(calls)
<1>1. PICK status \in Refusals : profiles' = Written(call, status)
  BY DEF RefuseProfile
<1>2. /\ calls # <<>> /\ call.method = "Set" /\ Returned(call, TRUE)
      /\ UNCHANGED <<lastRow, online, held, doubt>>
  BY DEF RefuseProfile
<1>3. HeldMoves /\ doubt' \subseteq Ids
  BY <1>2 DEF IInv, TypeOK, HeldMoves
<1>4. RowsKeep /\ \A q \in Rows : profiles'[q].status = IF q = call.row /\ Exists(q) THEN status
                                                       ELSE profiles[q].status
  BY <1>1, <1>2, SetWritten
<1>5. IInv'
  BY <1>2, <1>3, <1>4, ReturnedFits
<1> QED
  BY <1>2, <1>4, <1>5

LEMMA ClearDoes ==
  ASSUME IInv, ClearProfiles
  PROVE  LET call == Head(calls)
             cleared == Cleared(call.filter)
             status == IF cleared = {} THEN "Unknown" ELSE "Accepted" IN
         /\ IInv' /\ RowsKeep
         /\ calls # <<>> /\ call.method = "Clear" /\ Returned(call, TRUE)
         /\ profiles' = Written(call, status)
         /\ \A n \in Ids : held'[n] = IF n \in cleared THEN 0 ELSE held[n]
         /\ doubt' = doubt \ {n \in cleared : held[n] \in Table \/ n \notin IdsOf(Table)}
<1> DEFINE call == Head(calls)
           cleared == Cleared(call.filter)
           status == IF cleared = {} THEN "Unknown" ELSE "Accepted"
<1>1. /\ calls # <<>> /\ call.method = "Clear" /\ Returned(call, TRUE)
      /\ held' = [n \in Ids |-> IF n \in cleared THEN 0 ELSE held[n]]
      /\ profiles' = Written(call, status)
      /\ doubt' = doubt \ {n \in cleared : held[n] \in Table \/ n \notin IdsOf(Table)}
      /\ UNCHANGED <<lastRow, online>>
  BY DEF ClearProfiles
<1>2. held' = Carried(call)
  BY <1>1 DEF Carried
<1>3. HeldMoves
  BY <1>1, <1>2, CarriedMoves
<1>4. status \in {"Accepted", "Unknown"}
  OBVIOUS
<1> HIDE DEF cleared, status
<1>5. RowsKeep
  BY <1>1, <1>4, ClearWritten
<1>6. doubt' \subseteq Ids
  BY <1>1 DEF IInv, TypeOK
<1>7. IInv'
  BY <1>1, <1>3, <1>5, <1>6, ReturnedFits
<1> QED
  BY <1>1, <1>5, <1>7 DEF cleared, status

LEMMA TimeOutDoes ==
  ASSUME IInv, TimeOut
  PROVE  LET call == Head(calls) IN
         /\ IInv' /\ RowsKeep
         /\ calls # <<>> /\ Returned(call, FALSE)
         /\ \E rows \in SUBSET Table : /\ Deletes(rows) /\ rows \subseteq {call.row}
                                       /\ rows # {} => call.method = "Set"
         /\ \A n \in Ids : held'[n] # held[n] =>
              /\ n \in Named(call)
              /\ \/ held'[n] = 0 /\ call.method = "Clear"
                 \/ held'[n] = call.row /\ call.method = "Set" /\ n = call.filter.id
         /\ doubt' = doubt \cup Named(call)
<1> DEFINE call == Head(calls)
<1>1. /\ calls # <<>> /\ Returned(call, FALSE)
      /\ held' \in {held, Carried(call)}
      /\ profiles' = Excepted(call)
      /\ doubt' = doubt \cup Named(call)
      /\ UNCHANGED <<lastRow, online>>
  BY DEF TimeOut
<1>2. /\ HeldMoves /\ Named(call) \subseteq Ids
      /\ \A n \in Ids : held'[n] # held[n] =>
           /\ n \in Named(call)
           /\ \/ held'[n] = 0 /\ call.method = "Clear"
              \/ held'[n] = call.row /\ call.method = "Set" /\ n = call.filter.id
  BY <1>1, CarriedMoves
<1>3. /\ RowsKeep
      /\ \E rows \in SUBSET Table : /\ Deletes(rows) /\ rows \subseteq {call.row}
                                    /\ rows # {} => call.method = "Set"
  BY <1>1, ExceptedWritten
<1>4. doubt' \subseteq Ids
  BY <1>1, <1>2 DEF IInv, TypeOK
<1>5. IInv'
  BY <1>1, <1>2, <1>3, <1>4, ReturnedFits
<1> QED
  BY <1>1, <1>2, <1>3, <1>5

LEMMA NamedIsId ==
  ASSUME IInv, NEW i \in 1 .. Len(calls)
  PROVE  Named(calls[i]) \subseteq Ids
<1>1. calls[i].method = "Set" => calls[i].filter.id \in Ids
  BY DEF IInv, QueueFits, CallFits, RowsFit
<1> QED
  BY <1>1 DEF Named, Cleared

LEMMA UnsettledAreIds ==
  ASSUME IInv
  PROVE  Unsettled \subseteq Ids
<1>1. \A m \in Managers : IdsOf(requests[m].rows) \subseteq Ids
  BY DEF IInv, TypeOK, RequestFits, RowsFit, Request, IdsOf
<1>2. \A i \in 1 .. Len(calls) : Named(calls[i]) \subseteq Ids
  BY NamedIsId
<1>3. SUFFICES ASSUME NEW n \in Unsettled
               PROVE  n \in Ids
  OBVIOUS
<1>4. \/ \E i \in 1 .. Len(calls) : n \in Named(calls[i])
      \/ \E m \in Managers : n \in IdsOf(requests[m].rows)
  BY <1>3 DEF Unsettled
<1> QED
  BY <1>1, <1>2, <1>4

\* A connection is lost, or the server stops.
LEMMA StopDoes ==
  ASSUME IInv, LoseConnection \/ Restart
  PROVE  /\ IInv' /\ RowsKeep
         /\ calls' = <<>> /\ requests' = [m \in Managers |-> Idle]
         /\ \E rows \in SUBSET Table :
              /\ Deletes(rows)
              /\ \A r \in rows : \E m \in Managers : requests[m].kind = "post" /\ requests[m].row = r
         /\ \A n \in Ids : held'[n] # held[n] => calls # <<>> /\ n \in Named(Head(calls))
         /\ doubt' = doubt \cup Unsettled
<1> DEFINE posted == {requests[m].row : m \in {k \in Managers : requests[k].kind = "post"}}
<1>1. /\ calls' = <<>> /\ requests' = [m \in Managers |-> Idle]
      /\ held' \in {held} \cup (IF calls = <<>> THEN {} ELSE {Carried(Head(calls))})
      /\ doubt' = doubt \cup Unsettled
      /\ UNCHANGED lastRow /\ online' = FALSE
      /\ profiles' = Without(posted \cap Table) \/ UNCHANGED profiles
  BY DEF LoseConnection, Restart
<1>2. /\ HeldMoves
      /\ \A n \in Ids : held'[n] # held[n] => calls # <<>> /\ n \in Named(Head(calls))
  <2>1. CASE calls = <<>>
    BY <1>1, <2>1 DEF IInv, TypeOK, HeldMoves
  <2>2. CASE calls # <<>>
    <3>1. held' \in {held, Carried(Head(calls))}
      BY <1>1, <2>2
    <3> QED
      BY <2>2, <3>1, CarriedMoves
  <2> QED
    BY <2>1, <2>2
<1>3. profiles \in [Rows -> Row]
  BY DEF IInv, TypeOK
<1>4. /\ RowsKeep
      /\ \E rows \in SUBSET Table :
           /\ Deletes(rows)
           /\ \A r \in rows : \E m \in Managers : requests[m].kind = "post" /\ requests[m].row = r
  <2>1. CASE profiles' = Without(posted \cap Table)
    <3>1. posted \cap Table \in SUBSET Table
      OBVIOUS
    <3>2. RowsKeep /\ Deletes(posted \cap Table)
      BY <1>3, <2>1, <3>1, WithoutKeeps DEF Deletes
    <3> QED
      BY <3>1, <3>2
  <2>2. CASE UNCHANGED profiles
    <3>1. RowsKeep /\ Deletes({})
      BY <1>3, <2>2, SameRowsKeep DEF Deletes
    <3> QED
      BY <3>1
  <2> QED
    BY <1>1, <2>1, <2>2
<1>5. doubt' \subseteq Ids
  BY <1>1, UnsettledAreIds DEF IInv, TypeOK
<1>6. IInv'
  BY <1>1, <1>2, <1>4, <1>5, StoppedFits
<1> QED
  BY <1>1, <1>2, <1>4, <1>6

LEMMA DeleteRejectedDoes ==
  ASSUME IInv, NEW r \in Rows, DeleteRejected(r)
  PROVE  /\ IInv' /\ RowsKeep /\ Deletes({r})
         /\ r \in Table /\ profiles[r].status = "Rejected"
         /\ UNCHANGED <<requests, calls, held, doubt>>
<1>1. /\ Exists(r) /\ profiles[r].status = "Rejected" /\ profiles' = Without({r})
      /\ UNCHANGED <<lastRow, requests, calls, online, held, doubt>>
  BY DEF DeleteRejected
<1>2. {r} \in SUBSET Table /\ profiles \in [Rows -> Row]
  BY <1>1 DEF Table, IInv, TypeOK
<1>3. RowsKeep /\ Deletes({r})
  BY <1>1, <1>2, WithoutKeeps DEF Deletes
<1>4. HeldMoves /\ doubt' \subseteq Ids /\ online' \in BOOLEAN /\ (online' \/ calls = <<>>)
  BY <1>1 DEF IInv, TypeOK, HeldMoves, QueueFits
<1>5. IInv'
  BY <1>1, <1>3, <1>4, AsideFits
<1> QED
  BY <1>1, <1>2, <1>3, <1>5

LEMMA ConnectDoes ==
  ASSUME IInv, NEW changed \in BOOLEAN, Connect(changed)
  PROVE  /\ IInv' /\ RowsKeep /\ calls = <<>>
         /\ UNCHANGED <<requests, calls, held>>
         /\ UNCHANGED <<profiles, doubt>> \/ (doubt' = Ids /\ Table' = {})
<1>1. ~online /\ online' /\ UNCHANGED <<lastRow, requests, calls, held>> /\ online' \in BOOLEAN
  BY DEF Connect
<1>2. UNCHANGED <<profiles, doubt>> \/ (profiles' = Without(Table) /\ doubt' = Ids)
  BY DEF Connect
<1>3. profiles \in [Rows -> Row]
  BY DEF IInv, TypeOK
<1>4. RowsKeep /\ (profiles' = Without(Table) => Table' = {})
  <2>1. CASE UNCHANGED profiles
    <3>1. Table' = Table
      BY <2>1 DEF Table, Exists
    <3>2. Table \in SUBSET Table
      OBVIOUS
    <3>3. profiles' = Without(Table) => \A r \in Table : profiles'[r].status = "gone"
      BY <1>3, <3>2, WithoutKeeps DEF Table
    <3> QED
      BY <1>3, <2>1, <3>1, <3>3, SameRowsKeep, StatusFacts DEF Table, Exists
  <2>2. CASE profiles' = Without(Table)
    <3>1. Table \in SUBSET Table
      OBVIOUS
    <3>2. RowsKeep /\ \A r \in Rows : profiles'[r].status = IF r \in Table THEN "gone"
                                                            ELSE profiles[r].status
      BY <1>3, <2>2, <3>1, WithoutKeeps
    <3> QED
      BY <3>2, StatusFacts DEF Table, Exists
  <2> QED
    BY <1>2, <2>1, <2>2
<1>5. HeldMoves /\ doubt' \subseteq Ids
  BY <1>1, <1>2 DEF IInv, TypeOK, HeldMoves
<1>6. IInv'
  BY <1>1, <1>4, <1>5, AsideFits
<1> QED
  BY <1>1, <1>2, <1>4, <1>6 DEF IInv, QueueFits

LEMMA ForgetDoes ==
  ASSUME IInv, ForgetProfiles
  PROVE  /\ IInv' /\ RowsKeep /\ calls = <<>>
         /\ UNCHANGED <<profiles, requests, calls>>
         /\ doubt' = Ids /\ \A n \in Ids : held'[n] = 0
<1>1. /\ ~online /\ held' = [n \in Ids |-> 0] /\ doubt' = Ids
      /\ UNCHANGED <<profiles, lastRow, requests, calls, online>>
  BY DEF ForgetProfiles
<1>2. RowsKeep
  BY <1>1, SameRowsKeep DEF IInv, TypeOK
<1>3. HeldMoves /\ doubt' \subseteq Ids
  BY <1>1 DEF IInv, TypeOK, HeldMoves
<1>4. IInv'
  BY <1>1, <1>2, <1>3, AsideFits DEF IInv, TypeOK, QueueFits
<1> QED
  BY <1>1, <1>2, <1>4 DEF IInv, QueueFits

-----------------------------------------------------------------------------
(* The invariant.                                                          *)

LEMMA InitIInv == Init => IInv
<1> SUFFICES ASSUME Init PROVE IInv
  OBVIOUS
<1>1. Len(calls) = 0 /\ calls \in Seq(Call)
  BY EmptySeq DEF Init
<1>2. NoRow \in Row /\ NoRow.status = "none"
  BY DEF NoRow, Row
<1>3. TypeOK
  BY <1>1, <1>2, IdleIsRequest, ChargingProfilesAssumption DEF Init, TypeOK
<1>4. RowsFit /\ HeldFits
  BY <1>2 DEF Init, RowsFit, HeldFits, Created
<1>5. \A m \in Managers : RequestFits(requests[m])
  BY IdleIsRequest DEF Init, RequestFits
<1>6. QueueFits
  BY <1>1 DEF Init, QueueFits, CalledOnce
<1> QED
  BY <1>3, <1>4, <1>5, <1>6 DEF IInv

LEMMA StutterKeeps ==
  ASSUME IInv, UNCHANGED vars
  PROVE  IInv'
<1>1. RowsKeep /\ HeldMoves
  BY SameRowsKeep DEF vars, IInv, TypeOK, HeldMoves
<1> QED
  BY <1>1, AsideFits DEF vars, IInv, TypeOK, QueueFits

LEMMA NextKeeps == IInv /\ [Next]_vars => IInv'
<1> SUFFICES ASSUME IInv, [Next]_vars PROVE IInv'
  OBVIOUS
<1>1. ASSUME NEW m \in Managers, NEW slot \in Slots, Post(m, slot) PROVE IInv'
  BY <1>1, PostKeeps
<1>2. ASSUME NEW m \in Managers, NEW filter \in Filter, Clear(m, filter) PROVE IInv'
  BY <1>2, ClearKeeps
<1>3. ASSUME NEW m \in Managers, PushAll(m) PROVE IInv'
  BY <1>3, PushKeeps
<1>4. ASSUME NEW m \in Managers, NEW r \in Rows, Delete(m, r) PROVE IInv'
  BY <1>4, DeleteKeeps
<1>5. ASSUME NEW r \in Rows, DeleteRejected(r) PROVE IInv'
  BY <1>5, DeleteRejectedDoes
<1>6. CASE BootClear
  BY <1>6, BootClearKeeps
<1>7. CASE TakeProfile
  BY <1>7, TakeDoes
<1>8. CASE RefuseProfile
  BY <1>8, RefuseDoes
<1>9. CASE ClearProfiles
  BY <1>9, ClearDoes
<1>10. CASE TimeOut
  BY <1>10, TimeOutDoes
<1>11. CASE LoseConnection \/ Restart
  BY <1>11, StopDoes
<1>12. ASSUME NEW changed \in BOOLEAN, Connect(changed) PROVE IInv'
  BY <1>12, ConnectDoes
<1>13. CASE ForgetProfiles
  BY <1>13, ForgetDoes
<1>14. CASE UNCHANGED vars
  BY <1>14, StutterKeeps
<1> QED
  BY <1>1, <1>2, <1>3, <1>4, <1>5, <1>6, <1>7, <1>8, <1>9, <1>10, <1>11, <1>12, <1>13, <1>14 DEF Next

LEMMA Invariance == Spec => []IInv
BY InitIInv, NextKeeps, PTL DEF Spec

\* The table, the queue and the requests hold values of their kinds
\* (charging_profiles, the call queue of the client).
THEOREM TypeCorrect == Spec => []TypeOK
<1>1. IInv => TypeOK
  BY DEF IInv
<1> QED
  BY <1>1, Invariance, PTL

-----------------------------------------------------------------------------
(* The ids of the table, and the order of the queue.                       *)

LEMMA IdsKeepDiffering ==
  ASSUME RowsKeep, ProfileIdsDiffer
  PROVE  ProfileIdsDiffer'
<1>1. Table' \subseteq Table /\ \A r \in Table : r \in Rows
  BY TableShrinks DEF Table
<1> QED
  BY <1>1 DEF ProfileIdsDiffer, RowsKeep

LEMMA PostedIdDiffers ==
  ASSUME IInv, ProfileIdsDiffer, NEW m \in Managers, NEW slot \in Slots, Post(m, slot)
  PROVE  /\ ProfileIdsDiffer'
         /\ \A q \in Table' : \/ q \in Table /\ profiles'[q] = profiles[q] /\ q # lastRow + 1
                              \/ q = lastRow + 1 /\ profiles'[q].status = "Pending"
<1>1. PICK r, n, row : r = lastRow + 1 /\ n \in Ids
                       /\ row = [status |-> "Pending", id |-> n, slot |-> slot]
                       /\ NextProfileId(n) /\ profiles' = [profiles EXCEPT ![r] = row]
  BY PostKeeps
<1>2. row.status = "Pending" /\ row.id = n
  BY <1>1
<1>3. r \in Rows /\ ~Created(r) /\ profiles \in [Rows -> Row]
  BY <1>1, PostKeeps DEF IInv, TypeOK
<1>3a. lastRow \in Nat
  BY ChargingProfilesAssumption DEF IInv, TypeOK
<1>4. \A q \in Rows : profiles'[q] = IF q = r THEN row ELSE profiles[q]
  BY <1>1, <1>3
<1>5. ASSUME NEW q \in Table'
      PROVE  \/ q \in Table /\ profiles'[q] = profiles[q] /\ q # r
             \/ q = r /\ profiles'[q] = row
  <2>1. q \in Rows /\ profiles'[q].status \in Status
    BY DEF Table, Exists
  <2> QED
    BY <1>4, <2>1 DEF Table, Exists
<1>6. \A q \in Table : profiles[q].id # n
  BY <1>1, <1>3 DEF NextProfileId, Ids, Table, Row, IInv, RowsFit
<1>7. ProfileIdsDiffer'
  BY <1>2, <1>5, <1>6 DEF ProfileIdsDiffer
<1>8. \A q \in Table' : \/ q \in Table /\ profiles'[q] = profiles[q] /\ q # r
                        \/ q = r /\ profiles'[q].status = "Pending"
  BY <1>2, <1>5
<1> QED
  BY <1>1, <1>3a, <1>7, <1>8

\* A step that leaves a request alone leaves it where it was in the order.
LEMMA OrderedAlike ==
  ASSUME RowsGrow, NEW by, NEW q \in Rows, Created(q),
         by \in Managers => /\ requests'[by] = requests[by]
                            /\ requests[by] \in Request /\ RequestFits(requests[by])
  PROVE  (Precedes(by, q)' <=> Precedes(by, q)) /\ (Settles(by, q)' <=> Settles(by, q))
<1>1. profiles'[q].id = profiles[q].id
  BY DEF RowsGrow
<1>2. ASSUME by \in Managers, requests[by].kind = "delete"
      PROVE  profiles'[requests[by].row].id = profiles[requests[by].row].id
  BY <1>2 DEF RequestFits, RowsGrow
<1> QED
  BY <1>1, <1>2 DEF Precedes, Assumes, Settles

LEMMA TableIsCreated ==
  \A q \in Table : q \in Rows /\ Created(q) /\ q # 0
BY StatusFacts, ChargingProfilesAssumption DEF Table, Exists, Created, Rows

LEMMA OrderJoined ==
  ASSUME IInv, Order, RowsGrow, NEW m \in Managers, NEW q, NEW call, Joined(m, q, call),
         q.kind = "delete" => profiles'[q.row] = profiles[q.row],
         \A r \in Table' : \/ r \in Table /\ profiles'[r] = profiles[r] /\ ~Assumes(q, r)
                           \/ r \in Rows /\ ~Created(r) /\ profiles'[r].status = "Pending"
  PROVE  Order'
<1>1. SUFFICES ASSUME NEW i \in 1 .. Len(calls'), NEW r \in Table',
                      Precedes(calls[i].by, r)'
               PROVE  /\ profiles'[r].status = "Pending"
                      /\ \A n \in Ids : held'[n] # r
                      /\ \A j \in 1 .. Len(calls') : Settles(calls[j].by, r)' => i <= j
  BY DEF Order
<1>2. /\ Len(calls) \in Nat /\ Len(calls') = Len(calls) + 1
      /\ \A j \in 1 .. Len(calls) : calls'[j] = calls[j] /\ calls[j].by # m
      /\ calls'[Len(calls) + 1].by = m
      /\ UNCHANGED held
  BY DEF Joined
<1>3. ASSUME NEW j \in 1 .. Len(calls), calls[j].by \in Managers
      PROVE  /\ requests'[calls[j].by] = requests[calls[j].by]
             /\ requests[calls[j].by] \in Request /\ RequestFits(requests[calls[j].by])
  BY <1>2, <1>3 DEF Joined, IInv, TypeOK
<1>4. \A j \in 1 .. Len(calls') : j \in 1 .. Len(calls) \/ j = Len(calls) + 1
  BY <1>2
<1>5. CASE r \in Table /\ profiles'[r] = profiles[r] /\ ~Assumes(q, r)
  <2>0. ~Precedes(m, r)'
    BY <1>5, ChargingProfilesAssumption DEF Joined, Precedes, Assumes, IInv, TypeOK
  <2>1. r \in Rows /\ Created(r)
    BY <1>5, TableIsCreated
  <2>2. i \in 1 .. Len(calls)
    BY <1>1, <1>2, <1>4, <2>0 DEF Precedes, Assumes
  <2>3. ASSUME NEW j \in 1 .. Len(calls)
        PROVE  /\ Precedes(calls[j].by, r)' <=> Precedes(calls[j].by, r)
               /\ Settles(calls[j].by, r)' <=> Settles(calls[j].by, r)
    <3>1. PICK by : by = calls[j].by
      OBVIOUS
    <3>2. /\ Precedes(by, r)' <=> Precedes(by, r)
          /\ Settles(by, r)' <=> Settles(by, r)
      BY <1>3, <2>1, <3>1, OrderedAlike
    <3> QED
      BY <1>2, <3>1, <3>2 DEF Precedes, Assumes, Settles
  <2>4. /\ profiles[r].status = "Pending" /\ \A n \in Ids : held[n] # r
        /\ \A j \in 1 .. Len(calls) : Settles(calls[j].by, r) => i <= j
    BY <1>1, <1>5, <2>2, <2>3 DEF Order
  <2> QED
    BY <1>2, <1>4, <1>5, <2>2, <2>3, <2>4
<1>6. CASE r \in Rows /\ ~Created(r) /\ profiles'[r].status = "Pending"
  <2>1. \A n \in Ids : held[n] # r
    BY <1>6, ChargingProfilesAssumption DEF IInv, HeldFits, Rows
  <2>2. ASSUME NEW j \in 1 .. Len(calls), Settles(calls[j].by, r)'
        PROVE  FALSE
    <3>1. PICK by : by = calls[j].by
      OBVIOUS
    <3>2. Settles(by, r)'
      BY <1>2, <2>2, <3>1 DEF Settles
    <3>3. by \in Managers /\ requests'[by] = requests[by] /\ RequestFits(requests[by])
      BY <1>3, <3>1, <3>2 DEF Settles
    <3> QED
      BY <1>6, <3>2, <3>3 DEF Settles, RequestFits
  <2> QED
    BY <1>2, <1>4, <1>6, <2>1, <2>2
<1> QED
  BY <1>1, <1>5, <1>6

\* The first call returns: what it changes is what its request sent.
LEMMA OrderReturned ==
  ASSUME IInv, Order, calls # <<>>, NEW ok \in BOOLEAN, Returned(Head(calls), ok), RowsKeep,
         \A r \in Table' :
           /\ profiles'[r].status = profiles[r].status \/ Settles(Head(calls).by, r)
           /\ \A n \in Ids : held'[n] = r => held[n] = r \/ Settles(Head(calls).by, r)
  PROVE  Order'
<1>1. SUFFICES ASSUME NEW i \in 1 .. Len(calls'), NEW r \in Table',
                      Precedes(calls[i].by, r)'
               PROVE  /\ profiles'[r].status = "Pending"
                      /\ \A n \in Ids : held'[n] # r
                      /\ \A j \in 1 .. Len(calls') : Settles(calls[j].by, r)' => i <= j
  BY DEF Order
<1>2. PICK by, next, call :
        by = Head(calls).by /\ next = requests'[by] /\ call = SetCall(by, NextRow(next.rows))
  OBVIOUS
<1>3. /\ Len(calls) \in Nat \ {0} /\ Len(calls') \in Nat
      /\ \A m \in Managers : m # by => requests'[m] = requests[m]
      /\ by \in Managers => next = Resumed(requests[by], ok)
      /\ \A j \in 1 .. Len(calls') :
           \/ j + 1 \in 1 .. Len(calls) /\ calls'[j] = calls[j + 1]
           \/ /\ by \in Managers /\ next # Idle /\ calls'[j] = call
              /\ j = Len(calls) /\ j = Len(calls')
  BY <1>2, ReturnedQueue
<1>4. r \in Table /\ r \in Rows /\ Created(r) /\ RowsGrow
  BY TableShrinks, TableIsCreated
<1>5. by = calls[1].by /\ 1 \in 1 .. Len(calls)
  BY <1>2, HeadFits
<1>6. ASSUME NEW j \in 1 .. Len(calls'), j + 1 \in 1 .. Len(calls), calls'[j] = calls[j + 1]
      PROVE  /\ Precedes(calls[j].by, r)' <=> Precedes(calls[j + 1].by, r)
             /\ Settles(calls[j].by, r)' <=> Settles(calls[j + 1].by, r)
  <2>1. PICK other : other = calls[j + 1].by
    OBVIOUS
  <2>2. other # by
    BY <1>3, <1>5, <1>6, <2>1 DEF IInv, QueueFits, CalledOnce
  <2>3. other \in Managers => /\ requests'[other] = requests[other]
                              /\ requests[other] \in Request /\ RequestFits(requests[other])
    BY <1>3, <2>2 DEF IInv, TypeOK
  <2>4. (Precedes(other, r)' <=> Precedes(other, r)) /\ (Settles(other, r)' <=> Settles(other, r))
    BY <1>4, <2>3, OrderedAlike
  <2> QED
    BY <1>6, <2>1, <2>4 DEF Precedes, Assumes, Settles
<1>7. ASSUME by \in Managers, next # Idle, calls'[i] = call
      PROVE  FALSE
  <2>1. requests[by] \in Request /\ RequestFits(requests[by])
    BY <1>2, <1>7, HeadFits
  <2>2. next.kind = "push" /\ next.sending
    BY <1>3, <1>7, <2>1, ResumedRequest
  <2>3. call.by = by /\ by # Boot
    BY <1>2, <1>7, ChargingProfilesAssumption DEF SetCall
  <2>4. Precedes(by, r)'
    BY <1>1, <1>7, <2>3 DEF Precedes, Assumes
  <2> QED
    BY <1>2, <2>2, <2>3, <2>4 DEF Precedes, Assumes
<1>8. i + 1 \in 1 .. Len(calls) /\ calls'[i] = calls[i + 1]
  BY <1>3, <1>7
<1>9. /\ profiles[r].status = "Pending" /\ \A n \in Ids : held[n] # r
      /\ \A j \in 1 .. Len(calls) : Settles(calls[j].by, r) => i + 1 <= j
  BY <1>1, <1>4, <1>6, <1>8 DEF Order
<1>10. ~Settles(by, r)
  BY <1>3, <1>5, <1>9
<1>11. ASSUME NEW j \in 1 .. Len(calls'), Settles(calls[j].by, r)'
       PROVE  i <= j
  <2>1. CASE j + 1 \in 1 .. Len(calls) /\ calls'[j] = calls[j + 1]
    <3>1. i + 1 <= j + 1
      BY <1>6, <1>9, <1>11, <2>1
    <3> QED
      BY <3>1
  <2>2. CASE j = Len(calls')
    BY <1>3, <2>2
  <2> QED
    BY <1>3, <2>1, <2>2
<1> QED
  BY <1>2, <1>9, <1>10, <1>11

\* A step that deletes rows deletes them from the table.
LEMMA DeletedRows ==
  ASSUME RowsKeep, NEW rows, Deletes(rows)
  PROVE  /\ \A r \in Table' : r \notin rows /\ profiles'[r].status = profiles[r].status
         /\ \A r \in Table : r \notin rows => r \in Table'
<1>1. \A r \in Table' : r \in Rows /\ profiles'[r].status \in Status
  BY TableShrinks DEF Table
<1>2. \A r \in Table : r \in Rows /\ profiles[r].status \in Status
  BY DEF Table, Exists
<1>3. \A r \in Rows : profiles'[r].status \in Status => r \in Table'
  BY TableShrinks DEF Table
<1> QED
  BY <1>1, <1>2, <1>3, StatusFacts DEF Deletes

LEMMA ClearDeletes ==
  ASSUME IInv, ClearProfiles
  PROVE  \E rows : Deletes(rows)
<1>1. PICK status \in {"Accepted", "Unknown"} :
        /\ calls # <<>> /\ Head(calls).method = "Clear" /\ profiles' = Written(Head(calls), status)
  BY ClearDoes
<1> QED
  BY <1>1, ClearWritten

LEMMA ReturnsKeepOrder ==
  ASSUME IInv, Order, TakeProfile \/ RefuseProfile \/ ClearProfiles \/ TimeOut
  PROVE  Order'
<1>1. \A r \in Table' : r \in Rows /\ r # 0
  BY ChargingProfilesAssumption DEF Table, Rows
<1>2. CASE TakeProfile
  <2>1. Settles(Head(calls).by, Head(calls).row)
    BY <1>2, TakeDoes, SetIsSettled
  <2> QED
    BY <1>1, <1>2, <2>1, TakeDoes, OrderReturned
<1>3. CASE RefuseProfile
  <2>1. Settles(Head(calls).by, Head(calls).row)
    BY <1>3, RefuseDoes, SetIsSettled
  <2>2. \A r \in Table' :
          /\ profiles'[r].status = profiles[r].status \/ Settles(Head(calls).by, r)
          /\ \A n \in Ids : held'[n] = r => held[n] = r \/ Settles(Head(calls).by, r)
    BY <1>1, <1>3, <2>1, RefuseDoes
  <2> QED
    BY <1>3, <2>2, RefuseDoes, OrderReturned
<1>4. CASE ClearProfiles
  <2>1. PICK rows : Deletes(rows)
    BY <1>4, ClearDeletes
  <2>2. \A r \in Table' : profiles'[r].status = profiles[r].status
    BY <1>4, <2>1, ClearDoes, DeletedRows
  <2>3. \A r \in Table' : \A n \in Ids : held'[n] = r => held[n] = r
    BY <1>1, <1>4, ClearDoes
  <2> QED
    BY <1>4, <2>2, <2>3, ClearDoes, OrderReturned
<1>5. CASE TimeOut
  <2>1. PICK rows : Deletes(rows)
    BY <1>5, TimeOutDoes
  <2>2. \A r \in Table' : profiles'[r].status = profiles[r].status
    BY <1>5, <2>1, TimeOutDoes, DeletedRows
  <2>3. Head(calls).method = "Set" => Settles(Head(calls).by, Head(calls).row)
    BY <1>5, TimeOutDoes, SetIsSettled
  <2>4. \A r \in Table' : \A n \in Ids : held'[n] = r => held[n] = r \/ Settles(Head(calls).by, r)
    BY <1>1, <1>5, <2>3, TimeOutDoes
  <2> QED
    BY <1>5, <2>2, <2>4, TimeOutDoes, OrderReturned
<1> QED
  BY <1>2, <1>3, <1>4, <1>5

LEMMA JoinsKeepOrder ==
  ASSUME IInv, Order, ProfileIdsDiffer, NEW m \in Managers,
         \/ \E slot \in Slots : Post(m, slot)
         \/ \E filter \in Filter : Clear(m, filter)
         \/ PushAll(m)
         \/ \E r \in Rows : Delete(m, r)
  PROVE  Order'
<1>1. ASSUME UNCHANGED profiles, NEW q, NEW call, Joined(m, q, call),
             \A r \in Table : ~Assumes(q, r)
      PROVE  Order'
  <2>1. RowsGrow /\ Table' = Table
    BY <1>1 DEF RowsGrow, Created, Table, Exists
  <2>2. \A r \in Table' : r \in Table /\ profiles'[r] = profiles[r] /\ ~Assumes(q, r)
    BY <1>1, <2>1
  <2> QED
    BY <1>1, <2>1, <2>2, OrderJoined
<1>2. ASSUME NEW slot \in Slots, Post(m, slot)
      PROVE  Order'
  <2>1. PICK r, q : r = lastRow + 1
                    /\ q = [kind |-> "post", row |-> r, rows |-> {}, sending |-> FALSE]
    OBVIOUS
  <2>2. RowsGrow /\ r \in Rows /\ ~Created(r) /\ \E call : Joined(m, q, call)
    BY <1>2, <2>1, PostKeeps
  <2>3. PICK call : Joined(m, q, call)
    BY <2>2
  <2>4. \A x : x # r => ~Assumes(q, x)
    BY <2>1 DEF Assumes
  <2>5. \A x \in Table' : \/ x \in Table /\ profiles'[x] = profiles[x] /\ x # r
                          \/ x = r /\ profiles'[x].status = "Pending"
    BY <1>2, <2>1, PostedIdDiffers
  <2>6. \A x \in Table' : \/ x \in Table /\ profiles'[x] = profiles[x] /\ ~Assumes(q, x)
                          \/ x \in Rows /\ ~Created(x) /\ profiles'[x].status = "Pending"
    BY <2>2, <2>4, <2>5
  <2> QED
    BY <2>1, <2>2, <2>3, <2>6, OrderJoined
<1>3. ASSUME NEW filter \in Filter, Clear(m, filter)
      PROVE  Order'
  <2>1. PICK q, call : Joined(m, q, call) /\ q.kind = "clear"
    BY <1>3, ClearKeeps
  <2>2. UNCHANGED profiles
    BY <1>3 DEF Clear
  <2> QED
    BY <1>1, <2>1, <2>2 DEF Assumes
<1>4. CASE PushAll(m)
  <2>1. PICK q, call : Joined(m, q, call) /\ q.kind = "push" /\ q.rows = Table
    BY <1>4, PushKeeps
  <2>2. UNCHANGED profiles
    BY <1>4 DEF PushAll
  <2> QED
    BY <1>1, <2>1, <2>2 DEF Assumes
<1>5. ASSUME NEW r \in Rows, Delete(m, r)
      PROVE  Order'
  <2>1. PICK q, call : /\ Joined(m, q, call)
                       /\ q = [kind |-> "delete", row |-> r, rows |-> {}, sending |-> FALSE]
    BY <1>5, DeleteKeeps
  <2>2. UNCHANGED profiles /\ r \in Table
    BY <1>5 DEF Delete, Table
  <2>3. \A x \in Table : ~Assumes(q, x)
    BY <2>1, <2>2 DEF Assumes, ProfileIdsDiffer
  <2> QED
    BY <1>1, <2>1, <2>2, <2>3
<1> QED
  BY <1>2, <1>3, <1>4, <1>5

\* A step that changes nobody's turn.
LEMMA OrderAside ==
  ASSUME IInv, Order, RowsKeep, UNCHANGED <<requests, calls, held>>,
         \A r \in Table' : profiles'[r].status = profiles[r].status
  PROVE  Order'
<1>1. Table' \subseteq Table /\ RowsGrow
  BY TableShrinks
<1>2. ASSUME NEW by, NEW r \in Table'
      PROVE  (Precedes(by, r)' <=> Precedes(by, r)) /\ (Settles(by, r)' <=> Settles(by, r))
  BY <1>1, TableIsCreated, OrderedAlike DEF IInv, TypeOK
<1>3. SUFFICES ASSUME NEW i \in 1 .. Len(calls), NEW r \in Table', Precedes(calls[i].by, r)'
               PROVE  /\ profiles'[r].status = "Pending"
                      /\ \A n \in Ids : held[n] # r
                      /\ \A j \in 1 .. Len(calls) : Settles(calls[j].by, r)' => i <= j
  BY DEF Order
<1>4. ASSUME NEW j \in 1 .. Len(calls)
      PROVE  /\ Precedes(calls[j].by, r)' <=> Precedes(calls[j].by, r)
             /\ Settles(calls[j].by, r)' <=> Settles(calls[j].by, r)
  <2>1. PICK by : by = calls[j].by
    OBVIOUS
  <2> QED
    BY <1>2, <2>1
<1> QED
  BY <1>1, <1>3, <1>4 DEF Order

LEMMA InitOrder == Init => ProfileIdsDiffer /\ Order
<1> SUFFICES ASSUME Init PROVE ProfileIdsDiffer /\ Order
  OBVIOUS
<1>1. Table = {}
  BY StatusFacts DEF Init, NoRow, Table, Exists
<1> QED
  BY <1>1 DEF ProfileIdsDiffer, Order

LEMMA OrderKeeps ==
  IInv /\ ProfileIdsDiffer /\ Order /\ [Next]_vars => ProfileIdsDiffer' /\ Order'
<1> SUFFICES ASSUME IInv, ProfileIdsDiffer, Order, [Next]_vars
             PROVE  ProfileIdsDiffer' /\ Order'
  OBVIOUS
<1>0. profiles \in [Rows -> Row]
  BY DEF IInv, TypeOK
<1>1. ASSUME NEW m \in Managers,
             \/ \E slot \in Slots : Post(m, slot)
             \/ \E filter \in Filter : Clear(m, filter)
             \/ PushAll(m)
             \/ \E r \in Rows : Delete(m, r)
      PROVE  ProfileIdsDiffer' /\ Order'
  <2>1. CASE \E slot \in Slots : Post(m, slot)
    BY <1>1, <2>1, PostedIdDiffers, JoinsKeepOrder
  <2>2. CASE UNCHANGED profiles
    BY <1>0, <1>1, <2>2, SameRowsKeep, IdsKeepDiffering, JoinsKeepOrder
  <2> QED
    BY <1>1, <2>1, <2>2 DEF Clear, PushAll, Delete
<1>2. ASSUME NEW r \in Rows, DeleteRejected(r)
      PROVE  ProfileIdsDiffer' /\ Order'
  BY <1>2, DeleteRejectedDoes, DeletedRows, IdsKeepDiffering, OrderAside
<1>3. CASE BootClear
  <2>1. UNCHANGED profiles /\ Table = {}
    BY <1>3 DEF BootClear, NoManagedProfile
  <2>2. Table' = {}
    BY <2>1 DEF Table, Exists
  <2> QED
    BY <2>2 DEF ProfileIdsDiffer, Order
<1>4. CASE TakeProfile \/ RefuseProfile \/ ClearProfiles \/ TimeOut
  <2>1. RowsKeep
    BY <1>4, TakeDoes, RefuseDoes, ClearDoes, TimeOutDoes
  <2> QED
    BY <1>4, <2>1, IdsKeepDiffering, ReturnsKeepOrder
<1>5. ASSUME RowsKeep, calls' = <<>>
      PROVE  ProfileIdsDiffer' /\ Order'
  BY <1>5, IdsKeepDiffering, EmptySeq DEF Order
<1>6. CASE LoseConnection \/ Restart
  BY <1>5, <1>6, StopDoes
<1>7. ASSUME NEW changed \in BOOLEAN, Connect(changed)
      PROVE  ProfileIdsDiffer' /\ Order'
  BY <1>5, <1>7, ConnectDoes
<1>8. CASE ForgetProfiles
  BY <1>5, <1>8, ForgetDoes
<1>9. CASE UNCHANGED vars
  <2>1. RowsKeep /\ UNCHANGED <<requests, calls, held, profiles>>
    BY <1>0, <1>9, SameRowsKeep DEF vars
  <2> QED
    BY <2>1, IdsKeepDiffering, OrderAside
<1> QED
  BY <1>1, <1>2, <1>3, <1>4, <1>6, <1>7, <1>8, <1>9 DEF Next

LEMMA Ordered == Spec => [](ProfileIdsDiffer /\ Order)
<1>1. Init => ProfileIdsDiffer /\ Order
  BY InitOrder
<1>2. IInv /\ (ProfileIdsDiffer /\ Order) /\ [Next]_vars => (ProfileIdsDiffer /\ Order)'
  BY OrderKeeps
<1> QED
  BY <1>1, <1>2, Invariance, PTL DEF Spec

\* Two managed profiles never have the same profile_id, however the requests
\* that create and delete them overlap (getNextProfileId).
THEOREM ProfileIdsAlwaysDiffer == Spec => []ProfileIdsDiffer
BY Ordered, PTL

LEMMA BootSparesStep ==
  ASSUME IInv, Order, [Next]_vars, calls # <<>>, Head(calls).by = Boot,
         NEW n \in Ids, held[n] # 0, held'[n] = 0
  PROVE  held[n] \notin Table
<1>1. Head(calls) = calls[1] /\ 1 \in 1 .. Len(calls)
  BY HeadFits
<1>2. ASSUME NEW r \in Table
      PROVE  Precedes(calls[1].by, r)
  BY <1>1 DEF Precedes, Assumes
<1> QED
  BY <1>1, <1>2 DEF Order

\* The clearing of the boot sequence takes no managed profile from the charge
\* point, however late it arrives: a row that was inserted after it was decided
\* is sent behind it (step 2/5 of the BootNotification).
THEOREM BootAlwaysSparesManaged == Spec => BootSparesManaged
<1>1. IInv /\ (ProfileIdsDiffer /\ Order) /\ [Next]_vars =>
        [calls # <<>> /\ Head(calls).by = Boot =>
           \A n \in Ids : held[n] # 0 /\ held'[n] = 0 => held[n] \notin Table]_vars
  BY BootSparesStep
<1> QED
  BY <1>1, Invariance, Ordered, PTL DEF Spec, BootSparesManaged

-----------------------------------------------------------------------------
(* The table is what the charge point holds, with one push-all at a time.  *)

OnePush == \A m, n \in Pushers : m = n

PushersPush == \A m \in Managers : requests[m].kind = "push" => m \in Pushers

LEMMA OwedBy ==
  ASSUME NEW r
  PROVE  r \in Owed <=> \E m \in Managers : requests[m].sending /\ r \in requests[m].rows
BY DEF Owed

LEMMA OwedByNext ==
  ASSUME NEW r
  PROVE  r \in Owed' <=> \E m \in Managers : requests'[m].sending /\ r \in requests'[m].rows
BY DEF Owed

\* What is owed after the first call has returned.
LEMMA OwedReturned ==
  ASSUME IInv, calls # <<>>, NEW ok \in BOOLEAN, Returned(Head(calls), ok)
  PROVE  LET call == Head(calls)
             q == requests[call.by] IN
         /\ \A r \in Owed : r \in Owed' \/ (call.method = "Set" /\ r = call.row)
         /\ \A r \in Owed' :
              \/ r \in Owed
              \/ /\ call.by \in Managers /\ q.kind = "push" /\ ~q.sending /\ ok
                 /\ call.method = "Clear" /\ call.filter = Everything /\ r \in q.rows
         /\ \A r \in Owed' : \A m \in Managers : requests'[m].sending /\ r \in requests'[m].rows =>
              \/ m # call.by
              \/ call.method = "Set" => r # call.row
         /\ call.by \in Managers /\ q.kind = "push" /\ ~q.sending /\ ok => q.rows \subseteq Owed'
         /\ \A m \in Managers : requests'[m].kind # "idle" =>
              /\ requests'[m].kind = requests[m].kind /\ requests'[m].row = requests[m].row
              /\ m = call.by => requests[m].kind = "push"
<1>1. PICK call, by, q, next :
        call = Head(calls) /\ by = call.by /\ q = requests[by] /\ next = requests'[by]
  OBVIOUS
<1>2. /\ \A m \in Managers : m # by => requests'[m] = requests[m]
      /\ by \in Managers => next = Resumed(q, ok)
  BY <1>1, ReturnedQueue
<1>3. /\ CallFits(call) /\ call \in Call
      /\ by \in Managers => q \in Request /\ RequestFits(q) /\ RequestCall(call, q)
  BY <1>1, HeadFits DEF CallFits
<1>4. ASSUME by \in Managers
      PROVE  /\ next # Idle =>
                  /\ q.kind = "push" /\ next.kind = "push" /\ next.sending
                  /\ next.row = q.row /\ next.rows \subseteq q.rows
                  /\ q.sending => NextRow(q.rows) \notin next.rows
                  /\ ~q.sending => ok
             /\ q.sending => q.rows \ {NextRow(q.rows)} \subseteq next.rows
             /\ q.kind = "push" /\ ~q.sending /\ ok => next.rows = q.rows
             /\ q.sending => call.method = "Set" /\ call.row = NextRow(q.rows)
             /\ call.method = "Set" /\ q.kind = "push" => q.sending
             /\ q.kind = "push" /\ ~q.sending => call.method = "Clear" /\ call.filter = Everything
             /\ next = Idle => next.kind = "idle" /\ ~next.sending /\ next.rows = {}
             /\ q.sending => q.kind = "push"
  <2>1. next = Resumed(q, ok) /\ q \in Request /\ RequestFits(q) /\ RequestCall(call, q)
    BY <1>2, <1>3, <1>4
  <2>2. /\ next # Idle =>
             /\ q.kind = "push" /\ next.kind = "push" /\ next.sending
             /\ next.row = q.row /\ next.rows \subseteq q.rows
             /\ q.sending => NextRow(q.rows) \notin next.rows
             /\ ~q.sending => ok
        /\ q.sending => q.rows \ {NextRow(q.rows)} \subseteq next.rows
        /\ q.kind = "push" /\ ~q.sending /\ ok => next.rows = q.rows
    BY <2>1, ResumedRequest
  <2>3. call.method \in {"Set", "Clear"}
    BY <1>3 DEF Call
  <2>4. next = Idle => next.kind = "idle" /\ ~next.sending /\ next.rows = {}
    BY IdleIsRequest
  <2> QED
    BY <2>1, <2>2, <2>3, <2>4 DEF RequestCall, RequestFits
<1>5. ASSUME NEW r \in Owed
      PROVE  r \in Owed' \/ (call.method = "Set" /\ r = call.row)
  <2>1. PICK m \in Managers : requests[m].sending /\ r \in requests[m].rows
    BY OwedBy
  <2>2. CASE m # by
    BY <1>2, <2>1, <2>2, OwedByNext
  <2>3. CASE m = by
    <3>1. r \in next.rows \/ r = call.row
      BY <1>1, <1>4, <2>1, <2>3
    <3>2. call.method = "Set"
      BY <1>1, <1>4, <2>1, <2>3
    <3>3. r \in next.rows => next.sending
      BY <1>4, <2>3
    <3> QED
      BY <1>1, <2>3, <3>1, <3>2, <3>3, OwedByNext
  <2> QED
    BY <2>2, <2>3
<1>6. ASSUME NEW r \in Owed'
      PROVE  \/ r \in Owed
             \/ /\ by \in Managers /\ q.kind = "push" /\ ~q.sending /\ ok
                /\ call.method = "Clear" /\ call.filter = Everything /\ r \in q.rows
  <2>1. PICK m \in Managers : requests'[m].sending /\ r \in requests'[m].rows
    BY OwedByNext
  <2>2. CASE m # by
    BY <1>2, <2>1, <2>2, OwedBy
  <2>3. CASE m = by
    <3>1. q.kind = "push" /\ r \in q.rows /\ (~q.sending => ok)
      BY <1>1, <1>4, <2>1, <2>3
    <3> QED
      BY <1>1, <1>4, <2>3, <3>1, OwedBy
  <2> QED
    BY <2>2, <2>3
<1>7. ASSUME NEW m \in Managers, NEW r, requests'[m].sending, r \in requests'[m].rows
      PROVE  m # by \/ (call.method = "Set" => r # call.row)
  BY <1>1, <1>4, <1>7
<1>8. by \in Managers /\ q.kind = "push" /\ ~q.sending /\ ok => q.rows \subseteq Owed'
  <2>1. SUFFICES ASSUME by \in Managers, q.kind = "push", ~q.sending, ok, NEW r \in q.rows
                 PROVE  r \in Owed'
    OBVIOUS
  <2>2. r \in next.rows /\ next.sending
    BY <1>4, <2>1
  <2> QED
    BY <1>1, <2>1, <2>2, OwedByNext
<1>9. ASSUME NEW m \in Managers, requests'[m].kind # "idle"
      PROVE  /\ requests'[m].kind = requests[m].kind /\ requests'[m].row = requests[m].row
             /\ m = by => requests[m].kind = "push"
  BY <1>1, <1>2, <1>4, <1>9
<1> QED
  BY <1>1, <1>5, <1>6, <1>7, <1>8, <1>9

\* A request that joins the queue owes nothing.
LEMMA OwedJoined ==
  ASSUME IInv, NEW m \in Managers, NEW q, NEW call, Joined(m, q, call), ~q.sending
  PROVE  /\ \A r : r \in Owed' <=> r \in Owed
         /\ requests'[m] = q /\ \A k \in Managers : k # m => requests'[k] = requests[k]
<1>1. /\ requests'[m] = q /\ requests[m] = Idle
      /\ \A k \in Managers : k # m => requests'[k] = requests[k]
  BY DEF Joined, IInv, TypeOK
<1>2. ASSUME NEW r
      PROVE  r \in Owed' <=> r \in Owed
  BY <1>1, IdleIsRequest, OwedBy, OwedByNext
<1> QED
  BY <1>1, <1>2

LEMMA IdleOwesNothing ==
  ASSUME IInv, calls = <<>>
  PROVE  /\ \A r : r \notin Owed
         /\ \A m \in Managers : requests[m] = Idle
<1>1. Len(calls) = 0
  BY EmptySeq
<1>2. \A m \in Managers : requests[m] = Idle
  BY <1>1 DEF IInv, QueueFits
<1> QED
  BY <1>2, IdleIsRequest, OwedBy

\* The push-all that sends a profile is the only one that owes any.
LEMMA OwedIsFreeReturned ==
  ASSUME IInv, Order, OwedIsFree, PushersPush, OnePush,
         TakeProfile \/ RefuseProfile \/ ClearProfiles \/ TimeOut
  PROVE  OwedIsFree' /\ PushersPush'
<1>1. PICK call, by, q : call = Head(calls) /\ by = call.by /\ q = requests[by]
  OBVIOUS
<1>2. PICK ok \in BOOLEAN : calls # <<>> /\ Returned(call, ok)
  BY <1>1, TakeDoes, RefuseDoes, ClearDoes, TimeOutDoes
<1>3. RowsKeep
  BY TakeDoes, RefuseDoes, ClearDoes, TimeOutDoes
<1>4. ASSUME NEW m \in Managers, requests'[m].kind # "idle"
      PROVE  /\ requests'[m].kind = requests[m].kind /\ requests'[m].row = requests[m].row
             /\ m = by => requests[m].kind = "push"
  BY <1>1, <1>2, <1>4, OwedReturned
<1>5. PushersPush'
  BY <1>4 DEF PushersPush
<1>6. ASSUME NEW r \in Owed', r \in Table'
      PROVE  /\ r \in Table /\ r \in Rows
             /\ \/ r \in Owed
                \/ /\ by \in Managers /\ q.kind = "push" /\ ~q.sending /\ ok
                   /\ call.method = "Clear" /\ call.filter = Everything /\ r \in q.rows
  BY <1>1, <1>2, <1>3, <1>6, OwedReturned, TableShrinks, TableIsCreated
<1>7. ASSUME NEW r \in Owed', r \in Table', NEW m \in Managers, requests'[m].kind = "post",
             requests'[m].row = r
      PROVE  FALSE
  <2>1. requests[m].kind = "post" /\ requests[m].row = r /\ m # by
    BY <1>4, <1>7
  <2>2. r \in Owed /\ r \in Table => FALSE
    BY <2>1 DEF OwedIsFree
  <2>3. by \in Managers /\ r \in q.rows /\ r \in Table
    BY <1>6, <1>7, <2>2
  <2>4. PICK i \in 1 .. Len(calls) : calls[i].by = m
    BY <2>1, IdleIsRequest DEF IInv, QueueFits
  <2>5. 1 \in 1 .. Len(calls) /\ calls[1].by = by /\ Len(calls) \in Nat
    BY <1>1, <1>2, HeadFits
  <2>6. Precedes(calls[i].by, r) /\ Settles(calls[1].by, r)
    BY <1>1, <2>1, <2>3, <2>4, <2>5 DEF Precedes, Assumes, Settles
  <2>7. i <= 1
    BY <2>3, <2>5, <2>6 DEF Order
  <2> QED
    BY <2>1, <2>4, <2>5, <2>7
<1>8. ASSUME NEW r \in Owed', r \in Table', NEW n \in Ids, held'[n] = r
      PROVE  FALSE
  <2>1. r \in Table /\ r \in Rows /\ r # 0
    BY <1>6, <1>8, TableIsCreated
  <2>2. CASE r \in Owed /\ held[n] # r
    <3>1. call.method = "Set" /\ r = call.row
      BY <1>1, <1>8, <2>1, <2>2, TakeDoes, RefuseDoes, ClearDoes, TimeOutDoes
    <3>2. /\ by \in Managers
          /\ \/ q.kind = "post" /\ q.row = r
             \/ q.kind = "push" /\ q.sending /\ r \in q.rows
      BY <1>1, <1>2, <3>1, SetIsSettled
    <3>3. q.kind # "post"
      BY <1>1, <2>1, <2>2, <3>2 DEF OwedIsFree
    <3>4. PICK m \in Managers : requests'[m].sending /\ r \in requests'[m].rows
      BY <1>8, OwedByNext
    <3>5. m # by
      BY <1>1, <1>2, <1>8, <3>1, <3>4, OwedReturned
    <3>6. requests[m].sending /\ requests[m].kind = "push"
      <4>1. requests'[m] = requests[m]
        BY <1>1, <1>2, <3>5, ReturnedQueue
      <4> QED
        BY <3>4, <4>1 DEF IInv, RequestFits
    <3> QED
      BY <1>1, <3>2, <3>3, <3>5, <3>6 DEF PushersPush, OnePush
  <2>3. CASE r \in Owed /\ held[n] = r
    BY <2>1, <2>3 DEF OwedIsFree
  <2>4. CASE call.method = "Clear" /\ call.filter = Everything /\ ok /\ by \in Managers /\ r \in q.rows
             /\ r \notin Owed
    <3>1. CASE held[n] = r /\ ClearProfiles
      <4>1. n \in Cleared(call.filter)
        BY <2>1, <2>4, <3>1 DEF Cleared, Matches, Everything
      <4> QED
        BY <1>1, <1>8, <2>1, <3>1, <4>1, ClearDoes
    <3>2. CASE held[n] # r
      BY <1>1, <1>8, <2>1, <2>4, <3>2, TakeDoes, RefuseDoes, ClearDoes, TimeOutDoes
    <3>3. CASE TimeOut
      <4>1. Returned(call, FALSE)
        BY <1>1, <3>3, TimeOutDoes
      <4>2. r \in Owed
        BY <1>1, <1>2, <1>8, <4>1, OwedReturned
      <4> QED
        BY <2>4, <4>2
    <3>4. ~TakeProfile /\ ~RefuseProfile
      BY <1>1, <2>4, TakeDoes, RefuseDoes
    <3> QED
      BY <3>1, <3>2, <3>3, <3>4
  <2> QED
    BY <1>6, <1>8, <2>2, <2>3, <2>4
<1> QED
  BY <1>5, <1>7, <1>8 DEF OwedIsFree

LEMMA OwedIsFreeKeeps ==
  ASSUME IInv, ProfileIdsDiffer, Order, OwedIsFree, PushersPush, OnePush, [Next]_vars
  PROVE  OwedIsFree' /\ PushersPush'
<1>1. ASSUME NEW m \in Managers, NEW q, NEW call, Joined(m, q, call), ~q.sending,
             q.kind = "push" => m \in Pushers, UNCHANGED profiles, q.kind # "post"
      PROVE  OwedIsFree' /\ PushersPush'
  <2>1. /\ \A r : r \in Owed' <=> r \in Owed
        /\ requests'[m] = q /\ \A k \in Managers : k # m => requests'[k] = requests[k]
    BY <1>1, OwedJoined
  <2>2. Table' = Table /\ UNCHANGED held
    BY <1>1 DEF Table, Exists, Joined
  <2> QED
    BY <1>1, <2>1, <2>2 DEF OwedIsFree, PushersPush
<1>2. ASSUME NEW m \in Managers, NEW slot \in Slots, Post(m, slot)
      PROVE  OwedIsFree' /\ PushersPush'
  <2>1. PICK r, q : r = lastRow + 1
                    /\ q = [kind |-> "post", row |-> r, rows |-> {}, sending |-> FALSE]
    OBVIOUS
  <2>2. ~Created(r) /\ \E call : Joined(m, q, call)
    BY <1>2, <2>1, PostKeeps
  <2>3. PICK call : Joined(m, q, call)
    BY <2>2
  <2>4. /\ \A x : x \in Owed' <=> x \in Owed
        /\ requests'[m] = q /\ \A k \in Managers : k # m => requests'[k] = requests[k]
    BY <2>1, <2>3, OwedJoined
  <2>5. ASSUME NEW x \in Owed', x \in Table'
        PROVE  x # r /\ x \in Table /\ x \in Owed
    <3>1. x \in Owed
      BY <2>4
    <3>2. Created(x)
      BY <3>1, OwedBy DEF IInv, RequestFits
    <3> QED
      BY <1>2, <2>1, <2>2, <2>5, <3>1, <3>2, PostedIdDiffers
  <2>6. UNCHANGED held
    BY <2>3 DEF Joined
  <2>7. OwedIsFree'
    BY <2>1, <2>4, <2>5, <2>6 DEF OwedIsFree
  <2> QED
    BY <2>1, <2>4, <2>7 DEF PushersPush
<1>3. ASSUME NEW m \in Managers, NEW filter \in Filter, Clear(m, filter)
      PROVE  OwedIsFree' /\ PushersPush'
  <2>1. PICK q, call : Joined(m, q, call) /\ q.kind = "clear" /\ ~q.sending
    BY <1>3, ClearKeeps
  <2> QED
    BY <1>1, <1>3, <2>1 DEF Clear
<1>4. ASSUME NEW m \in Managers, PushAll(m)
      PROVE  OwedIsFree' /\ PushersPush'
  <2>1. PICK q, call : Joined(m, q, call) /\ q.kind = "push" /\ ~q.sending
    BY <1>4, PushKeeps
  <2> QED
    BY <1>1, <1>4, <2>1 DEF PushAll
<1>5. ASSUME NEW m \in Managers, NEW r \in Rows, Delete(m, r)
      PROVE  OwedIsFree' /\ PushersPush'
  <2>1. PICK q, call : /\ Joined(m, q, call)
                       /\ q = [kind |-> "delete", row |-> r, rows |-> {}, sending |-> FALSE]
    BY <1>5, DeleteKeeps
  <2>2. q.kind = "delete" /\ ~q.sending
    BY <2>1
  <2> QED
    BY <1>1, <1>5, <2>1, <2>2 DEF Delete
<1>6. ASSUME RowsKeep, UNCHANGED requests, \A n \in Ids : held'[n] # 0 => held'[n] = held[n]
      PROVE  OwedIsFree' /\ PushersPush'
  <2>1. Table' \subseteq Table /\ \A r \in Table : r # 0
    BY <1>6, TableShrinks, TableIsCreated
  <2>2. Owed' = Owed
    BY <1>6 DEF Owed
  <2> QED
    BY <1>6, <2>1, <2>2 DEF OwedIsFree, PushersPush
<1>7. ASSUME NEW r \in Rows, DeleteRejected(r)
      PROVE  OwedIsFree' /\ PushersPush'
  BY <1>6, <1>7, DeleteRejectedDoes
<1>8. CASE BootClear
  BY <1>6, <1>8, SameRowsKeep DEF BootClear, IInv, TypeOK
<1>9. CASE LoseConnection \/ Restart
  <2>1. \A m \in Managers : requests'[m] = Idle
    BY <1>9, StopDoes
  <2>2. \A r : r \notin Owed'
    BY <2>1, IdleIsRequest, OwedByNext
  <2> QED
    BY <2>1, <2>2, IdleIsRequest DEF OwedIsFree, PushersPush
<1>10. ASSUME NEW changed \in BOOLEAN, Connect(changed)
       PROVE  OwedIsFree' /\ PushersPush'
  BY <1>6, <1>10, ConnectDoes
<1>11. CASE ForgetProfiles
  BY <1>6, <1>11, ForgetDoes
<1>12. CASE UNCHANGED vars
  BY <1>6, <1>12, SameRowsKeep DEF vars, IInv, TypeOK
<1> QED
  BY <1>2, <1>3, <1>4, <1>5, <1>7, <1>8, <1>9, <1>10, <1>11, <1>12, OwedIsFreeReturned DEF Next

\* An Accepted profile is held, and what is held is Accepted.
AcceptedIsHeld ==
  \A r \in Table : profiles[r].status = "Accepted" =>
    held[profiles[r].id] = r \/ profiles[r].id \in doubt \/ r \in Owed

HeldIsAccepted ==
  \A n \in Ids : held[n] # 0 /\ n \notin doubt => profiles[held[n]].status = "Accepted"

LEMMA TwoParts ==
  ASSUME IInv
  PROVE  TableIsTheStations <=> AcceptedIsHeld /\ HeldIsAccepted
BY DEF IInv, HeldFits, TableIsTheStations, AcceptedIsHeld, HeldIsAccepted

\* A call joins the queue.
LEMMA StationsJoined ==
  ASSUME IInv, TableIsTheStations, NEW m \in Managers, NEW q, NEW call, Joined(m, q, call), ~q.sending,
         RowsGrow, \A r \in Rows : Created(r) => profiles'[r] = profiles[r],
         \A r \in Table' : r \in Table \/ profiles'[r].status = "Pending"
  PROVE  TableIsTheStations'
<1>1. UNCHANGED <<held, doubt>> /\ \A r : r \in Owed' <=> r \in Owed
  BY OwedJoined DEF Joined
<1>2. \A r \in Table : profiles'[r] = profiles[r]
  BY TableIsCreated
<1>3. ASSUME NEW n \in Ids, held[n] # 0
      PROVE  profiles'[held[n]] = profiles[held[n]]
  BY <1>3 DEF IInv, TypeOK, HeldFits
<1> QED
  BY <1>1, <1>2, <1>3, StatusFacts DEF TableIsTheStations

LEMMA StationsJoin ==
  ASSUME IInv, ProfileIdsDiffer, TableIsTheStations, NEW m \in Managers,
         \/ \E slot \in Slots : Post(m, slot)
         \/ \E filter \in Filter : Clear(m, filter)
         \/ PushAll(m)
         \/ \E r \in Rows : Delete(m, r)
  PROVE  TableIsTheStations'
<1>1. ASSUME NEW q, NEW call, Joined(m, q, call), ~q.sending, UNCHANGED profiles
      PROVE  TableIsTheStations'
  <2>1. RowsGrow /\ Table' = Table
    BY <1>1 DEF RowsGrow, Created, Table, Exists
  <2> QED
    BY <1>1, <2>1, StationsJoined
<1>2. ASSUME NEW slot \in Slots, Post(m, slot)
      PROVE  TableIsTheStations'
  <2>1. PICK r, q : r = lastRow + 1
                    /\ q = [kind |-> "post", row |-> r, rows |-> {}, sending |-> FALSE]
    OBVIOUS
  <2>2. RowsGrow /\ r \in Rows /\ ~Created(r) /\ \E call : Joined(m, q, call)
    BY <1>2, <2>1, PostKeeps
  <2>3. PICK call : Joined(m, q, call)
    BY <2>2
  <2>4. PICK row : profiles' = [profiles EXCEPT ![r] = row]
    BY <1>2, <2>1, PostKeeps
  <2>5. \A x \in Rows : Created(x) => profiles'[x] = profiles[x]
    BY <2>2, <2>4 DEF IInv, TypeOK
  <2>6. \A x \in Table' : x \in Table \/ profiles'[x].status = "Pending"
    BY <1>2, PostedIdDiffers
  <2> QED
    BY <2>1, <2>2, <2>3, <2>5, <2>6, StationsJoined
<1>3. ASSUME NEW filter \in Filter, Clear(m, filter)
      PROVE  TableIsTheStations'
  <2>1. PICK q, call : Joined(m, q, call) /\ ~q.sending
    BY <1>3, ClearKeeps
  <2> QED
    BY <1>1, <1>3, <2>1 DEF Clear
<1>4. CASE PushAll(m)
  <2>1. PICK q, call : Joined(m, q, call) /\ ~q.sending
    BY <1>4, PushKeeps
  <2> QED
    BY <1>1, <1>4, <2>1 DEF PushAll
<1>5. ASSUME NEW r \in Rows, Delete(m, r)
      PROVE  TableIsTheStations'
  <2>1. PICK q, call : /\ Joined(m, q, call)
                       /\ q = [kind |-> "delete", row |-> r, rows |-> {}, sending |-> FALSE]
    BY <1>5, DeleteKeeps
  <2>2. ~q.sending
    BY <2>1
  <2> QED
    BY <1>1, <1>5, <2>1, <2>2 DEF Delete
<1> QED
  BY <1>2, <1>3, <1>4, <1>5

\* The charge point takes a profile: whatever it had under that id is replaced.
LEMMA StationsTake ==
  ASSUME IInv, ProfileIdsDiffer, TableIsTheStations, TakeProfile
  PROVE  AcceptedIsHeld' /\ HeldIsAccepted'
<1>1. PICK call, x, i : call = Head(calls) /\ x = call.row /\ i = call.filter.id
  OBVIOUS
<1>2. /\ IInv' /\ RowsKeep /\ calls # <<>> /\ call.method = "Set" /\ Returned(call, TRUE)
      /\ \A n \in Ids : held'[n] = IF n = i THEN x ELSE held[n]
      /\ \A q \in Rows : profiles'[q].status = IF q = x /\ Exists(q) THEN "Accepted"
                                               ELSE profiles[q].status
  BY <1>1, TakeDoes
<1>3. x \in Rows /\ i = profiles[x].id /\ i \in Ids
  BY <1>1, <1>2, SetIsSettled
<1>4. doubt' = IF Exists(x) THEN doubt \ {i} ELSE doubt \cup {i}
  BY <1>1 DEF TakeProfile
<1>5. \A r \in Owed : r \in Owed' \/ r = x
  BY <1>1, <1>2, OwedReturned
<1>6. AcceptedIsHeld'
  <2>1. SUFFICES ASSUME NEW r \in Table', profiles'[r].status = "Accepted"
                 PROVE  held'[profiles'[r].id] = r \/ profiles'[r].id \in doubt' \/ r \in Owed'
    BY DEF AcceptedIsHeld
  <2>2. r \in Table /\ r \in Rows /\ profiles'[r].id = profiles[r].id
    BY <1>2, TableShrinks, TableIsCreated DEF RowsKeep
  <2>3. profiles[r].id \in Ids
    BY <2>2, TableIsCreated DEF IInv, RowsFit
  <2>4. CASE r = x
    BY <1>2, <1>3, <2>2, <2>4
  <2>5. CASE r # x
    <3>1. \/ held[profiles[r].id] = r \/ profiles[r].id \in doubt \/ r \in Owed
      BY <1>2, <2>1, <2>2, <2>5 DEF TableIsTheStations
    <3>2. Exists(x) => profiles[r].id # i
      BY <1>3, <2>2, <2>5 DEF ProfileIdsDiffer, Table
    <3> QED
      BY <1>2, <1>4, <1>5, <2>2, <2>3, <2>5, <3>1, <3>2
  <2> QED
    BY <2>4, <2>5
<1>7. HeldIsAccepted'
  <2>1. SUFFICES ASSUME NEW n \in Ids, held'[n] # 0, n \notin doubt'
                 PROVE  profiles'[held'[n]].status = "Accepted"
    BY DEF HeldIsAccepted, Ids
  <2>2. CASE n = i
    BY <1>2, <1>3, <1>4, <2>1, <2>2
  <2>3. CASE n # i
    <3>1. held'[n] = held[n] /\ n \notin doubt /\ held[n] \in Rows
      BY <1>2, <1>4, <2>1, <2>3 DEF IInv, TypeOK
    <3>2. profiles[held[n]].status = "Accepted"
      BY <2>1, <3>1 DEF TableIsTheStations
    <3> QED
      BY <1>2, <3>1, <3>2
  <2> QED
    BY <2>2, <2>3
<1> QED
  BY <1>6, <1>7

\* The charge point refuses a profile: it had nothing of that row.
LEMMA StationsRefuse ==
  ASSUME IInv, Order, OwedIsFree, TableIsTheStations, RefuseProfile
  PROVE  AcceptedIsHeld' /\ HeldIsAccepted'
<1>1. PICK call, x : call = Head(calls) /\ x = call.row
  OBVIOUS
<1>2. PICK status \in Refusals :
        \A q \in Rows : profiles'[q].status = IF q = x /\ Exists(q) THEN status ELSE profiles[q].status
  BY <1>1, RefuseDoes
<1>3. /\ RowsKeep /\ calls # <<>> /\ call.method = "Set" /\ Returned(call, TRUE)
      /\ UNCHANGED <<held, doubt>>
  BY <1>1, RefuseDoes
<1>4. \A r \in Owed : r \in Owed' \/ r = x
  BY <1>1, <1>3, OwedReturned
<1>5. ASSUME Exists(x), NEW n \in Ids
      PROVE  held[n] # x
  <2>1. /\ call.by \in Managers /\ x \in Rows
        /\ \/ requests[call.by].kind = "post" /\ requests[call.by].row = x
           \/ requests[call.by].sending /\ x \in requests[call.by].rows
    BY <1>1, <1>3, SetIsSettled
  <2>2. x \in Table
    BY <1>5, <2>1 DEF Table
  <2>3. CASE requests[call.by].kind = "post" /\ requests[call.by].row = x
    <3>1. 1 \in 1 .. Len(calls) /\ calls[1] = call
      BY <1>1, <1>3, HeadFits
    <3>2. Precedes(calls[1].by, x)
      BY <2>1, <2>3, <3>1 DEF Precedes, Assumes
    <3> QED
      BY <2>2, <3>1, <3>2 DEF Order
  <2>4. CASE requests[call.by].sending /\ x \in requests[call.by].rows
    <3>1. x \in Owed
      BY <2>1, <2>4, OwedBy
    <3> QED
      BY <2>2, <3>1 DEF OwedIsFree
  <2> QED
    BY <2>1, <2>3, <2>4
<1>6. AcceptedIsHeld'
  <2>1. SUFFICES ASSUME NEW r \in Table', profiles'[r].status = "Accepted"
                 PROVE  held'[profiles'[r].id] = r \/ profiles'[r].id \in doubt' \/ r \in Owed'
    BY DEF AcceptedIsHeld
  <2>2. r \in Table /\ r \in Rows /\ profiles'[r].id = profiles[r].id /\ Exists(r)
    BY <1>3, TableShrinks, TableIsCreated DEF RowsKeep, Table
  <2>3. r # x /\ profiles[r].status = "Accepted"
    BY <1>2, <2>1, <2>2, StatusFacts
  <2> QED
    BY <1>3, <1>4, <2>2, <2>3 DEF TableIsTheStations
<1>7. HeldIsAccepted'
  <2>1. SUFFICES ASSUME NEW n \in Ids, held[n] # 0, n \notin doubt
                 PROVE  profiles'[held[n]].status = "Accepted"
    BY <1>3 DEF HeldIsAccepted, Ids
  <2>2. held[n] \in Rows /\ profiles[held[n]].status = "Accepted"
    BY <2>1 DEF TableIsTheStations, IInv, TypeOK
  <2> QED
    BY <1>2, <1>5, <2>2
<1> QED
  BY <1>6, <1>7

\* A profile of the table that is cleared, and not deleted, is sent again.
LEMMA ClearedIsOwed ==
  ASSUME IInv, ClearProfiles, NEW r \in Table', ~Precedes(Head(calls).by, r),
         NEW n \in Cleared(Head(calls).filter), held[n] = r
  PROVE  r \in Owed'
<1>1. PICK call, by, q : call = Head(calls) /\ by = call.by /\ q = requests[by]
  OBVIOUS
<1>2. RowsKeep /\ calls # <<>> /\ call.method = "Clear" /\ Returned(call, TRUE)
      /\ profiles' = Written(call, "Accepted")
  BY <1>1, ClearDoes
<1>3. \/ by \in Managers /\ q.kind = "clear" /\ Deletes({x \in Table : Matches(x, call.filter)})
      \/ by \in Managers /\ q.kind = "delete" /\ Deletes({q.row} \cap Table)
      \/ by \in Managers => q.kind \notin {"clear", "delete"}
  BY <1>1, <1>2, ClearWritten
<1>4. /\ by \in Managers => q \in Request /\ RequestFits(q) /\ RequestCall(call, q)
      /\ by \notin Managers => by = Boot
  BY <1>1, <1>2, HeadFits DEF CallFits
<1>5. r \in Table /\ r \in Rows /\ profiles'[r].status # "gone"
  BY <1>2, TableShrinks, TableIsCreated, StatusFacts DEF Table
<1>6. n \in Ids /\ profiles[r].id = n /\ Matches(r, call.filter)
  BY <1>1, <1>5, TableIsCreated DEF Cleared, IInv, HeldFits
<1>7. by \in Managers
  BY <1>1, <1>4 DEF Precedes
<1>8. q.kind # "clear"
  BY <1>3, <1>5, <1>6, <1>7 DEF Deletes
<1>9. ASSUME q.kind = "delete"
      PROVE  FALSE
  <2>1. q.row \in Rows /\ Created(q.row) /\ call.filter = [id |-> profiles[q.row].id, slot |-> AnySlot]
    BY <1>4, <1>7, <1>9 DEF RequestFits, RequestCall
  <2>2. profiles[q.row].id \in Ids /\ 0 \notin Ids
    BY <2>1 DEF IInv, RowsFit, Ids
  <2>3. profiles[q.row].id = n
    BY <1>6, <2>1, <2>2 DEF Matches
  <2>4. q.row # r
    BY <1>3, <1>5, <1>7, <1>9 DEF Deletes
  <2> QED
    BY <1>1, <1>6, <1>7, <1>9, <2>3, <2>4 DEF Precedes, Assumes
<1>10. q.kind = "push" /\ ~q.sending
  BY <1>2, <1>4, <1>7, <1>8, <1>9 DEF RequestCall, Request
<1>11. r \in q.rows
  BY <1>1, <1>7, <1>10 DEF Precedes, Assumes
<1> QED
  BY <1>1, <1>2, <1>7, <1>10, <1>11, OwedReturned

\* The charge point clears profiles: those of the table that go with it are
\* deleted, or sent again.
LEMMA StationsClear ==
  ASSUME IInv, ProfileIdsDiffer, Order, TableIsTheStations, ClearProfiles
  PROVE  AcceptedIsHeld' /\ HeldIsAccepted'
<1>1. PICK call, by, q, cleared, status :
        /\ call = Head(calls) /\ by = call.by /\ q = requests[by] /\ cleared = Cleared(call.filter)
        /\ status = IF cleared = {} THEN "Unknown" ELSE "Accepted"
  OBVIOUS
<1>2. /\ IInv' /\ RowsKeep
      /\ calls # <<>> /\ call.method = "Clear" /\ Returned(call, TRUE)
      /\ profiles' = Written(call, status)
      /\ \A n \in Ids : held'[n] = IF n \in cleared THEN 0 ELSE held[n]
      /\ doubt' = doubt \ {n \in cleared : held[n] \in Table \/ n \notin IdsOf(Table)}
  BY <1>1, ClearDoes
<1>3. \/ status = "Accepted" /\ by \in Managers /\ q.kind = "clear"
         /\ Deletes({r \in Table : Matches(r, call.filter)})
      \/ status = "Accepted" /\ by \in Managers /\ q.kind = "delete" /\ Deletes({q.row} \cap Table)
      \/ /\ status = "Accepted" /\ by \in Managers => q.kind \notin {"clear", "delete"}
         /\ Deletes({})
  BY <1>1, <1>2, ClearWritten
<1>4. \A r \in Owed : r \in Owed'
  BY <1>1, <1>2, OwedReturned
<1>5. /\ by \in Managers => q \in Request /\ RequestFits(q) /\ RequestCall(call, q)
      /\ by \notin Managers => by = Boot
      /\ 1 \in 1 .. Len(calls) /\ calls[1].by = by
  BY <1>1, <1>2, HeadFits DEF CallFits
<1>6. AcceptedIsHeld'
  <2>1. SUFFICES ASSUME NEW r \in Table', profiles'[r].status = "Accepted"
                 PROVE  held'[profiles'[r].id] = r \/ profiles'[r].id \in doubt' \/ r \in Owed'
    BY DEF AcceptedIsHeld
  <2>2. /\ r \in Table /\ r \in Rows /\ profiles'[r].id = profiles[r].id
        /\ profiles[r].status = "Accepted"
    BY <1>2, <1>3, <2>1, DeletedRows, TableShrinks, TableIsCreated DEF RowsKeep
  <2>3. PICK n : n = profiles[r].id /\ n \in Ids
    BY <2>2, TableIsCreated DEF IInv, RowsFit
  <2>4. ~Precedes(by, r)
    BY <1>5, <2>2, StatusFacts DEF Order
  <2>5. CASE held[n] = r /\ n \in cleared
    BY <1>1, <2>1, <2>3, <2>4, <2>5, ClearedIsOwed
  <2>6. CASE held[n] = r /\ n \notin cleared
    BY <1>2, <2>2, <2>3, <2>6
  <2>7. CASE n \in doubt /\ held[n] # r
    <3>1. n \in IdsOf(Table)
      BY <2>2, <2>3 DEF IdsOf
    <3>2. held[n] \notin Table
      BY <2>2, <2>3, <2>7, TableIsCreated DEF IInv, HeldFits, ProfileIdsDiffer
    <3> QED
      BY <1>2, <2>2, <2>3, <2>7, <3>1, <3>2
  <2>8. CASE r \in Owed
    BY <1>4, <2>8
  <2> QED
    BY <2>2, <2>3, <2>5, <2>6, <2>7, <2>8 DEF TableIsTheStations
<1>7. HeldIsAccepted'
  <2>1. SUFFICES ASSUME NEW n \in Ids, held'[n] # 0, n \notin doubt'
                 PROVE  profiles'[held'[n]].status = "Accepted"
    BY DEF HeldIsAccepted, Ids
  <2>2. n \notin cleared /\ held'[n] = held[n] /\ n \notin doubt
    BY <1>2, <2>1
  <2>3. PICK x : x = held[n] /\ x \in Rows /\ x # 0 /\ profiles[x].status = "Accepted"
    BY <2>1, <2>2 DEF TableIsTheStations, IInv, TypeOK
  <2>4. ~Matches(x, call.filter)
    BY <1>1, <2>2, <2>3 DEF Cleared
  <2>5. ASSUME by \in Managers, q.kind = "delete"
        PROVE  x # q.row
    <3>1. call.filter = [id |-> profiles[q.row].id, slot |-> AnySlot]
      BY <1>5, <2>5 DEF RequestCall
    <3> QED
      BY <2>4, <3>1 DEF Matches
  <2>6. profiles'[x].status = profiles[x].status
    BY <1>3, <2>3, <2>4, <2>5 DEF Deletes
  <2> QED
    BY <2>2, <2>3, <2>6
<1> QED
  BY <1>6, <1>7

\* Nobody knows what became of a call that timed out.
LEMMA StationsTimeOut ==
  ASSUME IInv, TableIsTheStations, TimeOut
  PROVE  AcceptedIsHeld' /\ HeldIsAccepted'
<1>1. PICK call : call = Head(calls)
  OBVIOUS
<1>2. /\ RowsKeep /\ calls # <<>> /\ Returned(call, FALSE)
      /\ \A n \in Ids : held'[n] # held[n] => n \in Named(call)
      /\ doubt' = doubt \cup Named(call)
  BY <1>1, TimeOutDoes
<1>3. PICK rows \in SUBSET Table : /\ Deletes(rows) /\ rows \subseteq {call.row}
                                   /\ rows # {} => call.method = "Set"
  BY <1>1, TimeOutDoes
<1>4. \A r \in Owed : r \in Owed' \/ (call.method = "Set" /\ r = call.row)
  BY <1>1, <1>2, OwedReturned
<1>5. call.method = "Set" => profiles[call.row].id \in Named(call)
  BY <1>1, <1>2, SetIsSettled DEF Named
<1>6. AcceptedIsHeld'
  <2>1. SUFFICES ASSUME NEW r \in Table', profiles'[r].status = "Accepted"
                 PROVE  held'[profiles'[r].id] = r \/ profiles'[r].id \in doubt' \/ r \in Owed'
    BY DEF AcceptedIsHeld
  <2>2. /\ r \in Table /\ r \in Rows /\ profiles'[r].id = profiles[r].id
        /\ profiles[r].status = "Accepted"
    BY <1>2, <1>3, <2>1, DeletedRows, TableShrinks, TableIsCreated DEF RowsKeep
  <2>3. profiles[r].id \in Ids
    BY <2>2, TableIsCreated DEF IInv, RowsFit
  <2> QED
    BY <1>2, <1>4, <1>5, <2>2, <2>3 DEF TableIsTheStations
<1>7. HeldIsAccepted'
  <2>1. SUFFICES ASSUME NEW n \in Ids, held'[n] # 0, n \notin doubt'
                 PROVE  profiles'[held'[n]].status = "Accepted"
    BY DEF HeldIsAccepted, Ids
  <2>2. n \notin Named(call) /\ held'[n] = held[n] /\ n \notin doubt
    BY <1>2, <2>1
  <2>3. PICK x : x = held[n] /\ x \in Rows /\ profiles[x].status = "Accepted" /\ profiles[x].id = n
    BY <2>1, <2>2 DEF TableIsTheStations, IInv, TypeOK
  <2>4. x \notin rows
    BY <1>3, <1>5, <2>2, <2>3
  <2> QED
    BY <1>3, <2>2, <2>3, <2>4 DEF Deletes
<1> QED
  BY <1>6, <1>7

\* A request that will send the row r, or waits for the answer of it.
Sends(m, r) ==
  \/ requests[m].kind = "post" /\ requests[m].row = r
  \/ requests[m].sending /\ r \in requests[m].rows

Awaited(r) == \E m \in Managers : Sends(m, r)

LEMMA AwaitedIsUnsettled ==
  ASSUME IInv, NEW r, Awaited(r)
  PROVE  profiles[r].id \in Unsettled
<1>1. PICK m \in Managers : Sends(m, r)
  BY DEF Awaited
<1>2. CASE r \in requests[m].rows
  <2>1. profiles[r].id \in IdsOf(requests[m].rows)
    BY <1>2 DEF IdsOf
  <2> QED
    BY <2>1 DEF Unsettled
<1>3. CASE requests[m].kind = "post" /\ requests[m].row = r
  <2>1. PICK i \in 1 .. Len(calls) : calls[i].by = m
    BY <1>3, IdleIsRequest DEF IInv, QueueFits
  <2>2. CallFits(calls[i])
    BY DEF IInv, QueueFits
  <2>3. calls[i].method = "Set" /\ calls[i].filter.id = profiles[r].id
    BY <1>3, <2>1, <2>2 DEF CallFits, RequestCall
  <2>4. profiles[r].id \in Named(calls[i])
    BY <2>3 DEF Named
  <2> QED
    BY <2>4 DEF Unsettled
<1> QED
  BY <1>1, <1>2, <1>3 DEF Sends

\* Nor of those that a lost connection, or a restart, left unanswered.
LEMMA StationsStop ==
  ASSUME IInv, TableIsTheStations, LoseConnection \/ Restart
  PROVE  AcceptedIsHeld' /\ HeldIsAccepted'
<1>1. /\ RowsKeep
      /\ \A n \in Ids : held'[n] # held[n] => calls # <<>> /\ n \in Named(Head(calls))
      /\ doubt' = doubt \cup Unsettled
  BY StopDoes
<1>2. PICK rows \in SUBSET Table :
        /\ Deletes(rows)
        /\ \A r \in rows : \E m \in Managers : requests[m].kind = "post" /\ requests[m].row = r
  BY StopDoes
<1>3. ASSUME NEW n, NEW i \in 1 .. Len(calls), n \in Named(calls[i])
      PROVE  n \in Unsettled
  BY <1>3 DEF Unsettled
<1>4. calls # <<>> => 1 \in 1 .. Len(calls) /\ Head(calls) = calls[1]
  BY HeadFits
<1>5. \A n \in Ids : held'[n] # held[n] => n \in Unsettled
  BY <1>1, <1>3, <1>4
<1>6. ASSUME NEW r \in Owed
      PROVE  profiles[r].id \in Unsettled
  BY OwedBy, AwaitedIsUnsettled DEF Awaited, Sends
<1>7. ASSUME NEW r \in rows
      PROVE  profiles[r].id \in Unsettled
  BY <1>2, AwaitedIsUnsettled DEF Awaited, Sends
<1>8. AcceptedIsHeld'
  <2>1. SUFFICES ASSUME NEW r \in Table', profiles'[r].status = "Accepted"
                 PROVE  held'[profiles'[r].id] = r \/ profiles'[r].id \in doubt' \/ r \in Owed'
    BY DEF AcceptedIsHeld
  <2>2. /\ r \in Table /\ r \in Rows /\ profiles'[r].id = profiles[r].id
        /\ profiles[r].status = "Accepted"
    BY <1>1, <1>2, <2>1, DeletedRows, TableShrinks, TableIsCreated DEF RowsKeep
  <2>3. profiles[r].id \in Ids
    BY <2>2, TableIsCreated DEF IInv, RowsFit
  <2> QED
    BY <1>1, <1>5, <1>6, <2>2, <2>3 DEF TableIsTheStations
<1>9. HeldIsAccepted'
  <2>1. SUFFICES ASSUME NEW n \in Ids, held'[n] # 0, n \notin doubt'
                 PROVE  profiles'[held'[n]].status = "Accepted"
    BY DEF HeldIsAccepted, Ids
  <2>2. n \notin Unsettled /\ held'[n] = held[n] /\ n \notin doubt
    BY <1>1, <1>5, <2>1
  <2>3. PICK x : x = held[n] /\ x \in Rows /\ profiles[x].status = "Accepted" /\ profiles[x].id = n
    BY <2>1, <2>2 DEF TableIsTheStations, IInv, TypeOK
  <2>4. x \notin rows
    BY <1>7, <2>2, <2>3
  <2> QED
    BY <1>2, <2>2, <2>3, <2>4 DEF Deletes
<1> QED
  BY <1>8, <1>9

LEMMA StationsAside ==
  ASSUME IInv, TableIsTheStations,
         \/ \E r \in Rows : DeleteRejected(r)
         \/ BootClear
         \/ \E changed \in BOOLEAN : Connect(changed)
         \/ ForgetProfiles
         \/ UNCHANGED vars
  PROVE  AcceptedIsHeld' /\ HeldIsAccepted'
<1>1. ASSUME NEW rows, RowsKeep, Deletes(rows), UNCHANGED <<requests, held, doubt>>,
             \A r \in rows : profiles[r].status # "Accepted"
      PROVE  AcceptedIsHeld' /\ HeldIsAccepted'
  <2>1. Owed' = Owed
    BY <1>1 DEF Owed
  <2>2. \A r \in Table' : r \in Table /\ r \in Rows /\ profiles'[r].status = profiles[r].status
                          /\ profiles'[r].id = profiles[r].id
    BY <1>1, DeletedRows, TableShrinks, TableIsCreated DEF RowsKeep
  <2>3. AcceptedIsHeld'
    BY <1>1, <2>1, <2>2 DEF AcceptedIsHeld, TableIsTheStations
  <2>4. \A r \in Rows : profiles[r].status = "Accepted" => profiles'[r].status = "Accepted"
    BY <1>1 DEF Deletes
  <2>5. HeldIsAccepted'
    BY <1>1, <2>4 DEF HeldIsAccepted, TableIsTheStations, IInv, TypeOK
  <2> QED
    BY <2>3, <2>5
<1>2. ASSUME UNCHANGED <<profiles, requests, held, doubt>>
      PROVE  AcceptedIsHeld' /\ HeldIsAccepted'
  <2>1. RowsKeep /\ Deletes({})
    BY <1>2, SameRowsKeep DEF Deletes, IInv, TypeOK
  <2> QED
    BY <1>1, <1>2, <2>1
<1>3. ASSUME NEW r \in Rows, DeleteRejected(r)
      PROVE  AcceptedIsHeld' /\ HeldIsAccepted'
  BY <1>1, <1>3, DeleteRejectedDoes
<1>4. ASSUME IInv', doubt' = Ids
      PROVE  AcceptedIsHeld' /\ HeldIsAccepted'
  <2>1. ASSUME NEW r \in Table'
        PROVE  profiles'[r].id \in doubt'
    <3>1. r \in Rows /\ Created(r)'
      BY StatusFacts DEF Table, Exists, Created
    <3> QED
      BY <1>4, <3>1 DEF IInv, RowsFit, Ids
  <2> QED
    BY <1>4, <2>1 DEF AcceptedIsHeld, HeldIsAccepted, Ids
<1>5. ASSUME NEW changed \in BOOLEAN, Connect(changed)
      PROVE  AcceptedIsHeld' /\ HeldIsAccepted'
  BY <1>2, <1>4, <1>5, ConnectDoes
<1> QED
  BY <1>2, <1>3, <1>4, <1>5, ForgetDoes DEF BootClear, vars

LEMMA StationsKeeps ==
  ASSUME IInv, ProfileIdsDiffer, Order, OwedIsFree, TableIsTheStations, [Next]_vars
  PROVE  TableIsTheStations'
<1>1. IInv'
  BY NextKeeps
<1>2. TableIsTheStations' <=> AcceptedIsHeld' /\ HeldIsAccepted'
  BY <1>1 DEF IInv, HeldFits, TableIsTheStations, AcceptedIsHeld, HeldIsAccepted
<1> QED
  BY <1>2, StationsJoin, StationsTake, StationsRefuse, StationsClear, StationsTimeOut,
     StationsStop, StationsAside DEF Next

LEMMA InitStations == Init => OwedIsFree /\ PushersPush /\ TableIsTheStations
<1> SUFFICES ASSUME Init PROVE OwedIsFree /\ PushersPush /\ TableIsTheStations
  OBVIOUS
<1>1. Table = {} /\ \A n \in Ids : held[n] = 0
  BY StatusFacts DEF Init, NoRow, Table, Exists
<1> QED
  BY <1>1, IdleIsRequest DEF Init, OwedIsFree, PushersPush, TableIsTheStations

\* The table is what the charge point holds, whatever requests overlap, as long
\* as no two push-alls do (POST charging-profiles/push-all): unless a call about
\* it was lost or overtaken, a profile is held if and only if it is Accepted.
THEOREM TableIsAlwaysTheStations ==
  ASSUME \A m, n \in Pushers : m = n
  PROVE  Spec => []TableIsTheStations
<1> DEFINE Inv == OwedIsFree /\ PushersPush /\ TableIsTheStations
<1>1. Init => Inv
  BY InitStations
<1>2. IInv /\ (ProfileIdsDiffer /\ Order) /\ Inv /\ [Next]_vars => Inv'
  BY OwedIsFreeKeeps, StationsKeeps DEF OnePush
<1>3. Inv => TableIsTheStations
  OBVIOUS
<1> HIDE DEF Inv
<1> QED
  BY <1>1, <1>2, <1>3, Invariance, Ordered, PTL DEF Spec
-----------------------------------------------------------------------------
(* A profile that is Pending, and not in doubt, waits for an answer.       *)

PendingIsAwaited ==
  \A r \in Table : profiles[r].status = "Pending" /\ profiles[r].id \notin doubt => Awaited(r)

\* The request whose call stands in the queue.
PendingIsQueued ==
  \A r \in Table : profiles[r].status = "Pending" /\ profiles[r].id \notin doubt =>
    \E i \in 1 .. Len(calls) : calls[i].by \in Managers /\ Sends(calls[i].by, r)

\* Only the row of the first call is no longer awaited when it has returned.
LEMMA AwaitedReturned ==
  ASSUME IInv, calls # <<>>, NEW ok \in BOOLEAN, Returned(Head(calls), ok), NEW r, Awaited(r)
  PROVE  Awaited(r)' \/ (Head(calls).method = "Set" /\ Head(calls).row = r)
<1>1. PICK m \in Managers : Sends(m, r)
  BY DEF Awaited
<1>2. PICK call : call = Head(calls)
  OBVIOUS
<1>3. CASE requests[m].sending /\ r \in requests[m].rows
  <2>1. r \in Owed
    BY <1>3, OwedBy
  <2>2. r \in Owed' \/ (call.method = "Set" /\ call.row = r)
    BY <1>2, <2>1, OwedReturned
  <2> QED
    BY <1>2, <2>2, OwedByNext DEF Awaited, Sends
<1>4. CASE requests[m].kind = "post" /\ requests[m].row = r /\ m # call.by
  <2>1. requests'[m] = requests[m]
    BY <1>2, <1>4, ReturnedQueue
  <2> QED
    BY <1>4, <2>1 DEF Awaited, Sends
<1>5. CASE requests[m].kind = "post" /\ requests[m].row = r /\ m = call.by
  <2>1. RequestCall(call, requests[m])
    BY <1>2, <1>5, HeadFits DEF CallFits
  <2> QED
    BY <1>2, <1>5, <2>1 DEF RequestCall
<1> QED
  BY <1>1, <1>3, <1>4, <1>5 DEF Sends

\* Whoever joins the queue was idle: the others await what they awaited.
LEMMA AwaitedJoined ==
  ASSUME IInv, NEW m \in Managers, NEW q, NEW call, Joined(m, q, call), NEW r, Awaited(r)
  PROVE  Awaited(r)'
<1>1. PICK k \in Managers : Sends(k, r)
  BY DEF Awaited
<1>2. requests[m] = Idle /\ \A j \in Managers : j # m => requests'[j] = requests[j]
  BY DEF Joined, IInv, TypeOK
<1>3. k # m
  BY <1>1, <1>2, IdleIsRequest DEF Sends
<1> QED
  BY <1>1, <1>2, <1>3 DEF Awaited, Sends

LEMMA JoinsKeepAwaited ==
  ASSUME IInv, ProfileIdsDiffer, PendingIsAwaited, NEW m \in Managers,
         \/ \E slot \in Slots : Post(m, slot)
         \/ \E filter \in Filter : Clear(m, filter)
         \/ PushAll(m)
         \/ \E r \in Rows : Delete(m, r)
  PROVE  PendingIsAwaited'
<1>1. ASSUME NEW q, NEW call, Joined(m, q, call), UNCHANGED profiles
      PROVE  PendingIsAwaited'
  <2>1. Table' = Table /\ UNCHANGED doubt
    BY <1>1 DEF Table, Exists, Joined
  <2> QED
    BY <1>1, <2>1, AwaitedJoined DEF PendingIsAwaited
<1>2. ASSUME NEW slot \in Slots, Post(m, slot)
      PROVE  PendingIsAwaited'
  <2>1. PICK r, q : r = lastRow + 1
                    /\ q = [kind |-> "post", row |-> r, rows |-> {}, sending |-> FALSE]
    OBVIOUS
  <2>2. \E call : Joined(m, q, call)
    BY <1>2, <2>1, PostKeeps
  <2>3. PICK call : Joined(m, q, call)
    BY <2>2
  <2>4. requests'[m] = q /\ UNCHANGED doubt
    BY <2>3 DEF Joined, IInv, TypeOK
  <2>5. Awaited(r)'
    BY <2>1, <2>4 DEF Awaited, Sends
  <2>6. \A x \in Table' : x = r \/ (x \in Table /\ profiles'[x] = profiles[x])
    BY <1>2, <2>1, PostedIdDiffers
  <2> QED
    BY <2>3, <2>4, <2>5, <2>6, AwaitedJoined DEF PendingIsAwaited
<1>3. ASSUME NEW filter \in Filter, Clear(m, filter)
      PROVE  PendingIsAwaited'
  BY <1>1, <1>3, ClearKeeps DEF Clear
<1>4. CASE PushAll(m)
  BY <1>1, <1>4, PushKeeps DEF PushAll
<1>5. ASSUME NEW r \in Rows, Delete(m, r)
      PROVE  PendingIsAwaited'
  BY <1>1, <1>5, DeleteKeeps DEF Delete
<1> QED
  BY <1>2, <1>3, <1>4, <1>5

\* An answer leaves no row Pending that its request no longer awaits.
LEMMA AnswersKeepAwaited ==
  ASSUME IInv, ProfileIdsDiffer, PendingIsAwaited, TakeProfile \/ RefuseProfile
  PROVE  PendingIsAwaited'
<1>1. PICK call, x, i : call = Head(calls) /\ x = call.row /\ i = call.filter.id
  OBVIOUS
<1>2. /\ RowsKeep /\ calls # <<>> /\ call.method = "Set" /\ Returned(call, TRUE)
      /\ \E status \in {"Accepted"} \cup Refusals : \A q \in Rows :
           profiles'[q].status = IF q = x /\ Exists(q) THEN status ELSE profiles[q].status
  BY <1>1, TakeDoes, RefuseDoes
<1>3. doubt' = doubt \/ doubt' = doubt \cup {i} \/ (Exists(x) /\ doubt' = doubt \ {i})
  BY <1>1 DEF TakeProfile, RefuseProfile
<1>4. x \in Rows /\ i = profiles[x].id
  BY <1>1, <1>2, SetIsSettled
<1>5. SUFFICES ASSUME NEW r \in Table', profiles'[r].status = "Pending",
                      profiles'[r].id \notin doubt'
               PROVE  Awaited(r)'
  BY DEF PendingIsAwaited
<1>6. r \in Table /\ r \in Rows /\ profiles'[r].id = profiles[r].id /\ Exists(r)
  BY <1>2, TableShrinks, TableIsCreated DEF RowsKeep, Table
<1>7. r # x /\ profiles[r].status = "Pending"
  BY <1>2, <1>5, <1>6, StatusFacts
<1>8. Exists(x) => profiles[r].id # i
  BY <1>4, <1>6, <1>7 DEF ProfileIdsDiffer, Table
<1>9. Awaited(r)
  BY <1>3, <1>5, <1>6, <1>7, <1>8 DEF PendingIsAwaited
<1> QED
  BY <1>1, <1>2, <1>7, <1>9, AwaitedReturned

\* Nor does a clear take a row out of doubt before it is sent.
LEMMA ClearKeepsAwaited ==
  ASSUME IInv, ProfileIdsDiffer, Order, PendingIsAwaited, ClearProfiles
  PROVE  PendingIsAwaited'
<1>1. PICK call, cleared : call = Head(calls) /\ cleared = Cleared(call.filter)
  OBVIOUS
<1>2. /\ RowsKeep /\ calls # <<>> /\ call.method = "Clear" /\ Returned(call, TRUE)
      /\ doubt' = doubt \ {n \in cleared : held[n] \in Table \/ n \notin IdsOf(Table)}
  BY <1>1, ClearDoes
<1>3. PICK rows : Deletes(rows)
  BY ClearDeletes
<1>4. SUFFICES ASSUME NEW r \in Table', profiles'[r].status = "Pending",
                      profiles'[r].id \notin doubt'
               PROVE  Awaited(r)'
  BY DEF PendingIsAwaited
<1>5. /\ r \in Table /\ r \in Rows /\ r # 0 /\ profiles'[r].id = profiles[r].id
      /\ profiles[r].status = "Pending"
  BY <1>2, <1>3, <1>4, DeletedRows, TableShrinks, TableIsCreated DEF RowsKeep
<1>6. CASE profiles[r].id \notin doubt
  <2>1. Awaited(r)
    BY <1>5, <1>6 DEF PendingIsAwaited
  <2> QED
    BY <1>1, <1>2, <2>1, AwaitedReturned
<1>7. CASE profiles[r].id \in doubt
  <2>1. PICK n : n = profiles[r].id /\ n \in Ids
    BY <1>5, TableIsCreated DEF IInv, RowsFit
  <2>2. n \in IdsOf(Table)
    BY <1>5, <2>1 DEF IdsOf
  <2>3. n \in cleared /\ held[n] \in Table
    BY <1>2, <1>4, <1>5, <1>7, <2>1, <2>2
  <2>4. held[n] = r
    BY <1>5, <2>1, <2>3, TableIsCreated DEF IInv, HeldFits, ProfileIdsDiffer
  <2>5. ~Precedes(call.by, r)
    <3>1. 1 \in 1 .. Len(calls) /\ calls[1] = call
      BY <1>1, <1>2, HeadFits
    <3> QED
      BY <1>5, <2>1, <2>4, <3>1 DEF Order
  <2>6. r \in Owed'
    BY <1>1, <2>3, <2>4, <2>5, ClearedIsOwed
  <2> QED
    BY <2>6, OwedByNext DEF Awaited, Sends
<1> QED
  BY <1>6, <1>7

LEMMA TimeOutKeepsAwaited ==
  ASSUME IInv, PendingIsAwaited, TimeOut
  PROVE  PendingIsAwaited'
<1>1. PICK call : call = Head(calls)
  OBVIOUS
<1>2. /\ RowsKeep /\ calls # <<>> /\ Returned(call, FALSE)
      /\ doubt' = doubt \cup Named(call)
  BY <1>1, TimeOutDoes
<1>3. PICK rows : Deletes(rows)
  BY TimeOutDoes
<1>4. SUFFICES ASSUME NEW r \in Table', profiles'[r].status = "Pending",
                      profiles'[r].id \notin doubt'
               PROVE  Awaited(r)'
  BY DEF PendingIsAwaited
<1>5. /\ r \in Table /\ profiles'[r].id = profiles[r].id /\ profiles[r].status = "Pending"
  BY <1>2, <1>3, <1>4, DeletedRows, TableShrinks, TableIsCreated DEF RowsKeep
<1>6. Awaited(r)
  BY <1>2, <1>4, <1>5 DEF PendingIsAwaited
<1>7. call.method = "Set" => profiles[call.row].id \in Named(call)
  BY <1>1, <1>2, SetIsSettled DEF Named
<1> QED
  BY <1>1, <1>2, <1>4, <1>5, <1>6, <1>7, AwaitedReturned

LEMMA StopKeepsAwaited ==
  ASSUME IInv, PendingIsAwaited, LoseConnection \/ Restart
  PROVE  PendingIsAwaited'
<1>1. RowsKeep /\ doubt' = doubt \cup Unsettled
  BY StopDoes
<1>2. PICK rows : Deletes(rows)
  BY StopDoes
<1>3. SUFFICES ASSUME NEW r \in Table', profiles'[r].status = "Pending",
                      profiles'[r].id \notin doubt'
               PROVE  FALSE
  BY DEF PendingIsAwaited
<1>4. /\ r \in Table /\ profiles'[r].id = profiles[r].id /\ profiles[r].status = "Pending"
  BY <1>1, <1>2, <1>3, DeletedRows, TableShrinks, TableIsCreated DEF RowsKeep
<1>5. Awaited(r)
  BY <1>1, <1>3, <1>4 DEF PendingIsAwaited
<1> QED
  BY <1>1, <1>3, <1>4, <1>5, AwaitedIsUnsettled

LEMMA AsideKeepsAwaited ==
  ASSUME IInv, PendingIsAwaited,
         \/ \E r \in Rows : DeleteRejected(r)
         \/ BootClear
         \/ \E changed \in BOOLEAN : Connect(changed)
         \/ ForgetProfiles
         \/ UNCHANGED vars
  PROVE  PendingIsAwaited'
<1>1. ASSUME NEW rows, RowsKeep, Deletes(rows), UNCHANGED <<requests, doubt>>
      PROVE  PendingIsAwaited'
  <2>1. \A r \in Table' : r \in Table /\ profiles'[r].status = profiles[r].status
                          /\ profiles'[r].id = profiles[r].id
    BY <1>1, DeletedRows, TableShrinks, TableIsCreated DEF RowsKeep
  <2>2. \A r : Awaited(r) => Awaited(r)'
    BY <1>1 DEF Awaited, Sends
  <2> QED
    BY <1>1, <2>1, <2>2 DEF PendingIsAwaited
<1>2. ASSUME UNCHANGED <<profiles, requests, doubt>>
      PROVE  PendingIsAwaited'
  <2>1. RowsKeep /\ Deletes({})
    BY <1>2, SameRowsKeep DEF Deletes, IInv, TypeOK
  <2> QED
    BY <1>1, <1>2, <2>1
<1>3. ASSUME NEW r \in Rows, DeleteRejected(r)
      PROVE  PendingIsAwaited'
  BY <1>1, <1>3, DeleteRejectedDoes
<1>4. ASSUME IInv', doubt' = Ids
      PROVE  PendingIsAwaited'
  <2>1. ASSUME NEW r \in Table'
        PROVE  profiles'[r].id \in doubt'
    <3>1. r \in Rows /\ Created(r)'
      BY StatusFacts DEF Table, Exists, Created
    <3> QED
      BY <1>4, <3>1 DEF IInv, RowsFit, Ids
  <2> QED
    BY <2>1 DEF PendingIsAwaited
<1>5. ASSUME NEW changed \in BOOLEAN, Connect(changed)
      PROVE  PendingIsAwaited'
  BY <1>2, <1>4, <1>5, ConnectDoes
<1> QED
  BY <1>2, <1>3, <1>4, <1>5, ForgetDoes DEF BootClear, vars

LEMMA AwaitedKeeps ==
  IInv /\ (ProfileIdsDiffer /\ Order) /\ PendingIsAwaited /\ [Next]_vars => PendingIsAwaited'
BY JoinsKeepAwaited, AnswersKeepAwaited, ClearKeepsAwaited, TimeOutKeepsAwaited,
   StopKeepsAwaited, AsideKeepsAwaited DEF Next

\* Whoever has begun a request has a call in the queue.
LEMMA AwaitedIsQueued == IInv /\ PendingIsAwaited => PendingIsQueued
<1> SUFFICES ASSUME IInv, PendingIsAwaited, NEW r \in Table,
                    profiles[r].status = "Pending", profiles[r].id \notin doubt
             PROVE  \E i \in 1 .. Len(calls) : calls[i].by \in Managers /\ Sends(calls[i].by, r)
  BY DEF PendingIsQueued
<1>1. PICK m \in Managers : Sends(m, r)
  BY DEF PendingIsAwaited, Awaited
<1>2. requests[m] # Idle
  BY <1>1, IdleIsRequest DEF Sends
<1>3. PICK i \in 1 .. Len(calls) : calls[i].by = m
  BY <1>2 DEF IInv, QueueFits
<1> QED
  BY <1>1, <1>3

\* A profile whose status is Pending, and that is not in doubt, is awaited by a
\* request with a call in the queue, whatever overlaps: no answer, timeout or
\* clear leaves it behind, which is what PendingIsDecided needs besides the
\* fairness of the queue (POST charging-profiles, push-all).
THEOREM PendingIsAlwaysQueued == Spec => []PendingIsQueued
<1>1. Init => PendingIsAwaited
  BY StatusFacts DEF Init, NoRow, PendingIsAwaited, Table, Exists
<1>2. IInv /\ (ProfileIdsDiffer /\ Order) /\ PendingIsAwaited /\ [Next]_vars => PendingIsAwaited'
  BY AwaitedKeeps
<1>3. IInv /\ PendingIsAwaited => PendingIsQueued
  BY AwaitedIsQueued
<1> QED
  BY <1>1, <1>2, <1>3, Invariance, Ordered, PTL DEF Spec
=============================================================================

--------------------------- MODULE ChargingProfiles ---------------------------
(***************************************************************************)
(* The charging profiles of one charge point: the rows of the table        *)
(* charging_profiles, the requests of managers that write them after an    *)
(* awaited call, the second step of the boot sequence, and the charge      *)
(* point, which keeps what it was given.                                   *)
(*                                                                         *)
(* The ocpp-rpc client sends its calls one at a time, in order.  Nothing   *)
(* reads what the charge point holds but the charge point, so that its     *)
(* handling of a call and the handler of the answer are one step.  A call  *)
(* that times out, or whose connection is lost, may have been handled.     *)
(***************************************************************************)
EXTENDS Integers, Sequences, FiniteSets

CONSTANTS Slots,     \* a purpose, a connector and a stack level
          AnySlot,   \* a filter that names none
          Managers,  \* requests that may overlap
          Pushers,   \* bound: the managers that use push-all
          Boot,      \* the boot sequence, as the author of a call
          MaxRows    \* bound: profiles ever created

ASSUME ChargingProfilesAssumption ==
  /\ AnySlot \notin Slots
  /\ Pushers \subseteq Managers
  /\ Boot \notin Managers
  /\ MaxRows \in Nat

VARIABLES profiles,  \* the table charging_profiles, by id
          lastRow,   \* its AUTOINCREMENT
          requests,  \* the request of each manager
          calls,     \* the call queue of the client
          online,    \* connectedClients has the identity
          held,      \* the row each profile_id of the charge point came from
          doubt      \* the profile_ids about which the table cannot know

vars == <<profiles, lastRow, requests, calls, online, held, doubt>>

Rows == 1 .. MaxRows
Ids == 1 .. MaxRows

Refusals == {"Rejected", "NotSupported"}
Status == {"Pending", "Accepted"} \cup Refusals

Row == [status: Status \cup {"none", "gone"}, id: Ids \cup {0}, slot: Slots \cup {AnySlot}]
NoRow == [status |-> "none", id |-> 0, slot |-> AnySlot]

\* What a ClearChargingProfile names: a profile_id or 0, a slot or any.
Filter == [id: Ids \cup {0}, slot: Slots \cup {AnySlot}]
Everything == [id |-> 0, slot |-> AnySlot]

Call == [by: Managers \cup {Boot}, method: {"Set", "Clear"}, row: Rows \cup {0}, filter: Filter]

\* rows: what push-all has still to send; sending: it has cleared.
Request == [kind: {"idle", "post", "clear", "delete", "push"}, row: Rows \cup {0},
            rows: SUBSET Rows, sending: BOOLEAN]
Idle == [kind |-> "idle", row |-> 0, rows |-> {}, sending |-> FALSE]

Init ==
  /\ profiles = [r \in Rows |-> NoRow]
  /\ lastRow = 0
  /\ requests = [m \in Managers |-> Idle]
  /\ calls = <<>>
  /\ online = TRUE
  /\ held = [n \in Ids |-> 0]
  /\ doubt = {}

-----------------------------------------------------------------------------
(* The table, and the calls.                                               *)

Exists(r) == profiles[r].status \in Status
Table == {r \in Rows : Exists(r)}

IdsOf(rows) == {profiles[r].id : r \in rows}

\* Mutant: profiles that still wait for their answer do not count.
AnsweredProfileId(n) ==
  n = 1 + Cardinality({r \in Table : profiles[r].status # "Pending"})

\* getNextProfileId: MAX(profile_id) + 1
NextProfileId(n) ==
  /\ \A r \in Table : profiles[r].id < n
  /\ n = 1 \/ \E r \in Table : profiles[r].id = n - 1

Matches(r, filter) ==
  /\ filter.id \in {0, profiles[r].id}
  /\ filter.slot \in {AnySlot, profiles[r].slot}

Without(rows) ==
  [r \in Rows |-> IF r \in rows THEN [profiles[r] EXCEPT !.status = "gone"] ELSE profiles[r]]

\* updateChargingProfileStatus: an UPDATE of a row that is gone changes nothing.
WithStatus(r, status) ==
  IF Exists(r) THEN [profiles EXCEPT ![r].status = status] ELSE profiles

SetCall(m, r) ==
  [by |-> m, method |-> "Set", row |-> r, filter |-> [id |-> profiles[r].id, slot |-> AnySlot]]

ClearCall(m, filter) == [by |-> m, method |-> "Clear", row |-> 0, filter |-> filter]

\* What a call is about on the charge point.
Cleared(filter) == {n \in Ids : held[n] # 0 /\ Matches(held[n], filter)}
Named(call) == IF call.method = "Set" THEN {call.filter.id} ELSE Cleared(call.filter)

-----------------------------------------------------------------------------
(* Requests, up to their first await.  All but the deletion of a Rejected  *)
(* profile need the charge point to be connected.                          *)

Begins(m, kind, r, rows, call) ==
  /\ online
  /\ requests[m] = Idle
  /\ requests' = [requests EXCEPT ![m] = [kind |-> kind, row |-> r, rows |-> rows, sending |-> FALSE]]
  /\ calls' = Append(calls, call)

\* POST charging-profiles: the row is inserted before the call is awaited.
Post(m, slot) ==
  LET r == lastRow + 1 IN
  /\ lastRow < MaxRows
  /\ \E n \in Ids :
       /\ NextProfileId(n)
       /\ profiles' = [profiles EXCEPT ![r] = [status |-> "Pending", id |-> n, slot |-> slot]]
       /\ Begins(m, "post", r, {},
                 [by |-> m, method |-> "Set", row |-> r, filter |-> [id |-> n, slot |-> AnySlot]])
  /\ lastRow' = r
  /\ UNCHANGED <<online, held, doubt>>

\* POST charging-profiles/clear
Clear(m, filter) ==
  /\ Begins(m, "clear", 0, {}, ClearCall(m, filter))
  /\ UNCHANGED <<profiles, lastRow, online, held, doubt>>

\* Mutant: only the profiles that were accepted before.
AcceptedProfiles == {r \in Table : profiles[r].status = "Accepted"}

\* getChargingProfiles, as push-all reads it before its first await
PushedProfiles == Table

\* POST charging-profiles/push-all
PushAll(m) ==
  /\ m \in Pushers
  /\ Begins(m, "push", 0, PushedProfiles, ClearCall(m, Everything))
  /\ UNCHANGED <<profiles, lastRow, online, held, doubt>>

\* DELETE charging-profiles/:profileDbId of a Rejected profile: no call
DeleteRejected(r) ==
  /\ Exists(r) /\ profiles[r].status = "Rejected"
  /\ profiles' = Without({r})
  /\ UNCHANGED <<lastRow, requests, calls, online, held, doubt>>

\* DELETE charging-profiles/:profileDbId of any other, NotSupported included
Delete(m, r) ==
  /\ Exists(r) /\ profiles[r].status # "Rejected"
  /\ Begins(m, "delete", r, {}, ClearCall(m, [id |-> profiles[r].id, slot |-> AnySlot]))
  /\ UNCHANGED <<profiles, lastRow, online, held, doubt>>

\* Mutant: a profile that still waits for its answer does not count.
NoAcceptedProfile == AcceptedProfiles = {}

NoManagedProfile == Table = {}

\* BootNotification, step 2/5: profiles that nobody manages are cleared.
BootClear ==
  /\ online
  /\ \A i \in 1 .. Len(calls) : calls[i].by # Boot
  /\ NoManagedProfile
  /\ calls' = Append(calls, ClearCall(Boot, Everything))
  /\ UNCHANGED <<profiles, lastRow, requests, online, held, doubt>>

-----------------------------------------------------------------------------
(* After the await.                                                        *)

NextRow(rows) == CHOOSE r \in rows : \A q \in rows : r <= q

\* A push-all whose call has returned goes on with the next profile, unless
\* it was the ClearChargingProfile that failed.
Resumed(q, ok) ==
  LET rest == IF q.sending THEN q.rows \ {NextRow(q.rows)} ELSE q.rows IN
  IF q.kind = "push" /\ rest # {} /\ (q.sending \/ ok)
  THEN [q EXCEPT !.rows = rest, !.sending = TRUE] ELSE Idle

Following(m, q) == IF q = Idle THEN <<>> ELSE <<SetCall(m, NextRow(q.rows))>>

\* What the handler of an answer writes.
Answered(call, status) ==
  LET by == IF call.by = Boot THEN "boot" ELSE requests[call.by].kind IN
  CASE by = "post" \/ (by = "push" /\ call.method = "Set") -> WithStatus(call.row, status)
    [] by = "clear" /\ status = "Accepted" -> Without({r \in Table : Matches(r, call.filter)})
    [] by = "delete" /\ status = "Accepted" -> Without({requests[call.by].row} \cap Table)
    [] OTHER -> profiles

\* Mutant: a refusal is not stored.
AnsweredAccepted(call, status) ==
  IF status \in Refusals THEN profiles ELSE Answered(call, status)

Written(call, status) == Answered(call, status)

\* Mutant: a failed profile is kept, with a status of its own.
ExceptedMarked(call) ==
  IF call.by # Boot /\ requests[call.by].kind = "post" THEN WithStatus(call.row, "Failed")
  ELSE profiles

\* What the handler of an exception writes.
Excepted(call) ==
  IF call.by # Boot /\ requests[call.by].kind = "post" THEN Without({call.row} \cap Table)
  ELSE profiles

Returned(call, ok) ==
  IF call.by = Boot THEN /\ requests' = requests
                         /\ calls' = Tail(calls)
  ELSE LET q == Resumed(requests[call.by], ok) IN
       /\ requests' = [requests EXCEPT ![call.by] = q]
       /\ calls' = Tail(calls) \o Following(call.by, q)

\* The charge point takes the profile, in the place of the one with its id.
TakeProfile ==
  LET call == Head(calls) IN
  /\ calls # <<>> /\ call.method = "Set"
  /\ held' = [held EXCEPT ![call.filter.id] = call.row]
  /\ profiles' = Written(call, "Accepted")
  /\ doubt' = IF Exists(call.row) THEN doubt \ {call.filter.id} ELSE doubt \cup {call.filter.id}
  /\ Returned(call, TRUE)
  /\ UNCHANGED <<lastRow, online>>

RefuseProfile ==
  LET call == Head(calls) IN
  /\ calls # <<>> /\ call.method = "Set"
  /\ \E status \in Refusals : profiles' = Written(call, status)
  /\ Returned(call, TRUE)
  /\ UNCHANGED <<lastRow, online, held, doubt>>

\* Accepted when the charge point had a profile that the filter names.
ClearProfiles ==
  LET call == Head(calls)
      cleared == Cleared(call.filter) IN
  /\ calls # <<>> /\ call.method = "Clear"
  /\ held' = [n \in Ids |-> IF n \in cleared THEN 0 ELSE held[n]]
  /\ profiles' = Written(call, IF cleared = {} THEN "Unknown" ELSE "Accepted")
  /\ doubt' = doubt \ {n \in cleared : held[n] \in Table \/ n \notin IdsOf(Table)}
  /\ Returned(call, TRUE)
  /\ UNCHANGED <<lastRow, online>>

Carried(call) ==
  IF call.method = "Set" THEN [held EXCEPT ![call.filter.id] = call.row]
  ELSE [n \in Ids |-> IF n \in Cleared(call.filter) THEN 0 ELSE held[n]]

\* callTimeoutMs: the charge point may have done what it was asked.
TimeOut ==
  LET call == Head(calls) IN
  /\ calls # <<>>
  /\ held' \in {held, Carried(call)}
  /\ profiles' = Excepted(call)
  /\ doubt' = doubt \cup Named(call)
  /\ Returned(call, FALSE)
  /\ UNCHANGED <<lastRow, online>>

-----------------------------------------------------------------------------
(* Connections.                                                            *)

\* What the queue, and the requests that wait for it, were to change.
Unsettled ==
  (UNION {Named(calls[i]) : i \in 1 .. Len(calls)})
    \cup (UNION {IdsOf(requests[m].rows) : m \in Managers})

\* The socket closes: every call fails, the first may have been carried out,
\* and so do the calls with which a push-all would go on.
LoseConnection ==
  /\ online
  /\ held' \in {held} \cup (IF calls = <<>> THEN {} ELSE {Carried(Head(calls))})
  /\ profiles' = Without({requests[m].row : m \in {k \in Managers : requests[k].kind = "post"}}
                           \cap Table)
  /\ requests' = [m \in Managers |-> Idle]
  /\ calls' = <<>>
  /\ doubt' = doubt \cup Unsettled
  /\ online' = FALSE
  /\ UNCHANGED lastRow

\* The server stops: what it awaited is forgotten, rows stay as they are.
Restart ==
  /\ online' = FALSE
  /\ requests' = [m \in Managers |-> Idle]
  /\ calls' = <<>>
  /\ held' \in {held} \cup (IF calls = <<>> THEN {} ELSE {Carried(Head(calls))})
  /\ doubt' = doubt \cup Unsettled
  /\ UNCHANGED <<profiles, lastRow>>

\* The client event; with another protocol the profiles are forgotten.
Connect(changed) ==
  /\ ~online
  /\ online' = TRUE
  /\ IF changed THEN /\ profiles' = Without(Table)
                     /\ doubt' = Ids
     ELSE UNCHANGED <<profiles, doubt>>
  /\ UNCHANGED <<lastRow, requests, calls, held>>

\* A charge point that was reset comes back without its profiles.
ForgetProfiles ==
  /\ ~online
  /\ \E n \in Ids : held[n] # 0
  /\ held' = [n \in Ids |-> 0]
  /\ doubt' = Ids
  /\ UNCHANGED <<profiles, lastRow, requests, calls, online>>

-----------------------------------------------------------------------------

Next ==
  \/ \E m \in Managers :
       \/ \E slot \in Slots : Post(m, slot)
       \/ \E filter \in Filter : Clear(m, filter)
       \/ PushAll(m)
       \/ \E r \in Rows : Delete(m, r)
  \/ \E r \in Rows : DeleteRejected(r)
  \/ BootClear
  \/ TakeProfile \/ RefuseProfile \/ ClearProfiles \/ TimeOut
  \/ LoseConnection \/ Restart
  \/ \E changed \in BOOLEAN : Connect(changed)
  \/ ForgetProfiles

Spec == Init /\ [][Next]_vars

\* The first call is answered or times out (callTimeoutMs); nobody has to ask for
\* anything, nor to come back.
Fairness == WF_vars(TakeProfile \/ RefuseProfile \/ ClearProfiles \/ TimeOut)

FairSpec == Spec /\ Fairness

-----------------------------------------------------------------------------
(* Properties.                                                             *)

\* The table, the queue and the requests hold values of their kinds, and the
\* charge point holds profiles that were once rows (charging_profiles).
TypeOK ==
  /\ profiles \in [Rows -> Row]
  /\ lastRow \in 0 .. MaxRows
  /\ requests \in [Managers -> Request]
  /\ calls \in Seq(Call)
  /\ online \in BOOLEAN
  /\ held \in [Ids -> Rows \cup {0}]
  /\ doubt \subseteq Ids

\* Two managed profiles never have the same profile_id: the id is taken from
\* the table and the row inserted before the first await (getNextProfileId),
\* so that requests that overlap, or rows that are deleted meanwhile, do not
\* make one profile replace another on the charge point.
ProfileIdsDiffer ==
  \A r, q \in Table : r # q => profiles[r].id # profiles[q].id

\* What push-all has cleared and not yet sent again.
Owed == UNION {requests[m].rows : m \in {k \in Managers : requests[k].sending}}

\* The table is what the charge point holds, however requests overlap, as long as
\* two push-alls do not: unless a call about it was lost, or a clear or push-all
\* overtook the request of its row (the ids in doubt), a profile is held if and
\* only if it is Accepted.
TableIsTheStations ==
  /\ \A r \in Table : profiles[r].status = "Accepted" =>
       held[profiles[r].id] = r \/ profiles[r].id \in doubt \/ r \in Owed
  /\ \A n \in Ids : held[n] # 0 /\ n \notin doubt =>
       /\ profiles[held[n]].status = "Accepted"
       /\ profiles[held[n]].id = n

\* The clearing of the boot sequence, decided when it is asked, takes no
\* managed profile from the charge point when it arrives, whatever was asked
\* before and after it.
BootSparesManaged ==
  [][calls # <<>> /\ Head(calls).by = Boot =>
       \A n \in Ids : held[n] # 0 /\ held'[n] = 0 => held[n] \notin Table]_vars

\* A profile does not stay Pending: it is answered, or removed when its call
\* fails; only a restart, or a connection lost, leaves it to doubt.
PendingIsDecided ==
  \A r \in Rows :
    (profiles[r].status = "Pending" /\ profiles[r].id \notin doubt)
      ~> (profiles[r].status # "Pending" \/ profiles[r].id \in doubt)
=============================================================================

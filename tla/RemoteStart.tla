----------------------------- MODULE RemoteStart -----------------------------
(***************************************************************************)
(* Remote starts and stops on one connector, and the starts that are made  *)
(* on the spot.  A web request, or Plug&Charge, leaves an entry in         *)
(* pendingRemoteStarts that tells the StartTransaction of 1.6 where the    *)
(* session comes from; a timer of 60 s, the answer of the call and the     *)
(* StartTransaction each remove it, by the key of the connector.  (The     *)
(* 2.0.1 side makes and removes entries too, and reads none.)  A request   *)
(* to a charge point that is offline is refused at once; one whose         *)
(* connection is lost fails like one that times out.                       *)
(*                                                                         *)
(* Whether the card may charge is decided by authorizeIdTag (module        *)
(* Authorization), whose answer may change at any time.                    *)
(***************************************************************************)
EXTENDS Integers, Sequences

CONSTANTS MaxRequests,  \* bound: remote starts ever asked
          MaxTxs        \* bound: rows ever created

ASSUME RemoteStartAssumption == MaxRequests \in Nat /\ MaxTxs \in Nat

VARIABLES version,      \* ocpp_version
          mode,         \* 1 authorization, 2 Plug&Charge, 3 free
          cardAccepted, \* authorizeIdTag accepts the card
          requests,     \* remote starts, by number
          pending,      \* pendingRemoteStarts of the connector: a request, or 0
          timers,       \* the requests whose 60 s run
          calls,        \* the call queue of the client
          waiting,      \* the remote start that the charge point took
          session,      \* the session of the connector, on the charge point
          transactions  \* the rows of the connector, by id

settings == <<version, mode, cardAccepted>>
started == <<session, transactions>>
vars == <<settings, requests, pending, timers, calls, waiting, started>>

\* WEB-, ADMIN and MGR- tags are told by their prefix; their rows, inactive and
\* made on the first use, are never read by a check.
AutoTags == {"web", "manager"}
Tags == AutoTags \cup {"card"}

Request == [source : {"web", "remote"}, tag : Tags]

\* When r remote starts were asked and t rows created.
Calls(r, t) == [method : {"RequestStart"}, n : 1 .. r] \cup [method : {"RequestStop"}, n : 1 .. t]

Start(n) == [method |-> "RequestStart", n |-> n]
Stop(id) == [method |-> "RequestStop", n |-> id]

\* seen: the server had its acceptance.
Waiting == [n : 0 .. MaxRequests, seen : BOOLEAN]
NoWait == [n |-> 0, seen |-> FALSE]

\* "unanswered": the answer to its StartTransaction was lost, and it will send
\* it again.  id 0: the charge point does not know its transactionId.
Session == [phase : {"none", "unanswered", "running"}, tag : Tags, id : 0 .. MaxTxs]
NoSession == [phase |-> "none", tag |-> "card", id |-> 0]

\* entry: the request whose entry the StartTransaction took, or 0.
Transaction == [tag : Tags, source : {"web", "remote", "rfid", "local"},
                entry : 0 .. MaxRequests, status : {"Active", "Completed"}]

Init ==
  /\ version \in {"1.6", "2.0.1"}
  /\ mode \in 1 .. 3
  /\ cardAccepted \in BOOLEAN
  /\ requests = <<>>
  /\ pending = 0
  /\ timers = {}
  /\ calls = <<>>
  /\ waiting = NoWait
  /\ session = NoSession
  /\ transactions = <<>>

IsActive(id) == transactions[id].status = "Active"

-----------------------------------------------------------------------------
(* Asking.                                                                 *)

\* Mutant: only the requests of the web get a timer.
ArmedForWeb(n, source) == IF source = "web" THEN timers \cup {n} ELSE timers

\* setTimeout, and the timers of older requests run on.
Armed(n, source) == timers \cup {n}

\* pendingRemoteStarts.set, setTimeout, then the call.
AskStart(source, tag) ==
  LET n == Len(requests) + 1 IN
  /\ n <= MaxRequests
  /\ requests' = Append(requests, [source |-> source, tag |-> tag])
  /\ pending' = n
  /\ timers' = Armed(n, source)
  /\ calls' = Append(calls, Start(n))
  /\ UNCHANGED <<settings, waiting, started>>

\* POST user/start-charge: with an active tag of the user that is good at the
\* site (whether or not it has expired), else a WEB- tag.
UserStart == AskStart("web", "card") \/ AskStart("web", "web")

\* POST connectors/start-charge
ManagerStart == AskStart("web", "manager")

\* StatusNotification of a car that was plugged in: Preparing in 1.6, which the
\* charge point shows before a session only; in 2.0.1 Occupied without an Active
\* row, also during a session whose row the restart closed.
PlugAndCharge16 ==
  /\ version = "1.6" /\ mode = 2
  /\ session = NoSession
  /\ AskStart("remote", "manager")

PlugAndCharge201 ==
  /\ version = "2.0.1" /\ mode = 2
  /\ \A id \in DOMAIN transactions : ~IsActive(id)
  /\ AskStart("remote", "manager")

\* remoteStopTransaction.  Bound: one stop in the queue at a time, where the
\* routes queue any number.
AskStop(id) ==
  /\ \A i \in DOMAIN calls : calls[i].method # "RequestStop"
  /\ calls' = Append(calls, Stop(id))
  /\ UNCHANGED <<settings, requests, pending, timers, waiting, started>>

\* POST user/stop-charge: an Active row, of a tag of the user.
UserStop(id) ==
  /\ IsActive(id)
  /\ transactions[id].tag # "manager"
  /\ AskStop(id)

\* POST connectors/stop-charge sends the id it was given.
ManagerStop(id) == AskStop(id)

-----------------------------------------------------------------------------
(* Answers and timers.                                                     *)

\* A status other than Accepted, and an exception, delete by key.
Answered(accepted) ==
  /\ calls # <<>>
  /\ Head(calls).method = "RequestStart"
  /\ calls' = Tail(calls)
  /\ pending' = IF accepted THEN pending ELSE 0
  /\ UNCHANGED <<settings, requests, timers, started>>

Takes(seen) ==
  /\ session = NoSession
  /\ waiting = NoWait
  /\ waiting' = [n |-> Head(calls).n, seen |-> seen]

StartAccepted == Answered(TRUE) /\ Takes(TRUE)

StartRefused == Answered(FALSE) /\ UNCHANGED waiting

\* The call timed out or its connection was lost, when the charge point may
\* have taken it (or, as StartRefused has it, not).
StartFailed == Answered(FALSE) /\ Takes(FALSE)

\* setTimeout(() => pendingRemoteStarts.delete(pendingKey), 60000)
TimerFires(n) ==
  /\ timers' = timers \ {n}
  /\ pending' = 0
  /\ UNCHANGED <<settings, requests, calls, waiting, started>>

\* The charge point waited in vain for a car (ConnectionTimeOut).
WaitEnds ==
  /\ waiting.n # 0
  /\ waiting' = NoWait
  /\ UNCHANGED <<settings, requests, pending, timers, calls, started>>

-----------------------------------------------------------------------------
(* Starts.                                                                 *)

\* Only in mode 1, and only of what comes without a request.
Admitted(source, tag) ==
  mode = 1 /\ source = "rfid" => tag \notin AutoTags /\ cardAccepted

\* Mutant: the orphans are closed, and createTransaction is not reached.
OnlyOrphans(source, tag, entry) ==
  [id \in DOMAIN transactions |-> [transactions[id] EXCEPT !.status = "Completed"]]

\* The Active rows of the connector are closed as orphans, a row is created.
Opened(source, tag, entry) ==
  Append([id \in DOMAIN transactions |-> [transactions[id] EXCEPT !.status = "Completed"]],
         [tag |-> tag, source |-> source, entry |-> entry, status |-> "Active"])

\* Mutant: the entry stays for the next StartTransaction.
Kept == pending

\* pendingRemoteStarts.delete(pendingKey)
Taken == 0

\* StartTransaction (1.6).  The entry serves whatever idTag comes first.
StartTransaction(tag, answered) ==
  LET source == IF pending # 0 THEN requests[pending].source
                ELSE IF mode = 3 THEN "local" ELSE "rfid"
  IN
  /\ version = "1.6"
  /\ Len(transactions) < MaxTxs
  /\ pending' = Taken
  /\ transactions' = IF Admitted(source, tag) THEN Opened(source, tag, pending) ELSE transactions
  /\ session' = IF ~answered THEN [phase |-> "unanswered", tag |-> tag, id |-> 0]
                ELSE IF Admitted(source, tag)
                     THEN [phase |-> "running", tag |-> tag, id |-> Len(transactions) + 1]
                     ELSE NoSession
  /\ waiting' = NoWait
  /\ UNCHANGED <<settings, requests, timers, calls>>

\* The session of a remote start, of a card, and once more after a lost answer.
RemoteSession(answered) ==
  /\ session = NoSession
  /\ waiting.n # 0
  /\ StartTransaction(requests[waiting.n].tag, answered)

CardSession(answered) ==
  /\ session = NoSession
  /\ StartTransaction("card", answered)

SendsAgain(answered) ==
  /\ session.phase = "unanswered"
  /\ StartTransaction(session.tag, answered)

\* TransactionEvent Started (2.0.1): the trigger names the source (triggers
\* that the table does not have count as rfid), the entry stays.
Started(source, tag) ==
  /\ version = "2.0.1"
  /\ session = NoSession
  /\ Len(transactions) < MaxTxs
  /\ IF Admitted(source, tag)
     THEN /\ transactions' = Opened(source, tag, 0)
          /\ session' = [phase |-> "running", tag |-> tag, id |-> Len(transactions) + 1]
     ELSE UNCHANGED started
  /\ waiting' = NoWait
  /\ UNCHANGED <<settings, requests, pending, timers, calls>>

RemoteStarted ==
  /\ waiting.n # 0
  /\ Started("remote", requests[waiting.n].tag)

CardStarted == \E source \in {"rfid", "local"} : Started(source, "card")

-----------------------------------------------------------------------------
(* The end of a session.                                                   *)

Closed(id) ==
  IF id = 0 THEN transactions ELSE [transactions EXCEPT ![id].status = "Completed"]

\* At the charge point; one that never got its id gives up.
SessionEnds ==
  /\ session # NoSession
  /\ transactions' = Closed(session.id)
  /\ session' = NoSession
  /\ UNCHANGED <<settings, requests, pending, timers, calls, waiting>>

\* By RemoteStopTransaction or RequestStopTransaction, if it has that id.
StopServed ==
  /\ calls # <<>>
  /\ Head(calls).method = "RequestStop"
  /\ calls' = Tail(calls)
  /\ IF session.phase = "running" /\ session.id = Head(calls).n
     THEN /\ transactions' = Closed(session.id)
          /\ session' = NoSession
     ELSE UNCHANGED started
  /\ UNCHANGED <<settings, requests, pending, timers, waiting>>

StopFails ==
  /\ calls # <<>>
  /\ Head(calls).method = "RequestStop"
  /\ calls' = Tail(calls)
  /\ UNCHANGED <<settings, requests, pending, timers, waiting, started>>

-----------------------------------------------------------------------------
(* Managers, and the restart.                                              *)

\* A row of the card, or its user's link to the site, is changed.
CardChanges ==
  /\ cardAccepted' = ~cardAccepted
  /\ UNCHANGED <<version, mode, requests, pending, timers, calls, waiting, started>>

\* PUT chargepoints/:id
SetMode(m) ==
  /\ m # mode
  /\ mode' = m
  /\ UNCHANGED <<version, cardAccepted, requests, pending, timers, calls, waiting, started>>

\* The process starts again: what it held in memory is gone, and the Active
\* rows are closed (resetStateOnStartup).
Restart ==
  /\ pending' = 0
  /\ timers' = {}
  /\ calls' = <<>>
  /\ transactions' = [id \in DOMAIN transactions |-> [transactions[id] EXCEPT !.status = "Completed"]]
  /\ UNCHANGED <<settings, requests, waiting, session>>

Next ==
  \/ UserStart
  \/ ManagerStart
  \/ PlugAndCharge16
  \/ PlugAndCharge201
  \/ \E id \in DOMAIN transactions : UserStop(id) \/ ManagerStop(id)
  \/ StartAccepted
  \/ StartRefused
  \/ StartFailed
  \/ \E n \in timers : TimerFires(n)
  \/ WaitEnds
  \/ \E answered \in BOOLEAN :
       RemoteSession(answered) \/ CardSession(answered) \/ SendsAgain(answered)
  \/ RemoteStarted
  \/ CardStarted
  \/ SessionEnds
  \/ StopServed
  \/ StopFails
  \/ CardChanges
  \/ \E m \in 1 .. 3 : SetMode(m)
  \/ Restart

Spec == Init /\ [][Next]_vars

-----------------------------------------------------------------------------
(* Properties.                                                             *)

\* Every variable holds values of its kind; the entry, what the charge point
\* waits for and what a timer runs for are requests that were made, and a
\* session has a row.
TypeOK ==
  /\ version \in {"1.6", "2.0.1"} /\ mode \in 1 .. 3 /\ cardAccepted \in BOOLEAN
  /\ requests \in Seq(Request) /\ Len(requests) <= MaxRequests
  /\ pending \in 0 .. Len(requests)
  /\ timers \subseteq 1 .. Len(requests)
  /\ calls \in Seq(Calls(Len(requests), Len(transactions)))
  /\ waiting \in Waiting /\ waiting.n <= Len(requests)
  /\ session \in Session /\ session.id <= Len(transactions)
  /\ transactions \in Seq(Transaction) /\ Len(transactions) <= MaxTxs

\* The entry of a connector cannot stay for ever: its own timer runs, whatever
\* older timers, answers and sessions came in between (setTimeout in
\* start-charge and in Plug&Charge).
PendingHasTimer == pending # 0 => pending \in timers

\* One remote start lets one session in: no two rows took the same entry, though
\* requests are refused and overtaken, and StartTransactions are sent again.
EntryServesOnce ==
  \A a, b \in DOMAIN transactions :
    transactions[a].entry = transactions[b].entry => a = b \/ transactions[a].entry = 0

\* "Marquer ce demarrage comme venant du web": while a remote start whose
\* acceptance the server saw waits for its session, and its minute is not over,
\* there is an entry for it.
AcceptedStartIsMarked ==
  version = "1.6" /\ waiting.seen /\ waiting.n \in timers => pending # 0
=============================================================================

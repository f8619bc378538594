-------------------------- MODULE RemoteStartProofs --------------------------
(***************************************************************************)
(* For any number of remote starts and of rows: every variable keeps its   *)
(* kind, an entry has its timer, and serves one StartTransaction.          *)
(***************************************************************************)
EXTENDS RemoteStart, SequenceTheorems, TLAPS

\* What EntryServesOnce needs: a row took the entry of a request that was made,
\* and no row took the one that waits.
EntriesFresh ==
  /\ \A id \in DOMAIN transactions : transactions[id].entry \in 0 .. Len(requests)
  /\ pending # 0 => \A id \in DOMAIN transactions : transactions[id].entry # pending

EntriesInv == PendingHasTimer /\ EntriesFresh /\ EntryServesOnce

\* TypeOK in two: what only the charge point and the call queue hold, and the
\* rest.
Known ==
  /\ requests \in Seq(Request) /\ Len(requests) <= MaxRequests
  /\ pending \in 0 .. Len(requests)
  /\ timers \subseteq 1 .. Len(requests)
  /\ transactions \in Seq(Transaction) /\ Len(transactions) <= MaxTxs

Outside ==
  /\ version \in {"1.6", "2.0.1"} /\ mode \in 1 .. 3 /\ cardAccepted \in BOOLEAN
  /\ calls \in Seq(Calls(Len(requests), Len(transactions)))
  /\ waiting \in Waiting /\ waiting.n <= Len(requests)
  /\ session \in Session /\ session.id <= Len(transactions)

LEMMA TypeInTwo == TypeOK <=> Known /\ Outside
BY DEF TypeOK, Known, Outside

LEMMA TypeInTwoNext == TypeOK' <=> Known' /\ Outside'
BY DEF TypeOK, Known, Outside

-----------------------------------------------------------------------------
(* The call queue.                                                         *)

\* Calls that were possible stay so when more is asked and created.
LEMMA CallsGrow ==
  ASSUME NEW r \in Nat, NEW t \in Nat, NEW r2 \in Nat, NEW t2 \in Nat,
         r <= r2, t <= t2, NEW q \in Seq(Calls(r, t))
  PROVE  q \in Seq(Calls(r2, t2))
<1>1. Calls(r, t) \subseteq Calls(r2, t2)
  BY DEF Calls
<1> QED BY <1>1

LEMMA CallsServed ==
  ASSUME NEW r \in Nat, NEW t \in Nat, NEW q \in Seq(Calls(r, t)), q # <<>>
  PROVE  Tail(q) \in Seq(Calls(r, t)) /\ Head(q) \in Calls(r, t)
OBVIOUS

LEMMA CallAdded ==
  ASSUME NEW r \in Nat, NEW t \in Nat, NEW q \in Seq(Calls(r, t)), NEW call \in Calls(r, t)
  PROVE  Append(q, call) \in Seq(Calls(r, t))
OBVIOUS

-----------------------------------------------------------------------------
(* The rows.                                                               *)

AllClosed == [id \in DOMAIN transactions |-> [transactions[id] EXCEPT !.status = "Completed"]]

\* Rows with the entries of the rows before, whichever are closed.
SameEntries ==
  /\ transactions' \in Seq(Transaction)
  /\ Len(transactions') = Len(transactions)
  /\ \A id \in 1 .. Len(transactions) : transactions'[id].entry = transactions[id].entry

\* Closing every Active row (the orphans of a start, the rows found at a
\* restart) leaves the entries of the rows alone.
LEMMA ClosingKeepsEntries ==
  ASSUME transactions \in Seq(Transaction)
  PROVE  /\ AllClosed \in Seq(Transaction)
         /\ Len(AllClosed) = Len(transactions)
         /\ \A id \in 1 .. Len(transactions) : AllClosed[id].entry = transactions[id].entry
<1>1. DOMAIN transactions = 1 .. Len(transactions) /\ Len(transactions) \in Nat
  OBVIOUS
<1>2. \A id \in 1 .. Len(transactions) :
        /\ [transactions[id] EXCEPT !.status = "Completed"] \in Transaction
        /\ [transactions[id] EXCEPT !.status = "Completed"].entry = transactions[id].entry
  <2> SUFFICES ASSUME NEW id \in 1 .. Len(transactions)
               PROVE  /\ [transactions[id] EXCEPT !.status = "Completed"] \in Transaction
                      /\ [transactions[id] EXCEPT !.status = "Completed"].entry = transactions[id].entry
    OBVIOUS
  <2>1. transactions[id] \in Transaction
    OBVIOUS
  <2> QED BY <2>1 DEF Transaction
<1>3. AllClosed \in [1 .. Len(transactions) -> Transaction]
  BY <1>1, <1>2 DEF AllClosed
<1>4. AllClosed \in Seq(Transaction) /\ Len(AllClosed) = Len(transactions)
  BY <1>1, <1>3
<1> QED BY <1>1, <1>2, <1>4 DEF AllClosed

\* Closing one row, or none, leaves them alone too.
LEMMA ClosedKeepsEntries ==
  ASSUME transactions \in Seq(Transaction), NEW id \in 0 .. Len(transactions),
         transactions' = Closed(id)
  PROVE  SameEntries
<1>1. CASE id = 0
  BY <1>1 DEF Closed, SameEntries
<1>2. CASE id # 0
  <2>1. transactions[id] \in Transaction /\ id \in DOMAIN transactions
    BY <1>2
  <2>2. /\ [transactions[id] EXCEPT !.status = "Completed"] \in Transaction
        /\ [transactions[id] EXCEPT !.status = "Completed"].entry = transactions[id].entry
    BY <2>1 DEF Transaction
  <2>3. transactions' = [transactions EXCEPT ![id] = [transactions[id] EXCEPT !.status = "Completed"]]
    BY <1>2 DEF Closed
  <2> QED BY <2>1, <2>2, <2>3 DEF SameEntries
<1> QED BY <1>1, <1>2

-----------------------------------------------------------------------------
(* Three kinds of steps: no row is added, a request is made, a row is      *)
(* opened.                                                                 *)

\* What waits is what waited, or nothing.
Waits ==
  \/ pending' = pending /\ timers' = timers
  \/ pending' = 0 /\ timers' \subseteq timers

LEMMA NoNewRow ==
  ASSUME Known, EntriesInv, SameEntries, requests' = requests, Waits
  PROVE  Known' /\ EntriesInv'
<1>1. Known'
  <2>1. timers' \subseteq timers /\ pending' \in {0, pending}
    BY DEF Waits
  <2>2. timers' \subseteq 1 .. Len(requests)
    BY <2>1 DEF Known
  <2>3. pending' \in 0 .. Len(requests)
    BY <2>1 DEF Known
  <2>4. Len(transactions') <= MaxTxs
    BY DEF Known, SameEntries
  <2> QED BY <2>2, <2>3, <2>4 DEF Known, SameEntries
<1>2. PendingHasTimer'
  BY DEF EntriesInv, PendingHasTimer, Waits
<1>3. DOMAIN transactions' = DOMAIN transactions /\ DOMAIN transactions = 1 .. Len(transactions)
  BY DEF Known, SameEntries
<1>4. EntriesFresh' /\ EntryServesOnce'
  BY <1>3 DEF EntriesInv, EntriesFresh, EntryServesOnce, SameEntries, Waits
<1> QED BY <1>1, <1>2, <1>4 DEF EntriesInv

\* A new request has a number larger than the entry of any row.
LEMMA NewRequest ==
  ASSUME Known, Outside, EntriesInv,
         NEW source \in {"web", "remote"}, NEW tag \in Tags, AskStart(source, tag)
  PROVE  Known' /\ Outside' /\ EntriesInv'
<1> DEFINE n == Len(requests) + 1
           request == [source |-> source, tag |-> tag]
<1>1. Len(requests) \in Nat /\ Len(transactions) \in Nat
  BY DEF Known
<1>2. request \in Request
  BY DEF Request
<1>3. requests' = Append(requests, request) /\ pending' = n /\ timers' = timers \cup {n} /\ n <= MaxRequests
  BY DEF AskStart, Armed
<1>4. transactions' = transactions
  BY DEF AskStart, started
<1> HIDE DEF request
<1>5. requests' \in Seq(Request) /\ Len(requests') = n
  BY <1>2, <1>3 DEF Known
<1>6. Known'
  <2>1. timers' \subseteq 1 .. Len(requests')
    <3>1. timers \subseteq 1 .. Len(requests)
      BY DEF Known
    <3>2. \A t \in 1 .. Len(requests) : t \in 1 .. n
      BY <1>1
    <3>3. n \in 1 .. n
      BY <1>1
    <3> QED BY <1>3, <1>5, <3>1, <3>2, <3>3
  <2>2. pending' \in 0 .. Len(requests')
    BY <1>1, <1>3, <1>5
  <2> QED BY <1>3, <1>4, <1>5, <2>1, <2>2 DEF Known
<1>7. Outside'
  <2>1. calls \in Seq(Calls(n, Len(transactions)))
    BY <1>1, CallsGrow DEF Outside
  <2>2. Start(n) \in Calls(n, Len(transactions))
    BY <1>1 DEF Start, Calls
  <2>3. Append(calls, Start(n)) \in Seq(Calls(n, Len(transactions)))
    BY <1>1, <2>1, <2>2, CallAdded
  <2>4. calls' = Append(calls, Start(n))
    BY DEF AskStart
  <2>5. waiting' = waiting /\ waiting.n <= n
    BY <1>1 DEF AskStart, Outside, Waiting
  <2>6. session' = session /\ version' = version /\ mode' = mode /\ cardAccepted' = cardAccepted
    BY DEF AskStart, settings, started
  <2> QED BY <1>4, <1>5, <2>3, <2>4, <2>5, <2>6 DEF Outside
<1>8. PendingHasTimer'
  BY <1>3 DEF PendingHasTimer
<1>9. EntriesFresh'
  BY <1>1, <1>3, <1>4, <1>5 DEF EntriesInv, EntriesFresh
<1>10. EntryServesOnce'
  BY <1>4 DEF EntriesInv, EntryServesOnce
<1> QED BY <1>6, <1>7, <1>8, <1>9, <1>10 DEF EntriesInv

\* A row is opened with the entry that waited or with none, and nothing waits
\* that a row has taken.
LEMMA NewRow ==
  ASSUME Known, EntriesInv,
         NEW source \in {"web", "remote", "rfid", "local"}, NEW tag \in Tags, NEW entry \in {0, pending},
         transactions' = Opened(source, tag, entry), Len(transactions) < MaxTxs,
         requests' = requests, timers' = timers,
         pending' = 0 \/ (pending' = pending /\ entry = 0)
  PROVE  Known' /\ EntriesInv' /\ Len(transactions') = Len(transactions) + 1
<1> DEFINE row == [tag |-> tag, source |-> source, entry |-> entry, status |-> "Active"]
           len == Len(transactions)
<1>1. len \in Nat /\ DOMAIN transactions = 1 .. len /\ transactions \in Seq(Transaction)
  BY DEF Known
<1>2. /\ AllClosed \in Seq(Transaction) /\ Len(AllClosed) = len
      /\ \A id \in 1 .. len : AllClosed[id].entry = transactions[id].entry
  BY <1>1, ClosingKeepsEntries
<1>3. entry \in 0 .. MaxRequests /\ entry \in 0 .. Len(requests)
  BY RemoteStartAssumption DEF Known
<1>4. row \in Transaction /\ row.entry = entry
  BY <1>3 DEF Transaction
<1>5. transactions' = Append(AllClosed, row)
  BY DEF Opened, AllClosed
<1> HIDE DEF row
<1>6. /\ transactions' \in Seq(Transaction)
      /\ DOMAIN transactions' = 1 .. (len + 1)
      /\ Len(transactions') = len + 1
      /\ transactions'[len + 1] = row
      /\ \A id \in 1 .. len : transactions'[id] = AllClosed[id]
  BY <1>1, <1>2, <1>4, <1>5
<1>7. Known'
  BY <1>1, <1>6, RemoteStartAssumption DEF Known
<1>8. PendingHasTimer'
  BY DEF EntriesInv, PendingHasTimer
<1>9. \A id \in 1 .. len : transactions'[id].entry = transactions[id].entry
  BY <1>2, <1>6
<1>10. \A id \in 1 .. len : entry # 0 => transactions[id].entry # entry
  BY <1>1 DEF EntriesInv, EntriesFresh
<1>11. \A id \in 1 .. (len + 1) : id \in 1 .. len \/ id = len + 1
  BY <1>1
<1>12. EntriesFresh'
  <2>1. \A id \in DOMAIN transactions' : transactions'[id].entry \in 0 .. Len(requests')
    BY <1>1, <1>3, <1>4, <1>6, <1>9, <1>11 DEF EntriesInv, EntriesFresh
  <2>2. pending' # 0 => \A id \in DOMAIN transactions' : transactions'[id].entry # pending'
    BY <1>1, <1>4, <1>6, <1>9, <1>11 DEF EntriesInv, EntriesFresh
  <2> QED BY <2>1, <2>2 DEF EntriesFresh
<1>13. EntryServesOnce'
  <2> SUFFICES ASSUME NEW a \in 1 .. (len + 1), NEW b \in 1 .. (len + 1),
                      transactions'[a].entry = transactions'[b].entry, transactions'[a].entry # 0
               PROVE  a = b
    BY <1>6 DEF EntryServesOnce
  <2>1. CASE a \in 1 .. len /\ b \in 1 .. len
    BY <1>1, <1>9, <2>1 DEF EntriesInv, EntryServesOnce
  <2>2. CASE a = len + 1 \/ b = len + 1
    BY <1>4, <1>6, <1>9, <1>10, <1>11, <2>2
  <2> QED BY <1>11, <2>1, <2>2
<1> QED BY <1>6, <1>7, <1>8, <1>12, <1>13 DEF EntriesInv
-----------------------------------------------------------------------------
(* Steps, and the theorems.                                                *)

\* StartTransaction: a row with the entry that waited, or no row and no entry.
LEMMA StartTransactionKeeps ==
  ASSUME Known, Outside, EntriesInv, NEW tag \in Tags, NEW answered \in BOOLEAN,
         StartTransaction(tag, answered)
  PROVE  Known' /\ Outside' /\ EntriesInv'
<1> DEFINE source == IF pending # 0 THEN requests[pending].source
                     ELSE IF mode = 3 THEN "local" ELSE "rfid"
<1>1. source \in {"web", "remote", "rfid", "local"}
  <2>1. CASE pending # 0
    <3>1. pending \in DOMAIN requests
      BY <2>1 DEF Known
    <3>2. requests[pending] \in Request
      BY <3>1 DEF Known
    <3> QED BY <2>1, <3>2 DEF Request
  <2>2. CASE pending = 0
    BY <2>2
  <2> QED BY <2>1, <2>2
<1>2. Len(transactions) \in Nat /\ Len(requests) \in Nat
  BY DEF Known
<1>3. /\ requests' = requests /\ timers' = timers /\ calls' = calls
      /\ version' = version /\ mode' = mode /\ cardAccepted' = cardAccepted
      /\ pending' = 0 /\ waiting' = NoWait /\ Len(transactions) < MaxTxs
      /\ transactions' = (IF Admitted(source, tag) THEN Opened(source, tag, pending) ELSE transactions)
      /\ session' = (IF ~answered THEN [phase |-> "unanswered", tag |-> tag, id |-> 0]
                     ELSE IF Admitted(source, tag)
                          THEN [phase |-> "running", tag |-> tag, id |-> Len(transactions) + 1]
                          ELSE NoSession)
  BY DEF StartTransaction, Taken, settings
<1> HIDE DEF source
<1>4. NoWait \in Waiting /\ NoWait.n <= Len(requests)
  BY <1>2, RemoteStartAssumption DEF NoWait, Waiting
<1>5. CASE Admitted(source, tag)
  <2>1. Known' /\ EntriesInv' /\ Len(transactions') = Len(transactions) + 1
    BY <1>1, <1>3, <1>5, NewRow
  <2>2. session' \in Session /\ session'.id <= Len(transactions) + 1
    BY <1>2, <1>3, <1>5, RemoteStartAssumption DEF Session
  <2>3. calls' \in Seq(Calls(Len(requests), Len(transactions) + 1))
    BY <1>2, <1>3, CallsGrow DEF Outside
  <2>4. Outside'
    BY <1>3, <1>4, <2>1, <2>2, <2>3 DEF Outside
  <2> QED BY <2>1, <2>4
<1>6. CASE ~Admitted(source, tag)
  <2>1. SameEntries /\ Waits
    BY <1>3, <1>6 DEF SameEntries, Waits, Known
  <2>2. Known' /\ EntriesInv'
    BY <1>3, <2>1, NoNewRow
  <2>3. session' \in Session /\ session'.id <= Len(transactions)
    BY <1>2, <1>3, <1>6, RemoteStartAssumption DEF Session, NoSession, Tags
  <2>4. Outside'
    BY <1>3, <1>4, <1>6, <2>3 DEF Outside
  <2> QED BY <2>2, <2>4
<1> QED BY <1>5, <1>6

\* Started of 2.0.1: a row without an entry, and the entry stays.
LEMMA StartedKeeps ==
  ASSUME Known, Outside, EntriesInv, NEW source \in {"remote", "rfid", "local"}, NEW tag \in Tags,
         Started(source, tag)
  PROVE  Known' /\ Outside' /\ EntriesInv'
<1>1. Len(transactions) \in Nat /\ Len(requests) \in Nat
  BY DEF Known
<1>2. /\ requests' = requests /\ timers' = timers /\ calls' = calls /\ pending' = pending
      /\ version' = version /\ mode' = mode /\ cardAccepted' = cardAccepted
      /\ waiting' = NoWait /\ Len(transactions) < MaxTxs
  BY DEF Started, settings
<1>3. NoWait \in Waiting /\ NoWait.n <= Len(requests)
  BY <1>1, RemoteStartAssumption DEF NoWait, Waiting
<1>4. CASE Admitted(source, tag)
  <2>1. /\ transactions' = Opened(source, tag, 0)
        /\ session' = [phase |-> "running", tag |-> tag, id |-> Len(transactions) + 1]
    BY <1>4 DEF Started
  <2>2. Known' /\ EntriesInv' /\ Len(transactions') = Len(transactions) + 1
    BY <1>2, <2>1, NewRow
  <2>3. session' \in Session /\ session'.id <= Len(transactions) + 1
    BY <1>1, <1>2, <2>1, RemoteStartAssumption DEF Session
  <2>4. calls' \in Seq(Calls(Len(requests), Len(transactions) + 1))
    BY <1>1, <1>2, CallsGrow DEF Outside
  <2>5. Outside'
    BY <1>2, <1>3, <2>2, <2>3, <2>4 DEF Outside
  <2> QED BY <2>2, <2>5
<1>5. CASE ~Admitted(source, tag)
  <2>1. transactions' = transactions /\ session' = session
    BY <1>5 DEF Started, started
  <2>2. SameEntries /\ Waits
    BY <1>2, <2>1 DEF SameEntries, Waits, Known
  <2>3. Known' /\ EntriesInv'
    BY <1>2, <2>2, NoNewRow
  <2>4. Outside'
    BY <1>2, <1>3, <2>1 DEF Outside
  <2> QED BY <2>3, <2>4
<1> QED BY <1>4, <1>5

\* The end of a session closes its row.
LEMMA EndKeeps ==
  ASSUME Known, Outside, EntriesInv,
         transactions' = Closed(session.id), session' = NoSession,
         calls' = calls \/ (calls # <<>> /\ calls' = Tail(calls)),
         UNCHANGED <<settings, requests, pending, timers, waiting>>
  PROVE  Known' /\ Outside' /\ EntriesInv'
<1>1. Len(transactions) \in Nat /\ Len(requests) \in Nat
  BY DEF Known
<1>2. session.id \in 0 .. Len(transactions)
  BY <1>1 DEF Outside, Session
<1>3. SameEntries
  BY <1>2, ClosedKeepsEntries DEF Known
<1>4. Known' /\ EntriesInv'
  BY <1>3, NoNewRow DEF Waits
<1>5. session' \in Session /\ session'.id <= Len(transactions)
  BY <1>1, RemoteStartAssumption DEF Session, NoSession, Tags
<1>6. calls' \in Seq(Calls(Len(requests), Len(transactions)))
  BY <1>1, CallsServed DEF Outside
<1>7. Outside'
  BY <1>3, <1>5, <1>6 DEF Outside, SameEntries, settings
<1> QED BY <1>4, <1>7

\* A step of the call queue, of a timer or of a manager that leaves the rows and
\* the session alone.
LEMMA QuietKeeps ==
  ASSUME Known, Outside, EntriesInv, Waits,
         requests' = requests, UNCHANGED <<version, started>>,
         mode' \in 1 .. 3, cardAccepted' \in BOOLEAN,
         calls' \in Seq(Calls(Len(requests), Len(transactions))),
         waiting' \in Waiting, waiting'.n <= Len(requests)
  PROVE  Known' /\ Outside' /\ EntriesInv'
<1>1. SameEntries
  BY DEF SameEntries, Known, started
<1>2. Known' /\ EntriesInv'
  BY <1>1, NoNewRow
<1>3. Outside'
  BY DEF Outside, started
<1> QED BY <1>2, <1>3

\* An answer takes its call off the queue; the charge point may now wait for the
\* session it named.
LEMMA AnswerKeeps ==
  ASSUME Known, Outside, EntriesInv, NEW accepted \in BOOLEAN, NEW seen \in BOOLEAN,
         Answered(accepted), Takes(seen) \/ UNCHANGED waiting
  PROVE  Known' /\ Outside' /\ EntriesInv'
<1>1. Len(transactions) \in Nat /\ Len(requests) \in Nat /\ Len(requests) <= MaxRequests
  BY DEF Known
<1>2. /\ Tail(calls) \in Seq(Calls(Len(requests), Len(transactions)))
      /\ Head(calls) \in Calls(Len(requests), Len(transactions))
      /\ Head(calls).method = "RequestStart"
  BY <1>1, CallsServed DEF Answered, Outside
<1>3. Head(calls).n \in 1 .. Len(requests)
  BY <1>2 DEF Calls
<1>4. waiting' \in Waiting /\ waiting'.n <= Len(requests)
  <2>1. CASE Takes(seen)
    BY <1>1, <1>3, <2>1, RemoteStartAssumption DEF Takes, Waiting
  <2>2. CASE UNCHANGED waiting
    BY <2>2 DEF Outside
  <2> QED BY <2>1, <2>2
<1>5. Waits
  BY DEF Answered, Waits
<1>6. requests' = requests /\ version' = version /\ mode' = mode /\ cardAccepted' = cardAccepted
      /\ calls' = Tail(calls) /\ UNCHANGED started
  BY DEF Answered, settings
<1> QED BY <1>2, <1>4, <1>5, <1>6, QuietKeeps DEF Outside

IInv == TypeOK /\ EntriesInv

LEMMA InitEstablishes == Init => IInv
<1> SUFFICES ASSUME Init PROVE IInv
  OBVIOUS
<1>1. Len(<<>>) = 0 /\ DOMAIN <<>> = {}
  OBVIOUS
<1>2. Known
  BY <1>1, RemoteStartAssumption DEF Init, Known
<1>3. waiting \in Waiting /\ waiting.n <= Len(requests)
  BY <1>1, RemoteStartAssumption DEF Init, NoWait, Waiting
<1>4. session \in Session /\ session.id <= Len(transactions)
  BY <1>1, RemoteStartAssumption DEF Init, NoSession, Session, Tags
<1>5. Outside
  BY <1>3, <1>4 DEF Init, Outside
<1>6. EntriesInv
  BY <1>1 DEF Init, EntriesInv, PendingHasTimer, EntriesFresh, EntryServesOnce
<1> QED BY <1>2, <1>5, <1>6, TypeInTwo DEF IInv

LEMMA NextKeeps == IInv /\ [Next]_vars => IInv'
<1> SUFFICES ASSUME IInv, [Next]_vars PROVE Known' /\ Outside' /\ EntriesInv'
  BY TypeInTwoNext DEF IInv
<1>1. Known /\ Outside /\ EntriesInv
  BY TypeInTwo DEF IInv
<1>2. Len(transactions) \in Nat /\ Len(requests) \in Nat /\ DOMAIN transactions = 1 .. Len(transactions)
  BY <1>1 DEF Known
<1>3. CASE UserStart
  BY <1>1, <1>3, NewRequest DEF UserStart, Tags, AutoTags
<1>4. CASE ManagerStart
  BY <1>1, <1>4, NewRequest DEF ManagerStart, Tags, AutoTags
<1>5. CASE PlugAndCharge16 \/ PlugAndCharge201
  BY <1>1, <1>5, NewRequest DEF PlugAndCharge16, PlugAndCharge201, Tags, AutoTags
<1>6. ASSUME NEW id \in DOMAIN transactions, UserStop(id) \/ ManagerStop(id)
      PROVE  Known' /\ Outside' /\ EntriesInv'
  <2>1. AskStop(id)
    BY <1>6 DEF UserStop, ManagerStop
  <2>2. Stop(id) \in Calls(Len(requests), Len(transactions))
    BY <1>2 DEF Stop, Calls
  <2>3. Append(calls, Stop(id)) \in Seq(Calls(Len(requests), Len(transactions)))
    BY <1>1, <1>2, <2>2, CallAdded DEF Outside
  <2> QED BY <1>1, <2>1, <2>3, QuietKeeps DEF AskStop, Outside, Waits, settings
<1>7. CASE StartAccepted \/ StartRefused \/ StartFailed
  BY <1>1, <1>7, AnswerKeeps DEF StartAccepted, StartRefused, StartFailed
<1>8. ASSUME NEW n \in timers, TimerFires(n)
      PROVE  Known' /\ Outside' /\ EntriesInv'
  BY <1>1, <1>8, QuietKeeps DEF TimerFires, Outside, Waits, settings
<1>9. CASE WaitEnds
  <2>1. NoWait \in Waiting /\ NoWait.n <= Len(requests)
    BY <1>2, RemoteStartAssumption DEF NoWait, Waiting
  <2> QED BY <1>1, <1>9, <2>1, QuietKeeps DEF WaitEnds, Outside, Waits, settings
<1>10. ASSUME NEW answered \in BOOLEAN,
              RemoteSession(answered) \/ CardSession(answered) \/ SendsAgain(answered)
       PROVE  Known' /\ Outside' /\ EntriesInv'
  <2>1. PICK tag \in Tags : StartTransaction(tag, answered)
    <3>1. CASE RemoteSession(answered)
      <4>1. waiting.n \in 1 .. Len(requests)
        BY <1>1, <1>2, <3>1 DEF RemoteSession, Outside, Waiting
      <4>2. requests[waiting.n] \in Request
        BY <1>1, <4>1 DEF Known
      <4> QED BY <3>1, <4>2 DEF RemoteSession, Request
    <3>2. CASE CardSession(answered)
      BY <3>2 DEF CardSession, Tags
    <3>3. CASE SendsAgain(answered)
      BY <1>1, <3>3 DEF SendsAgain, Outside, Session
    <3> QED BY <1>10, <3>1, <3>2, <3>3
  <2> QED BY <1>1, <2>1, StartTransactionKeeps
<1>11. CASE RemoteStarted
  <2>1. waiting.n \in 1 .. Len(requests)
    BY <1>1, <1>2, <1>11 DEF RemoteStarted, Outside, Waiting
  <2>2. requests[waiting.n] \in Request
    BY <1>1, <2>1 DEF Known
  <2>3. requests[waiting.n].tag \in Tags
    BY <2>2 DEF Request
  <2> QED BY <1>1, <1>11, <2>3, StartedKeeps DEF RemoteStarted
<1>12. CASE CardStarted
  BY <1>1, <1>12, StartedKeeps DEF CardStarted, Tags
<1>13. CASE SessionEnds
  BY <1>1, <1>13, EndKeeps DEF SessionEnds
<1>14. CASE StopServed
  <2>1. CASE session.phase = "running" /\ session.id = Head(calls).n
    BY <1>1, <1>14, <2>1, EndKeeps DEF StopServed
  <2>2. CASE ~(session.phase = "running" /\ session.id = Head(calls).n)
    <3>1. Tail(calls) \in Seq(Calls(Len(requests), Len(transactions)))
      BY <1>1, <1>2, <1>14, CallsServed DEF StopServed, Outside
    <3> QED BY <1>1, <1>14, <2>2, <3>1, QuietKeeps DEF StopServed, Outside, Waits, settings
  <2> QED BY <2>1, <2>2
<1>15. CASE StopFails
  <2>1. Tail(calls) \in Seq(Calls(Len(requests), Len(transactions)))
    BY <1>1, <1>2, <1>15, CallsServed DEF StopFails, Outside
  <2> QED BY <1>1, <1>15, <2>1, QuietKeeps DEF StopFails, Outside, Waits, settings
<1>16. CASE CardChanges
  BY <1>1, <1>16, QuietKeeps DEF CardChanges, Outside, Waits
<1>17. ASSUME NEW m \in 1 .. 3, SetMode(m)
       PROVE  Known' /\ Outside' /\ EntriesInv'
  BY <1>1, <1>17, QuietKeeps DEF SetMode, Outside, Waits
<1>18. CASE Restart
  <2>1. SameEntries
    BY <1>1, <1>18, ClosingKeepsEntries DEF Restart, AllClosed, SameEntries, Known
  <2>2. Known' /\ EntriesInv'
    BY <1>1, <1>18, <2>1, NoNewRow DEF Restart, Waits
  <2>3. <<>> \in Seq(Calls(Len(requests), Len(transactions)))
    OBVIOUS
  <2>4. Outside'
    BY <1>1, <1>18, <2>1, <2>3 DEF Restart, Outside, SameEntries, settings
  <2> QED BY <2>2, <2>4
<1>19. CASE UNCHANGED vars
  BY <1>1, <1>19 DEF vars, settings, started, Known, Outside, EntriesInv, PendingHasTimer,
     EntriesFresh, EntryServesOnce
<1> QED
  BY <1>3, <1>4, <1>5, <1>6, <1>7, <1>8, <1>9, <1>10, <1>11, <1>12, <1>13, <1>14, <1>15, <1>16,
     <1>17, <1>18, <1>19 DEF Next

\* Every variable keeps its kind: the entry, the timers, the calls and what the
\* charge point waits for name requests and rows that exist.
THEOREM TypeCorrect == Spec => []TypeOK
<1>1. IInv => TypeOK
  BY DEF IInv
<1> QED BY <1>1, InitEstablishes, NextKeeps, PTL DEF Spec

\* No entry of pendingRemoteStarts outlives its minute, however requests,
\* answers, timers, sessions and restarts follow each other.
THEOREM PendingAlwaysHasTimer == Spec => []PendingHasTimer
<1>1. IInv => PendingHasTimer
  BY DEF IInv, EntriesInv
<1> QED BY <1>1, InitEstablishes, NextKeeps, PTL DEF Spec

\* No two rows were let in by one remote start.
THEOREM EntryAlwaysServesOnce == Spec => []EntryServesOnce
<1>1. IInv => EntryServesOnce
  BY DEF IInv, EntriesInv
<1> QED BY <1>1, InitEstablishes, NextKeeps, PTL DEF Spec
=============================================================================

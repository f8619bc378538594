------------------------------ MODULE InitSequence ------------------------------
(***************************************************************************)
(* The configuration of one charge point: the sequence of calls that its   *)
(* BootNotification starts when it is not initialized, the requests of     *)
(* administrators that change the same keys meanwhile, and the table that  *)
(* mirrors what the charge point holds (chargepoint_config in 1.6,         *)
(* chargepoint_variables in 2.0.1).                                        *)
(*                                                                         *)
(* A client sends one call at a time and queues the rest.  Between two     *)
(* calls a sequence does not yield, so a lost connection finds it awaiting *)
(* a call, or the report of 2.0.1.                                         *)
(***************************************************************************)
EXTENDS Integers, Sequences

CONSTANTS Keys,      \* configuration keys, variables in 2.0.1
          Values,
          NoValue,   \* of a key without a row
          Default,   \* the enabled initial value of every key
          Factory,   \* what a charge point holds after a reset
          MaxBoots,  \* bound: BootNotifications
          MaxCalls   \* bound: length of the queue that a request may still join

\* The key of a call that is about none.
NoKey == "no key"

ASSUME InitSequenceAssumption ==
  /\ NoKey \notin Keys
  /\ Default \in Values /\ Factory \in Values
  /\ NoValue \notin Values
  /\ MaxBoots \in Nat /\ MaxCalls \in Nat

VARIABLES version,      \* ocpp_version of the charge point
          initialized,  \* chargepoints.initialized
          configs,      \* the rows of the table
          boots,        \* initSeqVersions: the last sequence begun
          sequences,    \* what each sequence is doing
          connected,    \* is there a client
          calls,        \* the client's queue; the head is on its way
          station,      \* what the charge point holds
          doubt,        \* keys of which a call was lost, all after a reset (history)
          steady        \* no connection was lost since the last boot (history)

vars == <<version, initialized, configs, boots, sequences, connected, calls, station,
          doubt, steady>>

Boots == 1 .. MaxBoots

\* Who awaits a call: a sequence, PUT config or cascade.
Admin == 0
Cascade == -1

Row == [value: Values \cup {NoValue}, locked: BOOLEAN]
NoRow == [value |-> NoValue, locked |-> FALSE]

\* "clear" stands for ClearCache and ClearChargingProfile.
Sequence == [at: {"none", "clear", "read", "report", "set", "lock", "done"},
             todo: SUBSET Keys, wanted: [Keys -> Values \cup {NoValue}],
             awaits: BOOLEAN, cut: BOOLEAN]

Nothing == [k \in Keys |-> NoValue]
Fresh == [at |-> "clear", todo |-> {}, wanted |-> Nothing, awaits |-> FALSE, cut |-> FALSE]
Unborn == [Fresh EXCEPT !.at = "none"]
Over == [Fresh EXCEPT !.at = "done"]

Init ==
  /\ version \in {"1.6", "2.0.1"}
  /\ initialized = FALSE
  /\ configs = [k \in Keys |-> NoRow]
  /\ boots = 0
  /\ sequences = [n \in Boots |-> Unborn]
  /\ connected = FALSE
  /\ calls = <<>>
  /\ station = [k \in Keys |-> Factory]
  /\ doubt = {}
  /\ steady = FALSE

-----------------------------------------------------------------------------
(* Calls.                                                                  *)

Call(by, op, key, value) ==
  [by |-> by, op |-> op, key |-> key, value |-> value, answer |-> "none"]

Awaited(by) == \E i \in 1 .. Len(calls) : calls[i].by = by

HasValue(k) == configs[k].value # NoValue

\* upsertChargepointConfig, upsertChargepointVariable: the lock is kept
Stored(k, value) == [configs EXCEPT ![k].value = value]

\* bulkUpsertChargepointConfig, NotifyReport
StoredAll(ks) ==
  [k \in Keys |-> IF k \in ks THEN [configs[k] EXCEPT !.value = station[k]] ELSE configs[k]]

-----------------------------------------------------------------------------
(* The sequence.                                                           *)

\* Mutant: a sequence goes on whatever boots later.
NeverSuperseded(n) == FALSE

\* isSuperseded
Superseded(n) == n # boots

\* Step 4 of 1.6 leaves out locked keys and those that have the value already.
Skipped(k) ==
  version = "1.6" /\ (configs[k].locked \/ configs[k].value = Default)

\* Mutant: every key, locked or not.
ReappliedAll == IF version = "1.6" THEN {} ELSE Keys

\* The rows that step 5 sends again.  In 1.6 each is compared with its own row,
\* read in the same turn, and never differs.
Reapplied == IF version = "1.6" THEN {} ELSE {k \in Keys : configs[k].locked}

\* The step after an answer, a failure or a report.
Advanced(s) ==
  [s EXCEPT !.awaits = FALSE,
            !.at = IF s.at = "clear" THEN "read"
                   ELSE IF s.at = "read" /\ version = "2.0.1" /\ ~s.cut THEN "report"
                   ELSE IF s.at \in {"read", "report"} THEN "set" ELSE s.at,
            !.todo = IF s.at = "report" \/ (s.at = "read" /\ (version = "1.6" \/ s.cut))
                     THEN Keys ELSE s.todo]

\* Mutant: the flag tells of the last call only.
CutForgotten(s, cut) == [s EXCEPT !.cut = cut]

\* disconnectedDuringInit
Failed(s, cut) == [s EXCEPT !.cut = s.cut \/ cut]

\* A call that fails; in 2.0.1 a lost connection ends the loop over the keys.
Aborted(s, cut) ==
  LET f == Advanced(Failed(s, cut)) IN
  IF cut /\ version = "2.0.1" /\ s.at \in {"set", "lock"} THEN [f EXCEPT !.todo = {}] ELSE f

\* A call that was answered.
Answered(s) == Advanced(Failed(s, FALSE))

Runs(n) == sequences[n].at \notin {"none", "done"} /\ ~sequences[n].awaits

\* A sequence that is superseded returns before its next call.
Return(n) ==
  /\ Runs(n) /\ sequences[n].at # "report" /\ Superseded(n)
  /\ sequences' = [sequences EXCEPT ![n] = Over]
  /\ UNCHANGED <<version, initialized, configs, boots, connected, calls, station, doubt, steady>>

\* callClient16, callClient201: without a client the call fails at once.
Sends(n, s, call) ==
  IF connected
  THEN /\ calls' = Append(calls, call)
       /\ sequences' = [sequences EXCEPT ![n] = [s EXCEPT !.awaits = TRUE]]
  ELSE /\ sequences' = [sequences EXCEPT ![n] = Aborted(s, TRUE)]
       /\ UNCHANGED calls

\* ClearCache, ClearChargingProfile, GetConfiguration, GetBaseReport
Ask(n) ==
  /\ Runs(n) /\ ~Superseded(n)
  /\ sequences[n].at \in {"clear", "read"}
  /\ Sends(n, sequences[n], Call(n, sequences[n].at, NoKey, NoValue))
  /\ UNCHANGED <<version, initialized, configs, boots, connected, station, doubt, steady>>

\* Mutant: no timer is set.
ReportOnly(got) == got = Keys

\* The whole report came, or 30 s passed with what had come.
ReportOver(got) == TRUE

\* The wait for the NotifyReports ends.
ReportEnds(n) ==
  /\ Runs(n) /\ sequences[n].at = "report"
  /\ \E got \in IF connected THEN SUBSET Keys ELSE {{}} :
       /\ ReportOver(got)
       /\ configs' = StoredAll(got)
       /\ doubt' = doubt \ got
  /\ sequences' = [sequences EXCEPT ![n] = Advanced(sequences[n])]
  /\ UNCHANGED <<version, initialized, boots, connected, calls, station, steady>>

\* ChangeConfiguration, SetVariables of an initial value
SetDefault(n) ==
  LET s == sequences[n] IN
  /\ Runs(n) /\ ~Superseded(n) /\ s.at = "set"
  /\ \E k \in s.todo :
       LET rest == [s EXCEPT !.todo = s.todo \ {k}] IN
       IF Skipped(k)
       THEN sequences' = [sequences EXCEPT ![n] = rest] /\ UNCHANGED calls
       ELSE Sends(n, rest, Call(n, "set", k, Default))
  /\ UNCHANGED <<version, initialized, configs, boots, connected, station, doubt, steady>>

\* getChargepointOverrideConfigs, getChargepointOverrideVariables
ReadLocks(n) ==
  /\ Runs(n) /\ ~Superseded(n)
  /\ sequences[n].at = "set" /\ sequences[n].todo = {}
  /\ sequences' = [sequences EXCEPT
       ![n] = [sequences[n] EXCEPT !.at = "lock", !.todo = Reapplied,
                                   !.wanted = [k \in Keys |-> IF k \in Reapplied THEN configs[k].value
                                                               ELSE NoValue]]]
  /\ UNCHANGED <<version, initialized, configs, boots, connected, calls, station, doubt, steady>>

SetLocked(n) ==
  LET s == sequences[n] IN
  /\ Runs(n) /\ ~Superseded(n) /\ s.at = "lock"
  /\ \E k \in s.todo :
       Sends(n, [s EXCEPT !.todo = s.todo \ {k}], Call(n, "lock", k, s.wanted[k]))
  /\ UNCHANGED <<version, initialized, configs, boots, connected, station, doubt, steady>>

\* markChargepointInitialized, unless a connection was lost on the way
Finish(n) ==
  /\ Runs(n) /\ ~Superseded(n)
  /\ sequences[n].at = "lock" /\ sequences[n].todo = {}
  /\ sequences' = [sequences EXCEPT ![n] = Over]
  /\ initialized' = (initialized \/ ~sequences[n].cut)
  /\ UNCHANGED <<version, configs, boots, connected, calls, station, doubt, steady>>

-----------------------------------------------------------------------------
(* Administrators.                                                         *)

\* PUT config/:key
PutConfig(k, value) ==
  /\ connected /\ ~Awaited(Admin) /\ Len(calls) < MaxCalls
  /\ calls' = Append(calls, Call(Admin, "set", k, value))
  /\ UNCHANGED <<version, initialized, configs, boots, sequences, connected, station, doubt,
                 steady>>

\* PATCH config/:key/override
SetOverride(k) ==
  /\ HasValue(k)
  /\ configs' = [configs EXCEPT ![k].locked = ~configs[k].locked]
  /\ UNCHANGED <<version, initialized, boots, sequences, connected, calls, station, doubt, steady>>

\* cascade-all and apply, of one key: only 1.6 leaves out locked keys.  Apply
\* sends a value again that the row has already.
CascadeKey(k) ==
  /\ connected /\ ~Awaited(Cascade) /\ Len(calls) < MaxCalls
  /\ version = "1.6" => ~configs[k].locked
  /\ calls' = Append(calls, Call(Cascade, "set", k, Default))
  /\ UNCHANGED <<version, initialized, configs, boots, sequences, connected, station, doubt,
                 steady>>

\* POST reinitialize, or cascade-all to a charge point that is offline
Reinitialize ==
  /\ initialized
  /\ initialized' = FALSE
  /\ UNCHANGED <<version, configs, boots, sequences, connected, calls, station, doubt, steady>>

-----------------------------------------------------------------------------
(* The charge point and its connection.                                    *)

Connect ==
  /\ ~connected
  /\ connected' = TRUE
  /\ UNCHANGED <<version, initialized, configs, boots, sequences, calls, station, doubt, steady>>

\* BootNotification; setImmediate sees whether it was initialized then
Boot ==
  /\ connected /\ boots < MaxBoots
  /\ boots' = boots + 1
  /\ sequences' = [sequences EXCEPT ![boots + 1] =
                     IF initialized THEN Over ELSE Fresh]
  /\ steady' = TRUE
  /\ UNCHANGED <<version, initialized, configs, connected, calls, station, doubt>>

\* Every call of the queue fails; those the charge point carried out are in
\* doubt.  A client that is replaced leaves its identity connected.  Assumed of the
\* library: it fails them all with a message that isDisconnectionError knows.
LoseConnection ==
  /\ connected
  /\ connected' \in BOOLEAN
  /\ calls' = <<>>
  /\ sequences' = [n \in Boots |->
       IF sequences[n].at \in {"none", "report", "done"} THEN sequences[n]
       ELSE IF sequences[n].awaits THEN Aborted(sequences[n], TRUE)
       ELSE Failed(sequences[n], TRUE)]
  /\ doubt' = doubt \cup {calls[i].key : i \in {j \in 1 .. Len(calls) :
                              calls[j].answer = "Accepted" /\ calls[j].key # NoKey}}
  /\ steady' = FALSE
  /\ UNCHANGED <<version, initialized, configs, boots, station>>

\* The charge point loses its configuration while it is away.
FactoryReset ==
  /\ ~connected
  /\ station' = [k \in Keys |-> Factory]
  /\ doubt' = Keys
  /\ UNCHANGED <<version, initialized, configs, boots, sequences, connected, calls, steady>>

\* The charge point carries out the call on its way, or refuses it.
Handle ==
  /\ calls # <<>> /\ Head(calls).answer = "none"
  /\ \E answer \in {"Accepted", "Rejected"} :
       /\ calls' = [calls EXCEPT ![1].answer = answer]
       /\ station' = IF answer = "Accepted" /\ Head(calls).op \in {"set", "lock"}
                     THEN [station EXCEPT ![Head(calls).key] = Head(calls).value]
                     ELSE station
  /\ UNCHANGED <<version, initialized, configs, boots, sequences, connected, doubt, steady>>

\* A request of an administrator has nothing to resume.
Resumed(by, s) == IF by \in Boots THEN [sequences EXCEPT ![by] = s] ELSE sequences

\* Mutant: 1.6 stores what it asked for, whatever the answer.
StoresAny(call) == call.op = "set"

\* The answers after which a value is stored: the PUT of 2.0.1 does not look.
Stores(call) ==
  /\ call.op = "set"
  /\ call.answer = "Accepted" \/ (version = "2.0.1" /\ call.by = Admin)

\* The answer is processed and the next call leaves.
Answer ==
  LET call == Head(calls) IN
  /\ calls # <<>> /\ call.answer # "none"
  /\ \E got \in IF call.op = "read" /\ version = "1.6" THEN SUBSET Keys ELSE {{}} :
       /\ configs' = IF Stores(call) THEN Stored(call.key, call.value) ELSE StoredAll(got)
       /\ doubt' = doubt \ (got \cup IF call.answer = "Accepted" /\ call.op = "set"
                                     THEN {call.key} ELSE {})
  /\ calls' = Tail(calls)
  /\ sequences' = Resumed(call.by, Answered(sequences[call.by]))
  /\ UNCHANGED <<version, initialized, boots, connected, station, steady>>

\* No answer within callTimeoutSeconds; the charge point may yet carry it out.
TimeOut ==
  LET call == Head(calls) IN
  /\ calls # <<>>
  /\ calls' = Tail(calls)
  /\ IF call.op \in {"set", "lock"}
     THEN /\ doubt' = doubt \cup {call.key}
          /\ station' \in {station, [station EXCEPT ![call.key] = call.value]}
     ELSE UNCHANGED <<doubt, station>>
  /\ sequences' = Resumed(call.by, Aborted(sequences[call.by], FALSE))
  /\ UNCHANGED <<version, initialized, configs, boots, connected, steady>>

-----------------------------------------------------------------------------
SequenceStep(n) ==
  Return(n) \/ Ask(n) \/ ReportEnds(n) \/ SetDefault(n) \/ ReadLocks(n) \/ SetLocked(n) \/ Finish(n)

AdminStep ==
  \/ \E k \in Keys : (\E v \in Values : PutConfig(k, v)) \/ SetOverride(k) \/ CascadeKey(k)
  \/ Reinitialize

StationStep ==
  Connect \/ Boot \/ LoseConnection \/ FactoryReset \/ Handle \/ Answer \/ TimeOut

Next == (\E n \in Boots : SequenceStep(n)) \/ AdminStep \/ StationStep

\* A sequence that can go on does, a report is waited for 30 s, and the first
\* call of the queue is answered or times out.
Fairness ==
  /\ \A n \in Boots : WF_vars(SequenceStep(n))
  /\ WF_vars(Answer \/ TimeOut)

Spec == Init /\ [][Next]_vars /\ Fairness

-----------------------------------------------------------------------------
(* Properties.                                                             *)

CallOK(call) ==
  /\ call.by \in Boots \cup {Admin, Cascade}
  /\ call.op \in {"clear", "read", "set", "lock"}
  /\ IF call.op \in {"set", "lock"} THEN call.key \in Keys /\ call.value \in Values
     ELSE call.key = NoKey
  /\ call.answer \in {"none", "Accepted", "Rejected"}

\* Rows, sequences and queued calls hold values of their kinds, and a sequence
\* awaits exactly the call it has in the queue.
TypeOK ==
  /\ version \in {"1.6", "2.0.1"}
  /\ initialized \in BOOLEAN /\ connected \in BOOLEAN /\ steady \in BOOLEAN
  /\ configs \in [Keys -> Row]
  /\ boots \in 0 .. MaxBoots
  /\ sequences \in [Boots -> Sequence]
  /\ \A i \in 1 .. Len(calls) : CallOK(calls[i])
  /\ station \in [Keys -> Values]
  /\ doubt \subseteq Keys
  /\ \A n \in Boots : sequences[n].awaits <=> Awaited(n)

\* In 1.6 a row holds what the charge point holds, except while the answer that
\* changes it is on its way, or when it is in doubt: a call on it was lost, or the
\* charge point was reset to its factory values, and it was neither set nor read
\* since.  However the calls of sequences, administrators and cascades interleave.
TableIsTheStations ==
  version = "1.6" =>
    \A k \in Keys : HasValue(k) /\ k \notin doubt
                      /\ (\A i \in 1 .. Len(calls) : calls[i].key = k => calls[i].answer # "Accepted")
                    => configs[k].value = station[k]

\* The calls of two sequences never alternate: one that was superseded awaits at
\* most the call it had sent, ahead of every call of the newer sequence.
SequencesDoNotMix ==
  \A i, j \in 1 .. Len(calls) :
    i < j /\ calls[i].by \in Boots /\ calls[j].by \in Boots => calls[i].by < calls[j].by

\* In 1.6 a charge point is only marked initialized by a sequence whose calls
\* all went over the connection it booted on: one that a lost or replaced
\* connection interrupted leaves it to the next boot, even when its later calls
\* went well.
MarkedOverOneConnection ==
  [][version = "1.6" /\ ~initialized /\ initialized' => steady]_vars

\* Every sequence comes to its end, whatever call or report is lost on the way.
SequenceEnds ==
  \A n \in Boots : sequences[n].at = "clear" ~> sequences[n].at = "done"

\* "Locked value - protected from being overwritten on re-init": what a sequence
\* sends for a locked key is the locked value.
LockedIsSent ==
  [][\A k \in Keys :
       /\ configs[k].locked /\ Len(calls') > Len(calls)
       /\ calls'[Len(calls')].by \in Boots /\ calls'[Len(calls')].key = k
       => calls'[Len(calls')].value = configs[k].value]_vars
=============================================================================

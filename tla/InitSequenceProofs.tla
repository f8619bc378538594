-------------------------- MODULE InitSequenceProofs --------------------------
(***************************************************************************)
(* For any keys, values and number of boots, and a queue of any length:    *)
(* whose calls are in the queue of the client, what the table of           *)
(* configuration mirrors, and what a charge point that is marked           *)
(* initialized went through.                                               *)
(***************************************************************************)
EXTENDS InitSequence, SequenceTheorems, TLAPS

CallRecord == [by: Boots \cup {Admin, Cascade}, op: {"clear", "read", "set", "lock"},
               key: Keys \cup {NoKey}, value: Values \cup {NoValue},
               answer: {"none", "Accepted", "Rejected"}]

\* Nobody awaits two calls.
AwaitedOnce == \A i, j \in 1 .. Len(calls) : i < j => calls[i].by # calls[j].by

\* The charge point handles one call at a time.
OnlyHeadAnswered == \A i \in 1 .. Len(calls) : i # 1 => calls[i].answer = "none"

\* Step 5 of 1.6 never sends anything.
NoLocksSent == version = "1.6" => \A i \in 1 .. Len(calls) : calls[i].op # "lock"

Queue ==
  /\ calls \in Seq(CallRecord)
  /\ \A i \in 1 .. Len(calls) : CallOK(calls[i])
  /\ AwaitedOnce
  /\ OnlyHeadAnswered
  /\ NoLocksSent
  /\ connected \/ calls = <<>>

SequenceFits(s) ==
  /\ s.awaits => s.at \in {"clear", "read", "set", "lock"}
  /\ s.at = "lock" => \A k \in s.todo : s.wanted[k] \in Values
  /\ version = "1.6" => s.at # "report" /\ (s.at = "lock" => s.todo = {})

\* A sequence that has not begun is none of the boots so far.
UnbornAreLater == \A n \in Boots : n > boots => sequences[n].at = "none"

\* Only a key that has a row can be locked.
LocksHaveValues == \A k \in Keys : configs[k].locked => HasValue(k)

IInv ==
  /\ TypeOK
  /\ Queue
  /\ \A n \in Boots : SequenceFits(sequences[n])
  /\ UnbornAreLater
  /\ LocksHaveValues
  /\ SequencesDoNotMix

\* What the last sequence has been through, in its own words.
UncutIsSteady ==
  version = "1.6" =>
    \A n \in Boots :
      n = boots /\ sequences[n].at \notin {"none", "done"} /\ ~sequences[n].cut => steady

-----------------------------------------------------------------------------
(* The queue.                                                              *)

\* What a step does to who is awaited.
NowAwaits(by) == \A other : Awaited(other)' <=> Awaited(other) \/ other = by
NoLongerAwaits(by) == \A other : Awaited(other)' <=> Awaited(other) /\ other # by

LEMMA Indices ==
  ASSUME Queue
  PROVE  /\ Len(calls) \in Nat
         /\ \A i \in 1 .. Len(calls) : calls[i] \in CallRecord
BY ElementOfSeq, LenProperties DEF Queue

\* A call joins the queue, behind those of earlier sequences.
LEMMA QueueAppend ==
  ASSUME Queue, SequencesDoNotMix,
         NEW call \in CallRecord, CallOK(call), call.answer = "none",
         version = "1.6" => call.op # "lock",
         ~Awaited(call.by), connected, UNCHANGED <<version, connected>>,
         call.by \in Boots => \A n \in Boots : Awaited(n) => n < call.by,
         calls' = Append(calls, call)
  PROVE  Queue' /\ SequencesDoNotMix' /\ NowAwaits(call.by)
<1>1. /\ calls' \in Seq(CallRecord) /\ Len(calls') = Len(calls) + 1 /\ Len(calls) \in Nat
      /\ \A i \in 1 .. Len(calls) : calls'[i] = calls[i]
      /\ calls'[Len(calls) + 1] = call
  BY Indices, AppendProperties DEF Queue
<1>2. ASSUME NEW i \in 1 .. Len(calls')
      PROVE  \/ i \in 1 .. Len(calls) /\ calls'[i] = calls[i]
             \/ i = Len(calls) + 1 /\ calls'[i] = call
  BY <1>1
<1>3. \A i \in 1 .. Len(calls) : calls[i].by # call.by
  BY DEF Awaited
<1>4. AwaitedOnce'
  <2> SUFFICES ASSUME NEW i \in 1 .. Len(calls'), NEW j \in 1 .. Len(calls'), i < j
               PROVE  calls'[i].by # calls'[j].by
    BY DEF AwaitedOnce
  <2>1. i \in 1 .. Len(calls) /\ calls'[i] = calls[i]
    BY <1>1
  <2> QED
    BY <1>2, <1>3, <2>1 DEF Queue, AwaitedOnce
<1>5. SequencesDoNotMix'
  <2> SUFFICES ASSUME NEW i \in 1 .. Len(calls'), NEW j \in 1 .. Len(calls'), i < j,
                      calls'[i].by \in Boots, calls'[j].by \in Boots
               PROVE  calls'[i].by < calls'[j].by
    BY DEF SequencesDoNotMix, Boots
  <2>1. i \in 1 .. Len(calls) /\ calls'[i] = calls[i]
    BY <1>1
  <2>2. Awaited(calls[i].by)
    BY <2>1 DEF Awaited
  <2> QED
    BY <1>2, <2>1, <2>2 DEF SequencesDoNotMix
<1>6. NowAwaits(call.by)
  BY <1>1, <1>2 DEF NowAwaits, Awaited
<1>7. \A i \in 1 .. Len(calls') : CallOK(calls'[i])
  BY <1>2 DEF Queue, CallOK, Boots
<1>8. OnlyHeadAnswered' /\ NoLocksSent'
  BY <1>1, <1>2 DEF Queue, OnlyHeadAnswered, NoLocksSent
<1> QED
  BY <1>1, <1>4, <1>5, <1>6, <1>7, <1>8 DEF Queue, CallRecord, Boots

\* The first call is answered, or times out.
LEMMA QueueTail ==
  ASSUME Queue, SequencesDoNotMix, calls # <<>>, UNCHANGED <<version, connected>>,
         calls' = Tail(calls)
  PROVE  Queue' /\ SequencesDoNotMix' /\ NoLongerAwaits(Head(calls).by)
<1>1. /\ calls' \in Seq(CallRecord) /\ Len(calls') = Len(calls) - 1 /\ Len(calls) \in Nat \ {0}
      /\ \A i \in 1 .. Len(calls') : calls'[i] = calls[i + 1]
      /\ Head(calls) = calls[1]
  BY HeadTailProperties, EmptySeq DEF Queue
<1>2. \A i \in 1 .. Len(calls') : i + 1 \in 1 .. Len(calls)
  BY <1>1
<1>3. AwaitedOnce' /\ SequencesDoNotMix'
  BY <1>1, <1>2 DEF Queue, AwaitedOnce, SequencesDoNotMix, Boots
<1>4. NoLongerAwaits(Head(calls).by)
  <2> SUFFICES ASSUME NEW other
               PROVE  Awaited(other)' <=> Awaited(other) /\ other # calls[1].by
    BY <1>1 DEF NoLongerAwaits
  <2>1. ASSUME NEW i \in 1 .. Len(calls'), calls'[i].by = other
        PROVE  Awaited(other) /\ other # calls[1].by
    <3>1. calls[i + 1].by = other /\ 1 < i + 1 /\ i + 1 \in 1 .. Len(calls) /\ 1 \in 1 .. Len(calls)
      BY <1>1, <1>2, <2>1
    <3> QED
      BY <3>1 DEF Queue, AwaitedOnce, Awaited
  <2>2. ASSUME NEW i \in 1 .. Len(calls), calls[i].by = other, other # calls[1].by
        PROVE  \E j \in 1 .. Len(calls') : calls'[j].by = other
    <3>1. i # 1
      BY <2>2
    <3>2. i - 1 \in 1 .. Len(calls') /\ calls'[i - 1] = calls[i]
      BY <1>1, <3>1
    <3> QED
      BY <2>2, <3>2
  <2> QED
    BY <2>1, <2>2 DEF Awaited
<1>5. \A i \in 1 .. Len(calls') : CallOK(calls'[i])
  BY <1>1, <1>2 DEF Queue, CallOK, Boots
<1>6. OnlyHeadAnswered' /\ NoLocksSent'
  BY <1>1, <1>2 DEF Queue, OnlyHeadAnswered, NoLocksSent
<1>7. connected
  BY DEF Queue
<1> QED
  BY <1>1, <1>3, <1>4, <1>5, <1>6, <1>7 DEF Queue, CallRecord, Boots

\* The charge point answers the first call.
LEMMA QueueHandled ==
  ASSUME Queue, SequencesDoNotMix, calls # <<>>, UNCHANGED <<version, connected>>,
         NEW answer \in {"Accepted", "Rejected"},
         calls' = [calls EXCEPT ![1].answer = answer]
  PROVE  /\ Queue' /\ SequencesDoNotMix'
         /\ \A other : Awaited(other)' <=> Awaited(other)
         /\ Len(calls') = Len(calls)
         /\ calls'[1] = [calls[1] EXCEPT !.answer = answer]
         /\ \A i \in 1 .. Len(calls) : i # 1 => calls'[i] = calls[i]
<1> DEFINE first == [calls[1] EXCEPT !.answer = answer]
<1>1. Len(calls) \in Nat \ {0} /\ 1 \in 1 .. Len(calls) /\ calls[1] \in CallRecord
  BY Indices, EmptySeq DEF Queue
<1>2. /\ first \in CallRecord /\ first.by = calls[1].by /\ first.op = calls[1].op
      /\ first.key = calls[1].key /\ first.value = calls[1].value /\ first.answer = answer
  BY <1>1 DEF CallRecord
<1>3. calls' = [calls EXCEPT ![1] = first]
  BY <1>1, LenProperties DEF Queue
<1> HIDE DEF first
<1>4. /\ calls' \in Seq(CallRecord) /\ Len(calls') = Len(calls)
      /\ \A i \in 1 .. Len(calls) : calls'[i] = IF i = 1 THEN first ELSE calls[i]
  BY <1>1, <1>2, <1>3, ExceptSeq DEF Queue
<1>5. \A i \in 1 .. Len(calls) : calls'[i].by = calls[i].by /\ calls'[i].op = calls[i].op
  BY <1>2, <1>4
<1>6. AwaitedOnce' /\ SequencesDoNotMix' /\ \A other : Awaited(other)' <=> Awaited(other)
  BY <1>4, <1>5 DEF Queue, AwaitedOnce, SequencesDoNotMix, Boots, Awaited
<1>7. \A i \in 1 .. Len(calls') : CallOK(calls'[i])
  BY <1>2, <1>4 DEF Queue, CallOK, Boots
<1>8. OnlyHeadAnswered' /\ NoLocksSent'
  BY <1>4, <1>5 DEF Queue, OnlyHeadAnswered, NoLocksSent
<1>9. connected
  BY DEF Queue
<1> QED
  BY <1>4, <1>6, <1>7, <1>8, <1>9 DEF first, Queue, CallRecord, Boots

\* Every call fails with its connection.
LEMMA QueueEmptied ==
  ASSUME Queue, calls' = <<>>
  PROVE  Queue' /\ SequencesDoNotMix' /\ \A other : ~Awaited(other)'
<1>1. calls' \in Seq(CallRecord) /\ Len(calls') = 0
  BY EmptySeq
<1> QED
  BY <1>1 DEF Queue, AwaitedOnce, OnlyHeadAnswered, NoLocksSent, SequencesDoNotMix, Awaited,
              CallRecord, Boots

-----------------------------------------------------------------------------
(* Sequences.                                                              *)

SequencesOK ==
  /\ sequences \in [Boots -> Sequence]
  /\ \A n \in Boots : sequences[n].awaits <=> Awaited(n)
  /\ \A n \in Boots : SequenceFits(sequences[n])
  /\ UnbornAreLater

LEMMA BootsAreNatural == \A n \in Boots : n \in Nat \ {0} /\ n # Admin /\ n # Cascade
BY InitSequenceAssumption DEF Boots, Admin, Cascade

\* Sequences before their first call and after their last.
LEMMA Ends ==
  /\ Fresh \in Sequence /\ Unborn \in Sequence /\ Over \in Sequence
  /\ SequenceFits(Fresh) /\ SequenceFits(Unborn) /\ SequenceFits(Over)
  /\ Fresh.at = "clear" /\ Unborn.at = "none" /\ Over.at = "done"
  /\ ~Fresh.awaits /\ ~Unborn.awaits /\ ~Over.awaits
<1>1. Fresh \in Sequence
  BY DEF Fresh, Sequence, Nothing
<1> QED
  BY <1>1 DEF Fresh, Unborn, Over, Sequence, SequenceFits

\* A lost connection only adds to what a sequence knows.
LEMMA FailedFits ==
  ASSUME NEW s \in Sequence, SequenceFits(s), NEW cut \in BOOLEAN
  PROVE  /\ Failed(s, cut) \in Sequence /\ SequenceFits(Failed(s, cut))
         /\ Failed(s, cut).at = s.at /\ Failed(s, cut).awaits = s.awaits
         /\ Failed(s, cut).cut = (s.cut \/ cut)
BY DEF Failed, Sequence, SequenceFits

\* A sequence goes on in order, and awaits nothing.
LEMMA AdvancedFits ==
  ASSUME NEW s \in Sequence, SequenceFits(s), s.at \notin {"none", "done"}
  PROVE  /\ Advanced(s) \in Sequence /\ SequenceFits(Advanced(s))
         /\ ~Advanced(s).awaits /\ Advanced(s).at \notin {"none", "done"}
         /\ Advanced(s).cut = s.cut
<1> DEFINE at == IF s.at = "clear" THEN "read"
                 ELSE IF s.at = "read" /\ version = "2.0.1" /\ ~s.cut THEN "report"
                 ELSE IF s.at \in {"read", "report"} THEN "set" ELSE s.at
           todo == IF s.at = "report" \/ (s.at = "read" /\ (version = "1.6" \/ s.cut))
                   THEN Keys ELSE s.todo
<1>1. Advanced(s) = [s EXCEPT !.awaits = FALSE, !.at = at, !.todo = todo]
  BY DEF Advanced
<1>2. /\ s.at \in {"clear", "read", "report", "set", "lock"} /\ s.todo \in SUBSET Keys
      /\ s.cut \in BOOLEAN /\ s.wanted \in [Keys -> Values \cup {NoValue}]
  BY DEF Sequence
<1>3. /\ at \in {"read", "report", "set", "lock"} /\ todo \in SUBSET Keys
      /\ at = "lock" => s.at = "lock" /\ todo = s.todo
      /\ version = "1.6" => at # "report"
  BY <1>2 DEF SequenceFits
<1> HIDE DEF at, todo
<1>4. /\ Advanced(s) \in Sequence /\ Advanced(s).at = at /\ Advanced(s).todo = todo
      /\ ~Advanced(s).awaits /\ Advanced(s).cut = s.cut /\ Advanced(s).wanted = s.wanted
  BY <1>1, <1>2, <1>3 DEF Sequence
<1> QED
  BY <1>3, <1>4 DEF SequenceFits

LEMMA AbortedFits ==
  ASSUME NEW s \in Sequence, SequenceFits(s), s.at \notin {"none", "done"}, NEW cut \in BOOLEAN
  PROVE  /\ Aborted(s, cut) \in Sequence /\ SequenceFits(Aborted(s, cut))
         /\ ~Aborted(s, cut).awaits /\ Aborted(s, cut).at \notin {"none", "done"}
         /\ Aborted(s, cut).cut = (s.cut \/ cut)
<1> DEFINE f == Advanced(Failed(s, cut))
<1>1. /\ f \in Sequence /\ SequenceFits(f) /\ ~f.awaits /\ f.at \notin {"none", "done"}
      /\ f.cut = (s.cut \/ cut)
  BY FailedFits, AdvancedFits
<1>2. Aborted(s, cut) \in {f, [f EXCEPT !.todo = {}]}
  BY DEF Aborted
<1> HIDE DEF f
<1>3. /\ [f EXCEPT !.todo = {}] \in Sequence /\ SequenceFits([f EXCEPT !.todo = {}])
      /\ ~[f EXCEPT !.todo = {}].awaits /\ [f EXCEPT !.todo = {}].at = f.at
      /\ [f EXCEPT !.todo = {}].cut = f.cut
  BY <1>1 DEF Sequence, SequenceFits
<1> QED
  BY <1>1, <1>2, <1>3

LEMMA AnsweredFits ==
  ASSUME NEW s \in Sequence, SequenceFits(s), s.at \notin {"none", "done"}
  PROVE  /\ Answered(s) \in Sequence /\ SequenceFits(Answered(s))
         /\ ~Answered(s).awaits /\ Answered(s).at \notin {"none", "done"}
         /\ Answered(s).cut = s.cut
<1> DEFINE f == Failed(s, FALSE)
<1>1. f \in Sequence /\ SequenceFits(f) /\ f.at = s.at /\ f.cut = (s.cut \/ FALSE)
  BY FailedFits
<1>2. f.cut = s.cut
  BY <1>1 DEF Sequence
<1>3. Answered(s) = Advanced(f)
  BY DEF Answered
<1> HIDE DEF f
<1> QED
  BY <1>1, <1>2, <1>3, AdvancedFits

\* One sequence goes on to s; whoever else awaits a call still does.
LEMMA SequenceUpdate ==
  ASSUME SequencesOK, UNCHANGED <<version, boots>>,
         NEW n \in Boots, sequences[n].at # "none",
         NEW s \in Sequence, SequenceFits(s), s.awaits <=> Awaited(n)',
         \A m \in Boots : m # n => (Awaited(m)' <=> Awaited(m)),
         sequences' = [sequences EXCEPT ![n] = s]
  PROVE  SequencesOK'
<1>1. sequences' \in [Boots -> Sequence]
  BY DEF SequencesOK, Boots
<1>2. \A m \in Boots : sequences'[m] = IF m = n THEN s ELSE sequences[m]
  BY DEF SequencesOK
<1>3. \A m \in Boots : SequenceFits(sequences[m])'
  BY <1>2 DEF SequencesOK, SequenceFits
<1> QED
  BY <1>1, <1>2, <1>3 DEF SequencesOK, UnbornAreLater, Boots

LEMMA SequencesStay ==
  ASSUME SequencesOK, UNCHANGED <<version, boots, sequences>>,
         \A n \in Boots : Awaited(n)' <=> Awaited(n)
  PROVE  SequencesOK'
<1>1. \A m \in Boots : SequenceFits(sequences[m])'
  BY DEF SequencesOK, SequenceFits
<1> QED
  BY <1>1 DEF SequencesOK, UnbornAreLater, Boots

-----------------------------------------------------------------------------
(* What a sequence does.                                                   *)

\* The part of the state that a sequence leaves alone when it only sends.
TableOK ==
  /\ configs \in [Keys -> Row]
  /\ station \in [Keys -> Values]
  /\ doubt \subseteq Keys
  /\ LocksHaveValues

FlagsOK ==
  /\ version \in {"1.6", "2.0.1"}
  /\ initialized \in BOOLEAN /\ connected \in BOOLEAN /\ steady \in BOOLEAN
  /\ boots \in 0 .. MaxBoots

LEMMA Parts ==
  IInv <=> FlagsOK /\ TableOK /\ Queue /\ SequencesOK /\ SequencesDoNotMix
BY DEF IInv, TypeOK, FlagsOK, TableOK, Queue, SequencesOK

LEMMA TableStays ==
  ASSUME TableOK, UNCHANGED <<configs, station, doubt>>
  PROVE  TableOK'
BY DEF TableOK, LocksHaveValues, HasValue

LEMMA FlagsStay ==
  ASSUME FlagsOK, UNCHANGED <<version, initialized, connected, boots, steady>>
  PROVE  FlagsOK'
BY DEF FlagsOK

LEMMA QueueStays ==
  ASSUME Queue, SequencesDoNotMix, UNCHANGED <<version, connected, calls>>
  PROVE  Queue' /\ SequencesDoNotMix' /\ \A by : Awaited(by)' <=> Awaited(by)
BY DEF Queue, SequencesDoNotMix, CallRecord, AwaitedOnce, OnlyHeadAnswered, NoLocksSent, Awaited,
       Boots, CallOK

\* The call of a sequence that runs is the last one of the queue, and sequences
\* before it are those of earlier boots.
LEMMA RunningIsLast ==
  ASSUME IInv, NEW n \in Boots, Runs(n), ~Superseded(n)
  PROVE  /\ n = boots /\ ~Awaited(n) /\ sequences[n] \in Sequence
         /\ SequenceFits(sequences[n])
         /\ \A m \in Boots : Awaited(m) => m < n
<1>1. SequencesOK /\ n = boots /\ ~Awaited(n)
  BY Parts DEF Runs, Superseded, SequencesOK
<1>2. ASSUME NEW m \in Boots, Awaited(m)
      PROVE  m < n
  <2>1. sequences[m].at # "none"
    BY <1>1, <1>2 DEF SequencesOK, SequenceFits
  <2>2. ~(m > boots) /\ m # n
    BY <1>1, <1>2, <2>1 DEF SequencesOK, UnbornAreLater
  <2> QED
    BY <1>1, <2>2, BootsAreNatural
<1> QED
  BY <1>1, <1>2 DEF SequencesOK

LEMMA SendsKeeps ==
  ASSUME IInv, NEW n \in Boots, Runs(n), ~Superseded(n),
         NEW s \in Sequence, SequenceFits(s), ~s.awaits, s.at \in {"clear", "read", "set", "lock"},
         NEW call \in CallRecord, CallOK(call), call.answer = "none", call.by = n,
         version = "1.6" => call.op # "lock",
         Sends(n, s, call),
         UNCHANGED <<version, initialized, configs, boots, connected, station, doubt, steady>>
  PROVE  IInv'
<1>1. FlagsOK' /\ TableOK'
  BY Parts, TableStays, FlagsStay
<1>2. Queue /\ SequencesOK /\ SequencesDoNotMix
  BY Parts
<1>3. CASE connected
  <2> DEFINE t == [s EXCEPT !.awaits = TRUE]
  <2>1. t \in Sequence /\ SequenceFits(t) /\ t.awaits
    BY DEF Sequence, SequenceFits
  <2>2. calls' = Append(calls, call) /\ sequences' = [sequences EXCEPT ![n] = t]
    BY <1>3 DEF Sends
  <2> HIDE DEF t
  <2>3. Queue' /\ SequencesDoNotMix' /\ NowAwaits(n)
    BY <1>2, <1>3, <2>2, RunningIsLast, QueueAppend
  <2>4. SequencesOK'
    BY <1>2, <2>1, <2>2, <2>3, SequenceUpdate DEF NowAwaits, Runs
  <2> QED
    BY <1>1, <2>3, <2>4, Parts, PTL
<1>4. CASE ~connected
  <2> DEFINE t == Aborted(s, TRUE)
  <2>1. t \in Sequence /\ SequenceFits(t) /\ ~t.awaits
    BY AbortedFits
  <2>2. calls' = calls /\ sequences' = [sequences EXCEPT ![n] = t]
    BY <1>4 DEF Sends
  <2> HIDE DEF t
  <2>3. Queue' /\ SequencesDoNotMix' /\ \A by : Awaited(by)' <=> Awaited(by)
    BY <1>2, <2>2, QueueStays
  <2>4. SequencesOK'
    BY <1>2, <2>1, <2>2, <2>3, RunningIsLast, SequenceUpdate DEF Runs
  <2> QED
    BY <1>1, <2>3, <2>4, Parts, PTL
<1> QED
  BY <1>3, <1>4

LEMMA PartsNext ==
  FlagsOK' /\ TableOK' /\ Queue' /\ SequencesOK' /\ SequencesDoNotMix' => IInv'
BY Parts, PTL

\* A sequence that goes on without a call.
LEMMA QuietKeeps ==
  ASSUME IInv, NEW n \in Boots, Runs(n),
         NEW s \in Sequence, SequenceFits(s), ~s.awaits,
         sequences' = [sequences EXCEPT ![n] = s],
         UNCHANGED <<version, boots, connected, calls>>,
         FlagsOK', TableOK'
  PROVE  IInv'
<1>1. Queue /\ SequencesOK /\ SequencesDoNotMix
  BY Parts
<1>2. Queue' /\ SequencesDoNotMix' /\ \A by : Awaited(by)' <=> Awaited(by)
  BY <1>1, QueueStays
<1>3. sequences[n].at # "none" /\ ~Awaited(n)
  BY <1>1 DEF Runs, SequencesOK
<1>4. SequencesOK'
  BY <1>1, <1>2, <1>3, SequenceUpdate
<1> QED
  BY <1>2, <1>4, PartsNext

\* Rows that take the values of the charge point, or keep theirs.
LEMMA StoredAllFits ==
  ASSUME TableOK, NEW ks \in SUBSET Keys, configs' = StoredAll(ks), UNCHANGED station,
         doubt' \subseteq Keys
  PROVE  TableOK'
<1>1. \A k \in Keys : configs[k] \in Row /\ station[k] \in Values
  BY DEF TableOK
<1>2. configs' \in [Keys -> Row]
  BY <1>1 DEF StoredAll, Row
<1>3. ASSUME NEW k \in Keys, configs'[k].locked
      PROVE  configs'[k].value # NoValue
  <2>1. \/ configs'[k] = configs[k]
        \/ configs'[k] = [configs[k] EXCEPT !.value = station[k]]
    BY DEF StoredAll
  <2>2. configs'[k].value \in {configs[k].value, station[k]} /\ configs[k].locked
    BY <1>1, <1>3, <2>1 DEF Row
  <2>3. configs'[k] = configs[k] => configs[k].value # NoValue
    BY <2>2 DEF TableOK, LocksHaveValues, HasValue
  <2>4. configs'[k] = [configs[k] EXCEPT !.value = station[k]] => configs'[k].value = station[k]
    BY <1>1 DEF Row
  <2> QED
    BY <1>1, <2>1, <2>3, <2>4, InitSequenceAssumption
<1> QED
  BY <1>2, <1>3 DEF TableOK, LocksHaveValues, HasValue

LEMMA ReturnKeeps ==
  ASSUME IInv, NEW n \in Boots, Return(n)
  PROVE  IInv'
BY Ends, QuietKeeps, Parts, FlagsStay, TableStays DEF Return

LEMMA AskKeeps ==
  ASSUME IInv, NEW n \in Boots, Ask(n)
  PROVE  IInv'
<1> DEFINE call == Call(n, sequences[n].at, NoKey, NoValue)
<1>1. /\ Runs(n) /\ ~Superseded(n) /\ Sends(n, sequences[n], call)
      /\ sequences[n].at \in {"clear", "read"}
      /\ UNCHANGED <<version, initialized, configs, boots, connected, station, doubt, steady>>
  BY DEF Ask
<1>2. call \in CallRecord /\ CallOK(call) /\ call.answer = "none" /\ call.by = n
      /\ call.op # "lock"
  BY <1>1 DEF Call, CallRecord, CallOK
<1>3. sequences[n] \in Sequence /\ SequenceFits(sequences[n]) /\ ~sequences[n].awaits
  BY <1>1, RunningIsLast DEF Runs
<1> HIDE DEF call
<1> QED
  BY <1>1, <1>2, <1>3, SendsKeeps

LEMMA ReportEndsKeeps ==
  ASSUME IInv, NEW n \in Boots, ReportEnds(n)
  PROVE  IInv'
<1>1. PICK got \in SUBSET Keys : configs' = StoredAll(got) /\ doubt' = doubt \ got
  BY DEF ReportEnds
<1>2. /\ Runs(n) /\ sequences' = [sequences EXCEPT ![n] = Advanced(sequences[n])]
      /\ UNCHANGED <<version, initialized, boots, connected, calls, station, steady>>
  BY DEF ReportEnds
<1>3. SequencesOK /\ TableOK /\ FlagsOK
  BY Parts
<1>4. /\ Advanced(sequences[n]) \in Sequence /\ SequenceFits(Advanced(sequences[n]))
      /\ ~Advanced(sequences[n]).awaits
  BY <1>2, <1>3, AdvancedFits DEF Runs, SequencesOK
<1>5. TableOK'
  BY <1>1, <1>2, <1>3, StoredAllFits DEF TableOK
<1> QED
  BY <1>2, <1>3, <1>4, <1>5, FlagsStay, QuietKeeps

\* What is left of a sequence that takes one key of its list.
LEMMA RestFits ==
  ASSUME NEW s \in Sequence, SequenceFits(s), NEW k \in s.todo
  PROVE  LET rest == [s EXCEPT !.todo = s.todo \ {k}] IN
         /\ rest \in Sequence /\ SequenceFits(rest) /\ rest.at = s.at /\ rest.awaits = s.awaits
         /\ rest.cut = s.cut
BY DEF Sequence, SequenceFits

LEMMA SetDefaultKeeps ==
  ASSUME IInv, NEW n \in Boots, SetDefault(n)
  PROVE  IInv'
<1> DEFINE s == sequences[n]
<1>1. PICK k \in s.todo :
        LET rest == [s EXCEPT !.todo = s.todo \ {k}] IN
        IF Skipped(k) THEN sequences' = [sequences EXCEPT ![n] = rest] /\ UNCHANGED calls
        ELSE Sends(n, rest, Call(n, "set", k, Default))
  BY DEF SetDefault
<1> DEFINE rest == [s EXCEPT !.todo = s.todo \ {k}]
           call == Call(n, "set", k, Default)
<1>2. /\ Runs(n) /\ ~Superseded(n) /\ s.at = "set" /\ ~s.awaits
      /\ UNCHANGED <<version, initialized, configs, boots, connected, station, doubt, steady>>
  BY DEF SetDefault, Runs
<1>3. s \in Sequence /\ SequenceFits(s)
  BY <1>2, RunningIsLast
<1>4. k \in Keys
  BY <1>3 DEF Sequence
<1>5. rest \in Sequence /\ SequenceFits(rest) /\ rest.at = "set" /\ ~rest.awaits
  BY <1>2, <1>3, RestFits
<1>6. call \in CallRecord /\ CallOK(call) /\ call.answer = "none" /\ call.by = n /\ call.op = "set"
  BY <1>4, InitSequenceAssumption DEF Call, CallRecord, CallOK
<1>7. \/ sequences' = [sequences EXCEPT ![n] = rest] /\ UNCHANGED calls
      \/ Sends(n, rest, call)
  BY <1>1
<1> HIDE DEF s, rest, call
<1>8. CASE sequences' = [sequences EXCEPT ![n] = rest] /\ UNCHANGED calls
  BY <1>2, <1>5, <1>8, QuietKeeps, Parts, FlagsStay, TableStays
<1>9. CASE Sends(n, rest, call)
  BY <1>2, <1>5, <1>6, <1>9, SendsKeeps
<1> QED
  BY <1>7, <1>8, <1>9

LEMMA ReadLocksKeeps ==
  ASSUME IInv, NEW n \in Boots, ReadLocks(n)
  PROVE  IInv'
<1> DEFINE s == sequences[n]
           wanted == [k \in Keys |-> IF k \in Reapplied THEN configs[k].value ELSE NoValue]
           t == [s EXCEPT !.at = "lock", !.todo = Reapplied, !.wanted = wanted]
<1>1. /\ Runs(n) /\ ~Superseded(n) /\ ~s.awaits /\ sequences' = [sequences EXCEPT ![n] = t]
      /\ UNCHANGED <<version, initialized, configs, boots, connected, calls, station, doubt, steady>>
  BY DEF ReadLocks, Runs
<1>2. s \in Sequence
  BY <1>1, RunningIsLast
<1>3. \A k \in Keys : configs[k].value \in Values \cup {NoValue}
  BY Parts DEF TableOK, Row
<1>4. wanted \in [Keys -> Values \cup {NoValue}] /\ Reapplied \subseteq Keys
  BY <1>3 DEF Reapplied
<1>5. \A k \in Reapplied : wanted[k] \in Values
  BY <1>3, Parts DEF Reapplied, TableOK, LocksHaveValues, HasValue
<1>6. version = "1.6" => Reapplied = {}
  BY DEF Reapplied
<1> HIDE DEF wanted
<1>7. /\ t \in Sequence /\ t.at = "lock" /\ t.todo = Reapplied /\ t.wanted = wanted
      /\ t.awaits = s.awaits
  BY <1>2, <1>4 DEF Sequence
<1>8. SequenceFits(t) /\ ~t.awaits
  BY <1>1, <1>5, <1>6, <1>7 DEF SequenceFits
<1> QED
  BY <1>1, <1>7, <1>8, QuietKeeps, Parts, FlagsStay, TableStays

LEMMA SetLockedKeeps ==
  ASSUME IInv, NEW n \in Boots, SetLocked(n)
  PROVE  IInv'
<1> DEFINE s == sequences[n]
<1>1. PICK k \in s.todo :
        Sends(n, [s EXCEPT !.todo = s.todo \ {k}], Call(n, "lock", k, s.wanted[k]))
  BY DEF SetLocked
<1> DEFINE rest == [s EXCEPT !.todo = s.todo \ {k}]
           call == Call(n, "lock", k, s.wanted[k])
<1>2. /\ Runs(n) /\ ~Superseded(n) /\ s.at = "lock" /\ ~s.awaits
      /\ UNCHANGED <<version, initialized, configs, boots, connected, station, doubt, steady>>
  BY DEF SetLocked, Runs
<1>3. s \in Sequence /\ SequenceFits(s)
  BY <1>2, RunningIsLast
<1>4. k \in Keys /\ s.wanted[k] \in Values /\ version # "1.6"
  BY <1>2, <1>3 DEF Sequence, SequenceFits
<1>5. rest \in Sequence /\ SequenceFits(rest) /\ rest.at = "lock" /\ ~rest.awaits
  BY <1>2, <1>3, RestFits
<1>6. call \in CallRecord /\ CallOK(call) /\ call.answer = "none" /\ call.by = n
  BY <1>4 DEF Call, CallRecord, CallOK
<1>7. Sends(n, rest, call)
  BY <1>1
<1> HIDE DEF s, rest, call
<1> QED
  BY <1>2, <1>4, <1>5, <1>6, <1>7, SendsKeeps

LEMMA FinishKeeps ==
  ASSUME IInv, NEW n \in Boots, Finish(n)
  PROVE  IInv'
<1>1. sequences[n].cut \in BOOLEAN
  BY RunningIsLast DEF Finish, Sequence
<1>2. FlagsOK' /\ TableOK'
  BY <1>1, Parts, TableStays DEF Finish, FlagsOK
<1> QED
  BY <1>2, Ends, QuietKeeps DEF Finish

-----------------------------------------------------------------------------
(* What administrators, the charge point and its connection do.            *)

\* A request of an administrator joins the queue.
LEMMA RequestKeeps ==
  ASSUME IInv, NEW by \in {Admin, Cascade}, NEW k \in Keys, NEW value \in Values,
         connected, ~Awaited(by),
         calls' = Append(calls, Call(by, "set", k, value)),
         UNCHANGED <<version, initialized, configs, boots, sequences, connected, station, doubt,
                     steady>>
  PROVE  IInv'
<1> DEFINE call == Call(by, "set", k, value)
<1>1. /\ call \in CallRecord /\ CallOK(call) /\ call.answer = "none" /\ call.by = by
      /\ call.op = "set" /\ calls' = Append(calls, call)
  BY DEF Call, CallRecord, CallOK
<1> HIDE DEF call
<1>2. by \notin Boots
  BY BootsAreNatural
<1>3. Queue' /\ SequencesDoNotMix' /\ NowAwaits(by)
  BY <1>1, <1>2, Parts, QueueAppend
<1>4. SequencesOK'
  BY <1>2, <1>3, Parts, SequencesStay DEF NowAwaits
<1> QED
  BY <1>3, <1>4, Parts, PartsNext, FlagsStay, TableStays

LEMMA AdminKeeps ==
  ASSUME IInv, AdminStep
  PROVE  IInv'
<1>1. CASE \E k \in Keys : \E v \in Values : PutConfig(k, v)
  BY <1>1, RequestKeeps DEF PutConfig
<1>2. CASE \E k \in Keys : CascadeKey(k)
  BY <1>2, RequestKeeps, InitSequenceAssumption DEF CascadeKey
<1>3. CASE \E k \in Keys : SetOverride(k)
  <2>1. PICK k \in Keys : SetOverride(k)
    BY <1>3
  <2>2. TableOK'
    <3>1. configs[k] \in Row /\ configs[k].value # NoValue
      BY <2>1, Parts DEF TableOK, SetOverride, HasValue
    <3> DEFINE row == [configs[k] EXCEPT !.locked = ~configs[k].locked]
    <3>2. row \in Row /\ row.value = configs[k].value
      BY <3>1 DEF Row
    <3>3. configs' = [configs EXCEPT ![k] = row]
      BY <2>1, Parts DEF SetOverride, TableOK
    <3> HIDE DEF row
    <3> QED
      BY <2>1, <3>1, <3>2, <3>3, Parts DEF SetOverride, TableOK, LocksHaveValues, HasValue
  <2> QED
    BY <2>1, <2>2, Parts, PartsNext, FlagsStay, QueueStays, SequencesStay DEF SetOverride
<1>4. CASE Reinitialize
  <2>1. FlagsOK'
    BY <1>4, Parts DEF Reinitialize, FlagsOK
  <2> QED
    BY <1>4, <2>1, Parts, PartsNext, TableStays, QueueStays, SequencesStay DEF Reinitialize
<1> QED
  BY <1>1, <1>2, <1>3, <1>4 DEF AdminStep

LEMMA ConnectKeeps ==
  ASSUME IInv, Connect
  PROVE  IInv'
<1>1. FlagsOK'
  BY Parts DEF Connect, FlagsOK
<1>2. Queue' /\ SequencesDoNotMix' /\ \A by : Awaited(by)' <=> Awaited(by)
  <2>1. calls = <<>> /\ calls' = <<>>
    BY Parts DEF Connect, Queue
  <2> QED
    BY <2>1, Parts, QueueEmptied DEF Awaited
<1> QED
  BY <1>1, <1>2, Parts, PartsNext, TableStays, SequencesStay DEF Connect

\* A boot whose charge point is initialized starts nothing.
LEMMA BootKeeps ==
  ASSUME IInv, Boot
  PROVE  IInv'
<1> DEFINE s == IF initialized THEN Over ELSE Fresh
<1>1. s \in Sequence /\ SequenceFits(s) /\ ~s.awaits
  BY Ends
<1>2. sequences' = [sequences EXCEPT ![boots + 1] = s] /\ boots' = boots + 1 /\ boots' \in Boots
  BY Parts, InitSequenceAssumption DEF Boot, FlagsOK, Boots
<1> HIDE DEF s
<1>3. FlagsOK'
  BY Parts, InitSequenceAssumption DEF Boot, FlagsOK
<1>4. Queue' /\ SequencesDoNotMix' /\ \A by : Awaited(by)' <=> Awaited(by)
  BY Parts, QueueStays DEF Boot
<1>5. \A n \in Boots : sequences'[n] = IF n = boots + 1 THEN s ELSE sequences[n]
  BY <1>2, Parts DEF SequencesOK
<1>6. ~Awaited(boots + 1)
  <2>1. sequences[boots + 1].at = "none"
    BY <1>2, Parts DEF SequencesOK, UnbornAreLater, FlagsOK
  <2> QED
    BY <1>2, <2>1, Parts DEF SequencesOK, SequenceFits
<1>7. SequencesOK'
  <2>1. sequences' \in [Boots -> Sequence]
    BY <1>1, <1>2, Parts DEF SequencesOK
  <2>2. \A n \in Boots : sequences'[n].awaits <=> Awaited(n)'
    BY <1>1, <1>2, <1>4, <1>5, <1>6, Parts DEF SequencesOK
  <2>3. \A n \in Boots : SequenceFits(sequences[n])'
    BY <1>1, <1>5, Parts DEF SequencesOK, SequenceFits, Boot
  <2>4. UnbornAreLater'
    BY <1>2, <1>5, Parts DEF SequencesOK, UnbornAreLater, Boots, FlagsOK
  <2> QED
    BY <2>1, <2>2, <2>3, <2>4 DEF SequencesOK, Boots
<1> QED
  BY <1>3, <1>4, <1>7, Parts, PartsNext, TableStays DEF Boot

\* Where a lost connection finds a sequence.
Cut(s) ==
  IF s.at \in {"none", "report", "done"} THEN s
  ELSE IF s.awaits THEN Aborted(s, TRUE) ELSE Failed(s, TRUE)

LEMMA CutFits ==
  ASSUME NEW s \in Sequence, SequenceFits(s)
  PROVE  /\ Cut(s) \in Sequence /\ SequenceFits(Cut(s)) /\ ~Cut(s).awaits
         /\ s.at = "none" => Cut(s).at = "none"
         /\ s.at \notin {"none", "report", "done"} => Cut(s).cut
<1>1. s.awaits => s.at \in {"clear", "read", "set", "lock"}
  BY DEF SequenceFits
<1>2. CASE s.at \in {"none", "report", "done"}
  BY <1>1, <1>2 DEF Cut
<1>3. CASE s.at \notin {"none", "report", "done"} /\ s.awaits
  BY <1>3, AbortedFits DEF Cut
<1>4. CASE s.at \notin {"none", "report", "done"} /\ ~s.awaits
  BY <1>4, FailedFits DEF Cut
<1> QED
  BY <1>2, <1>3, <1>4

LEMMA LoseConnectionKeeps ==
  ASSUME IInv, LoseConnection
  PROVE  IInv'
<1>1. Queue' /\ SequencesDoNotMix' /\ \A by : ~Awaited(by)'
  BY Parts, QueueEmptied DEF LoseConnection
<1>2. sequences' = [n \in Boots |-> Cut(sequences[n])] /\ UNCHANGED <<version, boots>>
  BY DEF LoseConnection, Cut
<1>3. \A n \in Boots : /\ Cut(sequences[n]) \in Sequence /\ SequenceFits(Cut(sequences[n]))
                       /\ ~Cut(sequences[n]).awaits
                       /\ sequences[n].at = "none" => Cut(sequences[n]).at = "none"
  BY Parts, CutFits DEF SequencesOK
<1>4. SequencesOK'
  <2>1. sequences' \in [Boots -> Sequence] /\ \A n \in Boots : sequences'[n] = Cut(sequences[n])
    BY <1>2, <1>3
  <2>2. \A n \in Boots : SequenceFits(sequences[n])'
    BY <1>2, <1>3, <2>1 DEF SequenceFits
  <2> QED
    BY <1>1, <1>2, <1>3, <2>1, <2>2, Parts DEF SequencesOK, UnbornAreLater, Boots
<1>5. TableOK'
  <2>1. \A i \in 1 .. Len(calls) : calls[i].key \in Keys \cup {NoKey}
    BY Parts, Indices DEF CallRecord
  <2>2. doubt' \subseteq Keys
    BY <2>1, Parts DEF LoseConnection, TableOK
  <2> QED
    BY <2>2, Parts DEF LoseConnection, TableOK, LocksHaveValues, HasValue
<1>6. FlagsOK'
  BY Parts DEF LoseConnection, FlagsOK
<1> QED
  BY <1>1, <1>4, <1>5, <1>6, PartsNext

LEMMA FactoryResetKeeps ==
  ASSUME IInv, FactoryReset
  PROVE  IInv'
<1>1. TableOK'
  BY Parts, InitSequenceAssumption DEF FactoryReset, TableOK, LocksHaveValues, HasValue
<1> QED
  BY <1>1, Parts, PartsNext, FlagsStay, QueueStays, SequencesStay DEF FactoryReset

\* The first call of the queue.
LEMMA HeadIsFirst ==
  ASSUME Queue, calls # <<>>
  PROVE  /\ Head(calls) = calls[1] /\ Head(calls) \in CallRecord /\ CallOK(Head(calls))
         /\ 1 \in 1 .. Len(calls) /\ connected
         /\ Awaited(Head(calls).by)
         /\ Head(calls).op \in {"set", "lock"} => Head(calls).key \in Keys /\ Head(calls).value \in Values
<1>1. Head(calls) = calls[1] /\ 1 \in 1 .. Len(calls)
  BY HeadTailProperties, EmptySeq DEF Queue
<1> QED
  BY <1>1, Indices DEF Queue, CallOK, Awaited

LEMMA HandleKeeps ==
  ASSUME IInv, Handle
  PROVE  IInv'
<1> DEFINE call == Head(calls)
<1>1. PICK answer \in {"Accepted", "Rejected"} :
        /\ calls' = [calls EXCEPT ![1].answer = answer]
        /\ station' = IF answer = "Accepted" /\ call.op \in {"set", "lock"}
                      THEN [station EXCEPT ![call.key] = call.value] ELSE station
  BY DEF Handle
<1>2. /\ calls # <<>>
      /\ UNCHANGED <<version, initialized, configs, boots, sequences, connected, doubt, steady>>
  BY DEF Handle
<1>3. Queue' /\ SequencesDoNotMix' /\ \A by : Awaited(by)' <=> Awaited(by)
  BY <1>1, <1>2, Parts, QueueHandled
<1>4. TableOK'
  BY <1>1, <1>2, HeadIsFirst, Parts DEF TableOK, LocksHaveValues, HasValue
<1> QED
  BY <1>2, <1>3, <1>4, Parts, PartsNext, FlagsStay, SequencesStay

\* The one whose call has returned goes on, with what the answer made of it.
LEMMA ReturnsKeep ==
  ASSUME IInv, calls # <<>>, calls' = Tail(calls), UNCHANGED <<version, boots, connected>>,
         NEW s, sequences' = Resumed(Head(calls).by, s),
         Head(calls).by \in Boots =>
           s \in Sequence /\ SequenceFits(s) /\ ~s.awaits,
         FlagsOK', TableOK'
  PROVE  IInv'
<1> DEFINE by == Head(calls).by
<1>1. Queue' /\ SequencesDoNotMix' /\ NoLongerAwaits(by)
  BY Parts, QueueTail
<1>2. Awaited(by)
  BY Parts, HeadIsFirst
<1>3. CASE by \in Boots
  <2>1. sequences[by].at # "none"
    BY <1>2, <1>3, Parts DEF SequencesOK, SequenceFits
  <2>2. sequences' = [sequences EXCEPT ![by] = s]
    BY <1>3 DEF Resumed
  <2>3. s \in Sequence /\ SequenceFits(s) /\ ~s.awaits
    BY <1>3
  <2> HIDE DEF by
  <2>4. SequencesOK'
    BY <1>1, <1>3, <2>1, <2>2, <2>3, Parts, SequenceUpdate DEF NoLongerAwaits
  <2> QED
    BY <1>1, <2>4, PartsNext
<1>4. CASE by \notin Boots
  <2>1. UNCHANGED sequences
    BY <1>4 DEF Resumed
  <2> HIDE DEF by
  <2>2. \A n \in Boots : Awaited(n)' <=> Awaited(n)
    BY <1>1, <1>4 DEF NoLongerAwaits
  <2>3. SequencesOK'
    BY <2>1, <2>2, Parts, SequencesStay
  <2> QED
    BY <1>1, <2>3, PartsNext
<1> QED
  BY <1>3, <1>4

\* A sequence whose call is in the queue is on its way.
LEMMA AwaitingRuns ==
  ASSUME IInv, NEW n \in Boots, Awaited(n)
  PROVE  /\ sequences[n] \in Sequence /\ SequenceFits(sequences[n])
         /\ sequences[n].at \notin {"none", "done"}
BY Parts DEF SequencesOK, SequenceFits

LEMMA AnswerKeeps ==
  ASSUME IInv, Answer
  PROVE  IInv'
<1> DEFINE call == Head(calls)
<1>1. PICK got \in SUBSET Keys :
        /\ configs' = IF Stores(call) THEN Stored(call.key, call.value) ELSE StoredAll(got)
        /\ doubt' = doubt \ (got \cup IF call.answer = "Accepted" /\ call.op = "set"
                                      THEN {call.key} ELSE {})
  BY DEF Answer
<1>2. /\ calls # <<>> /\ calls' = Tail(calls)
      /\ sequences' = Resumed(call.by, Answered(sequences[call.by]))
      /\ UNCHANGED <<version, initialized, boots, connected, station, steady>>
  BY DEF Answer
<1>3. TableOK'
  <2>1. CASE Stores(call)
    <3>1. call.key \in Keys /\ call.value \in Values
      BY <1>2, <2>1, Parts, HeadIsFirst DEF Stores
    <3>2. configs' = [configs EXCEPT ![call.key].value = call.value]
      BY <1>1, <2>1 DEF Stored
    <3> DEFINE row == [configs[call.key] EXCEPT !.value = call.value]
    <3>3. row \in Row /\ row.value = call.value /\ configs' = [configs EXCEPT ![call.key] = row]
      BY <3>1, <3>2, Parts DEF TableOK, Row
    <3> HIDE DEF call, row
    <3>4. configs' \in [Keys -> Row]
      BY <3>1, <3>3, Parts DEF TableOK
    <3>5. \A k \in Keys : configs'[k].locked => configs'[k].value # NoValue
      BY <3>1, <3>3, Parts, InitSequenceAssumption DEF TableOK, LocksHaveValues, HasValue
    <3>6. doubt' \subseteq Keys
      BY <1>1, Parts DEF TableOK
    <3> QED
      BY <1>2, <3>4, <3>5, <3>6, Parts DEF TableOK, LocksHaveValues, HasValue
  <2>2. CASE ~Stores(call)
    BY <1>1, <1>2, <2>2, Parts, StoredAllFits DEF TableOK
  <2> QED
    BY <2>1, <2>2
<1>4. call.by \in Boots => /\ Answered(sequences[call.by]) \in Sequence
                           /\ SequenceFits(Answered(sequences[call.by]))
                           /\ ~Answered(sequences[call.by]).awaits
  BY <1>2, Parts, HeadIsFirst, AwaitingRuns, AnsweredFits
<1> HIDE DEF call
<1>5. FlagsOK'
  BY <1>2, Parts, FlagsStay
<1> QED
  BY <1>2, <1>3, <1>4, <1>5, ReturnsKeep DEF call

LEMMA TimeOutKeeps ==
  ASSUME IInv, TimeOut
  PROVE  IInv'
<1> DEFINE call == Head(calls)
<1>1. /\ calls # <<>> /\ calls' = Tail(calls)
      /\ sequences' = Resumed(call.by, Aborted(sequences[call.by], FALSE))
      /\ UNCHANGED <<version, initialized, configs, boots, connected, steady>>
  BY DEF TimeOut
<1>2. TableOK'
  BY <1>1, HeadIsFirst, Parts DEF TimeOut, TableOK, LocksHaveValues, HasValue
<1>3. call.by \in Boots => /\ Aborted(sequences[call.by], FALSE) \in Sequence
                           /\ SequenceFits(Aborted(sequences[call.by], FALSE))
                           /\ ~Aborted(sequences[call.by], FALSE).awaits
  BY <1>1, Parts, HeadIsFirst, AwaitingRuns, AbortedFits
<1> HIDE DEF call
<1>4. FlagsOK'
  BY <1>1, Parts, FlagsStay
<1> QED
  BY <1>1, <1>2, <1>3, <1>4, ReturnsKeep DEF call

-----------------------------------------------------------------------------
LEMMA InitIInv == Init => IInv
<1> SUFFICES ASSUME Init PROVE IInv
  OBVIOUS
<1>1. calls \in Seq(CallRecord) /\ Len(calls) = 0
  BY EmptySeq DEF Init
<1>2. Queue /\ SequencesDoNotMix /\ \A by : ~Awaited(by)
  BY <1>1 DEF Init, Queue, AwaitedOnce, OnlyHeadAnswered, NoLocksSent, SequencesDoNotMix, Awaited
<1>3. SequencesOK
  BY <1>2, Ends DEF Init, SequencesOK, UnbornAreLater
<1>4. TableOK
  BY InitSequenceAssumption DEF Init, TableOK, LocksHaveValues, HasValue, NoRow, Row
<1>5. FlagsOK
  <2>1. boots \in 0 .. MaxBoots
    BY InitSequenceAssumption DEF Init
  <2> QED
    BY <2>1 DEF Init, FlagsOK
<1> QED
  BY <1>2, <1>3, <1>4, <1>5, Parts

LEMMA NextKeeps ==
  ASSUME IInv, [Next]_vars
  PROVE  IInv'
<1>1. CASE \E n \in Boots : SequenceStep(n)
  BY <1>1, ReturnKeeps, AskKeeps, ReportEndsKeeps, SetDefaultKeeps, ReadLocksKeeps, SetLockedKeeps,
     FinishKeeps DEF SequenceStep
<1>2. CASE StationStep
  BY <1>2, ConnectKeeps, BootKeeps, LoseConnectionKeeps, FactoryResetKeeps, HandleKeeps,
     AnswerKeeps, TimeOutKeeps DEF StationStep
<1>3. CASE UNCHANGED vars
  BY <1>3, Parts, PartsNext, FlagsStay, TableStays, QueueStays, SequencesStay DEF vars
<1> QED
  BY <1>1, <1>2, <1>3, AdminKeeps DEF Next

LEMMA Invariance == Spec => []IInv
<1>1. IInv /\ [Next]_vars => IInv'
  BY NextKeeps
<1> QED
  BY <1>1, InitIInv, PTL DEF Spec

\* Rows, sequences and queued calls hold values of their kinds, and a sequence
\* awaits exactly the call it has in the queue, however many boots overlap.
THEOREM TypeCorrect == Spec => []TypeOK
<1>1. IInv => TypeOK
  BY DEF IInv
<1> QED
  BY <1>1, Invariance, PTL

\* The calls of two boot sequences never alternate: isSuperseded is looked at
\* before every call, and the client sends them in order.
THEOREM SequencesNeverMix == Spec => []SequencesDoNotMix
<1>1. IInv => SequencesDoNotMix
  BY DEF IInv
<1> QED
  BY <1>1, Invariance, PTL

-----------------------------------------------------------------------------
(* The table and the charge point.                                         *)

\* The calls whose answer is on its way.
AcceptedCalls ==
  {calls[i] : i \in {j \in 1 .. Len(calls) : calls[j].answer = "Accepted"}}

\* A row that is not in doubt mirrors the charge point until an answer is on its
\* way, and what was accepted is on the charge point.
Mirrors ==
  version = "1.6" =>
    \A k \in Keys :
      /\ HasValue(k) /\ k \notin doubt /\ (\A call \in AcceptedCalls : call.key # k)
           => configs[k].value = station[k]
      /\ \A call \in AcceptedCalls : call.op = "set" /\ call.key = k => station[k] = call.value

LEMMA MirrorsIsStronger == Mirrors => TableIsTheStations
<1>1. \A call : call \in AcceptedCalls <=>
                  \E i \in 1 .. Len(calls) : calls[i].answer = "Accepted" /\ call = calls[i]
  BY DEF AcceptedCalls
<1> QED
  BY <1>1 DEF Mirrors, TableIsTheStations

\* Steps that only change the queue by calls without an answer.
LEMMA SameMirrors ==
  ASSUME Mirrors, AcceptedCalls' = AcceptedCalls, UNCHANGED <<version, configs, station, doubt>>
  PROVE  Mirrors'
BY DEF Mirrors, HasValue

LEMMA AppendAccepts ==
  ASSUME Queue, NEW call \in CallRecord, call.answer = "none", calls' = Append(calls, call)
  PROVE  AcceptedCalls' = AcceptedCalls
<1>1. /\ Len(calls') = Len(calls) + 1 /\ Len(calls) \in Nat
      /\ \A i \in 1 .. Len(calls) : calls'[i] = calls[i]
      /\ calls'[Len(calls) + 1] = call
  BY Indices, AppendProperties DEF Queue
<1> QED
  BY <1>1 DEF AcceptedCalls

LEMMA SameAccepts ==
  ASSUME UNCHANGED calls
  PROVE  AcceptedCalls' = AcceptedCalls
BY DEF AcceptedCalls

\* Only the first call is ever answered.
LEMMA AcceptedIsHead ==
  ASSUME Queue, calls # <<>>
  PROVE  AcceptedCalls = IF Head(calls).answer = "Accepted" THEN {Head(calls)} ELSE {}
BY HeadIsFirst DEF AcceptedCalls, Queue, OnlyHeadAnswered

LEMMA TailAccepts ==
  ASSUME Queue, calls # <<>>, calls' = Tail(calls)
  PROVE  AcceptedCalls' = {}
<1>1. /\ Len(calls') = Len(calls) - 1 /\ Len(calls) \in Nat \ {0}
      /\ \A i \in 1 .. Len(calls') : calls'[i] = calls[i + 1]
  BY HeadTailProperties, EmptySeq DEF Queue
<1>2. \A i \in 1 .. Len(calls') : calls'[i].answer = "none"
  BY <1>1 DEF Queue, OnlyHeadAnswered
<1> QED
  BY <1>2 DEF AcceptedCalls

\* Values that were read from the charge point are its own.
LEMMA StoredAllMirrors ==
  ASSUME TableOK, Mirrors, NEW ks \in SUBSET Keys, configs' = StoredAll(ks),
         UNCHANGED <<version, station>>, AcceptedCalls' = {} \/ AcceptedCalls' = AcceptedCalls,
         \A k \in Keys \ (doubt' \cup ks) :
           k \notin doubt /\ \A call \in AcceptedCalls : call.key = k => call \in AcceptedCalls'
  PROVE  Mirrors'
<1> SUFFICES ASSUME version = "1.6", NEW k \in Keys
             PROVE  /\ HasValue(k)' /\ k \notin doubt' /\ (\A call \in AcceptedCalls' : call.key # k)
                         => configs'[k].value = station[k]
                    /\ \A call \in AcceptedCalls' : call.op = "set" /\ call.key = k => station[k] = call.value
  BY DEF Mirrors
<1>1. CASE k \in ks
  <2>1. configs'[k].value = station[k]
    BY <1>1 DEF StoredAll, TableOK, Row
  <2> QED
    BY <2>1 DEF Mirrors
<1>2. CASE k \notin ks
  <2>1. configs'[k] = configs[k]
    BY <1>2 DEF StoredAll
  <2> QED
    BY <1>2, <2>1 DEF Mirrors, HasValue
<1> QED
  BY <1>1, <1>2

LEMMA SequenceMirrors ==
  ASSUME IInv, Mirrors, NEW n \in Boots, SequenceStep(n)
  PROVE  Mirrors'
<1>1. CASE Return(n) \/ ReadLocks(n) \/ Finish(n)
  BY <1>1, SameAccepts, SameMirrors DEF Return, ReadLocks, Finish
<1>2. CASE ReportEnds(n)
  <2>1. PICK got \in SUBSET Keys : configs' = StoredAll(got) /\ doubt' = doubt \ got
    BY <1>2 DEF ReportEnds
  <2>2. UNCHANGED <<version, station, calls>>
    BY <1>2 DEF ReportEnds
  <2> QED
    BY <2>1, <2>2, Parts, SameAccepts, StoredAllMirrors
<1>3. CASE Ask(n) \/ SetDefault(n) \/ SetLocked(n)
  <2>1. UNCHANGED <<version, configs, station, doubt>>
    BY <1>3 DEF Ask, SetDefault, SetLocked
  <2>2. UNCHANGED calls \/ \E call \in CallRecord : call.answer = "none" /\ calls' = Append(calls, call)
    <3>1. sequences[n] \in Sequence /\ Runs(n)
      BY <1>3, RunningIsLast DEF Ask, SetDefault, SetLocked
    <3>2. CASE Ask(n)
      <4>1. Call(n, sequences[n].at, NoKey, NoValue) \in CallRecord
            /\ Call(n, sequences[n].at, NoKey, NoValue).answer = "none"
        BY <3>2 DEF Ask, Call, CallRecord
      <4> QED
        BY <3>2, <4>1 DEF Ask, Sends
    <3>3. CASE SetDefault(n)
      <4>1. \A k \in sequences[n].todo : /\ Call(n, "set", k, Default) \in CallRecord
                                         /\ Call(n, "set", k, Default).answer = "none"
        BY <3>1, InitSequenceAssumption DEF Call, CallRecord, Sequence
      <4> QED
        BY <3>3, <4>1 DEF SetDefault, Sends
    <3>4. CASE SetLocked(n)
      <4>1. \A k \in sequences[n].todo :
               /\ Call(n, "lock", k, sequences[n].wanted[k]) \in CallRecord
               /\ Call(n, "lock", k, sequences[n].wanted[k]).answer = "none"
        BY <3>1 DEF Call, CallRecord, Sequence
      <4> QED
        BY <3>4, <4>1 DEF SetLocked, Sends
    <3> QED
      BY <1>3, <3>2, <3>3, <3>4
  <2> QED
    BY <2>1, <2>2, Parts, SameAccepts, AppendAccepts, SameMirrors
<1> QED
  BY <1>1, <1>2, <1>3 DEF SequenceStep

LEMMA AdminMirrors ==
  ASSUME IInv, Mirrors, AdminStep
  PROVE  Mirrors'
<1>1. CASE \E k \in Keys : (\E v \in Values : PutConfig(k, v)) \/ CascadeKey(k)
  <2>1. UNCHANGED <<version, configs, station, doubt>>
    BY <1>1 DEF PutConfig, CascadeKey
  <2>2. \E call \in CallRecord : call.answer = "none" /\ calls' = Append(calls, call)
    <3>1. \A k \in Keys, value \in Values, by \in {Admin, Cascade} :
             /\ Call(by, "set", k, value) \in CallRecord
             /\ Call(by, "set", k, value).answer = "none"
      BY DEF Call, CallRecord
    <3> QED
      BY <1>1, <3>1, InitSequenceAssumption DEF PutConfig, CascadeKey
  <2> QED
    BY <2>1, <2>2, Parts, AppendAccepts, SameMirrors
<1>2. CASE \E k \in Keys : SetOverride(k)
  <2>1. UNCHANGED <<version, station, doubt, calls>>
    BY <1>2 DEF SetOverride
  <2>2. \A k \in Keys : configs'[k].value = configs[k].value
    BY <1>2, Parts DEF SetOverride, TableOK, Row
  <2> QED
    BY <2>1, <2>2, SameAccepts DEF Mirrors, HasValue
<1>3. CASE Reinitialize
  BY <1>3, SameAccepts, SameMirrors DEF Reinitialize
<1> QED
  BY <1>1, <1>2, <1>3 DEF AdminStep

LEMMA StationMirrors ==
  ASSUME IInv, Mirrors, StationStep
  PROVE  Mirrors'
<1>0. Queue /\ TableOK
  BY Parts
<1>1. CASE Connect \/ Boot
  BY <1>1, SameAccepts, SameMirrors DEF Connect, Boot
<1>2. CASE LoseConnection
  <2>1. Len(calls') = 0 /\ AcceptedCalls' = {}
    BY <1>2, EmptySeq DEF LoseConnection, AcceptedCalls
  <2>2. UNCHANGED <<version, configs, station>>
    BY <1>2 DEF LoseConnection
  <2>3. \A k \in Keys \ doubt' : k \notin doubt /\ \A call \in AcceptedCalls : call.key # k
    BY <1>2, InitSequenceAssumption DEF LoseConnection, AcceptedCalls
  <2> QED
    BY <2>1, <2>2, <2>3 DEF Mirrors, HasValue
<1>3. CASE FactoryReset
  <2>1. calls = <<>> /\ AcceptedCalls = {}
    BY <1>0, <1>3, EmptySeq DEF FactoryReset, Queue, AcceptedCalls
  <2> QED
    BY <1>3, <2>1, SameAccepts DEF FactoryReset, Mirrors
<1>4. CASE Handle
  <2> DEFINE call == Head(calls)
  <2>1. PICK answer \in {"Accepted", "Rejected"} :
          /\ calls' = [calls EXCEPT ![1].answer = answer]
          /\ station' = IF answer = "Accepted" /\ call.op \in {"set", "lock"}
                        THEN [station EXCEPT ![call.key] = call.value] ELSE station
    BY <1>4 DEF Handle
  <2>2. calls # <<>> /\ call.answer = "none" /\ UNCHANGED <<version, configs, connected, doubt>>
    BY <1>4 DEF Handle
  <2>3. /\ call = calls[1] /\ call \in CallRecord /\ CallOK(call) /\ 1 \in 1 .. Len(calls)
        /\ version = "1.6" => call.op # "lock"
    BY <1>0, <2>2, HeadIsFirst DEF Queue, NoLocksSent
  <2>4. AcceptedCalls = {}
    BY <1>0, <2>2, AcceptedIsHead
  <2>5. Queue' /\ Len(calls') = Len(calls) /\ calls'[1] = [call EXCEPT !.answer = answer]
        /\ \A i \in 1 .. Len(calls) : i # 1 => calls'[i].answer = "none"
    <3> HIDE DEF call
    <3> QED
      BY <1>0, <2>1, <2>2, <2>3, Parts, QueueHandled DEF Queue, OnlyHeadAnswered
  <2>6. \A c \in AcceptedCalls' : /\ answer = "Accepted" /\ c.op = call.op /\ c.key = call.key
                                  /\ c.value = call.value
    BY <2>3, <2>5 DEF AcceptedCalls, CallRecord
  <2>7. answer = "Accepted" => \E c \in AcceptedCalls' : c.key = call.key
    BY <2>3, <2>5 DEF AcceptedCalls, CallRecord
  <2> HIDE DEF call
  <2>8. \A k \in Keys : k # call.key => station'[k] = station[k]
    BY <1>0, <2>1 DEF TableOK
  <2>9. answer = "Accepted" /\ call.op = "set" => station'[call.key] = call.value
    BY <1>0, <2>1, <2>3 DEF TableOK, CallOK
  <2>10. answer # "Accepted" => station' = station
    BY <2>1
  <2> QED
    BY <2>2, <2>4, <2>6, <2>7, <2>8, <2>9, <2>10 DEF Mirrors, HasValue
<1>5. CASE Answer
  <2> DEFINE call == Head(calls)
  <2>1. PICK got \in SUBSET Keys :
          /\ configs' = IF Stores(call) THEN Stored(call.key, call.value) ELSE StoredAll(got)
          /\ doubt' = doubt \ (got \cup IF call.answer = "Accepted" /\ call.op = "set"
                                        THEN {call.key} ELSE {})
          /\ got # {} => call.op = "read"
    BY <1>5 DEF Answer
  <2>2. calls # <<>> /\ calls' = Tail(calls) /\ UNCHANGED <<version, station>>
    BY <1>5 DEF Answer
  <2>3. call \in CallRecord /\ CallOK(call) /\ call = calls[1] /\ 1 \in 1 .. Len(calls)
    BY <1>0, <2>2, HeadIsFirst
  <2>4. AcceptedCalls = (IF call.answer = "Accepted" THEN {call} ELSE {}) /\ AcceptedCalls' = {}
    BY <1>0, <2>2, AcceptedIsHead, TailAccepts
  <2>5. version = "1.6" => call.op # "lock"
    BY <1>0, <2>3 DEF Queue, NoLocksSent
  <2> SUFFICES ASSUME version = "1.6"
               PROVE  Mirrors'
    BY <2>2 DEF Mirrors
  <2>6. CASE call.op = "set" /\ call.answer = "Accepted"
    <3>1. Stores(call) /\ call.key \in Keys /\ station[call.key] = call.value /\ got = {}
      BY <2>1, <2>3, <2>4, <2>6 DEF Stores, CallOK, Mirrors
    <3>2. configs' = [configs EXCEPT ![call.key].value = call.value]
      BY <2>1, <3>1 DEF Stored
    <3> HIDE DEF call
    <3>3. \A k \in Keys : configs'[k].value = IF k = call.key THEN call.value ELSE configs[k].value
      BY <1>0, <3>1, <3>2 DEF TableOK, Row
    <3> QED
      BY <2>1, <2>2, <2>4, <2>6, <3>1, <3>3 DEF Mirrors, HasValue
  <2>7. CASE ~(call.op = "set" /\ call.answer = "Accepted")
    <3>1. configs' = StoredAll(got) /\ doubt' = doubt \ got
      BY <2>1, <2>7 DEF Stores
    <3>2. call.answer = "Accepted" => call.key = NoKey
      BY <2>3, <2>5, <2>7 DEF CallOK
    <3>3. \A k \in Keys \ (doubt' \cup got) :
            k \notin doubt /\ \A c \in AcceptedCalls : c.key # k
      BY <2>4, <3>1, <3>2, InitSequenceAssumption
    <3> QED
      BY <1>0, <2>2, <2>4, <3>1, <3>3, StoredAllMirrors
  <2> QED
    BY <2>6, <2>7
<1>6. CASE TimeOut
  <2> DEFINE call == Head(calls)
  <2>1. calls # <<>> /\ calls' = Tail(calls) /\ UNCHANGED <<version, configs>>
    BY <1>6 DEF TimeOut
  <2>2. call \in CallRecord /\ CallOK(call) /\ call = calls[1] /\ 1 \in 1 .. Len(calls)
    BY <1>0, <2>1, HeadIsFirst
  <2>3. AcceptedCalls \subseteq {call} /\ AcceptedCalls' = {}
    BY <1>0, <2>1, AcceptedIsHead, TailAccepts
  <2>4. \A k \in Keys \ doubt' : k # call.key /\ k \notin doubt /\ station'[k] = station[k]
    BY <1>0, <1>6, <2>2, InitSequenceAssumption DEF TimeOut, CallOK, TableOK
  <2> HIDE DEF call
  <2> QED
    BY <2>1, <2>3, <2>4 DEF Mirrors, HasValue
<1> QED
  BY <1>1, <1>2, <1>3, <1>4, <1>5, <1>6 DEF StationStep

\* However the calls of sequences, administrators and cascades interleave, and
\* whatever is lost: a row of chargepoint_config that is not in doubt is what the
\* charge point holds.
THEOREM TableIsAlwaysTheStations == Spec => []TableIsTheStations
<1>1. Init => Mirrors
  <2> SUFFICES ASSUME Init PROVE Mirrors
    OBVIOUS
  <2>1. AcceptedCalls = {}
    BY EmptySeq DEF Init, AcceptedCalls
  <2>2. \A k \in Keys : ~HasValue(k)
    BY DEF Init, HasValue, NoRow
  <2> QED
    BY <2>1, <2>2 DEF Mirrors
<1>2. IInv /\ Mirrors /\ [Next]_vars => Mirrors'
  <2> SUFFICES ASSUME IInv, Mirrors, [Next]_vars PROVE Mirrors'
    OBVIOUS
  <2>1. CASE UNCHANGED vars
    BY <2>1, SameAccepts, SameMirrors DEF vars
  <2> QED
    BY <2>1, SequenceMirrors, AdminMirrors, StationMirrors DEF Next
<1> QED
  BY <1>1, <1>2, MirrorsIsStronger, Invariance, PTL DEF Spec

-----------------------------------------------------------------------------
(* What a charge point that is marked went through.                        *)

LEMMA SequenceIsSteady ==
  ASSUME IInv, UncutIsSteady, NEW n \in Boots, SequenceStep(n)
  PROVE  UncutIsSteady'
<1>0. UNCHANGED <<version, boots, steady>>
  BY DEF SequenceStep, Return, Ask, ReportEnds, SetDefault, ReadLocks, SetLocked, Finish
<1>1. sequences \in [Boots -> Sequence] /\ SequenceFits(sequences[n]) /\ sequences[n] \in Sequence
  BY Parts DEF SequencesOK
<1>2. PICK s \in Sequence :
        /\ sequences' = [sequences EXCEPT ![n] = s]
        /\ s.at \notin {"none", "done"} /\ ~s.cut =>
             sequences[n].at \notin {"none", "done"} /\ ~sequences[n].cut
  <2> DEFINE s == sequences[n]
  <2>1. \A k \in s.todo :
          LET rest == [s EXCEPT !.todo = s.todo \ {k}] IN
          /\ rest \in Sequence /\ SequenceFits(rest) /\ rest.at = s.at /\ rest.cut = s.cut
    BY <1>1, RestFits
  <2>2. \A t \in Sequence : [t EXCEPT !.awaits = TRUE] \in Sequence
                            /\ [t EXCEPT !.awaits = TRUE].at = t.at
                            /\ [t EXCEPT !.awaits = TRUE].cut = t.cut
    BY DEF Sequence
  <2>3. \A t \in Sequence : \A call : Sends(n, t, call) /\ SequenceFits(t) /\ t.at = s.at
                                    /\ t.cut = s.cut /\ s.at \notin {"none", "done"} =>
          \E u \in Sequence : sequences' = [sequences EXCEPT ![n] = u] /\ (~u.cut => ~s.cut)
    <3> HIDE DEF s
    <3> SUFFICES ASSUME NEW t \in Sequence, NEW call, Sends(n, t, call), SequenceFits(t),
                        t.at = s.at, t.cut = s.cut, s.at \notin {"none", "done"}
                 PROVE  \E u \in Sequence : sequences' = [sequences EXCEPT ![n] = u]
                                            /\ (~u.cut => ~s.cut)
      OBVIOUS
    <3>1. CASE connected
      BY <2>2, <3>1 DEF Sends
    <3>2. CASE ~connected
      BY <3>2, AbortedFits DEF Sends
    <3> QED
      BY <3>1, <3>2
  <2>4. CASE Ask(n)
    BY <1>1, <2>3, <2>4 DEF Ask
  <2>5. CASE SetDefault(n)
    BY <2>1, <2>3, <2>5 DEF SetDefault
  <2>6. CASE SetLocked(n)
    BY <2>1, <2>3, <2>6 DEF SetLocked
  <2>7. CASE Return(n) \/ Finish(n)
    BY <2>7, Ends DEF Return, Finish
  <2>8. CASE ReportEnds(n)
    BY <1>1, <2>8, AdvancedFits DEF ReportEnds, Runs
  <2>9. CASE ReadLocks(n)
    <3>1. \A k \in Keys : configs[k].value \in Values \cup {NoValue}
      BY Parts DEF TableOK, Row
    <3> DEFINE wanted == [k \in Keys |-> IF k \in Reapplied THEN configs[k].value ELSE NoValue]
               t == [s EXCEPT !.at = "lock", !.todo = Reapplied, !.wanted = wanted]
    <3>2. wanted \in [Keys -> Values \cup {NoValue}] /\ Reapplied \subseteq Keys
      BY <3>1 DEF Reapplied
    <3>3. sequences' = [sequences EXCEPT ![n] = t] /\ s.at = "set"
      BY <2>9 DEF ReadLocks
    <3> HIDE DEF wanted
    <3>4. t \in Sequence /\ t.cut = s.cut
      BY <1>1, <3>2 DEF Sequence
    <3> QED
      BY <3>3, <3>4
  <2> QED
    BY <2>4, <2>5, <2>6, <2>7, <2>8, <2>9 DEF SequenceStep
<1>3. \A m \in Boots : sequences'[m] = IF m = n THEN s ELSE sequences[m]
  BY <1>1, <1>2
<1> QED
  BY <1>0, <1>2, <1>3 DEF UncutIsSteady

\* A sequence that goes on after a call is the one it was.
LEMMA ReturnIsSteady ==
  ASSUME IInv, UncutIsSteady, calls # <<>>, UNCHANGED <<version, boots, steady>>, NEW s,
         sequences' = Resumed(Head(calls).by, s),
         Head(calls).by \in Boots => s.cut = sequences[Head(calls).by].cut
  PROVE  UncutIsSteady'
<1> DEFINE by == Head(calls).by
<1>1. by \in Boots => sequences[by].at \notin {"none", "done"}
  BY Parts, HeadIsFirst, AwaitingRuns
<1>2. \A n \in Boots : sequences'[n] = IF n = by THEN s ELSE sequences[n]
  BY Parts DEF Resumed, SequencesOK
<1> QED
  BY <1>1, <1>2 DEF UncutIsSteady

LEMMA StationIsSteady ==
  ASSUME IInv, UncutIsSteady, StationStep
  PROVE  UncutIsSteady'
<1>1. CASE Connect \/ FactoryReset \/ Handle
  BY <1>1 DEF Connect, FactoryReset, Handle, UncutIsSteady
<1>2. CASE Boot
  BY <1>2 DEF Boot, UncutIsSteady
<1>3. CASE LoseConnection
  <2> SUFFICES ASSUME version' = "1.6", NEW n \in Boots, sequences'[n].at \notin {"none", "done"}
               PROVE  sequences'[n].cut
    BY DEF UncutIsSteady
  <2>1. sequences[n] \in Sequence /\ SequenceFits(sequences[n]) /\ version = "1.6"
    BY <1>3, Parts DEF SequencesOK, LoseConnection
  <2>2. sequences'[n] = Cut(sequences[n])
    BY <1>3 DEF LoseConnection, Cut
  <2>3. sequences[n].at \notin {"none", "report", "done"}
    BY <2>1, <2>2 DEF Cut, SequenceFits
  <2> QED
    BY <2>1, <2>2, <2>3, CutFits
<1>4. CASE Answer
  <2> DEFINE by == Head(calls).by
  <2>1. by \in Boots => Answered(sequences[by]).cut = sequences[by].cut
    BY <1>4, Parts, HeadIsFirst, AwaitingRuns, AnsweredFits DEF Answer
  <2> QED
    BY <1>4, <2>1, ReturnIsSteady DEF Answer
<1>5. CASE TimeOut
  <2> DEFINE by == Head(calls).by
  <2>1. calls # <<>> /\ sequences' = Resumed(by, Aborted(sequences[by], FALSE))
        /\ UNCHANGED <<version, boots, steady>>
    BY <1>5 DEF TimeOut
  <2>2. by \in Boots => Aborted(sequences[by], FALSE).cut = (sequences[by].cut \/ FALSE)
                        /\ sequences[by] \in Sequence
    BY <2>1, Parts, HeadIsFirst, AwaitingRuns, AbortedFits
  <2>3. by \in Boots => Aborted(sequences[by], FALSE).cut = sequences[by].cut
    BY <2>2 DEF Sequence
  <2> QED
    BY <2>1, <2>3, ReturnIsSteady
<1> QED
  BY <1>1, <1>2, <1>3, <1>4, <1>5 DEF StationStep

\* In 1.6 a charge point is marked initialized only by a sequence whose calls all
\* went over one connection: disconnectedDuringInit is never forgotten.
THEOREM MarkedAlwaysOverOneConnection == Spec => MarkedOverOneConnection
<1>1. Init => UncutIsSteady
  BY Ends DEF Init, UncutIsSteady
<1>2. IInv /\ UncutIsSteady /\ [Next]_vars => UncutIsSteady'
  <2> SUFFICES ASSUME IInv, UncutIsSteady, [Next]_vars PROVE UncutIsSteady'
    OBVIOUS
  <2>1. CASE AdminStep \/ UNCHANGED vars
    BY <2>1 DEF AdminStep, PutConfig, SetOverride, CascadeKey, Reinitialize, vars, UncutIsSteady
  <2> QED
    BY <2>1, SequenceIsSteady, StationIsSteady DEF Next
<1>3. IInv /\ UncutIsSteady /\ [Next]_vars =>
        [version = "1.6" /\ ~initialized /\ initialized' => steady]_vars
  <2> SUFFICES ASSUME IInv, UncutIsSteady, [Next]_vars, version = "1.6", ~initialized, initialized'
               PROVE  steady
    OBVIOUS
  <2>1. PICK n \in Boots : Finish(n)
    BY DEF Next, SequenceStep, Return, Ask, ReportEnds, SetDefault, ReadLocks, SetLocked, AdminStep,
           PutConfig, SetOverride, CascadeKey, Reinitialize, StationStep, Connect, Boot,
           LoseConnection, FactoryReset, Handle, Answer, TimeOut, vars
  <2> QED
    BY <2>1 DEF Finish, Superseded, UncutIsSteady
<1> QED
  BY <1>1, <1>2, <1>3, Invariance, PTL DEF Spec, MarkedOverOneConnection
=============================================================================

------------------------- MODULE ScheduledTasks_proofs -------------------------
(***************************************************************************)
(* Proofs about ScheduledTasks and the worker runs it starts, for any      *)
(* number of schedules, owners, runs and faults: the runs of an owner do   *)
(* not overlap, a run is admitted in the file before it starts and is not  *)
(* repeated of the scheduler's own accord, a cancelled schedule stays so,  *)
(* and receipts tell what is needed to know all that.                      *)
(***************************************************************************)
EXTENDS ScheduledTasks, WorkerRuns_proofs, SequenceTheorems

\* The last run that was admitted for a schedule.
LastOf(r, i) ==
  /\ scheduleOf[r] = i
  /\ \A p \in r + 1 .. used : scheduleOf[p] # i

Final(r) == Conclusive(r) /\ ~receipt[r].interrupted

\* What the records of the file, and those of a running process, say of the runs: a run
\* that has started and is the last of its schedule is known there, unless the user has
\* authorized the next one; one that has ended works no more; an owner has one run at most
\* that is not over.
Lists == { disk } \cup (IF manager = "down" THEN {} ELSE { records })

Recorded(s) ==
  /\ Len(s) <= MaxSchedules
  /\ \A r \in Runs : receipt[r] # None => scheduleOf[r] \in DOMAIN s
  /\ \A i \in DOMAIN s : s[i].latest # None =>
       /\ s[i].latest.run <= used
       /\ scheduleOf[s[i].latest.run] = i
       /\ s[i].latest.state = "ended" =>
            receipt[s[i].latest.run] # None /\ ~Live(s[i].latest.run)
  /\ \A i, j \in DOMAIN s :
       OwnerOf[i] = OwnerOf[j] /\ Nonterminal(s[i].latest) /\ Nonterminal(s[j].latest)
         => i = j
  /\ \A i \in DOMAIN s, r \in Runs :
       LastOf(r, i) /\ receipt[r] # None /\ ~s[i].authorized
         => s[i].latest # None /\ s[i].latest.run = r

\* The file is never behind the records, and ahead of them by what nobody has cancelled.
CancelsKept ==
  /\ \A i \in DOMAIN records :
       i \in DOMAIN disk /\ (records[i].cancelled => disk[i].cancelled)
  /\ manager # "down" => \A i \in DOMAIN disk : disk[i].cancelled => i \in DOMAIN records

\* A run that works is the latest of its schedule, and not taken for interrupted.
LiveRecorded ==
  \A r \in Runs : Live(r) =>
    /\ manager \in { "ready", "stopping", "stopped" }
    /\ scheduleOf[r] \in DOMAIN records
    /\ records[scheduleOf[r]].latest # None
    /\ records[scheduleOf[r]].latest.run = r
    /\ records[scheduleOf[r]].latest.state # "ended"
    /\ ~records[scheduleOf[r]].latest.interrupted

Fresh ==
  \A r \in Runs : r > used => active[r] = None /\ receipt[r] = None /\ scheduleOf[r] = None

StoredInv ==
  /\ RunInv
  /\ TasksTypeOK
  /\ \A s \in Lists : Recorded(s)
  /\ CancelsKept
  /\ LiveRecorded
  /\ Fresh
  /\ manager = "down" => records = << >>

\* An answer is not overtaken while the operation that asked holds the mutex.
Observing ==
  /\ Current.latest # None
  /\ op.answer \in Answers
  /\ op.answer.state \in { "running", "missing" } => Current.latest.state # "ended"
  /\ op.answer.state \in { "ended", "missing" } => ~Live(Current.latest.run)
  /\ op.answer.state = "ended" => receipt[Current.latest.run] # None
  /\ op.answer = Read("ended", FALSE) /\ op.kind # "shutdown" /\ ~Current.cancelled
       => Final(Current.latest.run)

\* The schedule has no open run, and what its last one did is known or the user's concern.
Firing ==
  /\ manager = "ready"
  /\ ~Nonterminal(Current.latest)
  /\ ~Current.cancelled
  /\ ~Current.authorized /\ Current.latest # None => Final(Current.latest.run)

Starting ==
  /\ manager = "ready"
  /\ used \in Runs
  /\ scheduleOf[used] = op.at
  /\ active[used] = None /\ receipt[used] = None
  /\ Current.latest = [run |-> used, state |-> "admitted", interrupted |-> FALSE]
  /\ ~Current.cancelled
  /\ disk = records

OpShaped ==
  op # None =>
    /\ op.kind = "initialize" => manager = "starting"
    /\ op.kind = "shutdown" => manager = "stopping"
    /\ op.kind \in { "tick", "cancel", "run now" } => manager = "ready"
    /\ op.step = "initialized" => op.kind = "initialize"
    /\ op.step # "initialized" => op.at \in DOMAIN records
    /\ op.step = "observe" => Observing
    /\ op.step = "authorize" => manager = "ready" /\ MayRunNow(Current)
    /\ op.step = "fire" => Firing
    /\ op.step = "start" => Starting

TInv == StoredInv /\ OpShaped

\* A step undoes no cancellation.
CancelsStay == \A i \in Schedules : IsCancelled(i) => IsCancelled(i)'

--------------------------------------------------------------------------------
\* What an operation does next.

\* What an operation goes on with is an operation.
LEMMA OpsTyped ==
  ASSUME TasksTypeOK, op # None
  PROVE  /\ op \in Ops
         /\ \A step \in Steps :
              /\ Onward(step) \in Ops
              /\ Onward(step).kind = op.kind /\ Onward(step).at = op.at
              /\ Onward(step).step = step
         /\ \A fires \in { [Onward("fire") EXCEPT !.firing = TRUE] } :
              /\ fires \in Ops
              /\ fires.kind = op.kind /\ fires.at = op.at /\ fires.step = "fire"
<1>1. op \in Ops
  BY DEF TasksTypeOK
<1>2. ASSUME NEW step \in Steps
      PROVE  /\ Onward(step) \in Ops
             /\ Onward(step).kind = op.kind /\ Onward(step).at = op.at
             /\ Onward(step).step = step
  BY <1>1 DEF Ops, Onward
<1>3. ASSUME NEW going \in Ops
      PROVE  /\ [going EXCEPT !.firing = TRUE] \in Ops
             /\ [going EXCEPT !.firing = TRUE].kind = going.kind
             /\ [going EXCEPT !.firing = TRUE].at = going.at
             /\ [going EXCEPT !.firing = TRUE].step = going.step
  BY DEF Ops
<1>4. "fire" \in Steps
  BY DEF Steps
<1> QED
  BY <1>1, <1>2, <1>3, <1>4

\* An operation begins with a reconciliation.
LEMMA OperationTyped ==
  ASSUME NEW kind \in Kinds, NEW i \in Nat \ {0}
  PROVE  /\ Operation(kind, i) \in Ops
         /\ Operation(kind, i).kind = kind /\ Operation(kind, i).at = i
         /\ Operation(kind, i).step = "reconcile"
BY DEF Operation, Ops, Steps

\* After a record has been reconciled the operation is in order, if what may fire it is known.
LEMMA ReconciledShaped ==
  ASSUME TasksTypeOK, OpShaped, op # None, op.step # "initialized",
         NEW record, op' \in Reconciled(record),
         UNCHANGED manager, DOMAIN records' = DOMAIN records, records'[op.at] = record,
         op.kind = "tick" /\ ~op.firing /\ Due(record) /\ record.latest # None
           /\ ~record.authorized => Final(record.latest.run)'
  PROVE  OpShaped' /\ op' \in Ops \cup {None}
<1>0. /\ op.kind \in Kinds /\ op.at \in Nat \ {0} /\ op.at \in DOMAIN records
      /\ DOMAIN records = 1 .. Len(records) /\ Len(records) \in Nat
  <2>1. op \in Ops /\ records \in Seq(Records)
    BY DEF TasksTypeOK
  <2> QED
    BY <2>1, LenProperties DEF Ops, OpShaped
<1>1. CASE op' = NextRecord
  <2>1. CASE op.kind \in { "initialize", "tick", "shutdown" } /\ op.at < Len(records)
    <3>1. op' = Operation(op.kind, op.at + 1)
      BY <1>1, <2>1 DEF NextRecord
    <3>2. op.at + 1 \in DOMAIN records /\ op.at + 1 \in Nat \ {0}
      BY <1>0, <2>1
    <3>3. /\ op' \in Ops /\ op'.kind = op.kind /\ op'.at = op.at + 1 /\ op'.step = "reconcile"
      BY <3>1, <3>2, <1>0, OperationTyped
    <3> QED
      BY <3>2, <3>3 DEF OpShaped
  <2>2. CASE ~(op.kind \in { "initialize", "tick", "shutdown" } /\ op.at < Len(records))
             /\ op.kind = "initialize"
    <3>1. op' = Onward("initialized")
      BY <1>1, <2>2 DEF NextRecord
    <3>2. op' \in Ops /\ op'.kind = op.kind /\ op'.at = op.at /\ op'.step = "initialized"
      BY <3>1, OpsTyped DEF Steps
    <3> QED
      BY <3>2, <2>2 DEF OpShaped
  <2>3. CASE ~(op.kind \in { "initialize", "tick", "shutdown" } /\ op.at < Len(records))
             /\ op.kind # "initialize"
    BY <1>1, <2>3 DEF NextRecord, OpShaped
  <2> QED
    BY <2>1, <2>2, <2>3
<1>2. CASE /\ op.kind = "tick" /\ ~op.firing /\ Due(record)
           /\ op' = [Onward("fire") EXCEPT !.firing = TRUE]
  <2>1. op' \in Ops /\ op'.kind = op.kind /\ op'.at = op.at /\ op'.step = "fire"
    BY <1>2, OpsTyped
  <2>2. Firing'
    <3>1. manager' = "ready"
      BY <1>2 DEF OpShaped
    <3> QED
      BY <1>2, <2>1, <3>1 DEF Firing, Due, Current, Nonterminal
  <2> QED
    BY <1>0, <1>2, <2>1, <2>2 DEF OpShaped
<1>3. CASE op.kind = "run now" /\ MayRunNow(record) /\ op' = Onward("authorize")
  <2>1. op' \in Ops /\ op'.kind = op.kind /\ op'.at = op.at /\ op'.step = "authorize"
    BY <1>3, OpsTyped DEF Steps
  <2>2. MayRunNow(Current)' /\ manager' = "ready"
    BY <1>3, <2>1 DEF MayRunNow, Current, Nonterminal, OpShaped
  <2> QED
    BY <1>0, <1>3, <2>1, <2>2 DEF OpShaped
<1> QED
  BY <1>1, <1>2, <1>3 DEF Reconciled

\* An operation that is to block its record, or that has ended, is in order.
LEMMA BlockShaped ==
  ASSUME TasksTypeOK, OpShaped, op # None, op.step # "initialized",
         op' \in { Onward("block"), None },
         UNCHANGED manager, DOMAIN records \subseteq DOMAIN records'
  PROVE  OpShaped' /\ op' \in Ops \cup {None}
<1>1. CASE op' = None
  BY <1>1 DEF OpShaped
<1>2. CASE op' = Onward("block")
  <2>1. op' \in Ops /\ op'.kind = op.kind /\ op'.at = op.at /\ op'.step = "block"
    BY <1>2, OpsTyped DEF Steps
  <2> QED
    BY <2>1 DEF OpShaped
<1> QED
  BY <1>1, <1>2

--------------------------------------------------------------------------------
\* What the lists of records say of the runs.

\* An element of a list is a record, and its run is a run.
LEMMA TypedRecords ==
  ASSUME NEW s \in Seq(Records), NEW i \in DOMAIN s
  PROVE  /\ i \in Nat \ {0} /\ s[i] \in Records
         /\ s[i].latest # None => s[i].latest \in LatestRuns /\ s[i].latest.run \in Runs
         /\ DOMAIN s = 1 .. Len(s) /\ Len(s) \in Nat
<1>1. DOMAIN s = 1 .. Len(s) /\ Len(s) \in Nat
  BY LenProperties
<1>2. s[i] \in Records
  BY <1>1, ElementOfSeq
<1> QED
  BY <1>1, <1>2 DEF Records, LatestRuns

\* A list says what it said while no run is admitted and none that has ended works again.
LEMMA RecordedKept ==
  ASSUME NEW s \in Seq(Records), Recorded(s), UNCHANGED << scheduleOf, used >>,
         \A r \in Runs : (receipt[r] = None <=> receipt'[r] = None) /\ (~Live(r) => ~Live(r)')
  PROVE  Recorded(s)'
BY TypedRecords DEF Recorded, LastOf

\* A record is replaced by one that says the same or more of its last run.
LEMMA RecordedUpdated ==
  ASSUME NEW s \in Seq(Records), Recorded(s), UNCHANGED << scheduleOf, used >>,
         \A r \in Runs : (receipt[r] = None <=> receipt'[r] = None) /\ (~Live(r) => ~Live(r)'),
         NEW i \in DOMAIN s, NEW record \in Records, NEW t, t = [s EXCEPT ![i] = record],
         record.latest # None =>
           /\ s[i].latest # None /\ record.latest.run = s[i].latest.run
           /\ record.latest.state = "ended" =>
                receipt[s[i].latest.run] # None /\ ~Live(s[i].latest.run),
         Nonterminal(record.latest) => Nonterminal(s[i].latest),
         s[i].authorized => record.authorized,
         ~record.authorized /\ s[i].latest # None => record.latest # None
  PROVE  t \in Seq(Records) /\ DOMAIN t = DOMAIN s /\ Recorded(t)'
<1>1. /\ t \in Seq(Records) /\ DOMAIN t = DOMAIN s /\ Len(t) = Len(s)
      /\ t[i] = record
      /\ \A j \in DOMAIN s : j # i => t[j] = s[j]
  BY ExceptSeq
<1>2. Recorded(s)'
  BY RecordedKept
<1>3. /\ Len(t) <= MaxSchedules
      /\ \A r \in Runs : receipt'[r] # None => scheduleOf'[r] \in DOMAIN t
  BY <1>1, <1>2 DEF Recorded
<1>4. \A j \in DOMAIN t : t[j].latest # None =>
        /\ t[j].latest.run <= used'
        /\ scheduleOf'[t[j].latest.run] = j
        /\ t[j].latest.state = "ended" =>
             receipt'[t[j].latest.run] # None /\ ~Live(t[j].latest.run)'
  BY <1>1, <1>2, TypedRecords DEF Recorded
<1>5. \A j, k \in DOMAIN t :
        OwnerOf[j] = OwnerOf[k] /\ Nonterminal(t[j].latest) /\ Nonterminal(t[k].latest)
          => j = k
  <2>1. \A j \in DOMAIN t : Nonterminal(t[j].latest) => Nonterminal(s[j].latest)
    BY <1>1
  <2> QED
    BY <1>1, <2>1 DEF Recorded
<1>6. \A j \in DOMAIN t, r \in Runs :
        LastOf(r, j)' /\ receipt'[r] # None /\ ~t[j].authorized
          => t[j].latest # None /\ t[j].latest.run = r
  BY <1>1, <1>2 DEF Recorded
<1> QED
  BY <1>1, <1>3, <1>4, <1>5, <1>6 DEF Recorded

\* An id is given out: the lists that do not tell of it say what they said.
LEMMA RecordedReserved ==
  ASSUME TasksTypeOK, Fresh, NEW s \in Seq(Records), Recorded(s),
         used < MaxRuns, used' = used + 1, NEW i, scheduleOf' = [scheduleOf EXCEPT ![used + 1] = i],
         UNCHANGED << receipt, active >>
  PROVE  Recorded(s)'
<1>1. /\ used \in Nat /\ used + 1 \in Runs /\ Runs \subseteq Nat
      /\ scheduleOf'[used + 1] = i
      /\ \A r \in Runs : r # used + 1 => scheduleOf'[r] = scheduleOf[r]
      /\ \A r \in Runs : receipt[r] # None => r <= used
  BY MaxRunsAssumption DEF TasksTypeOK, Runs, Fresh
<1>2. \A r \in Runs : receipt'[r] # None => scheduleOf'[r] \in DOMAIN s
  BY <1>1 DEF Recorded
<1>3. \A j \in DOMAIN s : s[j].latest # None =>
        /\ s[j].latest.run <= used'
        /\ scheduleOf'[s[j].latest.run] = j
        /\ s[j].latest.state = "ended" =>
             receipt'[s[j].latest.run] # None /\ ~Live(s[j].latest.run)'
  <2> SUFFICES ASSUME NEW j \in DOMAIN s, s[j].latest # None
               PROVE  /\ s[j].latest.run <= used'
                      /\ scheduleOf'[s[j].latest.run] = j
                      /\ s[j].latest.state = "ended" =>
                           receipt'[s[j].latest.run] # None /\ ~Live(s[j].latest.run)'
    OBVIOUS
  <2>1. PICK q \in Runs : q = s[j].latest.run
    BY TypedRecords
  <2>2. q <= used /\ scheduleOf[q] = j
    BY <2>1 DEF Recorded
  <2>3. q <= used' /\ scheduleOf'[q] = j
    BY <1>1, <2>2
  <2>4. s[j].latest.state = "ended" => receipt'[q] # None /\ ~Live(q)'
    BY <2>1 DEF Recorded, Live
  <2> QED
    BY <2>1, <2>3, <2>4
<1>4. ASSUME NEW j, NEW r \in Runs, LastOf(r, j)', receipt'[r] # None
      PROVE  LastOf(r, j) /\ receipt[r] # None
  BY <1>1, <1>4 DEF LastOf
<1> QED
  BY <1>2, <1>3, <1>4 DEF Recorded

\* The list that tells of the new run: no other run of the owner is open.
LEMMA RecordedAdmitted ==
  ASSUME TasksTypeOK, Fresh, NEW s \in Seq(Records), Recorded(s),
         used < MaxRuns, used' = used + 1,
         NEW i \in DOMAIN s, scheduleOf' = [scheduleOf EXCEPT ![used + 1] = i],
         UNCHANGED << receipt, active >>,
         \A j \in DOMAIN s : j # i /\ OwnerOf[j] = OwnerOf[i] => ~Nonterminal(s[j].latest),
         NEW record \in Records, NEW t, t = [s EXCEPT ![i] = record],
         record.latest = [run |-> used + 1, state |-> "admitted", interrupted |-> FALSE]
  PROVE  t \in Seq(Records) /\ DOMAIN t = DOMAIN s /\ Recorded(t)'
<1>1. /\ t \in Seq(Records) /\ DOMAIN t = DOMAIN s /\ Len(t) = Len(s)
      /\ t[i] = record
      /\ \A j \in DOMAIN s : j # i => t[j] = s[j]
  BY ExceptSeq
<1>2. Recorded(s)'
  BY RecordedReserved
<1>3. /\ used \in Nat /\ used + 1 \in Runs /\ scheduleOf'[used + 1] = i
      /\ \A r \in Runs : receipt[r] # None => r <= used /\ r \in Nat
  BY MaxRunsAssumption DEF TasksTypeOK, Runs, Fresh
<1>4. /\ record.latest # None
      /\ record.latest.run = used + 1 /\ record.latest.state = "admitted"
  <2>1. [run |-> used + 1, state |-> "admitted", interrupted |-> FALSE] \in LatestRuns
    BY <1>3 DEF LatestRuns, RunStates
  <2>2. None \notin LatestRuns
    BY TaskNoneAssumption
  <2>3. record.latest # None
    BY <2>1, <2>2
  <2> QED
    BY <2>3
<1>5. \A j \in DOMAIN t : t[j].latest # None =>
        /\ t[j].latest.run <= used'
        /\ scheduleOf'[t[j].latest.run] = j
        /\ t[j].latest.state = "ended" =>
             receipt'[t[j].latest.run] # None /\ ~Live(t[j].latest.run)'
  BY <1>1, <1>2, <1>3, <1>4 DEF Recorded
<1>6. \A j, k \in DOMAIN t :
        OwnerOf[j] = OwnerOf[k] /\ Nonterminal(t[j].latest) /\ Nonterminal(t[k].latest)
          => j = k
  BY <1>1 DEF Recorded
<1>7. \A j \in DOMAIN t, r \in Runs :
        LastOf(r, j)' /\ receipt'[r] # None /\ ~t[j].authorized
          => t[j].latest # None /\ t[j].latest.run = r
  BY <1>1, <1>2, <1>3 DEF Recorded, LastOf
<1> QED
  BY <1>1, <1>2, <1>5, <1>6, <1>7 DEF Recorded

\* A new schedule has no run.
LEMMA RecordedAppended ==
  ASSUME TasksTypeOK, NEW s \in Seq(Records), Recorded(s), Len(s) < MaxSchedules,
         UNCHANGED << scheduleOf, used, receipt, active >>,
         \A r \in Runs : receipt[r] # None => scheduleOf[r] \in DOMAIN s,
         NEW record \in Records, record.latest = None, NEW t, t = Append(s, record)
  PROVE  /\ t \in Seq(Records) /\ DOMAIN s \subseteq DOMAIN t /\ Recorded(t)'
         /\ \A j \in DOMAIN s : t[j] = s[j]
<1>1. /\ t \in Seq(Records) /\ Len(t) = Len(s) + 1 /\ DOMAIN t = 1 .. Len(s) + 1
      /\ DOMAIN s = 1 .. Len(s) /\ Len(s) \in Nat
      /\ t[Len(s) + 1] = record
      /\ \A j \in DOMAIN s : t[j] = s[j]
  BY AppendProperties, LenProperties
<1>2. Recorded(s)'
  BY RecordedKept DEF Live
<1>3. \A j \in DOMAIN t : j \in DOMAIN s \/ (j = Len(s) + 1 /\ t[j].latest = None)
  BY <1>1
<1>4. \A j, k \in DOMAIN t :
        OwnerOf[j] = OwnerOf[k] /\ Nonterminal(t[j].latest) /\ Nonterminal(t[k].latest)
          => j = k
  BY <1>1, <1>3 DEF Recorded, Nonterminal
<1>5. \A j \in DOMAIN t, r \in Runs :
        LastOf(r, j)' /\ receipt'[r] # None /\ ~t[j].authorized
          => t[j].latest # None /\ t[j].latest.run = r
  <2> SUFFICES ASSUME NEW j \in DOMAIN t, NEW r \in Runs,
                      LastOf(r, j)', receipt'[r] # None, ~t[j].authorized
               PROVE  t[j].latest # None /\ t[j].latest.run = r
    OBVIOUS
  <2>1. j \in DOMAIN s
    BY <1>1, <1>2 DEF LastOf, Recorded
  <2> QED
    BY <1>1, <1>2, <2>1 DEF Recorded
<1> QED
  BY MaxSchedulesAssumption, <1>1, <1>2, <1>3, <1>4, <1>5 DEF Recorded

--------------------------------------------------------------------------------
\* What is stored.

\* The lists are lists of records.
LEMMA ListsTyped ==
  ASSUME TasksTypeOK, NEW s \in Lists
  PROVE  s \in Seq(Records)
BY DEF TasksTypeOK, Lists

\* Nothing is stored, and nothing new happens to a run.
LEMMA CalmStores ==
  ASSUME StoredInv, RunInv', Calm, UNCHANGED << manager, disk, records, scheduleOf, used >>,
         op' \in Ops \cup {None}
  PROVE  StoredInv' /\ CancelsStay
<1>1. TasksTypeOK'
  BY DEF StoredInv, TasksTypeOK, RunInv
<1>2. \A s \in Lists' : Recorded(s)'
  <2> SUFFICES ASSUME NEW s \in Lists' PROVE Recorded(s)'
    OBVIOUS
  <2>1. s \in Lists
    BY DEF Lists
  <2>2. s \in Seq(Records) /\ Recorded(s)
    BY <2>1, ListsTyped DEF StoredInv
  <2> QED
    BY <2>2, RecordedKept DEF Calm
<1>3. CancelsKept'
  BY DEF StoredInv, CancelsKept
<1>4. LiveRecorded'
  BY DEF StoredInv, LiveRecorded, Calm
<1>5. Fresh'
  BY DEF StoredInv, Fresh, Calm
<1>6. CancelsStay
  BY DEF CancelsStay, IsCancelled
<1> QED
  BY <1>1, <1>2, <1>3, <1>4, <1>5, <1>6 DEF StoredInv

\* A list is stored in the file, or not, and is the service's own if it was.
LEMMA Stores ==
  ASSUME StoredInv, RunInv', Fresh', UNCHANGED manager, manager # "down",
         scheduleOf' \in [Runs -> Schedules \cup {None}], used' \in 0 .. MaxRuns,
         op' \in Ops \cup {None},
         NEW t \in Seq(Records),
         \/ disk' = disk /\ records' = records
         \/ disk' = t /\ records' \in { records, t },
         \A s \in Lists : Recorded(s)',
         Recorded(t)',
         \A i \in DOMAIN records : i \in DOMAIN t /\ (records[i].cancelled => t[i].cancelled),
         \A i \in DOMAIN t : t[i].cancelled => i \in DOMAIN records,
         \A r \in Runs : Live(r)' =>
           /\ Live(r) /\ scheduleOf'[r] = scheduleOf[r]
           /\ t[scheduleOf[r]].latest # None
           /\ t[scheduleOf[r]].latest.run = r
           /\ t[scheduleOf[r]].latest.state # "ended"
           /\ ~t[scheduleOf[r]].latest.interrupted
  PROVE  StoredInv' /\ CancelsStay
<1>1. TasksTypeOK'
  BY DEF StoredInv, TasksTypeOK, RunInv
<1>2. \A s \in Lists' : Recorded(s)'
  <2> SUFFICES ASSUME NEW s \in Lists' PROVE Recorded(s)'
    OBVIOUS
  <2>1. s \in Lists \/ s = t
    BY DEF Lists
  <2> QED
    BY <2>1
<1>3. CancelsKept'
  BY DEF StoredInv, CancelsKept
<1>4. LiveRecorded'
  <2> SUFFICES ASSUME NEW r \in Runs, Live(r)'
               PROVE  /\ manager' \in { "ready", "stopping", "stopped" }
                      /\ scheduleOf'[r] \in DOMAIN records'
                      /\ records'[scheduleOf'[r]].latest # None
                      /\ records'[scheduleOf'[r]].latest.run = r
                      /\ records'[scheduleOf'[r]].latest.state # "ended"
                      /\ ~records'[scheduleOf'[r]].latest.interrupted
    BY DEF LiveRecorded
  <2>1. Live(r) /\ scheduleOf'[r] = scheduleOf[r]
    OBVIOUS
  <2>2. CASE records' = records
    BY <2>1, <2>2 DEF StoredInv, LiveRecorded
  <2>3. CASE records' = t
    BY <2>1, <2>3 DEF StoredInv, LiveRecorded
  <2> QED
    BY <2>2, <2>3
<1>5. CancelsStay
  BY DEF CancelsStay, IsCancelled, StoredInv, CancelsKept
<1> QED
  BY <1>1, <1>2, <1>3, <1>4, <1>5 DEF StoredInv

\* One record is replaced by another that says the same or more of the run.
LEMMA Updates ==
  ASSUME StoredInv, RunInv', Calm, UNCHANGED << manager, scheduleOf, used >>, manager # "down",
         op' \in Ops \cup {None},
         NEW i \in DOMAIN records, NEW record \in Records, NEW old, old = records[i],
         NEW t, t = [records EXCEPT ![i] = record],
         \/ disk' = disk /\ records' = records
         \/ disk' = t /\ records' \in { records, t },
         record.latest # None =>
           /\ old.latest # None /\ record.latest.run = old.latest.run
           /\ record.latest.state = "ended" =>
                receipt[old.latest.run] # None /\ ~Live(old.latest.run),
         Nonterminal(record.latest) => Nonterminal(old.latest),
         old.authorized => record.authorized,
         ~record.authorized /\ old.latest # None => record.latest # None,
         old.cancelled => record.cancelled,
         old.latest # None /\ Live(old.latest.run) =>
           record.latest # None /\ record.latest.state # "ended" /\ ~record.latest.interrupted
  PROVE  StoredInv' /\ CancelsStay /\ t \in Seq(Records) /\ DOMAIN t = DOMAIN records /\ t[i] = record
<1>0. records \in Seq(Records) /\ Recorded(records)
  BY DEF StoredInv, TasksTypeOK, Lists
<1>1. \A r \in Runs : (receipt[r] = None <=> receipt'[r] = None) /\ (~Live(r) => ~Live(r)')
  BY DEF Calm
<1>2. t \in Seq(Records) /\ DOMAIN t = DOMAIN records /\ Recorded(t)'
  BY <1>0, <1>1, RecordedUpdated
<1>3. t[i] = record /\ \A j \in DOMAIN records : j # i => t[j] = records[j]
  OBVIOUS
<1>4. \A s \in Lists : Recorded(s)'
  <2> SUFFICES ASSUME NEW s \in Lists PROVE Recorded(s)'
    OBVIOUS
  <2> s \in Seq(Records) /\ Recorded(s)
    BY ListsTyped DEF StoredInv
  <2> QED
    BY <1>1, RecordedKept
<1>5. \A j \in DOMAIN records : j \in DOMAIN t /\ (records[j].cancelled => t[j].cancelled)
  BY <1>2, <1>3
<1>6. ASSUME NEW r \in Runs, Live(r)'
      PROVE  /\ Live(r) /\ scheduleOf'[r] = scheduleOf[r]
             /\ t[scheduleOf[r]].latest # None
             /\ t[scheduleOf[r]].latest.run = r
             /\ t[scheduleOf[r]].latest.state # "ended"
             /\ ~t[scheduleOf[r]].latest.interrupted
  <2>1. Live(r)
    BY <1>1, <1>6
  <2>2. /\ scheduleOf[r] \in DOMAIN records
        /\ records[scheduleOf[r]].latest # None
        /\ records[scheduleOf[r]].latest.run = r
        /\ records[scheduleOf[r]].latest.state # "ended"
        /\ ~records[scheduleOf[r]].latest.interrupted
    BY <2>1 DEF StoredInv, LiveRecorded
  <2>3. CASE scheduleOf[r] = i
    BY <1>3, <2>1, <2>2, <2>3
  <2>4. CASE scheduleOf[r] # i
    BY <1>3, <2>1, <2>2, <2>4
  <2> QED
    BY <2>3, <2>4
<1>7. Fresh'
  BY DEF StoredInv, Fresh, Calm
<1>8. scheduleOf' \in [Runs -> Schedules \cup {None}] /\ used' \in 0 .. MaxRuns
  BY DEF StoredInv, TasksTypeOK
<1> QED
  BY <1>2, <1>3, <1>4, <1>5, <1>6, <1>7, <1>8, Stores

\* A commit of the schedule file concerns no run.
LEMMA FaultKeeps ==
  ASSUME RunInv, NEW outcome \in SaveOutcomes, Fault(outcome), UNCHANGED << receipt, active >>
  PROVE  RunInv' /\ Calm
<1>1. faults' \in 0 .. MaxFaults
  BY FaultType DEF RunInv
<1> QED
  BY <1>1 DEF RunInv, RunTypeOK, CallsAreRecorded, OutcomeIsFinal, Live, Calm

\* Nor does what changes nothing of the runs.
LEMMA StillKeeps ==
  ASSUME RunInv, UNCHANGED runVars
  PROVE  RunInv' /\ Calm
BY DEF runVars, RunInv, RunTypeOK, CallsAreRecorded, OutcomeIsFinal, Live, Calm

\* Where an operation is, its record is one of the service's, and its run is known.
LEMMA CurrentTyped ==
  ASSUME TInv, op # None, op.step # "initialized"
  PROVE  /\ manager # "down"
         /\ op \in Ops /\ op.at \in DOMAIN records /\ records \in Seq(Records)
         /\ Current \in Records
         /\ Current.latest # None =>
              /\ Current.latest \in LatestRuns /\ Current.latest.run \in Runs
              /\ Current.latest.run <= used
              /\ scheduleOf[Current.latest.run] = op.at
              /\ Current.latest.state = "ended" =>
                   receipt[Current.latest.run] # None /\ ~Live(Current.latest.run)
              /\ Live(Current.latest.run) =>
                   /\ manager # "starting"
                   /\ Current.latest.state # "ended" /\ ~Current.latest.interrupted
<1>1. op \in Ops /\ records \in Seq(Records) /\ op.at \in DOMAIN records
  BY DEF TInv, StoredInv, OpShaped, TasksTypeOK
<1>2. manager # "down"
  BY <1>1 DEF TInv, OpShaped, Ops, Kinds
<1>3. Recorded(records)
  BY <1>2 DEF TInv, StoredInv, Lists
<1>4. Current \in Records /\ (Current.latest # None =>
        Current.latest \in LatestRuns /\ Current.latest.run \in Runs)
  BY <1>1, TypedRecords DEF Current
<1>5. Current.latest # None =>
        /\ Current.latest.run <= used
        /\ scheduleOf[Current.latest.run] = op.at
        /\ Current.latest.state = "ended" =>
             receipt[Current.latest.run] # None /\ ~Live(Current.latest.run)
  BY <1>1, <1>3 DEF Recorded, Current
<1>6. Current.latest # None /\ Live(Current.latest.run) =>
        /\ manager # "starting"
        /\ Current.latest.state # "ended" /\ ~Current.latest.interrupted
  BY <1>4, <1>5 DEF TInv, StoredInv, LiveRecorded, Current
<1> QED
  BY <1>1, <1>2, <1>4, <1>5, <1>6

\* What an answer makes of the record, by the kinds of answers.
LEMMA ObservedTyped ==
  ASSUME TInv, op # None, op.step # "initialized", Current.latest # None,
         NEW answer \in Answers, NEW record, record = Observed(answer)
  PROVE  /\ record \in Records
         /\ record.next = Current.next /\ record.cancelled = Current.cancelled
         /\ record.authorized = Current.authorized
         /\ record.latest \in LatestRuns /\ record.latest.run = Current.latest.run
         /\ record.latest # None
         /\ answer.state = "missing" =>
              /\ record.attention = Current.attention
              /\ IF op.kind = "shutdown" THEN record = Current
                 ELSE record.latest.state = "missing"
         /\ answer.state = "unavailable" =>
              /\ record.attention = Current.attention
              /\ record.latest.state = Current.latest.state
              /\ op.kind # "initialize" => record = Current
         /\ answer.state \in { "running", "ended" } =>
              /\ record.latest.state = answer.state
              /\ record.latest.interrupted = Uncertain(answer)
              /\ record.attention = (Current.attention \/ Uncertain(answer))
<1>1. Current \in Records /\ Current.latest \in LatestRuns
  BY CurrentTyped
<1>2. PICK c \in Records : c = Current
  BY <1>1
<1>3. None \notin LatestRuns
  BY TaskNoneAssumption
<1>4. Uncertain(answer) \in BOOLEAN
  BY DEF Uncertain, Answers, Read, Missing, Unavailable
<1>5. ASSUME NEW latest \in LatestRuns, NEW attention \in BOOLEAN,
             record = [c EXCEPT !.latest = latest, !.attention = attention]
      PROVE  /\ record \in Records
             /\ record.next = c.next /\ record.cancelled = c.cancelled
             /\ record.authorized = c.authorized /\ record.latest = latest
             /\ record.attention = attention
  BY <1>5 DEF Records
<1>6. ASSUME NEW l \in LatestRuns, NEW state \in RunStates, NEW interrupted \in BOOLEAN
       PROVE  /\ [l EXCEPT !.state = state, !.interrupted = interrupted] \in LatestRuns
              /\ [l EXCEPT !.state = state, !.interrupted = interrupted].run = l.run
              /\ [l EXCEPT !.state = state, !.interrupted = interrupted].state = state
              /\ [l EXCEPT !.state = state, !.interrupted = interrupted].interrupted = interrupted
  BY DEF LatestRuns
<1>7. PICK l \in LatestRuns : l = c.latest
  BY <1>1, <1>2
<1>8. c.attention \in BOOLEAN /\ l.state \in RunStates /\ l.interrupted \in BOOLEAN
  BY <1>7 DEF Records, LatestRuns
<1>9. CASE answer = Missing /\ op.kind # "shutdown"
  <2>1. PICK latest \in LatestRuns :
          /\ latest = [l EXCEPT !.state = "missing", !.interrupted = TRUE]
          /\ latest.run = l.run /\ latest.state = "missing"
    BY <1>6, ZenonT(40) DEF RunStates
  <2>2. record = [c EXCEPT !.latest = latest]
    BY <1>2, <1>9, <1>7, <2>1 DEF Observed, Missing, Unavailable, Read
  <2>3. record = [c EXCEPT !.latest = latest, !.attention = c.attention]
    BY <2>2 DEF Records
  <2> QED
    BY <1>2, <1>3, <1>9, <1>5, <1>7, <1>8, <2>1, <2>3, ZenonT(40) DEF Missing, Read
<1>10. CASE answer = Unavailable /\ op.kind = "initialize"
  <2>1. PICK latest \in LatestRuns :
          /\ latest = [l EXCEPT !.interrupted = TRUE]
          /\ latest.run = l.run /\ latest.state = l.state
    <3>1. [l EXCEPT !.interrupted = TRUE] \in LatestRuns
      BY DEF LatestRuns
    <3> QED
      BY <3>1 DEF LatestRuns
  <2>2. record = [c EXCEPT !.latest = latest]
    BY <1>2, <1>10, <1>7, <2>1 DEF Observed, Missing, Unavailable, Read
  <2>3. record = [c EXCEPT !.latest = latest, !.attention = c.attention]
    BY <2>2 DEF Records
  <2> QED
    BY <1>2, <1>3, <1>10, <1>5, <1>7, <1>8, <2>1, <2>3, ZenonT(40) DEF Unavailable, Read
<1>11. CASE \/ answer = Missing /\ op.kind = "shutdown"
            \/ answer = Unavailable /\ op.kind # "initialize"
  <2>1. record = Current
    BY <1>11 DEF Observed, Missing, Unavailable, Read
  <2> QED
    BY <1>1, <1>3, <1>11, <2>1 DEF Missing, Unavailable, Read
<1>12. CASE answer \notin { Missing, Unavailable }
  <2>1. answer.state \in { "running", "ended" } /\ answer.state \in RunStates
    BY <1>12 DEF Answers, Read, RunStates
  <2>2. PICK interrupted \in BOOLEAN : interrupted = Uncertain(answer)
    BY <1>4
  <2>3. PICK state \in RunStates : state = answer.state
    BY <2>1
  <2> DEFINE latest == [l EXCEPT !.state = state, !.interrupted = interrupted]
  <2>4. /\ latest \in LatestRuns
        /\ latest.run = l.run /\ latest.state = answer.state
        /\ latest.interrupted = interrupted
    <3>1. l \in LatestRuns /\ state \in RunStates /\ interrupted \in BOOLEAN
      BY <1>7, <2>2, <2>3
    <3>2. /\ latest \in LatestRuns
          /\ latest.run = l.run /\ latest.state = state
          /\ latest.interrupted = interrupted
      BY <3>1 DEF LatestRuns
    <3> QED
      BY <2>3, <3>2
  <2>5. PICK attention \in BOOLEAN : attention = (c.attention \/ Uncertain(answer))
    BY <1>4, <1>8
  <2>6. record = [c EXCEPT !.latest = latest, !.attention = attention]
    BY <1>2, <1>12, <1>7, <2>1, <2>2, <2>3, <2>5 DEF Observed, Missing, Unavailable, Read
  <2> HIDE DEF latest
  <2> QED
    BY <1>2, <1>3, <1>5, <1>7, <1>8, <2>1, <2>2, <2>5, <2>6, <2>4
<1> QED
  BY <1>9, <1>10, <1>11, <1>12

--------------------------------------------------------------------------------
\* The steps of an operation.

\* Without a run there is nothing to know before the schedule fires.
LEMMA ReconcileNothingKeeps ==
  ASSUME TInv, ReconcileNothing
  PROVE  TInv' /\ CancelsStay
<1>1. op # None /\ op.step = "reconcile"
  BY DEF ReconcileNothing, AtStep
<1>2. op.kind = "tick" => Current.latest = None
  BY DEF ReconcileNothing, Settled
<1>3. PICK record : record = Current
  OBVIOUS
<1>4. OpShaped' /\ op' \in Ops \cup {None}
  <2>1. op' \in Reconciled(record) /\ UNCHANGED << manager, records >>
    BY <1>3 DEF ReconcileNothing
  <2>2. records'[op.at] = record
    BY <1>3, <2>1 DEF Current
  <2>3. TasksTypeOK /\ OpShaped
    BY DEF TInv, StoredInv
  <2> QED
    BY <1>1, <1>2, <1>3, <2>1, <2>2, <2>3, ReconciledShaped
<1>5. StoredInv' /\ CancelsStay
  <2>1. RunInv' /\ Calm
    BY StillKeeps DEF ReconcileNothing, TInv, StoredInv
  <2> QED
    BY <1>4, <2>1, CalmStores DEF ReconcileNothing, TInv
<1> QED
  BY <1>4, <1>5 DEF TInv

\* An answer that is no news about an ended run is a final one; news are true when they are
\* acted upon.
LEMMA ReconcileAsksKeeps ==
  ASSUME TInv, ReconcileAsks
  PROVE  TInv' /\ CancelsStay
<1>1. op # None /\ op.step = "reconcile" /\ Current.latest # None
  BY DEF ReconcileAsks, AtStep, Settled
<1>2. PICK answer \in Answers :
        /\ IF op.kind = "shutdown" \/ (Current.cancelled /\ Nonterminal(Current.latest))
           THEN Cancel(Current.latest.run, answer)
           ELSE Status(Current.latest.run, answer)
        /\ IF Observed(answer) = Current /\ ~Alarms(answer)
           THEN op' \in Reconciled(Current)
           ELSE op' = [op EXCEPT !.step = "observe", !.answer = answer]
  BY DEF ReconcileAsks
<1>3. PICK r \in Runs : r = Current.latest.run
  BY <1>1, CurrentTyped
<1>4. PICK record : record = Current
  OBVIOUS
<1>5. UNCHANGED << manager, disk, records, scheduleOf, used >>
  BY DEF ReconcileAsks
<1>6. /\ RunInv' /\ Calm
      /\ answer.state = "running" => Live(r)
      /\ answer.state \in { "ended", "missing" } => ~Live(r)
      /\ answer.state = "ended" => receipt[r] # None
      /\ answer.state = "missing" => receipt[r] = None
      /\ answer = Read("ended", FALSE) /\ op.kind # "shutdown" /\ ~Current.cancelled
           => Conclusive(r)' /\ ~receipt'[r].interrupted
  <2>1. RunInv
    BY DEF TInv, StoredInv
  <2>2. CASE op.kind = "shutdown" \/ (Current.cancelled /\ Nonterminal(Current.latest))
    <3>1. Cancel(r, answer)
      BY <1>2, <1>3, <2>2 DEF Cancel, Asked, Status, Load, Save, Live, Interrupted,
                              Accepts, Inconclusive, Fault, Reaped
    <3> QED
      BY <1>2, <1>3, <2>1, <2>2, <3>1, CancelKeeps
  <2>3. CASE ~(op.kind = "shutdown" \/ (Current.cancelled /\ Nonterminal(Current.latest)))
    <3>1. Status(r, answer)
      BY <1>2, <1>3, <2>3 DEF Status, Load, Save, Live, Interrupted,
                              Accepts, Inconclusive, Fault, Reaped
    <3> QED
      BY <1>2, <1>3, <2>1, <3>1, StatusKeeps
  <2> QED
    BY <2>2, <2>3
<1>7. TasksTypeOK /\ OpShaped /\ op \in Ops
  BY <1>1, CurrentTyped DEF TInv, StoredInv
<1>8. /\ scheduleOf[r] = op.at /\ (record.latest.state = "ended" => receipt[r] # None)
      /\ Live(r) => record.latest.state # "ended"
      /\ record.latest # None /\ record.latest.run = r
  BY <1>1, <1>3, <1>4, CurrentTyped
<1>9. OpShaped' /\ op' \in Ops \cup {None}
  <2>1. CASE Observed(answer) = Current /\ ~Alarms(answer)
    <3>1. op' \in Reconciled(record)
      BY <1>2, <1>4, <2>1
    <3>2. records'[op.at] = record
      BY <1>4, <1>5 DEF Current
    <3>3. ASSUME op.kind = "tick", Due(record)
          PROVE  Final(r)'
      <4>1. ~Current.cancelled /\ ~Current.attention /\ Current.latest.state = "ended"
        BY <1>1, <1>4, <3>3 DEF Due, Nonterminal
      <4>2. answer # Missing /\ answer # Unavailable
        BY <1>1, <1>2, <1>7, <2>1, <3>3, <4>1, ObservedTyped DEF Alarms, Missing, Unavailable, Read
      <4>3. answer.state \in { "running", "ended" }
        BY <4>2 DEF Answers, Read
      <4>4. answer.state = "ended" /\ Uncertain(answer) = FALSE
        BY <1>1, <1>2, <2>1, <4>1, <4>3, CurrentTyped, ObservedTyped, ZenonT(40) DEF Uncertain, Records
      <4>5. answer = Read("ended", FALSE)
        BY <4>2, <4>4 DEF Answers, Read, Uncertain
      <4> QED
        BY <1>6, <3>3, <4>1, <4>5 DEF Final, Conclusive, Inconclusive
    <3>4. Due(record) /\ op.kind = "tick" /\ ~op.firing /\ record.latest # None
            /\ ~record.authorized => Final(record.latest.run)'
      BY <1>8, <3>3 DEF Final, Conclusive
    <3> QED
      BY <1>1, <1>5, <1>7, <3>1, <3>2, <3>4, ReconciledShaped
  <2>2. CASE ~(Observed(answer) = Current /\ ~Alarms(answer))
    <3>1. op' = [op EXCEPT !.step = "observe", !.answer = answer]
      BY <1>2, <2>2
    <3>2. /\ op' \in Ops /\ op'.kind = op.kind /\ op'.at = op.at
          /\ op'.step = "observe" /\ op'.answer = answer
      BY <1>2, <1>7, <3>1 DEF Ops, Steps
    <3>3. Current' = record
      BY <1>4, <1>5, <3>2 DEF Current
    <3>4. Observing'
      <4>1. answer.state \in { "running", "missing" } => record.latest.state # "ended"
        BY <1>6, <1>8
      <4>2. answer.state \in { "ended", "missing" } => ~Live(r)'
        BY <1>6 DEF Calm
      <4>3. answer.state = "ended" => receipt'[r] # None
        BY <1>6 DEF Calm
      <4>4. answer = Read("ended", FALSE) /\ op.kind # "shutdown" /\ ~record.cancelled
              => Final(r)'
        BY <1>4, <1>6 DEF Final
      <4> QED
        BY <1>2, <1>8, <3>2, <3>3, <4>1, <4>2, <4>3, <4>4 DEF Observing, Final, Live, Conclusive
    <3> QED
      BY <1>1, <1>5, <1>7, <3>2, <3>4 DEF OpShaped
  <2> QED
    BY <2>1, <2>2
<1>10. StoredInv' /\ CancelsStay
  BY <1>5, <1>6, <1>9, CalmStores DEF TInv
<1> QED
  BY <1>9, <1>10 DEF TInv

\* News are stored, whatever becomes of the commit; only a final outcome lets a tick go on.
LEMMA ObserveNewsKeeps ==
  ASSUME TInv, ObserveNews
  PROVE  TInv' /\ CancelsStay
<1>1. op # None /\ op.step = "observe" /\ Observing /\ Current.latest # None
      /\ op.answer \in Answers
  BY DEF ObserveNews, AtStep, TInv, OpShaped, Observing
<1>2. PICK done : done \in (IF Alarms(op.answer) THEN { Onward("block") }
                            ELSE Reconciled(Observed(op.answer)))
                  /\ Commits(With(Observed(op.answer)), done, Failed)
  BY DEF ObserveNews
<1>3. PICK answer \in Answers : answer = op.answer
  BY <1>1
<1>4. PICK record : record = Observed(answer)
  OBVIOUS
<1>5. PICK old : old = Current
  OBVIOUS
<1>6. PICK t : t = [records EXCEPT ![op.at] = record]
  OBVIOUS
<1>7. PICK i : i = op.at
  OBVIOUS
<1>8. PICK outcome \in SaveOutcomes :
        /\ Fault(outcome)
        /\ disk' = IF outcome = "lost" THEN disk ELSE t
        /\ records' = IF outcome = "saved" THEN t ELSE records
        /\ op' = IF outcome = "saved" THEN done ELSE Failed
  BY <1>2, <1>3, <1>4, <1>6 DEF Commits, With
<1>9. UNCHANGED << receipt, active, manager, scheduleOf, used >>
  BY DEF ObserveNews
<1>10. RunInv' /\ Calm
  BY <1>8, <1>9, FaultKeeps DEF TInv, StoredInv
<1>11. TasksTypeOK /\ OpShaped /\ op \in Ops /\ i \in DOMAIN records /\ records[i] = old
       /\ manager # "down"
  BY <1>1, <1>5, <1>7, CurrentTyped DEF TInv, StoredInv, Current
<1>12. /\ record \in Records
       /\ record.next = old.next /\ record.cancelled = old.cancelled
       /\ record.authorized = old.authorized
       /\ record.latest \in LatestRuns /\ record.latest.run = old.latest.run
       /\ record.latest # None /\ old.latest # None
  BY <1>1, <1>4, <1>5, ObservedTyped
<1>13. answer.state \in { "running", "ended", "missing", "unavailable" }
  BY DEF Answers, Missing, Unavailable, Read
<1>14. /\ record.latest.state = "ended" =>
            receipt[old.latest.run] # None /\ ~Live(old.latest.run)
       /\ Nonterminal(record.latest) => Nonterminal(old.latest)
  <2>1. \/ record.latest.state = old.latest.state
        \/ answer.state = "missing" /\ record.latest.state = "missing"
        \/ answer.state \in { "running", "ended" } /\ record.latest.state = answer.state
    BY <1>1, <1>4, <1>5, <1>13, ObservedTyped
  <2>2. /\ answer.state \in { "running", "missing" } => old.latest.state # "ended"
        /\ answer.state = "ended" =>
             receipt[old.latest.run] # None /\ ~Live(old.latest.run)
    BY <1>1, <1>3, <1>5 DEF Observing
  <2>3. old.latest.state = "ended" => receipt[old.latest.run] # None /\ ~Live(old.latest.run)
    BY <1>1, <1>5, CurrentTyped
  <2> QED
    BY <1>12, <2>1, <2>2, <2>3 DEF Nonterminal
<1>15. Live(old.latest.run) =>
         record.latest.state # "ended" /\ ~record.latest.interrupted
  <2> SUFFICES ASSUME Live(old.latest.run)
               PROVE  record.latest.state # "ended" /\ ~record.latest.interrupted
    OBVIOUS
  <2>1. manager # "starting" /\ old.latest.state # "ended" /\ ~old.latest.interrupted
    BY <1>1, <1>5, CurrentTyped
  <2>2. op.kind # "initialize"
    BY <1>1, <2>1 DEF TInv, OpShaped
  <2>3. answer.state \in { "running", "unavailable" }
    BY <1>1, <1>3, <1>5, <1>13 DEF Observing
  <2>4. CASE answer.state = "unavailable"
    BY <1>1, <1>4, <1>5, <2>1, <2>2, <2>4, ObservedTyped
  <2>5. CASE answer.state = "running"
    <3>1. answer = Read("running", FALSE)
      BY <2>5 DEF Answers, Missing, Unavailable, Read
    <3>2. Uncertain(answer) = FALSE
      BY <2>2, <3>1 DEF Uncertain, Read
    <3> QED
      BY <1>1, <1>4, <2>5, <3>2, ObservedTyped
  <2> QED
    BY <2>3, <2>4, <2>5
<1>16. record.latest # None /\ Final(old.latest.run) => Final(record.latest.run)'
  BY <1>9, <1>12 DEF Final, Conclusive
<1>17. CASE outcome = "saved"
  <2>1. records' = t /\ disk' = t /\ op' = done
    BY <1>8, <1>17
  <2>2. DOMAIN records' = DOMAIN records /\ records'[op.at] = record
    BY <1>6, <1>7, <1>11, <2>1
  <2>3. CASE Alarms(op.answer)
    <3>1. op' = Onward("block")
      BY <1>2, <2>1, <2>3
    <3> QED
      BY <1>1, <1>9, <1>11, <2>1, <2>2, <3>1, BlockShaped, <1>6, <1>7, <1>10, <1>12,
         <1>14, <1>15, Updates DEF TInv
  <2>4. CASE ~Alarms(op.answer)
    <3>1. op' \in Reconciled(record)
      BY <1>2, <1>3, <1>4, <2>1, <2>4
    <3>2. ASSUME op.kind = "tick", Due(record)
          PROVE  Final(record.latest.run)'
      <4>1. ~record.cancelled /\ ~record.attention /\ record.latest.state = "ended"
        BY <1>12, <3>2 DEF Due, Nonterminal
      <4>2. answer.state \in { "running", "ended" }
        <5>1. CASE answer.state \in { "missing", "unavailable" }
          <6>1. record.attention = Current.attention
            BY <1>1, <1>4, <5>1, ObservedTyped
          <6>2. answer \in { Missing, Unavailable }
            BY <5>1 DEF Answers, Missing, Unavailable, Read
          <6> QED
            BY <1>3, <2>4, <3>2, <4>1, <6>1, <6>2 DEF Alarms
        <5> QED
          BY <1>13, <5>1
      <4>3. answer.state = "ended" /\ ~Uncertain(answer)
        BY <1>1, <1>4, <4>1, <4>2, ObservedTyped
      <4>4. answer = Read("ended", FALSE)
        BY <4>3 DEF Answers, Missing, Unavailable, Read, Uncertain
      <4>5. Final(old.latest.run)
        BY <1>1, <1>3, <1>5, <1>12, <3>2, <4>1, <4>4 DEF Observing
      <4> QED
        BY <1>12, <1>16, <4>5
    <3>3. Due(record) /\ op.kind = "tick" /\ ~op.firing /\ record.latest # None
            /\ ~record.authorized => Final(record.latest.run)'
      BY <3>2
    <3>4. OpShaped' /\ op' \in Ops \cup {None}
      BY <1>1, <1>9, <1>11, <2>2, <3>1, <3>3, ReconciledShaped
    <3> QED
      BY <1>9, <1>11, <2>1, <3>4, <1>6, <1>7, <1>10, <1>12, <1>14, <1>15, Updates DEF TInv
  <2> QED
    BY <2>3, <2>4
<1>18. CASE outcome # "saved"
  <2>1. records' = records /\ disk' \in { disk, t } /\ op' \in { Onward("block"), None }
    BY <1>8, <1>18 DEF Failed
  <2>2. OpShaped' /\ op' \in Ops \cup {None}
    BY <1>1, <1>9, <1>11, <2>1, BlockShaped
  <2> QED
    BY <1>9, <1>11, <2>1, <2>2, <1>6, <1>7, <1>10, <1>12, <1>14, <1>15, Updates DEF TInv
<1> QED
  BY <1>17, <1>18

\* A lookup that failed changes nothing yet.
LEMMA ObserveFailureKeeps ==
  ASSUME TInv, ObserveFailure
  PROVE  TInv' /\ CancelsStay
<1>1. op # None /\ op.step = "observe" /\ op' = Onward("block")
  BY DEF ObserveFailure, AtStep
<1>2. UNCHANGED << runVars, manager, disk, records, scheduleOf, used >>
  BY DEF ObserveFailure
<1>3. OpShaped' /\ op' \in Ops \cup {None}
  BY <1>1, <1>2, BlockShaped DEF TInv, StoredInv
<1>4. RunInv' /\ Calm
  BY <1>2, StillKeeps DEF TInv, StoredInv
<1> QED
  BY <1>2, <1>3, <1>4, CalmStores DEF TInv

\* A record that needs attention is not due.
LEMMA BlockKeeps ==
  ASSUME TInv, Block
  PROVE  TInv' /\ CancelsStay
<1>1. op # None /\ op.step = "block"
  BY DEF Block, AtStep
<1>2. PICK done : done \in Reconciled(Blocked) /\ Commits(With(Blocked), done, None)
  BY DEF Block
<1>3. PICK old \in Records : old = Current
  BY <1>1, CurrentTyped
<1>4. PICK record : record = [old EXCEPT !.attention = TRUE]
  OBVIOUS
<1>5. record = Blocked
  BY <1>3, <1>4 DEF Blocked
<1>6. PICK t : t = [records EXCEPT ![op.at] = record]
  OBVIOUS
<1>7. PICK i : i = op.at
  OBVIOUS
<1>8. PICK outcome \in SaveOutcomes :
        /\ Fault(outcome)
        /\ disk' = IF outcome = "lost" THEN disk ELSE t
        /\ records' = IF outcome = "saved" THEN t ELSE records
        /\ op' = IF outcome = "saved" THEN done ELSE None
  BY <1>2, <1>5, <1>6 DEF Commits, With
<1>9. UNCHANGED << receipt, active, manager, scheduleOf, used >>
  BY DEF Block
<1>10. RunInv' /\ Calm
  BY <1>8, <1>9, FaultKeeps DEF TInv, StoredInv
<1>11. TasksTypeOK /\ OpShaped /\ i \in DOMAIN records /\ records[i] = old
       /\ manager # "down"
  BY <1>1, <1>3, <1>7, CurrentTyped DEF TInv, StoredInv, Current
<1>12. /\ record \in Records /\ record.attention = TRUE
       /\ record.cancelled = old.cancelled /\ record.authorized = old.authorized
       /\ record.latest = old.latest
  BY <1>3, <1>4 DEF Records
<1>13. record.latest # None =>
         /\ record.latest.state = "ended" =>
              receipt[old.latest.run] # None /\ ~Live(old.latest.run)
         /\ Live(old.latest.run) =>
              record.latest.state # "ended" /\ ~record.latest.interrupted
  BY <1>1, <1>3, <1>12, CurrentTyped
<1>14. OpShaped' /\ op' \in Ops \cup {None}
  <2>1. CASE outcome = "saved"
    <3>1. op' \in Reconciled(record) /\ records' = t
      BY <1>2, <1>5, <1>8, <2>1
    <3>2. DOMAIN records' = DOMAIN records /\ records'[op.at] = record
      BY <1>6, <1>7, <1>11, <3>1
    <3>3. ~Due(record)
      BY <1>12 DEF Due
    <3> QED
      BY <1>1, <1>9, <1>11, <3>1, <3>2, <3>3, ReconciledShaped
  <2>2. CASE outcome # "saved"
    BY <1>8, <2>2 DEF OpShaped
  <2> QED
    BY <2>1, <2>2
<1>15. \/ disk' = disk /\ records' = records
       \/ disk' = t /\ records' \in { records, t }
  BY <1>8 DEF SaveOutcomes
<1> QED
  BY <1>6, <1>7, <1>9, <1>10, <1>11, <1>12, <1>13, <1>14, <1>15, Updates DEF TInv

\* The run that the user's authorization makes the service forget works no more.
LEMMA RunNowAuthorizedKeeps ==
  ASSUME TInv, RunNowAuthorized
  PROVE  TInv' /\ CancelsStay
<1>1. op # None /\ op.step = "authorize" /\ manager = "ready" /\ MayRunNow(Current)
  BY DEF RunNowAuthorized, AtStep, TInv, OpShaped
<1>2. PICK old \in Records : old = Current
  BY <1>1, CurrentTyped
<1>3. PICK latest \in LatestRuns \cup {None} :
        latest = IF Nonterminal(old.latest) THEN None ELSE old.latest
  BY DEF Records
<1>4. PICK record :
        record = [old EXCEPT !.attention = FALSE, !.authorized = TRUE, !.latest = latest]
  OBVIOUS
<1>5. record = [Current EXCEPT
                  !.attention = FALSE, !.authorized = TRUE,
                  !.latest = IF Nonterminal(@) THEN None ELSE @]
  BY <1>2, <1>3, <1>4
<1>6. PICK t : t = [records EXCEPT ![op.at] = record]
  OBVIOUS
<1>7. PICK i : i = op.at
  OBVIOUS
<1>8. PICK outcome \in SaveOutcomes :
        /\ Fault(outcome)
        /\ disk' = IF outcome = "lost" THEN disk ELSE t
        /\ records' = IF outcome = "saved" THEN t ELSE records
        /\ op' = IF outcome = "saved" THEN [Onward("fire") EXCEPT !.firing = TRUE] ELSE None
  BY <1>5, <1>6 DEF RunNowAuthorized, Commits, With
<1>9. UNCHANGED << receipt, active, manager, scheduleOf, used >>
  BY DEF RunNowAuthorized
<1>10. RunInv' /\ Calm
  BY <1>8, <1>9, FaultKeeps DEF TInv, StoredInv
<1>11. TasksTypeOK /\ OpShaped /\ i \in DOMAIN records /\ records[i] = old
  BY <1>1, <1>2, <1>7, CurrentTyped DEF TInv, StoredInv, Current
<1>12. /\ record \in Records /\ record.authorized = TRUE
       /\ record.cancelled = old.cancelled /\ record.latest = latest
  BY <1>3, <1>4 DEF Records
<1>13. ~old.cancelled /\ (Nonterminal(old.latest) => old.latest.interrupted)
  BY <1>1, <1>2 DEF MayRunNow, Nonterminal
<1>14. old.latest # None =>
         /\ old.latest.state = "ended" =>
              receipt[old.latest.run] # None /\ ~Live(old.latest.run)
         /\ Live(old.latest.run) => old.latest.state # "ended" /\ ~old.latest.interrupted
  BY <1>1, <1>2, CurrentTyped
<1>15. ~Nonterminal(latest)
  BY <1>3 DEF Nonterminal
<1>16. OpShaped' /\ op' \in Ops \cup {None}
  <2>1. CASE outcome = "saved"
    <3>1. op' \in Ops /\ op'.kind = op.kind /\ op'.at = i /\ op'.step = "fire"
      BY <1>1, <1>7, <1>8, <1>11, <2>1, OpsTyped
    <3>2. records' = t /\ DOMAIN t = DOMAIN records /\ records'[i] = record
      BY <1>6, <1>7, <1>8, <1>11, <2>1
    <3>3. Firing'
      BY <1>1, <1>9, <1>12, <1>13, <1>15, <3>1, <3>2 DEF Firing, Current, Nonterminal
    <3> QED
      BY <1>1, <1>9, <1>11, <3>1, <3>2, <3>3 DEF OpShaped
  <2>2. CASE outcome # "saved"
    BY <1>8, <2>2 DEF OpShaped
  <2> QED
    BY <2>1, <2>2
<1>17. \/ disk' = disk /\ records' = records
       \/ disk' = t /\ records' \in { records, t }
  BY <1>8 DEF SaveOutcomes
<1>18. /\ record.latest # None =>
            /\ old.latest # None /\ record.latest.run = old.latest.run
            /\ record.latest.state = "ended" =>
                 receipt[old.latest.run] # None /\ ~Live(old.latest.run)
       /\ ~(old.latest # None /\ Live(old.latest.run))
  BY <1>3, <1>12, <1>13, <1>14 DEF Nonterminal
<1> QED
  BY <1>1, <1>6, <1>7, <1>9, <1>10, <1>11, <1>12, <1>15, <1>16, <1>17, <1>18, Updates DEF TInv

\* A refusal changes nothing yet.
LEMMA FireRefusedKeeps ==
  ASSUME TInv, FireRefused
  PROVE  TInv' /\ CancelsStay
<1>1. op # None /\ op.step = "fire" /\ op' = Onward("block")
  BY DEF FireRefused, AtStep
<1>2. UNCHANGED << runVars, manager, disk, records, scheduleOf, used >>
  BY DEF FireRefused
<1>3. OpShaped' /\ op' \in Ops \cup {None}
  BY <1>1, <1>2, BlockShaped DEF TInv, StoredInv
<1>4. RunInv' /\ Calm
  BY <1>2, StillKeeps DEF TInv, StoredInv
<1> QED
  BY <1>2, <1>3, <1>4, CalmStores DEF TInv

\* The new run is the last of its schedule and the only open one of its owner.
LEMMA FireKeeps ==
  ASSUME TInv, Fire
  PROVE  TInv' /\ CancelsStay
<1>1. op # None /\ op.step = "fire" /\ Firing
  BY DEF Fire, AtStep, TInv, OpShaped
<1>2. PICK i : i = op.at
  OBVIOUS
<1>3. PICK old \in Records : old = Current
  BY <1>1, CurrentTyped
<1>4. PICK new : new = used + 1
  OBVIOUS
<1>5. PICK record :
        record = [old EXCEPT
                    !.latest = [run |-> new, state |-> "admitted", interrupted |-> FALSE],
                    !.authorized = FALSE, !.next = Repeats[i]]
  OBVIOUS
<1>6. record = Admitted(used + 1)
  BY <1>2, <1>3, <1>4, <1>5 DEF Admitted
<1>7. PICK t : t = [records EXCEPT ![op.at] = record]
  OBVIOUS
<1>8. PICK outcome \in SaveOutcomes :
        /\ Fault(outcome)
        /\ disk' = IF outcome = "lost" THEN disk ELSE t
        /\ records' = IF outcome = "saved" THEN t ELSE records
        /\ op' = IF outcome = "saved" THEN Onward("start") ELSE Onward("block")
  BY <1>6, <1>7 DEF Fire, Commits, With
<1>9. /\ UNCHANGED << receipt, active, manager >>
      /\ used < MaxRuns /\ used' = used + 1
      /\ scheduleOf' = [scheduleOf EXCEPT ![used + 1] = i]
      /\ \A j \in DOMAIN records :
           j # i /\ OwnerOf[j] = OwnerOf[i] => ~Nonterminal(records[j].latest)
  BY <1>2 DEF Fire, OwnerIsFree
<1>10. RunInv' /\ Calm
  BY <1>8, <1>9, FaultKeeps DEF TInv, StoredInv
<1>11. /\ TasksTypeOK /\ OpShaped /\ Fresh /\ i \in DOMAIN records /\ records[i] = old
       /\ records \in Seq(Records) /\ Recorded(records) /\ manager = "ready"
  BY <1>1, <1>2, <1>3, CurrentTyped DEF TInv, StoredInv, Current, Lists, Firing
<1>12. i \in Schedules
  <2>1. DOMAIN records = 1 .. Len(records) /\ Len(records) \in Nat /\ Len(records) <= MaxSchedules
    BY <1>11, LenProperties DEF Recorded
  <2> QED
    BY <1>11, <2>1, MaxSchedulesAssumption DEF Schedules
<1>13. used \in Nat /\ new \in Runs /\ Runs \subseteq Nat
  BY <1>4, <1>9, <1>11, MaxRunsAssumption DEF TasksTypeOK, Runs
<1>14. /\ record \in Records
       /\ record.latest = [run |-> new, state |-> "admitted", interrupted |-> FALSE]
       /\ record.cancelled = old.cancelled
  <2>1. [run |-> new, state |-> "admitted", interrupted |-> FALSE] \in LatestRuns
    BY <1>13 DEF LatestRuns, RunStates
  <2>2. Repeats[i] \in BOOLEAN
    BY <1>12, RepeatsAssumption DEF Schedules
  <2> QED
    BY <1>5, <2>1, <2>2 DEF Records
<1>15. \A s \in Lists : Recorded(s)'
  <2> SUFFICES ASSUME NEW s \in Lists PROVE Recorded(s)'
    OBVIOUS
  <2>1. s \in Seq(Records) /\ Recorded(s)
    BY ListsTyped DEF TInv, StoredInv
  <2> QED
    BY <1>9, <1>11, <2>1, RecordedReserved
<1>16. t \in Seq(Records) /\ DOMAIN t = DOMAIN records /\ Recorded(t)'
  BY <1>2, <1>4, <1>7, <1>9, <1>11, <1>14, RecordedAdmitted
<1>17. t[i] = record /\ \A j \in DOMAIN records : j # i => t[j] = records[j]
  BY <1>2, <1>7, <1>11
<1>18. /\ scheduleOf'[new] = i
       /\ \A r \in Runs : r # new => scheduleOf'[r] = scheduleOf[r]
       /\ scheduleOf' \in [Runs -> Schedules \cup {None}]
       /\ used' \in 0 .. MaxRuns
  BY <1>4, <1>9, <1>11, <1>12, <1>13, MaxRunsAssumption DEF TasksTypeOK
<1>19. active[new] = None /\ receipt[new] = None
  BY <1>4, <1>11, <1>13 DEF Fresh
<1>20. Fresh'
  <2> SUFFICES ASSUME NEW r \in Runs, r > used'
               PROVE  active'[r] = None /\ receipt'[r] = None /\ scheduleOf'[r] = None
    BY DEF Fresh
  <2>1. r > used /\ r # new
    BY <1>4, <1>9, <1>13
  <2> QED
    BY <1>9, <1>11, <1>18, <2>1 DEF Fresh
<1>21. ASSUME NEW r \in Runs, Live(r)'
       PROVE  /\ Live(r) /\ scheduleOf'[r] = scheduleOf[r]
              /\ t[scheduleOf[r]].latest # None
              /\ t[scheduleOf[r]].latest.run = r
              /\ t[scheduleOf[r]].latest.state # "ended"
              /\ ~t[scheduleOf[r]].latest.interrupted
  <2>1. Live(r)
    BY <1>9, <1>21 DEF Live
  <2>2. r # new
    BY <1>19, <2>1 DEF Live
  <2>3. /\ scheduleOf[r] \in DOMAIN records
        /\ records[scheduleOf[r]].latest # None
        /\ records[scheduleOf[r]].latest.run = r
        /\ records[scheduleOf[r]].latest.state # "ended"
        /\ ~records[scheduleOf[r]].latest.interrupted
    BY <2>1 DEF TInv, StoredInv, LiveRecorded
  <2>4. scheduleOf[r] # i
    BY <1>1, <1>3, <1>11, <2>3 DEF Firing, Nonterminal
  <2> QED
    BY <1>17, <1>18, <2>1, <2>2, <2>3, <2>4
<1>22. OpShaped' /\ op' \in Ops \cup {None}
  <2>1. CASE outcome = "saved"
    <3>1. op' \in Ops /\ op'.kind = op.kind /\ op'.at = i /\ op'.step = "start"
      BY <1>1, <1>2, <1>8, <1>11, <2>1, OpsTyped DEF Steps
    <3>2. disk' = t /\ records' = t
      BY <1>8, <2>1
    <3>3. Starting'
      <4>1. Current' = record
        BY <1>17, <3>1, <3>2 DEF Current
      <4>2. used' = new /\ manager' = "ready" /\ active'[new] = None /\ receipt'[new] = None
        BY <1>4, <1>9, <1>11, <1>19
      <4>3. ~record.cancelled
        BY <1>1, <1>3, <1>14 DEF Firing
      <4> QED
        BY <1>13, <1>14, <1>18, <3>1, <3>2, <4>1, <4>2, <4>3 DEF Starting
    <3>4. op'.kind \notin { "initialize", "shutdown" } /\ manager' = "ready"
      BY <1>1, <1>9, <1>11, <3>1 DEF OpShaped
    <3>5. op'.at \in DOMAIN records'
      BY <1>11, <1>16, <3>1, <3>2
    <3> QED
      BY <3>1, <3>3, <3>4, <3>5 DEF OpShaped
  <2>2. CASE outcome # "saved"
    <3>1. records' = records /\ op' = Onward("block")
      BY <1>8, <2>2
    <3> QED
      BY <1>1, <1>9, <1>11, <3>1, BlockShaped
  <2> QED
    BY <2>1, <2>2
<1>23. \/ disk' = disk /\ records' = records
       \/ disk' = t /\ records' \in { records, t }
  BY <1>8 DEF SaveOutcomes
<1>24. \A j \in DOMAIN records : j \in DOMAIN t /\ (records[j].cancelled => t[j].cancelled)
  BY <1>11, <1>14, <1>16, <1>17
<1>25. \A j \in DOMAIN t : t[j].cancelled => j \in DOMAIN records
  BY <1>16
<1> QED
  BY <1>9, <1>10, <1>11, <1>15, <1>16, <1>18, <1>20, <1>21, <1>22, <1>23, <1>24, <1>25,
     Stores DEF TInv

\* The run that was admitted is started, or not: the file and the records tell of it.
LEMMA AdmittedStores ==
  ASSUME TInv, op # None, op.step = "start", RunInv',
         UNCHANGED << manager, disk, records, scheduleOf, used >>, op' \in Ops \cup {None},
         \A q \in Runs : q # used =>
           /\ active[q] = None => active'[q] = None
           /\ ~Live(q) => ~Live(q)'
           /\ receipt'[q] = receipt[q]
  PROVE  StoredInv' /\ CancelsStay
<1>1. PICK i : i = op.at
  OBVIOUS
<1>2. Starting /\ i \in DOMAIN records
  BY <1>1 DEF TInv, OpShaped
<1>3. PICK new \in Runs : new = used
  BY <1>2 DEF Starting
<1>4. PICK s \in Seq(Records) : s = records
  BY DEF TInv, StoredInv, TasksTypeOK
<1>5. /\ manager = "ready" /\ disk = records /\ scheduleOf[new] = i
      /\ s[i].latest = [run |-> new, state |-> "admitted", interrupted |-> FALSE]
  BY <1>1, <1>2, <1>3, <1>4 DEF Starting, Current
<1>6. Recorded(s) /\ i \in DOMAIN s
  BY <1>2, <1>4 DEF TInv, StoredInv, Lists
<1>7. [run |-> new, state |-> "admitted", interrupted |-> FALSE] # None
  <2>1. [run |-> new, state |-> "admitted", interrupted |-> FALSE] \in LatestRuns
    BY DEF LatestRuns, RunStates
  <2> QED
    BY <2>1, TaskNoneAssumption
<1>8. Recorded(s)'
  <2>1. \A r \in Runs : receipt'[r] # None => scheduleOf'[r] \in DOMAIN s
    BY <1>3, <1>5, <1>6 DEF Recorded
  <2>2. ASSUME NEW j \in DOMAIN s, s[j].latest # None
        PROVE  /\ s[j].latest.run <= used'
               /\ scheduleOf'[s[j].latest.run] = j
               /\ s[j].latest.state = "ended" =>
                    receipt'[s[j].latest.run] # None /\ ~Live(s[j].latest.run)'
    <3>1. PICK q \in Runs : q = s[j].latest.run
      BY <2>2, TypedRecords
    <3>2. q <= used /\ scheduleOf[q] = j
      BY <1>6, <2>2, <3>1 DEF Recorded
    <3>3. s[j].latest.state = "ended" => receipt'[q] # None /\ ~Live(q)'
      <4>1. CASE q = new
        BY <1>5, <3>2, <4>1
      <4>2. CASE q # new
        BY <1>3, <1>6, <2>2, <3>1, <4>2 DEF Recorded, Live
      <4> QED
        BY <4>1, <4>2
    <3> QED
      BY <3>1, <3>2, <3>3
  <2>3. ASSUME NEW j \in DOMAIN s, NEW r \in Runs, LastOf(r, j)', receipt'[r] # None,
               ~s[j].authorized
        PROVE  s[j].latest # None /\ s[j].latest.run = r
    <3>1. LastOf(r, j)
      BY <2>3 DEF LastOf
    <3>2. CASE r = new
      BY <1>5, <1>7, <3>1, <3>2 DEF LastOf
    <3>3. CASE r # new
      BY <1>3, <1>6, <2>3, <3>1, <3>3 DEF Recorded
    <3> QED
      BY <3>2, <3>3
  <2> QED
    BY <1>6, <2>1, <2>2, <2>3 DEF Recorded
<1>9. \A u \in Lists' : Recorded(u)'
  BY <1>4, <1>5, <1>8 DEF Lists
<1>10. TasksTypeOK'
  BY DEF TInv, StoredInv, TasksTypeOK, RunInv
<1>11. LiveRecorded'
  <2> SUFFICES ASSUME NEW r \in Runs, Live(r)'
               PROVE  /\ scheduleOf[r] \in DOMAIN records
                      /\ records[scheduleOf[r]].latest # None
                      /\ records[scheduleOf[r]].latest.run = r
                      /\ records[scheduleOf[r]].latest.state # "ended"
                      /\ ~records[scheduleOf[r]].latest.interrupted
    BY <1>5 DEF LiveRecorded
  <2>1. CASE r = new
    BY <1>4, <1>5, <1>6, <1>7, <2>1
  <2>2. CASE r # new
    BY <1>3, <2>2 DEF TInv, StoredInv, LiveRecorded
  <2> QED
    BY <2>1, <2>2
<1>12. Fresh'
  BY <1>3, MaxRunsAssumption DEF TInv, StoredInv, Fresh, Runs
<1>13. CancelsKept'
  BY DEF TInv, StoredInv, CancelsKept
<1>14. CancelsStay
  BY DEF CancelsStay, IsCancelled
<1> QED
  BY <1>5, <1>9, <1>10, <1>11, <1>12, <1>13, <1>14 DEF StoredInv

\* The run that starts is the one the file and the records tell of.
LEMMA FireStartsKeeps ==
  ASSUME TInv, FireStarts
  PROVE  TInv' /\ CancelsStay
<1>1. op # None /\ op.step = "start" /\ Starting /\ op \in Ops
  BY CurrentTyped DEF FireStarts, AtStep, TInv, OpShaped
<1>2. PICK r \in Runs : r = used
  BY <1>1 DEF Starting
<1>3. Start(r)
  BY <1>2 DEF FireStarts, Start, Save, Accepts, Fault
<1>4. /\ RunInv'
      /\ \A q \in Runs : q # used =>
           /\ active[q] = None => active'[q] = None
           /\ ~Live(q) => ~Live(q)'
           /\ receipt'[q] = receipt[q]
  BY <1>1, <1>2, <1>3, StartKeeps DEF TInv, StoredInv, Starting
<1>5. /\ op' = [op EXCEPT !.step = "observe", !.answer = Read("running", FALSE)]
      /\ UNCHANGED << manager, disk, records, scheduleOf, used >>
  BY DEF FireStarts
<1>6. PICK answer \in Answers : answer = Read("running", FALSE)
  BY DEF Answers
<1>7. /\ op' \in Ops /\ op'.kind = op.kind /\ op'.at = op.at
      /\ op'.step = "observe" /\ op'.answer = answer
  BY <1>1, <1>5, <1>6 DEF Ops, Steps
<1>8. StoredInv' /\ CancelsStay
  BY <1>1, <1>4, <1>5, <1>7, AdmittedStores
<1>9. Observing'
  <2>1. PICK record : record = Current
    OBVIOUS
  <2>2. Current' = record
    BY <1>5, <1>7, <2>1 DEF Current
  <2>3. record.latest # None /\ record.latest.state = "admitted"
    <3>1. [run |-> r, state |-> "admitted", interrupted |-> FALSE] \in LatestRuns
      BY DEF LatestRuns, RunStates
    <3> QED
      BY <1>1, <1>2, <2>1, <3>1, TaskNoneAssumption DEF Starting
  <2>4. answer.state = "running" /\ answer # Read("ended", FALSE)
    BY <1>6 DEF Read
  <2> QED
    BY <1>7, <2>2, <2>3, <2>4 DEF Observing
<1>10. OpShaped'
  BY <1>1, <1>5, <1>7, <1>9 DEF TInv, OpShaped
<1> QED
  BY <1>8, <1>10 DEF TInv

\* So is the one that does not start.
LEMMA FireDoesNotStartKeeps ==
  ASSUME TInv, FireDoesNotStart
  PROVE  TInv' /\ CancelsStay
<1>1. op # None /\ op.step = "start" /\ Starting
  BY DEF FireDoesNotStart, AtStep, TInv, OpShaped
<1>2. PICK r \in Runs : r = used
  BY <1>1 DEF Starting
<1>3. StartFails(r)
  BY <1>2 DEF FireDoesNotStart, StartFails, Save, Accepts, Fault
<1>4. /\ RunInv'
      /\ \A q \in Runs : q # used =>
           /\ active[q] = None => active'[q] = None
           /\ ~Live(q) => ~Live(q)'
           /\ receipt'[q] = receipt[q]
  BY <1>1, <1>2, <1>3, StartFailsKeeps DEF TInv, StoredInv, Starting
<1>5. op' = Onward("block") /\ UNCHANGED << manager, disk, records, scheduleOf, used >>
  BY DEF FireDoesNotStart
<1>6. OpShaped' /\ op' \in Ops \cup {None}
  BY <1>1, <1>5, BlockShaped DEF TInv, StoredInv
<1>7. StoredInv' /\ CancelsStay
  BY <1>1, <1>4, <1>5, <1>6, AdmittedStores
<1> QED
  BY <1>6, <1>7 DEF TInv

--------------------------------------------------------------------------------
\* The clients, the process and the threads.

\* The Manager goes on, or ends its operations; no run is concerned.
LEMMA ManagerMoves ==
  ASSUME StoredInv, RunInv', Calm, UNCHANGED << disk, records, scheduleOf, used >>,
         op' \in Ops \cup {None},
         manager # "down", manager' \in { "ready", "stopping", "stopped" }
  PROVE  StoredInv' /\ CancelsStay
<1>1. TasksTypeOK'
  BY DEF StoredInv, TasksTypeOK, RunInv, Managers
<1>2. \A s \in Lists' : Recorded(s)'
  <2> SUFFICES ASSUME NEW s \in Lists' PROVE Recorded(s)'
    OBVIOUS
  <2>1. s \in Lists
    BY DEF Lists
  <2>2. s \in Seq(Records) /\ Recorded(s)
    BY <2>1, ListsTyped DEF StoredInv
  <2> QED
    BY <2>2, RecordedKept DEF Calm
<1>3. CancelsKept'
  BY DEF StoredInv, CancelsKept
<1>4. LiveRecorded'
  BY DEF StoredInv, LiveRecorded, Calm
<1>5. Fresh'
  BY DEF StoredInv, Fresh, Calm
<1>6. CancelsStay
  BY DEF CancelsStay, IsCancelled
<1> QED
  BY <1>1, <1>2, <1>3, <1>4, <1>5, <1>6 DEF StoredInv

\* The records have been reconciled; no run works yet.
LEMMA InitializedKeeps ==
  ASSUME TInv, Initialized
  PROVE  TInv' /\ CancelsStay
<1>1. op # None /\ op.step = "initialized" /\ op' = None /\ manager' = "ready"
      /\ UNCHANGED << runVars, disk, records, scheduleOf, used >>
  BY DEF Initialized, AtStep
<1>2. manager = "starting"
  BY <1>1 DEF TInv, OpShaped
<1>3. RunInv' /\ Calm
  BY <1>1, StillKeeps DEF TInv, StoredInv
<1>4. OpShaped'
  BY <1>1 DEF OpShaped
<1> QED
  BY <1>1, <1>2, <1>3, <1>4, ManagerMoves DEF TInv

\* An operation begins with nothing but its place.
LEMMA BeginsKeeps ==
  ASSUME TInv, NEW kind \in { "tick", "run now" }, NEW i \in Nat \ {0}, Begins(kind, i)
  PROVE  TInv' /\ CancelsStay
<1>1. /\ manager = "ready" /\ i \in DOMAIN records /\ op' = Operation(kind, i)
      /\ UNCHANGED << runVars, manager, disk, records, scheduleOf, used >>
  BY DEF Begins
<1>2. op' \in Ops /\ op'.kind = kind /\ op'.at = i /\ op'.step = "reconcile"
  <2>1. kind \in Kinds
    BY DEF Kinds
  <2> QED
    BY <1>1, <2>1, OperationTyped
<1>3. RunInv' /\ Calm
  BY <1>1, StillKeeps DEF TInv, StoredInv
<1>4. OpShaped'
  BY <1>1, <1>2 DEF OpShaped
<1> QED
  BY <1>1, <1>2, <1>3, <1>4, CalmStores DEF TInv

\* A new schedule has no run, and is not cancelled.
LEMMA ScheduleCreateKeeps ==
  ASSUME TInv, ScheduleCreate
  PROVE  TInv' /\ CancelsStay
<1>1. PICK record :
        record = [ next |-> TRUE, attention |-> FALSE, cancelled |-> FALSE,
                   authorized |-> FALSE, latest |-> None ]
  OBVIOUS
<1>2. PICK t : t = Append(records, record)
  OBVIOUS
<1>3. PICK outcome \in SaveOutcomes :
        /\ Fault(outcome)
        /\ disk' = IF outcome = "lost" THEN disk ELSE t
        /\ records' = IF outcome = "saved" THEN t ELSE records
        /\ op' = IF outcome = "saved" THEN None ELSE None
  BY <1>1, <1>2 DEF ScheduleCreate, Commits
<1>4. /\ manager = "ready" /\ Len(records) < MaxSchedules /\ op' = None
      /\ UNCHANGED << receipt, active, manager, scheduleOf, used >>
  BY <1>3 DEF ScheduleCreate
<1>5. RunInv' /\ Calm
  BY <1>3, <1>4, FaultKeeps DEF TInv, StoredInv
<1>6. /\ TasksTypeOK /\ Recorded(records) /\ records \in Seq(Records)
      /\ \A r \in Runs : receipt[r] # None => scheduleOf[r] \in DOMAIN records
  BY <1>4 DEF TInv, StoredInv, TasksTypeOK, Lists, Recorded
<1>7. record \in Records /\ record.latest = None
  BY <1>1 DEF Records
<1>8. /\ t \in Seq(Records) /\ DOMAIN records \subseteq DOMAIN t /\ Recorded(t)'
      /\ \A j \in DOMAIN records : t[j] = records[j]
  BY <1>2, <1>4, <1>6, <1>7, RecordedAppended
<1>9. \A s \in Lists : Recorded(s)'
  <2> SUFFICES ASSUME NEW s \in Lists PROVE Recorded(s)'
    OBVIOUS
  <2>1. s \in Seq(Records) /\ Recorded(s)
    BY ListsTyped DEF TInv, StoredInv
  <2> QED
    BY <1>4, <1>5, <2>1, RecordedKept DEF Calm
<1>10. ASSUME NEW r \in Runs, Live(r)'
       PROVE  /\ Live(r) /\ scheduleOf'[r] = scheduleOf[r]
              /\ t[scheduleOf[r]].latest # None
              /\ t[scheduleOf[r]].latest.run = r
              /\ t[scheduleOf[r]].latest.state # "ended"
              /\ ~t[scheduleOf[r]].latest.interrupted
  <2>1. Live(r)
    BY <1>4, <1>10 DEF Live
  <2> QED
    BY <1>4, <1>8, <2>1 DEF TInv, StoredInv, LiveRecorded
<1>11. Fresh' /\ scheduleOf' \in [Runs -> Schedules \cup {None}] /\ used' \in 0 .. MaxRuns
  BY <1>4 DEF TInv, StoredInv, Fresh, TasksTypeOK
<1>12. \/ disk' = disk /\ records' = records
       \/ disk' = t /\ records' \in { records, t }
  BY <1>3 DEF SaveOutcomes
<1>13. /\ \A j \in DOMAIN records : j \in DOMAIN t /\ (records[j].cancelled => t[j].cancelled)
       /\ \A j \in DOMAIN t : t[j].cancelled => j \in DOMAIN records
  <2>1. /\ DOMAIN t = 1 .. Len(records) + 1 /\ t[Len(records) + 1] = record
        /\ DOMAIN records = 1 .. Len(records) /\ Len(records) \in Nat
    BY <1>2, <1>6, <1>7, AppendProperties, LenProperties
  <2>2. ~record.cancelled
    BY <1>1
  <2> QED
    BY <1>8, <2>1, <2>2
<1>14. StoredInv' /\ CancelsStay
  BY <1>4, <1>5, <1>8, <1>9, <1>10, <1>11, <1>12, <1>13, Stores DEF TInv
<1> QED
  BY <1>4, <1>14 DEF TInv, OpShaped

\* A cancellation changes nothing about the run.
LEMMA ScheduleCancelKeeps ==
  ASSUME TInv, NEW i \in Nat \ {0}, ScheduleCancel(i)
  PROVE  TInv' /\ CancelsStay
<1>1. /\ manager = "ready" /\ i \in DOMAIN records
      /\ UNCHANGED << receipt, active, manager, scheduleOf, used >>
  BY DEF ScheduleCancel
<1>2. records \in Seq(Records) /\ Recorded(records)
  BY <1>1 DEF TInv, StoredInv, TasksTypeOK, Lists
<1>3. PICK old \in Records : old = records[i]
  BY <1>1, <1>2, TypedRecords
<1>4. PICK record : record = [old EXCEPT !.cancelled = TRUE, !.next = FALSE]
  OBVIOUS
<1>5. PICK t : t = [records EXCEPT ![i] = record]
  OBVIOUS
<1>6. PICK outcome \in SaveOutcomes :
        /\ Fault(outcome)
        /\ disk' = IF outcome = "lost" THEN disk ELSE t
        /\ records' = IF outcome = "saved" THEN t ELSE records
        /\ op' = IF outcome = "saved" THEN Operation("cancel", i) ELSE None
  BY <1>1, <1>3, <1>4, <1>5 DEF ScheduleCancel, Commits
<1>7. RunInv' /\ Calm
  BY <1>1, <1>6, FaultKeeps DEF TInv, StoredInv
<1>8. record \in Records /\ record.cancelled = TRUE /\ record.latest = old.latest
      /\ record.authorized = old.authorized
  BY <1>3, <1>4 DEF Records
<1>9. old.latest # None =>
        /\ old.latest.run \in Runs /\ scheduleOf[old.latest.run] = i
        /\ old.latest.state = "ended" =>
             receipt[old.latest.run] # None /\ ~Live(old.latest.run)
  BY <1>1, <1>2, <1>3, TypedRecords DEF Recorded
<1>10. old.latest # None /\ Live(old.latest.run) =>
         old.latest.state # "ended" /\ ~old.latest.interrupted
  BY <1>3, <1>9 DEF TInv, StoredInv, LiveRecorded
<1>11. OpShaped' /\ op' \in Ops \cup {None}
  <2>1. CASE outcome = "saved"
    <3>1. /\ op' \in Ops /\ op'.kind = "cancel" /\ op'.at = i /\ op'.step = "reconcile"
      BY <1>6, <2>1, OperationTyped DEF Kinds
    <3>2. i \in DOMAIN records'
      BY <1>1, <1>5, <1>6, <2>1
    <3> QED
      BY <1>1, <3>1, <3>2 DEF OpShaped
  <2>2. CASE outcome # "saved"
    BY <1>6, <2>2 DEF OpShaped
  <2> QED
    BY <2>1, <2>2
<1>12. \/ disk' = disk /\ records' = records
       \/ disk' = t /\ records' \in { records, t }
  BY <1>6 DEF SaveOutcomes
<1> QED
  BY <1>1, <1>3, <1>5, <1>7, <1>8, <1>9, <1>10, <1>11, <1>12, Updates DEF TInv

\* Whatever the clients and the threads do, what an operation has learned holds.
LEMMA CalmKeeps ==
  ASSUME TInv, RunInv', Calm, UNCHANGED taskVars
  PROVE  TInv' /\ CancelsStay
<1>1. UNCHANGED << manager, disk, records, op, scheduleOf, used >>
  BY DEF taskVars
<1>2. StoredInv' /\ CancelsStay
  BY <1>1, CalmStores DEF TInv, StoredInv, TasksTypeOK
<1>3. OpShaped'
  <2> SUFFICES ASSUME op # None PROVE OpShaped'
    BY <1>1 DEF OpShaped
  <2>1. CASE op.step = "observe"
    <3>1. Observing /\ op.step # "initialized"
      BY <2>1 DEF TInv, OpShaped
    <3>2. PICK r \in Runs : r = Current.latest.run
      BY <3>1, CurrentTyped DEF Observing
    <3>3. /\ ~Live(r) => ~Live(r)'
          /\ receipt[r] # None => receipt'[r] # None
          /\ Final(r) => Final(r)'
      BY DEF Calm, Final, Conclusive
    <3>4. Observing'
      BY <1>1, <3>1, <3>2, <3>3 DEF Observing, Current, Nonterminal
    <3> QED
      BY <1>1, <2>1, <3>4 DEF TInv, OpShaped
  <2>2. CASE op.step = "fire"
    <3>1. Firing /\ op.step # "initialized"
      BY <2>2 DEF TInv, OpShaped
    <3>2. Current.latest # None => Current.latest.run \in Runs
      BY <3>1, CurrentTyped
    <3>3. \A r \in Runs : Final(r) => Final(r)'
      BY DEF Calm, Final, Conclusive
    <3>4. Firing'
      BY <1>1, <3>1, <3>2, <3>3 DEF Firing, Current, Nonterminal
    <3> QED
      BY <1>1, <2>2, <3>4 DEF TInv, OpShaped
  <2>3. CASE op.step = "start"
    <3>1. Starting
      BY <2>3 DEF TInv, OpShaped
    <3>2. PICK r \in Runs : r = used
      BY <3>1 DEF Starting
    <3>3. active'[r] = None /\ receipt'[r] = None
      BY <3>1, <3>2 DEF Calm, Starting
    <3>4. Starting'
      BY <1>1, <3>1, <3>2, <3>3 DEF Starting, Current
    <3> QED
      BY <1>1, <2>3, <3>4 DEF TInv, OpShaped
  <2>4. CASE op.step \notin { "observe", "fire", "start" }
    BY <1>1, <2>4 DEF TInv, OpShaped, MayRunNow, Nonterminal, Current
  <2> QED
    BY <2>1, <2>2, <2>3, <2>4
<1> QED
  BY <1>2, <1>3 DEF TInv

\* A client brings no run to life and reopens no receipt.
LEMMA AgentKeeps ==
  ASSUME TInv, NEW r \in Runs, AgentPoll(r) \/ AgentCancel(r)
  PROVE  TInv' /\ CancelsStay
<1>1. RunInv
  BY DEF TInv, StoredInv
<1>2. PICK answer \in Answers : Status(r, answer) \/ Cancel(r, answer)
  BY DEF AgentPoll, AgentCancel
<1>3. RunInv' /\ Calm
  BY <1>1, <1>2, StatusKeeps, CancelKeeps
<1> QED
  BY <1>3, CalmKeeps DEF AgentPoll, AgentCancel

\* Nor does a thread.
LEMMA ThreadsKeep ==
  ASSUME TInv, Threads
  PROVE  TInv' /\ CancelsStay
<1>1. RunInv' /\ Calm
  BY ThreadKeeps DEF Threads, TInv, StoredInv
<1> QED
  BY <1>1, CalmKeeps DEF Threads

\* A new process has the records of the file, and no thread.
LEMMA InitializeKeeps ==
  ASSUME TInv, Initialize
  PROVE  TInv' /\ CancelsStay
<1>1. /\ manager = "down" /\ manager' = "starting" /\ records' = disk
      /\ UNCHANGED << runVars, disk, scheduleOf, used >>
      /\ op' = IF disk = << >>
               THEN [Operation("initialize", 1) EXCEPT !.step = "initialized"]
               ELSE Operation("initialize", 1)
  BY DEF Initialize
<1>2. RunInv' /\ Calm
  BY <1>1, StillKeeps DEF TInv, StoredInv
<1>3. PICK s \in Seq(Records) : s = disk
  BY DEF TInv, StoredInv, TasksTypeOK
<1>4. Recorded(s)
  BY <1>3 DEF TInv, StoredInv, Lists
<1>5. Recorded(s)'
  BY <1>1, <1>2, <1>4, RecordedKept DEF Calm
<1>6. \A u \in Lists' : Recorded(u)'
  BY <1>1, <1>3, <1>5 DEF Lists
<1>7. op' \in Ops /\ op'.kind = "initialize"
      /\ ((op'.step = "reconcile" /\ op'.at \in DOMAIN s) \/ op'.step = "initialized")
  <2>1. /\ Operation("initialize", 1) \in Ops
        /\ Operation("initialize", 1).kind = "initialize"
        /\ Operation("initialize", 1).at = 1
        /\ Operation("initialize", 1).step = "reconcile"
    <3>1. "initialize" \in Kinds /\ 1 \in Nat \ {0}
      BY DEF Kinds
    <3> QED
      BY <3>1, OperationTyped
  <2>2. CASE disk = << >>
    BY <1>1, <2>1, <2>2 DEF Ops, Steps
  <2>3. CASE disk # << >>
    <3>1. 1 \in DOMAIN s
      BY <1>3, <2>3, EmptySeq, LenProperties
    <3> QED
      BY <1>1, <2>1, <2>3, <3>1
  <2> QED
    BY <2>2, <2>3
<1>8. TasksTypeOK'
  BY <1>1, <1>2, <1>7 DEF TInv, StoredInv, TasksTypeOK, RunInv, Managers
<1>9. CancelsKept'
  BY <1>1 DEF CancelsKept
<1>10. LiveRecorded'
  BY <1>1, <1>2 DEF TInv, StoredInv, LiveRecorded, Calm
<1>11. Fresh'
  BY <1>1 DEF TInv, StoredInv, Fresh, runVars
<1>12. OpShaped'
  BY <1>1, <1>3, <1>7 DEF OpShaped
<1>13. CancelsStay
  BY <1>1 DEF CancelsStay, IsCancelled
<1> QED
  BY <1>1, <1>2, <1>6, <1>8, <1>9, <1>10, <1>11, <1>12, <1>13 DEF TInv, StoredInv

\* A process that is gone leaves the file and the receipts.
LEMMA GoneLeaves ==
  ASSUME TInv, Gone, UNCHANGED faults
  PROVE  TInv' /\ CancelsStay
<1>1. /\ manager' = "down" /\ records' = << >> /\ op' = None
      /\ active' = [r \in Runs |-> None]
      /\ UNCHANGED << receipt, disk, scheduleOf, used >>
  BY DEF Gone
<1>2. RunInv' /\ Calm
  BY <1>1, GoneKeeps DEF TInv, StoredInv
<1>3. PICK s \in Seq(Records) : s = disk
  BY DEF TInv, StoredInv, TasksTypeOK
<1>4. Recorded(s)
  BY <1>3 DEF TInv, StoredInv, Lists
<1>5. Recorded(s)'
  BY <1>1, <1>2, <1>4, RecordedKept DEF Calm
<1>6. \A u \in Lists' : Recorded(u)'
  BY <1>1, <1>3, <1>5 DEF Lists
<1>7. TasksTypeOK'
  BY <1>1, <1>2 DEF TInv, StoredInv, TasksTypeOK, RunInv, Managers
<1>8. CancelsKept'
  BY <1>1 DEF CancelsKept
<1>9. LiveRecorded'
  BY <1>1 DEF LiveRecorded, Live
<1>10. Fresh'
  BY <1>1, <1>2 DEF TInv, StoredInv, Fresh, Calm
<1>11. CancelsStay
  BY <1>1 DEF CancelsStay, IsCancelled
<1> QED
  BY <1>1, <1>2, <1>6, <1>7, <1>8, <1>9, <1>10, <1>11 DEF TInv, StoredInv, OpShaped

\* The scheduler ends first, then the runs are asked to stop.
LEMMA ShutdownKeeps ==
  ASSUME TInv, Shutdown \/ ShutdownRuns
  PROVE  TInv' /\ CancelsStay
<1>1. CASE Shutdown
  <2>1. /\ manager = "ready" /\ manager' = "stopping"
        /\ UNCHANGED << runVars, disk, records, scheduleOf, used >>
        /\ op' = IF records = << >> THEN None ELSE Operation("shutdown", 1)
    BY <1>1 DEF Shutdown
  <2>2. RunInv' /\ Calm
    BY <2>1, StillKeeps DEF TInv, StoredInv
  <2>3. OpShaped' /\ op' \in Ops \cup {None}
    <3>1. CASE records = << >>
      BY <2>1, <3>1 DEF OpShaped
    <3>2. CASE records # << >>
      <4>1. records \in Seq(Records)
        BY DEF TInv, StoredInv, TasksTypeOK
      <4>2. 1 \in DOMAIN records
        BY <3>2, <4>1, EmptySeq, LenProperties
      <4>3. "shutdown" \in Kinds /\ 1 \in Nat \ {0}
        BY DEF Kinds
      <4>4. /\ op' \in Ops /\ op'.kind = "shutdown" /\ op'.at = 1 /\ op'.step = "reconcile"
        BY <2>1, <3>2, <4>3, OperationTyped
      <4> QED
        BY <2>1, <4>2, <4>4 DEF OpShaped
    <3> QED
      BY <3>1, <3>2
  <2> QED
    BY <2>1, <2>2, <2>3, ManagerMoves DEF TInv
<1>2. CASE ShutdownRuns
  <2>1. /\ manager = "stopping" /\ manager' = "stopped" /\ op = None /\ active' = StopAll
        /\ UNCHANGED << receipt, faults, disk, records, op, scheduleOf, used >>
    BY <1>2 DEF ShutdownRuns, Idle
  <2>2. RunInv' /\ Calm
    BY <2>1, StopAllKeeps DEF TInv, StoredInv
  <2>3. OpShaped' /\ op' \in Ops \cup {None}
    BY <2>1 DEF OpShaped
  <2> QED
    BY <2>1, <2>2, <2>3, ManagerMoves DEF TInv
<1> QED
  BY <1>1, <1>2

--------------------------------------------------------------------------------
\* Before anything has happened the invariant holds.
LEMMA InitHolds ==
  Init => TInv
<1> SUFFICES ASSUME Init PROVE TInv
  OBVIOUS
<1>1. RunInv
  BY MaxFaultsAssumption DEF Init, RunInit, RunInv, RunTypeOK, CallsAreRecorded, OutcomeIsFinal
<1>2. << >> \in Seq(Records) /\ Len(<< >>) = 0 /\ DOMAIN << >> = {}
  OBVIOUS
<1>3. TasksTypeOK
  BY <1>1, <1>2, MaxRunsAssumption DEF Init, TasksTypeOK, RunInv, Managers
<1>4. \A s \in Lists : Recorded(s)
  <2>1. Recorded(<< >>)
    BY <1>2, MaxSchedulesAssumption DEF Init, RunInit, Recorded
  <2> QED
    BY <2>1 DEF Init, Lists
<1>5. CancelsKept /\ LiveRecorded /\ Fresh
  BY <1>2 DEF Init, RunInit, CancelsKept, LiveRecorded, Live, Fresh
<1> QED
  BY <1>1, <1>3, <1>4, <1>5 DEF Init, TInv, StoredInv, OpShaped

\* Every step keeps the invariant, and undoes no cancellation.
LEMMA NextKeeps ==
  TInv /\ [Next]_vars => TInv' /\ CancelsStay
<1> SUFFICES ASSUME TInv, [Next]_vars PROVE TInv' /\ CancelsStay
  OBVIOUS
<1>1. CASE UNCHANGED vars
  <2>1. UNCHANGED runVars /\ UNCHANGED taskVars
    BY <1>1 DEF vars
  <2>2. RunInv' /\ Calm
    BY <2>1, StillKeeps DEF TInv, StoredInv
  <2> QED
    BY <2>1, <2>2, CalmKeeps
<1>2. CASE Scheduler
  BY <1>2, ReconcileNothingKeeps, ReconcileAsksKeeps, ObserveNewsKeeps, ObserveFailureKeeps,
     BlockKeeps, RunNowAuthorizedKeeps, FireRefusedKeeps, FireKeeps, FireStartsKeeps,
     FireDoesNotStartKeeps, InitializedKeeps DEF Scheduler
<1>3. CASE Tick
  <2>1. 1 \in Nat \ {0}
    OBVIOUS
  <2> QED
    BY <1>3, <2>1, BeginsKeeps DEF Tick
<1>4. CASE Clients
  <2>1. Schedules \subseteq Nat \ {0}
    BY MaxSchedulesAssumption DEF Schedules
  <2>2. CASE \E i \in Schedules : ScheduleRunNow(i)
    BY <2>1, <2>2, BeginsKeeps DEF ScheduleRunNow
  <2>3. CASE \E i \in Schedules : ScheduleCancel(i)
    BY <2>1, <2>3, ScheduleCancelKeeps
  <2>4. CASE ScheduleCreate
    BY <2>4, ScheduleCreateKeeps
  <2>5. CASE \E r \in Runs : AgentPoll(r) \/ AgentCancel(r)
    BY <2>5, AgentKeeps
  <2> QED
    BY <1>4, <2>2, <2>3, <2>4, <2>5 DEF Clients
<1>5. CASE Process
  <2>1. CASE InitializeFails \/ Exit \/ Crash
    BY <2>1, GoneLeaves DEF InitializeFails, Exit, Crash
  <2> QED
    BY <1>5, <2>1, InitializeKeeps, ShutdownKeeps DEF Process
<1>6. CASE Threads
  BY <1>6, ThreadsKeep
<1> QED
  BY <1>1, <1>2, <1>3, <1>4, <1>5, <1>6 DEF Next

\* What is stored of the runs, and what an operation in progress relies on, holds at all
\* times.
THEOREM Invariance ==
  Spec => []TInv
BY InitHolds, NextKeeps, PTL DEF Spec

\* Every variable keeps its type.
THEOREM TasksAreTyped ==
  Spec => []TasksTypeOK
<1>1. TInv => TasksTypeOK
  BY DEF TInv, StoredInv
<1> QED
  BY <1>1, Invariance, PTL

\* A receipt that tells an outcome tells it of a run that has no effects any more, whoever
\* cancels it, reads its receipt or dies meanwhile.
THEOREM OutcomesAreFinal ==
  Spec => []OutcomeIsFinal
<1>1. TInv => OutcomeIsFinal
  BY DEF TInv, StoredInv, RunInv
<1> QED
  BY <1>1, Invariance, PTL

\* While a tool works, the receipt of its run says that calls were pending, whichever save
\* has failed before.
THEOREM CallsRecorded ==
  Spec => []CallsAreRecorded
<1>1. TInv => CallsAreRecorded
  BY DEF TInv, StoredInv, RunInv
<1> QED
  BY <1>1, Invariance, PTL

\* No two runs of an owner work at the same time: one that works is the open run of a record
\* of the service, and an owner has one record with an open run at most.
THEOREM RunsNeverOverlap ==
  Spec => []NoOverlap
<1>1. ASSUME TInv PROVE NoOverlap
  <2> SUFFICES ASSUME NEW q \in Runs, NEW r \in Runs, Working(q), Working(r),
                      OwnerOf[scheduleOf[q]] = OwnerOf[scheduleOf[r]]
               PROVE  q = r
    BY DEF NoOverlap
  <2>1. Live(q) /\ Live(r)
    BY DEF Working, Live
  <2>2. /\ manager # "down"
        /\ scheduleOf[q] \in DOMAIN records /\ scheduleOf[r] \in DOMAIN records
        /\ records[scheduleOf[q]].latest.run = q /\ Nonterminal(records[scheduleOf[q]].latest)
        /\ records[scheduleOf[r]].latest.run = r /\ Nonterminal(records[scheduleOf[r]].latest)
    BY <1>1, <2>1 DEF TInv, StoredInv, LiveRecorded, Nonterminal
  <2>3. Recorded(records)
    BY <1>1, <2>2 DEF TInv, StoredInv, Lists
  <2>4. scheduleOf[q] = scheduleOf[r]
    BY <2>2, <2>3 DEF Recorded
  <2> QED
    BY <2>2, <2>4
<1> QED
  BY <1>1, Invariance, PTL

\* A receipt appears where the scheduler starts the run that it has just admitted, and
\* nowhere else.
LEMMA StartsWhereAdmitted ==
  ASSUME TInv, [Next]_vars, NEW r \in Runs, Starts(r)
  PROVE  Starting /\ r = used /\ op.at \in DOMAIN records
<1>1. receipt[r] = None /\ receipt'[r] # None
  BY DEF Starts
<1>2. RunInv
  BY DEF TInv, StoredInv
<1>3. ~Calm
  BY <1>1 DEF Calm
<1>4. CASE FireStarts \/ FireDoesNotStart
  <2>1. Starting /\ op.at \in DOMAIN records
    BY <1>4 DEF FireStarts, FireDoesNotStart, AtStep, TInv, OpShaped
  <2>2. PICK new \in Runs : new = used
    BY <2>1 DEF Starting
  <2>3. Start(new) \/ StartFails(new)
    BY <1>4, <2>2 DEF FireStarts, FireDoesNotStart, Start, StartFails, Save, Accepts, Fault
  <2>4. \A q \in Runs : q # new => receipt'[q] = receipt[q]
    BY <1>2, <2>1, <2>2, <2>3, StartKeeps, StartFailsKeeps DEF Starting
  <2> QED
    BY <1>1, <2>1, <2>2, <2>4
<1>5. CASE ReconcileAsks
  <2>1. Current.latest # None /\ op # None /\ op.step = "reconcile"
    BY <1>5 DEF ReconcileAsks, AtStep, Settled
  <2>2. PICK q \in Runs : q = Current.latest.run
    BY <2>1, CurrentTyped
  <2>3. PICK answer \in Answers :
          \/ Cancel(Current.latest.run, answer)
          \/ Status(Current.latest.run, answer)
    BY <1>5 DEF ReconcileAsks
  <2>4. CASE Cancel(Current.latest.run, answer)
    <3>1. Cancel(q, answer)
      BY <2>2, <2>4 DEF Cancel, Asked, Status, Load, Save, Live, Interrupted, Accepts,
                        Inconclusive, Fault, Reaped
    <3> QED
      BY <1>2, <1>3, <3>1, CancelKeeps
  <2>5. CASE Status(Current.latest.run, answer)
    <3>1. Status(q, answer)
      BY <2>2, <2>5 DEF Status, Load, Save, Live, Interrupted, Accepts, Inconclusive, Fault,
                        Reaped
    <3> QED
      BY <1>2, <1>3, <3>1, StatusKeeps
  <2> QED
    BY <2>3, <2>4, <2>5
<1>6. CASE \E q \in Runs : AgentPoll(q) \/ AgentCancel(q)
  <2>1. PICK q \in Runs, answer \in Answers : Status(q, answer) \/ Cancel(q, answer)
    BY <1>6 DEF AgentPoll, AgentCancel
  <2> QED
    BY <1>2, <1>3, <2>1, StatusKeeps, CancelKeeps
<1>7. CASE Threads
  BY <1>2, <1>3, <1>7, ThreadKeeps DEF Threads
<1>8. CASE UNCHANGED receipt
  BY <1>1, <1>8
<1>9. \/ FireStarts \/ FireDoesNotStart \/ ReconcileAsks \/ Threads
      \/ \E q \in Runs : AgentPoll(q) \/ AgentCancel(q)
      \/ UNCHANGED receipt
  BY DEF Next, Scheduler, Clients, Process, vars, runVars, ReconcileNothing, ObserveNews,
         ObserveFailure, Block, RunNowAuthorized, FireRefused, Fire, Initialized, Tick,
         ScheduleRunNow, Begins, ScheduleCreate, ScheduleCancel, Initialize, InitializeFails,
         Shutdown, ShutdownRuns, Exit, Crash, Gone
<1> QED
  BY <1>4, <1>5, <1>6, <1>7, <1>8, <1>9

\* When a run starts, the file tells of it: a crash at any moment after that finds it.
THEOREM AdmissionPrecedesStart ==
  Spec => AdmittedBeforeStart
<1> DEFINE Admits ==
      \A r \in Runs :
        Starts(r) => \E i \in DOMAIN disk : disk[i].latest # None /\ disk[i].latest.run = r
<1>1. ASSUME TInv, [Next]_vars PROVE Admits
  <2> SUFFICES ASSUME NEW r \in Runs, Starts(r)
               PROVE  \E i \in DOMAIN disk : disk[i].latest # None /\ disk[i].latest.run = r
    OBVIOUS
  <2>1. Starting /\ r = used /\ op.at \in DOMAIN records
    BY <1>1, StartsWhereAdmitted
  <2>2. [run |-> used, state |-> "admitted", interrupted |-> FALSE] \in LatestRuns
    BY <2>1 DEF LatestRuns, RunStates
  <2>3. None \notin LatestRuns
    BY TaskNoneAssumption
  <2>4. Current.latest # None /\ Current.latest.run = r
    <3>1. Current.latest = [run |-> used, state |-> "admitted", interrupted |-> FALSE]
      BY <2>1 DEF Starting
    <3>2. Current.latest # None
      BY <2>2, <2>3, <3>1
    <3> QED
      BY <2>1, <3>1, <3>2
  <2>5. disk = records
    BY <2>1 DEF Starting
  <2> QED
    BY <2>1, <2>4, <2>5 DEF Current
<1>2. TInv /\ [Next]_vars => Admits
  BY <1>1
<1> HIDE DEF Admits
<1>3. Spec => [][Admits]_vars
  BY <1>2, Invariance, PTL DEF Spec
<1> QED
  BY <1>3 DEF Admits, AdmittedBeforeStart

\* The cancellation of a schedule that the file or the service tells of is undone by no
\* step, and nothing of the schedule starts.
THEOREM CancellationsStay ==
  Spec => CancelledStays
<1> DEFINE Stays ==
      \A i \in Schedules :
        Acknowledged(i) \/ IsCancelled(i) =>
          /\ IsCancelled(i)'
          /\ \A r \in Runs : Starts(r) => scheduleOf[r] # i
<1>1. ASSUME TInv, [Next]_vars PROVE Stays
  <2> SUFFICES ASSUME NEW i \in Schedules, Acknowledged(i) \/ IsCancelled(i)
               PROVE  /\ IsCancelled(i)'
                      /\ \A r \in Runs : Starts(r) => scheduleOf[r] # i
    OBVIOUS
  <2>1. IsCancelled(i)
    BY <1>1 DEF Acknowledged, IsCancelled, TInv, StoredInv, CancelsKept
  <2>2. IsCancelled(i)'
    BY <1>1, <2>1, NextKeeps DEF CancelsStay
  <2>3. ASSUME NEW r \in Runs, Starts(r) PROVE scheduleOf[r] # i
    <3>1. Starting /\ r = used /\ op.at \in DOMAIN records
      BY <1>1, <2>3, StartsWhereAdmitted
    <3>2. ~records[op.at].cancelled /\ scheduleOf[r] = op.at
      BY <3>1 DEF Starting, Current
    <3> QED
      BY <2>1, <3>1, <3>2 DEF IsCancelled
  <2> QED
    BY <2>2, <2>3
<1>2. TInv /\ [Next]_vars => Stays
  BY <1>1
<1> HIDE DEF Stays
<1>3. Spec => [][Stays]_vars
  BY <1>2, Invariance, PTL DEF Spec
<1> QED
  BY <1>3 DEF Stays, CancelledStays

\* Where the user has not asked for it, a schedule gets another run only when its last one is
\* known to have had no effect or an outcome.
THEOREM NothingIsRetried ==
  Spec => NoAutomaticRetry
<1> DEFINE Repeat ==
      \A q, r \in Runs :
        Follows(r, q) /\ ~records[scheduleOf[q]].authorized => Certain(q)
<1>1. ASSUME TInv, [Next]_vars PROVE Repeat
  <2> SUFFICES ASSUME NEW q \in Runs, NEW r \in Runs, Follows(r, q),
                      ~records[scheduleOf[q]].authorized, receipt[q] # None
               PROVE  Terminal(receipt[q].state) /\ ~receipt[q].interrupted
    BY DEF Certain
  <2>1. scheduleOf[r] = None /\ scheduleOf'[r] # None /\ scheduleOf[q] = scheduleOf'[r]
        /\ \A p \in q + 1 .. r - 1 : scheduleOf[p] # scheduleOf[q]
    BY DEF Follows
  <2>2. Fire
    BY <1>1, <2>1 DEF Next, Scheduler, Clients, Process, Threads, vars, taskVars, runVars,
         ReconcileNothing, ReconcileAsks, ObserveNews, ObserveFailure, Block,
         RunNowAuthorized, FireRefused, FireStarts, FireDoesNotStart, Initialized, Tick,
         ScheduleRunNow, Begins, ScheduleCreate, ScheduleCancel, AgentPoll, AgentCancel,
         Initialize, InitializeFails, Shutdown, ShutdownRuns, Exit, Crash, Gone
  <2>3. PICK i : i = op.at
    OBVIOUS
  <2>4. /\ Firing /\ i \in DOMAIN records /\ Recorded(records)
    BY <1>1, <2>2, <2>3 DEF Fire, AtStep, TInv, StoredInv, OpShaped, Firing, Lists
  <2>5. r = used + 1 /\ scheduleOf[q] = i
    <3>1. scheduleOf \in [Runs -> Schedules \cup {None}] /\ used \in Nat
      BY <1>1 DEF TInv, StoredInv, TasksTypeOK
    <3>2. scheduleOf' = [scheduleOf EXCEPT ![used + 1] = i]
      BY <2>2, <2>3 DEF Fire
    <3> QED
      BY <2>1, <3>1, <3>2
  <2>6. LastOf(q, i)
    BY <1>1, <2>1, <2>5 DEF LastOf, TInv, StoredInv, TasksTypeOK
  <2>7. records[i].latest # None /\ records[i].latest.run = q
    BY <2>4, <2>5, <2>6 DEF Recorded
  <2>8. Final(q)
    BY <2>3, <2>4, <2>5, <2>7 DEF Firing, Current
  <2> QED
    BY <2>8 DEF Final, Conclusive, Inconclusive
<1>2. TInv /\ [Next]_vars => Repeat
  BY <1>1
<1> HIDE DEF Repeat
<1>3. Spec => [][Repeat]_vars
  BY <1>2, Invariance, PTL DEF Spec
<1> QED
  BY <1>3 DEF Repeat, NoAutomaticRetry

================================================================================

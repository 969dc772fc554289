---------------------------- MODULE ScheduledTasks ----------------------------
(***************************************************************************)
(* The Manager's persistent schedules: ScheduledTaskService, composed with *)
(* the worker runs it starts.                                              *)
(*                                                                         *)
(* One mutex serialises the scheduler's operations, but not the threads of *)
(* the runs, the clients that cancel or read a run, a crash, or the store: *)
(* each call of the run service and each commit of the schedule file is a  *)
(* step of the operation that makes it.  A commit replaces the file; it is *)
(* lost, or made and reported as a failure, as a receipt is.               *)
(*                                                                         *)
(* Abstracted: a schedule has a next time or none, which may have come     *)
(* whenever it is looked at; its owner is a constant; a run that a client  *)
(* spawns itself is none of the scheduler's.  Left out are frozen scopes,  *)
(* logs, history, revisions, what a receipt says besides its state, the    *)
(* notifications that follow a change and change nothing else, and calls   *)
(* refused for their arguments, which leave everything as it was.          *)
(***************************************************************************)
EXTENDS WorkerRuns, Sequences

CONSTANTS
  MaxSchedules,     \* MaximumSchedules
  Owners,           \* project, client and owner reference
  OwnerOf,          \* whose a schedule is
  Repeats           \* whether it has an interval, or one time

ASSUME MaxSchedulesAssumption == MaxSchedules \in Nat
ASSUME OwnerAssumption == OwnerOf \in [1 .. MaxSchedules -> Owners]
ASSUME RepeatsAssumption == Repeats \in [1 .. MaxSchedules -> BOOLEAN]

VARIABLES
  manager,          \* the Manager process and its scheduler
  disk,             \* the schedule file
  records,          \* records_
  op,               \* the operation that holds the scheduler's mutex
  scheduleOf,       \* the schedule a run was admitted for: its correlation id
  used              \* the last run id that has been given out

taskVars == << manager, disk, records, op, scheduleOf, used >>
vars == << runVars, taskVars >>

Schedules == 1 .. MaxSchedules

--------------------------------------------------------------------------------
RunStates ==
  { "admitted", "running", "ended", "missing" }

LatestRuns == [ run : Runs, state : RunStates, interrupted : BOOLEAN ]

\* next: next_at is not null.  authorized: the user has authorized a run since the last one
\* was admitted.
Records ==
  [ next : BOOLEAN, attention : BOOLEAN, cancelled : BOOLEAN,
    authorized : BOOLEAN, latest : LatestRuns \cup {None} ]

Nonterminal(latest) ==
  latest # None /\ latest.state # "ended"

Managers ==
  { "down", "starting", "ready",
    "stopping",     \* the scheduler is shut down
    "stopped" }     \* so are the runs, which end now

Kinds == { "initialize", "tick", "cancel", "run now", "shutdown" }

Steps ==
  { "reconcile",    \* the run service is asked about the latest run
    "observe",      \* the answer is news
    "authorize",    \* run now: the user's authorization is to be recorded
    "fire",         \* a run is to be admitted
    "start",        \* it is admitted, and to be started
    "block",        \* the record needs attention
    "initialized" } \* the last record of a new process is reconciled

Nothing == Read("nothing", FALSE)

\* firing: inside fire, where a failure blocks the record and does not end the operation.
Ops ==
  [ kind : Kinds, at : Nat \ {0}, step : Steps, firing : BOOLEAN, answer : Answers \cup {Nothing} ]

ASSUME TaskNoneAssumption == None \notin LatestRuns \cup Ops

Operation(kind, i) ==
  [ kind |-> kind, at |-> i, step |-> "reconcile", firing |-> FALSE, answer |-> Nothing ]

Idle == op = None

AtStep(step) == op # None /\ op.step = step

Current == records[op.at]

With(record) == [records EXCEPT ![op.at] = record]

\* The operation goes on with another step, or with the next record.
Onward(step) == [op EXCEPT !.step = step, !.answer = Nothing]

NextRecord ==
  IF op.kind \in { "initialize", "tick", "shutdown" } /\ op.at < Len(records)
  THEN Operation(op.kind, op.at + 1)
  ELSE IF op.kind = "initialize" THEN Onward("initialized") ELSE None

\* Mutant: a record that needs attention fires all the same.
DueUnattended(record) == ~record.cancelled /\ record.next /\ ~Nonterminal(record.latest)

Due(record) ==
  /\ ~record.cancelled
  /\ ~record.attention
  /\ record.next
  /\ ~Nonterminal(record.latest)

\* Not a cancelled schedule, nor one whose run is active or unconfirmed, unless it was
\* interrupted and needs attention.
MayRunNow(record) ==
  /\ ~record.cancelled
  /\ Nonterminal(record.latest) => record.attention /\ record.latest.interrupted

\* What follows when the record is reconciled: a tick fires it if its time has come.
Reconciled(record) ==
  IF op.kind = "tick" /\ ~op.firing /\ Due(record)
  THEN { NextRecord, [Onward("fire") EXCEPT !.firing = TRUE] }
  ELSE IF op.kind = "run now" /\ ~op.firing /\ MayRunNow(record)
  THEN { Onward("authorize") }
  ELSE { NextRecord }

\* A failure inside fire blocks the record; any other ends the operation.
Failed == IF op.firing THEN Onward("block") ELSE None

--------------------------------------------------------------------------------
(* commit: the operation is done when it succeeds, and failed otherwise *)

\* Mutant: the records are changed before they are stored.
CommitsFirst(proposed, done, failed) ==
  \E outcome \in SaveOutcomes :
    /\ Fault(outcome)
    /\ disk' = IF outcome = "lost" THEN disk ELSE proposed
    /\ records' = proposed
    /\ op' = IF outcome = "saved" THEN done ELSE failed

\* The file first, then the records: after a failure the records are the old ones, whatever
\* has become of the file.
Commits(proposed, done, failed) ==
  \E outcome \in SaveOutcomes :
    /\ Fault(outcome)
    /\ disk' = IF outcome = "lost" THEN disk ELSE proposed
    /\ records' = IF outcome = "saved" THEN proposed ELSE records
    /\ op' = IF outcome = "saved" THEN done ELSE failed

--------------------------------------------------------------------------------
(* reconcile and observe *)

\* There is no run, or none that a shutdown would have to cancel.
Settled ==
  Current.latest = None \/ (op.kind = "shutdown" /\ ~Nonterminal(Current.latest))

ReconcileNothing ==
  /\ AtStep("reconcile")
  /\ Settled
  /\ op' \in Reconciled(Current)
  /\ UNCHANGED << runVars, manager, disk, records, scheduleOf, used >>

\* A run that was interrupted, or is still open when the process has just started.
Uncertain(answer) ==
  answer.interrupted \/ (op.kind = "initialize" /\ answer = Read("running", FALSE))

\* What an answer makes of the record.  Of a run without a receipt it is not known whether
\* it had effects; one whose receipt cannot be read may well be live, unless the process is
\* new; a shutdown makes nothing of a run that it cannot cancel.
Observed(answer) ==
  CASE answer = Missing /\ op.kind # "shutdown" ->
         [Current EXCEPT !.latest = [@ EXCEPT !.state = "missing", !.interrupted = TRUE]]
    [] answer = Unavailable /\ op.kind = "initialize" ->
         [Current EXCEPT !.latest = [@ EXCEPT !.interrupted = TRUE]]
    [] answer.state \in { "running", "ended" } ->
         [Current EXCEPT
            !.latest = [@ EXCEPT !.state = answer.state, !.interrupted = Uncertain(answer)],
            !.attention = @ \/ Uncertain(answer)]
    [] OTHER -> Current

\* A run that cannot be looked up needs attention.
Alarms(answer) ==
  answer \in { Missing, Unavailable } /\ op.kind # "shutdown" /\ ~Current.attention

\* The run of a cancelled schedule is cancelled, and all are at a shutdown; any other is
\* looked up.  An answer that is no news ends the reconciliation.
ReconcileAsks ==
  /\ AtStep("reconcile")
  /\ ~Settled
  /\ \E answer \in Answers :
       /\ IF op.kind = "shutdown" \/ (Current.cancelled /\ Nonterminal(Current.latest))
          THEN Cancel(Current.latest.run, answer)
          ELSE Status(Current.latest.run, answer)
       /\ IF Observed(answer) = Current /\ ~Alarms(answer)
          THEN op' \in Reconciled(Current)
          ELSE op' = [op EXCEPT !.step = "observe", !.answer = answer]
  /\ UNCHANGED << manager, disk, records, scheduleOf, used >>

\* The news is stored; a lookup that failed blocks the record next.
ObserveNews ==
  /\ AtStep("observe")
  /\ Observed(op.answer) # Current
  /\ \E done \in IF Alarms(op.answer) THEN { Onward("block") }
                  ELSE Reconciled(Observed(op.answer)) :
       Commits(With(Observed(op.answer)), done, Failed)
  /\ UNCHANGED << receipt, active, manager, scheduleOf, used >>

ObserveFailure ==
  /\ AtStep("observe")
  /\ Observed(op.answer) = Current
  /\ op' = Onward("block")
  /\ UNCHANGED << runVars, manager, disk, records, scheduleOf, used >>

Blocked == [Current EXCEPT !.attention = TRUE]

Block ==
  /\ AtStep("block")
  /\ \E done \in Reconciled(Blocked) : Commits(With(Blocked), done, None)
  /\ UNCHANGED << receipt, active, manager, scheduleOf, used >>

--------------------------------------------------------------------------------
(* fire *)

\* The authorization is recorded, and whatever is not known of the last run goes to the
\* history.
RunNowAuthorized ==
  /\ AtStep("authorize")
  /\ Commits(
       With([Current EXCEPT
               !.attention = FALSE, !.authorized = TRUE,
               !.latest = IF Nonterminal(@) THEN None ELSE @]),
       [Onward("fire") EXCEPT !.firing = TRUE], None)
  /\ UNCHANGED << receipt, active, manager, scheduleOf, used >>

\* Mutant: only the record itself is looked at.
OwnerFree == ~Nonterminal(Current.latest)

OwnerIsFree ==
  \A i \in DOMAIN records :
    i # op.at /\ OwnerOf[i] = OwnerOf[op.at] => ~Nonterminal(records[i].latest)

\* Another run of the owner is active, or the owner's authority does not allow it now.
FireRefused ==
  /\ AtStep("fire")
  /\ op' = Onward("block")
  /\ UNCHANGED << runVars, manager, disk, records, scheduleOf, used >>

Admitted(run) ==
  [Current EXCEPT
     !.latest = [run |-> run, state |-> "admitted", interrupted |-> FALSE],
     !.authorized = FALSE,
     !.next = Repeats[op.at]]

\* Mutant: a run is started whether or not its admission could be stored.
FireUnchecked ==
  /\ AtStep("fire")
  /\ OwnerIsFree
  /\ used < MaxRuns
  /\ used' = used + 1
  /\ scheduleOf' = [scheduleOf EXCEPT ![used + 1] = op.at]
  /\ Commits(With(Admitted(used + 1)), Onward("start"), Onward("start"))
  /\ UNCHANGED << receipt, active, manager >>

\* The admission of a new run is durable before the run is started.
Fire ==
  /\ AtStep("fire")
  /\ OwnerIsFree
  /\ used < MaxRuns
  /\ used' = used + 1
  /\ scheduleOf' = [scheduleOf EXCEPT ![used + 1] = op.at]
  /\ Commits(With(Admitted(used + 1)), Onward("start"), Onward("block"))
  /\ UNCHANGED << receipt, active, manager >>

FireStarts ==
  /\ AtStep("start")
  /\ Start(used)
  /\ op' = [op EXCEPT !.step = "observe", !.answer = Read("running", FALSE)]
  /\ UNCHANGED << manager, disk, records, scheduleOf, used >>

FireDoesNotStart ==
  /\ AtStep("start")
  /\ StartFails(used)
  /\ op' = Onward("block")
  /\ UNCHANGED << manager, disk, records, scheduleOf, used >>

--------------------------------------------------------------------------------
(* The operations begin: the loop's tick, the tools of a client, the Manager's start and end *)

Begins(kind, i) ==
  /\ manager = "ready"
  /\ Idle
  /\ i \in DOMAIN records
  /\ op' = Operation(kind, i)
  /\ UNCHANGED << runVars, manager, disk, records, scheduleOf, used >>

\* schedule_list and schedule_status reconcile as a tick does that finds nothing due.
Tick == Begins("tick", 1)

ScheduleRunNow(i) == Begins("run now", i)

\* An owner has one schedule that may still fire, needs attention or has a run.
Engaged(record) ==
  \/ ~record.cancelled /\ (record.next \/ record.attention)
  \/ Nonterminal(record.latest)

ScheduleCreate ==
  /\ manager = "ready"
  /\ Idle
  /\ Len(records) < MaxSchedules
  /\ \A i \in DOMAIN records :
       OwnerOf[i] = OwnerOf[Len(records) + 1] => ~Engaged(records[i])
  /\ Commits(
       Append(records,
         [ next |-> TRUE, attention |-> FALSE, cancelled |-> FALSE, authorized |-> FALSE,
           latest |-> None ]),
       None, None)
  /\ UNCHANGED << receipt, active, manager, scheduleOf, used >>

ScheduleCancel(i) ==
  /\ manager = "ready"
  /\ Idle
  /\ i \in DOMAIN records
  /\ Commits(
       [records EXCEPT ![i] = [@ EXCEPT !.cancelled = TRUE, !.next = FALSE]],
       Operation("cancel", i), None)
  /\ UNCHANGED << receipt, active, manager, scheduleOf, used >>

\* A client polls or cancels a run whose id a schedule has shown it, past the scheduler.
Shown(r) == r <= used /\ ~(AtStep("start") /\ r = used)

AgentPoll(r) ==
  /\ manager = "ready"
  /\ Shown(r)
  /\ \E answer \in Answers : Status(r, answer)
  /\ UNCHANGED taskVars

\* agent_cancel, after the poll it begins with; of a run without a thread it is another poll.
AgentCancel(r) ==
  /\ manager = "ready"
  /\ Shown(r)
  /\ active[r] # None
  /\ \E answer \in Answers : Cancel(r, answer)
  /\ UNCHANGED taskVars

\* A new process reads the file and reconciles every record before the loop begins.
Initialize ==
  /\ manager = "down"
  /\ manager' = "starting"
  /\ records' = disk
  /\ op' = IF disk = << >>
           THEN [Operation("initialize", 1) EXCEPT !.step = "initialized"]
           ELSE Operation("initialize", 1)
  /\ UNCHANGED << runVars, disk, scheduleOf, used >>

Initialized ==
  /\ AtStep("initialized")
  /\ manager' = "ready"
  /\ op' = None
  /\ UNCHANGED << runVars, disk, records, scheduleOf, used >>

Gone ==
  /\ manager' = "down"
  /\ records' = << >>
  /\ op' = None
  /\ active' = [r \in Runs |-> None]
  /\ UNCHANGED << receipt, disk, scheduleOf, used >>

\* A scheduler that fails to initialize takes the Manager's start with it.
InitializeFails ==
  /\ manager = "starting"
  /\ Idle
  /\ Gone
  /\ UNCHANGED faults

Shutdown ==
  /\ manager = "ready"
  /\ Idle
  /\ manager' = "stopping"
  /\ op' = IF records = << >> THEN None ELSE Operation("shutdown", 1)
  /\ UNCHANGED << runVars, disk, records, scheduleOf, used >>

\* The scheduler is followed by the run service, which waits for its threads.
ShutdownRuns ==
  /\ manager = "stopping"
  /\ Idle
  /\ manager' = "stopped"
  /\ active' = StopAll
  /\ UNCHANGED << receipt, faults, disk, records, op, scheduleOf, used >>

Exit ==
  /\ manager = "stopped"
  /\ \A r \in Runs : active[r] # None => active[r].phase = "finished"
  /\ Gone
  /\ UNCHANGED faults

Crash ==
  /\ manager # "down"
  /\ Gone
  /\ UNCHANGED faults

--------------------------------------------------------------------------------
Init ==
  /\ RunInit
  /\ manager = "down"
  /\ disk = << >>
  /\ records = << >>
  /\ op = None
  /\ scheduleOf = [r \in Runs |-> None]
  /\ used = 0

\* The operation that holds the mutex goes on.
Scheduler ==
  \/ ReconcileNothing
  \/ ReconcileAsks
  \/ ObserveNews
  \/ ObserveFailure
  \/ Block
  \/ RunNowAuthorized
  \/ FireRefused
  \/ Fire
  \/ FireStarts
  \/ FireDoesNotStart
  \/ Initialized

Clients ==
  \/ \E i \in Schedules : ScheduleRunNow(i) \/ ScheduleCancel(i)
  \/ ScheduleCreate
  \/ \E r \in Runs : AgentPoll(r) \/ AgentCancel(r)

Process ==
  \/ Initialize
  \/ InitializeFails
  \/ Shutdown
  \/ ShutdownRuns
  \/ Exit
  \/ Crash

Threads ==
  /\ \E r \in Runs : Thread(r)
  /\ UNCHANGED taskVars

Next ==
  \/ Scheduler
  \/ Tick
  \/ Clients
  \/ Process
  \/ Threads

Spec == Init /\ [][Next]_vars

--------------------------------------------------------------------------------
TasksTypeOK ==
  /\ RunTypeOK
  /\ manager \in Managers
  /\ disk \in Seq(Records)
  /\ records \in Seq(Records)
  /\ op \in Ops \cup {None}
  /\ scheduleOf \in [Runs -> Schedules \cup {None}]
  /\ used \in 0 .. MaxRuns

\* A run that may have effects yet.
Working(r) == active[r] # None /\ active[r].phase \notin { "concluding", "finished" }

\* "The same owned task cannot overlap itself": at no time do two runs of one owner work,
\* whichever of its schedules they were admitted for.
NoOverlap ==
  \A q, r \in Runs :
    Working(q) /\ Working(r) /\ OwnerOf[scheduleOf[q]] = OwnerOf[scheduleOf[r]] => q = r

Starts(r) == receipt[r] = None /\ receipt'[r] # None

\* "Durable admission precedes inference": whatever happens to the process next, the file
\* tells of a run that has been started.
AdmittedBeforeStart ==
  [][\A r \in Runs :
       Starts(r) =>
         \E i \in DOMAIN disk : disk[i].latest # None /\ disk[i].latest.run = r]_vars

\* Nothing has been submitted for the run, or its outcome is known.
Certain(r) ==
  receipt[r] = None \/ (Terminal(receipt[r].state) /\ ~receipt[r].interrupted)

\* r is admitted, and q is the run its schedule had before.
Follows(r, q) ==
  /\ scheduleOf[r] = None
  /\ scheduleOf'[r] # None
  /\ q < r
  /\ scheduleOf[q] = scheduleOf'[r]
  /\ \A p \in q + 1 .. r - 1 : scheduleOf[p] # scheduleOf[q]

\* "Ambiguous storage/start outcomes are never submitted twice automatically": a run that the
\* user has not authorized is admitted only when the one before it is certain.
NoAutomaticRetry ==
  [][\A q, r \in Runs :
       Follows(r, q) /\ ~records[scheduleOf[q]].authorized => Certain(q)]_vars

\* The cancellation of the schedule was stored.
IsCancelled(i) ==
  /\ i \in DOMAIN disk /\ disk[i].cancelled
  /\ i \in DOMAIN records => records[i].cancelled

Acknowledged(i) == i \in DOMAIN records /\ records[i].cancelled

\* A schedule the service shows as cancelled is cancelled in the file, and it stays so and
\* starts nothing, whichever commit fails and whenever the process dies.
CancelledStays ==
  [][\A i \in Schedules :
       Acknowledged(i) \/ IsCancelled(i) =>
         /\ IsCancelled(i)'
         /\ \A r \in Runs : Starts(r) => scheduleOf[r] # i]_vars

================================================================================

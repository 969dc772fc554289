------------------------------ MODULE WorkerRuns ------------------------------
(***************************************************************************)
(* The independent worker runs of a Manager: ManagedRunService over the    *)
(* receipts of WindowsReviewerRunStore.                                    *)
(*                                                                         *)
(* A run has a thread that talks to the provider and invokes the tools it  *)
(* asks for; the service shares the thread's published record under its    *)
(* mutex, and the store keeps one sealed receipt per run.  Each critical   *)
(* section, each provider turn, each tool call and each save is a step.    *)
(*                                                                         *)
(* The store loses a save or, worse, makes it and reports a failure: the   *)
(* caller is told the same.  Faults are counted, to bound them.            *)
(*                                                                         *)
(* Abstracted: run ids are the numbers 1..MaxRuns, each used once, as the  *)
(* ids of agent_spawn and the scheduler are; pending is whether the record *)
(* lists function calls; the workers that fill the limit of 16 appear as   *)
(* the refusal they cause.  Pausing, which only the tests ask for, and     *)
(* continuity, which a worker is not given, are left out.                  *)
(***************************************************************************)
EXTENDS Naturals

CONSTANTS
  MaxRuns,          \* the last run id
  MaxFaults,        \* faults that happen
  None              \* no receipt, no run

ASSUME MaxRunsAssumption == MaxRuns \in Nat
ASSUME MaxFaultsAssumption == MaxFaults \in Nat

VARIABLES
  receipt,          \* the receipt file of a run
  active,           \* active_: the run's published record and its thread
  faults            \* faults that have happened

runVars == << receipt, active, faults >>

Runs == 1 .. MaxRuns

--------------------------------------------------------------------------------
\* A cancelled run counts as failed, one that is being cancelled as running: nothing follows
\* from the difference.
Outcomes == { "completed", "failed" }

Receipts ==
  [ state : Outcomes \cup {"running"}, pending : BOOLEAN, interrupted : BOOLEAN ]

Terminal(state) == state \in Outcomes

RunPhases ==
  { "dispatching",  \* at the boundary before a provider turn
    "submitted",    \* the provider works on the turn
    "answered",     \* the turn is recorded, and is the last
    "calling",      \* at the boundary before a tool call
    "invoking",     \* the tool works
    "concluding",   \* the thread knows the outcome
    "finished" }    \* the outcome is published; threadFinished

\* own and pending belong to the thread's own copy; the published one follows it.
ActiveRuns ==
  [ phase : RunPhases, stop : BOOLEAN, own : Outcomes \cup {"running"}, pending : BOOLEAN ]

ASSUME RunNoneAssumption ==
  None \notin Nat /\ None \notin Receipts \cup ActiveRuns

AdmittedRun == [ phase |-> "dispatching", stop |-> FALSE, own |-> "running", pending |-> FALSE ]

\* A thread that has ended leaves what it published.
Ended(outcome) == [AdmittedRun EXCEPT !.phase = "finished", !.own = outcome]

AdmittedReceipt == [ state |-> "running", pending |-> FALSE, interrupted |-> FALSE ]

Live(r) == active[r] # None /\ active[r].phase # "finished"

--------------------------------------------------------------------------------
(* The store.  A save ends "saved", "lost" or "unsure"; only "saved" is a success. *)

SaveOutcomes == { "saved", "lost", "unsure" }

Fault(outcome) ==
  IF outcome = "saved" THEN UNCHANGED faults
  ELSE faults < MaxFaults /\ faults' = faults + 1

\* A terminal receipt is not reopened.
Accepts(r, new) ==
  ~(receipt[r] # None /\ Terminal(receipt[r].state) /\ ~Terminal(new.state))

Save(r, new, outcome) ==
  IF Accepts(r, new)
  THEN /\ Fault(outcome)
       /\ receipt' = IF outcome = "lost" THEN receipt ELSE [receipt EXCEPT ![r] = new]
  ELSE outcome = "lost" /\ UNCHANGED << receipt, faults >>

\* What is read of a run: "running" or "ended", Missing, or Unavailable when the store fails.
Read(state, interrupted) == [ state |-> state, interrupted |-> interrupted ]

Missing == Read("missing", FALSE)
Unavailable == Read("unavailable", FALSE)

Answers ==
  { Missing, Unavailable, Read("running", FALSE) } \cup { Read("ended", i) : i \in BOOLEAN }

\* A receipt without a final outcome is rewritten when it is loaded: its owner is gone.
Inconclusive(record) ==
  ~Terminal(record.state) \/ (record.state = "completed" /\ record.pending)

Interrupted(record) == [record EXCEPT !.state = "failed", !.interrupted = TRUE]

Load(r, answer) ==
  \/ receipt[r] = None /\ answer = Missing /\ UNCHANGED << receipt, faults >>
  \/ answer = Unavailable /\ Fault("lost") /\ UNCHANGED receipt
  \/ /\ receipt[r] # None
     /\ ~Inconclusive(receipt[r])
     /\ answer = Read("ended", receipt[r].interrupted)
     /\ UNCHANGED << receipt, faults >>
  \/ /\ receipt[r] # None
     /\ Inconclusive(receipt[r])
     /\ \E outcome \in SaveOutcomes :
          /\ Save(r, Interrupted(receipt[r]), outcome)
          /\ answer = IF outcome = "saved" THEN Read("ended", TRUE) ELSE Unavailable

--------------------------------------------------------------------------------
(* The service *)

\* Threads that have ended are joined and their runs forgotten; the receipt remains.
Reaped ==
  [ r \in Runs |->
      IF active[r] # None /\ active[r].phase = "finished" THEN None ELSE active[r] ]

\* Mutant: status asks the store first.
StatusOfReceipt(r, answer) == active' = Reaped /\ Load(r, answer)

\* A live run is what its thread published; any other is what its receipt says.
Status(r, answer) ==
  /\ active' = Reaped
  /\ \/ /\ Live(r)
        /\ answer = Read("running", FALSE)
        /\ UNCHANGED << receipt, faults >>
     \/ ~Live(r) /\ Load(r, answer)

\* A live thread is asked to stop; the answer is the published record, final or not.
Asked(r) == [active[r] EXCEPT !.stop = @ \/ Live(r)]

Cancel(r, answer) ==
  \/ /\ active[r] # None
     /\ active' = [active EXCEPT ![r] = Asked(r)]
     /\ answer = Read(IF Live(r) THEN "running" ELSE "ended", FALSE)
     /\ UNCHANGED << receipt, faults >>
  \/ active[r] = None /\ Status(r, answer)

\* The receipt precedes the thread.
Start(r) ==
  /\ Save(r, AdmittedReceipt, "saved")
  /\ active' = [Reaped EXCEPT ![r] = AdmittedRun]

\* Refused, not saved, or without a thread: that leaves a failed receipt, if it can be saved.
\* A failure may leave the receipt of a run nobody runs.
StartFails(r) ==
  /\ active' = Reaped
  /\ \/ UNCHANGED << receipt, faults >>
     \/ \E outcome \in { "lost", "unsure" } : Save(r, AdmittedReceipt, outcome)
     \/ Save(r, [AdmittedReceipt EXCEPT !.state = "failed"], "saved")

\* shutdown: every thread is asked to stop.
StopAll ==
  [ r \in Runs |-> IF Live(r) THEN [active[r] EXCEPT !.stop = TRUE] ELSE active[r] ]

--------------------------------------------------------------------------------
(* The run's thread *)

At(r, phase) == active[r] # None /\ active[r].phase = phase

Moves(r, run) == active' = [active EXCEPT ![r] = run]

Goes(r, phase) ==
  /\ Moves(r, [active[r] EXCEPT !.phase = phase])
  /\ UNCHANGED << receipt, faults >>

Concludes(r, outcome) ==
  /\ Moves(r, [active[r] EXCEPT !.phase = "concluding", !.own = outcome])
  /\ UNCHANGED << receipt, faults >>

\* awaitDispatchBoundary: a run that is asked to stop does, and so does one whose
\* timeoutSeconds have passed since its admission.  A run without an authority, of its owner
\* or to call tools with, fails there too.
StopsAtBoundary(r) ==
  /\ \E phase \in { "dispatching", "answered", "calling" } : At(r, phase)
  /\ Concludes(r, "failed")

Passes(r, phase) == At(r, phase) /\ ~active[r].stop

Submit(r) == Passes(r, "dispatching") /\ Goes(r, "submitted")

ProviderFails(r) ==
  /\ At(r, "submitted")
  /\ Concludes(r, "failed")

After(calls) == IF calls THEN "calling" ELSE "answered"

\* Mutant: what the provider asks for is done whether or not it could be recorded.
ProviderAnswersUnrecorded(r) ==
  /\ At(r, "submitted")
  /\ \E calls \in BOOLEAN, outcome \in SaveOutcomes :
       /\ Save(r, [receipt[r] EXCEPT !.state = "running", !.pending = calls], outcome)
       /\ Moves(r, [active[r] EXCEPT
            !.pending = calls, !.phase = After(calls)])

\* The turn is saved, with the calls it asks for, before anything is done about them.
ProviderAnswers(r) ==
  /\ At(r, "submitted")
  /\ \E calls \in BOOLEAN, outcome \in SaveOutcomes :
       /\ Save(r, [receipt[r] EXCEPT !.state = "running", !.pending = calls], outcome)
       /\ Moves(r,
            IF outcome = "saved"
            THEN [active[r] EXCEPT !.pending = calls, !.phase = After(calls)]
            ELSE [active[r] EXCEPT
                   !.pending = calls, !.own = "failed", !.phase = "concluding"])

Complete(r) == Passes(r, "answered") /\ Concludes(r, "completed")

\* The owner's current authority is resolved for every call.
Invoke(r) == Passes(r, "calling") /\ Goes(r, "invoking")

\* Another call is to be made.
ToolReturns(r) == At(r, "invoking") /\ Goes(r, "calling")

\* The last call has returned: the receipt lists none, and the next turn brings their output.
ClearCalls(r) ==
  /\ At(r, "invoking")
  /\ \E outcome \in SaveOutcomes :
       /\ Save(r, [receipt[r] EXCEPT !.state = "running", !.pending = FALSE], outcome)
       /\ Moves(r,
            IF outcome = "saved"
            THEN [active[r] EXCEPT !.pending = FALSE, !.phase = "dispatching"]
            ELSE [active[r] EXCEPT
                   !.pending = FALSE, !.own = "failed", !.phase = "concluding"])

\* The outcome is saved and published; one that cannot be saved is published as failed.
Conclude(r) ==
  /\ At(r, "concluding")
  /\ \E outcome \in SaveOutcomes :
       /\ Save(r, [receipt[r] EXCEPT !.state = active[r].own, !.pending = active[r].pending],
               outcome)
       /\ Moves(r, Ended(IF outcome = "saved" THEN active[r].own ELSE "failed"))

Thread(r) ==
  \/ StopsAtBoundary(r)
  \/ Submit(r)
  \/ ProviderFails(r)
  \/ ProviderAnswers(r)
  \/ Complete(r)
  \/ Invoke(r)
  \/ ToolReturns(r)
  \/ ClearCalls(r)
  \/ Conclude(r)

--------------------------------------------------------------------------------
RunInit ==
  /\ receipt = [r \in Runs |-> None]
  /\ active = [r \in Runs |-> None]
  /\ faults = 0

RunTypeOK ==
  /\ receipt \in [Runs -> Receipts \cup {None}]
  /\ active \in [Runs -> ActiveRuns \cup {None}]
  /\ faults \in 0 .. MaxFaults

\* While a tool works, the run's receipt says that calls were pending: whatever happens
\* next, nobody takes the run for one without effects.
CallsAreRecorded ==
  \A r \in Runs :
    active[r] # None /\ active[r].phase \in { "calling", "invoking" }
      => receipt[r] # None /\ receipt[r].pending

\* A receipt that tells an outcome tells it of a run that has no effects any more: its
\* thread does not wait for the provider and makes no call.
OutcomeIsFinal ==
  \A r \in Runs :
    receipt[r] # None /\ Terminal(receipt[r].state)
      => active[r] = None \/ active[r].phase = "finished"

================================================================================

--------------------------- MODULE WorkerRuns_proofs ---------------------------
(***************************************************************************)
(* Lemmas about the steps of WorkerRuns, for any number of runs and of     *)
(* faults: what each does to the receipts and the threads, and that it     *)
(* keeps them in agreement.  ScheduledTasks_proofs rests on them.          *)
(***************************************************************************)
EXTENDS WorkerRuns, TLAPS

\* A thread has a receipt, whose outcome is open while it works, and which lists the calls
\* it makes.
RunInv ==
  /\ RunTypeOK
  /\ \A r \in Runs : active[r] # None => receipt[r] # None
  /\ CallsAreRecorded
  /\ OutcomeIsFinal

\* A receipt with a final outcome, which no load rewrites.
Conclusive(r) == receipt[r] # None /\ ~Inconclusive(receipt[r])

\* Nothing comes to life, no receipt appears or disappears, and a final one stays.
Calm ==
  \A r \in Runs :
    /\ active[r] = None => active'[r] = None
    /\ ~Live(r) => ~Live(r)'
    /\ receipt[r] = None <=> receipt'[r] = None
    /\ Conclusive(r) => receipt'[r] = receipt[r]

\* Faults stay within their bound.
LEMMA FaultType ==
  ASSUME RunTypeOK, NEW outcome \in SaveOutcomes, Fault(outcome)
  PROVE  faults' \in 0 .. MaxFaults
BY MaxFaultsAssumption DEF Fault, RunTypeOK

\* Runs that have ended are forgotten: that changes no receipt and no thread that works.
LEMMA ReapedKeeps ==
  ASSUME RunInv, active' = Reaped
  PROVE  /\ active' \in [Runs -> ActiveRuns \cup {None}]
         /\ \A r \in Runs : Live(r) => active'[r] = active[r]
         /\ \A r \in Runs : ~Live(r) => active'[r] = None
BY RunNoneAssumption DEF RunInv, RunTypeOK, Reaped, Live

\* A receipt is read, and rewritten if it has no final outcome.
LEMMA LoadKeeps ==
  ASSUME RunInv, NEW r \in Runs, NEW answer \in Answers, Load(r, answer)
  PROVE  /\ receipt' \in [Runs -> Receipts \cup {None}]
         /\ faults' \in 0 .. MaxFaults
         /\ \A q \in Runs : q # r => receipt'[q] = receipt[q]
         /\ receipt[r] = None <=> receipt'[r] = None
         /\ Conclusive(r) => receipt'[r] = receipt[r]
         /\ answer.state = "missing" => receipt[r] = None
         /\ answer.state = "ended" => receipt[r] # None
         /\ answer.state # "running"
         /\ answer = Read("ended", FALSE) => Conclusive(r)' /\ ~receipt'[r].interrupted
<1>1. CASE receipt[r] = None /\ answer = Missing /\ UNCHANGED << receipt, faults >>
  BY <1>1 DEF RunInv, RunTypeOK, Missing, Read, Conclusive
<1>2. CASE answer = Unavailable /\ Fault("lost") /\ UNCHANGED receipt
  BY <1>2, FaultType DEF RunInv, RunTypeOK, Unavailable, Read, SaveOutcomes, Conclusive
<1>3. CASE /\ receipt[r] # None
           /\ ~Inconclusive(receipt[r])
           /\ answer = Read("ended", receipt[r].interrupted)
           /\ UNCHANGED << receipt, faults >>
  BY <1>3 DEF RunInv, RunTypeOK, Read, Conclusive
<1>4. ASSUME receipt[r] # None, Inconclusive(receipt[r]),
             NEW outcome \in SaveOutcomes,
             Save(r, Interrupted(receipt[r]), outcome),
             answer = IF outcome = "saved" THEN Read("ended", TRUE) ELSE Unavailable
      PROVE  /\ receipt' \in [Runs -> Receipts \cup {None}]
             /\ faults' \in 0 .. MaxFaults
             /\ \A q \in Runs : q # r => receipt'[q] = receipt[q]
             /\ receipt'[r] # None
             /\ answer.state \in { "ended", "unavailable" }
             /\ answer # Read("ended", FALSE)
  <2>1. [receipt[r] EXCEPT !.state = "failed", !.interrupted = TRUE] \in Receipts
    BY <1>4 DEF RunInv, RunTypeOK, Receipts, Outcomes
  <2>2. \/ UNCHANGED receipt
        \/ receipt' = [receipt EXCEPT ![r] =
                         [receipt[r] EXCEPT !.state = "failed", !.interrupted = TRUE]]
    BY <1>4 DEF Save, Interrupted
  <2>3. faults' \in 0 .. MaxFaults
    BY <1>4, FaultType DEF Save, RunInv, RunTypeOK
  <2>4. answer.state \in { "ended", "unavailable" } /\ answer # Read("ended", FALSE)
    BY <1>4 DEF Read, Unavailable
  <2> QED
    BY <1>4, <2>1, <2>2, <2>3, <2>4, RunNoneAssumption DEF RunInv, RunTypeOK
<1> QED
  BY <1>1, <1>2, <1>3, <1>4 DEF Load, Conclusive

\* Only a run that no thread works on is read from its receipt.
LEMMA StatusKeeps ==
  ASSUME RunInv, NEW r \in Runs, NEW answer \in Answers, Status(r, answer)
  PROVE  /\ RunInv'
         /\ Calm
         /\ answer.state = "running" => Live(r)
         /\ answer.state \in { "ended", "missing" } => ~Live(r)
         /\ answer.state = "ended" => receipt[r] # None
         /\ answer.state = "missing" => receipt[r] = None
         /\ answer = Read("ended", FALSE) => Conclusive(r)' /\ ~receipt'[r].interrupted
<1>1. active' = Reaped
  BY DEF Status
<1>2. /\ active' \in [Runs -> ActiveRuns \cup {None}]
      /\ \A q \in Runs : Live(q) => active'[q] = active[q]
      /\ \A q \in Runs : ~Live(q) => active'[q] = None
  BY <1>1, ReapedKeeps
<1>3. CASE Live(r) /\ answer = Read("running", FALSE) /\ UNCHANGED << receipt, faults >>
  BY <1>2, <1>3 DEF RunInv, RunTypeOK, CallsAreRecorded, OutcomeIsFinal, Live, Calm, Read, Conclusive
<1>4. CASE ~Live(r) /\ Load(r, answer)
  <2>0. /\ receipt' \in [Runs -> Receipts \cup {None}]
        /\ faults' \in 0 .. MaxFaults
        /\ \A q \in Runs : q # r => receipt'[q] = receipt[q]
        /\ receipt[r] = None <=> receipt'[r] = None
    BY <1>4, LoadKeeps
  <2>1. RunInv'
    BY <1>2, <1>4, <2>0
       DEF RunInv, RunTypeOK, CallsAreRecorded, OutcomeIsFinal, Live
  <2>2. \A q \in Runs : Conclusive(q) => receipt'[q] = receipt[q]
    BY <1>4, LoadKeeps
  <2>3. Calm
    BY <1>2, <1>4, <2>2, LoadKeeps DEF Live, Calm
  <2>4. answer = Read("ended", FALSE) => Conclusive(r)' /\ ~receipt'[r].interrupted
    BY <1>4, LoadKeeps
  <2> QED
    BY <1>4, <2>1, <2>3, <2>4, LoadKeeps
<1> QED
  BY <1>3, <1>4 DEF Status

\* A run that is cancelled is asked to stop, or read.
LEMMA CancelKeeps ==
  ASSUME RunInv, NEW r \in Runs, NEW answer \in Answers, Cancel(r, answer)
  PROVE  /\ RunInv'
         /\ Calm
         /\ answer.state = "running" => Live(r)
         /\ answer.state \in { "ended", "missing" } => ~Live(r)
         /\ answer.state = "ended" => receipt[r] # None
         /\ answer.state = "missing" => receipt[r] = None
<1>1. CASE /\ active[r] # None
           /\ active' = [active EXCEPT ![r] = Asked(r)]
           /\ answer = Read(IF Live(r) THEN "running" ELSE "ended", FALSE)
           /\ UNCHANGED << receipt, faults >>
  <2>1. Asked(r) = [active[r] EXCEPT !.stop = active[r].stop \/ Live(r)]
    BY DEF Asked
  <2>2. active[r] \in ActiveRuns
    BY <1>1 DEF RunInv, RunTypeOK
  <2>3. /\ Asked(r) \in ActiveRuns
        /\ Asked(r).phase = active[r].phase
    BY <2>1, <2>2 DEF ActiveRuns, Live
  <2>4. answer.state = IF Live(r) THEN "running" ELSE "ended"
    BY <1>1 DEF Read
  <2> QED
    BY <1>1, <2>2, <2>3, <2>4, RunNoneAssumption
       DEF RunInv, RunTypeOK, CallsAreRecorded, OutcomeIsFinal, Live, Calm
<1>2. CASE active[r] = None /\ Status(r, answer)
  BY <1>2, StatusKeeps
<1> QED
  BY <1>1, <1>2 DEF Cancel

\* A new run has its receipt before its thread, which begins at its first boundary.
LEMMA StartKeeps ==
  ASSUME RunInv, NEW r \in Runs, active[r] = None, receipt[r] = None, Start(r)
  PROVE  /\ RunInv'
         /\ Live(r)' /\ receipt'[r] # None
         /\ \A q \in Runs : q # r =>
              /\ active[q] = None => active'[q] = None
              /\ ~Live(q) => ~Live(q)'
              /\ receipt'[q] = receipt[q]
<1>1. AdmittedReceipt \in Receipts /\ ~Terminal(AdmittedReceipt.state)
  BY DEF AdmittedReceipt, Receipts, Terminal, Outcomes
<1>2. AdmittedRun \in ActiveRuns /\ AdmittedRun.phase = "dispatching"
  BY DEF AdmittedRun, ActiveRuns, RunPhases
<1>3. receipt' = [receipt EXCEPT ![r] = AdmittedReceipt] /\ UNCHANGED faults
  BY DEF Start, Save, Accepts, Fault
<1>4. /\ Reaped \in [Runs -> ActiveRuns \cup {None}]
      /\ \A q \in Runs : Live(q) => Reaped[q] = active[q]
      /\ \A q \in Runs : ~Live(q) => Reaped[q] = None
  BY RunNoneAssumption DEF RunInv, RunTypeOK, Reaped, Live
<1>5. active' = [Reaped EXCEPT ![r] = AdmittedRun]
  BY DEF Start
<1> QED
  BY <1>1, <1>2, <1>3, <1>4, <1>5, RunNoneAssumption
     DEF RunInv, RunTypeOK, CallsAreRecorded, OutcomeIsFinal, Live

\* A run that is not started has no thread, whatever receipt it leaves.
LEMMA StartFailsKeeps ==
  ASSUME RunInv, NEW r \in Runs, active[r] = None, StartFails(r)
  PROVE  /\ RunInv'
         /\ \A q \in Runs :
              /\ active[q] = None => active'[q] = None
              /\ ~Live(q) => ~Live(q)'
              /\ q # r => receipt'[q] = receipt[q]
              /\ receipt[q] # None => receipt'[q] # None
<1>1. /\ active' \in [Runs -> ActiveRuns \cup {None}]
      /\ \A q \in Runs : Live(q) => active'[q] = active[q]
      /\ \A q \in Runs : ~Live(q) => active'[q] = None
  BY ReapedKeeps DEF StartFails
<1>2. /\ AdmittedReceipt \in Receipts
      /\ [AdmittedReceipt EXCEPT !.state = "failed"] \in Receipts
  BY DEF AdmittedReceipt, Receipts, Outcomes
<1>3. /\ faults' \in 0 .. MaxFaults
      /\ \/ UNCHANGED receipt
         \/ receipt' = [receipt EXCEPT ![r] = AdmittedReceipt]
         \/ receipt' = [receipt EXCEPT ![r] = [AdmittedReceipt EXCEPT !.state = "failed"]]
  BY MaxFaultsAssumption DEF StartFails, Save, Fault, RunInv, RunTypeOK
<1> QED
  BY <1>1, <1>2, <1>3, RunNoneAssumption
     DEF RunInv, RunTypeOK, CallsAreRecorded, OutcomeIsFinal, Live

\* At a shutdown the threads are asked to stop.
LEMMA StopAllKeeps ==
  ASSUME RunInv, active' = StopAll, UNCHANGED << receipt, faults >>
  PROVE  RunInv' /\ Calm
<1>1. \A r \in Runs : active[r] # None => active[r] \in ActiveRuns
  BY DEF RunInv, RunTypeOK
<1>2. \A r \in Runs : Live(r) =>
        /\ [active[r] EXCEPT !.stop = TRUE] \in ActiveRuns
        /\ [active[r] EXCEPT !.stop = TRUE].phase = active[r].phase
  BY <1>1 DEF Live, ActiveRuns
<1> QED
  BY <1>1, <1>2, RunNoneAssumption
     DEF StopAll, RunInv, RunTypeOK, CallsAreRecorded, OutcomeIsFinal, Live, Calm

\* All threads end with their process.
LEMMA GoneKeeps ==
  ASSUME RunInv, active' = [r \in Runs |-> None], UNCHANGED << receipt, faults >>
  PROVE  RunInv' /\ Calm
BY DEF RunInv, RunTypeOK, CallsAreRecorded, OutcomeIsFinal, Live, Calm

--------------------------------------------------------------------------------
\* The thread moves, its receipt stays.
LEMMA MovesKeeps ==
  ASSUME RunInv, NEW r \in Runs, Live(r), NEW run \in ActiveRuns, Moves(r, run),
         UNCHANGED << receipt, faults >>,
         run.phase \in { "calling", "invoking" } => receipt[r].pending
  PROVE  RunInv' /\ Calm
BY RunNoneAssumption
   DEF RunInv, RunTypeOK, CallsAreRecorded, OutcomeIsFinal, Live, Calm, Moves

\* The thread saves its receipt and moves.
LEMMA SavesKeeps ==
  ASSUME RunInv, NEW r \in Runs, Live(r), NEW run \in ActiveRuns, Moves(r, run),
         NEW new \in Receipts, NEW outcome \in SaveOutcomes, Save(r, new, outcome),
         run.phase \in { "calling", "invoking" } => outcome = "saved" /\ new.pending,
         Terminal(new.state) => run.phase = "finished"
  PROVE  RunInv' /\ Calm
<1>1. /\ faults' \in 0 .. MaxFaults
      /\ UNCHANGED receipt \/ receipt' = [receipt EXCEPT ![r] = new]
      /\ outcome = "saved" => receipt' = [receipt EXCEPT ![r] = new]
  BY FaultType DEF Save, RunInv, RunTypeOK
<1> QED
  BY <1>1, RunNoneAssumption
     DEF RunInv, RunTypeOK, CallsAreRecorded, OutcomeIsFinal, Live, Calm, Moves,
         Conclusive, Inconclusive

\* Whatever the thread does, it leaves the receipts and the other runs in agreement.
LEMMA ThreadKeeps ==
  ASSUME RunInv, NEW r \in Runs, Thread(r)
  PROVE  RunInv' /\ Calm
<1>1. active[r] # None => active[r] \in ActiveRuns /\ receipt[r] \in Receipts
  BY DEF RunInv, RunTypeOK
<1>2. ASSUME Live(r), NEW outcome \in Outcomes, Concludes(r, outcome)
      PROVE  RunInv' /\ Calm
  <2>1. [active[r] EXCEPT !.phase = "concluding", !.own = outcome] \in ActiveRuns
    BY <1>1, <1>2 DEF ActiveRuns, RunPhases, Live
  <2> QED
    BY <1>1, <1>2, <2>1, MovesKeeps DEF Concludes, Live, ActiveRuns
<1>3. ASSUME Live(r), NEW phase \in RunPhases, Goes(r, phase),
             phase \in { "calling", "invoking" } => receipt[r].pending
      PROVE  RunInv' /\ Calm
  <2>1. [active[r] EXCEPT !.phase = phase] \in ActiveRuns
    BY <1>1, <1>3 DEF ActiveRuns, Live
  <2> QED
    BY <1>1, <1>3, <2>1, MovesKeeps DEF Goes, Live, ActiveRuns
<1>4. CASE StopsAtBoundary(r)
  BY <1>2, <1>4 DEF StopsAtBoundary, At, Live, Outcomes
<1>5. CASE Submit(r)
  BY <1>3, <1>5 DEF Submit, Passes, At, Live, RunPhases
<1>6. CASE ProviderFails(r)
  BY <1>2, <1>6 DEF ProviderFails, At, Live, Outcomes
<1>7. CASE ProviderAnswers(r)
  <2>1. active[r] # None /\ active[r].phase = "submitted" /\ Live(r)
    BY <1>7 DEF ProviderAnswers, At, Live
  <2>2. PICK calls \in BOOLEAN, outcome \in SaveOutcomes :
          /\ Save(r, [receipt[r] EXCEPT !.state = "running", !.pending = calls], outcome)
          /\ Moves(r,
               IF outcome = "saved"
               THEN [active[r] EXCEPT !.pending = calls, !.phase = After(calls)]
               ELSE [active[r] EXCEPT
                      !.pending = calls, !.own = "failed", !.phase = "concluding"])
    BY <1>7 DEF ProviderAnswers
  <2> DEFINE new == [receipt[r] EXCEPT !.state = "running", !.pending = calls]
             run == IF outcome = "saved"
                    THEN [active[r] EXCEPT !.pending = calls, !.phase = After(calls)]
                    ELSE [active[r] EXCEPT
                           !.pending = calls, !.own = "failed", !.phase = "concluding"]
  <2>3. new \in Receipts /\ new.pending = calls /\ ~Terminal(new.state)
    BY <1>1, <2>1 DEF Receipts, Terminal, Outcomes
  <2>4. /\ run \in ActiveRuns
        /\ run.phase = IF outcome = "saved" THEN After(calls) ELSE "concluding"
    BY <1>1, <2>1 DEF ActiveRuns, RunPhases, Outcomes, After
  <2> HIDE DEF new, run
  <2>5. Save(r, new, outcome) /\ Moves(r, run)
    BY <2>2 DEF new, run
  <2> QED
    BY <2>1, <2>3, <2>4, <2>5, SavesKeeps DEF After
<1>8. CASE Complete(r)
  BY <1>2, <1>8 DEF Complete, Passes, At, Live, Outcomes
<1>9. CASE Invoke(r)
  BY <1>3, <1>9 DEF Invoke, Passes, At, Live, RunPhases, RunInv, CallsAreRecorded
<1>10. CASE ToolReturns(r)
  BY <1>3, <1>10 DEF ToolReturns, At, Live, RunPhases, RunInv, CallsAreRecorded
<1>11. CASE ClearCalls(r)
  <2>1. active[r] # None /\ active[r].phase = "invoking" /\ Live(r)
    BY <1>11 DEF ClearCalls, At, Live
  <2>2. PICK outcome \in SaveOutcomes :
          /\ Save(r, [receipt[r] EXCEPT !.state = "running", !.pending = FALSE], outcome)
          /\ Moves(r,
               IF outcome = "saved"
               THEN [active[r] EXCEPT !.pending = FALSE, !.phase = "dispatching"]
               ELSE [active[r] EXCEPT
                      !.pending = FALSE, !.own = "failed", !.phase = "concluding"])
    BY <1>11 DEF ClearCalls
  <2> DEFINE new == [receipt[r] EXCEPT !.state = "running", !.pending = FALSE]
             run == IF outcome = "saved"
                    THEN [active[r] EXCEPT !.pending = FALSE, !.phase = "dispatching"]
                    ELSE [active[r] EXCEPT
                           !.pending = FALSE, !.own = "failed", !.phase = "concluding"]
  <2>3. new \in Receipts /\ ~Terminal(new.state)
    BY <1>1, <2>1 DEF Receipts, Terminal, Outcomes
  <2>4. run \in ActiveRuns /\ run.phase \in { "dispatching", "concluding" }
    BY <1>1, <2>1 DEF ActiveRuns, RunPhases, Outcomes
  <2> HIDE DEF new, run
  <2>5. Save(r, new, outcome) /\ Moves(r, run)
    BY <2>2 DEF new, run
  <2> QED
    BY <2>1, <2>3, <2>4, <2>5, SavesKeeps
<1>12. CASE Conclude(r)
  <2>1. active[r] # None /\ active[r].phase = "concluding" /\ Live(r)
    BY <1>12 DEF Conclude, At, Live
  <2>2. PICK outcome \in SaveOutcomes :
          /\ Save(r, [receipt[r] EXCEPT
                        !.state = active[r].own, !.pending = active[r].pending], outcome)
          /\ Moves(r, Ended(IF outcome = "saved" THEN active[r].own ELSE "failed"))
    BY <1>12 DEF Conclude
  <2> DEFINE new == [receipt[r] EXCEPT
                       !.state = active[r].own, !.pending = active[r].pending]
             run == Ended(IF outcome = "saved" THEN active[r].own ELSE "failed")
  <2>3. new \in Receipts
    BY <1>1, <2>1 DEF Receipts, ActiveRuns
  <2>4. run \in ActiveRuns /\ run.phase = "finished"
    BY <1>1, <2>1 DEF Ended, AdmittedRun, ActiveRuns, RunPhases, Outcomes
  <2> HIDE DEF new, run
  <2>5. Save(r, new, outcome) /\ Moves(r, run)
    BY <2>2 DEF new, run
  <2> QED
    BY <2>1, <2>3, <2>4, <2>5, SavesKeeps
<1> QED
  BY <1>4, <1>5, <1>6, <1>7, <1>8, <1>9, <1>10, <1>11, <1>12 DEF Thread

================================================================================

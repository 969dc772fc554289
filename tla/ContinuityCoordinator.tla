------------------------- MODULE ContinuityCoordinator -------------------------
(***************************************************************************)
(* ContinuityCoordinator: it drives one project's rollovers through the    *)
(* repository's tables and the session host, and may be entered by several *)
(* callers at once and die anywhere.                                       *)
(*                                                                         *)
(* A coordinator call keeps the row its last transaction returned and acts *)
(* on that copy.  Each transaction and each section of the host is one     *)
(* action; what a call decides from its own copy alone is part of the      *)
(* action before.                                                          *)
(*                                                                         *)
(* Assumed: the ledger commits of two processes do not overlap.            *)
(* Abstracted: the host adapter's fixed capabilities, the bound of 32      *)
(* steps a call takes (no path is that long), the reports' wording.        *)
(***************************************************************************)
EXTENDS ContinuityRepository, NativeSessionHost

CONSTANTS
  Offered,          \* the coordinator operations each caller uses
  Submitted,        \* the checkpoint requests clients submit
  ThisAdapter,      \* the adapter id of the native session host
  FaultKinds,       \* the faults that happen
  MaxFaults         \* bound on how many happen

ASSUME OfferedAssumption ==
  Offered \in [Calls -> SUBSET { "checkpoint", "rollover", "resume", "recover",
                                "cancel recovery", "acknowledge", "reset" }]
ASSUME SubmittedAssumption == Submitted \subseteq Requests
ASSUME AdapterAssumption == ThisAdapter \in Adapters
ASSUME FaultsAssumption ==
  /\ FaultKinds \subseteq { "host", "database", "abandon", "restart", "cancel" }
  /\ MaxFaults \in Nat

\* The durable handoff a call has read, with the fields of the document that the
\* repository has checked against its operation.
Documents ==
  [ content : Contents, successor : Sessions \cup {None}, predecessor : Sessions,
    adapter : Adapters ]

ASSUME DocumentNoneAssumption == None \notin Documents
ASSUME KeyNoneAssumption == None \notin Keys

Points ==
  { "idle", "create", "checkpoint", "intent", "persist", "read", "rollover",
    "creating", "created", "document", "bootstrapping", "acknowledge", "retry",
    "resume", "seal", "cancelling" }

\* A coordinator call: the operation the caller asked for, where it stands, and its
\* copies of the row (without its transition count), the document and the session.
Tasks ==
  [ kind : { "idle", "checkpoint", "rollover", "resume", "cancel recovery" },
    at : Points,
    op : Operations \cup {None},
    key : Keys \cup {None},
    row : OperationRows \cup {None},
    document : Documents \cup {None},
    session : HostSessions \cup {None} ]

VARIABLES
  tasks,            \* the coordinator call of each caller
  faults            \* how many faults have happened

vars == << repositoryVars, hostVars, tasks, faults >>

--------------------------------------------------------------------------------
IdleTask ==
  [ kind |-> "idle", at |-> "idle", op |-> None, key |-> None, row |-> None,
    document |-> None, session |-> None ]

Ends(p) == tasks' = [tasks EXCEPT ![p] = IdleTask]

HostReturns(p) == hostCalls' = [hostCalls EXCEPT ![p] = IdleCall]

HostUntouched == UNCHANGED << durable, memory, view, committing, overlaps,
                             answered >>

Fault(kind) ==
  /\ kind \in FaultKinds
  /\ faults < MaxFaults
  /\ faults' = faults + 1

\* The row a transaction returns, as the caller keeps it.
Copy(row) == [row EXCEPT !.attempt = 0]

Document(o) ==
  [ content |-> handoffs[o].content, successor |-> handoffs[o].successor,
    predecessor |-> operations[o].predecessor, adapter |-> operations[o].adapter ]

\* The handoff and key a call submits to createOperation and storeHandoff.
Submission(t) ==
  [ operation |-> t.op, key |-> t.key, predecessor |-> t.document.predecessor,
    adapter |-> t.document.adapter, content |-> t.document.content,
    successor |-> t.document.successor ]

\* A rollover call goes on with a row, or returns because the row is at an end.
WithRow(t, row) ==
  IF row.state \in TerminalStates \cup { "FailedRecoverable" }
    THEN IdleTask
    ELSE [IdleTask EXCEPT !.kind = t.kind, !.op = t.op, !.row = Copy(row),
                          !.at = "rollover"]

\* checkpoint looks at the row again; past its own states it returns, to the client or
\* to the rollover that called it.
CheckpointWithRow(t, row) ==
  IF row.state \in { "RetryWait", "Idle", "CheckpointPreparing" }
    THEN [t EXCEPT !.row = Copy(row), !.at = "checkpoint"]
  ELSE IF t.kind = "rollover" THEN WithRow(t, row)
  ELSE IdleTask

\* compareAndSet from the state of the caller's copy.  A transaction that fails ends
\* the call.
Sets(p, next, successor) ==
  CompareAndSet(tasks[p].op, tasks[p].row.state, next, successor)

Refused(p, next, successor) ==
  CompareAndSetFails(tasks[p].op, tasks[p].row.state, next, successor)
    /\ UNCHANGED repositoryVars

--------------------------------------------------------------------------------
(* checkpoint                                                              *)

StartCheckpoint(p) ==
  /\ "checkpoint" \in Offered[p]
  /\ tasks[p].at = "idle"
  /\ \E r \in Submitted :
       tasks' = [tasks EXCEPT ![p] =
         [IdleTask EXCEPT !.kind = "checkpoint", !.at = "create", !.op = r.operation,
            !.key = r.key,
            !.document = [ content |-> r.content, successor |-> r.successor,
                           predecessor |-> r.predecessor, adapter |-> r.adapter ]]]
  /\ UNCHANGED << repositoryVars, hostVars, faults >>

CheckpointCreates(p) ==
  LET t == tasks[p]
  IN /\ t.at = "create"
     /\ \/ /\ CreateOperation(Submission(t))
           /\ tasks' = [tasks EXCEPT ![p] = CheckpointWithRow(t, operations'[t.op])]
        \/ /\ CreateOperationFails(Submission(t)) /\ UNCHANGED repositoryVars
           /\ Ends(p)
     /\ UNCHANGED << hostVars, faults >>

CheckpointMoves(p, next) ==
  LET t == tasks[p]
  IN \/ /\ Sets(p, next, None)
        /\ tasks' = [tasks EXCEPT ![p] = CheckpointWithRow(t, operations'[t.op])]
     \/ Refused(p, next, None) /\ Ends(p)

CheckpointResumes(p) ==
  LET row == tasks[p].row
  IN /\ tasks[p].at = "checkpoint"
     /\ row.state = "RetryWait"
     /\ IF row.retryResume = "CheckpointPreparing" /\ row.retryDue
          THEN CheckpointMoves(p, "CheckpointPreparing")
          ELSE Ends(p) /\ UNCHANGED repositoryVars
     /\ UNCHANGED << hostVars, faults >>

\* A handoff that cannot be stored makes a checkpoint that was already being prepared
\* wait for a retry.
CheckpointStores(p) ==
  LET t == tasks[p]
      preparing == t.row.state = "CheckpointPreparing"
  IN /\ t.at = "checkpoint"
     /\ t.row.state \in { "Idle", "CheckpointPreparing" }
     /\ \/ /\ StoreHandoff(Submission(t))
           /\ tasks' = [tasks EXCEPT ![p].at =
                IF preparing THEN "persist" ELSE "intent"]
        \/ /\ StoreHandoffFails(Submission(t)) /\ UNCHANGED repositoryVars
           /\ IF preparing THEN tasks' = [tasks EXCEPT ![p].at = "retry"]
                           ELSE Ends(p)
     /\ UNCHANGED << hostVars, faults >>

CheckpointIntends(p) ==
  /\ tasks[p].at = "intent"
  /\ CheckpointMoves(p, "CheckpointPreparing")
  /\ UNCHANGED << hostVars, faults >>

CheckpointPersists(p) ==
  /\ tasks[p].at = "persist"
  /\ CheckpointMoves(p, "CheckpointPersisted")
  /\ UNCHANGED << hostVars, faults >>

--------------------------------------------------------------------------------
(* rollover, and recover, which rolls over the active operation            *)

StartRollover(p) ==
  /\ tasks[p].at = "idle"
  /\ \E o \in (IF "rollover" \in Offered[p] THEN Operations ELSE {})
              \cup (IF "recover" \in Offered[p] THEN ActiveOperations ELSE {}) :
       tasks' = [tasks EXCEPT ![p] =
         [IdleTask EXCEPT !.kind = "rollover", !.at = "read", !.op = o]]
  /\ UNCHANGED << repositoryVars, hostVars, faults >>

RolloverReads(p) ==
  LET t == tasks[p]
  IN /\ t.at = "read"
     /\ IF Exists(t.op)
          THEN tasks' = [tasks EXCEPT ![p] = WithRow(t, operations[t.op])]
          ELSE Ends(p)
     /\ UNCHANGED << repositoryVars, hostVars, faults >>

AtState(p, state) == tasks[p].at = "rollover" /\ tasks[p].row.state = state

\* Mutant: an unfinished checkpoint is left to the client that began it.
RolloverLeavesCheckpoint(p) ==
  /\ AtState(p, "Idle") \/ AtState(p, "CheckpointPreparing")
  /\ Ends(p)
  /\ UNCHANGED << repositoryVars, hostVars, faults >>

\* An unfinished checkpoint is made again, from the durable handoff and the row's key.
RolloverPrepares(p) ==
  LET t == tasks[p]
  IN /\ AtState(p, "Idle") \/ AtState(p, "CheckpointPreparing")
     /\ IF handoffs[t.op] # None
          THEN tasks' = [tasks EXCEPT ![p].at = "create", ![p].key = t.row.key,
                                      ![p].document = Document(t.op)]
          ELSE Ends(p)
     /\ UNCHANGED << repositoryVars, hostVars, faults >>

RolloverMoves(p, next, successor) ==
  LET t == tasks[p]
  IN /\ \/ /\ Sets(p, next, successor)
           /\ tasks' = [tasks EXCEPT ![p] = WithRow(t, operations'[t.op])]
        \/ Refused(p, next, successor) /\ Ends(p)
     /\ UNCHANGED << hostVars, faults >>

RolloverIntendsCreation(p) ==
  AtState(p, "CheckpointPersisted") /\ RolloverMoves(p, "SuccessorCreating", None)

RolloverIntendsBootstrap(p) ==
  /\ AtState(p, "SuccessorCreated")
  /\ RolloverMoves(p, "BootstrapSending", tasks[p].row.successor)

RolloverSeals(p) ==
  /\ AtState(p, "Acknowledged")
  /\ RolloverMoves(p, "PredecessorSealing", tasks[p].row.successor)

\* Publishing the successor; a failure to waits for a retry.
RolloverPublishes(p) ==
  LET t == tasks[p]
  IN /\ AtState(p, "PredecessorSealing")
     /\ \/ /\ Sets(p, "Completed", t.row.successor)
           /\ Ends(p)
        \/ /\ Refused(p, "Completed", t.row.successor)
           /\ tasks' = [tasks EXCEPT ![p].at = "retry"]
     /\ UNCHANGED << hostVars, faults >>

RolloverResumes(p) ==
  LET row == tasks[p].row
  IN /\ AtState(p, "RetryWait")
     /\ IF row.retryDue
          THEN RolloverMoves(p, row.retryResume, row.successor)
          ELSE Ends(p) /\ UNCHANGED << repositoryVars, hostVars, faults >>

RolloverCancels(p) ==
  AtState(p, "Cancelling") /\ RolloverMoves(p, "Cancelled", tasks[p].row.successor)

--------------------------------------------------------------------------------
(* reconcileSession, and what a rollover and a resume do with the session  *)

CreationRequest(row, o) ==
  [ id |-> None, operation |-> o, predecessor |-> row.predecessor, key |-> row.key,
    provider |-> None ]

\* What follows a failed host call: a rollover records it and waits, a resume returns.
HostFailed(t) ==
  IF t.kind = "resume" THEN IdleTask ELSE [t EXCEPT !.at = "retry"]

\* A rollover being created takes the session as its successor, one being bootstrapped
\* reads the document again if it is the successor's, a resume has the document.
Reconciled(t, session) ==
  IF ~SameBinding(session, CreationRequest(t.row, t.op)) THEN HostFailed(t)
  ELSE IF t.row.state = "SuccessorCreating"
    THEN [t EXCEPT !.session = session, !.at = "created"]
  ELSE IF session.id # t.row.successor THEN IdleTask
  ELSE [t EXCEPT !.session = session,
                 !.at = IF t.kind = "resume" THEN "bootstrapping" ELSE "document"]

\* What validateHandoffAcknowledgement asks of a row and a document that were read apart.
SameChain(row, document) ==
  /\ row.predecessor = document.predecessor
  /\ row.adapter = document.adapter

\* validateBootstrapCompatibility, and for a resume the row's chain too.
Bootstrappable(t, document) ==
  /\ t.session.predecessor = document.predecessor
  /\ t.session.id = document.successor
  /\ t.kind = "resume" => SameChain(t.row, document)

\* The document is sent to the session the task has, or the task ends.
Bootstraps(p, t) ==
  IF t.at = "bootstrapping" /\ ~Bootstrappable(t, t.document)
    THEN Ends(p) /\ HostReturns(p)
    ELSE /\ tasks' = [tasks EXCEPT ![p] = t]
         /\ IF t.at = "bootstrapping"
              THEN RequestsBootstrap(p, t.session, Digest(t.document))
              ELSE HostReturns(p)

\* The key's published session, or, if it has none, a request to create one.
Reconciles(p) ==
  LET t == tasks[p]
      session == SessionOfKey(HostOf[p], t.row.key)
  IN /\ Section(HostOf[p], p)
     /\ Loads(HostOf[p])
     /\ IF session # None
          THEN Bootstraps(p, Reconciled(t, session))
          ELSE /\ tasks' = [tasks EXCEPT ![p].at = "creating"]
               /\ RequestsCreation(p, CreationRequest(t.row, t.op))
     /\ UNCHANGED << repositoryVars, answered, faults >>

RolloverReconciles(p) ==
  (AtState(p, "SuccessorCreating") \/ AtState(p, "BootstrapSending")) /\ Reconciles(p)

SuccessorIsCreated(p) ==
  LET t == tasks[p]
  IN /\ t.at = "creating"
     /\ hostCalls[p].phase = "done"
     /\ Bootstraps(p, Reconciled(t, hostCalls[p].session))
     /\ HostUntouched /\ UNCHANGED << repositoryVars, faults >>

RolloverIntroduces(p) ==
  tasks[p].at = "created"
    /\ RolloverMoves(p, "SuccessorCreated", tasks[p].session.id)

RolloverReadsDocument(p) ==
  LET t == tasks[p]
  IN /\ t.at = "document"
     /\ IF handoffs[t.op] # None
          THEN Bootstraps(p, [t EXCEPT !.at = "bootstrapping",
                                       !.document = Document(t.op)])
          ELSE Ends(p) /\ HostReturns(p)
     /\ HostUntouched /\ UNCHANGED << repositoryVars, faults >>

\* recordRetryBestEffort, with what the host call failed with.
RecordsRetry(p) ==
  LET t == tasks[p]
  IN /\ \/ RecordRetry(t.op, t.row.state)
        \/ RecordRetryFails(t.op, t.row.state) /\ UNCHANGED repositoryVars
     /\ Ends(p)

RolloverRecordsRetry(p) ==
  tasks[p].at = "retry" /\ RecordsRetry(p) /\ UNCHANGED << hostVars, faults >>

HostCallFailed(p) ==
  /\ tasks[p].at \in { "creating", "bootstrapping" }
  /\ hostCalls[p].phase = "failed"
  /\ HostReturns(p) /\ HostUntouched
  /\ IF tasks[p].kind = "resume" THEN Ends(p) /\ UNCHANGED repositoryVars
                                 ELSE RecordsRetry(p)
  /\ UNCHANGED faults

\* Mutant: a bootstrap that failed late is taken for a late success.
AwaitsLateAcknowledgement(p) ==
  LET t == tasks[p]
  IN /\ t.at = "bootstrapping"
     /\ hostCalls[p].phase \in { "done", "failed" }
     /\ Section(HostOf[p], p)
     /\ HostReturns(p) /\ Loads(HostOf[p])
     /\ tasks' = [tasks EXCEPT ![p].at =
          IF t.kind = "resume" THEN "seal" ELSE "acknowledge"]
     /\ UNCHANGED << repositoryVars, answered, faults >>

\* The bootstrap has returned; the call asks for the acknowledgement.
AwaitsAcknowledgement(p) ==
  LET t == tasks[p]
  IN /\ t.at = "bootstrapping"
     /\ hostCalls[p].phase = "done"
     /\ Section(HostOf[p], p)
     /\ HostReturns(p) /\ Loads(HostOf[p])
     /\ tasks' = [tasks EXCEPT ![p] =
          IF ~Acknowledges(HostOf[p], t.session, Digest(t.document)) THEN HostFailed(t)
          ELSE IF t.kind = "resume" THEN [t EXCEPT !.at = "seal"]
          ELSE [t EXCEPT !.at = "acknowledge"]]
     /\ UNCHANGED << repositoryVars, answered, faults >>

\* Mutant: the digest of the checkpoint, made before there was a successor.
AcknowledgementOfCheckpoint(t) ==
  [ successor |-> t.session.id, adapter |-> ThisAdapter,
    digest |-> [ content |-> t.document.content, successor |-> None ] ]

Acknowledgement(t) ==
  [ successor |-> t.session.id, adapter |-> ThisAdapter, digest |-> Digest(t.document) ]

RolloverAcknowledges(p) ==
  LET t == tasks[p]
  IN /\ t.at = "acknowledge"
     /\ \/ /\ Acknowledge(t.op, Acknowledgement(t))
           /\ tasks' = [tasks EXCEPT ![p] = WithRow(t, operations'[t.op])]
        \/ /\ ~AcknowledgeAccepts(t.op, Acknowledgement(t)) /\ UNCHANGED repositoryVars
           /\ Ends(p)
     /\ UNCHANGED << hostVars, faults >>

--------------------------------------------------------------------------------
(* resume                                                                  *)

StartResume(p) ==
  /\ "resume" \in Offered[p]
  /\ tasks[p].at = "idle"
  /\ \E o \in Operations :
       /\ handoffs[o] # None
       /\ tasks' = [tasks EXCEPT ![p] =
            [IdleTask EXCEPT !.kind = "resume", !.at = "resume", !.op = o,
                             !.document = Document(o)]]
  /\ UNCHANGED << repositoryVars, hostVars, faults >>

\* The row must be acknowledged by the successor the client names, on this adapter.
ResumeReads(p) ==
  LET t == tasks[p]
      row == operations[t.op]
  IN /\ t.at = "resume" /\ t.row = None
     /\ IF /\ Exists(t.op)
           /\ row.state \in AcknowledgedStates
           /\ row.successor # None /\ row.acknowledged = row.successor
           /\ row.adapter = ThisAdapter
          THEN tasks' = [tasks EXCEPT ![p].row = Copy(row)]
          ELSE Ends(p)
     /\ UNCHANGED << repositoryVars, hostVars, faults >>

ResumeReconciles(p) ==
  tasks[p].at = "resume" /\ tasks[p].row # None /\ Reconciles(p)

\* An acknowledged row is sealed, a sealed one is published, a published one left.
ResumeSeals(p) ==
  LET t == tasks[p]
      next == IF t.row.state = "Acknowledged" THEN "PredecessorSealing" ELSE "Completed"
  IN /\ t.at = "seal"
     /\ IF t.row.state = "Completed" THEN Ends(p) /\ UNCHANGED repositoryVars
        ELSE \/ /\ Sets(p, next, t.row.successor)
                /\ IF operations'[t.op].state = "PredecessorSealing"
                     THEN tasks' = [tasks EXCEPT ![p].row = Copy(operations'[t.op])]
                     ELSE Ends(p)
             \/ Refused(p, next, t.row.successor) /\ Ends(p)
     /\ UNCHANGED << hostVars, faults >>

--------------------------------------------------------------------------------
(* recover without resuming, acknowledgeHandoff, resetProjectContinuity    *)

StartCancelRecovery(p) ==
  /\ "cancel recovery" \in Offered[p]
  /\ tasks[p].at = "idle"
  /\ \E o \in ActiveOperations :
       tasks' = [tasks EXCEPT ![p] =
         [IdleTask EXCEPT !.kind = "cancel recovery", !.at = "cancelling", !.op = o,
                          !.row = Copy(operations[o])]]
  /\ UNCHANGED << repositoryVars, hostVars, faults >>

RecoveryCancels(p) ==
  LET t == tasks[p]
      next == IF t.row.state = "Cancelling" THEN "Cancelled" ELSE "Cancelling"
  IN /\ t.at = "cancelling"
     /\ \/ /\ Sets(p, next, t.row.successor)
           /\ IF next = "Cancelling"
                THEN tasks' = [tasks EXCEPT ![p].row = Copy(operations'[t.op])]
                ELSE Ends(p)
        \/ Refused(p, next, t.row.successor) /\ Ends(p)
     /\ UNCHANGED << hostVars, faults >>

\* A client acknowledges the handoff it was given.
ClientAcknowledges ==
  /\ \E p \in Calls : "acknowledge" \in Offered[p]
  /\ \E o \in Operations, ack \in Acknowledgements : Acknowledge(o, ack)
  /\ UNCHANGED << hostVars, tasks, faults >>

ProjectReset ==
  /\ \E p \in Calls : "reset" \in Offered[p]
  /\ ResetContinuity
  /\ UNCHANGED << hostVars, tasks, faults >>

--------------------------------------------------------------------------------
(* The host, faults and time                                               *)

\* Session ids the project's tables, the callers' documents and the calls use.
KnownSessions ==
  { operations[o].predecessor : o \in { q \in Operations : Exists(q) } }
    \cup { operations[o].successor : o \in { q \in Operations : Exists(q) } }
    \cup { r.predecessor : r \in Submitted }
    \cup { tasks[p].session.id : p \in { q \in Calls : tasks[q].session # None } }

HostWorks(p) ==
  HostStep(p, KnownSessions) /\ UNCHANGED << repositoryVars, tasks, faults >>

HostFalters(p) ==
  /\ Fault("host")
  /\ \/ CallFails(p) /\ UNCHANGED tasks
     \/ /\ AtState(p, "SuccessorCreating") \/ AtState(p, "BootstrapSending")
        /\ tasks' = [tasks EXCEPT ![p].at = "retry"]
        /\ UNCHANGED hostVars
     \/ /\ tasks[p].at = "bootstrapping" /\ hostCalls[p].phase = "done"
        /\ tasks' = [tasks EXCEPT ![p] = HostFailed(tasks[p])]
        /\ HostReturns(p) /\ HostUntouched
  /\ UNCHANGED repositoryVars

\* A transaction fails whose failure the call answers with a retry.
DatabaseFalters(p) ==
  /\ Fault("database")
  /\ \/ AtState(p, "PredecessorSealing")
     \/ tasks[p].at = "checkpoint" /\ tasks[p].row.state = "CheckpointPreparing"
  /\ tasks' = [tasks EXCEPT ![p].at = "retry"]
  /\ UNCHANGED << repositoryVars, hostVars >>

\* The call is cancelled, expires, is shut down, or any transaction of it fails.
Abandon(p) ==
  /\ Fault("abandon")
  /\ tasks[p].at # "idle"
  /\ committing[HostOf[p]] # p
  /\ Ends(p) /\ HostReturns(p) /\ HostUntouched
  /\ UNCHANGED repositoryVars

HostIsCancelled ==
  /\ Fault("cancel")
  /\ \E p \in Calls : Cancel(p)
  /\ UNCHANGED << repositoryVars, tasks >>

ProcessRestarts(h) ==
  /\ Fault("restart")
  /\ Restart(h)
  /\ tasks' = [p \in Calls |-> IF HostOf[p] = h THEN IdleTask ELSE tasks[p]]
  /\ UNCHANGED repositoryVars

\* The rows the calls hold fall due together with the durable ones.
TimePasses ==
  /\ RetryTimePasses
  /\ tasks' = [p \in Calls |->
       IF tasks[p].row # None /\ tasks[p].row.state = "RetryWait"
         THEN [tasks[p] EXCEPT !.row.retryDue = TRUE] ELSE tasks[p]]
  /\ UNCHANGED << hostVars, faults >>

--------------------------------------------------------------------------------
Init ==
  /\ RepositoryInit
  /\ HostInit
  /\ tasks = [p \in Calls |-> IdleTask]
  /\ faults = 0

\* The next step of a call that has started.
Proceed(p) ==
  \/ CheckpointCreates(p)
  \/ CheckpointResumes(p)
  \/ CheckpointStores(p)
  \/ CheckpointIntends(p)
  \/ CheckpointPersists(p)
  \/ RolloverReads(p)
  \/ RolloverPrepares(p)
  \/ RolloverIntendsCreation(p)
  \/ RolloverReconciles(p)
  \/ SuccessorIsCreated(p)
  \/ RolloverIntroduces(p)
  \/ RolloverIntendsBootstrap(p)
  \/ RolloverReadsDocument(p)
  \/ AwaitsAcknowledgement(p)
  \/ RolloverAcknowledges(p)
  \/ RolloverSeals(p)
  \/ RolloverPublishes(p)
  \/ RolloverResumes(p)
  \/ RolloverCancels(p)
  \/ RolloverRecordsRetry(p)
  \/ HostCallFailed(p)
  \/ ResumeReads(p)
  \/ ResumeReconciles(p)
  \/ ResumeSeals(p)
  \/ RecoveryCancels(p)
  \/ HostWorks(p)

Next ==
  \/ \E p \in Calls :
       \/ StartCheckpoint(p)
       \/ StartRollover(p)
       \/ StartResume(p)
       \/ StartCancelRecovery(p)
       \/ Proceed(p)
       \/ HostFalters(p)
       \/ DatabaseFalters(p)
       \/ Abandon(p)
  \/ \E h \in Hosts : ProcessRestarts(h)
  \/ HostIsCancelled
  \/ ClientAcknowledges
  \/ ProjectReset
  \/ TimePasses

Spec == Init /\ [][Next]_vars

\* A call that has started is run on; the Manager's maintenance keeps calling recover;
\* time passes.  Nothing is assumed of clients, and faults may happen at any time.
Fairness ==
  /\ \A p \in Calls : WF_vars(Proceed(p))
  /\ \A p \in { q \in Calls : "recover" \in Offered[q] } : WF_vars(StartRollover(p))
  /\ WF_vars(TimePasses)

FairSpec == Spec /\ Fairness

--------------------------------------------------------------------------------
(* Properties                                                              *)

\* The calls keep their types, whatever they are interrupted by; a call that looks at its
\* row holds no session and no document of an earlier step.
TaskTypeOK ==
  /\ tasks \in [Calls -> Tasks]
  /\ \A p \in Calls :
       tasks[p].at = "rollover" =>
         tasks[p].row # None /\ tasks[p].session = None /\ tasks[p].document = None
  /\ faults \in 0 .. MaxFaults

\* No client acknowledging, a rollover counts as acknowledged only if the provider has
\* acknowledged exactly the recorded successor with exactly the recorded document, no
\* matter which calls, retries, restarts and processes drove it there.
AcknowledgedMeansAnswered ==
  \A o \in Operations :
    Exists(o) /\ Stage(operations[o]) \in AcknowledgedStates =>
      [ session |-> operations[o].successor, key |-> operations[o].key,
        digest |-> Digest(handoffs[o]) ] \in answered

\* The recorded successor is the session the host's file has for the rollover's key: a
\* call after any crash finds the same session again.
SuccessorIsHosts ==
  \A o \in Operations :
    Exists(o) /\ operations[o].successor # None =>
      LET record == durable[operations[o].key]
      IN /\ record # None
         /\ record.session.id = operations[o].successor
         /\ record.session.operation = o

\* A rollover's key introduces its work to one session only, and tells it one document
\* only: not by retries, several callers or processes, and not when the project is reset
\* and the key is used again for another document.
IntroducedOnce ==
  \A a, b \in answered : a.key = b.key => a = b

\* What a client has acknowledged and what the host has bound the successor to are the
\* same document, even when clients disagree on it and acknowledge while it is sent.
BoundAsAcknowledged ==
  \A o \in Operations :
    Exists(o) /\ Stage(operations[o]) \in AcknowledgedStates =>
      LET record == durable[operations[o].key]
      IN record # None /\ record.session.id = operations[o].successor =>
           record.digest \in { None, Digest(handoffs[o]) }

\* A call that goes on with a rollover whose successor is recorded finds that successor
\* at its host: "The reconciled host successor differs from the durable successor", after
\* which no call can finish the rollover, never happens.
SuccessorFound ==
  \A p \in Calls :
    LET t == tasks[p]
        found == SessionOfKey(HostOf[p], t.row.key)
    IN t.op # None /\ Exists(t.op) /\ t.row = Copy(operations[t.op]) =>
         /\ AtState(p, "BootstrapSending") /\ found # None
              => found.id = t.row.successor
         /\ t.at = "creating" /\ hostCalls[p].phase = "done"
                 /\ t.row.state # "SuccessorCreating"
              => hostCalls[p].session.id = t.row.successor

\* The acknowledgement a call has obtained is refused only because another caller has
\* moved the row, or has reset the project, meanwhile, never because it does not fit the
\* row and the document it was obtained for.  The row is one of this adapter, and has a
\* transition left: those are refused whatever the call has obtained.
AcknowledgementFits ==
  \A p \in Calls :
    LET t == tasks[p]
    IN /\ t.at = "acknowledge"
       /\ Exists(t.op) /\ Copy(operations[t.op]) = t.row
       /\ handoffs[t.op] # None /\ Document(t.op) = t.document
       /\ t.row.adapter = ThisAdapter
       /\ operations[t.op].attempt < MaxTransitions - 1
       => AcknowledgeAccepts(t.op, Acknowledgement(t))

\* A rollover that has begun ends, though its calls fail, are abandoned, or die with
\* their process.
EveryRolloverEnds ==
  \A o \in Operations : (o \in ActiveOperations) ~> (o \notin ActiveOperations)

\* "late prior-generation work" may not recreate reset data: only a client's checkpoint
\* inserts a rollover.
OnlyClientsBegin ==
  [][ \A o \in Operations :
        operations[o] = None /\ operations'[o] # None =>
          \E p \in Calls : tasks[p].kind = "checkpoint" /\ tasks[p].at = "create"
    ]_vars

\* Recovery that gives up unfinished work can do so in every state it finds it in,
\* unless another caller moves the row first or its transitions are used up.
RecoveryCanCancel ==
  \A p \in Calls :
    LET t == tasks[p]
    IN /\ t.at = "cancelling" /\ t.row.state # "Cancelling"
       /\ Exists(t.op) /\ Copy(operations[t.op]) = t.row
       /\ operations[t.op].attempt < MaxTransitions - 1
       => Settable(t.op, t.row.state, "Cancelling", t.row.successor)

================================================================================

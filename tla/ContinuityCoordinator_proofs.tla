---------------------- MODULE ContinuityCoordinator_proofs ----------------------
(***************************************************************************)
(* Proofs about ContinuityCoordinator: whatever calls, faults and          *)
(* processes there are, its steps are steps of the repository and sections *)
(* of the host, so that what is proved of each of them holds of the two    *)
(* together.  The invariant says what a call has in its hands at each      *)
(* point: the copies it acts on fit one another and the host call it waits *)
(* for, however old they are.  What tables, calls and ledgers say of each  *)
(* other (acknowledgements, bindings, successors) rests on where each of   *)
(* them has what it holds from: a row from a call, a call's copies from    *)
(* rows and ledgers, a ledger's records from calls.                        *)
(***************************************************************************)
EXTENDS ContinuityCoordinator, SessionHandover_proofs, NativeSessionHost_proofs

USE MaxTransitionsAssumption, NoneAssumption

\* What a call needs at each point.
NeedsRow == Points \ { "idle", "create", "read", "resume" }

NeedsSession == { "created", "document", "bootstrapping", "acknowledge", "seal" }

NeedsDocument ==
  { "create", "checkpoint", "intent", "persist", "bootstrapping", "acknowledge",
    "resume", "seal" }

\* The session a rollover goes on with was created for its row.
ForItsRow(t) ==
  /\ SameBinding(t.session, CreationRequest(t.row, t.op))
  /\ t.at = "created" => t.kind = "rollover" /\ t.row.state = "SuccessorCreating"
  /\ t.at # "created" =>
       /\ t.kind # "resume" => t.row.state = "BootstrapSending"
       /\ t.session.id = t.row.successor

Creating == { "intent", "create", "publish" }

Bootstrapped == { "bind", "query", "rebind", "send", "finish" }

\* The host call a coordinator call waits for is the one it made.
WaitsFor(t, call) ==
  /\ t.at = "creating" =>
       /\ call.phase \in Creating \cup { "done", "failed" }
       /\ call.session # None /\ call.session.key = t.row.key
       /\ call.phase = "done" =>
            call.session.id \in Sessions /\ call.session.provider # None
  /\ t.at = "bootstrapping" =>
       /\ call.phase \in Bootstrapped \cup { "done", "failed" }
       /\ call.session = t.session /\ call.digest = Digest(t.document)

TaskOK(t, call, acks) ==
  /\ t.at # "idle" => t.op \in Operations
  /\ t.at \in NeedsRow => t.row # None
  /\ t.at \in NeedsSession => t.session # None
  /\ t.at \in NeedsDocument => t.document # None
  /\ t.at \in { "create", "checkpoint", "intent", "persist" } => t.key \in Keys
  /\ t.at = "create" => t.kind = "checkpoint" \/ t.row # None
  /\ t.at = "cancelling" => t.row.state \notin TerminalStates
  /\ t.at = "rollover" => t.session = None /\ t.document = None
  /\ t.at \in { "read", "rollover", "created", "document", "acknowledge" } =>
       t.kind = "rollover"
  /\ t.at = "creating" /\ t.kind # "resume" =>
       t.row.state \in { "SuccessorCreating", "BootstrapSending" }
  /\ t.at \in { "creating", "bootstrapping", "resume", "seal" } /\ t.kind = "resume"
       /\ t.row # None =>
       t.row.state \in AcknowledgedStates
  /\ t.at \in { "creating", "bootstrapping" } => t.kind \in { "rollover", "resume" }
  /\ t.at = "creating" /\ t.kind = "resume" => t.document # None
  /\ t.at \in { "resume", "seal" } => t.kind = "resume"
  /\ t.session # None => t.session.id \in Sessions /\ t.session.provider # None
  /\ t.at \in { "created", "document", "bootstrapping", "acknowledge" } => ForItsRow(t)
  /\ t.at \in { "bootstrapping", "acknowledge" } => t.session.id = t.document.successor
  /\ t.at = "acknowledge" => Answer(t.session, Digest(t.document)) \in acks
  /\ WaitsFor(t, call)

TasksOK ==
  /\ tasks \in [Calls -> Tasks]
  /\ \A p \in Calls : TaskOK(tasks[p], hostCalls[p], answered)

\* A session id belongs to one key, whoever holds it, coordinator calls included.
NamedInTask(id, key) ==
  \E p \in Calls :
    /\ tasks[p].session # None
    /\ tasks[p].session.id = id /\ tasks[p].session.key = key

Held(id, key) == Named(id, key) \/ NamedInTask(id, key)

OneKeyPerSession ==
  \A id \in Sessions : \A j, k \in Keys : Held(id, j) /\ Held(id, k) => j = k

\* An acknowledgement on a handoff is on its row.
AcknowledgedTogether ==
  \A o \in Operations :
    handoffs[o] # None /\ handoffs[o].acknowledged # None =>
      operations[o] # None /\ operations[o].acknowledged = handoffs[o].acknowledged

CoordinatorInv ==
  /\ HInv
  /\ AcknowledgedTogether
  /\ HostInv
  /\ TasksOK
  /\ OneKeyPerSession
  /\ faults \in 0 .. MaxFaults

--------------------------------------------------------------------------------
(* The copies a call works on                                              *)

\* What a call's record holds.
LEMMA TaskFields ==
  ASSUME NEW t \in Tasks
  PROVE  /\ t.kind \in { "idle", "checkpoint", "rollover", "resume", "cancel recovery" }
         /\ t.at \in Points
         /\ t.op \in Operations \cup {None} /\ t.key \in Keys \cup {None}
         /\ t.row # None => t.row \in OperationRows
         /\ t.document # None => t.document \in Documents
         /\ t.session # None => t.session \in HostSessions
BY DEF Tasks

\* The copy of a row is the row, but for its transition count.
LEMMA CopyFields ==
  ASSUME NEW row \in OperationRows
  PROVE  /\ Copy(row) \in OperationRows /\ Copy(row) # None
         /\ Copy(row).state = row.state
         /\ Copy(row).predecessor = row.predecessor
         /\ Copy(row).adapter = row.adapter
         /\ Copy(row).key = row.key
         /\ Copy(row).successor = row.successor
<1>1. Copy(row) \in OperationRows
  BY DEF Copy, OperationRows
<1> QED
  BY <1>1 DEF Copy, OperationRows

\* A caller without a call needs nothing.
LEMMA IdleTaskOK == IdleTask \in Tasks /\ \A call, acks : TaskOK(IdleTask, call, acks)
<1>1. IdleTask \in Tasks
  BY DEF IdleTask, Tasks, Points
<1>2. IdleTask.at = "idle" /\ IdleTask.session = None
  BY DEF IdleTask
<1> QED
  BY <1>1, <1>2 DEF TaskOK, NeedsRow, NeedsSession, NeedsDocument, WaitsFor

\* A rollover that looks at its row holds nothing else.
LEMMA WithRowOK ==
  ASSUME NEW t \in Tasks, t.kind = "rollover", t.op \in Operations,
         NEW row \in OperationRows
  PROVE  /\ WithRow(t, row) \in Tasks
         /\ \A call, acks : TaskOK(WithRow(t, row), call, acks)
<1> DEFINE n == [ kind |-> "rollover", at |-> "rollover", op |-> t.op, key |-> None,
                  row |-> Copy(row), document |-> None, session |-> None ]
<1>1. WithRow(t, row) = IdleTask \/ WithRow(t, row) = n
  BY DEF WithRow, IdleTask
<1>2. Copy(row) \in OperationRows /\ Copy(row) # None
  BY CopyFields
<1>3. n \in Tasks
  BY <1>2 DEF Tasks, Points
<1>4. /\ n.at = "rollover" /\ n.kind = "rollover" /\ n.op \in Operations
      /\ n.row # None /\ n.session = None /\ n.document = None
  BY <1>2
<1> HIDE DEF n
<1>5. \A call, acks : TaskOK(n, call, acks)
  BY <1>4 DEF TaskOK, NeedsRow, NeedsSession, NeedsDocument, WaitsFor
<1> QED
  BY <1>1, <1>3, <1>5, IdleTaskOK

\* A checkpoint that looks at its row keeps the key and the document it was given.
LEMMA CheckpointWithRowOK ==
  ASSUME NEW t \in Tasks, t.op \in Operations, t.key \in Keys, t.document # None,
         t.session # None => t.session.id \in Sessions /\ t.session.provider # None,
         NEW row \in OperationRows
  PROVE  /\ CheckpointWithRow(t, row) \in Tasks
         /\ \A call, acks : TaskOK(CheckpointWithRow(t, row), call, acks)
<1> DEFINE n == [t EXCEPT !.row = Copy(row), !.at = "checkpoint"]
<1>1. \/ CheckpointWithRow(t, row) = IdleTask
      \/ CheckpointWithRow(t, row) = n
      \/ t.kind = "rollover" /\ CheckpointWithRow(t, row) = WithRow(t, row)
  BY DEF CheckpointWithRow
<1>2. PICK c \in OperationRows : c = Copy(row) /\ c # None
  BY CopyFields
<1>3. n = [t EXCEPT !.row = c, !.at = "checkpoint"]
  BY <1>2
<1> HIDE DEF n
<1>4. n \in Tasks
  BY <1>3 DEF Tasks, Points
<1>5. /\ n.at = "checkpoint" /\ n.op \in Operations /\ n.key \in Keys
      /\ n.row # None /\ n.session = t.session /\ n.document # None
  BY <1>2, <1>3 DEF Tasks
<1>6. \A call, acks : TaskOK(n, call, acks)
  BY <1>5 DEF TaskOK, NeedsRow, NeedsSession, NeedsDocument, WaitsFor
<1> QED
  BY <1>1, <1>4, <1>6, IdleTaskOK, WithRowOK

\* A call may wait for a retry at any point at which it has a row.
LEMMA RetryTaskOK ==
  ASSUME NEW t \in Tasks, t.op \in Operations, t.row # None,
         t.session # None => t.session.id \in Sessions /\ t.session.provider # None
  PROVE  /\ [t EXCEPT !.at = "retry"] \in Tasks
         /\ \A call, acks : TaskOK([t EXCEPT !.at = "retry"], call, acks)
<1> DEFINE n == [t EXCEPT !.at = "retry"]
<1>1. n \in Tasks /\ n.at = "retry" /\ n.op = t.op /\ n.row = t.row
      /\ n.session = t.session
  BY DEF Tasks, Points
<1> HIDE DEF n
<1>2. \A call, acks : TaskOK(n, call, acks)
  BY <1>1 DEF TaskOK, NeedsRow, NeedsSession, NeedsDocument, WaitsFor
<1> QED
  BY <1>1, <1>2 DEF n

\* A failed host call leaves a rollover waiting and ends a resume.
LEMMA HostFailedOK ==
  ASSUME NEW t \in Tasks, t.op \in Operations, t.row # None,
         t.session # None => t.session.id \in Sessions /\ t.session.provider # None
  PROVE  /\ HostFailed(t) \in Tasks
         /\ HostFailed(t).at \in { "idle", "retry" }
         /\ \A call, acks : TaskOK(HostFailed(t), call, acks)
<1>1. CASE t.kind = "resume"
  <2>1. HostFailed(t) = IdleTask /\ IdleTask.at = "idle"
    BY <1>1 DEF HostFailed, IdleTask
  <2> QED
    BY <2>1, IdleTaskOK
<1>2. CASE t.kind # "resume"
  <2>1. HostFailed(t) = [t EXCEPT !.at = "retry"] /\ [t EXCEPT !.at = "retry"].at = "retry"
    BY <1>2 DEF HostFailed, Tasks
  <2>2. /\ [t EXCEPT !.at = "retry"] \in Tasks
        /\ \A call, acks : TaskOK([t EXCEPT !.at = "retry"], call, acks)
    BY RetryTaskOK
  <2> QED
    BY <2>1, <2>2
<1> QED
  BY <1>1, <1>2

\* The document of an operation, read from its row and its handoff.
LEMMA DocumentFields ==
  ASSUME IInv, NEW o \in Operations, handoffs[o] # None
  PROVE  /\ Exists(o) /\ Document(o) \in Documents /\ Document(o) # None
         /\ Document(o).content = handoffs[o].content
         /\ Document(o).successor = handoffs[o].successor
<1>1. /\ Exists(o) /\ operations[o] \in OperationRows /\ handoffs[o] \in HandoffRows
  BY DEF IInv, TypeOK, HandoffWithOperation, Exists
<1>2. /\ Document(o) \in Documents
      /\ Document(o).content = handoffs[o].content
      /\ Document(o).successor = handoffs[o].successor
  BY <1>1 DEF Document, Documents, OperationRows, HandoffRows
<1> QED
  BY <1>1, <1>2, DocumentNoneAssumption

--------------------------------------------------------------------------------
(* The transactions of a call are the repository's                         *)

RepositoryStep == [RepositoryNext]_repositoryVars

\* A step of the repository keeps its invariant, and so the type of a row it leaves.
LEMMA RepositoryStepOK ==
  ASSUME HInv, RepositoryStep
  PROVE  /\ HInv'
         /\ \A o \in Operations : operations'[o] # None => operations'[o] \in OperationRows
<1>1. HInv'
  BY StepKeeps, EarlyKeeps DEF HInv, RepositoryStep
<1> QED
  BY <1>1 DEF HInv, IInv, TypeOK

\* What a call submits is a request.
LEMMA SubmissionOK ==
  ASSUME NEW t \in Tasks, t.op \in Operations, t.key \in Keys, t.document # None
  PROVE  Submission(t) \in Requests /\ Submission(t).operation = t.op
<1>1. t.document \in Documents
  BY TaskFields
<1> QED
  BY <1>1 DEF Submission, Requests, Documents

\* Created or found, the operation a call has asked for has a row.
LEMMA CreateResult ==
  ASSUME HInv, NEW r \in Requests, CreateOperation(r)
  PROVE  RepositoryStep /\ operations'[r.operation] \in OperationRows
<1>1. RepositoryStep
  BY DEF RepositoryStep, RepositoryNext
<1>2. operations \in [Operations -> OperationRows \cup {None}] /\ r.operation \in Operations
  BY DEF HInv, IInv, TypeOK, Requests
<1>3. CASE CreateFinds(r) /\ UNCHANGED repositoryVars
  <2>1. PICK o \in OperationsWithKey(r.key) : r.operation = o
    BY <1>3 DEF CreateFinds, MatchesRow
  <2>2. operations[r.operation] # None /\ operations' = operations
    BY <1>3, <2>1 DEF OperationsWithKey, Exists, repositoryVars
  <2> QED
    BY <1>1, <1>2, <2>2
<1>4. CASE operations' = [operations EXCEPT ![r.operation] = CreatedRow(r)]
  <2>1. CreatedRow(r) \in OperationRows
    BY DEF CreatedRow, Requests, OperationRows, ContinuityStates
  <2> QED
    BY <1>1, <1>2, <1>4, <2>1
<1> QED
  BY <1>3, <1>4 DEF CreateOperation

\* A call stores its handoff.
LEMMA StoreResult ==
  ASSUME NEW r \in Requests, StoreHandoff(r)
  PROVE  RepositoryStep
BY DEF RepositoryStep, RepositoryNext

\* Whatever state a call expects its row in, a compare-and-set leaves it in the next.
LEMMA SetResult ==
  ASSUME HInv, NEW o \in Operations, NEW expected, NEW next,
         NEW successor \in Sessions \cup {None},
         CompareAndSet(o, expected, next, successor)
  PROVE  /\ RepositoryStep
         /\ operations'[o] \in OperationRows
         /\ operations'[o].state = next
<1>1. Exists(o) /\ operations[o] \in OperationRows
  BY DEF CompareAndSet, AlreadySet, Settable, Exists, HInv, IInv, TypeOK
<1>2. CASE UNCHANGED repositoryVars /\ AlreadySet(o, next, successor)
  BY <1>1, <1>2 DEF AlreadySet, RepositoryStep, repositoryVars
<1>3. CASE Settable(o, expected, next, successor)
  <2>1. expected = operations[o].state /\ next \in ContinuityStates
    BY <1>3 DEF Settable, AllowedTransition, ForwardEdges, RetryResumeStates, ContinuityStates
  <2>2. CompareAndSet(o, operations[o].state, next, successor)
    BY <2>1
  <2>3. RepositoryStep
    BY <1>1, <2>1, <2>2 DEF RepositoryStep, RepositoryNext
  <2>4. CASE ~UNCHANGED repositoryVars
    BY <1>1, <2>1, <2>2, <2>3, <2>4, SetMoves DEF HInv
  <2>5. CASE UNCHANGED repositoryVars /\ AlreadySet(o, next, successor)
    BY <2>5, <1>2
  <2>6. CASE UNCHANGED repositoryVars /\ ~AlreadySet(o, next, successor)
    <3>1. operations' = [operations EXCEPT ![o] =
            Moved(operations[o], next, 1, ChosenSuccessor(o, successor),
                  operations[o].acknowledged, None)]
      BY <2>6 DEF CompareAndSet
    <3>2. operations'[o].state = next
      BY <3>1 DEF Moved, HInv, IInv, TypeOK
    <3> QED
      BY <1>1, <2>3, <2>6, <3>2 DEF repositoryVars
  <2> QED
    BY <2>4, <2>5, <2>6
<1> QED
  BY <1>2, <1>3 DEF CompareAndSet

\* A retry is recorded for a state a rollover may resume in.
LEMMA RetryResult ==
  ASSUME HInv, NEW o \in Operations, NEW resume \in ContinuityStates, RecordRetry(o, resume)
  PROVE  RepositoryStep
<1>1. resume \in RetryResumeStates
  BY DEF RecordRetry, RefreshesRetry, EntersRetry, HInv, IInv, TypeOK, Exists, OperationRows
<1> QED
  BY <1>1 DEF RepositoryStep, RepositoryNext

\* An acknowledgement names the session and the document a call has sent.
LEMMA AcknowledgeResult ==
  ASSUME HInv, NEW t \in Tasks, t.op \in Operations, t.session # None, t.document # None,
         t.session.id \in Sessions
  PROVE  /\ Acknowledgement(t) \in Acknowledgements
         /\ Acknowledge(t.op, Acknowledgement(t)) =>
              RepositoryStep /\ operations'[t.op] \in OperationRows
<1>1. Acknowledgement(t) \in Acknowledgements
  BY AdapterAssumption, TaskFields
  DEF Acknowledgement, Acknowledgements, Digest, Digests, Documents
<1>2. ASSUME Acknowledge(t.op, Acknowledgement(t))
      PROVE  RepositoryStep /\ operations'[t.op] \in OperationRows
  <2>1. RepositoryStep
    BY <1>1, <1>2 DEF RepositoryStep, RepositoryNext
  <2>2. operations[t.op] # None
    BY <1>2 DEF Acknowledge, AcknowledgeAccepts, Exists
  <2>3. operations'[t.op] # None
    BY <1>1, <1>2, <2>2, AcknowledgeMoves DEF HInv, repositoryVars
  <2> QED
    BY <2>1, <2>3, RepositoryStepOK
<1> QED
  BY <1>1, <1>2

--------------------------------------------------------------------------------
(* What a host call does while its caller waits                            *)

\* A creation keeps the key it was asked for until it is done or has failed.
CreationGoesOn(p) ==
  LET call == hostCalls[p]
      next == hostCalls'[p]
  IN /\ next.phase \in Creating \cup { "done", "failed" }
     /\ next.session # None
     /\ next.session.key = call.session.key
     /\ next.phase = "done" => next.session.id \in Sessions /\ next.session.provider # None

BootstrapGoesOn(p) ==
  LET call == hostCalls[p]
      next == hostCalls'[p]
  IN /\ next.phase \in Bootstrapped \cup { "done", "failed" }
     /\ next.session = call.session /\ next.digest = call.digest

\* Every step of a host call goes on with the creation, or the bootstrap, it began as.
LEMMA HostStepMoves ==
  ASSUME HostInv, NEW p \in Calls, NEW known, HostStep(p, known)
  PROVE  /\ hostCalls' = [hostCalls EXCEPT ![p] = hostCalls'[p]]
         /\ \/ hostCalls[p].phase \in Creating /\ CreationGoesOn(p)
            \/ hostCalls[p].phase \in Bootstrapped /\ BootstrapGoesOn(p)
<1> DEFINE call == hostCalls[p]
<1> DEFINE next == hostCalls'[p]
<1> DEFINE L == Loaded(HostOf[p])
<1>1. /\ HostTypeOK /\ call \in HostCalls /\ HostOf[p] \in Hosts
      /\ LedgerOK(L, answered) /\ CallOK(call, answered)
  BY HostOfAssumption, LoadedOK DEF HostInv, HostTypeOK, CallsOK
<1>2. hostCalls' = [hostCalls EXCEPT ![p] = next]
  <2>1. CallOutside(p) \/ \E ledger : CallSection(p, ledger)
    BY HostStepKinds
  <2> QED
    BY <2>1 DEF CallOutside, CallSection
<1> SUFFICES \/ call.phase \in Creating /\ CreationGoesOn(p)
             \/ call.phase \in Bootstrapped /\ BootstrapGoesOn(p)
  BY <1>2
<1>3. ASSUME NEW phase \in Phases, Goes(p, phase)
      PROVE  next.phase = phase /\ next.session = call.session /\ next.digest = call.digest
  BY <1>1, <1>3, GoesFacts
<1>4. ASSUME NEW ledger, NEW phase \in Phases, Saves(p, ledger, phase)
      PROVE  /\ next.phase \in { phase, "failed" } /\ next.session = call.session
             /\ next.digest = call.digest
  BY <1>3, <1>4 DEF Saves, Phases
<1>5. CASE CreateFindsRecord(p)
  <2>1. call.phase = "intent" /\ call.session # None
    BY <1>1, <1>5 DEF CreateFindsRecord, CallOK
  <2>2. CASE Goes(p, "failed")
    BY <1>3, <2>1, <2>2 DEF CreationGoesOn, Creating, Phases
  <2>3. CASE /\ SameBinding(L[call.session.key].session, call.session)
             /\ L[call.session.key] # None
             /\ hostCalls' = [hostCalls EXCEPT ![p] =
                  [@ EXCEPT !.session = L[call.session.key].session,
                            !.phase = IF L[call.session.key].session.provider # None
                                        THEN "done" ELSE "create"]]
    <3> DEFINE s == L[call.session.key].session
    <3>1. call.session \in HostSessions /\ call.session.key \in KeysOf(L)
      BY <1>1, <2>1, <2>3 DEF HostCalls, HostSessions, KeysOf
    <3>2. s # None /\ s.id \in Sessions
      BY <1>1, <3>1, RecordFacts
    <3>3. /\ next.session = s
          /\ next.phase = IF s.provider # None THEN "done" ELSE "create"
      BY <1>1, <2>3 DEF HostTypeOK, HostCalls
    <3>4. SameBinding(s, call.session)
      BY <2>3
    <3> HIDE DEF s
    <3> QED
      BY <2>1, <3>2, <3>3, <3>4 DEF CreationGoesOn, Creating, SameBinding
  <2> QED
    BY <1>5, <2>2, <2>3 DEF CreateFindsRecord
<1>6. CASE CreateRecordsIntent(p, known)
  <2>1. call.phase = "intent" /\ call.session # None
    BY <1>1, <1>6 DEF CreateRecordsIntent, CallOK
  <2>2. CASE Goes(p, "failed")
    BY <1>3, <2>1, <2>2 DEF CreationGoesOn, Creating, Phases
  <2>3. CASE \E s \in FreshSessions(known) : hostCalls' = [hostCalls EXCEPT ![p] =
                  [@ EXCEPT !.phase = "create",
                            !.session = [call.session EXCEPT !.id = s]]]
    <3>1. PICK s \in FreshSessions(known) : hostCalls' = [hostCalls EXCEPT ![p] =
                  [@ EXCEPT !.phase = "create",
                            !.session = [call.session EXCEPT !.id = s]]]
      BY <2>3
    <3>2. s \in Sessions
      BY DEF FreshSessions
    <3>3. call.session \in HostSessions
      BY <1>1, <2>1 DEF HostCalls
    <3> DEFINE n == [call.session EXCEPT !.id = s]
    <3>4. /\ n \in HostSessions /\ n.operation = call.session.operation
          /\ n.predecessor = call.session.predecessor /\ n.key = call.session.key
      BY <3>2, <3>3 DEF HostSessions
    <3>5. next.session = n /\ next.phase = "create"
      BY <1>1, <3>1 DEF HostTypeOK, HostCalls
    <3> HIDE DEF n
    <3> QED
      BY <2>1, <3>4, <3>5, HostNoneAssumption DEF CreationGoesOn, Creating, SameBinding
  <2> QED
    BY <1>6, <2>2, <2>3 DEF CreateRecordsIntent
<1>7. CASE ProviderCreates(p)
  <2>1. call.phase = "create" /\ call.session # None
    BY <1>1, <1>7 DEF ProviderCreates, CallOK
  <2>2. Goes(p, "publish")
    BY <1>7 DEF ProviderCreates
  <2> QED
    BY <1>3, <2>1, <2>2 DEF CreationGoesOn, Creating, Phases
<1>8. CASE Publish(p)
  <2>1. call.phase = "publish" /\ call.session # None /\ call.session \in HostSessions
    BY <1>1, <1>8 DEF Publish, CallOK, HostCalls
  <2>2. CASE next.phase = "failed" /\ next.session = call.session
    BY <2>1, <2>2 DEF CreationGoesOn, Creating
  <2> DEFINE k == call.session.key
  <2>3. CASE /\ L[k] # None /\ L[k].session.id = call.session.id
             /\ hostCalls' = [hostCalls EXCEPT ![p] =
                  [@ EXCEPT !.phase = "done",
                            !.session = [L[k] EXCEPT !.session.provider = Pending,
                                                     !.status = "Active"].session]]
    <3>1. k \in KeysOf(L)
      BY <2>1, <2>3 DEF HostSessions, KeysOf
    <3>2. L[k] \in Records /\ L[k].session \in HostSessions /\ L[k].session.id \in Sessions
      BY <1>1, <3>1, RecordFacts
    <3>3. next.phase = "done" /\ next.session = [L[k].session EXCEPT !.provider = Pending]
      BY <1>1, <2>3, <3>2 DEF HostTypeOK, HostCalls, Records
    <3>4. /\ next.session.key = k /\ next.session.id \in Sessions
          /\ next.session.provider = Pending
      BY <1>1, <3>1, <3>2, <3>3, RecordFacts DEF HostSessions
    <3>5. next.session \in HostSessions
      BY <3>2, <3>3 DEF HostSessions, ProviderIds
    <3> QED
      BY <2>1, <3>3, <3>4, <3>5, HostNoneAssumption, PendingAssumption
      DEF CreationGoesOn, Creating
  <2> QED
    BY <1>3, <1>4, <1>8, <2>2, <2>3 DEF Publish, Phases
<1>9. CASE Bind(p) \/ Rebind(p)
  <2>1. /\ call.phase \in { "bind", "rebind" }
        /\ next.session = call.session /\ next.digest = call.digest
        /\ next.phase \in { "failed", "query", "send" }
    BY <1>3, <1>4, <1>9 DEF Bind, Rebind, Phases
  <2> QED
    BY <2>1 DEF BootstrapGoesOn, Bootstrapped
<1>10. CASE ProviderReports(p) \/ ProviderAcknowledges(p)
  <2>1. /\ call.phase \in { "query", "send" }
        /\ next.session = call.session /\ next.digest = call.digest
        /\ next.phase \in { "done", "rebind", "finish" }
    BY <1>3, <1>10 DEF ProviderReports, ProviderAcknowledges, Phases
  <2> QED
    BY <2>1 DEF BootstrapGoesOn, Bootstrapped
<1>11. CASE Finish(p)
  <2>1. /\ call.phase = "finish"
        /\ next.session = call.session /\ next.digest = call.digest
        /\ next.phase \in { "failed", "done" }
    BY <1>3, <1>4, <1>11 DEF Finish, Phases
  <2> QED
    BY <2>1 DEF BootstrapGoesOn, Bootstrapped
<1> QED
  BY <1>2, <1>5, <1>6, <1>7, <1>8, <1>9, <1>10, <1>11 DEF HostStep

--------------------------------------------------------------------------------
(* What a step of a call takes over, and does                              *)

\* The row, the key, the document and the session a call goes on with are ones it had, or
\* ones it has just read.
RowFrom(p, n) ==
  n.row # None =>
    \/ n.op = tasks[p].op /\ tasks[p].row # None /\ n.row = tasks[p].row
    \/ /\ n.op \in Operations
       /\ \/ operations[n.op] # None /\ n.row = Copy(operations[n.op])
          \/ operations'[n.op] # None /\ n.row = Copy(operations'[n.op])

KeyFrom(p, n) ==
  n.key # None =>
    \/ n.op = tasks[p].op /\ n.key = tasks[p].key
    \/ n.op = tasks[p].op /\ tasks[p].row # None /\ n.key = tasks[p].row.key
    \/ \E r \in Submitted : n.op = r.operation /\ n.key = r.key

\* Where the document of a call is the durable handoff.
Sending == { "resume", "creating", "bootstrapping", "acknowledge", "seal" }

DocumentFrom(p, n) ==
  n.at \in Sending /\ n.document # None =>
    \/ /\ n.op = tasks[p].op /\ tasks[p].at \in Sending
       /\ n.document = tasks[p].document
    \/ /\ n.op \in Operations /\ handoffs[n.op] # None
       /\ n.document = Document(n.op)

SessionFrom(p, n) ==
  n.session # None =>
    \/ n.session = tasks[p].session
    \/ hostCalls[p].phase = "done" /\ n.session = hostCalls[p].session
    \/ \E k \in KeysOf(Loaded(HostOf[p])) : n.session = Loaded(HostOf[p])[k].session

Takes(p, n) ==
  /\ tasks' = [tasks EXCEPT ![p] = n]
  /\ n \in Tasks
  /\ TaskOK(n, hostCalls'[p], answered')
  /\ RowFrom(p, n) /\ KeyFrom(p, n) /\ DocumentFrom(p, n) /\ SessionFrom(p, n)

\* The transaction of a step, if it has one.
Transacts(p) ==
  LET t == tasks[p]
  IN \/ UNCHANGED repositoryVars
     \/ /\ t.at = "create" /\ Submission(t) \in Requests
        /\ CreateOperation(Submission(t))
     \/ /\ t.op \in Operations /\ t.row # None
        /\ \E next \in ContinuityStates \ { "Acknowledged" },
              successor \in Sessions \cup {None} :
             /\ CompareAndSet(t.op, t.row.state, next, successor)
             /\ next = "SuccessorCreated" =>
                  t.at = "created" /\ successor = t.session.id
     \/ t.at = "acknowledge" /\ Acknowledge(t.op, Acknowledgement(t))
     \/ t.op \in Operations /\ t.row # None /\ RecordRetry(t.op, t.row.state)

\* The host call a step ends, or makes.
Returns(p) ==
  /\ CallOutside(p) /\ answered' = answered
  /\ hostCalls'[p].phase \in { "idle", "failed", "bind" }
  /\ hostCalls'[p].phase = "bind" => tasks'[p].at = "bootstrapping"
  /\ hostCalls'[p].phase # "bind" =>
       hostCalls'[p].session \in { None, hostCalls[p].session }

LoadsFor(p) ==
  LET next == hostCalls'[p]
      ledger == Loaded(HostOf[p])
  IN /\ Section(HostOf[p], p) /\ Loads(HostOf[p]) /\ answered' = answered
     /\ hostCalls' = [hostCalls EXCEPT ![p] = next]
     /\ next \in HostCalls /\ CallOK(next, answered)
     /\ \/ next = IdleCall
        \/ /\ next.phase = "intent" /\ tasks'[p].at = "creating"
           /\ next.session = CreationRequest(tasks'[p].row, tasks'[p].op)
           /\ SessionOfKey(HostOf[p], next.session.key) = None
        \/ /\ next.phase = "bind" /\ tasks'[p].at = "bootstrapping"
           /\ next.session.key \in KeysOf(ledger)
           /\ next.session = ledger[next.session.key].session

HostPart(p) ==
  \/ UNCHANGED hostVars
  \/ Returns(p)
  \/ LoadsFor(p)
  \/ HostStep(p, KnownSessions)

CallStep(p) == Transacts(p) /\ HostPart(p) /\ \E n : Takes(p, n)

\* What a call has at its point.
LEMMA AtFacts ==
  ASSUME TasksOK, NEW p \in Calls
  PROVE  LET t == tasks[p]
         IN /\ t \in Tasks /\ tasks \in [Calls -> Tasks]
            /\ TaskOK(t, hostCalls[p], answered)
            /\ t.at # "idle" => t.op \in Operations
            /\ t.at \in NeedsRow => t.row \in OperationRows /\ t.row # None
            /\ t.at \in NeedsDocument => t.document \in Documents /\ t.document # None
            /\ t.session # None =>
                 /\ t.session \in HostSessions /\ t.session.id \in Sessions
                 /\ t.session.provider # None
            /\ t.at \in { "create", "checkpoint", "intent", "persist" } => t.key \in Keys
            /\ t.at \in { "read", "rollover", "created", "document", "acknowledge" } =>
                 t.kind = "rollover"
            /\ t.at = "rollover" => t.session = None /\ t.document = None
<1>1. tasks[p] \in Tasks /\ tasks \in [Calls -> Tasks] /\ TaskOK(tasks[p], hostCalls[p], answered)
  BY DEF TasksOK
<1> QED
  BY <1>1, TaskFields DEF TaskOK

\* A call that ends takes nothing.
LEMMA IdleTakes ==
  ASSUME NEW p \in Calls, Ends(p)
  PROVE  Takes(p, IdleTask)
<1>1. /\ IdleTask.row = None /\ IdleTask.key = None /\ IdleTask.session = None
      /\ IdleTask.document = None
  BY DEF IdleTask
<1> QED
  BY <1>1, IdleTaskOK DEF Takes, Ends, RowFrom, KeyFrom, DocumentFrom, SessionFrom

\* A rollover goes on with the row it has read, or has written.
LEMMA WithRowTakes ==
  ASSUME TasksOK, NEW p \in Calls, tasks[p].kind = "rollover", tasks[p].op \in Operations,
         NEW row \in OperationRows,
         row = operations[tasks[p].op] \/ row = operations'[tasks[p].op],
         tasks' = [tasks EXCEPT ![p] = WithRow(tasks[p], row)]
  PROVE  Takes(p, WithRow(tasks[p], row))
<1> DEFINE t == tasks[p]
<1> DEFINE n == WithRow(t, row)
<1>1. t \in Tasks
  BY AtFacts
<1>2. n \in Tasks /\ \A call, acks : TaskOK(n, call, acks)
  BY <1>1, WithRowOK
<1>3. /\ n.key = None /\ n.session = None /\ n.document = None
      /\ n.row # None => n.row = Copy(row) /\ n.op = t.op
  BY DEF WithRow, IdleTask
<1> HIDE DEF n
<1>4. Takes(p, n)
  BY <1>2, <1>3 DEF Takes, RowFrom, KeyFrom, DocumentFrom, SessionFrom, n
<1> QED
  BY <1>4 DEF n

\* A checkpoint goes on with the row it has written, and what it had.
LEMMA CheckpointTakes ==
  ASSUME TasksOK, NEW p \in Calls,
         tasks[p].at \in { "create", "checkpoint", "intent", "persist" },
         NEW row \in OperationRows, row = operations'[tasks[p].op],
         tasks' = [tasks EXCEPT ![p] = CheckpointWithRow(tasks[p], row)]
  PROVE  \E n : Takes(p, n)
<1> DEFINE t == tasks[p]
<1> DEFINE n == CheckpointWithRow(t, row)
<1>1. /\ t \in Tasks /\ t.op \in Operations /\ t.key \in Keys /\ t.document # None
      /\ t.session # None => t.session.id \in Sessions /\ t.session.provider # None
  BY AtFacts DEF NeedsDocument
<1>2. n \in Tasks /\ \A call, acks : TaskOK(n, call, acks)
  BY <1>1, CheckpointWithRowOK
<1>3. CASE row.state \in { "RetryWait", "Idle", "CheckpointPreparing" }
  <2>1. n = [t EXCEPT !.row = Copy(row), !.at = "checkpoint"]
    BY <1>3 DEF CheckpointWithRow
  <2>2. /\ n.op = t.op /\ n.key = t.key /\ n.session = t.session /\ n.row = Copy(row)
        /\ n.at = "checkpoint"
    BY <1>1, <2>1 DEF Tasks
  <2> HIDE DEF n
  <2>3. Takes(p, n)
    BY <1>1, <1>2, <2>2
    DEF Takes, RowFrom, KeyFrom, DocumentFrom, SessionFrom, Sending, n
  <2> QED
    BY <2>3
<1>4. CASE /\ row.state \notin { "RetryWait", "Idle", "CheckpointPreparing" }
           /\ t.kind = "rollover"
  <2>1. n = WithRow(t, row)
    BY <1>4 DEF CheckpointWithRow
  <2>2. Takes(p, WithRow(t, row))
    BY <1>1, <1>4, <2>1, WithRowTakes
  <2> QED
    BY <2>2
<1>5. CASE /\ row.state \notin { "RetryWait", "Idle", "CheckpointPreparing" }
           /\ t.kind # "rollover"
  <2>1. Ends(p)
    BY <1>5 DEF CheckpointWithRow, Ends
  <2> QED
    BY <2>1, IdleTakes
<1> QED
  BY <1>3, <1>4, <1>5

\* A call goes to another point with what it has.
LEMMA PointTakes ==
  ASSUME TasksOK, NEW p \in Calls, NEW at \in Points,
         tasks' = [tasks EXCEPT ![p].at = at],
         at \in Sending => tasks[p].at \in Sending,
         TaskOK([tasks[p] EXCEPT !.at = at], hostCalls'[p], answered')
  PROVE  Takes(p, [tasks[p] EXCEPT !.at = at])
<1> DEFINE t == tasks[p]
<1> DEFINE n == [t EXCEPT !.at = at]
<1>1. t \in Tasks /\ tasks \in [Calls -> Tasks]
  BY AtFacts
<1>2. /\ n \in Tasks /\ n.op = t.op /\ n.row = t.row /\ n.key = t.key
      /\ n.document = t.document /\ n.session = t.session /\ n.at = at
  BY <1>1 DEF Tasks
<1>3. tasks' = [tasks EXCEPT ![p] = n]
  BY <1>1
<1>4. TaskOK(n, hostCalls'[p], answered')
  OBVIOUS
<1> HIDE DEF n
<1> QED
  BY <1>2, <1>3, <1>4 DEF Takes, RowFrom, KeyFrom, DocumentFrom, SessionFrom, n

--------------------------------------------------------------------------------
(* The steps of a call                                                     *)

\* A call's compare-and-set leaves its row in the next state.
LEMMA SetTransacts ==
  ASSUME HInv, TasksOK, NEW p \in Calls, tasks[p].at \in NeedsRow,
         NEW next, next # "Acknowledged", NEW successor \in Sessions \cup {None},
         next = "SuccessorCreated" =>
           tasks[p].at = "created" /\ successor = tasks[p].session.id,
         Sets(p, next, successor)
  PROVE  /\ Transacts(p)
         /\ operations'[tasks[p].op] \in OperationRows
         /\ operations'[tasks[p].op].state = next
<1>1. tasks[p].op \in Operations /\ tasks[p].row # None
  BY AtFacts DEF NeedsRow
<1>2. CompareAndSet(tasks[p].op, tasks[p].row.state, next, successor)
  BY DEF Sets
<1>3. /\ operations'[tasks[p].op] \in OperationRows
      /\ operations'[tasks[p].op].state = next
  BY <1>1, <1>2, SetResult
<1>4. next \in ContinuityStates \ { "Acknowledged" }
  BY <1>3 DEF OperationRows
<1> QED
  BY <1>1, <1>2, <1>3, <1>4 DEF Transacts

\* A transaction that is refused changes no table.
LEMMA RefusedTransacts ==
  ASSUME NEW p, NEW next, NEW successor, Refused(p, next, successor)
  PROVE  Transacts(p)
BY DEF Refused, Transacts

\* What checkpoint's compare-and-sets do.
LEMMA CheckpointMovesOn ==
  ASSUME HInv, TasksOK, NEW p \in Calls,
         tasks[p].at \in { "checkpoint", "intent", "persist" },
         NEW next \in ContinuityStates \ { "Acknowledged", "SuccessorCreated" },
         CheckpointMoves(p, next)
  PROVE  Transacts(p) /\ \E n : Takes(p, n)
<1>1. CASE /\ Sets(p, next, None)
           /\ tasks' = [tasks EXCEPT ![p] =
                CheckpointWithRow(tasks[p], operations'[tasks[p].op])]
  <2>1. Transacts(p) /\ operations'[tasks[p].op] \in OperationRows
    BY <1>1, SetTransacts DEF NeedsRow, Points
  <2>2. \E n : Takes(p, n)
    BY <1>1, <2>1, CheckpointTakes
  <2> QED
    BY <2>1, <2>2
<1>2. CASE Refused(p, next, None) /\ Ends(p)
  BY <1>2, RefusedTransacts, IdleTakes
<1> QED
  BY <1>1, <1>2 DEF CheckpointMoves

\* What a rollover's compare-and-sets do.
LEMMA RolloverMovesOn ==
  ASSUME HInv, TasksOK, NEW p \in Calls, tasks[p].at \in { "rollover", "created" },
         NEW next, next # "Acknowledged", NEW successor \in Sessions \cup {None},
         next = "SuccessorCreated" =>
           tasks[p].at = "created" /\ successor = tasks[p].session.id,
         RolloverMoves(p, next, successor)
  PROVE  CallStep(p)
<1>1. UNCHANGED hostVars
  BY DEF RolloverMoves
<1>2. CASE /\ Sets(p, next, successor)
           /\ tasks' = [tasks EXCEPT ![p] = WithRow(tasks[p], operations'[tasks[p].op])]
  <2>1. Transacts(p) /\ operations'[tasks[p].op] \in OperationRows
    BY <1>2, SetTransacts DEF NeedsRow, Points
  <2>2. Takes(p, WithRow(tasks[p], operations'[tasks[p].op]))
    BY <1>2, <2>1, WithRowTakes, AtFacts
  <2> QED
    BY <1>1, <2>1, <2>2 DEF CallStep, HostPart
<1>3. CASE Refused(p, next, successor) /\ Ends(p)
  BY <1>1, <1>3, RefusedTransacts, IdleTakes DEF CallStep, HostPart
<1> QED
  BY <1>2, <1>3 DEF RolloverMoves

\* A client's call holds what the client submits.
LEMMA StartCheckpointStep ==
  ASSUME NEW p \in Calls, StartCheckpoint(p)
  PROVE  CallStep(p)
<1>1. PICK r \in Submitted : tasks' = [tasks EXCEPT ![p] =
         [IdleTask EXCEPT !.kind = "checkpoint", !.at = "create", !.op = r.operation,
            !.key = r.key,
            !.document = [ content |-> r.content, successor |-> r.successor,
                           predecessor |-> r.predecessor, adapter |-> r.adapter ]]]
  BY DEF StartCheckpoint
<1> DEFINE d == [ content |-> r.content, successor |-> r.successor,
                  predecessor |-> r.predecessor, adapter |-> r.adapter ]
<1> DEFINE n == [IdleTask EXCEPT !.kind = "checkpoint", !.at = "create",
                   !.op = r.operation, !.key = r.key, !.document = d]
<1>2. r \in Requests
  BY SubmittedAssumption
<1>3. d \in Documents
  BY <1>2 DEF Requests, Documents
<1>4. tasks' = [tasks EXCEPT ![p] = n]
  BY <1>1
<1> HIDE DEF d
<1>5. /\ n \in Tasks
      /\ n.at = "create" /\ n.kind = "checkpoint"
      /\ n.op = r.operation /\ n.key = r.key /\ n.document = d
      /\ n.row = IdleTask.row /\ n.session = IdleTask.session
  BY <1>2, <1>3, IdleTaskOK DEF Tasks, Points, Requests
<1>6. /\ n.row = None /\ n.session = None
      /\ n.op \in Operations /\ n.key \in Keys /\ n.document # None
  BY <1>2, <1>3, <1>5, IdleTaskOK, DocumentNoneAssumption DEF Requests, IdleTask
<1> HIDE DEF n
<1>7. TaskOK(n, hostCalls'[p], answered')
  BY <1>5, <1>6 DEF TaskOK, NeedsRow, NeedsSession, NeedsDocument, WaitsFor
<1>8. Takes(p, n)
  BY <1>4, <1>5, <1>6, <1>7 DEF Takes, RowFrom, KeyFrom, DocumentFrom, SessionFrom, Sending
<1> QED
  BY <1>8 DEF StartCheckpoint, CallStep, Transacts, HostPart

\* The checkpoint is begun, or found.
LEMMA CheckpointCreatesStep ==
  ASSUME HInv, TasksOK, NEW p \in Calls, CheckpointCreates(p)
  PROVE  CallStep(p)
<1>1. /\ tasks[p].at = "create" /\ tasks[p] \in Tasks /\ tasks[p].op \in Operations
      /\ tasks[p].key \in Keys /\ tasks[p].document # None
  BY AtFacts DEF CheckpointCreates, NeedsDocument
<1>2. Submission(tasks[p]) \in Requests /\ Submission(tasks[p]).operation = tasks[p].op
  BY <1>1, SubmissionOK
<1>3. CASE /\ CreateOperation(Submission(tasks[p]))
           /\ tasks' = [tasks EXCEPT ![p] =
                CheckpointWithRow(tasks[p], operations'[tasks[p].op])]
  <2>1. operations'[tasks[p].op] \in OperationRows
    BY <1>2, <1>3, CreateResult
  <2>2. \E n : Takes(p, n)
    BY <1>1, <1>3, <2>1, CheckpointTakes
  <2> QED
    BY <1>1, <1>2, <1>3, <2>2 DEF CheckpointCreates, CallStep, Transacts, HostPart
<1>4. CASE UNCHANGED repositoryVars /\ Ends(p)
  BY <1>4, IdleTakes DEF CheckpointCreates, CallStep, Transacts, HostPart
<1> QED
  BY <1>3, <1>4 DEF CheckpointCreates

\* A due checkpoint resumes.
LEMMA CheckpointResumesStep ==
  ASSUME HInv, TasksOK, NEW p \in Calls, CheckpointResumes(p)
  PROVE  CallStep(p)
<1>1. tasks[p].at = "checkpoint" /\ UNCHANGED hostVars
  BY DEF CheckpointResumes
<1>2. CASE CheckpointMoves(p, "CheckpointPreparing")
  BY <1>1, <1>2, CheckpointMovesOn DEF CallStep, HostPart, ContinuityStates
<1>3. CASE Ends(p) /\ UNCHANGED repositoryVars
  BY <1>1, <1>3, IdleTakes DEF CallStep, Transacts, HostPart
<1> QED
  BY <1>2, <1>3 DEF CheckpointResumes

\* The handoff is stored, or the checkpoint waits, or ends.
LEMMA CheckpointStoresStep ==
  ASSUME HInv, TasksOK, NEW p \in Calls, CheckpointStores(p)
  PROVE  CallStep(p)
<1> DEFINE t == tasks[p]
<1>1. /\ t.at = "checkpoint" /\ UNCHANGED hostVars /\ t \in Tasks /\ t.op \in Operations
      /\ t.key \in Keys /\ t.document # None /\ t.row # None
      /\ t.session # None => t.session.id \in Sessions /\ t.session.provider # None
  BY AtFacts DEF CheckpointStores, NeedsDocument, NeedsRow, Points
<1>2. UNCHANGED repositoryVars
  BY <1>1, SubmissionOK, StoreMovesNothing DEF CheckpointStores, HInv
<1>3. ASSUME NEW at \in { "persist", "intent", "retry" },
             tasks' = [tasks EXCEPT ![p].at = at]
      PROVE  \E n : Takes(p, n)
  <2> DEFINE n == [t EXCEPT !.at = at]
  <2>1. /\ n.at = at /\ n.op = t.op /\ n.row = t.row /\ n.key = t.key
        /\ n.document = t.document /\ n.session = t.session
    BY <1>1 DEF Tasks
  <2> HIDE DEF n
  <2>2. TaskOK(n, hostCalls'[p], answered')
    BY <1>1, <2>1 DEF TaskOK, NeedsRow, NeedsSession, NeedsDocument, WaitsFor
  <2>3. at \in Points /\ at \notin Sending
    BY DEF Points, Sending
  <2> QED
    BY <1>3, <2>2, <2>3, PointTakes DEF n
<1>4. \/ tasks' = [tasks EXCEPT ![p].at = "persist"]
      \/ tasks' = [tasks EXCEPT ![p].at = "intent"]
      \/ tasks' = [tasks EXCEPT ![p].at = "retry"]
      \/ Ends(p)
  BY DEF CheckpointStores
<1>5. \E n : Takes(p, n)
  BY <1>3, <1>4, IdleTakes
<1> QED
  BY <1>1, <1>2, <1>5 DEF CallStep, Transacts, HostPart

\* The checkpoint's two other transitions.
LEMMA CheckpointIntendsStep ==
  ASSUME HInv, TasksOK, NEW p \in Calls, CheckpointIntends(p) \/ CheckpointPersists(p)
  PROVE  CallStep(p)
<1>1. UNCHANGED hostVars
  BY DEF CheckpointIntends, CheckpointPersists
<1>2. Transacts(p) /\ \E n : Takes(p, n)
  BY CheckpointMovesOn DEF CheckpointIntends, CheckpointPersists, ContinuityStates
<1> QED
  BY <1>1, <1>2 DEF CallStep, HostPart

\* A rollover begins with an operation and nothing else.
LEMMA StartRolloverStep ==
  ASSUME TasksOK, NEW p \in Calls, StartRollover(p)
  PROVE  CallStep(p)
<1>1. PICK o \in Operations :
        tasks' = [tasks EXCEPT ![p] =
          [IdleTask EXCEPT !.kind = "rollover", !.at = "read", !.op = o]]
  BY DEF StartRollover, ActiveOperations
<1> DEFINE n == [IdleTask EXCEPT !.kind = "rollover", !.at = "read", !.op = o]
<1>2. tasks' = [tasks EXCEPT ![p] = n]
  BY <1>1
<1>3. /\ n \in Tasks
      /\ n.at = "read" /\ n.kind = "rollover" /\ n.op = o
      /\ n.row = IdleTask.row /\ n.session = IdleTask.session
      /\ n.document = IdleTask.document /\ n.key = IdleTask.key
  BY IdleTaskOK DEF Tasks, Points
<1>4. n.row = None /\ n.session = None /\ n.document = None /\ n.key = None
  BY <1>3 DEF IdleTask
<1> HIDE DEF n
<1>6. TaskOK(n, hostCalls'[p], answered')
  BY <1>3, <1>4 DEF TaskOK, NeedsRow, NeedsSession, NeedsDocument, WaitsFor
<1>7. Takes(p, n)
  BY <1>2, <1>3, <1>4, <1>6 DEF Takes, RowFrom, KeyFrom, DocumentFrom, SessionFrom
<1> QED
  BY <1>7 DEF StartRollover, CallStep, Transacts, HostPart

\* It reads the operation's row.
LEMMA RolloverReadsStep ==
  ASSUME HInv, TasksOK, NEW p \in Calls, RolloverReads(p)
  PROVE  CallStep(p)
<1>1. /\ tasks[p].at = "read" /\ tasks[p].kind = "rollover" /\ tasks[p].op \in Operations
      /\ UNCHANGED repositoryVars /\ UNCHANGED hostVars
  BY AtFacts DEF RolloverReads
<1>2. CASE /\ Exists(tasks[p].op)
           /\ tasks' = [tasks EXCEPT ![p] = WithRow(tasks[p], operations[tasks[p].op])]
  <2>1. operations[tasks[p].op] \in OperationRows
    BY <1>1, <1>2 DEF Exists, HInv, IInv, TypeOK
  <2>2. Takes(p, WithRow(tasks[p], operations[tasks[p].op]))
    BY <1>1, <1>2, <2>1, WithRowTakes
  <2> QED
    BY <1>1, <2>2 DEF CallStep, Transacts, HostPart
<1>3. CASE Ends(p)
  BY <1>1, <1>3, IdleTakes DEF CallStep, Transacts, HostPart
<1> QED
  BY <1>2, <1>3 DEF RolloverReads

\* It makes an unfinished checkpoint again, with the row's key and the durable document.
LEMMA RolloverPreparesStep ==
  ASSUME HInv, TasksOK, NEW p \in Calls, RolloverPrepares(p)
  PROVE  CallStep(p)
<1> DEFINE t == tasks[p]
<1>1. /\ t.at = "rollover" /\ t.kind = "rollover" /\ t \in Tasks /\ t.op \in Operations
      /\ t.row \in OperationRows /\ t.row # None /\ t.session = None
      /\ tasks \in [Calls -> Tasks]
      /\ UNCHANGED repositoryVars /\ UNCHANGED hostVars
  BY AtFacts DEF RolloverPrepares, AtState, NeedsRow, Points
<1>2. CASE Ends(p)
  BY <1>1, <1>2, IdleTakes DEF CallStep, Transacts, HostPart
<1>3. CASE /\ handoffs[t.op] # None
           /\ tasks' = [tasks EXCEPT ![p].at = "create", ![p].key = t.row.key,
                                     ![p].document = Document(t.op)]
  <2> DEFINE n == [t EXCEPT !.at = "create", !.key = t.row.key, !.document = Document(t.op)]
  <2>1. Document(t.op) \in Documents /\ Document(t.op) # None /\ t.row.key \in Keys
    BY <1>1, <1>3, DocumentFields DEF HInv, OperationRows
  <2>2. /\ n \in Tasks /\ n.at = "create" /\ n.kind = "rollover" /\ n.op = t.op
        /\ n.key = t.row.key /\ n.row = t.row
        /\ n.document = Document(t.op) /\ n.session = None
    BY <1>1, <2>1 DEF Tasks, Points
  <2>3. tasks' = [tasks EXCEPT ![p] = n]
    BY <1>1, <1>3
  <2> HIDE DEF n
  <2>4. TaskOK(n, hostCalls'[p], answered')
    BY <1>1, <2>1, <2>2 DEF TaskOK, NeedsRow, NeedsSession, NeedsDocument, WaitsFor
  <2>5. Takes(p, n)
    BY <1>1, <2>2, <2>3, <2>4 DEF Takes, RowFrom, KeyFrom, DocumentFrom, SessionFrom, Sending
  <2> QED
    BY <1>1, <2>5 DEF CallStep, Transacts, HostPart
<1> QED
  BY <1>2, <1>3 DEF RolloverPrepares

\* The row of a rollover has a successor, or none yet.
LEMMA RowSuccessorOK ==
  ASSUME TasksOK, NEW p \in Calls, tasks[p].at \in NeedsRow
  PROVE  /\ tasks[p].row.successor \in Sessions \cup {None}
         /\ tasks[p].row.state \in ContinuityStates
         /\ tasks[p].row.retryResume \in RetryResumeStates \cup {None}
BY AtFacts DEF OperationRows

\* Its transitions that need no host.
LEMMA RolloverTransitionsStep ==
  ASSUME HInv, TasksOK, NEW p \in Calls,
         \/ RolloverIntendsCreation(p) \/ RolloverIntendsBootstrap(p) \/ RolloverSeals(p)
         \/ RolloverCancels(p) \/ RolloverIntroduces(p)
  PROVE  CallStep(p)
<1>1. CASE RolloverIntendsCreation(p)
  BY <1>1, RolloverMovesOn DEF RolloverIntendsCreation, AtState
<1>2. CASE RolloverIntroduces(p)
  <2>1. tasks[p].at = "created" /\ tasks[p].session.id \in Sessions
    BY <1>2, AtFacts DEF RolloverIntroduces, TaskOK, NeedsSession
  <2> QED
    BY <1>2, <2>1, RolloverMovesOn DEF RolloverIntroduces
<1>3. CASE RolloverIntendsBootstrap(p) \/ RolloverSeals(p) \/ RolloverCancels(p)
  <2>1. tasks[p].at = "rollover"
    BY <1>3 DEF RolloverIntendsBootstrap, RolloverSeals, RolloverCancels, AtState
  <2>2. tasks[p].row.successor \in Sessions \cup {None}
    BY <2>1, RowSuccessorOK DEF NeedsRow, Points
  <2> QED
    BY <1>3, <2>1, <2>2, RolloverMovesOn
    DEF RolloverIntendsBootstrap, RolloverSeals, RolloverCancels
<1> QED
  BY <1>1, <1>2, <1>3

\* A due rollover resumes where it failed.
LEMMA RolloverResumesStep ==
  ASSUME HInv, TasksOK, NEW p \in Calls, RolloverResumes(p)
  PROVE  CallStep(p)
<1>1. tasks[p].at = "rollover"
  BY DEF RolloverResumes, AtState
<1>2. /\ tasks[p].row.successor \in Sessions \cup {None}
      /\ tasks[p].row.retryResume \notin { "Acknowledged", "SuccessorCreated" }
  BY <1>1, RowSuccessorOK DEF NeedsRow, Points, RetryResumeStates, ContinuityStates
<1>3. CASE RolloverMoves(p, tasks[p].row.retryResume, tasks[p].row.successor)
  BY <1>1, <1>2, <1>3, RolloverMovesOn
<1>4. CASE Ends(p) /\ UNCHANGED repositoryVars /\ UNCHANGED hostVars
  BY <1>4, IdleTakes DEF CallStep, Transacts, HostPart
<1> QED
  BY <1>3, <1>4 DEF RolloverResumes

\* A rollover that has a row may wait for a retry.
LEMMA RetryTakes ==
  ASSUME TasksOK, NEW p \in Calls, tasks[p].at \in NeedsRow,
         tasks' = [tasks EXCEPT ![p].at = "retry"]
  PROVE  Takes(p, [tasks[p] EXCEPT !.at = "retry"])
<1>1. /\ tasks[p] \in Tasks /\ tasks[p].op \in Operations /\ tasks[p].row # None
      /\ tasks[p].session # None =>
           tasks[p].session.id \in Sessions /\ tasks[p].session.provider # None
  BY AtFacts DEF NeedsRow
<1>2. TaskOK([tasks[p] EXCEPT !.at = "retry"], hostCalls'[p], answered')
  BY <1>1, RetryTaskOK
<1> QED
  BY <1>2, PointTakes DEF Points, Sending

\* The successor is published.
LEMMA RolloverPublishesStep ==
  ASSUME HInv, TasksOK, NEW p \in Calls, RolloverPublishes(p)
  PROVE  CallStep(p)
<1>1. tasks[p].at = "rollover" /\ UNCHANGED hostVars /\ tasks[p].at \in NeedsRow
  BY DEF RolloverPublishes, AtState, NeedsRow, Points
<1>2. CASE Sets(p, "Completed", tasks[p].row.successor) /\ Ends(p)
  <2>1. Transacts(p)
    BY <1>1, <1>2, SetTransacts, RowSuccessorOK
  <2> QED
    BY <1>1, <1>2, <2>1, IdleTakes DEF CallStep, HostPart
<1>3. CASE /\ Refused(p, "Completed", tasks[p].row.successor)
           /\ tasks' = [tasks EXCEPT ![p].at = "retry"]
  BY <1>1, <1>3, RefusedTransacts, RetryTakes DEF CallStep, HostPart
<1> QED
  BY <1>2, <1>3 DEF RolloverPublishes

\* A failure is recorded for a retry.
LEMMA RecordsRetryTransacts ==
  ASSUME TasksOK, NEW p \in Calls, tasks[p].at \in NeedsRow, RecordsRetry(p)
  PROVE  Transacts(p) /\ Takes(p, IdleTask)
<1>1. tasks[p].op \in Operations /\ tasks[p].row # None
  BY AtFacts DEF NeedsRow
<1> QED
  BY <1>1, IdleTakes DEF RecordsRetry, Transacts

\* A rollover records its retry and ends.
LEMMA RolloverRecordsRetryStep ==
  ASSUME TasksOK, NEW p \in Calls, RolloverRecordsRetry(p)
  PROVE  CallStep(p)
BY RecordsRetryTransacts DEF RolloverRecordsRetry, NeedsRow, Points, CallStep, HostPart

--------------------------------------------------------------------------------
(* The steps of a call that end or make a call of the host                 *)

\* A call of the host that has been made, and what it holds.
LEMMA BootstrapRequested ==
  ASSUME HostTypeOK, NEW p \in Calls, NEW session \in HostSessions, session # None,
         session.id \in Sessions, session.provider # None, NEW digest \in Digests,
         RequestsBootstrap(p, session, digest)
  PROVE  /\ hostCalls' = [hostCalls EXCEPT ![p] = hostCalls'[p]]
         /\ hostCalls'[p] \in HostCalls
         /\ \A acks : CallOK(hostCalls'[p], acks)
         /\ hostCalls'[p].phase = "bind" /\ hostCalls'[p].session = session
         /\ hostCalls'[p].digest = digest
<1> DEFINE next == [ phase |-> "bind", session |-> session, digest |-> digest,
                     cancelled |-> FALSE ]
<1>1. hostCalls' = [hostCalls EXCEPT ![p] = next] /\ hostCalls'[p] = next
  BY DEF RequestsBootstrap, HostTypeOK
<1>2. next \in HostCalls
  BY DEF HostCalls, Phases
<1>3. next.phase = "bind" /\ next.session = session /\ next.digest = digest
  OBVIOUS
<1> HIDE DEF next
<1>4. digest # None
  BY HostNoneAssumption
<1>5. \A acks : CallOK(next, acks)
  BY <1>3, <1>4 DEF CallOK
<1> QED
  BY <1>1, <1>2, <1>3, <1>5

\* A request for a creation begins it for the row's key.
LEMMA CreationRequested ==
  ASSUME HostTypeOK, NEW p \in Calls, NEW row \in OperationRows, NEW o \in Operations,
         RequestsCreation(p, CreationRequest(row, o))
  PROVE  /\ hostCalls' = [hostCalls EXCEPT ![p] = hostCalls'[p]]
         /\ hostCalls'[p] \in HostCalls
         /\ \A acks : CallOK(hostCalls'[p], acks)
         /\ hostCalls'[p].phase = "intent"
         /\ hostCalls'[p].session = CreationRequest(row, o)
         /\ CreationRequest(row, o) # None /\ CreationRequest(row, o).id = None
         /\ CreationRequest(row, o).key = row.key /\ row.key \in Keys
<1> DEFINE request == CreationRequest(row, o)
<1>1. request \in HostSessions /\ request.id = None /\ request.key = row.key /\ row.key \in Keys
  BY DEF CreationRequest, HostSessions, ProviderIds, OperationRows
<1> HIDE DEF request
<1> DEFINE next == [ phase |-> "intent", session |-> request, digest |-> None,
                     cancelled |-> FALSE ]
<1>2. hostCalls' = [hostCalls EXCEPT ![p] = next] /\ hostCalls'[p] = next
  BY DEF RequestsCreation, HostTypeOK, request
<1>3. next \in HostCalls
  BY <1>1 DEF HostCalls, Phases
<1>4. next.phase = "intent" /\ next.session = request /\ next.digest = None
  OBVIOUS
<1>5. request # None
  BY <1>1, HostNoneAssumption
<1> HIDE DEF next
<1>6. \A acks : CallOK(next, acks)
  BY <1>4, <1>5 DEF CallOK
<1> QED
  BY <1>1, <1>2, <1>3, <1>4, <1>5, <1>6 DEF request

\* A host call that is over leaves nothing behind.
LEMMA ReturnedCall ==
  ASSUME HostTypeOK, NEW p \in Calls, HostReturns(p)
  PROVE  /\ hostCalls' = [hostCalls EXCEPT ![p] = hostCalls'[p]]
         /\ hostCalls'[p] = IdleCall /\ hostCalls'[p] \in HostCalls
         /\ \A acks : CallOK(hostCalls'[p], acks)
         /\ IdleCall.phase = "idle" /\ IdleCall.session = None
<1>1. hostCalls'[p] = IdleCall /\ hostCalls' = [hostCalls EXCEPT ![p] = IdleCall]
  BY DEF HostReturns, HostTypeOK
<1>2. IdleCall \in HostCalls /\ \A acks : CallOK(IdleCall, acks)
  BY DEF IdleCall, HostCalls, Phases, CallOK
<1>3. IdleCall.phase = "idle" /\ IdleCall.session = None
  BY DEF IdleCall
<1> QED
  BY <1>1, <1>2, <1>3

\* A call that lets its host call go, at no section of the host, is outside them.
LEMMA ReturnIsOutside ==
  ASSUME HostInv, NEW p \in Calls, HostReturns(p), HostUntouched
  PROVE  Returns(p)
<1>1. HostTypeOK /\ answered \subseteq Answers
  BY DEF HostInv, HostTypeOK, Answers
<1>2. /\ hostCalls' = [hostCalls EXCEPT ![p] = hostCalls'[p]]
      /\ hostCalls'[p] \in HostCalls /\ CallOK(hostCalls'[p], answered')
      /\ hostCalls'[p].phase = "idle" /\ hostCalls'[p].session = None
  BY <1>1, ReturnedCall
<1> QED
  BY <1>1, <1>2, HostNoneAssumption DEF Returns, CallOutside, HostUntouched

\* What a task to be bootstrapped has in its hands before the host is asked.
Prepared(n) ==
  /\ n.op \in Operations /\ n.row # None
  /\ n.kind \in { "rollover", "resume" }
  /\ n.session \in HostSessions /\ n.session # None
  /\ n.session.id \in Sessions /\ n.session.provider # None
  /\ n.document \in Documents /\ n.document # None
  /\ n.kind = "resume" => n.row.state \in AcknowledgedStates
  /\ ForItsRow(n)

\* The document is sent to the session it names, or the call goes on or ends.
LEMMA BootstrapsTakes ==
  ASSUME HostInv, TasksOK, NEW p \in Calls, NEW n \in Tasks, Bootstraps(p, n),
         IF n.at = "bootstrapping" THEN Prepared(n)
                                   ELSE \A call, acks : TaskOK(n, call, acks),
         RowFrom(p, n), KeyFrom(p, n), DocumentFrom(p, n), SessionFrom(p, n)
  PROVE  /\ \E m : Takes(p, m)
         /\ hostCalls' = [hostCalls EXCEPT ![p] = hostCalls'[p]]
         /\ hostCalls'[p] \in HostCalls /\ \A acks : CallOK(hostCalls'[p], acks)
         /\ \/ hostCalls'[p] = IdleCall
            \/ /\ hostCalls'[p].phase = "bind" /\ hostCalls'[p].session = n.session
               /\ n.at = "bootstrapping" /\ tasks'[p] = n
<1>0. HostTypeOK /\ tasks \in [Calls -> Tasks]
  BY DEF HostInv, TasksOK
<1>1. CASE Ends(p) /\ HostReturns(p)
  BY <1>0, <1>1, IdleTakes, ReturnedCall
<1>2. CASE /\ n.at # "bootstrapping" /\ HostReturns(p)
           /\ tasks' = [tasks EXCEPT ![p] = n]
  <2>1. Takes(p, n)
    BY <1>2 DEF Takes
  <2> QED
    BY <1>0, <1>2, <2>1, ReturnedCall
<1>3. CASE /\ n.at = "bootstrapping" /\ Bootstrappable(n, n.document)
           /\ tasks' = [tasks EXCEPT ![p] = n]
           /\ RequestsBootstrap(p, n.session, Digest(n.document))
  <2>1. Prepared(n)
    BY <1>3
  <2>2. Digest(n.document) \in Digests
    BY <2>1 DEF Prepared, Digest, Digests, Documents
  <2>3. /\ hostCalls' = [hostCalls EXCEPT ![p] = hostCalls'[p]]
        /\ hostCalls'[p] \in HostCalls /\ \A acks : CallOK(hostCalls'[p], acks)
        /\ hostCalls'[p].phase = "bind" /\ hostCalls'[p].session = n.session
        /\ hostCalls'[p].digest = Digest(n.document)
    BY <1>0, <1>3, <2>1, <2>2, BootstrapRequested DEF Prepared
  <2>4. n.session.id = n.document.successor
    BY <1>3 DEF Bootstrappable
  <2>5. WaitsFor(n, hostCalls'[p])
    BY <1>3, <2>3 DEF WaitsFor, Bootstrapped
  <2>6. TaskOK(n, hostCalls'[p], answered')
    BY <1>3, <2>1, <2>4, <2>5 DEF TaskOK, Prepared, NeedsRow, NeedsSession, NeedsDocument
  <2>7. Takes(p, n) /\ tasks'[p] = n
    BY <1>0, <1>3, <2>6 DEF Takes
  <2> QED
    BY <1>3, <2>3, <2>7
<1> QED
  BY <1>1, <1>2, <1>3 DEF Bootstraps

\* Where reconcileSession begins, or goes on when the creation has returned.
Reconciling(t) ==
  \/ t.at = "rollover" /\ t.row.state \in { "SuccessorCreating", "BootstrapSending" }
  \/ t.at = "resume" /\ t.row # None
  \/ t.at = "creating"

\* What a call makes of the session it is given.
LEMMA ReconciledOK ==
  ASSUME TasksOK, NEW p \in Calls, Reconciling(tasks[p]),
         NEW session \in HostSessions, session # None,
         session.id \in Sessions, session.provider # None,
         \/ hostCalls[p].phase = "done" /\ session = hostCalls[p].session
         \/ \E k \in KeysOf(Loaded(HostOf[p])) : session = Loaded(HostOf[p])[k].session
  PROVE  LET n == Reconciled(tasks[p], session)
         IN /\ n \in Tasks
            /\ IF n.at = "bootstrapping" THEN Prepared(n)
                                         ELSE \A call, acks : TaskOK(n, call, acks)
            /\ RowFrom(p, n) /\ KeyFrom(p, n) /\ DocumentFrom(p, n) /\ SessionFrom(p, n)
            /\ n.at = "bootstrapping" => n.session = session
<1> DEFINE t == tasks[p]
<1> DEFINE n == Reconciled(t, session)
<1>1. /\ t \in Tasks /\ t.op \in Operations /\ t.row \in OperationRows /\ t.row # None
      /\ t.kind \in { "rollover", "resume" }
      /\ t.kind = "resume" => /\ t.row.state \in AcknowledgedStates
                              /\ t.document \in Documents /\ t.document # None
                              /\ t.at \in Sending
      /\ t.kind # "resume" => t.row.state \in { "SuccessorCreating", "BootstrapSending" }
      /\ t.session # None => t.session.id \in Sessions /\ t.session.provider # None
  <2>1. t \in Tasks /\ TaskOK(t, hostCalls[p], answered)
    BY AtFacts
  <2> QED
    BY <2>1, TaskFields
    DEF TaskOK, Reconciling, NeedsRow, NeedsDocument, Points, Sending
<1>2. CASE n = HostFailed(t) \/ n = IdleTask
  <2>1. n \in Tasks /\ n.at \in { "idle", "retry" } /\ \A call, acks : TaskOK(n, call, acks)
    BY <1>1, <1>2, HostFailedOK, IdleTaskOK DEF IdleTask
  <2>2. /\ n.row # None => n.row = t.row /\ n.op = t.op
        /\ n.key # None => n.key = t.key /\ n.op = t.op
        /\ n.session # None => n.session = t.session
    <3>1. CASE n = IdleTask
      <4>1. IdleTask.row = None /\ IdleTask.key = None /\ IdleTask.session = None
        BY DEF IdleTask
      <4> QED
        BY <3>1, <4>1
    <3>2. CASE n = [t EXCEPT !.at = "retry"]
      <4> HIDE DEF n
      <4> QED
        BY <1>1, <3>2 DEF Tasks
    <3> QED
      BY <1>2, <3>1, <3>2 DEF HostFailed
  <2> HIDE DEF n
  <2>3. RowFrom(p, n) /\ KeyFrom(p, n) /\ DocumentFrom(p, n) /\ SessionFrom(p, n)
    BY <1>1, <2>1, <2>2 DEF RowFrom, KeyFrom, DocumentFrom, SessionFrom, Sending
  <2> QED
    BY <2>1, <2>3 DEF n
<1>3. ASSUME NEW at \in { "created", "bootstrapping", "document" },
             n = [t EXCEPT !.session = session, !.at = at]
      PROVE  /\ n \in Tasks /\ n.at = at /\ n.kind = t.kind /\ n.op = t.op /\ n.row = t.row
             /\ n.session = session /\ n.document = t.document /\ n.key = t.key
             /\ at = "bootstrapping" => t.kind = "resume"
             /\ RowFrom(p, n) /\ KeyFrom(p, n) /\ DocumentFrom(p, n) /\ SessionFrom(p, n)
             /\ SameBinding(n.session, CreationRequest(n.row, n.op))
  <2> USE <1>3
  <2>1. /\ n \in Tasks /\ n.at = at /\ n.kind = t.kind /\ n.op = t.op /\ n.row = t.row
        /\ n.session = session /\ n.document = t.document /\ n.key = t.key
    BY <1>1 DEF Tasks, Points
  <2>2. SameBinding(session, CreationRequest(t.row, t.op))
    BY <1>1, <2>1, HostFailedOK DEF Reconciled
  <2>3. at = "bootstrapping" => t.kind = "resume"
    BY <1>1, <2>1 DEF Reconciled, HostFailed, IdleTask
  <2> HIDE DEF n
  <2>4. RowFrom(p, n) /\ KeyFrom(p, n) /\ DocumentFrom(p, n) /\ SessionFrom(p, n)
    BY <1>1, <2>1, <2>3 DEF RowFrom, KeyFrom, DocumentFrom, SessionFrom, Sending
  <2> QED
    BY <2>1, <2>2, <2>3, <2>4
<1>4. CASE /\ t.row.state = "SuccessorCreating"
           /\ n = [t EXCEPT !.session = session, !.at = "created"]
  <2>1. n \in Tasks /\ n.at = "created" /\ n.kind = "rollover" /\ n.op = t.op /\ n.row = t.row
        /\ n.session = session
        /\ RowFrom(p, n) /\ KeyFrom(p, n) /\ DocumentFrom(p, n) /\ SessionFrom(p, n)
        /\ SameBinding(n.session, CreationRequest(n.row, n.op))
    BY <1>1, <1>3, <1>4 DEF AcknowledgedStates
  <2> HIDE DEF n
  <2>2. \A call, acks : TaskOK(n, call, acks)
    BY <1>1, <1>4, <2>1
    DEF TaskOK, NeedsRow, NeedsSession, NeedsDocument, WaitsFor, ForItsRow
  <2> QED
    BY <2>1, <2>2 DEF n
<1>5. CASE /\ t.row.state # "SuccessorCreating" /\ session.id = t.row.successor
           /\ n = [t EXCEPT !.session = session,
                     !.at = IF t.kind = "resume" THEN "bootstrapping" ELSE "document"]
  <2> DEFINE at == IF t.kind = "resume" THEN "bootstrapping" ELSE "document"
  <2>1. n \in Tasks /\ n.at = at /\ n.kind = t.kind /\ n.op = t.op /\ n.row = t.row
        /\ n.session = session /\ n.document = t.document
        /\ RowFrom(p, n) /\ KeyFrom(p, n) /\ DocumentFrom(p, n) /\ SessionFrom(p, n)
        /\ SameBinding(n.session, CreationRequest(n.row, n.op))
    BY <1>3, <1>5
  <2> HIDE DEF n
  <2>2. n.kind # "resume" => n.row.state = "BootstrapSending"
    BY <1>1, <1>5, <2>1
  <2>3. ForItsRow(n)
    BY <1>5, <2>1, <2>2 DEF ForItsRow
  <2>4. CASE t.kind = "resume"
    <3>1. n.at = "bootstrapping" /\ Prepared(n)
      BY <1>1, <2>1, <2>3, <2>4 DEF Prepared
    <3> QED
      BY <2>1, <3>1 DEF n
  <2>5. CASE t.kind # "resume"
    <3>1. n.at = "document" /\ \A call, acks : TaskOK(n, call, acks)
      BY <1>1, <2>1, <2>3, <2>5
      DEF TaskOK, NeedsRow, NeedsSession, NeedsDocument, WaitsFor
    <3> QED
      BY <2>1, <3>1 DEF n
  <2> QED
    BY <2>4, <2>5
<1> QED
  BY <1>2, <1>4, <1>5 DEF Reconciled

\* A session a call goes on with is one that was held.
LEMMA SessionHeld ==
  ASSUME HostInv, TasksOK, NEW p \in Calls, NEW n \in Tasks, n.session # None,
         SessionFrom(p, n)
  PROVE  Held(n.session.id, n.session.key)
<1>1. HostOf[p] \in Hosts /\ Loaded(HostOf[p]) \in Ledgers
  BY HostOfAssumption, LoadedOK
<1>2. CASE n.session = tasks[p].session
  BY <1>2 DEF Held, NamedInTask
<1>3. CASE n.session = hostCalls[p].session
  BY <1>3 DEF Held, Named, NamedInCall
<1>4. CASE \E k \in KeysOf(Loaded(HostOf[p])) : n.session = Loaded(HostOf[p])[k].session
  BY <1>1, <1>4 DEF Held, Named, NamedInLedger
<1> QED
  BY <1>2, <1>3, <1>4 DEF SessionFrom

\* The document is sent outside the host's sections.
LEMMA BootstrapsStep ==
  ASSUME CoordinatorInv, NEW p \in Calls, NEW n \in Tasks, Bootstraps(p, n),
         HostUntouched, UNCHANGED repositoryVars,
         IF n.at = "bootstrapping" THEN Prepared(n)
                                   ELSE \A call, acks : TaskOK(n, call, acks),
         RowFrom(p, n), KeyFrom(p, n), DocumentFrom(p, n), SessionFrom(p, n)
  PROVE  CallStep(p)
<1>0. HostInv /\ TasksOK /\ HostTypeOK /\ answered \subseteq Answers
  BY DEF CoordinatorInv, HostInv, HostTypeOK, Answers
<1>1. /\ \E m : Takes(p, m)
      /\ hostCalls' = [hostCalls EXCEPT ![p] = hostCalls'[p]]
      /\ hostCalls'[p] \in HostCalls /\ \A acks : CallOK(hostCalls'[p], acks)
      /\ \/ hostCalls'[p] = IdleCall
         \/ /\ hostCalls'[p].phase = "bind" /\ hostCalls'[p].session = n.session
            /\ n.at = "bootstrapping" /\ tasks'[p] = n
  BY <1>0, BootstrapsTakes
<1>2. CASE hostCalls'[p] = IdleCall
  <2>1. /\ hostCalls'[p].phase = "idle" /\ hostCalls'[p].session = None
        /\ hostCalls'[p].session \notin HostSessions
    BY <1>2, HostNoneAssumption DEF IdleCall
  <2>2. Returns(p)
    BY <1>0, <1>1, <2>1 DEF Returns, CallOutside, HostUntouched
  <2> QED
    BY <1>1, <2>2 DEF CallStep, Transacts, HostPart
<1>3. CASE /\ hostCalls'[p].phase = "bind" /\ hostCalls'[p].session = n.session
           /\ n.at = "bootstrapping" /\ tasks'[p] = n
  <2>1. n.session # None /\ n.session.id \in Sessions /\ n.session.key \in Keys
    BY <1>3 DEF Prepared, HostSessions
  <2>2. \A k \in Keys : Named(n.session.id, k) => n.session.key = k
    <3>1. Held(n.session.id, n.session.key)
      BY <1>0, <2>1, SessionHeld
    <3> QED
      BY <2>1, <3>1 DEF CoordinatorInv, OneKeyPerSession, Held
  <2>3. Returns(p)
    BY <1>0, <1>1, <1>3, <2>2 DEF Returns, CallOutside, HostUntouched
  <2> QED
    BY <1>1, <2>3 DEF CallStep, Transacts, HostPart
<1> QED
  BY <1>1, <1>2, <1>3

\* The successor's creation has returned.
LEMMA SuccessorIsCreatedStep ==
  ASSUME CoordinatorInv, NEW p \in Calls, SuccessorIsCreated(p)
  PROVE  CallStep(p)
<1> DEFINE session == hostCalls[p].session
<1>1. /\ TasksOK /\ HostInv /\ tasks[p].at = "creating" /\ hostCalls[p].phase = "done"
      /\ Reconciling(tasks[p])
  BY DEF CoordinatorInv, SuccessorIsCreated, Reconciling
<1>2. session # None /\ session.id \in Sessions /\ session.provider # None
  BY <1>1, AtFacts DEF TaskOK, WaitsFor
<1>3. session \in HostSessions
  BY <1>1, <1>2, TypeFacts DEF HostInv
<1> DEFINE n == Reconciled(tasks[p], session)
<1>4. /\ n \in Tasks
      /\ IF n.at = "bootstrapping" THEN Prepared(n)
                                   ELSE \A call, acks : TaskOK(n, call, acks)
      /\ RowFrom(p, n) /\ KeyFrom(p, n) /\ DocumentFrom(p, n) /\ SessionFrom(p, n)
  BY <1>1, <1>2, <1>3, ReconciledOK
<1>5. Bootstraps(p, n) /\ HostUntouched /\ UNCHANGED repositoryVars
  BY DEF SuccessorIsCreated
<1> HIDE DEF n
<1> QED
  BY <1>4, <1>5, BootstrapsStep

\* The document is read again for the successor.
LEMMA RolloverReadsDocumentStep ==
  ASSUME CoordinatorInv, NEW p \in Calls, RolloverReadsDocument(p)
  PROVE  CallStep(p)
<1> DEFINE t == tasks[p]
<1>0. TasksOK /\ HostInv /\ IInv
  BY DEF CoordinatorInv, HInv
<1>1. /\ t \in Tasks /\ t.at = "document" /\ t.kind = "rollover" /\ t.op \in Operations
      /\ t.row # None /\ t.session # None /\ t.session \in HostSessions
      /\ t.session.id \in Sessions /\ t.session.provider # None /\ ForItsRow(t)
  BY <1>0, AtFacts DEF RolloverReadsDocument, TaskOK, NeedsRow, NeedsSession, Points
<1>2. HostUntouched /\ UNCHANGED repositoryVars
  BY DEF RolloverReadsDocument
<1>3. CASE /\ handoffs[t.op] # None
           /\ Bootstraps(p, [t EXCEPT !.at = "bootstrapping", !.document = Document(t.op)])
  <2> DEFINE n == [t EXCEPT !.at = "bootstrapping", !.document = Document(t.op)]
  <2>1. Document(t.op) \in Documents /\ Document(t.op) # None
    BY <1>0, <1>1, <1>3, DocumentFields
  <2>2. /\ n \in Tasks /\ n.at = "bootstrapping" /\ n.kind = "rollover" /\ n.op = t.op
        /\ n.row = t.row /\ n.key = t.key /\ n.session = t.session
        /\ n.document = Document(t.op)
    BY <1>1, <2>1 DEF Tasks, Points
  <2>3. Bootstraps(p, n)
    BY <1>3
  <2> HIDE DEF n
  <2>4. ForItsRow(n)
    BY <1>1, <2>2 DEF ForItsRow
  <2>5. Prepared(n)
    BY <1>1, <2>1, <2>2, <2>4 DEF Prepared
  <2>6. RowFrom(p, n) /\ KeyFrom(p, n) /\ DocumentFrom(p, n) /\ SessionFrom(p, n)
    BY <1>1, <1>3, <2>2 DEF RowFrom, KeyFrom, DocumentFrom, SessionFrom
  <2> QED
    BY <1>2, <2>2, <2>3, <2>5, <2>6, BootstrapsStep
<1>4. CASE Ends(p) /\ HostReturns(p)
  <2>1. Returns(p) /\ Takes(p, IdleTask)
    BY <1>0, <1>2, <1>4, ReturnIsOutside, IdleTakes
  <2> QED
    BY <1>2, <2>1 DEF CallStep, Transacts, HostPart
<1> QED
  BY <1>3, <1>4 DEF RolloverReadsDocument

\* The host is asked for the key's session, and for one if it has none.
LEMMA ReconcilesStep ==
  ASSUME CoordinatorInv, NEW p \in Calls, Reconciling(tasks[p]), tasks[p].at # "creating",
         Reconciles(p)
  PROVE  CallStep(p)
<1> DEFINE t == tasks[p]
<1> DEFINE L == Loaded(HostOf[p])
<1> DEFINE session == SessionOfKey(HostOf[p], t.row.key)
<1>0. TasksOK /\ HostInv /\ HostTypeOK /\ LedgerOK(L, answered)
  BY HostOfAssumption, LoadedOK DEF CoordinatorInv, HostInv
<1>1. /\ t \in Tasks /\ tasks \in [Calls -> Tasks] /\ t.op \in Operations
      /\ t.row \in OperationRows /\ t.row # None /\ t.row.key \in Keys
      /\ t.kind \in { "rollover", "resume" }
      /\ t.kind = "resume" => /\ t.row.state \in AcknowledgedStates
                              /\ t.document # None /\ t.at \in Sending
      /\ t.kind # "resume" => t.row.state \in { "SuccessorCreating", "BootstrapSending" }
      /\ t.session # None => t.session.id \in Sessions /\ t.session.provider # None
      /\ t.at = "rollover" => t.document = None
  <2>1. t \in Tasks /\ tasks \in [Calls -> Tasks] /\ TaskOK(t, hostCalls[p], answered)
    BY <1>0, AtFacts
  <2>2. t.op \in Operations /\ t.row \in OperationRows /\ t.row # None
    BY <2>1, TaskFields DEF TaskOK, Reconciling, NeedsRow, Points
  <2> QED
    BY <2>1, <2>2 DEF TaskOK, Reconciling, NeedsDocument, Sending, OperationRows
<1>2. /\ Section(HostOf[p], p) /\ Loads(HostOf[p]) /\ answered' = answered
      /\ UNCHANGED repositoryVars
  BY DEF Reconciles
<1>3. CASE session # None /\ Bootstraps(p, Reconciled(t, session))
  <2>1. t.row.key \in KeysOf(L) /\ session = L[t.row.key].session /\ session.provider # None
    BY <1>1, <1>3 DEF SessionOfKey, KeysOf
  <2>2. session \in HostSessions /\ session.id \in Sessions /\ session.key = t.row.key
    BY <1>0, <2>1, RecordFacts
  <2> HIDE DEF session
  <2> DEFINE n == Reconciled(t, session)
  <2>3. /\ n \in Tasks
        /\ IF n.at = "bootstrapping" THEN Prepared(n)
                                     ELSE \A call, acks : TaskOK(n, call, acks)
        /\ RowFrom(p, n) /\ KeyFrom(p, n) /\ DocumentFrom(p, n) /\ SessionFrom(p, n)
        /\ n.at = "bootstrapping" => n.session = session
    BY <1>0, <1>3, <2>1, <2>2, ReconciledOK
  <2>4. Bootstraps(p, n)
    BY <1>3
  <2> HIDE DEF n
  <2>5. /\ \E m : Takes(p, m)
        /\ hostCalls' = [hostCalls EXCEPT ![p] = hostCalls'[p]]
        /\ hostCalls'[p] \in HostCalls /\ \A acks : CallOK(hostCalls'[p], acks)
        /\ \/ hostCalls'[p] = IdleCall
           \/ /\ hostCalls'[p].phase = "bind" /\ hostCalls'[p].session = n.session
              /\ n.at = "bootstrapping" /\ tasks'[p] = n
    BY <1>0, <2>3, <2>4, BootstrapsTakes
  <2>6. LoadsFor(p)
    BY <1>2, <2>1, <2>2, <2>3, <2>5 DEF LoadsFor
  <2> QED
    BY <1>2, <2>5, <2>6 DEF CallStep, Transacts, HostPart
<1>4. CASE /\ session = None
           /\ tasks' = [tasks EXCEPT ![p].at = "creating"]
           /\ RequestsCreation(p, CreationRequest(t.row, t.op))
  <2> DEFINE n == [t EXCEPT !.at = "creating"]
  <2>1. /\ n \in Tasks /\ n.at = "creating" /\ n.kind = t.kind /\ n.op = t.op /\ n.row = t.row
        /\ n.document = t.document /\ n.session = t.session
    BY <1>1 DEF Tasks, Points
  <2>2. tasks'[p] = n
    BY <1>1, <1>4
  <2>3. /\ hostCalls' = [hostCalls EXCEPT ![p] = hostCalls'[p]]
        /\ hostCalls'[p] \in HostCalls
        /\ \A acks : CallOK(hostCalls'[p], acks)
        /\ hostCalls'[p].phase = "intent"
        /\ hostCalls'[p].session = CreationRequest(t.row, t.op)
        /\ CreationRequest(t.row, t.op) # None /\ CreationRequest(t.row, t.op).key = t.row.key
    BY <1>0, <1>1, <1>4, CreationRequested
  <2> HIDE DEF n, session
  <2>4. WaitsFor(n, hostCalls'[p])
    BY <2>1, <2>3 DEF WaitsFor, Creating
  <2>5. TaskOK(n, hostCalls'[p], answered')
    BY <1>1, <2>1, <2>4 DEF TaskOK, NeedsRow, NeedsSession, NeedsDocument
  <2>6. Takes(p, n)
    <3>1. CASE t.at \in Sending
      BY <1>0, <1>4, <2>5, <3>1, PointTakes DEF Points, n
    <3>2. CASE t.at \notin Sending
      <4>1. n.key = t.key /\ t.document = None /\ tasks' = [tasks EXCEPT ![p] = n]
        BY <1>1, <1>4, <3>2 DEF Tasks, Reconciling, Sending, n
      <4> QED
        BY <2>1, <2>5, <4>1, <1>1 DEF Takes, RowFrom, KeyFrom, DocumentFrom, SessionFrom
    <3> QED
      BY <3>1, <3>2
  <2>7. LoadsFor(p)
    BY <1>2, <1>4, <2>1, <2>2, <2>3 DEF LoadsFor, session
  <2> QED
    BY <1>2, <2>6, <2>7 DEF CallStep, Transacts, HostPart
<1> QED
  BY <1>3, <1>4 DEF Reconciles

\* reconcileSession for a rollover, and for a resume.
LEMMA ReconcilesSteps ==
  ASSUME CoordinatorInv, NEW p \in Calls, RolloverReconciles(p) \/ ResumeReconciles(p)
  PROVE  CallStep(p)
<1>1. Reconciling(tasks[p]) /\ tasks[p].at # "creating" /\ Reconciles(p)
  BY DEF RolloverReconciles, ResumeReconciles, Reconciling, AtState
<1> QED
  BY <1>1, ReconcilesStep

\* A failed host call is recorded by a rollover, and ends a resume.
LEMMA HostCallFailedStep ==
  ASSUME CoordinatorInv, NEW p \in Calls, HostCallFailed(p)
  PROVE  CallStep(p)
<1>1. TasksOK /\ HostInv /\ tasks[p].at \in NeedsRow
  BY DEF CoordinatorInv, HostCallFailed, NeedsRow, Points
<1>2. Returns(p)
  BY <1>1, ReturnIsOutside DEF HostCallFailed
<1>3. CASE Ends(p) /\ UNCHANGED repositoryVars
  BY <1>2, <1>3, IdleTakes DEF CallStep, Transacts, HostPart
<1>4. CASE RecordsRetry(p)
  BY <1>1, <1>2, <1>4, RecordsRetryTransacts DEF CallStep, HostPart
<1> QED
  BY <1>3, <1>4 DEF HostCallFailed

\* The acknowledgement a call gets from the host is the provider's.
LEMMA AwaitsAcknowledgementStep ==
  ASSUME CoordinatorInv, NEW p \in Calls, AwaitsAcknowledgement(p)
  PROVE  CallStep(p)
<1> DEFINE t == tasks[p]
<1>1. /\ TasksOK /\ HostInv /\ HostTypeOK /\ tasks \in [Calls -> Tasks]
      /\ t \in Tasks /\ TaskOK(t, hostCalls[p], answered) /\ t.at = "bootstrapping"
  BY AtFacts DEF CoordinatorInv, HostInv, AwaitsAcknowledgement
<1>2. /\ t.op \in Operations /\ t.row # None /\ t.session # None
      /\ t.session.id \in Sessions /\ t.session.provider # None
      /\ t.document # None /\ t.document \in Documents
      /\ t.kind \in { "rollover", "resume" }
      /\ t.kind = "resume" => t.row.state \in AcknowledgedStates
      /\ ForItsRow(t) /\ t.session.id = t.document.successor
      /\ hostCalls[p].session = t.session /\ hostCalls[p].digest = Digest(t.document)
  BY <1>1, TaskFields
  DEF TaskOK, WaitsFor, NeedsRow, NeedsSession, NeedsDocument, Points
<1>3. Answer(t.session, Digest(t.document)) \in answered
  <2>1. Digest(t.document) # None
    BY <1>2, HostNoneAssumption DEF Digest, Digests, Documents
  <2> QED
    BY <1>1, <1>2, <2>1 DEF AwaitsAcknowledgement, HostInv, CallsOK, CallOK
<1>4. /\ HostReturns(p) /\ Section(HostOf[p], p) /\ Loads(HostOf[p])
      /\ answered' = answered /\ UNCHANGED repositoryVars
  BY DEF AwaitsAcknowledgement
<1>5. LoadsFor(p)
  BY <1>1, <1>4, ReturnedCall DEF LoadsFor
<1>6. CASE tasks' = [tasks EXCEPT ![p] = HostFailed(t)]
  <2>1. CASE HostFailed(t) = IdleTask
    BY <1>6, <2>1, IdleTakes, <1>4, <1>5 DEF Ends, CallStep, Transacts, HostPart
  <2>2. CASE HostFailed(t) = [t EXCEPT !.at = "retry"]
    <3>1. tasks' = [tasks EXCEPT ![p].at = "retry"]
      BY <1>1, <1>6, <2>2
    <3>2. \E n : Takes(p, n)
      BY <1>1, <3>1, RetryTakes DEF NeedsRow, Points
    <3> QED
      BY <3>2, <1>4, <1>5 DEF CallStep, Transacts, HostPart
  <2> QED
    BY <2>1, <2>2 DEF HostFailed
<1>7. ASSUME NEW at \in { "seal", "acknowledge" }, at = "seal" <=> t.kind = "resume",
             tasks' = [tasks EXCEPT ![p] = [t EXCEPT !.at = at]]
      PROVE  \E n : Takes(p, n)
  <2> DEFINE n == [t EXCEPT !.at = at]
  <2>1. /\ n.at = at /\ n.op = t.op /\ n.row = t.row /\ n.key = t.key /\ n.kind = t.kind
        /\ n.document = t.document /\ n.session = t.session
    BY <1>1 DEF Tasks
  <2> HIDE DEF n
  <2>2. ForItsRow(n)
    BY <1>1, <1>2, <1>7, <2>1 DEF ForItsRow
  <2>3. TaskOK(n, hostCalls'[p], answered')
    BY <1>2, <1>3, <1>4, <1>7, <2>1, <2>2
    DEF TaskOK, NeedsRow, NeedsSession, NeedsDocument, WaitsFor
  <2>4. tasks' = [tasks EXCEPT ![p].at = at]
    BY <1>1, <1>7
  <2> QED
    BY <1>1, <2>3, <2>4, PointTakes DEF n, Points, Sending
<1> QED
  BY <1>4, <1>5, <1>6, <1>7 DEF AwaitsAcknowledgement, CallStep, Transacts, HostPart

\* The acknowledgement is committed, or refused.
LEMMA RolloverAcknowledgesStep ==
  ASSUME CoordinatorInv, NEW p \in Calls, RolloverAcknowledges(p)
  PROVE  CallStep(p)
<1> DEFINE t == tasks[p]
<1>1. /\ HInv /\ TasksOK /\ t.at = "acknowledge" /\ UNCHANGED hostVars
  BY DEF CoordinatorInv, RolloverAcknowledges
<1>2. CASE UNCHANGED repositoryVars /\ Ends(p)
  BY <1>1, <1>2, IdleTakes DEF CallStep, Transacts, HostPart
<1>3. CASE /\ Acknowledge(t.op, Acknowledgement(t))
           /\ tasks' = [tasks EXCEPT ![p] = WithRow(t, operations'[t.op])]
  <2>1. /\ t \in Tasks /\ t.kind = "rollover" /\ t.op \in Operations
        /\ t.session # None /\ t.document # None /\ t.session.id \in Sessions
    BY <1>1, AtFacts DEF TaskOK, NeedsSession, NeedsDocument
  <2>2. operations'[t.op] \in OperationRows
    BY <1>1, <1>3, <2>1, AcknowledgeResult
  <2>3. \E n : Takes(p, n)
    BY <1>1, <1>3, <2>1, <2>2, WithRowTakes
  <2> QED
    BY <1>1, <1>3, <2>3 DEF CallStep, Transacts, HostPart
<1> QED
  BY <1>2, <1>3 DEF RolloverAcknowledges

\* A resume begins with the durable document.
LEMMA StartResumeStep ==
  ASSUME CoordinatorInv, NEW p \in Calls, StartResume(p)
  PROVE  CallStep(p)
<1>1. PICK o \in Operations :
        /\ handoffs[o] # None
        /\ tasks' = [tasks EXCEPT ![p] =
             [IdleTask EXCEPT !.kind = "resume", !.at = "resume", !.op = o,
                              !.document = Document(o)]]
  BY DEF StartResume
<1>2. PICK d \in Documents : d = Document(o) /\ d # None
  BY <1>1, DocumentFields DEF CoordinatorInv, HInv
<1> DEFINE n == [IdleTask EXCEPT !.kind = "resume", !.at = "resume", !.op = o,
                                 !.document = d]
<1>3. tasks' = [tasks EXCEPT ![p] = n]
  BY <1>1, <1>2
<1>4. /\ n \in Tasks /\ n.at = "resume" /\ n.kind = "resume" /\ n.op = o
      /\ n.document = d /\ n.row = IdleTask.row /\ n.session = IdleTask.session
      /\ n.key = IdleTask.key
  BY IdleTaskOK DEF Tasks, Points
<1>5. n.row = None /\ n.session = None /\ n.key = None
  BY <1>4 DEF IdleTask
<1> HIDE DEF n
<1>6. TaskOK(n, hostCalls'[p], answered')
  BY <1>2, <1>4, <1>5 DEF TaskOK, NeedsRow, NeedsSession, NeedsDocument, WaitsFor
<1>7. Takes(p, n)
  BY <1>1, <1>2, <1>3, <1>4, <1>5, <1>6 DEF Takes, RowFrom, KeyFrom, DocumentFrom, SessionFrom
<1> QED
  BY <1>7 DEF StartResume, CallStep, Transacts, HostPart

\* A call keeps what it has and takes the row it has read, or written.
LEMMA RowTakes ==
  ASSUME TasksOK, NEW p \in Calls, tasks[p].at \in { "resume", "seal", "cancelling" },
         NEW row \in OperationRows,
         row = operations[tasks[p].op] \/ row = operations'[tasks[p].op],
         IF tasks[p].at = "cancelling" THEN row.state \notin TerminalStates
                                       ELSE row.state \in AcknowledgedStates,
         tasks' = [tasks EXCEPT ![p].row = Copy(row)]
  PROVE  \E n : Takes(p, n)
<1> DEFINE t == tasks[p]
<1>1. /\ t \in Tasks /\ tasks \in [Calls -> Tasks] /\ t.op \in Operations
      /\ TaskOK(t, hostCalls[p], answered)
  BY AtFacts
<1>2. PICK c \in OperationRows : c = Copy(row) /\ c # None /\ c.state = row.state
  BY CopyFields
<1> DEFINE n == [t EXCEPT !.row = c]
<1>3. tasks' = [tasks EXCEPT ![p] = n]
  BY <1>1, <1>2
<1>4. /\ n \in Tasks /\ n.at = t.at /\ n.kind = t.kind /\ n.op = t.op /\ n.row = c
      /\ n.key = t.key /\ n.document = t.document /\ n.session = t.session
  BY <1>1 DEF Tasks
<1> HIDE DEF n
<1>5. TaskOK(n, hostCalls'[p], answered')
  BY <1>1, <1>2, <1>4 DEF TaskOK, NeedsRow, NeedsSession, NeedsDocument, WaitsFor
<1>6. Takes(p, n)
  BY <1>1, <1>2, <1>3, <1>4, <1>5
  DEF Takes, RowFrom, KeyFrom, DocumentFrom, SessionFrom, Sending
<1> QED
  BY <1>6

\* It goes on only with an acknowledged row.
LEMMA ResumeReadsStep ==
  ASSUME CoordinatorInv, NEW p \in Calls, ResumeReads(p)
  PROVE  CallStep(p)
<1> DEFINE t == tasks[p]
<1>1. /\ HInv /\ TasksOK /\ t.at = "resume" /\ UNCHANGED hostVars /\ UNCHANGED repositoryVars
  BY DEF CoordinatorInv, ResumeReads
<1>2. CASE Ends(p)
  BY <1>1, <1>2, IdleTakes DEF CallStep, Transacts, HostPart
<1>3. CASE /\ Exists(t.op) /\ operations[t.op].state \in AcknowledgedStates
           /\ tasks' = [tasks EXCEPT ![p].row = Copy(operations[t.op])]
  <2>1. operations[t.op] \in OperationRows
    BY <1>1, <1>3, AtFacts DEF Exists, HInv, IInv, TypeOK
  <2>2. \E n : Takes(p, n)
    BY <1>1, <1>3, <2>1, RowTakes
  <2> QED
    BY <1>1, <2>2 DEF CallStep, Transacts, HostPart
<1> QED
  BY <1>2, <1>3 DEF ResumeReads

\* It seals and publishes.
LEMMA ResumeSealsStep ==
  ASSUME CoordinatorInv, NEW p \in Calls, ResumeSeals(p)
  PROVE  CallStep(p)
<1> DEFINE t == tasks[p]
<1> DEFINE next == IF t.row.state = "Acknowledged" THEN "PredecessorSealing" ELSE "Completed"
<1>1. /\ HInv /\ TasksOK /\ t.at = "seal" /\ UNCHANGED hostVars /\ t.at \in NeedsRow
      /\ t.row.successor \in Sessions \cup {None}
  BY RowSuccessorOK DEF CoordinatorInv, ResumeSeals, NeedsRow, Points
<1>2. CASE UNCHANGED repositoryVars /\ Ends(p)
  BY <1>1, <1>2, IdleTakes DEF CallStep, Transacts, HostPart
<1>3. CASE Refused(p, next, t.row.successor) /\ Ends(p)
  BY <1>1, <1>3, RefusedTransacts, IdleTakes DEF CallStep, HostPart
<1>4. CASE /\ Sets(p, next, t.row.successor)
           /\ IF operations'[t.op].state = "PredecessorSealing"
                THEN tasks' = [tasks EXCEPT ![p].row = Copy(operations'[t.op])]
                ELSE Ends(p)
  <2>1. Transacts(p) /\ operations'[t.op] \in OperationRows
    BY <1>1, <1>4, SetTransacts
  <2>2. \E n : Takes(p, n)
    BY <1>1, <1>4, <2>1, RowTakes, IdleTakes DEF AcknowledgedStates
  <2> QED
    BY <1>1, <2>1, <2>2 DEF CallStep, HostPart
<1> QED
  BY <1>2, <1>3, <1>4 DEF ResumeSeals

\* A recovery that gives up begins with the row of the active operation.
LEMMA StartCancelRecoveryStep ==
  ASSUME CoordinatorInv, NEW p \in Calls, StartCancelRecovery(p)
  PROVE  CallStep(p)
<1>1. PICK o \in Operations :
        /\ operations[o] # None /\ operations[o].state \notin TerminalStates
        /\ tasks' = [tasks EXCEPT ![p] =
             [IdleTask EXCEPT !.kind = "cancel recovery", !.at = "cancelling", !.op = o,
                              !.row = Copy(operations[o])]]
  BY DEF StartCancelRecovery, ActiveOperations, Exists
<1>2. operations[o] \in OperationRows
  BY <1>1 DEF CoordinatorInv, HInv, IInv, TypeOK
<1>3. PICK c \in OperationRows : /\ c = Copy(operations[o]) /\ c # None
                                 /\ c.state = operations[o].state
  BY <1>2, CopyFields
<1> DEFINE n == [IdleTask EXCEPT !.kind = "cancel recovery", !.at = "cancelling", !.op = o,
                                 !.row = c]
<1>4. tasks' = [tasks EXCEPT ![p] = n]
  BY <1>1, <1>3
<1>5. /\ n \in Tasks /\ n.at = "cancelling" /\ n.op = o /\ n.row = c
      /\ n.document = IdleTask.document /\ n.session = IdleTask.session
      /\ n.key = IdleTask.key
  BY IdleTaskOK DEF Tasks, Points
<1>6. n.document = None /\ n.session = None /\ n.key = None
  BY <1>5 DEF IdleTask
<1> HIDE DEF n
<1>7. TaskOK(n, hostCalls'[p], answered')
  BY <1>1, <1>3, <1>5, <1>6 DEF TaskOK, NeedsRow, NeedsSession, NeedsDocument, WaitsFor
<1>8. Takes(p, n)
  BY <1>1, <1>3, <1>4, <1>5, <1>6, <1>7
  DEF Takes, RowFrom, KeyFrom, DocumentFrom, SessionFrom
<1> QED
  BY <1>8 DEF StartCancelRecovery, CallStep, Transacts, HostPart

\* It cancels in two transitions.
LEMMA RecoveryCancelsStep ==
  ASSUME CoordinatorInv, NEW p \in Calls, RecoveryCancels(p)
  PROVE  CallStep(p)
<1> DEFINE t == tasks[p]
<1> DEFINE next == IF t.row.state = "Cancelling" THEN "Cancelled" ELSE "Cancelling"
<1>1. /\ HInv /\ TasksOK /\ t.at = "cancelling" /\ UNCHANGED hostVars /\ t.at \in NeedsRow
      /\ t.row.successor \in Sessions \cup {None}
  BY RowSuccessorOK DEF CoordinatorInv, RecoveryCancels, NeedsRow, Points
<1>2. CASE Refused(p, next, t.row.successor) /\ Ends(p)
  BY <1>1, <1>2, RefusedTransacts, IdleTakes DEF CallStep, HostPart
<1>3. CASE /\ Sets(p, next, t.row.successor)
           /\ IF next = "Cancelling"
                THEN tasks' = [tasks EXCEPT ![p].row = Copy(operations'[t.op])]
                ELSE Ends(p)
  <2>1. /\ Transacts(p) /\ operations'[t.op] \in OperationRows
        /\ operations'[t.op].state = next
    BY <1>1, <1>3, SetTransacts
  <2>2. CASE next = "Cancelling"
    <3>1. operations'[t.op].state \notin TerminalStates
      BY <2>1, <2>2 DEF TerminalStates
    <3>2. \E n : Takes(p, n)
      BY <1>1, <1>3, <2>1, <2>2, <3>1, RowTakes
    <3> QED
      BY <1>1, <2>1, <3>2 DEF CallStep, HostPart
  <2>3. CASE next # "Cancelling"
    BY <1>1, <1>3, <2>1, <2>3, IdleTakes DEF CallStep, HostPart
  <2> QED
    BY <2>2, <2>3
<1> QED
  BY <1>2, <1>3 DEF RecoveryCancels

--------------------------------------------------------------------------------
(* The host's own steps, and faults                                        *)

\* What a call has is as good when its host call goes on and more is acknowledged.
LEMMA TaskGoesOn ==
  ASSUME NEW t, NEW call, NEW next, NEW acks, NEW more, TaskOK(t, call, acks),
         acks \subseteq more, WaitsFor(t, next)
  PROVE  TaskOK(t, next, more)
BY DEF TaskOK

\* A call that is not moved keeps what it has.
LEMMA SameTakes ==
  ASSUME TasksOK, NEW p \in Calls, tasks' = tasks, answered \subseteq answered',
         WaitsFor(tasks[p], hostCalls'[p])
  PROVE  Takes(p, tasks[p])
<1>1. tasks[p] \in Tasks /\ tasks \in [Calls -> Tasks] /\ TaskOK(tasks[p], hostCalls[p], answered)
  BY AtFacts
<1>2. TaskOK(tasks[p], hostCalls'[p], answered')
  BY <1>1, TaskGoesOn
<1>3. tasks[p].at \in Sending => tasks[p].op = tasks[p].op
  OBVIOUS
<1> QED
  BY <1>1, <1>2 DEF Takes, RowFrom, KeyFrom, DocumentFrom, SessionFrom

\* The host goes on with a call.
LEMMA HostWorksStep ==
  ASSUME CoordinatorInv, NEW p \in Calls, HostWorks(p)
  PROVE  CallStep(p)
<1>1. /\ TasksOK /\ HostInv /\ HostStep(p, KnownSessions) /\ tasks' = tasks
      /\ UNCHANGED repositoryVars
  BY DEF CoordinatorInv, HostWorks
<1>2. answered \subseteq answered'
  <2>1. CallOutside(p) \/ \E ledger : CallSection(p, ledger)
    BY <1>1, HostStepKinds
  <2> QED
    BY <2>1 DEF CallOutside, CallSection, Advances
<1>3. WaitsFor(tasks[p], hostCalls'[p])
  <2>1. WaitsFor(tasks[p], hostCalls[p])
    BY <1>1 DEF TasksOK, TaskOK
  <2>2. \/ hostCalls[p].phase \in Creating /\ CreationGoesOn(p)
        \/ hostCalls[p].phase \in Bootstrapped /\ BootstrapGoesOn(p)
    BY <1>1, HostStepMoves
  <2> QED
    BY <2>1, <2>2 DEF WaitsFor, CreationGoesOn, BootstrapGoesOn, Creating, Bootstrapped
<1>4. Takes(p, tasks[p])
  BY <1>1, <1>2, <1>3, SameTakes
<1> QED
  BY <1>1, <1>4 DEF CallStep, Transacts, HostPart

\* The host call fails, at any point.
LEMMA HostFaltersStep ==
  ASSUME CoordinatorInv, NEW p \in Calls, HostFalters(p)
  PROVE  CallStep(p)
<1>1. TasksOK /\ HostInv /\ HostTypeOK /\ UNCHANGED repositoryVars
  BY DEF CoordinatorInv, HostInv, HostFalters
<1>2. CASE CallFails(p) /\ UNCHANGED tasks
  <2>1. /\ CallOutside(p) /\ answered' = answered
        /\ hostCalls'[p].phase = "failed" /\ hostCalls'[p].session = hostCalls[p].session
        /\ hostCalls'[p].digest = hostCalls[p].digest
    BY <1>1, <1>2, OutsideSteps, GoesFacts DEF CallFails, Phases
  <2>2. WaitsFor(tasks[p], hostCalls'[p])
    BY <1>1, <2>1 DEF TasksOK, TaskOK, WaitsFor
  <2>3. Takes(p, tasks[p])
    BY <1>1, <1>2, <2>1, <2>2, SameTakes
  <2> QED
    BY <1>1, <2>1, <2>3 DEF CallStep, Transacts, HostPart, Returns
<1>3. CASE /\ tasks[p].at = "rollover"
           /\ tasks' = [tasks EXCEPT ![p].at = "retry"]
           /\ UNCHANGED hostVars
  BY <1>1, <1>3, RetryTakes DEF CallStep, Transacts, HostPart, NeedsRow, Points
<1>4. CASE /\ tasks[p].at = "bootstrapping"
           /\ tasks' = [tasks EXCEPT ![p] = HostFailed(tasks[p])]
           /\ HostReturns(p) /\ HostUntouched
  <2>1. Returns(p)
    BY <1>1, <1>4, ReturnIsOutside
  <2>2. CASE HostFailed(tasks[p]) = IdleTask
    BY <1>1, <1>4, <2>1, <2>2, IdleTakes DEF Ends, CallStep, Transacts, HostPart
  <2>3. CASE HostFailed(tasks[p]) = [tasks[p] EXCEPT !.at = "retry"]
    <3>1. tasks' = [tasks EXCEPT ![p].at = "retry"]
      BY <1>1, <1>4, <2>3 DEF TasksOK
    <3>2. \E n : Takes(p, n)
      BY <1>1, <1>4, <3>1, RetryTakes DEF NeedsRow, Points
    <3> QED
      BY <1>1, <2>1, <3>2 DEF CallStep, Transacts, HostPart
  <2> QED
    BY <2>2, <2>3 DEF HostFailed
<1> QED
  BY <1>2, <1>3, <1>4 DEF HostFalters, AtState

\* A transaction fails whose failure is answered with a retry.
LEMMA DatabaseFaltersStep ==
  ASSUME CoordinatorInv, NEW p \in Calls, DatabaseFalters(p)
  PROVE  CallStep(p)
<1>1. /\ TasksOK /\ tasks[p].at \in NeedsRow /\ UNCHANGED repositoryVars /\ UNCHANGED hostVars
      /\ tasks' = [tasks EXCEPT ![p].at = "retry"]
  BY DEF CoordinatorInv, DatabaseFalters, AtState, NeedsRow, Points
<1> QED
  BY <1>1, RetryTakes DEF CallStep, Transacts, HostPart

\* A call is abandoned anywhere but in a commit.
LEMMA AbandonStep ==
  ASSUME CoordinatorInv, NEW p \in Calls, Abandon(p)
  PROVE  CallStep(p)
<1>1. HostInv /\ Ends(p) /\ HostReturns(p) /\ HostUntouched /\ UNCHANGED repositoryVars
  BY DEF CoordinatorInv, Abandon
<1> QED
  BY <1>1, ReturnIsOutside, IdleTakes DEF CallStep, Transacts, HostPart

--------------------------------------------------------------------------------
(* Every step is one of a call's, or one of the six others                 *)

\* A call proceeds in steps of the kind described above.
LEMMA ProceedStep ==
  ASSUME CoordinatorInv, NEW p \in Calls, Proceed(p)
  PROVE  CallStep(p)
<1>1. HInv /\ TasksOK
  BY DEF CoordinatorInv
<1> QED
  BY <1>1, CheckpointCreatesStep, CheckpointResumesStep, CheckpointStoresStep,
     CheckpointIntendsStep, RolloverReadsStep, RolloverPreparesStep,
     RolloverTransitionsStep, ReconcilesSteps, SuccessorIsCreatedStep,
     RolloverReadsDocumentStep, AwaitsAcknowledgementStep, RolloverAcknowledgesStep,
     RolloverPublishesStep, RolloverResumesStep, RolloverRecordsRetryStep,
     HostCallFailedStep, ResumeReadsStep, ResumeSealsStep, RecoveryCancelsStep,
     HostWorksStep
  DEF Proceed

\* The steps of the specification.
LEMMA CoordinatorSteps ==
  ASSUME CoordinatorInv, Next
  PROVE  \/ \E p \in Calls : CallStep(p)
         \/ \E h \in Hosts : ProcessRestarts(h)
         \/ HostIsCancelled \/ ClientAcknowledges \/ ProjectReset \/ TimePasses
<1>1. HInv /\ TasksOK
  BY DEF CoordinatorInv
<1>2. ASSUME NEW p \in Calls,
             \/ StartCheckpoint(p) \/ StartRollover(p) \/ StartResume(p)
             \/ StartCancelRecovery(p) \/ Proceed(p) \/ HostFalters(p)
             \/ DatabaseFalters(p) \/ Abandon(p)
      PROVE  CallStep(p)
  BY <1>1, <1>2, StartCheckpointStep, StartRolloverStep, StartResumeStep,
     StartCancelRecoveryStep, ProceedStep, HostFaltersStep, DatabaseFaltersStep, AbandonStep
<1> QED
  BY <1>2 DEF Next

\* Faults are counted up to their bound.
LEMMA FaultsBounded ==
  ASSUME faults \in 0 .. MaxFaults, Next
  PROVE  faults' \in 0 .. MaxFaults
<1>1. ASSUME NEW kind, Fault(kind)
      PROVE  faults' \in 0 .. MaxFaults
  BY <1>1, FaultsAssumption DEF Fault
<1>2. ASSUME NEW p \in Calls, Proceed(p)
      PROVE  faults' = faults
  BY <1>2
  DEF Proceed, CheckpointCreates, CheckpointResumes, CheckpointStores, CheckpointIntends,
      CheckpointPersists, RolloverReads, RolloverPrepares, RolloverIntendsCreation,
      RolloverMoves, RolloverReconciles, Reconciles, SuccessorIsCreated,
      RolloverIntroduces, RolloverIntendsBootstrap, RolloverReadsDocument,
      AwaitsAcknowledgement, RolloverAcknowledges, RolloverSeals, RolloverPublishes,
      RolloverResumes, RolloverCancels, RolloverRecordsRetry, HostCallFailed,
      ResumeReads, ResumeReconciles, ResumeSeals, RecoveryCancels, HostWorks
<1>3. ASSUME NEW p \in Calls,
             StartCheckpoint(p) \/ StartRollover(p) \/ StartResume(p) \/ StartCancelRecovery(p)
      PROVE  faults' = faults
  BY <1>3 DEF StartCheckpoint, StartRollover, StartResume, StartCancelRecovery
<1>4. ASSUME NEW p \in Calls, HostFalters(p) \/ DatabaseFalters(p) \/ Abandon(p)
      PROVE  faults' \in 0 .. MaxFaults
  BY <1>1, <1>4 DEF HostFalters, DatabaseFalters, Abandon
<1>5. ASSUME (\E h \in Hosts : ProcessRestarts(h)) \/ HostIsCancelled
      PROVE  faults' \in 0 .. MaxFaults
  BY <1>1, <1>5 DEF ProcessRestarts, HostIsCancelled
<1>6. ASSUME ClientAcknowledges \/ ProjectReset \/ TimePasses
      PROVE  faults' = faults
  BY <1>6 DEF ClientAcknowledges, ProjectReset, TimePasses
<1> QED
  BY <1>2, <1>3, <1>4, <1>5, <1>6 DEF Next

--------------------------------------------------------------------------------
(* The tables                                                              *)

\* The transaction of a call is one of the repository's.
LEMMA TransactionIsStep ==
  ASSUME HInv, TasksOK, NEW p \in Calls, Transacts(p)
  PROVE  RepositoryStep
<1> DEFINE t == tasks[p]
<1>1. t \in Tasks /\ TaskOK(t, hostCalls[p], answered)
  BY AtFacts
<1>2. CASE UNCHANGED repositoryVars
  BY <1>2 DEF RepositoryStep
<1>3. CASE Submission(t) \in Requests /\ CreateOperation(Submission(t))
  BY <1>3, CreateResult
<1>4. CASE /\ t.op \in Operations
           /\ \E next \in ContinuityStates, successor \in Sessions \cup {None} :
                CompareAndSet(t.op, t.row.state, next, successor)
  BY <1>4, SetResult
<1>5. CASE t.at = "acknowledge" /\ Acknowledge(t.op, Acknowledgement(t))
  <2>1. /\ t.op \in Operations /\ t.session # None /\ t.document # None
        /\ t.session.id \in Sessions
    BY <1>5, AtFacts DEF NeedsSession, NeedsDocument, TaskOK
  <2> QED
    BY <1>1, <1>5, <2>1, AcknowledgeResult
<1>6. CASE t.op \in Operations /\ t.row # None /\ RecordRetry(t.op, t.row.state)
  <2>1. t.row.state \in ContinuityStates
    BY <1>1, <1>6, TaskFields DEF OperationRows
  <2> QED
    BY <1>6, <2>1, RetryResult
<1> QED
  BY <1>2, <1>3, <1>4, <1>5, <1>6 DEF Transacts

\* Acknowledgements are written on, and deleted from, both tables together.
LEMMA TogetherKept ==
  ASSUME HInv, AcknowledgedTogether, RepositoryStep
  PROVE  AcknowledgedTogether'
<1> SUFFICES ASSUME NEW o \in Operations, handoffs'[o] # None,
                    handoffs'[o].acknowledged # None
             PROVE  operations'[o] # None /\ operations'[o].acknowledged = handoffs'[o].acknowledged
  BY DEF AcknowledgedTogether
<1> DEFINE Kept ==
      /\ handoffs[o] # None /\ handoffs'[o].acknowledged = handoffs[o].acknowledged
      /\ operations[o] # None =>
           operations'[o] # None /\ operations'[o].acknowledged = operations[o].acknowledged
<1>0. /\ operations \in [Operations -> OperationRows \cup {None}]
      /\ handoffs \in [Operations -> HandoffRows \cup {None}] /\ IInv
  BY DEF HInv, IInv, TypeOK
<1>1. Kept => operations'[o] # None /\ operations'[o].acknowledged = handoffs'[o].acknowledged
  BY DEF AcknowledgedTogether
<1>2. CASE UNCHANGED repositoryVars
  BY <1>1, <1>2 DEF repositoryVars
<1>3. ASSUME NEW r \in Requests, CreateOperation(r), ~UNCHANGED repositoryVars
      PROVE  Kept
  <2>1. handoffs' = [handoffs EXCEPT ![r.operation] =
          [ content |-> r.content, successor |-> r.successor, acknowledged |-> None ]]
    BY <1>3 DEF CreateOperation
  <2>2. OnlyRow(r.operation) /\ r.operation \in Operations
    BY <1>0, <1>3, CreateMoves
  <2>3. o # r.operation
    BY <1>0, <2>1, <2>2
  <2> QED
    BY <1>0, <2>1, <2>2, <2>3 DEF OnlyRow
<1>4. ASSUME NEW u \in Operations, NEW next \in ContinuityStates,
             NEW successor \in Sessions \cup {None},
             Exists(u), CompareAndSet(u, operations[u].state, next, successor),
             ~UNCHANGED repositoryVars
      PROVE  Kept
  <2>1. /\ OnlyRow(u) /\ operations'[u] # None
        /\ operations'[u] = Moved(operations[u], next, 1, ChosenSuccessor(u, successor),
                                  operations[u].acknowledged, None)
    BY <1>0, <1>4, SetMoves
  <2>2. operations'[u].acknowledged = operations[u].acknowledged
    BY <2>1 DEF Moved
  <2>3. \/ handoffs' = handoffs
        \/ \E s : handoffs' = [handoffs EXCEPT ![u].successor = s]
    BY <1>4 DEF CompareAndSet
  <2>4. handoffs[o] # None
    BY <1>0, <1>4, <2>1, <2>3 DEF OnlyRow, IInv, HandoffWithOperation, Exists
  <2>5. handoffs'[o].acknowledged = handoffs[o].acknowledged
    BY <1>0, <2>3, <2>4 DEF HandoffRows
  <2> QED
    BY <2>1, <2>2, <2>4, <2>5 DEF OnlyRow
<1>5. ASSUME NEW u \in Operations, NEW ack \in Acknowledgements, Acknowledge(u, ack),
             ~UNCHANGED repositoryVars
      PROVE  \/ Kept
             \/ operations'[o] # None /\ operations'[o].acknowledged = handoffs'[o].acknowledged
  <2>1. /\ OnlyRow(u) /\ operations'[u] # None
        /\ handoffs' = [handoffs EXCEPT ![u].acknowledged = ack.successor]
    BY <1>0, <1>5, AcknowledgeMoves
  <2>2. handoffs[u] # None /\ operations[u] # None
    BY <1>5 DEF Acknowledge, AcknowledgeAccepts, Exists
  <2>3. operations'[u].acknowledged = ack.successor
    BY <1>0, <1>5, <2>2 DEF Acknowledge, Moved
  <2>4. handoffs'[u].acknowledged = ack.successor
    BY <1>0, <2>1, <2>2 DEF HandoffRows
  <2>5. CASE o = u
    BY <2>1, <2>3, <2>4, <2>5
  <2>6. CASE o # u
    BY <1>0, <2>1, <2>6 DEF OnlyRow
  <2> QED
    BY <2>5, <2>6
<1>6. ASSUME NEW u \in Operations, NEW resume \in RetryResumeStates, RecordRetry(u, resume)
      PROVE  Kept
  <2>1. OnlyRow(u) /\ Exists(u) /\ handoffs' = handoffs
    BY <1>0, <1>6, RetryMoves
  <2>2. operations'[u] # None /\ operations'[u].acknowledged = operations[u].acknowledged
    <3>1. operations[u] \in OperationRows
      BY <1>0, <2>1 DEF Exists
    <3>2. HInv'
      BY StepKeeps, EarlyKeeps DEF RepositoryStep, HInv
    <3>3. operations'[u] # None
      BY <1>6, <2>1, <3>2 DEF HInv, IInv, HandoffWithOperation, Exists, TypeOK
    <3>4. CASE operations' = [operations EXCEPT ![u].retryDue = FALSE]
      BY <1>0, <3>1, <3>3, <3>4 DEF OperationRows
    <3>5. CASE operations' = [operations EXCEPT ![u] =
                 Moved(operations[u], "RetryWait", 2, operations[u].successor,
                       operations[u].acknowledged, resume)]
      BY <1>0, <3>1, <3>3, <3>5 DEF Moved
    <3> QED
      BY <1>6, <3>4, <3>5 DEF RecordRetry
  <2> QED
    BY <2>1, <2>2 DEF OnlyRow
<1>7. CASE ResetContinuity
  BY <1>7 DEF ResetContinuity
<1>8. CASE RetryTimePasses
  <2>1. handoffs' = handoffs
    BY <1>8 DEF RetryTimePasses
  <2>2. ASSUME operations[o] # None
        PROVE  operations'[o] # None /\ operations'[o].acknowledged = operations[o].acknowledged
    <3>1. operations[o] \in OperationRows
      BY <1>0, <2>2
    <3>2. \/ operations'[o] = operations[o]
          \/ operations'[o] = [operations[o] EXCEPT !.retryDue = TRUE]
      BY <1>8 DEF RetryTimePasses
    <3>3. [operations[o] EXCEPT !.retryDue = TRUE] \in OperationRows
      BY <3>1 DEF OperationRows
    <3>4. [operations[o] EXCEPT !.retryDue = TRUE].acknowledged = operations[o].acknowledged
      BY <3>1 DEF OperationRows
    <3> QED
      BY <2>2, <3>2, <3>3, <3>4
  <2> QED
    BY <1>1, <2>1, <2>2
<1>9. CASE \E r \in Requests : StoreHandoff(r)
  BY <1>0, <1>2, <1>9, StoreMovesNothing
<1> HIDE DEF Kept
<1> QED
  BY <1>1, <1>2, <1>3, <1>4, <1>5, <1>6, <1>7, <1>8, <1>9 DEF RepositoryStep, RepositoryNext

--------------------------------------------------------------------------------
(* The host                                                                *)

\* The host's invariant only reads the host's state.
LEMMA HostUnchanged ==
  ASSUME HostInv, UNCHANGED hostVars
  PROVE  /\ HostInv'
         /\ \A id, j : Named(id, j)' => Named(id, j)
BY DEF hostVars, HostInv, HostTypeOK, LedgersOK, CallsOK, Unloaded, Coherent, InTurn,
       Ledgers, Named, NamedInLedger, NamedInCall, Bound, KeysOf

\* A step of the host goes on outside its sections, or in one that adds nothing but a
\* session whose id nobody, the coordinator included, has heard of.
LEMMA HostStepAdds ==
  ASSUME HostInv, NEW p \in Calls, NEW known, HostStep(p, known)
  PROVE  \/ CallOutside(p) /\ hostCalls'[p].session = hostCalls[p].session
         \/ \E M : /\ CallSection(p, M)
                   /\ \A k \in KeysOf(M) \ KeysOf(Loaded(HostOf[p])) :
                        M[k].session.id \in FreshSessions(known)
<1> DEFINE h == HostOf[p]
<1> DEFINE L == Loaded(h)
<1> DEFINE call == hostCalls[p]
<1> DEFINE k == call.session.key
<1>0. /\ h \in Hosts /\ HostTypeOK /\ LedgerOK(L, answered) /\ memory \in [Hosts -> [Keys -> Records \cup {None}]]
      /\ L \in [Keys -> Records \cup {None}] /\ call \in HostCalls /\ CallOK(call, answered)
  BY HostOfAssumption, LoadedOK DEF HostInv, HostTypeOK, LedgerOK, CallsOK
<1>1. ASSUME NEW M, CallSection(p, M)
      PROVE  memory'[h] = M
  BY <1>0, <1>1 DEF CallSection, Advances, Commits, KeepsInMemory
<1>2. Loads(h) => memory'[h] = L
  BY <1>0 DEF Loads
<1>3. \A M, phase : Saves(p, M, phase) => memory'[h] = M
  BY <1>0 DEF Saves, Commits, FailsToCommit
<1>4. \A M : Commits(h, M) \/ FailsToCommit(h, M) => memory'[h] = M
  BY <1>0 DEF Commits, FailsToCommit
<1>5. CASE ProviderCreates(p) \/ ProviderReports(p) \/ ProviderAcknowledges(p)
  <2>1. CallOutside(p)
    BY <1>5, OutsideSteps
  <2>2. \E phase \in Phases : Goes(p, phase)
    BY <1>5 DEF ProviderCreates, ProviderReports, ProviderAcknowledges, Phases
  <2> QED
    BY <1>0, <2>1, <2>2, GoesFacts
<1>6. CASE CreateFindsRecord(p)
  BY <1>6, FindsIsSection
<1>7. CASE CreateRecordsIntent(p, known)
  <2>1. PICK M : CallSection(p, M)
    BY <1>7, RecordsIsSection
  <2>2. PICK admitting \in Admitting(L), s \in FreshSessions(known) :
          memory'[h] = [admitting EXCEPT ![k] =
            [ session |-> [call.session EXCEPT !.id = s], status |-> "Creating",
              digest |-> None, owner |-> p ]]
    BY <1>4, <1>7 DEF CreateRecordsIntent
  <2>3. call.session \in HostSessions /\ k \in Keys /\ L[k] = None
    BY <1>0, <1>7 DEF CreateRecordsIntent, CallOK, HostCalls, HostSessions
  <2>4. /\ admitting \in [Keys -> Records \cup {None}]
        /\ KeysOf(admitting) \subseteq KeysOf(L)
    BY <1>0, <2>3, AdmitOK
  <2>5. [call.session EXCEPT !.id = s].id = s
    BY <2>3 DEF HostSessions
  <2>6. ASSUME NEW j \in KeysOf(M) \ KeysOf(L)
        PROVE  M[j].session.id \in FreshSessions(known)
    <3>1. j = k
      BY <1>1, <2>1, <2>2, <2>4, <2>6 DEF KeysOf
    <3>2. M[k].session = [call.session EXCEPT !.id = s]
      BY <1>1, <2>1, <2>2, <2>3, <2>4
    <3> QED
      BY <2>5, <3>1, <3>2
  <2> QED
    BY <2>1, <2>6
<1>8. ASSUME NEW M, CallSection(p, M), KeysOf(memory'[h]) \subseteq KeysOf(L)
      PROVE  \E N : /\ CallSection(p, N)
                    /\ \A j \in KeysOf(N) \ KeysOf(L) : N[j].session.id \in FreshSessions(known)
  BY <1>1, <1>8
<1>9. CASE Publish(p)
  <2>1. \E M : CallSection(p, M)
    BY <1>9, PublishIsSection
  <2>2. CASE memory'[h] = L
    BY <1>8, <2>1, <2>2
  <2>3. CASE /\ L[k] # None
             /\ \/ memory'[h] = [L EXCEPT ![k].status = "Cancelled"]
                \/ memory'[h] = [L EXCEPT ![k] =
                     [L[k] EXCEPT !.session.provider = Pending, !.status = "Active"]]
    <3>1. KeysOf(memory'[h]) \subseteq KeysOf(L)
      BY <1>0, <2>3 DEF KeysOf
    <3> QED
      BY <1>8, <2>1, <3>1
  <2> QED
    BY <1>2, <1>3, <1>4, <1>9, <2>2, <2>3 DEF Publish
<1>10. CASE Bind(p) \/ Rebind(p) \/ Finish(p)
  <2>1. \E M : CallSection(p, M)
    BY <1>10, BindIsSection, RebindIsSection, FinishIsSection
  <2>2. CASE memory'[h] = L
    BY <1>8, <2>1, <2>2
  <2>3. CASE /\ KeysOfSession(L, call.session.id) # {}
             /\ \/ \E r : memory'[h] = [L EXCEPT ![k] = r]
                \/ memory'[h] = [L EXCEPT ![k].status = "Cancelled"]
                \/ \E id : memory'[h] = [L EXCEPT ![k].status = "Ready",
                                                  ![k].session.provider = id]
    <3>1. call.session # None /\ call.session.id \in Sessions
      BY <1>0, <1>10 DEF Bind, Rebind, Finish, CallOK
    <3>2. k \in KeysOf(L)
      BY <2>3, <3>1, FoundAtKey
    <3>3. KeysOf(memory'[h]) \subseteq KeysOf(L)
      BY <1>0, <2>3, <3>2 DEF KeysOf
    <3> QED
      BY <1>8, <2>1, <3>3
  <2>4. CASE Bind(p)
    <3>1. \/ Loads(h)
          \/ /\ KeysOfSession(L, call.session.id) # {}
             /\ Saves(p, [L EXCEPT ![k] = Bootstrapping(L[k], p, call.digest)], "send")
      BY <2>4 DEF Bind
    <3> QED
      BY <1>2, <1>3, <2>2, <2>3, <3>1
  <2>5. CASE Rebind(p)
    <3>1. \/ Loads(h)
          \/ /\ KeysOfSession(L, call.session.id) # {}
             /\ Saves(p, [L EXCEPT ![k] = Bootstrapping(@, p, call.digest)], "send")
      BY <2>5 DEF Rebind
    <3> QED
      BY <1>2, <1>3, <2>2, <2>3, <3>1
  <2>6. CASE Finish(p)
    <3>1. \/ Loads(h)
          \/ /\ KeysOfSession(L, call.session.id) # {}
             /\ \/ Saves(p, [L EXCEPT ![k].status = "Cancelled"], "failed")
                \/ \E id : Saves(p, [L EXCEPT ![k].status = "Ready",
                                              ![k].session.provider = id], "done")
      BY <2>6 DEF Finish
    <3> QED
      BY <1>2, <1>3, <2>2, <2>3, <3>1
  <2> QED
    BY <1>10, <2>4, <2>5, <2>6
<1> QED
  BY <1>5, <1>6, <1>7, <1>9, <1>10 DEF HostStep

\* What a call's step does to the host keeps the host's invariant, and gives a session a
\* name only if it is new, or one its caller held.
LEMMA HostPartInv ==
  ASSUME HostInv, TasksOK, NEW p \in Calls, HostPart(p), NEW n, Takes(p, n)
  PROVE  /\ HostInv'
         /\ answered \subseteq answered'
         /\ \A q \in Calls : q # p => hostCalls'[q] = hostCalls[q]
         /\ \A id \in Sessions, j \in Keys : Named(id, j)' =>
              Held(id, j) \/ id \in FreshSessions(KnownSessions)
<1> DEFINE h == HostOf[p]
<1>0. h \in Hosts /\ HostTypeOK /\ hostCalls \in [Calls -> HostCalls]
  BY HostOfAssumption DEF HostInv, HostTypeOK
<1>1. CASE UNCHANGED hostVars
  BY <1>1, HostUnchanged DEF hostVars, Held
<1>2. CASE Returns(p)
  <2>1. CallOutside(p) /\ answered' = answered
    BY <1>2 DEF Returns
  <2>2. HostInv' /\ \A q \in Calls : q # p => hostCalls'[q] = hostCalls[q]
    BY <1>0, <2>1, OutsideInv DEF CallOutside
  <2>3. ASSUME NEW id \in Sessions, NEW j \in Keys, Named(id, j)'
        PROVE  Held(id, j)
    <3>1. Ledgers' = Ledgers
      BY <2>1 DEF CallOutside, Ledgers
    <3>2. CASE NamedInLedger(id, j)'
      BY <3>1, <3>2 DEF NamedInLedger, Named, Held, KeysOf
    <3>3. CASE NamedInCall(id, j)'
      <4>1. PICK q \in Calls : /\ hostCalls'[q].session # None
                               /\ hostCalls'[q].session.id = id
                               /\ hostCalls'[q].session.key = j
        BY <3>3 DEF NamedInCall
      <4>2. CASE hostCalls'[q].session = hostCalls[q].session
        BY <4>1, <4>2 DEF NamedInCall, Named, Held
      <4>3. CASE q = p /\ hostCalls'[p].phase = "bind"
        <5>1. tasks'[p] = n /\ n.at = "bootstrapping" /\ n \in Tasks
          BY <1>2, <4>3 DEF Takes, TasksOK, Returns
        <5>2. hostCalls'[p].session = n.session
          BY <5>1 DEF Takes, TaskOK, WaitsFor
        <5> QED
          BY <4>1, <4>3, <5>1, <5>2, SessionHeld DEF Takes
      <4> QED
        BY <1>2, <2>2, <4>1, <4>2, <4>3 DEF Returns
    <3> QED
      BY <2>3, <3>2, <3>3 DEF Named
  <2> QED
    BY <2>1, <2>2, <2>3
<1>3. CASE LoadsFor(p)
  <2> DEFINE next == hostCalls'[p]
  <2>1. /\ Section(h, p) /\ Loads(h) /\ answered' = answered
        /\ hostCalls' = [hostCalls EXCEPT ![p] = next]
        /\ next \in HostCalls /\ CallOK(next, answered)
    BY <1>3 DEF LoadsFor
  <2>2. Advances(h, Loaded(h))
    BY <1>0, <2>1, LoadAdvances
  <2>3. \A q \in Calls : q # p => hostCalls'[q] = hostCalls[q]
    BY <1>0, <2>1
  <2>4. next.session # None /\ next.session.id \in Sessions =>
          /\ next.session.key \in KeysOf(Loaded(h))
          /\ next.session = Loaded(h)[next.session.key].session
    BY <1>3, NoneAssumption DEF LoadsFor, IdleCall, CreationRequest
  <2>5. \A q \in Calls :
          hostCalls'[q].session # None /\ hostCalls'[q].session.id \in Sessions =>
            \/ hostCalls'[q].session = hostCalls[q].session
            \/ /\ hostCalls'[q].session.key \in KeysOf(Loaded(h))
               /\ hostCalls'[q].session = Loaded(h)[hostCalls'[q].session.key].session
    BY <2>3, <2>4
  <2>6. hostCalls' \in [Calls -> HostCalls] /\ \A q \in Calls : CallOK(hostCalls'[q], answered)
    BY <1>0, <2>1, <2>3 DEF HostInv, CallsOK
  <2>7. HostInv'
    BY <1>0, <2>2, <2>5, <2>6, AdvanceInv
  <2>8. \A id \in Sessions, j \in Keys : Named(id, j)' => Named(id, j)
    BY <1>0, <2>2, <2>5, AdvanceNames
  <2> QED
    BY <2>1, <2>3, <2>7, <2>8 DEF Held
<1>4. CASE HostStep(p, KnownSessions)
  <2>1. CASE CallOutside(p) /\ hostCalls'[p].session = hostCalls[p].session
    <3>1. HostInv' /\ answered \subseteq answered'
          /\ \A q \in Calls : q # p => hostCalls'[q] = hostCalls[q]
      BY <1>0, <2>1, OutsideInv DEF CallOutside
    <3>2. Ledgers' = Ledgers /\ \A q \in Calls : hostCalls'[q].session = hostCalls[q].session
      BY <2>1, <3>1 DEF CallOutside, Ledgers
    <3>3. \A id, j : Named(id, j)' => Named(id, j)
      BY <3>2 DEF Named, NamedInLedger, NamedInCall, KeysOf
    <3> QED
      BY <3>1, <3>3 DEF Held
  <2>2. ASSUME NEW M, CallSection(p, M),
               \A k \in KeysOf(M) \ KeysOf(Loaded(h)) :
                 M[k].session.id \in FreshSessions(KnownSessions)
        PROVE  /\ HostInv' /\ answered \subseteq answered'
               /\ \A q \in Calls : q # p => hostCalls'[q] = hostCalls[q]
               /\ \A id \in Sessions, j \in Keys : Named(id, j)' =>
                    Held(id, j) \/ id \in FreshSessions(KnownSessions)
    <3>1. HostInv' /\ Advances(h, M) /\ answered' = answered
      BY <2>2, SectionInv DEF CallSection, Advances
    <3>2. /\ \A q \in Calls : q # p => hostCalls'[q] = hostCalls[q]
          /\ hostCalls'[p] \in HostCalls
      BY <1>0, <2>2 DEF CallSection
    <3>3. \A q \in Calls :
            hostCalls'[q].session # None /\ hostCalls'[q].session.id \in Sessions =>
              \/ hostCalls'[q].session = hostCalls[q].session
              \/ /\ hostCalls'[q].session.key \in KeysOf(M)
                 /\ hostCalls'[q].session = M[hostCalls'[q].session.key].session
      BY <2>2, <3>2 DEF CallSection, HostCalls, HostSessions, KeysOf
    <3>4. \A id \in Sessions, j \in Keys : Named(id, j)' =>
            \/ Named(id, j)
            \/ j \in KeysOf(M) \ KeysOf(Loaded(h)) /\ M[j].session.id = id
      BY <1>0, <3>1, <3>3, AdvanceNames
    <3> QED
      BY <2>2, <3>1, <3>2, <3>4 DEF Held
  <2> QED
    BY <1>4, <2>1, <2>2, HostStepAdds
<1> QED
  BY <1>1, <1>2, <1>3, <1>4 DEF HostPart

--------------------------------------------------------------------------------
(* The invariant                                                           *)

\* Coordinator calls know the sessions they hold.
LEMMA FreshIsUnheld ==
  ASSUME HostInv, TasksOK, NEW id \in FreshSessions(KnownSessions), NEW j
  PROVE  ~Held(id, j)
<1>1. id \notin KnownSessions
  BY DEF FreshSessions
<1>2. ~NamedInTask(id, j)
  BY <1>1 DEF KnownSessions, NamedInTask
<1>3. ~Named(id, j)
  BY FreshIsNew DEF HostInv
<1> QED
  BY <1>2, <1>3 DEF Held

\* A step that names only what was held, or one new session, keeps ids and keys paired.
LEMMA PairsKept ==
  ASSUME HostInv, TasksOK, OneKeyPerSession, HostInv',
         \A id \in Sessions, j \in Keys : Named(id, j)' =>
           Held(id, j) \/ id \in FreshSessions(KnownSessions),
         \A id \in Sessions, j \in Keys : NamedInTask(id, j)' => Held(id, j)
  PROVE  OneKeyPerSession'
<1> SUFFICES ASSUME NEW id \in Sessions, NEW j \in Keys, NEW k \in Keys,
                    Held(id, j)', Held(id, k)'
             PROVE  j = k
  BY DEF OneKeyPerSession
<1>1. CASE id \in FreshSessions(KnownSessions)
  <2>1. Named(id, j)' /\ Named(id, k)'
    BY <1>1, FreshIsUnheld DEF Held
  <2> QED
    BY <2>1 DEF HostInv, Coherent
<1>2. CASE id \notin FreshSessions(KnownSessions)
  <2>1. Held(id, j) /\ Held(id, k)
    BY <1>2 DEF Held
  <2> QED
    BY <2>1 DEF OneKeyPerSession
<1> QED
  BY <1>1, <1>2

\* A step of a call keeps what every call has.
LEMMA CallStepTasks ==
  ASSUME HostInv, TasksOK, NEW p \in Calls, NEW n, Takes(p, n),
         answered \subseteq answered',
         \A q \in Calls : q # p => hostCalls'[q] = hostCalls[q]
  PROVE  /\ TasksOK'
         /\ \A id \in Sessions, j \in Keys : NamedInTask(id, j)' => Held(id, j)
<1>1. /\ tasks \in [Calls -> Tasks] /\ tasks' = [tasks EXCEPT ![p] = n] /\ n \in Tasks
      /\ TaskOK(n, hostCalls'[p], answered') /\ SessionFrom(p, n)
  BY DEF TasksOK, Takes
<1>2. tasks' \in [Calls -> Tasks] /\ tasks'[p] = n
      /\ \A q \in Calls : q # p => tasks'[q] = tasks[q]
  BY <1>1
<1>3. ASSUME NEW q \in Calls, q # p
      PROVE  TaskOK(tasks'[q], hostCalls'[q], answered')
  <2>1. TaskOK(tasks[q], hostCalls[q], answered)
    BY DEF TasksOK
  <2>2. WaitsFor(tasks[q], hostCalls[q])
    BY <2>1 DEF TaskOK
  <2>3. TaskOK(tasks[q], hostCalls[q], answered')
    BY <2>1, <2>2, TaskGoesOn
  <2> QED
    BY <1>2, <1>3, <2>3
<1>4. ASSUME NEW id \in Sessions, NEW j \in Keys, NamedInTask(id, j)'
      PROVE  Held(id, j)
  <2>1. PICK q \in Calls : /\ tasks'[q].session # None
                           /\ tasks'[q].session.id = id /\ tasks'[q].session.key = j
    BY <1>4 DEF NamedInTask
  <2>2. CASE q = p
    BY <1>1, <1>2, <2>1, <2>2, SessionHeld
  <2>3. CASE q # p
    BY <1>2, <2>1, <2>3 DEF NamedInTask, Held
  <2> QED
    BY <2>2, <2>3
<1> QED
  BY <1>1, <1>2, <1>3, <1>4 DEF TasksOK

\* A step of a call keeps the invariant.
LEMMA CallStepInv ==
  ASSUME CoordinatorInv, faults' \in 0 .. MaxFaults, NEW p \in Calls, CallStep(p)
  PROVE  CoordinatorInv' /\ RepositoryStep
<1>0. HInv /\ AcknowledgedTogether /\ HostInv /\ TasksOK /\ OneKeyPerSession
  BY DEF CoordinatorInv
<1>1. Transacts(p) /\ HostPart(p)
  BY DEF CallStep
<1>2. PICK n : Takes(p, n)
  BY DEF CallStep
<1>3. RepositoryStep /\ HInv' /\ AcknowledgedTogether'
  BY <1>0, <1>1, TransactionIsStep, RepositoryStepOK, TogetherKept
<1>4. /\ HostInv' /\ answered \subseteq answered'
      /\ \A q \in Calls : q # p => hostCalls'[q] = hostCalls[q]
      /\ \A id \in Sessions, j \in Keys : Named(id, j)' =>
           Held(id, j) \/ id \in FreshSessions(KnownSessions)
  BY <1>0, <1>1, <1>2, HostPartInv
<1>5. /\ TasksOK'
      /\ \A id \in Sessions, j \in Keys : NamedInTask(id, j)' => Held(id, j)
  BY <1>0, <1>2, <1>4, CallStepTasks
<1>6. OneKeyPerSession'
  BY <1>0, <1>4, <1>5, PairsKept
<1> QED
  BY <1>3, <1>4, <1>5, <1>6 DEF CoordinatorInv

\* A process that restarts forgets its calls with its ledger.
LEMMA RestartKeeps ==
  ASSUME CoordinatorInv, faults' \in 0 .. MaxFaults, NEW h \in Hosts, ProcessRestarts(h)
  PROVE  CoordinatorInv' /\ RepositoryStep
<1>0. HInv /\ AcknowledgedTogether /\ HostInv /\ TasksOK /\ OneKeyPerSession
  BY DEF CoordinatorInv
<1>1. /\ Restart(h) /\ UNCHANGED repositoryVars
      /\ tasks' = [p \in Calls |-> IF HostOf[p] = h THEN IdleTask ELSE tasks[p]]
  BY DEF ProcessRestarts
<1>2. RepositoryStep /\ HInv' /\ AcknowledgedTogether'
  BY <1>0, <1>1, RepositoryStepOK, TogetherKept DEF RepositoryStep
<1>3. HostInv'
  BY <1>0, <1>1, RestartInv
<1>4. /\ hostCalls' = [p \in Calls |-> IF HostOf[p] = h THEN IdleCall ELSE hostCalls[p]]
      /\ memory' = [memory EXCEPT ![h] = EmptyLedger]
      /\ durable' = durable /\ answered' = answered
  BY <1>1 DEF Restart
<1>5. TasksOK'
  <2>1. tasks' \in [Calls -> Tasks]
    BY <1>0, <1>1, IdleTaskOK DEF TasksOK
  <2>2. ASSUME NEW p \in Calls
        PROVE  TaskOK(tasks'[p], hostCalls'[p], answered')
    <3>1. CASE HostOf[p] = h
      BY <1>1, <3>1, IdleTaskOK
    <3>2. CASE HostOf[p] # h
      BY <1>0, <1>1, <1>4, <3>2 DEF TasksOK
    <3> QED
      BY <3>1, <3>2
  <2> QED
    BY <2>1, <2>2 DEF TasksOK
<1>6. ASSUME NEW id \in Sessions, NEW j \in Keys, NamedInTask(id, j)'
      PROVE  Held(id, j)
  <2>1. IdleTask.session = None
    BY DEF IdleTask
  <2> QED
    BY <1>1, <1>6, <2>1 DEF NamedInTask, Held
<1>7. ASSUME NEW id \in Sessions, NEW j \in Keys, Named(id, j)'
      PROVE  Named(id, j)
  <2>1. KeysOf(EmptyLedger) = {} /\ IdleCall.session = None
    BY DEF EmptyLedger, KeysOf, IdleCall
  <2>2. Ledgers' \subseteq Ledgers \cup { EmptyLedger }
    BY <1>0, <1>4 DEF Ledgers, HostInv, HostTypeOK
  <2>3. CASE NamedInLedger(id, j)'
    BY <2>1, <2>2, <2>3 DEF NamedInLedger, Named, KeysOf
  <2>4. CASE NamedInCall(id, j)'
    BY <1>4, <2>1, <2>4 DEF NamedInCall, Named
  <2> QED
    BY <1>7, <2>3, <2>4 DEF Named
<1>8. OneKeyPerSession'
  BY <1>0, <1>3, <1>6, <1>7, PairsKept DEF Held
<1> QED
  BY <1>2, <1>3, <1>5, <1>8 DEF CoordinatorInv

\* Cancelling in the host gives no session another name.
LEMMA CancelNames ==
  ASSUME HostInv, NEW p \in Calls, Cancel(p)
  PROVE  /\ HostInv' /\ SameCalls /\ answered' = answered
         /\ \A id \in Sessions, j \in Keys : Named(id, j)' => Named(id, j)
<1> DEFINE h == HostOf[p]
<1> DEFINE L == Loaded(h)
<1> DEFINE doomed == { k \in KeysOf(L) : L[k].owner = p /\ L[k].status # "Cancelled" }
<1>0. h \in Hosts /\ memory \in [Hosts -> [Keys -> Records \cup {None}]]
  BY HostOfAssumption DEF HostInv, HostTypeOK
<1>1. PICK M : OtherSection(h, M)
  BY CancelIsSection
<1>2. HostInv' /\ SameCalls /\ answered' = answered /\ Advances(h, M)
  BY <1>0, <1>1, OtherSectionInv DEF OtherSection, Advances
<1>3. memory'[h] = M
  BY <1>0, <1>2 DEF Advances, Commits, KeepsInMemory
<1>4. \/ memory'[h] = L
      \/ memory'[h] = CancelledRecords(L, doomed)
  BY <1>0 DEF Cancel, Loads, Commits, FailsToCommit
<1>5. KeysOf(M) \subseteq KeysOf(L)
  BY <1>3, <1>4 DEF CancelledRecords, KeysOf
<1>6. \A q \in Calls : hostCalls'[q].session = hostCalls[q].session
  BY <1>2 DEF SameCalls
<1>7. \A id \in Sessions, j \in Keys : Named(id, j)' => Named(id, j)
  BY <1>0, <1>2, <1>5, <1>6, AdvanceNames
<1> QED
  BY <1>2, <1>7

\* A cancellation in the host moves no coordinator call.
LEMMA CancelKeeps ==
  ASSUME CoordinatorInv, faults' \in 0 .. MaxFaults, HostIsCancelled
  PROVE  CoordinatorInv' /\ RepositoryStep
<1>0. HInv /\ AcknowledgedTogether /\ HostInv /\ TasksOK /\ OneKeyPerSession
  BY DEF CoordinatorInv
<1>1. PICK p \in Calls : Cancel(p)
  BY DEF HostIsCancelled
<1>2. UNCHANGED repositoryVars /\ tasks' = tasks
  BY DEF HostIsCancelled
<1>3. RepositoryStep /\ HInv' /\ AcknowledgedTogether'
  BY <1>0, <1>2, RepositoryStepOK, TogetherKept DEF RepositoryStep
<1>4. /\ HostInv' /\ SameCalls /\ answered' = answered
      /\ \A id \in Sessions, j \in Keys : Named(id, j)' => Named(id, j)
  BY <1>0, <1>1, CancelNames
<1>5. TasksOK'
  <2>1. ASSUME NEW q \in Calls
        PROVE  TaskOK(tasks[q], hostCalls'[q], answered')
    <3>1. TaskOK(tasks[q], hostCalls[q], answered)
      BY <1>0 DEF TasksOK
    <3>2. WaitsFor(tasks[q], hostCalls'[q])
      BY <1>4, <3>1 DEF TaskOK, WaitsFor, SameCalls
    <3> QED
      BY <1>4, <3>1, <3>2, TaskGoesOn
  <2> QED
    BY <1>0, <1>2, <2>1 DEF TasksOK
<1>6. OneKeyPerSession'
  BY <1>0, <1>2, <1>4, PairsKept DEF Held, NamedInTask
<1> QED
  BY <1>3, <1>4, <1>5, <1>6 DEF CoordinatorInv

\* A step of the tables that moves no call.
LEMMA TablesKeep ==
  ASSUME CoordinatorInv, faults' \in 0 .. MaxFaults, RepositoryStep, UNCHANGED hostVars,
         TasksOK', \A id, j : NamedInTask(id, j)' => NamedInTask(id, j)
  PROVE  CoordinatorInv'
<1>0. HInv /\ AcknowledgedTogether /\ HostInv /\ TasksOK /\ OneKeyPerSession
  BY DEF CoordinatorInv
<1>1. HInv' /\ AcknowledgedTogether'
  BY <1>0, RepositoryStepOK, TogetherKept
<1>2. HostInv' /\ \A id, j : Named(id, j)' => Named(id, j)
  BY <1>0, HostUnchanged
<1>3. OneKeyPerSession'
  BY <1>0, <1>2, PairsKept DEF Held
<1> QED
  BY <1>1, <1>2, <1>3 DEF CoordinatorInv

\* A retry that falls due changes nothing else of the row a call holds.
LEMMA DueTaskOK ==
  ASSUME NEW t \in Tasks, t.row # None, NEW call, NEW acks, TaskOK(t, call, acks)
  PROVE  LET n == [t EXCEPT !.row.retryDue = TRUE]
         IN n \in Tasks /\ TaskOK(n, call, acks) /\ n.session = t.session
<1> DEFINE r == [t.row EXCEPT !.retryDue = TRUE]
<1>1. t.row \in OperationRows
  BY TaskFields
<1>2. r \in OperationRows
  BY <1>1 DEF OperationRows
<1>3. /\ r # None /\ r.state = t.row.state /\ r.predecessor = t.row.predecessor
      /\ r.key = t.row.key /\ r.successor = t.row.successor /\ r.adapter = t.row.adapter
  BY <1>1, <1>2 DEF OperationRows
<1> HIDE DEF r
<1> DEFINE n == [t EXCEPT !.row = r]
<1>4. /\ n \in Tasks /\ n.at = t.at /\ n.kind = t.kind /\ n.op = t.op /\ n.row = r
      /\ n.key = t.key /\ n.document = t.document /\ n.session = t.session
  BY <1>2 DEF Tasks
<1>5. n = [t EXCEPT !.row.retryDue = TRUE]
  BY DEF r
<1> HIDE DEF n
<1>6. ForItsRow(t) => ForItsRow(n)
  BY <1>3, <1>4 DEF ForItsRow, SameBinding, CreationRequest
<1>7. TaskOK(n, call, acks)
  BY <1>3, <1>4, <1>6 DEF TaskOK, NeedsRow, NeedsSession, NeedsDocument, WaitsFor
<1> QED
  BY <1>4, <1>5, <1>7

\* Time moves no call.
LEMMA TimeKeepsAll ==
  ASSUME CoordinatorInv, faults' \in 0 .. MaxFaults, TimePasses
  PROVE  CoordinatorInv' /\ RepositoryStep
<1>0. TasksOK /\ tasks \in [Calls -> Tasks]
  BY DEF CoordinatorInv, TasksOK
<1>1. RepositoryStep /\ UNCHANGED hostVars
  BY DEF TimePasses, RepositoryStep, RepositoryNext
<1>2. ASSUME NEW p \in Calls
      PROVE  /\ tasks'[p] \in Tasks /\ TaskOK(tasks'[p], hostCalls[p], answered)
             /\ tasks'[p].session = tasks[p].session
  <2>1. \/ tasks'[p] = tasks[p]
        \/ tasks[p].row # None /\ tasks'[p] = [tasks[p] EXCEPT !.row.retryDue = TRUE]
    BY DEF TimePasses
  <2>2. tasks[p] \in Tasks /\ TaskOK(tasks[p], hostCalls[p], answered)
    BY <1>0 DEF TasksOK
  <2>3. CASE tasks'[p] = tasks[p]
    BY <2>2, <2>3
  <2>4. CASE tasks[p].row # None /\ tasks'[p] = [tasks[p] EXCEPT !.row.retryDue = TRUE]
    BY <2>2, <2>4, DueTaskOK
  <2> QED
    BY <2>1, <2>3, <2>4
<1>3. tasks' \in [Calls -> Tasks]
  <2>1. tasks' = [p \in Calls |-> tasks'[p]]
    BY DEF TimePasses
  <2> QED
    BY <1>2, <2>1
<1>4. TasksOK'
  BY <1>1, <1>2, <1>3 DEF TasksOK, hostVars
<1>5. \A id, j : NamedInTask(id, j)' => NamedInTask(id, j)
  BY <1>2 DEF NamedInTask
<1> QED
  BY <1>1, <1>4, <1>5, TablesKeep

\* Every step keeps the invariant, and is one of the repository or changes no table.
LEMMA CoordinatorStep ==
  CoordinatorInv /\ [Next]_vars => CoordinatorInv' /\ RepositoryStep
<1> SUFFICES ASSUME CoordinatorInv, [Next]_vars PROVE CoordinatorInv' /\ RepositoryStep
  OBVIOUS
<1>1. CASE UNCHANGED vars
  <2>1. /\ UNCHANGED repositoryVars /\ UNCHANGED hostVars /\ tasks' = tasks
        /\ faults' = faults
    BY <1>1 DEF vars
  <2>2. TasksOK' /\ \A id, j : NamedInTask(id, j)' => NamedInTask(id, j)
    BY <2>1 DEF CoordinatorInv, TasksOK, hostVars, NamedInTask
  <2>3. faults' \in 0 .. MaxFaults /\ RepositoryStep
    BY <2>1 DEF CoordinatorInv, RepositoryStep
  <2> QED
    BY <2>1, <2>2, <2>3, TablesKeep
<1>2. CASE Next
  <2>1. faults' \in 0 .. MaxFaults
    BY <1>2, FaultsBounded DEF CoordinatorInv
  <2>2. CASE ClientAcknowledges \/ ProjectReset
    <3>1. RepositoryStep /\ UNCHANGED hostVars /\ tasks' = tasks
      BY <2>2 DEF ClientAcknowledges, ProjectReset, RepositoryStep, RepositoryNext
    <3>2. TasksOK' /\ \A id, j : NamedInTask(id, j)' => NamedInTask(id, j)
      BY <3>1 DEF CoordinatorInv, TasksOK, hostVars, NamedInTask
    <3> QED
      BY <2>1, <3>1, <3>2, TablesKeep
  <2> QED
    BY <1>2, <2>1, <2>2, CoordinatorSteps, CallStepInv, RestartKeeps, CancelKeeps,
       TimeKeepsAll
<1> QED
  BY <1>1, <1>2

\* Nothing has begun.
LEMMA CoordinatorInit == Init => CoordinatorInv
<1> SUFFICES ASSUME Init PROVE CoordinatorInv
  OBVIOUS
<1>1. RepositoryInit /\ HostInit /\ tasks = [p \in Calls |-> IdleTask] /\ faults = 0
  BY DEF Init
<1>2. HInv
  BY <1>1, InitEstablishes DEF HInv, EarlyUnbound, RepositoryInit, Exists
<1>3. AcknowledgedTogether
  BY <1>1 DEF RepositoryInit, AcknowledgedTogether
<1>4. HostInv
  BY <1>1, HostInvInit
<1>5. TasksOK
  BY <1>1, IdleTaskOK DEF TasksOK
<1>6. OneKeyPerSession
  <2>1. \A id, j : ~NamedInTask(id, j)
    BY <1>1 DEF NamedInTask, IdleTask
  <2> QED
    BY <1>4, <2>1 DEF OneKeyPerSession, Held, HostInv, Coherent
<1>7. faults \in 0 .. MaxFaults
  BY <1>1, FaultsAssumption
<1> QED
  BY <1>2, <1>3, <1>4, <1>5, <1>6, <1>7 DEF CoordinatorInv

--------------------------------------------------------------------------------
(* What holds of a coordinated project                                     *)

\* The inductive invariant of the coordinator, the repository and the host together.
THEOREM CoordinatorInvariant == Spec => []CoordinatorInv
<1>1. Init => CoordinatorInv
  BY CoordinatorInit
<1>2. CoordinatorInv /\ [Next]_vars => CoordinatorInv'
  BY CoordinatorStep
<1> QED
  BY <1>1, <1>2, PTL DEF Spec

\* The calls keep their types, whatever they are interrupted by; a call that looks at its
\* row holds no session and no document of an earlier step.
THEOREM CallsAreTyped == Spec => []TaskTypeOK
<1>1. CoordinatorInv => TaskTypeOK
  BY DEF CoordinatorInv, TasksOK, TaskOK, TaskTypeOK, NeedsRow, Points
<1> QED
  BY <1>1, CoordinatorInvariant, PTL

\* The coordinator uses the repository as it expects its callers to: what it does with
\* rows it read long ago, through failures, retries, restarts and recoveries, are
\* transactions of the repository, so everything proved of those holds of a project.
THEOREM CoordinatorUsesRepository == Spec => RepositorySpec
<1>1. Init => RepositoryInit
  BY DEF Init
<1>2. CoordinatorInv /\ [Next]_vars => [RepositoryNext]_repositoryVars
  BY CoordinatorStep DEF RepositoryStep
<1> QED
  BY <1>1, <1>2, CoordinatorInvariant, PTL DEF Spec, RepositorySpec

\* So a coordinated project keeps the promise of SessionHandover.
THEOREM ProjectKeepsHandover == Spec => ImplementsHandover
BY CoordinatorUsesRepository, RepositoryImplementsHandover

\* Under a coordinator, whose calls hold copies of sessions that are long out of date, the
\* host's ledgers stay valid, and a session is ready only if the provider acknowledged it.
THEOREM CoordinatedHostIsSound ==
  Spec => [](LedgersValid /\ ReadyMeansAnswered /\ LedgerBounded)
<1>1. CoordinatorInv => LedgersValid /\ ReadyMeansAnswered /\ LedgerBounded
  BY HostInvImplies DEF CoordinatorInv
<1> QED
  BY <1>1, CoordinatorInvariant, PTL

\* The acknowledgement a call has obtained is refused only because another caller has
\* moved the row, or has reset the project, meanwhile, never because it does not fit the
\* row and the document it was obtained for, as long as the row is one of this adapter and
\* has a transition left.
THEOREM AcknowledgementsFit == Spec => []AcknowledgementFits
<1>1. CoordinatorInv => AcknowledgementFits
  <2> SUFFICES ASSUME CoordinatorInv, NEW p \in Calls,
                      tasks[p].at = "acknowledge",
                      Exists(tasks[p].op), Copy(operations[tasks[p].op]) = tasks[p].row,
                      handoffs[tasks[p].op] # None,
                      Document(tasks[p].op) = tasks[p].document,
                      tasks[p].row.adapter = ThisAdapter,
                      operations[tasks[p].op].attempt < MaxTransitions - 1
               PROVE  AcknowledgeAccepts(tasks[p].op, Acknowledgement(tasks[p]))
    BY DEF AcknowledgementFits
  <2> DEFINE t == tasks[p]
             o == t.op
             row == operations[o]
  <2>1. t \in Tasks /\ TaskOK(t, hostCalls[p], answered)
    BY DEF CoordinatorInv, TasksOK
  <2>2. /\ o \in Operations /\ t.session # None /\ t.session.id \in Sessions
        /\ t.kind = "rollover" /\ t.session.id = t.document.successor /\ ForItsRow(t)
    BY <2>1 DEF TaskOK, NeedsSession
  <2>3. t.row.state = "BootstrapSending" /\ t.session.id = t.row.successor
    BY <2>2 DEF ForItsRow
  <2>4. IInv /\ AcknowledgedTogether
    BY DEF CoordinatorInv, HInv
  <2>5. row \in OperationRows /\ row # None
    BY <2>2, <2>4 DEF IInv, TypeOK, Exists
  <2>6. /\ row.state = "BootstrapSending" /\ row.successor = t.session.id
        /\ row.adapter = ThisAdapter
    BY <2>3, <2>5, CopyFields
  <2>7. /\ t.document.content = handoffs[o].content
        /\ t.document.successor = handoffs[o].successor
    BY <2>2, <2>4, DocumentFields
  <2>8. Digest(t.document) = Digest(handoffs[o])
    BY <2>7 DEF Digest
  <2>9. handoffs[o].acknowledged \in { None, t.session.id }
    <3>1. CASE handoffs[o].acknowledged # None
      <4>1. row.acknowledged = handoffs[o].acknowledged
        BY <2>2, <2>4, <3>1 DEF AcknowledgedTogether
      <4> QED
        BY <2>2, <2>4, <2>5, <2>6, <3>1, <4>1 DEF IInv, AcknowledgementExact, Exists
    <3> QED
      BY <3>1
  <2>10. ValidAcknowledgement(o, Acknowledgement(t))
    BY <2>2, <2>6, <2>7, <2>8, NoneAssumption DEF ValidAcknowledgement, Acknowledgement
  <2>11. Acknowledgeable(o, Acknowledgement(t))
    BY <2>6, <2>9 DEF Acknowledgeable, Acknowledgement
  <2> QED
    BY <2>10, <2>11 DEF AcknowledgeAccepts
<1> QED
  BY <1>1, CoordinatorInvariant, PTL

--------------------------------------------------------------------------------
(* What a step of a project does to its host                               *)

\* What a coordinated step may do to the host.
HostChanges ==
  \/ UNCHANGED hostVars
  \/ \E p \in Calls : CallOutside(p) \/ LoadsFor(p)
  \/ \E p \in Calls : \E M : CallSection(p, M)
  \/ \E h \in Hosts : \E M : OtherSection(h, M)
  \/ \E h \in Hosts : Restart(h)

\* The provider acknowledges what a call has sent.
AnswersFrom ==
  \A a \in answered' \ answered : \E p \in Calls :
    /\ hostCalls[p].phase = "send"
    /\ a = Answer(hostCalls[p].session, hostCalls[p].digest)

\* A section of the host acknowledges nothing, and a step outside one only what is sent.
LEMMA HostStepAnswers ==
  ASSUME NEW p \in Calls, NEW known, HostStep(p, known)
  PROVE  AnswersFrom
<1>1. CASE ProviderAcknowledges(p)
  BY <1>1 DEF ProviderAcknowledges, AnswersFrom
<1>2. CASE ~ProviderAcknowledges(p)
  <2>1. answered' = answered
    BY <1>2 DEF HostStep, CreateFindsRecord, CreateRecordsIntent, ProviderCreates, Publish,
       Bind, ProviderReports, Rebind, Finish
  <2> QED
    BY <2>1 DEF AnswersFrom
<1> QED
  BY <1>1, <1>2

\* Whatever step a project takes, what it does to its host is one of these.
LEMMA HostChangesOnly ==
  ASSUME CoordinatorInv, [Next]_vars
  PROVE  HostChanges /\ AnswersFrom
<1>0. HostInv
  BY DEF CoordinatorInv
<1>1. CASE UNCHANGED hostVars
  BY <1>1 DEF hostVars, HostChanges, AnswersFrom
<1>2. ASSUME NEW p \in Calls, CallStep(p)
      PROVE  HostChanges /\ AnswersFrom
  <2>1. CASE Returns(p) \/ LoadsFor(p)
    BY <2>1 DEF Returns, LoadsFor, HostChanges, AnswersFrom
  <2>2. CASE HostStep(p, KnownSessions)
    <3>1. AnswersFrom
      BY <2>2, HostStepAnswers
    <3>2. CallOutside(p) \/ \E M : CallSection(p, M)
      BY <1>0, <2>2, HostStepKinds
    <3> QED
      BY <3>1, <3>2 DEF HostChanges
  <2> QED
    BY <1>1, <1>2, <2>1, <2>2 DEF CallStep, HostPart
<1>3. ASSUME NEW h \in Hosts, ProcessRestarts(h)
      PROVE  HostChanges /\ AnswersFrom
  BY <1>3 DEF ProcessRestarts, Restart, HostChanges, AnswersFrom
<1>4. CASE HostIsCancelled
  <2>1. PICK p \in Calls : Cancel(p)
    BY <1>4 DEF HostIsCancelled
  <2>2. PICK M : OtherSection(HostOf[p], M)
    BY <1>0, <2>1, CancelIsSection
  <2>3. HostOf[p] \in Hosts /\ answered' = answered
    BY <2>2, HostOfAssumption DEF OtherSection, Advances
  <2> QED
    BY <2>2, <2>3 DEF HostChanges, AnswersFrom
<1>5. CASE ClientAcknowledges \/ ProjectReset \/ TimePasses
  BY <1>1, <1>5 DEF ClientAcknowledges, ProjectReset, TimePasses
<1>6. CASE UNCHANGED vars
  BY <1>1, <1>6 DEF vars
<1> QED
  BY <1>2, <1>3, <1>4, <1>5, <1>6, CoordinatorSteps

--------------------------------------------------------------------------------
(* A key introduces one session to one document                            *)

\* Reading the ledger for a call keeps what is recorded.
LEMMA RoomInvLoads ==
  ASSUME HostInv, RoomInv, HasRoom, NEW p \in Calls, LoadsFor(p)
  PROVE  RoomInv'
<1> DEFINE h == HostOf[p]
<1> DEFINE L == Loaded(h)
<1>0. h \in Hosts
  BY HostOfAssumption
<1>1. Advances(h, L) /\ overlaps' = overlaps /\ answered' = answered
  BY <1>0, LoadAdvances DEF LoadsFor, Section
<1>2. L \in Ledgers /\ Ledgers' \subseteq Ledgers \cup {L}
  BY <1>0, <1>1, LoadedOK, AdvanceTypes
<1>3. Ledgers' \subseteq Ledgers
  BY <1>2
<1>4. CASE overlaps
  BY <1>1, <1>4 DEF RoomInv
<1>5. CASE ~overlaps
  <2>1. /\ Covers(durable, durable')
        /\ \A g \in Hosts : view'[g] = "current" => Covers(durable', memory'[g])
    BY <1>0, <1>1, <1>5, RoomSection
  <2>2. ASSUME NEW q \in Calls, hostCalls'[q].phase \in { "send", "finish" }
        PROVE  Recorded(hostCalls[q].session.key, hostCalls[q].session, hostCalls[q].digest)'
    <3>1. hostCalls'[q] = hostCalls[q]
      BY <2>2 DEF LoadsFor, HostInv, HostTypeOK, IdleCall
    <3> QED
      BY <1>5, <2>1, <2>2, <3>1, RecordedBefore
  <2>3. ASSUME NEW ledger \in Ledgers', NEW k \in KeysOf(ledger), ledger[k].status = "Ready"
        PROVE  /\ durable'[k] # None
               /\ durable'[k].session.id = ledger[k].session.id
               /\ durable'[k].digest = ledger[k].digest
    BY <1>3, <1>5, <2>1, <2>3, RecordedBefore
  <2> QED
    BY <2>1, <2>2, <2>3 DEF RoomInv, Recorded, KeysOf, Covers
<1> QED
  BY <1>4, <1>5

\* Every step of a project keeps what its host's file has recorded.
LEMMA RoomKept ==
  ASSUME CoordinatorInv, RoomInv, HasRoom, [Next]_vars
  PROVE  /\ RoomInv' /\ overlaps' = overlaps
         /\ ~overlaps => Covers(durable, durable')
<1>0. HostInv /\ HostChanges
  BY HostChangesOnly DEF CoordinatorInv
<1>1. Covers(durable, durable)
  BY DEF Covers, Continues, KeysOf
<1>2. CASE UNCHANGED hostVars
  BY <1>1, <1>2 DEF hostVars, RoomInv, Recorded, Ledgers, KeysOf, Covers
<1>3. ASSUME NEW p \in Calls, CallOutside(p)
      PROVE  RoomInv' /\ overlaps' = overlaps /\ Covers(durable, durable')
  BY <1>0, <1>1, <1>3, RoomInvOutside DEF CallOutside
<1>4. ASSUME NEW h \in Hosts, NEW M, Advances(h, M)
      PROVE  overlaps' = overlaps /\ (~overlaps => Covers(durable, durable'))
  BY <1>0, <1>4, RoomSection DEF Advances
<1>5. ASSUME NEW p \in Calls, LoadsFor(p)
      PROVE  RoomInv' /\ overlaps' = overlaps /\ Covers(durable, durable')
  BY <1>0, <1>1, <1>5, RoomInvLoads DEF LoadsFor, Section, Loads
<1>6. ASSUME NEW p \in Calls, NEW M, CallSection(p, M)
      PROVE  /\ RoomInv' /\ overlaps' = overlaps
             /\ ~overlaps => Covers(durable, durable')
  <2>1. HostOf[p] \in Hosts /\ Advances(HostOf[p], M)
    BY <1>6, HostOfAssumption DEF CallSection
  <2> QED
    BY <1>0, <1>4, <1>6, <2>1, RoomInvSection
<1>7. ASSUME NEW h \in Hosts, NEW M, OtherSection(h, M)
      PROVE  /\ RoomInv' /\ overlaps' = overlaps
             /\ ~overlaps => Covers(durable, durable')
  <2>1. Advances(h, M)
    BY <1>7 DEF OtherSection
  <2> QED
    BY <1>0, <1>4, <1>7, <2>1, RoomInvOther
<1>8. ASSUME NEW h \in Hosts, Restart(h)
      PROVE  RoomInv' /\ overlaps' = overlaps /\ Covers(durable, durable')
  BY <1>0, <1>1, <1>8, RoomInvRestart DEF Restart
<1>9. CASE UNCHANGED hostVars
  BY <1>2, <1>9, <1>1 DEF hostVars
<1> QED
  BY <1>0, <1>1, <1>2, <1>3, <1>5, <1>6, <1>7, <1>8, <1>9 DEF HostChanges, hostVars

\* Everything the provider has acknowledged is in the file, under its key.
AnswersRecorded ==
  ~overlaps => \A a \in answered :
    /\ durable[a.key] # None
    /\ durable[a.key].session.id = a.session
    /\ durable[a.key].digest = a.digest

\* Nothing is acknowledged before the file has it, and the file keeps what it has.
LEMMA AnswersStayRecorded ==
  ASSUME CoordinatorInv, RoomInv, HasRoom, AnswersRecorded, [Next]_vars
  PROVE  AnswersRecorded'
<1> SUFFICES ASSUME ~overlaps, NEW a \in answered'
             PROVE  /\ durable'[a.key] # None
                    /\ durable'[a.key].session.id = a.session
                    /\ durable'[a.key].digest = a.digest
  BY RoomKept DEF AnswersRecorded
<1>0. HostTypeOK /\ CallsOK
  BY DEF CoordinatorInv, HostInv
<1>1. Covers(durable, durable')
  BY RoomKept
<1>2. /\ a.key \in Keys /\ a.digest # None
      /\ durable[a.key] # None /\ durable[a.key].session.id = a.session
      /\ durable[a.key].digest = a.digest
  <2>1. CASE a \in answered
    BY <1>0, <2>1, HostNoneAssumption DEF HostTypeOK, AnswersRecorded
  <2>2. CASE a \notin answered
    <3>1. PICK p \in Calls : /\ hostCalls[p].phase = "send"
                             /\ a = Answer(hostCalls[p].session, hostCalls[p].digest)
      BY <2>2, HostChangesOnly DEF AnswersFrom
    <3>2. Recorded(hostCalls[p].session.key, hostCalls[p].session, hostCalls[p].digest)
      BY <3>1 DEF RoomInv
    <3>3. hostCalls[p].session \in HostSessions /\ hostCalls[p].digest # None
      BY <1>0, <3>1 DEF HostTypeOK, HostCalls, CallsOK, CallOK
    <3>4. hostCalls[p].session.key \in Keys
      BY <3>3 DEF HostSessions
    <3> QED
      BY <3>1, <3>2, <3>3, <3>4 DEF Recorded, Answer
  <2> QED
    BY <2>1, <2>2
<1> QED
  BY <1>1, <1>2 DEF Covers, Continues, KeysOf

\* While the ledger has room for every key and the commits of two processes do not
\* overlap, a key introduces its work to one session and tells it one document, whatever
\* retries, callers, processes and resets there are.
THEOREM KeyIntroducesOnce ==
  ASSUME HasRoom
  PROVE  Spec => [](~overlaps => IntroducedOnce)
<1> DEFINE I == RoomInv /\ AnswersRecorded
<1>1. Init => I
  BY RoomInvInit DEF Init, HostInit, AnswersRecorded
<1>2. CoordinatorInv /\ I /\ [Next]_vars => I'
  BY RoomKept, AnswersStayRecorded
<1>3. CoordinatorInv /\ I => (~overlaps => IntroducedOnce)
  BY DEF AnswersRecorded, IntroducedOnce, CoordinatorInv, HostInv, HostTypeOK
<1> HIDE DEF I
<1> QED
  BY <1>1, <1>2, <1>3, CoordinatorInvariant, PTL DEF Spec

--------------------------------------------------------------------------------
(* What a step of a project does to its tables and calls                   *)

\* Every request submitted for an operation has the same key.
OneKeyPerOperation ==
  \A r, s \in Submitted : r.operation = s.operation => r.key = s.key

Submits(o, key) == \E r \in Submitted : r.operation = o /\ r.key = key

\* Rows, and the calls that hold copies of them, old ones included, have a submitted key.
KeysSubmitted ==
  /\ \A o \in Operations : Exists(o) => Submits(o, operations[o].key)
  /\ \A p \in Calls :
       /\ tasks[p].row # None => Submits(tasks[p].op, tasks[p].row.key)
       /\ tasks[p].key # None => Submits(tasks[p].op, tasks[p].key)

\* A row that goes on keeps its key; its successor is the one a call has just had created,
\* and its acknowledgement one that a call, or a client, has brought.
RowGoesOn(o) ==
  /\ operations[o] # None
  /\ operations'[o].key = operations[o].key
  /\ \/ operations'[o].successor = operations[o].successor
     \/ \E p \in Calls : /\ tasks[p].at = "created" /\ tasks[p].op = o
                         /\ operations'[o].successor = tasks[p].session.id
  /\ \/ operations'[o].state = "Acknowledged" => operations[o].state = "Acknowledged"
     \/ ClientAcknowledges
     \/ \E p \in Calls : /\ tasks[p].at = "acknowledge" /\ tasks[p].op = o
                         /\ Acknowledge(o, Acknowledgement(tasks[p]))

\* A new row is the one a call submits.
RowIsNew(o) ==
  /\ operations[o] = None
  /\ \E p \in Calls : /\ tasks[p].at = "create" /\ tasks[p].op = o
                      /\ Submission(tasks[p]) \in Requests
                      /\ CreateInserts(Submission(tasks[p]))
                      /\ operations'[o] = CreatedRow(Submission(tasks[p]))

\* What a compare-and-set with any expectation leaves in its row.
LEMMA SetRow ==
  ASSUME IInv, NEW u \in Operations, NEW expected, NEW next \in ContinuityStates,
         NEW successor \in Sessions \cup {None},
         CompareAndSet(u, expected, next, successor), ~UNCHANGED repositoryVars
  PROVE  /\ OnlyRow(u) /\ operations[u] # None
         /\ operations'[u].key = operations[u].key
         /\ operations'[u].state = next
         /\ \/ operations'[u].successor = operations[u].successor
            \/ next = "SuccessorCreated" /\ operations'[u].successor = successor
<1>1. Settable(u, expected, next, successor)
  BY DEF CompareAndSet
<1>2. Exists(u) /\ expected = operations[u].state
  BY <1>1 DEF Settable
<1>3. CompareAndSet(u, operations[u].state, next, successor)
  BY <1>2
<1>4. /\ OnlyRow(u) /\ operations'[u].state = next
      /\ operations'[u] = Moved(operations[u], next, 1, ChosenSuccessor(u, successor),
                                operations[u].acknowledged, None)
      /\ operations'[u].successor = ChosenSuccessor(u, successor)
  BY <1>2, <1>3, SetMoves
<1>5. operations'[u].key = operations[u].key
  BY <1>4 DEF Moved
<1> QED
  BY <1>1, <1>2, <1>4, <1>5 DEF Exists, Settable, LedgerConsistent, ChosenSuccessor

\* What a retry leaves in its row.
LEMMA RetryRow ==
  ASSUME IInv, NEW u \in Operations, NEW resume \in RetryResumeStates, RecordRetry(u, resume)
  PROVE  /\ OnlyRow(u) /\ operations[u] # None
         /\ operations'[u].key = operations[u].key
         /\ operations'[u].state = "RetryWait"
         /\ operations'[u].successor = operations[u].successor
<1>1. /\ OnlyRow(u) /\ operations[u] # None /\ operations'[u].state = "RetryWait"
      /\ operations'[u].successor = operations[u].successor
  BY RetryMoves DEF Exists
<1>2. operations[u] \in OperationRows /\ operations \in [Operations -> OperationRows \cup {None}]
  BY <1>1 DEF IInv, TypeOK
<1>3. CASE operations' = [operations EXCEPT ![u].retryDue = FALSE]
  BY <1>1, <1>2, <1>3 DEF OperationRows
<1>4. CASE operations' = [operations EXCEPT ![u] =
             Moved(operations[u], "RetryWait", 2, operations[u].successor,
                   operations[u].acknowledged, resume)]
  BY <1>1, <1>2, <1>4 DEF Moved
<1> QED
  BY <1>1, <1>3, <1>4 DEF RecordRetry

\* What an acknowledgement leaves in its row.
LEMMA AcknowledgedRow ==
  ASSUME IInv, NEW u \in Operations, NEW ack \in Acknowledgements, Acknowledge(u, ack),
         ~UNCHANGED repositoryVars
  PROVE  /\ OnlyRow(u) /\ operations[u] # None
         /\ operations'[u].key = operations[u].key
         /\ operations'[u].successor = operations[u].successor
         /\ operations'[u].acknowledged = ack.successor
         /\ AcknowledgeAccepts(u, ack) /\ operations[u].state = "BootstrapSending"
<1>1. /\ OnlyRow(u) /\ operations[u] # None /\ operations[u].state = "BootstrapSending"
      /\ operations'[u].successor = operations[u].successor
  BY AcknowledgeMoves DEF Exists
<1>2. /\ operations' = [operations EXCEPT ![u] =
           Moved(operations[u], "Acknowledged", 1, operations[u].successor,
                 ack.successor, None)]
      /\ AcknowledgeAccepts(u, ack)
  BY DEF Acknowledge, repositoryVars
<1>3. operations \in [Operations -> OperationRows \cup {None}]
  BY DEF IInv, TypeOK
<1> QED
  BY <1>1, <1>2, <1>3 DEF Moved

\* A transaction of a call leaves rows that go on, and at most a new one.
LEMMA TransactionRows ==
  ASSUME HInv, TasksOK, NEW p \in Calls, Transacts(p),
         NEW o \in Operations, operations'[o] # None
  PROVE  RowGoesOn(o) \/ RowIsNew(o)
<1> DEFINE t == tasks[p]
<1>0. IInv /\ t \in Tasks /\ TaskOK(t, hostCalls[p], answered)
  BY AtFacts DEF HInv
<1>1. CASE operations'[o] = operations[o]
  BY <1>1 DEF RowGoesOn
<1>2. CASE UNCHANGED repositoryVars
  BY <1>1, <1>2 DEF repositoryVars
<1>3. CASE /\ t.at = "create" /\ Submission(t) \in Requests
           /\ CreateOperation(Submission(t)) /\ ~UNCHANGED repositoryVars
  <2>1. /\ OnlyRow(t.op) /\ operations'[t.op] = CreatedRow(Submission(t))
        /\ operations[t.op] = None /\ CreateInserts(Submission(t))
    BY <1>0, <1>3, CreateMoves DEF Submission, Exists, CreateOperation
  <2> QED
    BY <1>1, <1>3, <2>1 DEF OnlyRow, RowIsNew
<1>4. CASE /\ t.op \in Operations /\ ~UNCHANGED repositoryVars
           /\ \E next \in ContinuityStates \ { "Acknowledged" },
                 successor \in Sessions \cup {None} :
                /\ CompareAndSet(t.op, t.row.state, next, successor)
                /\ next = "SuccessorCreated" =>
                     t.at = "created" /\ successor = t.session.id
  <2>1. PICK next \in ContinuityStates \ { "Acknowledged" },
             successor \in Sessions \cup {None} :
                /\ CompareAndSet(t.op, t.row.state, next, successor)
                /\ next = "SuccessorCreated" =>
                     t.at = "created" /\ successor = t.session.id
    BY <1>4
  <2>2. /\ OnlyRow(t.op) /\ operations[t.op] # None
        /\ operations'[t.op].key = operations[t.op].key
        /\ operations'[t.op].state = next
        /\ \/ operations'[t.op].successor = operations[t.op].successor
           \/ next = "SuccessorCreated" /\ operations'[t.op].successor = successor
    BY <1>0, <1>4, <2>1, SetRow
  <2> QED
    BY <1>1, <2>1, <2>2 DEF OnlyRow, RowGoesOn
<1>5. CASE /\ t.at = "acknowledge" /\ Acknowledge(t.op, Acknowledgement(t))
           /\ ~UNCHANGED repositoryVars
  <2>1. /\ t.op \in Operations /\ t.session # None /\ t.document # None
        /\ t.session.id \in Sessions
    BY <1>5, AtFacts DEF NeedsSession, NeedsDocument, TaskOK
  <2>2. Acknowledgement(t) \in Acknowledgements
    BY <1>0, <2>1, AcknowledgeResult
  <2>3. /\ OnlyRow(t.op) /\ operations[t.op] # None
        /\ operations'[t.op].key = operations[t.op].key
        /\ operations'[t.op].successor = operations[t.op].successor
    BY <1>0, <1>5, <2>1, <2>2, AcknowledgedRow
  <2> QED
    BY <1>1, <1>5, <2>3 DEF OnlyRow, RowGoesOn
<1>6. CASE t.op \in Operations /\ t.row # None /\ RecordRetry(t.op, t.row.state)
  <2>1. t.row.state \in RetryResumeStates
    BY <1>0, <1>6 DEF RecordRetry, RefreshesRetry, EntersRetry, IInv, TypeOK, Exists, OperationRows,
       Tasks
  <2>2. /\ OnlyRow(t.op) /\ operations[t.op] # None
        /\ operations'[t.op].key = operations[t.op].key
        /\ operations'[t.op].state = "RetryWait"
        /\ operations'[t.op].successor = operations[t.op].successor
    BY <1>0, <1>6, <2>1, RetryRow
  <2> QED
    BY <1>1, <2>2 DEF OnlyRow, RowGoesOn
<1> QED
  BY <1>2, <1>3, <1>4, <1>5, <1>6 DEF Transacts

\* Whatever step a project takes, its rows go on, or are new.
LEMMA RowsFrom ==
  ASSUME CoordinatorInv, [Next]_vars, NEW o \in Operations, operations'[o] # None
  PROVE  RowGoesOn(o) \/ RowIsNew(o)
<1>0. HInv /\ IInv /\ TasksOK /\ TypeOK
  BY DEF CoordinatorInv, HInv, IInv
<1>1. CASE operations'[o] = operations[o]
  BY <1>1 DEF RowGoesOn
<1>2. CASE UNCHANGED vars
  BY <1>1, <1>2 DEF vars, repositoryVars
<1>3. ASSUME NEW p \in Calls, CallStep(p)
      PROVE  RowGoesOn(o) \/ RowIsNew(o)
  BY <1>0, <1>3, TransactionRows DEF CallStep
<1>4. CASE (\E h \in Hosts : ProcessRestarts(h)) \/ HostIsCancelled
  BY <1>1, <1>4 DEF ProcessRestarts, HostIsCancelled, repositoryVars
<1>5. CASE ClientAcknowledges
  <2>1. PICK u \in Operations, ack \in Acknowledgements : Acknowledge(u, ack)
    BY <1>5 DEF ClientAcknowledges
  <2>2. CASE UNCHANGED repositoryVars
    BY <1>1, <2>2 DEF repositoryVars
  <2>3. CASE ~UNCHANGED repositoryVars
    <3>1. /\ OnlyRow(u) /\ operations[u] # None
          /\ operations'[u].key = operations[u].key
          /\ operations'[u].successor = operations[u].successor
      BY <1>0, <2>1, <2>3, AcknowledgedRow
    <3> QED
      BY <1>1, <1>5, <3>1 DEF OnlyRow, RowGoesOn
  <2> QED
    BY <2>2, <2>3
<1>6. CASE ProjectReset
  BY <1>6 DEF ProjectReset, ResetContinuity
<1>7. CASE TimePasses
  <2>1. RetryTimePasses
    BY <1>7 DEF TimePasses
  <2>2. /\ operations[o] # None /\ operations'[o].state = operations[o].state
        /\ operations'[o].successor = operations[o].successor
    BY <1>0, <2>1, TimeMovesNothing DEF Exists
  <2>3. \/ operations'[o] = operations[o]
        \/ operations'[o] = [operations[o] EXCEPT !.retryDue = TRUE]
    BY <2>1 DEF RetryTimePasses
  <2>4. operations[o] \in OperationRows
    BY <1>0, <2>2 DEF TypeOK
  <2>5. operations'[o].key = operations[o].key
    BY <2>3, <2>4 DEF OperationRows
  <2> QED
    BY <2>2, <2>5 DEF RowGoesOn
<1> QED
  BY <1>2, <1>3, <1>4, <1>5, <1>6, <1>7, CoordinatorSteps

\* The row a call has is the one it had, but for its retry's being due, or one just read.
RowIsFrom(p) ==
  LET n == tasks'[p]
  IN n.row # None =>
       \/ /\ n.op = tasks[p].op /\ tasks[p].row # None
          /\ n.row.key = tasks[p].row.key /\ n.row.successor = tasks[p].row.successor
       \/ /\ n.op \in Operations
          /\ \/ operations[n.op] # None /\ n.row = Copy(operations[n.op])
             \/ operations'[n.op] # None /\ n.row = Copy(operations'[n.op])

\* Whatever step a project takes, its calls have what they had, or have just read.
LEMMA CallsFrom ==
  ASSUME CoordinatorInv, [Next]_vars, NEW p \in Calls
  PROVE  /\ RowIsFrom(p)
         /\ KeyFrom(p, tasks'[p]) /\ DocumentFrom(p, tasks'[p]) /\ SessionFrom(p, tasks'[p])
<1>0. TasksOK /\ tasks \in [Calls -> Tasks]
  BY DEF CoordinatorInv, TasksOK
<1>1. CASE tasks'[p] = tasks[p]
  BY <1>1 DEF RowIsFrom, KeyFrom, DocumentFrom, SessionFrom
<1>2. ASSUME NEW q \in Calls, CallStep(q)
      PROVE  /\ RowIsFrom(p) /\ KeyFrom(p, tasks'[p])
             /\ DocumentFrom(p, tasks'[p]) /\ SessionFrom(p, tasks'[p])
  <2>1. PICK n : Takes(q, n)
    BY <1>2 DEF CallStep
  <2>2. CASE p # q
    BY <1>0, <1>1, <2>1, <2>2 DEF Takes
  <2>3. CASE p = q
    <3>1. tasks'[p] = n /\ RowFrom(p, n)
          /\ KeyFrom(p, n) /\ DocumentFrom(p, n) /\ SessionFrom(p, n)
      BY <1>0, <2>1, <2>3 DEF Takes
    <3>2. RowIsFrom(p)
      BY <3>1 DEF RowIsFrom, RowFrom
    <3> QED
      BY <3>1, <3>2
  <2> QED
    BY <2>2, <2>3
<1>3. ASSUME NEW h \in Hosts, ProcessRestarts(h)
      PROVE  tasks'[p] \in { tasks[p], IdleTask }
  BY <1>3 DEF ProcessRestarts
<1>4. CASE tasks'[p] = IdleTask
  BY <1>4 DEF IdleTask, RowIsFrom, KeyFrom, DocumentFrom, SessionFrom, Sending
<1>5. CASE TimePasses
  <2>1. \/ tasks'[p] = tasks[p]
        \/ tasks[p].row # None /\ tasks'[p] = [tasks[p] EXCEPT !.row.retryDue = TRUE]
    BY <1>5 DEF TimePasses
  <2>2. CASE tasks[p].row # None /\ tasks'[p] = [tasks[p] EXCEPT !.row.retryDue = TRUE]
    <3> DEFINE r == [tasks[p].row EXCEPT !.retryDue = TRUE]
    <3>1. tasks[p] \in Tasks /\ tasks[p].row \in OperationRows
      BY <1>0, <2>2, TaskFields
    <3>2. r.key = tasks[p].row.key /\ r.successor = tasks[p].row.successor
      BY <3>1 DEF OperationRows
    <3>3. tasks'[p] = [tasks[p] EXCEPT !.row = r]
      BY <2>2
    <3> HIDE DEF r
    <3>4. /\ tasks'[p].row = r /\ tasks'[p].op = tasks[p].op /\ tasks'[p].at = tasks[p].at
          /\ tasks'[p].key = tasks[p].key /\ tasks'[p].document = tasks[p].document
          /\ tasks'[p].session = tasks[p].session
      BY <3>1, <3>3 DEF Tasks
    <3>5. RowIsFrom(p)
      BY <2>2, <3>2, <3>4 DEF RowIsFrom
    <3> QED
      BY <3>4, <3>5 DEF KeyFrom, DocumentFrom, SessionFrom
  <2> QED
    BY <1>1, <2>1, <2>2
<1>6. CASE UNCHANGED vars \/ HostIsCancelled \/ ClientAcknowledges \/ ProjectReset
  BY <1>1, <1>6 DEF vars, HostIsCancelled, ClientAcknowledges, ProjectReset
<1> QED
  BY <1>1, <1>2, <1>3, <1>4, <1>5, <1>6, CoordinatorSteps

\* Every key is one that was submitted.
LEMMA KeysStaySubmitted ==
  ASSUME CoordinatorInv, KeysSubmitted, [Next]_vars
  PROVE  KeysSubmitted'
<1>0. CoordinatorInv' /\ TasksOK
  BY CoordinatorStep DEF CoordinatorInv
<1>1. ASSUME NEW o \in Operations, operations'[o] # None
      PROVE  Submits(o, operations'[o].key)
  <2>1. CASE RowGoesOn(o)
    BY <2>1 DEF RowGoesOn, KeysSubmitted, Exists
  <2>2. CASE RowIsNew(o)
    <3>1. PICK p \in Calls : /\ tasks[p].at = "create" /\ tasks[p].op = o
                             /\ operations'[o] = CreatedRow(Submission(tasks[p]))
      BY <2>2 DEF RowIsNew
    <3>2. operations'[o].key = tasks[p].key
      BY <3>1 DEF CreatedRow, Submission
    <3>3. tasks[p].key # None
      <4>1. tasks[p].key \in Keys /\ operations'[o] \in OperationRows
        BY <1>0, <1>1, <3>1, AtFacts DEF CoordinatorInv, HInv, IInv, TypeOK
      <4> QED
        BY <4>1, KeyNoneAssumption
    <3> QED
      BY <3>1, <3>2, <3>3 DEF KeysSubmitted
  <2> QED
    BY <1>1, <2>1, <2>2, RowsFrom
<1>2. ASSUME NEW p \in Calls, tasks'[p].row # None
      PROVE  Submits(tasks'[p].op, tasks'[p].row.key)
  <2> DEFINE n == tasks'[p]
  <2>1. CASE n.op = tasks[p].op /\ tasks[p].row # None /\ n.row.key = tasks[p].row.key
    BY <2>1 DEF KeysSubmitted
  <2>2. CASE n.op \in Operations /\ operations[n.op] # None /\ n.row = Copy(operations[n.op])
    <3>1. operations[n.op] \in OperationRows
      BY <2>2 DEF CoordinatorInv, HInv, IInv, TypeOK
    <3> QED
      BY <2>2, <3>1, CopyFields DEF KeysSubmitted, Exists
  <2>3. CASE n.op \in Operations /\ operations'[n.op] # None /\ n.row = Copy(operations'[n.op])
    <3>1. operations'[n.op] \in OperationRows
      BY <1>0, <2>3 DEF CoordinatorInv, HInv, IInv, TypeOK
    <3> QED
      BY <1>1, <2>3, <3>1, CopyFields
  <2> QED
    BY <1>2, <2>1, <2>2, <2>3, CallsFrom DEF RowIsFrom
<1>3. ASSUME NEW p \in Calls, tasks'[p].key # None
      PROVE  Submits(tasks'[p].op, tasks'[p].key)
  <2>1. KeyFrom(p, tasks'[p])
    BY CallsFrom
  <2> QED
    BY <1>3, <2>1 DEF KeyFrom, KeysSubmitted, Submits
<1> QED
  BY <1>1, <1>2, <1>3 DEF KeysSubmitted, Exists

--------------------------------------------------------------------------------
(* What counts as acknowledged the provider has acknowledged               *)

\* An acknowledged row has the acknowledgement, and the provider has given it.
AcknowledgedRows ==
  \A o \in Operations :
    Exists(o) /\ Stage(operations[o]) \in AcknowledgedStates =>
      /\ operations[o].acknowledged # None
      /\ [ session |-> operations[o].successor, key |-> operations[o].key,
           digest |-> Digest(handoffs[o]) ] \in answered

\* A stage past the bootstrap that follows one before it is the acknowledgement.
LEMMA AcknowledgedAfterSending ==
  ASSUME NEW was, NEW is, Follows(was, is), was \notin AcknowledgedStates,
         is \in AcknowledgedStates
  PROVE  is = "Acknowledged"
<1>1. PICK i \in 1 .. 8 : was = StageOrder[i] /\ is = StageOrder[i + 1]
  BY DEF Follows
<1>2. i = 1 \/ i = 2 \/ i = 3 \/ i = 4 \/ i = 5 \/ i = 6 \/ i = 7 \/ i = 8
  OBVIOUS
<1> QED
  BY <1>1, <1>2 DEF StageOrder, AcknowledgedStates

\* No step un-acknowledges what the provider has acknowledged.
LEMMA AnswersKept ==
  ASSUME CoordinatorInv, [Next]_vars
  PROVE  answered \subseteq answered'
<1>1. HostChanges
  BY HostChangesOnly
<1>2. UNCHANGED hostVars => answered' = answered
  BY DEF hostVars
<1>3. \A p \in Calls : CallOutside(p) => answered \subseteq answered'
  BY DEF CallOutside
<1>4. \A p \in Calls : LoadsFor(p) => answered \subseteq answered'
  BY DEF LoadsFor
<1>5. \A p \in Calls : \A M : CallSection(p, M) => answered \subseteq answered'
  BY DEF CallSection, Advances
<1>6. \A h \in Hosts : \A M : OtherSection(h, M) => answered \subseteq answered'
  BY DEF OtherSection, Advances
<1>7. \A h \in Hosts : Restart(h) => answered \subseteq answered'
  BY DEF Restart
<1> QED
  BY <1>1, <1>2, <1>3, <1>4, <1>5, <1>6, <1>7 DEF HostChanges

\* An acknowledged row stays as it was acknowledged, and a row becomes one only by what
\* the provider has answered the call that sent it.
LEMMA AcknowledgedStay ==
  ASSUME CoordinatorInv, KeysSubmitted, OneKeyPerOperation, AcknowledgedRows,
         \A p \in Calls : "acknowledge" \notin Offered[p],
         [Next]_vars
  PROVE  AcknowledgedRows'
<1> SUFFICES ASSUME NEW o \in Operations, operations'[o] # None,
                    Stage(operations'[o]) \in AcknowledgedStates
             PROVE  /\ operations'[o].acknowledged # None
                    /\ [ session |-> operations'[o].successor,
                         key |-> operations'[o].key,
                         digest |-> Digest(handoffs'[o]) ] \in answered'
  BY DEF AcknowledgedRows, Exists, Digest
<1> DEFINE was == operations[o]
           is == operations'[o]
<1>1. /\ CoordinatorInv' /\ RepositoryStep /\ answered \subseteq answered'
      /\ HInv /\ IInv /\ HInv' /\ IInv' /\ AcknowledgedTogether' /\ TasksOK
  BY CoordinatorStep, AnswersKept DEF CoordinatorInv, HInv
<1>2. BackwardStep /\ StableStep
  BY <1>1, StepGoesForward, StepIsStable DEF RepositoryStep
<1>3. is \in OperationRows /\ handoffs'[o] # None
  BY <1>1 DEF IInv, TypeOK, HandoffWithOperation, Exists
<1>4. CASE RowIsNew(o)
  BY <1>4 DEF RowIsNew, CreatedRow, Stage, AcknowledgedStates
<1>5. CASE RowGoesOn(o) /\ Stage(was) \in AcknowledgedStates
  <2>1. /\ was # None /\ was.acknowledged # None /\ is.key = was.key
        /\ [ session |-> was.successor, key |-> was.key,
             digest |-> Digest(handoffs[o]) ] \in answered
    BY <1>5 DEF RowGoesOn, AcknowledgedRows, Exists
  <2>2. /\ was.successor # None /\ handoffs[o] # None /\ handoffs[o].acknowledged # None
    BY <1>1, <2>1 DEF IInv, AcknowledgementExact, Exists
  <2>3. is.successor = was.successor /\ handoffs'[o] = handoffs[o]
    BY <1>2, <1>3, <2>2 DEF StableStep
  <2>4. is.acknowledged # None
    BY <1>1, <1>3, <2>2, <2>3 DEF AcknowledgedTogether
  <2> QED
    BY <1>1, <2>1, <2>3, <2>4
<1>6. CASE RowGoesOn(o) /\ Stage(was) \notin AcknowledgedStates
  <2>1. was # None /\ OnItsWay(is)
    BY <1>6 DEF RowGoesOn, OnItsWay, Stage, AcknowledgedStates
  <2>2. Follows(Stage(was), Stage(is))
    BY <1>2, <2>1 DEF BackwardStep
  <2>3. Stage(is) = "Acknowledged"
    BY <1>6, <2>2, AcknowledgedAfterSending
  <2>4. is.state = "Acknowledged" /\ was.state # "Acknowledged"
    <3>1. is.retryResume # "Acknowledged"
      BY <1>3 DEF OperationRows, RetryResumeStates, ContinuityStates
    <3> QED
      BY <1>6, <2>3, <3>1 DEF Stage, AcknowledgedStates
  <2>5. PICK p \in Calls : /\ tasks[p].at = "acknowledge" /\ tasks[p].op = o
                           /\ Acknowledge(o, Acknowledgement(tasks[p]))
    BY <1>6, <2>4 DEF RowGoesOn, ClientAcknowledges
  <2> DEFINE t == tasks[p]
             ack == Acknowledgement(t)
  <2>6. /\ t \in Tasks /\ t.session # None /\ t.session.id \in Sessions
        /\ t.document # None /\ t.row # None
        /\ ForItsRow(t) /\ Answer(t.session, Digest(t.document)) \in answered
    BY <1>1, <2>5, AtFacts DEF TaskOK, NeedsSession, NeedsDocument, NeedsRow, Points
  <2>7. ack \in Acknowledgements
    BY <1>1, <2>5, <2>6, AcknowledgeResult
  <2>8. ~UNCHANGED repositoryVars
    BY <2>4 DEF repositoryVars
  <2>9. /\ is.key = was.key /\ is.successor = was.successor
        /\ is.acknowledged = t.session.id /\ AcknowledgeAccepts(o, ack)
    BY <1>1, <2>5, <2>7, <2>8, AcknowledgedRow DEF Acknowledgement
  <2>10. was.successor = t.session.id /\ Digest(handoffs[o]) = Digest(t.document)
    BY <2>9 DEF AcknowledgeAccepts, ValidAcknowledgement, Acknowledgement
  <2>11. Digest(handoffs'[o]) = Digest(handoffs[o])
    <3>1. handoffs' = [handoffs EXCEPT ![o].acknowledged = ack.successor]
      BY <1>1, <2>5, <2>7, <2>8, AcknowledgeMoves
    <3>2. handoffs[o] \in HandoffRows /\ handoffs \in [Operations -> HandoffRows \cup {None}]
      BY <1>1, <2>9 DEF IInv, TypeOK, AcknowledgeAccepts
    <3> QED
      BY <3>1, <3>2 DEF HandoffRows, Digest
  <2>12. t.session.key = is.key
    <3>1. t.session.key = t.row.key
      BY <2>6 DEF ForItsRow, SameBinding, CreationRequest
    <3>2. Submits(o, t.row.key) /\ Submits(o, was.key)
      BY <2>1, <2>5, <2>6 DEF KeysSubmitted, Exists
    <3> QED
      BY <2>9, <3>1, <3>2 DEF Submits, OneKeyPerOperation
  <2> QED
    BY <1>1, <2>6, <2>9, <2>10, <2>11, <2>12, NoneAssumption DEF Answer
<1> QED
  BY <1>4, <1>5, <1>6, RowsFrom

\* If clients give an operation one key and leave its acknowledgement to the host, a
\* rollover counts as acknowledged only if the provider has acknowledged exactly the
\* recorded successor with exactly the recorded document.
THEOREM AcknowledgedIsAnswered ==
  ASSUME OneKeyPerOperation,
         \A p \in Calls : "acknowledge" \notin Offered[p]
  PROVE  Spec => []AcknowledgedMeansAnswered
<1> DEFINE I == KeysSubmitted /\ AcknowledgedRows
<1>1. Init => I
  BY DEF Init, RepositoryInit, IdleTask, KeysSubmitted, AcknowledgedRows, Exists
<1>2. CoordinatorInv /\ I /\ [Next]_vars => I'
  BY KeysStaySubmitted, AcknowledgedStay
<1>3. I => AcknowledgedMeansAnswered
  BY DEF AcknowledgedRows, AcknowledgedMeansAnswered
<1> HIDE DEF I
<1> QED
  BY <1>1, <1>2, <1>3, CoordinatorInvariant, PTL DEF Spec

--------------------------------------------------------------------------------
(* What a step of a project does to the ledgers and calls of its host      *)

\* What a rewritten ledger changes.
LEMMA RewriteFacts ==
  ASSUME HostInv, NEW p \in Calls, NEW M, Rewrites(p, M)
  PROVE  /\ Ledgers' \subseteq Ledgers \cup {M} /\ memory'[HostOf[p]] = M
         /\ durable' \in { durable, M }
         /\ Loaded(HostOf[p]) \in Ledgers /\ LedgerOK(Loaded(HostOf[p]), answered)
         /\ Rewritten(p, Loaded(HostOf[p]), M)
         /\ ~overlaps /\ ~FileFails /\ KeysOf(M) # KeysOf(Loaded(HostOf[p])) =>
              durable' = M \/ view[HostOf[p]] = "stale"
<1> DEFINE h == HostOf[p]
           L == Loaded(h)
<1>1. h \in Hosts /\ memory \in [Hosts -> [Keys -> Records \cup {None}]]
  BY HostOfAssumption DEF HostInv, HostTypeOK
<1>2. L \in Ledgers /\ LedgerOK(L, answered)
  BY <1>1, LoadedOK
<1>3. memory' = [memory EXCEPT ![h] = M] /\ durable' \in { durable, M }
  BY DEF Rewrites, Commits, FailsToCommit, Loads
<1>4. Ledgers' \subseteq Ledgers \cup {M} /\ memory'[h] = M
  BY <1>1, <1>3 DEF Ledgers
<1>5. CASE Commits(h, M)
  BY <1>2, <1>4, <1>5 DEF Commits, Rewrites
<1>6. CASE FailsToCommit(h, M)
  BY <1>2, <1>3, <1>4, <1>6 DEF FailsToCommit, Rewrites
<1>7. CASE Loads(h) /\ M = L
  BY <1>2, <1>3, <1>4, <1>7 DEF Rewrites
<1> QED
  BY <1>5, <1>6, <1>7 DEF Rewrites

\* A step leaves the ledgers as they are, but for a process that starts anew, or rewrites
\* one of them for a call.
LEMMA LedgersFrom ==
  ASSUME CoordinatorInv, [Next]_vars
  PROVE  \/ /\ Ledgers' \subseteq Ledgers \cup { EmptyLedger } /\ durable' = durable
            /\ \A g \in Hosts : view'[g] \in { view[g], "unloaded" }
         \/ \E p \in Calls : \E M : Rewrites(p, M)
<1>0. HostInv
  BY DEF CoordinatorInv
<1>1. CASE UNCHANGED << durable, memory, view >>
  BY <1>1 DEF Ledgers
<1>2. ASSUME NEW p \in Calls, CallStep(p)
      PROVE  UNCHANGED << durable, memory, view >> \/ \E M : Rewrites(p, M)
  <2>1. CASE UNCHANGED hostVars
    BY <2>1 DEF hostVars
  <2>2. CASE Returns(p) \/ CallOutside(p)
    BY <2>2 DEF Returns, CallOutside
  <2>3. CASE LoadsFor(p)
    BY <2>3, LoadRewrites DEF LoadsFor
  <2>4. CASE HostStep(p, KnownSessions)
    BY <1>0, <2>2, <2>4, HostStepRewrites
  <2> QED
    BY <1>2, <2>1, <2>2, <2>3, <2>4 DEF CallStep, HostPart
<1>3. ASSUME NEW h \in Hosts, ProcessRestarts(h)
      PROVE  /\ Ledgers' \subseteq Ledgers \cup { EmptyLedger } /\ durable' = durable
             /\ \A g \in Hosts : view'[g] \in { view[g], "unloaded" }
  <2>1. /\ durable' = durable /\ memory' = [memory EXCEPT ![h] = EmptyLedger]
        /\ view' = [view EXCEPT ![h] = "unloaded"]
    BY <1>3 DEF ProcessRestarts, Restart
  <2> QED
    BY <1>0, <2>1 DEF Ledgers, HostInv, HostTypeOK
<1>4. CASE HostIsCancelled
  BY <1>0, <1>4, CancelRewrites DEF HostIsCancelled
<1>5. CASE UNCHANGED vars \/ ClientAcknowledges \/ ProjectReset \/ TimePasses
  BY <1>1, <1>5 DEF vars, hostVars, ClientAcknowledges, ProjectReset, TimePasses
<1> QED
  BY <1>1, <1>2, <1>3, <1>4, <1>5, CoordinatorSteps

\* A bootstrap goes on with what it was begun with, and a call holds a session it had, one
\* of a ledger, or the one its coordinator call sends a document to.
HostCallFrom(q) ==
  LET was == hostCalls[q]
      is  == hostCalls'[q]
  IN /\ is.phase \in Bootstrapped =>
          \/ /\ was.phase \in Bootstrapped
             /\ is.session = was.session /\ is.digest = was.digest
          \/ tasks'[q].at = "bootstrapping"
     /\ is.session # None /\ is.session.id # None =>
          \/ is.session = was.session
          \/ \E ledger \in Ledgers' : \E k \in KeysOf(ledger) :
               is.session = ledger[k].session
          \/ tasks'[q].at = "bootstrapping"

\* Whatever step a project takes, its host calls go on with what they had.
LEMMA HostCallsFrom ==
  ASSUME CoordinatorInv, [Next]_vars, NEW q \in Calls
  PROVE  HostCallFrom(q)
<1>0. HostInv /\ HostTypeOK /\ TasksOK
  BY DEF CoordinatorInv, HostInv
<1>1. CASE hostCalls'[q] = hostCalls[q]
  BY <1>1 DEF HostCallFrom
<1>2. CASE hostCalls'[q] = IdleCall
  BY <1>2 DEF HostCallFrom, IdleCall, Bootstrapped
<1>3. ASSUME NEW p \in Calls, CallStep(p)
      PROVE  HostCallFrom(q)
  <2>1. CASE p # q
    <3>1. hostCalls'[q] = hostCalls[q]
      BY <1>0, <1>3, <2>1, HostPartInv DEF CallStep
    <3> QED
      BY <1>1, <3>1
  <2>2. CASE p = q /\ UNCHANGED hostVars
    BY <1>1, <2>2 DEF hostVars
  <2>3. CASE p = q /\ Returns(p)
    BY <2>3 DEF Returns, HostCallFrom, Bootstrapped
  <2>4. CASE p = q /\ LoadsFor(p)
    <3>1. \/ hostCalls'[q] = IdleCall
          \/ hostCalls'[q].phase = "intent" /\ hostCalls'[q].session.id = None
          \/ tasks'[q].at = "bootstrapping"
      BY <2>4 DEF LoadsFor, CreationRequest
    <3> QED
      BY <1>2, <3>1 DEF HostCallFrom, Bootstrapped
  <2>5. CASE p = q /\ HostStep(p, KnownSessions)
    <3>1. \/ hostCalls[p].phase \in Creating /\ CreationGoesOn(p)
          \/ hostCalls[p].phase \in Bootstrapped /\ BootstrapGoesOn(p)
      BY <1>0, <2>5, HostStepMoves
    <3>2. \/ hostCalls'[p].session = hostCalls[p].session
          \/ \E M : CallSection(p, M) /\ hostCalls'[p].session # None
                    /\ M[hostCalls'[p].session.key] # None
                    /\ hostCalls'[p].session = M[hostCalls'[p].session.key].session
      BY <1>0, <2>5, HostStepAdds DEF CallSection
    <3>3. ASSUME NEW M, CallSection(p, M), hostCalls'[p].session # None,
                 M[hostCalls'[p].session.key] # None
          PROVE  M \in Ledgers' /\ hostCalls'[p].session.key \in KeysOf(M)
      <4>1. HostOf[p] \in Hosts /\ memory' = [memory EXCEPT ![HostOf[p]] = M]
        BY <1>0, <3>3, HostOfAssumption, AdvanceTypes DEF CallSection
      <4>2. M \in Ledgers'
        BY <1>0, <4>1 DEF Ledgers, HostTypeOK
      <4>3. hostCalls'[p].session.key \in Keys
        BY <3>3 DEF CallSection, HostCalls, HostSessions
      <4> QED
        BY <3>3, <4>2, <4>3 DEF KeysOf
    <3> QED
      BY <2>5, <3>1, <3>2, <3>3
      DEF HostCallFrom, CreationGoesOn, BootstrapGoesOn, Creating, Bootstrapped
  <2> QED
    BY <1>3, <2>1, <2>2, <2>3, <2>4, <2>5 DEF CallStep, HostPart
<1>4. ASSUME NEW h \in Hosts, ProcessRestarts(h)
      PROVE  hostCalls'[q] \in { IdleCall, hostCalls[q] }
  BY <1>4 DEF ProcessRestarts, Restart
<1>5. CASE HostIsCancelled
  <2>1. SameCalls
    BY <1>0, <1>5, CancelNames DEF HostIsCancelled
  <2> QED
    BY <2>1 DEF SameCalls, HostCallFrom
<1>6. CASE UNCHANGED vars \/ ClientAcknowledges \/ ProjectReset \/ TimePasses
  BY <1>1, <1>6 DEF vars, hostVars, ClientAcknowledges, ProjectReset, TimePasses
<1> QED
  BY <1>1, <1>2, <1>3, <1>4, <1>5, <1>6, CoordinatorSteps

--------------------------------------------------------------------------------
(* Without resets, a session is bound to the handoff of its rollover       *)

NoResets == \A p \in Calls : "reset" \notin Offered[p]

\* Without resets, a call's copies are of the row that is there: its key and content
\* never change, nor its successor once it is recorded.
CopiesOfRows ==
  /\ \A o1, o2 \in Operations :
       Exists(o1) /\ Exists(o2) /\ operations[o1].key = operations[o2].key => o1 = o2
  /\ \A p \in Calls :
       LET t == tasks[p]
       IN /\ t.row # None =>
               /\ t.op \in Operations
               /\ Exists(t.op) /\ operations[t.op].key = t.row.key
               /\ t.row.successor # None => operations[t.op].successor = t.row.successor
          /\ t.at \in Sending /\ t.document # None =>
               handoffs[t.op] # None /\ t.document.content = handoffs[t.op].content

\* The handoff a session is bound to is that of the rollover whose successor it is.
BoundTo(session, digest) ==
  \E o \in Operations :
    /\ operations[o] # None /\ handoffs[o] # None /\ session.id # None
    /\ operations[o].key = session.key /\ operations[o].successor = session.id
    /\ digest = [ content |-> handoffs[o].content, successor |-> session.id ]

DocumentsBound ==
  /\ \A ledger \in Ledgers : \A k \in KeysOf(ledger) :
       ledger[k].digest # None => BoundTo(ledger[k].session, ledger[k].digest)
  /\ \A p \in Calls :
       hostCalls[p].phase \in Bootstrapped =>
         BoundTo(hostCalls[p].session, hostCalls[p].digest)

\* No transaction of a call deletes a row.
LEMMA TransactionKeepsRows ==
  ASSUME CoordinatorInv, RepositoryStep, NEW p \in Calls, Transacts(p),
         NEW o \in Operations, operations[o] # None
  PROVE  operations'[o] # None
<1> DEFINE t == tasks[p]
<1>0. HInv /\ IInv /\ TasksOK /\ IInv' /\ t \in Tasks
  BY AtFacts, RepositoryStepOK DEF CoordinatorInv, HInv
<1>1. CASE operations'[o] = operations[o]
  BY <1>1
<1>2. CASE UNCHANGED repositoryVars
  BY <1>1, <1>2 DEF repositoryVars
<1>3. CASE /\ t.at = "create" /\ Submission(t) \in Requests
           /\ CreateOperation(Submission(t)) /\ ~UNCHANGED repositoryVars
  BY <1>0, <1>1, <1>3, CreateMoves DEF OnlyRow, Exists
<1>4. CASE /\ t.op \in Operations /\ ~UNCHANGED repositoryVars
           /\ \E next \in ContinuityStates, successor \in Sessions \cup {None} :
                CompareAndSet(t.op, t.row.state, next, successor)
  <2>1. OnlyRow(t.op)
    BY <1>0, <1>4, SetRow
  <2>2. operations'[t.op] # None
    BY <1>0, <1>4, SetResult
  <2> QED
    BY <1>1, <2>1, <2>2 DEF OnlyRow
<1>5. CASE /\ t.at = "acknowledge" /\ Acknowledge(t.op, Acknowledgement(t))
           /\ ~UNCHANGED repositoryVars
  <2>1. /\ t.op \in Operations /\ t.session # None /\ t.document # None
        /\ t.session.id \in Sessions
    BY <1>0, <1>5, AtFacts DEF NeedsSession, NeedsDocument, TaskOK
  <2>2. Acknowledgement(t) \in Acknowledgements /\ operations'[t.op] \in OperationRows
    BY <1>0, <1>5, <2>1, AcknowledgeResult
  <2>3. OnlyRow(t.op)
    BY <1>0, <1>5, <2>1, <2>2, AcknowledgedRow
  <2> QED
    BY <1>1, <2>2, <2>3 DEF OnlyRow
<1>6. CASE t.op \in Operations /\ t.row # None /\ RecordRetry(t.op, t.row.state)
  <2>1. handoffs' = handoffs
    BY <1>6 DEF RecordRetry
  <2> QED
    BY <1>0, <2>1 DEF IInv, HandoffWithOperation, Exists
<1> QED
  BY <1>2, <1>3, <1>4, <1>5, <1>6 DEF Transacts

\* Where no project is reset, no row is deleted: every row goes on.
LEMMA RowsStay ==
  ASSUME CoordinatorInv, NoResets, [Next]_vars, NEW o \in Operations, operations[o] # None
  PROVE  operations'[o] # None /\ RowGoesOn(o)
<1> SUFFICES operations'[o] # None
  BY RowsFrom DEF RowIsNew
<1>0. IInv /\ IInv' /\ RepositoryStep
  BY CoordinatorStep DEF CoordinatorInv, HInv
<1>1. CASE operations'[o] = operations[o]
  BY <1>1
<1>2. CASE UNCHANGED repositoryVars
  BY <1>1, <1>2 DEF repositoryVars
<1>3. ASSUME NEW p \in Calls, CallStep(p)
      PROVE  operations'[o] # None
  BY <1>0, <1>3, TransactionKeepsRows DEF CallStep
<1>4. CASE ClientAcknowledges
  <2>1. PICK u \in Operations, ack \in Acknowledgements : Acknowledge(u, ack)
    BY <1>4 DEF ClientAcknowledges
  <2>2. CASE ~UNCHANGED repositoryVars
    <3>1. OnlyRow(u) /\ operations'[u] # None
      BY <1>0, <2>1, <2>2, AcknowledgeMoves
    <3> QED
      BY <1>1, <3>1 DEF OnlyRow
  <2> QED
    BY <1>2, <2>2
<1>5. CASE TimePasses
  <2>1. RetryTimePasses
    BY <1>5 DEF TimePasses
  <2> QED
    BY <1>0, <2>1, TimeMovesNothing DEF Exists
<1>6. ~ProjectReset
  BY DEF ProjectReset, NoResets
<1> QED
  BY <1>2, <1>3, <1>4, <1>5, <1>6, CoordinatorSteps
     DEF vars, ProcessRestarts, HostIsCancelled, repositoryVars

\* What a row and its handoff keep while there are no resets.
LEMMA RowsKept ==
  ASSUME CoordinatorInv, NoResets, [Next]_vars, NEW o \in Operations, operations[o] # None
  PROVE  /\ operations'[o] # None /\ handoffs[o] # None /\ handoffs'[o] # None
         /\ operations'[o].key = operations[o].key
         /\ handoffs'[o].content = handoffs[o].content
         /\ operations[o].successor # None => operations'[o].successor = operations[o].successor
<1>1. HInv /\ IInv /\ IInv' /\ RepositoryStep
  BY CoordinatorStep DEF CoordinatorInv, HInv
<1>2. StableStep
  BY <1>1, StepIsStable DEF RepositoryStep
<1>3. operations'[o] # None /\ RowGoesOn(o)
  BY RowsStay
<1>4. handoffs[o] # None /\ handoffs'[o] # None
  BY <1>1, <1>3 DEF IInv, HandoffWithOperation, Exists
<1> QED
  BY <1>2, <1>3, <1>4 DEF StableStep, RowGoesOn

\* A session stays bound to its rollover's handoff.
LEMMA BindingKept ==
  ASSUME CoordinatorInv, NoResets, [Next]_vars, NEW session, NEW digest,
         BoundTo(session, digest)
  PROVE  BoundTo(session, digest)'
<1>1. PICK o \in Operations :
        /\ operations[o] # None /\ handoffs[o] # None /\ session.id # None
        /\ operations[o].key = session.key /\ operations[o].successor = session.id
        /\ digest = [ content |-> handoffs[o].content, successor |-> session.id ]
  BY DEF BoundTo
<1>2. /\ operations'[o] # None /\ handoffs'[o] # None
      /\ operations'[o].key = operations[o].key
      /\ handoffs'[o].content = handoffs[o].content
      /\ operations'[o].successor = operations[o].successor
  BY <1>1, RowsKept
<1> QED
  BY <1>1, <1>2 DEF BoundTo

\* What the calls hold is of the rows that are there.
LEMMA CopiesKept ==
  ASSUME CoordinatorInv, NoResets, CopiesOfRows, [Next]_vars
  PROVE  CopiesOfRows'
<1>0. CoordinatorInv' /\ IInv /\ IInv' /\ TasksOK
  BY CoordinatorStep DEF CoordinatorInv, HInv
<1>1. ASSUME NEW o1 \in Operations, NEW o2 \in Operations, operations'[o1] # None,
             operations'[o2] # None, operations'[o1].key = operations'[o2].key
      PROVE  o1 = o2
  <2>1. CASE RowIsNew(o1) /\ RowIsNew(o2)
    <3>1. o1 \in ActiveOperations' /\ o2 \in ActiveOperations'
      BY <1>1, <2>1 DEF RowIsNew, CreatedRow, ActiveOperations, Exists, TerminalStates
    <3> QED
      BY <1>0, <3>1 DEF IInv, OneActiveOperation
  <2>2. ASSUME NEW u \in Operations, NEW v \in Operations, RowIsNew(u), RowGoesOn(v),
               operations'[u].key = operations'[v].key
        PROVE  FALSE
    <3>1. PICK p \in Calls : /\ CreateInserts(Submission(tasks[p]))
                             /\ operations'[u] = CreatedRow(Submission(tasks[p]))
      BY <2>2 DEF RowIsNew
    <3>2. operations[v] # None /\ operations[v].key = Submission(tasks[p]).key
      BY <2>2, <3>1 DEF RowGoesOn, CreatedRow
    <3> QED
      BY <3>1, <3>2 DEF CreateInserts, OperationsWithKey, Exists
  <2>3. CASE RowGoesOn(o1) /\ RowGoesOn(o2)
    <3>1. /\ operations[o1] # None /\ operations'[o1].key = operations[o1].key
          /\ operations[o2] # None /\ operations'[o2].key = operations[o2].key
      BY <2>3 DEF RowGoesOn
    <3> QED
      BY <1>1, <3>1 DEF CopiesOfRows, Exists
  <2> QED
    BY <1>1, <2>1, <2>2, <2>3, RowsFrom
<1>2. ASSUME NEW p \in Calls, tasks'[p].row # None
      PROVE  LET n == tasks'[p]
             IN /\ n.op \in Operations /\ operations'[n.op] # None
                /\ operations'[n.op].key = n.row.key
                /\ n.row.successor # None => operations'[n.op].successor = n.row.successor
  <2> DEFINE n == tasks'[p]
             o == n.op
  <2>1. CASE /\ o = tasks[p].op /\ tasks[p].row # None
             /\ n.row.key = tasks[p].row.key /\ n.row.successor = tasks[p].row.successor
    BY <2>1, RowsKept DEF CopiesOfRows, Exists
  <2>2. CASE o \in Operations /\ operations[o] # None /\ n.row = Copy(operations[o])
    <3>1. operations[o] \in OperationRows
      BY <1>0, <2>2 DEF IInv, TypeOK
    <3> QED
      BY <2>2, <3>1, CopyFields, RowsKept
  <2>3. CASE o \in Operations /\ operations'[o] # None /\ n.row = Copy(operations'[o])
    <3>1. operations'[o] \in OperationRows
      BY <1>0, <2>3 DEF IInv, TypeOK
    <3> QED
      BY <2>3, <3>1, CopyFields
  <2> QED
    BY <1>2, <2>1, <2>2, <2>3, CallsFrom DEF RowIsFrom
<1>3. ASSUME NEW p \in Calls, tasks'[p].at \in Sending, tasks'[p].document # None
      PROVE  LET n == tasks'[p]
             IN handoffs'[n.op] # None /\ n.document.content = handoffs'[n.op].content
  <2> DEFINE n == tasks'[p]
             o == n.op
  <2>1. o \in Operations /\ handoffs[o] # None /\ n.document.content = handoffs[o].content
    <3>1. CASE /\ o = tasks[p].op /\ tasks[p].at \in Sending
               /\ n.document = tasks[p].document
      <4>1. o \in Operations
        BY <1>0, <3>1, AtFacts DEF Sending
      <4> QED
        BY <1>3, <3>1, <4>1 DEF CopiesOfRows
    <3>2. CASE /\ o \in Operations /\ handoffs[o] # None /\ n.document = Document(o)
      BY <3>2 DEF Document
    <3> QED
      BY <1>3, <3>1, <3>2, CallsFrom DEF DocumentFrom
  <2>2. operations[o] # None
    BY <1>0, <2>1 DEF IInv, HandoffWithOperation, Exists
  <2> QED
    BY <2>1, <2>2, RowsKept
<1> QED
  BY <1>1, <1>2, <1>3 DEF CopiesOfRows, Exists

\* A binding is of a session's id and key.
LEMMA BindingOfSession ==
  ASSUME NEW s, NEW t, NEW digest, s.id = t.id, s.key = t.key, BoundTo(s, digest)
  PROVE  BoundTo(t, digest)
BY DEF BoundTo

\* A ledger is bound only by a call, to what the call has been given to send.
LEMMA LedgersStayBound ==
  ASSUME CoordinatorInv, NoResets, DocumentsBound, [Next]_vars, NEW ledger \in Ledgers',
         NEW k \in KeysOf(ledger), ledger[k].digest # None
  PROVE  BoundTo(ledger[k].session, ledger[k].digest)'
<1>0. CoordinatorInv' /\ HostInv
  BY CoordinatorStep DEF CoordinatorInv
<1>1. LedgerOK(ledger, answered')
  BY <1>0 DEF CoordinatorInv, HostInv, LedgersOK
<1>2. k \in Keys /\ ledger[k].session.key = k
  BY <1>1, RecordFacts
<1>3. ASSUME NEW session, session.id = ledger[k].session.id, session.key = k,
             BoundTo(session, ledger[k].digest)
      PROVE  BoundTo(ledger[k].session, ledger[k].digest)'
  <2>1. BoundTo(ledger[k].session, ledger[k].digest)
    BY <1>2, <1>3, BindingOfSession
  <2> QED
    BY <2>1, BindingKept
<1>4. CASE ledger \in Ledgers
  BY <1>2, <1>3, <1>4 DEF DocumentsBound
<1>5. CASE ledger = EmptyLedger
  BY <1>2, <1>5 DEF EmptyLedger, KeysOf
<1>6. ASSUME NEW p \in Calls, Rewrites(p, ledger)
      PROVE  BoundTo(ledger[k].session, ledger[k].digest)'
  <2> DEFINE L == Loaded(HostOf[p])
             call == hostCalls[p]
  <2>1. L \in Ledgers /\ LedgerOK(L, answered) /\ Rewritten(p, L, ledger)
    BY <1>0, <1>6, RewriteFacts
  <2> HIDE DEF L
  <2>2. CASE /\ k \in KeysOf(L) /\ SameSession(L[k], ledger[k])
             /\ ledger[k].digest = L[k].digest
    <3>1. BoundTo(L[k].session, ledger[k].digest)
      BY <2>1, <2>2 DEF DocumentsBound
    <3>2. L[k].session.key = k /\ L[k].session.id = ledger[k].session.id
      BY <2>1, <2>2, RecordFacts DEF SameSession
    <3> QED
      BY <1>3, <3>1, <3>2
  <2>3. CASE /\ call.phase \in { "bind", "rebind" }
             /\ k = call.session.key /\ ledger[k].session.id = call.session.id
             /\ ledger[k].digest = call.digest
    BY <1>3, <2>3 DEF DocumentsBound, Bootstrapped
  <2> QED
    BY <2>1, <2>2, <2>3 DEF Rewritten
<1>7. \/ ledger \in Ledgers \cup { EmptyLedger }
      \/ \E p \in Calls : Rewrites(p, ledger)
  <2>1. CASE Ledgers' \subseteq Ledgers \cup { EmptyLedger }
    BY <2>1
  <2>2. ASSUME NEW p \in Calls, NEW M, Rewrites(p, M)
        PROVE  ledger \in Ledgers \cup {M}
    BY <1>0, <2>2, RewriteFacts
  <2> QED
    BY <2>1, <2>2, LedgersFrom
<1> QED
  BY <1>4, <1>5, <1>6, <1>7

\* A call is given the document its coordinator call has read from the rollover's handoff.
LEMMA CallsStayBound ==
  ASSUME CoordinatorInv, NoResets, CopiesOfRows, DocumentsBound, [Next]_vars,
         NEW p \in Calls, hostCalls'[p].phase \in Bootstrapped
  PROVE  BoundTo(hostCalls[p].session, hostCalls[p].digest)'
<1> DEFINE n    == tasks'[p]
           call == hostCalls'[p]
<1>1. CoordinatorInv' /\ CopiesOfRows'
  BY CoordinatorStep, CopiesKept
<1>2. CASE /\ hostCalls[p].phase \in Bootstrapped
           /\ call.session = hostCalls[p].session /\ call.digest = hostCalls[p].digest
  <2>1. BoundTo(call.session, call.digest)
    BY <1>2 DEF DocumentsBound
  <2> QED
    BY <1>2, <2>1, BindingKept
<1>3. CASE n.at = "bootstrapping"
  <2>1. TaskOK(n, call, answered')
    BY <1>1 DEF CoordinatorInv, TasksOK
  <2>2. /\ n.op \in Operations /\ n.row # None /\ n.document # None
        /\ n.session # None /\ n.session.id \in Sessions
        /\ ForItsRow(n) /\ n.session.id = n.document.successor
        /\ call.session = n.session /\ call.digest = Digest(n.document)
    BY <1>3, <2>1 DEF TaskOK, WaitsFor, NeedsRow, NeedsSession, NeedsDocument, Points
  <2>3. n.session.key = n.row.key /\ n.session.id = n.row.successor /\ n.session.id # None
    BY <1>3, <2>2, NoneAssumption DEF ForItsRow, SameBinding, CreationRequest
  <2>4. /\ operations'[n.op] # None /\ operations'[n.op].key = n.row.key
        /\ operations'[n.op].successor = n.row.successor
        /\ handoffs'[n.op] # None /\ n.document.content = handoffs'[n.op].content
    BY <1>1, <1>3, <2>2, <2>3 DEF CopiesOfRows, Exists, Sending
  <2> QED
    BY <2>2, <2>3, <2>4 DEF BoundTo, Digest
<1> QED
  BY <1>2, <1>3, HostCallsFrom DEF HostCallFrom

\* In a project that is never reset, what a row counts as acknowledged is what the host has
\* bound its successor to: the handoff of the rollover itself, even where clients disagree
\* on it and acknowledge while it is sent, where processes lose each other's commits, and
\* after any crash.
THEOREM BoundIsAcknowledged ==
  ASSUME NoResets
  PROVE  Spec => []BoundAsAcknowledged
<1> DEFINE I == CopiesOfRows /\ DocumentsBound
<1>1. Init => I
  BY DEF Init, RepositoryInit, HostInit, IdleTask, IdleCall, EmptyLedger, CopiesOfRows,
     DocumentsBound, Exists, Ledgers, KeysOf, Bootstrapped, Sending
<1>2. CoordinatorInv /\ I /\ [Next]_vars => I'
  <2> SUFFICES ASSUME CoordinatorInv, I, [Next]_vars
               PROVE  I'
    OBVIOUS
  <2>1. \A ledger \in Ledgers' : \A k \in KeysOf(ledger) :
          ledger[k].digest # None => BoundTo(ledger[k].session, ledger[k].digest)'
    BY LedgersStayBound
  <2>2. \A p \in Calls : hostCalls'[p].phase \in Bootstrapped =>
          BoundTo(hostCalls[p].session, hostCalls[p].digest)'
    BY CallsStayBound
  <2> QED
    BY <2>1, <2>2, CopiesKept DEF DocumentsBound, KeysOf, Bootstrapped
<1>3. CoordinatorInv /\ I => BoundAsAcknowledged
  <2> SUFFICES ASSUME CoordinatorInv, I, NEW o \in Operations, operations[o] # None,
                      Stage(operations[o]) \in AcknowledgedStates,
                      durable[operations[o].key] # None,
                      durable[operations[o].key].session.id = operations[o].successor,
                      durable[operations[o].key].digest # None
               PROVE  durable[operations[o].key].digest = Digest(handoffs[o])
    BY DEF BoundAsAcknowledged, Exists
  <2> DEFINE k == operations[o].key
  <2>1. operations[o] \in OperationRows /\ SuccessorBound
    BY DEF CoordinatorInv, HInv, IInv, TypeOK
  <2>2. k \in KeysOf(durable) /\ durable \in Ledgers /\ LedgerOK(durable, answered)
    BY <2>1 DEF KeysOf, Ledgers, OperationRows, CoordinatorInv, HostInv, LedgersOK
  <2>3. durable[k].session.key = k
    BY <2>2, RecordFacts
  <2>4. BoundTo(durable[k].session, durable[k].digest)
    BY <2>2 DEF DocumentsBound
  <2>5. durable[k].digest = [ content |-> handoffs[o].content,
                              successor |-> operations[o].successor ]
    BY <2>3, <2>4 DEF BoundTo, CopiesOfRows, Exists
  <2>6. handoffs[o].successor = operations[o].successor
    BY <2>1 DEF SuccessorBound, AcknowledgedStates, Exists
  <2> QED
    BY <2>5, <2>6 DEF Digest
<1> HIDE DEF I
<1> QED
  BY <1>1, <1>2, <1>3, CoordinatorInvariant, PTL DEF Spec

--------------------------------------------------------------------------------
(* The recorded successor is the session in the host's file                *)

\* No process whose copy of the file is out of date records a successor.
NoStaleCreation ==
  \A p \in Calls :
    hostCalls[p].phase = "intent" /\ view[HostOf[p]] = "stale" =>
      memory[HostOf[p]][hostCalls[p].session.key] # None

InFile(session) ==
  /\ durable[session.key] # None
  /\ durable[session.key].session.id = session.id
  /\ durable[session.key].session.operation = session.operation

\* Whoever holds a session, the file has it.
SessionsInFile ==
  /\ \A ledger \in Ledgers : \A k \in KeysOf(ledger) : InFile(ledger[k].session)
  /\ \A p \in Calls :
       /\ hostCalls[p].session # None /\ hostCalls[p].session.id # None =>
            InFile(hostCalls[p].session)
       /\ tasks[p].session # None => InFile(tasks[p].session)

\* While nothing is evicted, and no process whose copy is out of date adds a session, the
\* file keeps every session it has.
LEMMA FileKeeps ==
  ASSUME CoordinatorInv, RoomInv, HasRoom, NoStaleCreation, SessionsInFile, ~overlaps,
         [Next]_vars, NEW k \in KeysOf(durable)
  PROVE  durable'[k] # None /\ SameSession(durable[k], durable'[k])
<1>0. HostInv
  BY DEF CoordinatorInv
<1>1. Covers(durable, durable')
  BY RoomKept
<1>2. durable'[k] # None /\ durable'[k].session.id = durable[k].session.id
  BY <1>1 DEF Covers, Continues
<1>3. CASE durable' = durable
  BY <1>2, <1>3 DEF SameSession
<1>4. ASSUME NEW p \in Calls, NEW M, Rewrites(p, M), durable' = M
      PROVE  SameSession(durable[k], durable'[k])
  <2> DEFINE h == HostOf[p]
             L == Loaded(h)
             call == hostCalls[p]
  <2>1. /\ L \in Ledgers /\ LedgerOK(L, answered) /\ Rewritten(p, L, M)
        /\ h \in Hosts /\ view[h] \in { "unloaded", "current", "stale" }
    BY <1>0, <1>4, RewriteFacts, HostOfAssumption DEF HostInv, HostTypeOK
  <2>2. k \in KeysOf(M)
    BY <1>2, <1>4 DEF KeysOf
  <2>3. CASE k \in KeysOf(L) /\ SameSession(L[k], M[k])
    <3>1. InFile(L[k].session) /\ L[k].session.key = k
      BY <2>1, <2>3, RecordFacts DEF SessionsInFile
    <3> QED
      BY <1>4, <2>3, <3>1 DEF InFile, SameSession
  <2>4. CASE k \notin KeysOf(L) /\ call.phase = "intent" /\ k = call.session.key
    <3>1. view[h] # "stale"
      BY <2>4 DEF NoStaleCreation, Loaded, KeysOf
    <3>2. CASE view[h] = "unloaded"
      BY <2>4, <3>2 DEF Loaded
    <3>3. CASE view[h] = "current"
      BY <2>1, <2>4, <3>3 DEF RoomInv, Covers, Loaded, KeysOf
    <3> QED
      BY <2>1, <3>1, <3>2, <3>3
  <2> QED
    BY <2>1, <2>2, <2>3, <2>4 DEF Rewritten
<1>5. durable' = durable \/ \E p \in Calls : \E M : Rewrites(p, M) /\ durable' = M
  BY <1>0, LedgersFrom, RewriteFacts
<1> QED
  BY <1>2, <1>3, <1>4, <1>5

\* What the file has, it keeps having.
LEMMA InFileKept ==
  ASSUME CoordinatorInv, RoomInv, HasRoom, NoStaleCreation, SessionsInFile, ~overlaps,
         [Next]_vars, NEW session, session.key \in Keys, InFile(session)
  PROVE  InFile(session)'
<1>1. session.key \in KeysOf(durable)
  BY DEF InFile, KeysOf
<1> QED
  BY <1>1, FileKeeps DEF InFile, SameSession

\* Every session of a ledger is in the file: it was there, or is added to the file with it.
LEMMA LedgersStayInFile ==
  ASSUME CoordinatorInv, RoomInv, HasRoom, NoStaleCreation, SessionsInFile, ~overlaps,
         ~FileFails, [Next]_vars, NEW ledger \in Ledgers', NEW k \in KeysOf(ledger)
  PROVE  InFile(ledger[k].session)'
<1>0. CoordinatorInv' /\ HostInv
  BY CoordinatorStep DEF CoordinatorInv
<1>1. LedgerOK(ledger, answered')
  BY <1>0 DEF CoordinatorInv, HostInv, LedgersOK
<1>2. k \in Keys /\ ledger[k].session.key = k
  BY <1>1, RecordFacts
<1>3. CASE ledger \in Ledgers
  BY <1>2, <1>3, InFileKept DEF SessionsInFile
<1>4. CASE ledger = EmptyLedger
  BY <1>2, <1>4 DEF EmptyLedger, KeysOf
<1>5. ASSUME NEW p \in Calls, Rewrites(p, ledger)
      PROVE  InFile(ledger[k].session)'
  <2> DEFINE L == Loaded(HostOf[p])
             call == hostCalls[p]
  <2>1. /\ L \in Ledgers /\ LedgerOK(L, answered) /\ Rewritten(p, L, ledger)
        /\ KeysOf(ledger) # KeysOf(L) => durable' = ledger \/ view[HostOf[p]] = "stale"
    BY <1>0, <1>5, RewriteFacts
  <2>2. CASE k \in KeysOf(L) /\ SameSession(L[k], ledger[k])
    <3>1. InFile(L[k].session) /\ L[k].session.key = k
      BY <2>1, <2>2, RecordFacts DEF SessionsInFile
    <3>2. InFile(ledger[k].session)
      BY <1>2, <2>2, <3>1 DEF InFile, SameSession
    <3> QED
      BY <1>2, <3>2, InFileKept
  <2>3. CASE k \notin KeysOf(L) /\ call.phase = "intent" /\ k = call.session.key
    <3>1. view[HostOf[p]] # "stale"
      BY <1>2, <2>3 DEF NoStaleCreation, Loaded, KeysOf
    <3>2. durable' = ledger
      BY <2>1, <2>3, <3>1
    <3> QED
      BY <1>2, <3>2 DEF InFile, KeysOf
  <2> QED
    BY <2>1, <2>2, <2>3 DEF Rewritten
<1>6. \/ ledger \in Ledgers \cup { EmptyLedger }
      \/ \E p \in Calls : Rewrites(p, ledger)
  <2>1. CASE Ledgers' \subseteq Ledgers \cup { EmptyLedger }
    BY <2>1
  <2>2. ASSUME NEW p \in Calls, NEW M, Rewrites(p, M)
        PROVE  ledger \in Ledgers \cup {M}
    BY <1>0, <2>2, RewriteFacts
  <2> QED
    BY <2>1, <2>2, LedgersFrom
<1> QED
  BY <1>3, <1>4, <1>5, <1>6

\* Nobody holds a session the file does not have.
LEMMA SessionsStayInFile ==
  ASSUME CoordinatorInv, RoomInv, HasRoom, NoStaleCreation, SessionsInFile, ~overlaps,
         ~FileFails, [Next]_vars
  PROVE  SessionsInFile'
<1>0. CoordinatorInv' /\ HostInv /\ HostTypeOK /\ TasksOK
  BY CoordinatorStep DEF CoordinatorInv, HostInv
<1>1. \A ledger \in Ledgers' : \A k \in KeysOf(ledger) : InFile(ledger[k].session)'
  BY LedgersStayInFile
<1>2. ASSUME NEW p \in Calls, tasks'[p].session # None
      PROVE  InFile(tasks[p].session)'
  <2> DEFINE session == tasks'[p].session
  <2>1. session.key \in Keys /\ session.id # None
    <3>1. tasks'[p] \in Tasks /\ TaskOK(tasks'[p], hostCalls'[p], answered')
      BY <1>0 DEF CoordinatorInv, TasksOK
    <3>2. session \in HostSessions /\ session.id \in Sessions
      BY <1>2, <3>1, TaskFields DEF TaskOK
    <3> QED
      BY <3>2, HostNoneAssumption DEF HostSessions
  <2>2. InFile(session)
    <3>1. CASE session = tasks[p].session
      BY <1>2, <3>1 DEF SessionsInFile
    <3>2. CASE session = hostCalls[p].session
      BY <1>2, <2>1, <3>2 DEF SessionsInFile
    <3>3. CASE \E k \in KeysOf(Loaded(HostOf[p])) :
                 session = Loaded(HostOf[p])[k].session
      <4>1. Loaded(HostOf[p]) \in Ledgers
        BY <1>0, LoadedOK, HostOfAssumption
      <4> QED
        BY <3>3, <4>1 DEF SessionsInFile
    <3> QED
      BY <1>2, <3>1, <3>2, <3>3, CallsFrom DEF SessionFrom
  <2> QED
    BY <2>1, <2>2, InFileKept
<1>3. ASSUME NEW p \in Calls, hostCalls'[p].session # None, hostCalls'[p].session.id # None
      PROVE  InFile(hostCalls[p].session)'
  <2> DEFINE session == hostCalls'[p].session
  <2>1. CASE session = hostCalls[p].session
    <3>1. session.key \in Keys /\ InFile(session)
      BY <1>0, <1>3, <2>1 DEF SessionsInFile, HostTypeOK, HostCalls, HostSessions
    <3> QED
      BY <3>1, InFileKept
  <2>2. CASE \E ledger \in Ledgers' : \E k \in KeysOf(ledger) : session = ledger[k].session
    BY <1>1, <2>2
  <2>3. CASE tasks'[p].at = "bootstrapping"
    <3>1. TaskOK(tasks'[p], hostCalls'[p], answered')
      BY <1>0 DEF CoordinatorInv, TasksOK
    <3>2. session = tasks'[p].session /\ tasks'[p].session # None
      BY <2>3, <3>1 DEF TaskOK, WaitsFor, NeedsSession
    <3> QED
      BY <1>2, <3>2
  <2> QED
    BY <1>3, <2>1, <2>2, <2>3, HostCallsFrom DEF HostCallFrom
<1> QED
  BY <1>1, <1>2, <1>3 DEF SessionsInFile, KeysOf

\* A row's successor is the session its host's file has for its key, and stays that.
LEMMA SuccessorsStay ==
  ASSUME CoordinatorInv, RoomInv, HasRoom, NoStaleCreation, SessionsInFile, ~overlaps,
         KeysSubmitted, OneKeyPerOperation, SuccessorIsHosts, [Next]_vars
  PROVE  SuccessorIsHosts'
<1> SUFFICES ASSUME NEW o \in Operations, operations'[o] # None,
                    operations'[o].successor # None
             PROVE  LET record == durable'[operations'[o].key]
                    IN /\ record # None
                       /\ record.session.id = operations'[o].successor
                       /\ record.session.operation = o
  BY DEF SuccessorIsHosts, Exists
<1> DEFINE was == operations[o]
           is  == operations'[o]
           k   == was.key
<1>0. IInv /\ TasksOK
  BY DEF CoordinatorInv, HInv
<1>1. CASE RowIsNew(o)
  BY <1>1 DEF RowIsNew, CreatedRow
<1>2. CASE RowGoesOn(o)
  <2>1. was # None /\ is.key = k /\ k \in Keys
    BY <1>0, <1>2 DEF RowGoesOn, IInv, TypeOK, OperationRows
  <2>2. /\ durable[k] # None /\ durable[k].session.id = is.successor
        /\ durable[k].session.operation = o
    <3>1. CASE is.successor = was.successor
      BY <2>1, <3>1 DEF SuccessorIsHosts, Exists
    <3>2. ASSUME NEW p \in Calls, tasks[p].at = "created", tasks[p].op = o,
                 is.successor = tasks[p].session.id
          PROVE  /\ durable[k] # None /\ durable[k].session.id = is.successor
                 /\ durable[k].session.operation = o
      <4> DEFINE t == tasks[p]
      <4>1. t.row # None /\ t.session # None /\ ForItsRow(t)
        BY <1>0, <3>2, AtFacts DEF TaskOK, NeedsRow, NeedsSession, Points
      <4>2. t.session.key = t.row.key /\ t.session.operation = o
        BY <3>2, <4>1 DEF ForItsRow, SameBinding, CreationRequest
      <4>3. t.row.key = k
        BY <2>1, <3>2, <4>1 DEF KeysSubmitted, Submits, OneKeyPerOperation, Exists
      <4>4. InFile(t.session)
        BY <4>1 DEF SessionsInFile
      <4> QED
        BY <3>2, <4>2, <4>3, <4>4 DEF InFile
    <3> QED
      BY <1>2, <3>1, <3>2 DEF RowGoesOn
  <2>3. k \in KeysOf(durable)
    BY <2>1, <2>2 DEF KeysOf
  <2>4. durable'[k] # None /\ SameSession(durable[k], durable'[k])
    BY <2>3, FileKeeps
  <2> QED
    BY <2>1, <2>2, <2>4 DEF SameSession
<1> QED
  BY <1>1, <1>2, RowsFrom

\* What a call finds at its host is what the file has, which is the recorded successor.
LEMMA FoundIsRecorded ==
  ASSUME CoordinatorInv, SessionsInFile, SuccessorIsHosts
  PROVE  SuccessorFound
<1> SUFFICES ASSUME NEW p \in Calls, tasks[p].op # None, operations[tasks[p].op] # None,
                    tasks[p].row = Copy(operations[tasks[p].op])
             PROVE  LET t == tasks[p]
                        found == SessionOfKey(HostOf[p], t.row.key)
                    IN /\ AtState(p, "BootstrapSending") /\ found # None
                            => found.id = t.row.successor
                       /\ t.at = "creating" /\ hostCalls[p].phase = "done"
                               /\ t.row.state # "SuccessorCreating"
                            => hostCalls[p].session.id = t.row.successor
  BY DEF SuccessorFound, Exists
<1> DEFINE t   == tasks[p]
           o   == t.op
           k   == t.row.key
           L   == Loaded(HostOf[p])
<1>0. /\ IInv /\ TypeOK /\ SuccessorBound /\ HostInv /\ TasksOK
      /\ t \in Tasks /\ TaskOK(t, hostCalls[p], answered)
  BY AtFacts DEF CoordinatorInv, HInv, IInv
<1>1. o \in Operations
  BY <1>0, TaskFields
<1>2. operations[o] \in OperationRows
  BY <1>0, <1>1 DEF TypeOK
<1>3. /\ t.row # None /\ k = operations[o].key /\ k \in Keys
      /\ t.row.state = operations[o].state /\ t.row.successor = operations[o].successor
  BY <1>2, CopyFields DEF OperationRows
<1>4. ASSUME t.row.state \in AcknowledgedStates \cup { "BootstrapSending" },
             NEW session, session.key = k, InFile(session)
      PROVE  session.id = t.row.successor
  <2>1. operations[o].successor # None
    BY <1>0, <1>1, <1>3, <1>4 DEF SuccessorBound, Stage, AcknowledgedStates, Exists
  <2> QED
    BY <1>1, <1>3, <1>4, <2>1 DEF SuccessorIsHosts, InFile, Exists
<1>5. ASSUME AtState(p, "BootstrapSending"), SessionOfKey(HostOf[p], k) # None
      PROVE  SessionOfKey(HostOf[p], k).id = t.row.successor
  <2>1. L \in Ledgers /\ LedgerOK(L, answered)
    BY <1>0, LoadedOK, HostOfAssumption
  <2>2. SessionOfKey(HostOf[p], k) = L[k].session /\ L[k] # None
    BY <1>5 DEF SessionOfKey
  <2>3. k \in KeysOf(L)
    BY <1>3, <2>2 DEF KeysOf
  <2>4. InFile(L[k].session) /\ L[k].session.key = k
    BY <2>1, <2>3, RecordFacts DEF SessionsInFile
  <2> QED
    BY <1>4, <1>5, <2>2, <2>4 DEF AtState
<1>6. ASSUME t.at = "creating", hostCalls[p].phase = "done",
             t.row.state # "SuccessorCreating"
      PROVE  hostCalls[p].session.id = t.row.successor
  <2>1. /\ hostCalls[p].session # None /\ hostCalls[p].session.key = k
        /\ hostCalls[p].session.id \in Sessions
    BY <1>0, <1>6 DEF TaskOK, WaitsFor
  <2>2. InFile(hostCalls[p].session)
    BY <2>1, NoneAssumption DEF SessionsInFile
  <2>3. t.row.state \in AcknowledgedStates \cup { "BootstrapSending" }
    BY <1>0, <1>3, <1>6 DEF TaskOK
  <2> QED
    BY <1>4, <2>1, <2>2, <2>3
<1> QED
  BY <1>5, <1>6

\* While the ledger has room for every key, the file can be written, and no process whose
\* copy of it is out of date creates a session, the recorded successor is the session the
\* host's file has for the rollover's key, and the one every call finds that goes on.
THEOREM SuccessorIsFound ==
  ASSUME HasRoom, ~FileFails, OneKeyPerOperation
  PROVE  Spec /\ []NoStaleCreation =>
           [](~overlaps => SuccessorIsHosts /\ SuccessorFound)
<1> DEFINE I == /\ RoomInv /\ KeysSubmitted
                /\ ~overlaps => SessionsInFile /\ SuccessorIsHosts
<1>1. Init => I
  <2> SUFFICES ASSUME Init
               PROVE  I
    OBVIOUS
  <2>1. RoomInv
    BY RoomInvInit DEF Init
  <2>2. KeysSubmitted /\ SuccessorIsHosts
    BY DEF Init, RepositoryInit, IdleTask, KeysSubmitted, SuccessorIsHosts, Exists
  <2>3. SessionsInFile
    BY DEF Init, HostInit, IdleTask, IdleCall, EmptyLedger, SessionsInFile, Ledgers, KeysOf
  <2> QED
    BY <2>1, <2>2, <2>3
<1>2. CoordinatorInv /\ NoStaleCreation /\ I /\ [Next]_vars => I'
  <2> SUFFICES ASSUME CoordinatorInv, NoStaleCreation, I, [Next]_vars
               PROVE  I'
    OBVIOUS
  <2>1. RoomInv' /\ KeysSubmitted' /\ overlaps' = overlaps
    BY RoomKept, KeysStaySubmitted
  <2>2. ASSUME ~overlaps
        PROVE  SessionsInFile' /\ SuccessorIsHosts'
    BY <2>2, SessionsStayInFile, SuccessorsStay
  <2> QED
    BY <2>1, <2>2
<1>3. CoordinatorInv /\ I => (~overlaps => SuccessorIsHosts /\ SuccessorFound)
  BY FoundIsRecorded
<1> HIDE DEF I
<1> QED
  BY <1>1, <1>2, <1>3, CoordinatorInvariant, PTL DEF Spec

--------------------------------------------------------------------------------
(* One process has no copy that is out of date                             *)

OneHost == \A p, q \in Calls : HostOf[p] = HostOf[q]

\* Only the process of the calls has a copy of the file, and it is the current one.
OneView ==
  \A h \in Hosts :
    /\ view[h] # "stale"
    /\ view[h] # "unloaded" => \A p \in Calls : HostOf[p] = h

\* Only a commit of another process puts a copy out of date.
LEMMA OneViewKept ==
  ASSUME CoordinatorInv, OneHost, OneView, [Next]_vars
  PROVE  OneView'
<1>0. HostInv /\ HostTypeOK
  BY DEF CoordinatorInv, HostInv
<1>1. CASE \A g \in Hosts : view'[g] \in { view[g], "unloaded" }
  BY <1>1 DEF OneView
<1>2. ASSUME NEW p \in Calls, NEW M, Rewrites(p, M)
      PROVE  OneView'
  <2> DEFINE h == HostOf[p]
  <2>1. h \in Hosts /\ \A q \in Calls : HostOf[q] = h
    BY HostOfAssumption DEF OneHost
  <2>2. \A g \in Hosts : g # h => view[g] = "unloaded"
    BY <2>1 DEF OneView
  <2>3. view[h] # "stale" /\ view \in [Hosts -> { "unloaded", "current", "stale" }]
    BY <1>0, <2>1 DEF OneView, HostTypeOK
  <2> HIDE DEF h
  <2>4. CASE view' = [g \in Hosts |-> IF g = h THEN "current"
                              ELSE IF view[g] = "unloaded" THEN "unloaded"
                              ELSE "stale"]
    BY <2>1, <2>2, <2>4 DEF OneView
  <2>5. CASE view' = [view EXCEPT ![h] = IF @ = "unloaded" THEN "current" ELSE @]
    BY <2>1, <2>2, <2>3, <2>5 DEF OneView
  <2> QED
    BY <1>2, <2>4, <2>5 DEF Rewrites, Commits, FailsToCommit, Loads, h
<1> QED
  BY <1>1, <1>2, LedgersFrom

\* In one process, whatever retries, callers, crashes, cancellations and resets there are,
\* the recorded successor is the session in the host's file, and every call finds it.
THEOREM OneProcessFindsSuccessor ==
  ASSUME HasRoom, ~FileFails, OneKeyPerOperation, OneHost
  PROVE  Spec => [](~overlaps => SuccessorIsHosts /\ SuccessorFound)
<1>1. Init => OneView
  BY DEF Init, HostInit, OneView
<1>2. CoordinatorInv /\ OneView /\ [Next]_vars => OneView'
  BY OneViewKept
<1>3. OneView => NoStaleCreation
  BY HostOfAssumption DEF OneView, NoStaleCreation
<1>4. Spec => []NoStaleCreation
  BY <1>1, <1>2, <1>3, CoordinatorInvariant, PTL DEF Spec
<1> QED
  BY <1>4, SuccessorIsFound, PTL

--------------------------------------------------------------------------------
(* What the code keeps of the two statements it breaks                     *)

\* It takes a reset to make a rollover bring back an operation whose row is gone: in a
\* project that is never reset, only a client's checkpoint inserts one.
THEOREM OnlyResetsRecreate ==
  ASSUME NoResets
  PROVE  Spec => OnlyClientsBegin
<1> DEFINE Begins == \A o \in Operations :
             operations[o] = None /\ operations'[o] # None =>
               \E p \in Calls : tasks[p].kind = "checkpoint" /\ tasks[p].at = "create"
<1>1. Init => CopiesOfRows
  BY DEF Init, RepositoryInit, IdleTask, CopiesOfRows, Exists, Sending
<1>2. CoordinatorInv /\ CopiesOfRows /\ [Next]_vars => CopiesOfRows'
  BY CopiesKept
<1>3. CoordinatorInv /\ CopiesOfRows /\ [Next]_vars => [Begins]_vars
  <2> SUFFICES ASSUME CoordinatorInv, CopiesOfRows, [Next]_vars,
                      NEW o \in Operations, operations[o] = None, operations'[o] # None
               PROVE  \E p \in Calls : tasks[p].kind = "checkpoint" /\ tasks[p].at = "create"
    OBVIOUS
  <2>1. RowIsNew(o)
    BY RowsFrom DEF RowGoesOn
  <2>2. PICK p \in Calls : tasks[p].at = "create" /\ tasks[p].op = o
    BY <2>1 DEF RowIsNew
  <2>3. tasks[p].row = None
    BY <2>2 DEF CopiesOfRows, Exists
  <2>4. tasks[p].kind = "checkpoint"
    BY <2>2, <2>3 DEF CoordinatorInv, TasksOK, TaskOK
  <2> QED
    BY <2>2, <2>4
<1> HIDE DEF Begins
<1>4. Spec => [][Begins]_vars
  BY <1>1, <1>2, <1>3, CoordinatorInvariant, PTL DEF Spec
<1> QED
  BY <1>4 DEF Begins, OnlyClientsBegin

\* A recovery that gives up can do so wherever it finds the row, unless another caller has
\* moved it or its transitions are used up, or it waits for a retry.
RecoveryCancelsRunning ==
  \A p \in Calls :
    LET t == tasks[p]
    IN /\ t.at = "cancelling" /\ t.row.state \notin { "Cancelling", "RetryWait" }
       /\ Exists(t.op) /\ Copy(operations[t.op]) = t.row
       /\ operations[t.op].attempt < MaxTransitions - 1
       => Settable(t.op, t.row.state, "Cancelling", t.row.successor)

\* The wait for a retry is the only state in which the code refuses a recovery to cancel.
THEOREM OnlyRetryRefusesCancel == Spec => []RecoveryCancelsRunning
<1>1. CoordinatorInv => RecoveryCancelsRunning
  <2> SUFFICES ASSUME CoordinatorInv, NEW p \in Calls, tasks[p].at = "cancelling",
                      tasks[p].row.state \notin { "Cancelling", "RetryWait" },
                      Exists(tasks[p].op), Copy(operations[tasks[p].op]) = tasks[p].row,
                      operations[tasks[p].op].attempt < MaxTransitions - 1
               PROVE  Settable(tasks[p].op, tasks[p].row.state, "Cancelling",
                               tasks[p].row.successor)
    BY DEF RecoveryCancelsRunning
  <2> DEFINE t == tasks[p]
             row == operations[t.op]
  <2>1. t.op \in Operations /\ t.row.state \notin TerminalStates
    BY DEF CoordinatorInv, TasksOK, TaskOK
  <2>2. row \in OperationRows
    BY <2>1 DEF CoordinatorInv, HInv, IInv, TypeOK, Exists
  <2>3. t.row.state = row.state /\ t.row.successor = row.successor
    BY <2>2, CopyFields
  <2>4. AllowedTransition(t.row.state, "Cancelling")
    BY <2>1 DEF AllowedTransition
  <2>5. ChosenSuccessor(t.op, t.row.successor) = row.successor
    BY <2>3 DEF ChosenSuccessor
  <2> QED
    BY <2>3, <2>4, <2>5 DEF Settable, LedgerConsistent, SealingStates
<1> QED
  BY <1>1, CoordinatorInvariant, PTL

================================================================================

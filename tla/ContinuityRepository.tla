-------------------------- MODULE ContinuityRepository --------------------------
(***************************************************************************)
(* The durable rollover tables of one project, as                          *)
(* WindowsProjectMemoryRepository keeps them in SQLite.  Every operation   *)
(* of the class is one BEGIN IMMEDIATE transaction, hence one action here; *)
(* an operation that fails rolls back and changes nothing.  A row is read  *)
(* by its callers before the transaction that writes it, so nothing is     *)
(* assumed about the arguments the callers bring.                          *)
(*                                                                         *)
(* Abstracted: the handoff id is created together with the operation id    *)
(* and is identified with it; a canonical document is its content and the  *)
(* successor bound into it, and that pair stands for its SHA-256; times    *)
(* are kept relative to now (retryDue is retryAt <= now); error texts,     *)
(* timestamps, state checksums and the append-only transition log are left *)
(* out.                                                                    *)
(***************************************************************************)
EXTENDS ContinuityModels, Integers

CONSTANT
  MaxTransitions    \* MaximumContinuityTransitionsPerOperation (4096)

ASSUME MaxTransitionsAssumption == MaxTransitions \in Nat /\ MaxTransitions >= 3

\* What a caller of createOperation and storeHandoff submits: the handoff, the
\* key, and the successor already bound into the document (absent in a fresh one).
Requests ==
  [ operation : Operations, key : Keys, predecessor : Sessions,
    adapter : Adapters, content : Contents, successor : Sessions \cup {None} ]

OperationRows ==
  [ state : ContinuityStates,
    attempt : 0 .. MaxTransitions,
    predecessor : Sessions,
    adapter : Adapters,
    key : Keys,
    successor : Sessions \cup {None},
    acknowledged : Sessions \cup {None},
    retryResume : RetryResumeStates \cup {None},
    retryDue : BOOLEAN ]

HandoffRows ==
  [ content : Contents,
    successor : Sessions \cup {None},
    acknowledged : Sessions \cup {None} ]

ASSUME NoneAssumption ==
  /\ None \notin Sessions
  /\ None \notin ContinuityStates
  /\ None \notin OperationRows
  /\ None \notin HandoffRows

VARIABLES
  operations,       \* rollover_operations by operation id, None if no row
  handoffs,         \* continuity_handoffs by operation id, None if no row
  activeSession     \* project_active_sessions, None if no row

repositoryVars == << operations, handoffs, activeSession >>

--------------------------------------------------------------------------------
Exists(o) == operations[o] # None

\* The operation activeContinuityOperation finds: a row whose state is not final.
ActiveOperations ==
  { o \in Operations : Exists(o) /\ operations[o].state \notin TerminalStates }

\* The canonical digest of a handoff row.
Digest(h) == [ content |-> h.content, successor |-> h.successor ]

RequestDigest(r) == [ content |-> r.content, successor |-> r.successor ]

\* A request names the operation, predecessor and adapter the row was made with.
MatchesRow(r, o) ==
  /\ r.operation = o
  /\ r.predecessor = operations[o].predecessor
  /\ r.adapter = operations[o].adapter

OperationsWithKey(k) == { o \in Operations : Exists(o) /\ operations[o].key = k }

--------------------------------------------------------------------------------
(* createOperation                                                         *)

\* The key is bound already: the retry gets the row of the first call.
CreateFinds(r) ==
  \E o \in OperationsWithKey(r.key) : MatchesRow(r, o)

\* Mutant: another unfinished operation is not looked for.
CreateInsertsBeside(r) ==
  OperationsWithKey(r.key) = {} /\ ~Exists(r.operation)

CreateInserts(r) ==
  /\ OperationsWithKey(r.key) = {}
  /\ ActiveOperations = {}
  /\ ~Exists(r.operation)

CreatedRow(r) ==
  [ state |-> "Idle", attempt |-> 0, predecessor |-> r.predecessor,
    adapter |-> r.adapter, key |-> r.key, successor |-> None,
    acknowledged |-> None, retryResume |-> None, retryDue |-> FALSE ]

\* Mutant: INSERT OR REPLACE; a retry's document replaces the first one's content.
CreateOperationReplaces(r) ==
  \/ /\ CreateFinds(r)
     /\ handoffs' = [handoffs EXCEPT ![r.operation].content = r.content]
     /\ UNCHANGED << operations, activeSession >>
  \/ /\ CreateInserts(r)
     /\ operations' = [operations EXCEPT ![r.operation] = CreatedRow(r)]
     /\ handoffs' = [handoffs EXCEPT ![r.operation] =
          [ content |-> r.content, successor |-> r.successor,
            acknowledged |-> None ]]
     /\ UNCHANGED activeSession

CreateOperation(r) ==
  \/ CreateFinds(r) /\ UNCHANGED repositoryVars
  \/ /\ CreateInserts(r)
     /\ operations' = [operations EXCEPT ![r.operation] = CreatedRow(r)]
     /\ handoffs' = [handoffs EXCEPT ![r.operation] =
          [ content |-> r.content, successor |-> r.successor,
            acknowledged |-> None ]]
     /\ UNCHANGED activeSession

CreateOperationFails(r) == ~CreateFinds(r) /\ ~CreateInserts(r)

--------------------------------------------------------------------------------
(* storeHandoff                                                            *)

HandoffStorable(r) ==
  /\ Exists(r.operation)
  /\ MatchesRow(r, r.operation)
  /\ operations[r.operation].state \in { "Idle", "CheckpointPreparing" }
  /\ handoffs[r.operation] = None
       \/ Digest(handoffs[r.operation]) = RequestDigest(r)

\* Mutant: a stored handoff is overwritten, whatever its digest.
StoreHandoffOverwrites(r) ==
  /\ Exists(r.operation)
  /\ MatchesRow(r, r.operation)
  /\ operations[r.operation].state \in { "Idle", "CheckpointPreparing" }
  /\ handoffs' = [handoffs EXCEPT ![r.operation] =
       [ content |-> r.content, successor |-> r.successor, acknowledged |-> None ]]
  /\ UNCHANGED << operations, activeSession >>

StoreHandoff(r) ==
  /\ HandoffStorable(r)
  /\ handoffs' = [handoffs EXCEPT ![r.operation] =
       IF @ = None THEN [ content |-> r.content, successor |-> r.successor,
                          acknowledged |-> None ]
                   ELSE @]
  /\ UNCHANGED << operations, activeSession >>

StoreHandoffFails(r) == ~HandoffStorable(r)

--------------------------------------------------------------------------------
(* compareAndSet                                                           *)

\* The row is in the requested state already and names the same successor.
AlreadySet(o, next, successor) ==
  /\ Exists(o)
  /\ operations[o].state = next
  /\ successor # None => operations[o].successor = successor

\* The successor the row will have: the caller's, or the one it has.
ChosenSuccessor(o, successor) ==
  IF successor # None THEN successor ELSE operations[o].successor

\* Mutant: the state stands for the acknowledgement.
AcknowledgedByState(o, successor) == operations[o].state \in AcknowledgedStates

\* Sealing demands an exact durable acknowledgement of that successor.
ExactlyAcknowledged(o, successor) ==
  /\ operations[o].acknowledged # None
  /\ operations[o].acknowledged = ChosenSuccessor(o, successor)

\* Mutant: the row is not read back against its log.
LedgerUnread(o, next, successor) == TRUE

\* Every transition's checksum covers the successor, and the row is read back
\* against its whole transition log before the commit: the log is consistent only
\* if the successor appears with the successor-created transition and never
\* changes afterwards.
LedgerConsistent(o, next, successor) ==
  \/ ChosenSuccessor(o, successor) = operations[o].successor
  \/ next = "SuccessorCreated" /\ operations[o].successor = None

\* Mutant: compareAndSet does not look at the transition bound.
SettableUnbounded(o, expected, next, successor) ==
  /\ Exists(o)
  /\ operations[o].state = expected
  /\ AllowedTransition(expected, next)
  /\ next # "RetryWait"
  /\ expected = "RetryWait" => operations[o].retryResume = next
  /\ next = "SuccessorCreated" => /\ ChosenSuccessor(o, successor) # None
                                  /\ handoffs[o] # None
                                  /\ handoffs[o].acknowledged = None
  /\ next = "CheckpointPersisted" => handoffs[o] # None
  /\ next \in SealingStates => ExactlyAcknowledged(o, successor)
  /\ LedgerConsistent(o, next, successor)

\* Mutant: a retry resumes in any state a retry may resume in.
SettableAnyResume(o, expected, next, successor) ==
  /\ Exists(o)
  /\ operations[o].state = expected
  /\ AllowedTransition(expected, next)
  /\ next # "RetryWait"
  /\ next = "SuccessorCreated" => /\ ChosenSuccessor(o, successor) # None
                                  /\ handoffs[o] # None
                                  /\ handoffs[o].acknowledged = None
  /\ next = "CheckpointPersisted" => handoffs[o] # None
  /\ next \in SealingStates => ExactlyAcknowledged(o, successor)
  /\ operations[o].attempt < MaxTransitions - 1
  /\ LedgerConsistent(o, next, successor)

Settable(o, expected, next, successor) ==
  /\ Exists(o)
  /\ operations[o].state = expected
  /\ AllowedTransition(expected, next)
  /\ next # "RetryWait"      \* the row read back would have no resume state
  /\ expected = "RetryWait" => operations[o].retryResume = next
  /\ next = "SuccessorCreated" => /\ ChosenSuccessor(o, successor) # None
                                  /\ handoffs[o] # None
                                  /\ handoffs[o].acknowledged = None
  /\ next = "CheckpointPersisted" => handoffs[o] # None
  /\ next \in SealingStates => ExactlyAcknowledged(o, successor)
  /\ operations[o].attempt < MaxTransitions - 1
  /\ LedgerConsistent(o, next, successor)

\* The row some transitions later; a retry schedule outlives no transition.
Moved(row, next, transitions, successor, acknowledged, resume) ==
  [ state |-> next, attempt |-> row.attempt + transitions,
    predecessor |-> row.predecessor, adapter |-> row.adapter, key |-> row.key,
    successor |-> successor, acknowledged |-> acknowledged,
    retryResume |-> resume, retryDue |-> FALSE ]

\* Mutant: the successor is recorded on the row and not in the document.
CompareAndSetRowOnly(o, expected, next, successor) ==
  \/ AlreadySet(o, next, successor) /\ UNCHANGED repositoryVars
  \/ /\ Settable(o, expected, next, successor)
     /\ operations' = [operations EXCEPT ![o] =
          Moved(operations[o], next, 1, ChosenSuccessor(o, successor),
                operations[o].acknowledged, None)]
     /\ activeSession' = IF next = "Completed"
          THEN ChosenSuccessor(o, successor) ELSE activeSession
     /\ UNCHANGED handoffs

CompareAndSet(o, expected, next, successor) ==
  \/ AlreadySet(o, next, successor) /\ UNCHANGED repositoryVars
  \/ /\ Settable(o, expected, next, successor)
     /\ operations' = [operations EXCEPT ![o] =
          Moved(operations[o], next, 1, ChosenSuccessor(o, successor),
                operations[o].acknowledged, None)]
     /\ handoffs' = IF next = "SuccessorCreated"
          THEN [handoffs EXCEPT ![o].successor = ChosenSuccessor(o, successor)]
          ELSE handoffs
     /\ activeSession' = IF next = "Completed"
          THEN ChosenSuccessor(o, successor) ELSE activeSession

CompareAndSetFails(o, expected, next, successor) ==
  /\ ~AlreadySet(o, next, successor)
  /\ ~Settable(o, expected, next, successor)

--------------------------------------------------------------------------------
(* acknowledge                                                             *)

\* What the successor's host, or a client, reports of a bootstrapped successor.
Acknowledgements ==
  [ successor : Sessions,
    adapter : Adapters,
    digest : Digests ]

\* validateHandoffAcknowledgement.
ValidAcknowledgement(o, ack) ==
  /\ operations[o].successor # None
  /\ operations[o].successor = handoffs[o].successor
  /\ ack.successor = operations[o].successor
  /\ ack.adapter = operations[o].adapter
  /\ ack.digest = Digest(handoffs[o])

AlreadyAcknowledged(o, ack) ==
  /\ operations[o].state \in AcknowledgedStates
  /\ operations[o].acknowledged = ack.successor

\* Mutant: an acknowledgement counts whenever it arrives.
AcknowledgeableLate(o, ack) ==
  /\ operations[o].attempt < MaxTransitions - 1
  /\ handoffs[o].acknowledged \in { None, ack.successor }

Acknowledgeable(o, ack) ==
  /\ operations[o].state = "BootstrapSending"
  /\ operations[o].attempt < MaxTransitions - 1
  /\ handoffs[o].acknowledged \in { None, ack.successor }

AcknowledgeAccepts(o, ack) ==
  /\ Exists(o) /\ handoffs[o] # None
  /\ ValidAcknowledgement(o, ack)
  /\ AlreadyAcknowledged(o, ack) \/ Acknowledgeable(o, ack)

Acknowledge(o, ack) ==
  /\ AcknowledgeAccepts(o, ack)
  /\ IF AlreadyAcknowledged(o, ack)
       THEN UNCHANGED repositoryVars
       ELSE /\ operations' = [operations EXCEPT ![o] =
                 Moved(operations[o], "Acknowledged", 1,
                       operations[o].successor, ack.successor, None)]
            /\ handoffs' = [handoffs EXCEPT ![o].acknowledged = ack.successor]
            /\ UNCHANGED activeSession

--------------------------------------------------------------------------------
(* recordRetry                                                             *)

\* The row waits already for this resume state: only the time is moved.
RefreshesRetry(o, resume) ==
  /\ Exists(o)
  /\ operations[o].state = "RetryWait"
  /\ operations[o].retryResume = resume

\* Mutant: the failure and the retry wait count as one transition.
EntersRetryAsOne(o, resume) ==
  /\ Exists(o)
  /\ operations[o].state = resume
  /\ resume \in RetryResumeStates
  /\ operations[o].attempt < MaxTransitions - 1

\* The failure and the retry wait it leads to are two transitions of one
\* transaction, so both must fit under the bound.
EntersRetry(o, resume) ==
  /\ Exists(o)
  /\ operations[o].state = resume
  /\ resume \in RetryResumeStates
  /\ operations[o].attempt <= MaxTransitions - 3

RecordRetry(o, resume) ==
  /\ \/ /\ RefreshesRetry(o, resume)
        /\ operations' = [operations EXCEPT ![o].retryDue = FALSE]
     \/ /\ EntersRetry(o, resume)
        /\ operations' = [operations EXCEPT ![o] =
             Moved(operations[o], "RetryWait", 2, operations[o].successor,
                   operations[o].acknowledged, resume)]
  /\ UNCHANGED << handoffs, activeSession >>

RecordRetryFails(o, resume) ==
  ~RefreshesRetry(o, resume) /\ ~EntersRetry(o, resume)

--------------------------------------------------------------------------------
(* resetContinuity deletes every row of the project in one transaction.    *)

\* Mutant: the active session is left behind.
ResetOperations ==
  /\ operations' = [o \in Operations |-> None]
  /\ handoffs' = [o \in Operations |-> None]
  /\ UNCHANGED activeSession

ResetContinuity ==
  /\ operations' = [o \in Operations |-> None]
  /\ handoffs' = [o \in Operations |-> None]
  /\ activeSession' = None

\* The clock passes every durable retry time.
RetryTimePasses ==
  /\ \E o \in ActiveOperations :
       operations[o].state = "RetryWait" /\ ~operations[o].retryDue
  /\ operations' = [o \in Operations |->
       IF Exists(o) /\ operations[o].state = "RetryWait"
       THEN [operations[o] EXCEPT !.retryDue = TRUE] ELSE operations[o]]
  /\ UNCHANGED << handoffs, activeSession >>

--------------------------------------------------------------------------------
RepositoryInit ==
  /\ operations = [o \in Operations |-> None]
  /\ handoffs = [o \in Operations |-> None]
  /\ activeSession = None

\* Any caller, holding any row it may have read long ago.  A compare-and-set that
\* expects another state than the row's changes nothing.
RepositoryNext ==
  \/ \E r \in Requests : CreateOperation(r) \/ StoreHandoff(r)
  \/ \E o \in Operations, next \in ContinuityStates, successor \in Sessions \cup {None} :
       Exists(o) /\ CompareAndSet(o, operations[o].state, next, successor)
  \/ \E o \in Operations, ack \in Acknowledgements : Acknowledge(o, ack)
  \/ \E o \in Operations, resume \in RetryResumeStates : RecordRetry(o, resume)
  \/ ResetContinuity
  \/ RetryTimePasses

RepositorySpec == RepositoryInit /\ [][RepositoryNext]_repositoryVars

--------------------------------------------------------------------------------
(* Properties                                                              *)

\* The tables keep their column types, whatever the callers ask.
TypeOK ==
  /\ operations \in [Operations -> OperationRows \cup {None}]
  /\ handoffs \in [Operations -> HandoffRows \cup {None}]
  /\ activeSession \in Sessions \cup {None}

\* At most one rollover of a project is unfinished: two would let two successors
\* of the same project be created and published by turns.
OneActiveOperation ==
  \A o1, o2 \in ActiveOperations : o1 = o2

\* No row passes the bound the transition log is validated against: a row past it
\* could never be read again.  recordRetry takes two transitions at once.
AttemptBound ==
  \A o \in Operations : Exists(o) => operations[o].attempt < MaxTransitions

\* An operation and its canonical handoff live and die together, so no caller that
\* finds an operation can miss the document it must send.
HandoffWithOperation ==
  \A o \in Operations : Exists(o) <=> handoffs[o] # None

\* The point of the rollover a row has reached; a retry wait stands at the state it
\* resumes, and a row on its way out (failed, cancelling, cancelled) at none.
Stage(row) == IF row.state = "RetryWait" THEN row.retryResume ELSE row.state

StageOrder ==
  << "Idle", "CheckpointPreparing", "CheckpointPersisted", "SuccessorCreating",
     "SuccessorCreated", "BootstrapSending", "Acknowledged",
     "PredecessorSealing", "Completed" >>

\* The same stage, or the next.
Follows(was, is) ==
  \/ is = was
  \/ \E i \in 1 .. 8 : was = StageOrder[i] /\ is = StageOrder[i + 1]

OnItsWay(row) == row.state \notin { "FailedRecoverable", "Cancelling", "Cancelled" }

\* From the moment the successor is recorded, the row and the canonical handoff name
\* the same one: the document a host is given never introduces another session.
SuccessorBound ==
  \A o \in Operations :
    /\ Exists(o)
    /\ Stage(operations[o]) \in { "SuccessorCreated", "BootstrapSending",
         "Acknowledged", "PredecessorSealing", "Completed" }
    => /\ operations[o].successor # None
       /\ handoffs[o] # None
       /\ handoffs[o].successor = operations[o].successor

\* The predecessor is sealed, or waits to be sealed again after a failure, only with
\* an acknowledgement of exactly the recorded successor on both tables.
SealedOnlyAcknowledged ==
  \A o \in Operations :
    /\ Exists(o)
    /\ Stage(operations[o]) \in SealingStates
    => /\ operations[o].acknowledged # None
       /\ operations[o].acknowledged = operations[o].successor
       /\ handoffs[o] # None
       /\ handoffs[o].acknowledged = operations[o].successor

\* The session the project points at is the acknowledged successor of a completed
\* operation, never a session a rollover merely created, and never a leftover of
\* rows a reset has deleted.
PointerIsAcknowledged ==
  activeSession # None =>
    \E o \in Operations :
      /\ Exists(o)
      /\ operations[o].state = "Completed"
      /\ operations[o].acknowledged = activeSession

\* Whatever stale rows the callers act on, a rollover moves one stage at a time,
\* never back, and a row on its way out never returns (a late answer cannot revive
\* a cancelled rollover).
NeverBackward ==
  [][ \A o \in Operations :
        operations[o] # None /\ operations'[o] # None =>
          LET was == operations[o]
              is == operations'[o]
          IN IF OnItsWay(was)
               THEN OnItsWay(is) => Follows(Stage(was), Stage(is))
               ELSE ~OnItsWay(is)
    ]_repositoryVars

\* A finished row, and the handoff it sealed, are never written again; only a reset
\* of the whole project removes them.
FinishedIsFinal ==
  [][ \A o \in Operations :
        operations[o] # None /\ operations[o].state \in TerminalStates =>
          \/ operations'[o] = operations[o] /\ handoffs'[o] = handoffs[o]
          \/ operations' = [p \in Operations |-> None] /\ activeSession' = None
    ]_repositoryVars

\* While the row lives, the checkpointed content is the content of the first call, a
\* recorded successor is never replaced, and an acknowledged document never changes.
CanonicalHandoffStable ==
  [][ \A o \in Operations :
        handoffs[o] # None /\ handoffs'[o] # None =>
          /\ handoffs'[o].content = handoffs[o].content
          /\ operations[o].successor # None =>
               /\ operations'[o].successor = operations[o].successor
               /\ handoffs'[o].successor = handoffs[o].successor
          /\ handoffs[o].acknowledged # None => handoffs'[o] = handoffs[o]
    ]_repositoryVars

--------------------------------------------------------------------------------
(* The rollover tables implement what the project is promised.             *)

HandoverStage(o) ==
  IF ~Exists(o) THEN "none"
  ELSE IF operations[o].state = "Cancelled" THEN "given up"
  ELSE IF ~OnItsWay(operations[o]) THEN "giving up"
  ELSE CASE Stage(operations[o]) = "Completed" -> "published"
         [] Stage(operations[o]) \in { "Acknowledged", "PredecessorSealing" } ->
              "acknowledged"
         [] Stage(operations[o]) \in { "SuccessorCreated", "BootstrapSending" } ->
              "introduced"
         [] OTHER -> "preparing"

Handover == INSTANCE SessionHandover WITH
  stage <- [o \in Operations |-> HandoverStage(o)],
  successor <- [o \in Operations |->
                  IF Exists(o) THEN operations[o].successor ELSE None],
  active <- activeSession

\* Every transaction of the repository, by any caller with any stale row, is a step the
\* project was promised or one it does not see.
ImplementsHandover == Handover!HandoverSpec

================================================================================

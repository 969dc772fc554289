------------------------ MODULE SessionHandover_proofs ------------------------
(***************************************************************************)
(* The repository's steps, for every set of ids and every transition       *)
(* bound: no rollover goes backward, a canonical handoff stays what it is, *)
(* and ContinuityRepository implements SessionHandover.                    *)
(*                                                                         *)
(* Every transaction that changes anything but a whole reset, or the       *)
(* times, writes one row.  RowStage and RowSuccessor are what the promise  *)
(* sees of a row.                                                          *)
(***************************************************************************)
EXTENDS ContinuityRepository_proofs

USE MaxTransitionsAssumption, NoneAssumption

RowStage(row) ==
  IF row = None THEN "none"
  ELSE IF row.state = "Cancelled" THEN "given up"
  ELSE IF ~OnItsWay(row) THEN "giving up"
  ELSE CASE Stage(row) = "Completed" -> "published"
         [] Stage(row) \in { "Acknowledged", "PredecessorSealing" } -> "acknowledged"
         [] Stage(row) \in { "SuccessorCreated", "BootstrapSending" } -> "introduced"
         [] OTHER -> "preparing"

RowSuccessor(row) == IF row = None THEN None ELSE row.successor

\* Only row p may have changed.
OnlyRow(p) == \A o \in Operations \ {p} : operations'[o] = operations[o]

\* Before its recording a successor is on no row.
EarlyUnbound ==
  \A o \in Operations :
    /\ Exists(o)
    /\ Stage(operations[o]) \in
         { "Idle", "CheckpointPreparing", "CheckpointPersisted", "SuccessorCreating" }
    => operations[o].successor = None

--------------------------------------------------------------------------------
(* What each transaction does to its row *)

\* A compare-and-set that changes anything moves its row along an allowed transition.
LEMMA SetMoves ==
  ASSUME IInv, NEW o \in Operations, NEW next \in ContinuityStates,
         NEW successor \in Sessions \cup {None}, Exists(o),
         CompareAndSet(o, operations[o].state, next, successor),
         ~UNCHANGED repositoryVars
  PROVE  /\ Settable(o, operations[o].state, next, successor)
         /\ OnlyRow(o)
         /\ operations'[o] =
              Moved(operations[o], next, 1, ChosenSuccessor(o, successor),
                    operations[o].acknowledged, None)
         /\ operations'[o] \in OperationRows /\ operations'[o] # None
         /\ operations'[o].state = next
         /\ operations'[o].retryResume = None
         /\ operations'[o].successor = ChosenSuccessor(o, successor)
         /\ handoffs' = IF next = "SuccessorCreated"
              THEN [handoffs EXCEPT ![o].successor = ChosenSuccessor(o, successor)]
              ELSE handoffs
         /\ activeSession' = IF next = "Completed"
              THEN ChosenSuccessor(o, successor) ELSE activeSession
<1>1. /\ Settable(o, operations[o].state, next, successor)
      /\ operations' = [operations EXCEPT ![o] =
           Moved(operations[o], next, 1, ChosenSuccessor(o, successor),
                 operations[o].acknowledged, None)]
      /\ handoffs' = IF next = "SuccessorCreated"
           THEN [handoffs EXCEPT ![o].successor = ChosenSuccessor(o, successor)]
           ELSE handoffs
      /\ activeSession' = IF next = "Completed"
           THEN ChosenSuccessor(o, successor) ELSE activeSession
  BY DEF CompareAndSet
<1>2. TypeOK
  BY DEF IInv
<1>3. OnlyRow(o) /\ operations'[o] =
        Moved(operations[o], next, 1, ChosenSuccessor(o, successor),
              operations[o].acknowledged, None)
  BY <1>1, <1>2 DEF TypeOK, OnlyRow
<1>4. operations'[o] \in OperationRows
  <2>1. operations[o] \in OperationRows
    BY <1>2 DEF TypeOK, Exists
  <2>2. operations[o].attempt + 1 \in 0 .. MaxTransitions
    BY <1>1, <2>1 DEF Settable, OperationRows
  <2>3. ChosenSuccessor(o, successor) \in Sessions \cup {None}
    BY <2>1 DEF ChosenSuccessor, OperationRows
  <2>4. QED
    BY <1>3, <2>1, <2>2, <2>3 DEF Moved, OperationRows
<1>5. operations'[o] # None
  BY <1>4
<1>6. /\ operations'[o].state = next /\ operations'[o].retryResume = None
      /\ operations'[o].successor = ChosenSuccessor(o, successor)
  BY <1>3 DEF Moved
<1>7. QED
  BY <1>1, <1>3, <1>4, <1>5, <1>6

\* An acknowledgement that changes anything finds its row at BootstrapSending.
LEMMA AcknowledgeMoves ==
  ASSUME IInv, NEW o \in Operations, NEW ack \in Acknowledgements,
         Acknowledge(o, ack), ~UNCHANGED repositoryVars
  PROVE  /\ Exists(o) /\ operations[o].state = "BootstrapSending"
         /\ handoffs[o].acknowledged \in { None, ack.successor }
         /\ OnlyRow(o)
         /\ operations'[o] # None
         /\ operations'[o].state = "Acknowledged"
         /\ operations'[o].successor = operations[o].successor
         /\ handoffs' = [handoffs EXCEPT ![o].acknowledged = ack.successor]
         /\ activeSession' = activeSession
<1>1. /\ Exists(o) /\ Acknowledgeable(o, ack)
      /\ operations' = [operations EXCEPT ![o] =
           Moved(operations[o], "Acknowledged", 1, operations[o].successor,
                 ack.successor, None)]
      /\ handoffs' = [handoffs EXCEPT ![o].acknowledged = ack.successor]
      /\ activeSession' = activeSession
  BY DEF Acknowledge, AcknowledgeAccepts, repositoryVars
<1>2. operations[o] \in OperationRows /\ TypeOK
  BY <1>1 DEF IInv, TypeOK, Exists
<1>3. operations'[o] # None
  <2>1. operations[o].attempt + 1 \in 0 .. MaxTransitions /\ ack.successor \in Sessions
    BY <1>1, <1>2 DEF Acknowledgeable, OperationRows, Acknowledgements
  <2>2. operations'[o] \in OperationRows
    BY <1>1, <1>2, <2>1 DEF TypeOK, Moved, OperationRows, ContinuityStates
  <2>3. QED
    BY <2>2
<1>4. QED
  BY <1>1, <1>3 DEF Acknowledgeable, Moved, OnlyRow, IInv, TypeOK

\* A retry keeps the point of the rollover its row has reached.
LEMMA RetryMoves ==
  ASSUME IInv, NEW o \in Operations, NEW resume \in RetryResumeStates,
         RecordRetry(o, resume)
  PROVE  /\ Exists(o) /\ OnlyRow(o)
         /\ Stage(operations[o]) = resume
         /\ operations[o].state \in RetryResumeStates \cup {"RetryWait"}
         /\ operations'[o].state = "RetryWait"
         /\ operations'[o].retryResume = resume
         /\ operations'[o].successor = operations[o].successor
         /\ handoffs' = handoffs /\ activeSession' = activeSession
<1>1. /\ TypeOK /\ Exists(o) /\ handoffs' = handoffs /\ activeSession' = activeSession
  BY DEF IInv, RecordRetry, RefreshesRetry, EntersRetry
<1>2. operations[o] \in OperationRows
  BY <1>1 DEF TypeOK, Exists
<1>3. CASE /\ RefreshesRetry(o, resume)
           /\ operations' = [operations EXCEPT ![o].retryDue = FALSE]
  BY <1>1, <1>2, <1>3 DEF TypeOK, RefreshesRetry, OnlyRow, Stage, OperationRows
<1>4. CASE /\ EntersRetry(o, resume)
           /\ operations' = [operations EXCEPT ![o] =
                Moved(operations[o], "RetryWait", 2, operations[o].successor,
                      operations[o].acknowledged, resume)]
  <2>1. operations[o].state = resume /\ resume # "RetryWait"
    BY <1>4 DEF EntersRetry, RetryResumeStates
  <2>2. QED
    BY <1>1, <1>4, <2>1 DEF TypeOK, OnlyRow, Stage, Moved
<1>5. QED
  BY <1>3, <1>4 DEF RecordRetry

\* A stored handoff is the one that came with the operation.
LEMMA StoreMovesNothing ==
  ASSUME IInv, NEW r \in Requests, StoreHandoff(r)
  PROVE  UNCHANGED repositoryVars
<1>1. r.operation \in Operations /\ handoffs[r.operation] # None
  BY DEF Requests, IInv, HandoffWithOperation, StoreHandoff, HandoffStorable
<1>2. QED
  BY <1>1 DEF StoreHandoff, IInv, TypeOK, repositoryVars

\* A creation that changes anything makes the only unfinished row, and its handoff.
LEMMA CreateMoves ==
  ASSUME IInv, NEW r \in Requests, CreateOperation(r), ~UNCHANGED repositoryVars
  PROVE  /\ r.operation \in Operations
         /\ ~Exists(r.operation) /\ ActiveOperations = {}
         /\ OnlyRow(r.operation)
         /\ operations'[r.operation] = CreatedRow(r)
         /\ CreatedRow(r) # None
         /\ handoffs[r.operation] = None
         /\ \A o \in Operations \ {r.operation} : handoffs'[o] = handoffs[o]
         /\ activeSession' = activeSession
<1>1. r.operation \in Operations /\ CreateInserts(r)
      /\ operations' = [operations EXCEPT ![r.operation] = CreatedRow(r)]
      /\ handoffs' = [handoffs EXCEPT ![r.operation] =
           [ content |-> r.content, successor |-> r.successor, acknowledged |-> None ]]
      /\ activeSession' = activeSession
  BY DEF CreateOperation, CreateFinds, Requests, repositoryVars
<1>2. CreatedRow(r) # None
  <2>1. CreatedRow(r) \in OperationRows
    BY DEF Requests, CreatedRow, OperationRows, ContinuityStates
  <2>2. QED
    BY <2>1
<1>3. QED
  BY <1>1, <1>2 DEF CreateInserts, IInv, TypeOK, HandoffWithOperation, OnlyRow

\* Time changes neither where a row stands nor whom it names.
LEMMA TimeMovesNothing ==
  ASSUME IInv, RetryTimePasses, NEW o \in Operations
  PROVE  /\ Exists(o)' <=> Exists(o)
         /\ Exists(o) => /\ operations'[o].state = operations[o].state
                         /\ operations'[o].retryResume = operations[o].retryResume
                         /\ operations'[o].successor = operations[o].successor
         /\ handoffs' = handoffs /\ activeSession' = activeSession
<1>1. operations[o] \in OperationRows \cup {None}
  BY DEF IInv, TypeOK
<1>2. CASE operations'[o] = operations[o]
  BY <1>2 DEF RetryTimePasses, Exists
<1>3. CASE Exists(o) /\ operations'[o] = [operations[o] EXCEPT !.retryDue = TRUE]
  <2>1. operations[o] \in OperationRows /\ operations'[o] \in OperationRows
    BY <1>1, <1>3 DEF Exists, OperationRows
  <2>2. QED
    BY <1>3, <2>1 DEF RetryTimePasses, Exists, OperationRows
<1>4. QED
  BY <1>2, <1>3 DEF RetryTimePasses

--------------------------------------------------------------------------------
(* NeverBackward *)

BackwardStep ==
  \A o \in Operations :
    operations[o] # None /\ operations'[o] # None =>
      LET was == operations[o]
          is == operations'[o]
      IN IF OnItsWay(was)
           THEN OnItsWay(is) => Follows(Stage(was), Stage(is))
           ELSE ~OnItsWay(is)

\* The order of the stages is that of the forward edges.
LEMMA EdgesFollow ==
  ASSUME NEW from \in ContinuityStates, NEW to \in ContinuityStates,
         AllowedTransition(from, to), from # "RetryWait",
         to \notin { "RetryWait", "FailedRecoverable", "Cancelling", "Cancelled" }
  PROVE  Follows(from, to) /\ from \notin { "FailedRecoverable", "Cancelling", "Cancelled" }
<1>1. /\ StageOrder[1] = "Idle" /\ StageOrder[2] = "CheckpointPreparing"
      /\ StageOrder[3] = "CheckpointPersisted" /\ StageOrder[4] = "SuccessorCreating"
      /\ StageOrder[5] = "SuccessorCreated" /\ StageOrder[6] = "BootstrapSending"
      /\ StageOrder[7] = "Acknowledged" /\ StageOrder[8] = "PredecessorSealing"
      /\ StageOrder[9] = "Completed"
  BY DEF StageOrder
<1>2. \A i \in 1 .. 8 : Follows(StageOrder[i], StageOrder[i + 1])
  BY DEF Follows
<1>3. \E i \in 1 .. 8 : from = StageOrder[i] /\ to = StageOrder[i + 1]
  BY <1>1 DEF AllowedTransition, ForwardEdges, TerminalStates
<1>4. from \notin { "FailedRecoverable", "Cancelling", "Cancelled" }
  BY DEF AllowedTransition, ForwardEdges, TerminalStates
<1>5. QED
  BY <1>2, <1>3, <1>4

\* A row on its way out stays on its way out.
LEMMA OutStaysOut ==
  ASSUME NEW from \in ContinuityStates, NEW to \in ContinuityStates,
         AllowedTransition(from, to), to # "RetryWait",
         from \in { "FailedRecoverable", "Cancelling", "Cancelled" }
  PROVE  to \in { "FailedRecoverable", "Cancelling", "Cancelled" }
BY DEF AllowedTransition, ForwardEdges, TerminalStates, RetryResumeStates

\* No transaction moves a row backward.
LEMMA StepGoesForward == IInv /\ [RepositoryNext]_repositoryVars => BackwardStep
<1>1. SUFFICES ASSUME IInv, [RepositoryNext]_repositoryVars, NEW o \in Operations,
                      operations[o] # None, operations'[o] # None
               PROVE  IF OnItsWay(operations[o])
                      THEN OnItsWay(operations'[o]) =>
                             Follows(Stage(operations[o]), Stage(operations'[o]))
                      ELSE ~OnItsWay(operations'[o])
  BY DEF BackwardStep
<1>2. operations[o] \in OperationRows
  BY <1>1 DEF IInv, TypeOK
<1>3. CASE operations'[o] = operations[o]
  BY <1>3 DEF Follows
<1>4. CASE \E r \in Requests : CreateOperation(r) \/ StoreHandoff(r)
  <2>1. operations'[o] = operations[o]
    BY <1>1, <1>4, CreateMoves, StoreMovesNothing DEF OnlyRow, Exists, repositoryVars
  <2>2. QED
    BY <2>1, <1>3
<1>5. CASE \E p \in Operations, next \in ContinuityStates,
             successor \in Sessions \cup {None} :
             Exists(p) /\ CompareAndSet(p, operations[p].state, next, successor)
  <2>1. PICK p \in Operations, next \in ContinuityStates,
             successor \in Sessions \cup {None} :
             Exists(p) /\ CompareAndSet(p, operations[p].state, next, successor)
    BY <1>5
  <2>2. CASE UNCHANGED repositoryVars \/ p # o
    BY <2>1, <2>2, <1>1, <1>3, SetMoves DEF OnlyRow, repositoryVars
  <2>3. CASE ~UNCHANGED repositoryVars /\ p = o
    <3>1. /\ Settable(o, operations[o].state, next, successor)
          /\ operations'[o].state = next
      BY <2>1, <2>3, <1>1, SetMoves
    <3>2. /\ AllowedTransition(operations[o].state, next) /\ next # "RetryWait"
          /\ operations[o].state = "RetryWait" => Stage(operations[o]) = next
          /\ operations[o].state \in ContinuityStates
          /\ Stage(operations'[o]) = next
      BY <3>1, <1>2 DEF Settable, Stage, OperationRows
    <3>3. CASE operations[o].state = "RetryWait"
      BY <3>1, <3>2, <3>3 DEF Follows, OnItsWay
    <3>4. CASE operations[o].state # "RetryWait"
      <4>1. Stage(operations[o]) = operations[o].state
        BY <3>4 DEF Stage
      <4>2. CASE OnItsWay(operations'[o])
        BY <3>1, <3>2, <3>4, <4>1, <4>2, EdgesFollow DEF OnItsWay
      <4>3. CASE ~OnItsWay(operations'[o])
        BY <4>3
      <4>4. QED
        BY <4>2, <4>3
    <3>5. QED
      BY <3>3, <3>4
  <2>4. QED
    BY <2>2, <2>3
<1>6. CASE \E p \in Operations, ack \in Acknowledgements : Acknowledge(p, ack)
  <2>1. PICK p \in Operations, ack \in Acknowledgements : Acknowledge(p, ack)
    BY <1>6
  <2>2. CASE UNCHANGED repositoryVars \/ p # o
    BY <2>1, <2>2, <1>1, <1>3, AcknowledgeMoves DEF OnlyRow, repositoryVars
  <2>3. CASE ~UNCHANGED repositoryVars /\ p = o
    <3>1. /\ operations[o].state = "BootstrapSending"
          /\ operations'[o].state = "Acknowledged"
      BY <2>1, <2>3, <1>1, AcknowledgeMoves
    <3>2. Follows("BootstrapSending", "Acknowledged")
      BY EdgesFollow DEF AllowedTransition, ForwardEdges, TerminalStates, ContinuityStates
    <3>3. QED
      BY <3>1, <3>2 DEF OnItsWay, Stage
  <2>4. QED
    BY <2>2, <2>3
<1>7. CASE \E p \in Operations, resume \in RetryResumeStates : RecordRetry(p, resume)
  <2>1. PICK p \in Operations, resume \in RetryResumeStates : RecordRetry(p, resume)
    BY <1>7
  <2>2. CASE p # o
    BY <2>1, <2>2, <1>1, <1>3, RetryMoves DEF OnlyRow
  <2>3. CASE p = o
    <3>1. /\ Stage(operations[o]) = resume
          /\ operations[o].state \in RetryResumeStates \cup {"RetryWait"}
          /\ operations'[o].state = "RetryWait"
          /\ operations'[o].retryResume = resume
      BY <2>1, <2>3, <1>1, RetryMoves
    <3>2. OnItsWay(operations[o]) /\ Stage(operations'[o]) = resume
      BY <3>1 DEF OnItsWay, Stage, RetryResumeStates
    <3>3. QED
      BY <3>1, <3>2 DEF Follows
  <2>4. QED
    BY <2>2, <2>3
<1>8. CASE ResetContinuity
  BY <1>1, <1>8 DEF ResetContinuity
<1>9. CASE RetryTimePasses
  BY <1>1, <1>9, TimeMovesNothing DEF Exists, OnItsWay, Stage, Follows
<1>10. CASE UNCHANGED repositoryVars
  BY <1>3, <1>10 DEF repositoryVars
<1>11. QED
  BY <1>1, <1>4, <1>5, <1>6, <1>7, <1>8, <1>9, <1>10 DEF RepositoryNext

\* Whoever writes the tables, no rollover goes back to a stage it has left, skips one, or
\* returns from its cancellation.
THEOREM NeverBackwardAlways == RepositorySpec => NeverBackward
<1>1. IInv /\ [RepositoryNext]_repositoryVars => [BackwardStep]_repositoryVars
  BY StepGoesForward
<1>2. QED
  BY <1>1, RepositoryInvariant, PTL DEF RepositorySpec, NeverBackward, BackwardStep

--------------------------------------------------------------------------------
(* CanonicalHandoffStable *)

EarlyStages ==
  { "Idle", "CheckpointPreparing", "CheckpointPersisted", "SuccessorCreating" }

\* The invariant with what a checkpoint has to know of a row: that nobody's successor is on
\* it yet.
HInv == IInv /\ EarlyUnbound

\* An early stage is reached from an early stage.
LEMMA EarlyBefore ==
  ASSUME NEW from \in ContinuityStates, NEW to \in ContinuityStates,
         AllowedTransition(from, to), from # "RetryWait", to \in EarlyStages
  PROVE  from \in EarlyStages
BY DEF AllowedTransition, ForwardEdges, TerminalStates, EarlyStages

\* EarlyUnbound, row by row.
LEMMA UnboundByRows ==
  ASSUME \A o \in Operations :
           operations'[o] # None /\ Stage(operations'[o]) \in EarlyStages
             => operations'[o].successor = None
  PROVE  EarlyUnbound'
BY DEF EarlyUnbound, Exists, Stage, EarlyStages

\* A successor is recorded with the transition to SuccessorCreated and no earlier.
LEMMA EarlyKeeps == IInv /\ EarlyUnbound /\ [RepositoryNext]_repositoryVars => EarlyUnbound'
<1>1. SUFFICES ASSUME IInv, EarlyUnbound, [RepositoryNext]_repositoryVars,
                      NEW o \in Operations,
                      operations'[o] # None, Stage(operations'[o]) \in EarlyStages
               PROVE  operations'[o].successor = None
  BY UnboundByRows
<1>2. operations[o] # None => operations[o] \in OperationRows
  BY <1>1 DEF IInv, TypeOK
<1>3. ASSUME operations[o] # None, Stage(operations[o]) \in EarlyStages
      PROVE  operations[o].successor = None
  BY <1>1, <1>3 DEF EarlyUnbound, Exists, EarlyStages
<1>4. CASE operations'[o] = operations[o]
  BY <1>1, <1>3, <1>4
<1>5. CASE \E r \in Requests : CreateOperation(r) \/ StoreHandoff(r)
  <2>1. PICK r \in Requests : CreateOperation(r) \/ StoreHandoff(r)
    BY <1>5
  <2>2. CASE UNCHANGED repositoryVars \/ r.operation # o
    BY <2>1, <2>2, <1>1, <1>4, CreateMoves, StoreMovesNothing DEF OnlyRow, repositoryVars
  <2>3. CASE ~UNCHANGED repositoryVars /\ r.operation = o
    <3>1. operations'[o] = CreatedRow(r)
      BY <2>1, <2>3, <1>1, CreateMoves, StoreMovesNothing
    <3>2. QED
      BY <3>1 DEF CreatedRow
  <2>4. QED
    BY <2>2, <2>3
<1>6. CASE \E p \in Operations, next \in ContinuityStates,
             successor \in Sessions \cup {None} :
             Exists(p) /\ CompareAndSet(p, operations[p].state, next, successor)
  <2>1. PICK p \in Operations, next \in ContinuityStates,
             successor \in Sessions \cup {None} :
             Exists(p) /\ CompareAndSet(p, operations[p].state, next, successor)
    BY <1>6
  <2>2. CASE UNCHANGED repositoryVars \/ p # o
    BY <2>1, <2>2, <1>1, <1>4, SetMoves DEF OnlyRow, repositoryVars
  <2>3. CASE ~UNCHANGED repositoryVars /\ p = o
    <3>1. /\ Settable(o, operations[o].state, next, successor)
          /\ operations'[o].state = next
          /\ operations'[o].successor = ChosenSuccessor(o, successor)
          /\ operations[o] # None
      BY <2>1, <2>3, <1>1, SetMoves DEF Exists
    <3>2. next \in EarlyStages
      BY <3>1, <1>1 DEF Settable, Stage
    <3>3. Stage(operations[o]) \in EarlyStages
      BY <3>1, <3>2, <1>2, EarlyBefore DEF Settable, Stage, OperationRows
    <3>4. operations'[o].successor = operations[o].successor
      BY <3>1, <3>2 DEF Settable, LedgerConsistent, EarlyStages
    <3>5. QED
      BY <3>1, <3>3, <3>4, <1>3
  <2>4. QED
    BY <2>2, <2>3
<1>7. CASE \E p \in Operations, ack \in Acknowledgements : Acknowledge(p, ack)
  <2>1. PICK p \in Operations, ack \in Acknowledgements : Acknowledge(p, ack)
    BY <1>7
  <2>2. CASE UNCHANGED repositoryVars \/ p # o
    BY <2>1, <2>2, <1>1, <1>4, AcknowledgeMoves DEF OnlyRow, repositoryVars
  <2>3. CASE ~UNCHANGED repositoryVars /\ p = o
    BY <2>1, <2>3, <1>1, AcknowledgeMoves DEF Stage, EarlyStages
  <2>4. QED
    BY <2>2, <2>3
<1>8. CASE \E p \in Operations, resume \in RetryResumeStates : RecordRetry(p, resume)
  <2>1. PICK p \in Operations, resume \in RetryResumeStates : RecordRetry(p, resume)
    BY <1>8
  <2>2. CASE p # o
    BY <2>1, <2>2, <1>1, <1>4, RetryMoves DEF OnlyRow
  <2>3. CASE p = o
    <3>1. /\ Stage(operations[o]) = resume /\ operations[o] # None
          /\ Stage(operations'[o]) = resume
          /\ operations'[o].successor = operations[o].successor
      BY <2>1, <2>3, <1>1, RetryMoves DEF Stage, Exists
    <3>2. QED
      BY <3>1, <1>1, <1>3
  <2>4. QED
    BY <2>2, <2>3
<1>9. CASE ResetContinuity
  BY <1>1, <1>9 DEF ResetContinuity
<1>10. CASE RetryTimePasses
  <2>1. /\ operations[o] # None
        /\ operations'[o].successor = operations[o].successor
        /\ Stage(operations'[o]) = Stage(operations[o])
    BY <1>1, <1>10, TimeMovesNothing DEF Exists, Stage
  <2>2. QED
    BY <2>1, <1>1, <1>3
<1>11. CASE UNCHANGED repositoryVars
  BY <1>4, <1>11 DEF repositoryVars
<1>12. QED
  BY <1>1, <1>5, <1>6, <1>7, <1>8, <1>9, <1>10, <1>11 DEF RepositoryNext

\* The strengthened invariant holds in every reachable state.
LEMMA HandoffInvariant == RepositorySpec => []HInv
<1>1. RepositoryInit => HInv
  BY InitEstablishes DEF HInv, EarlyUnbound, RepositoryInit, Exists
<1>2. HInv /\ [RepositoryNext]_repositoryVars => HInv'
  BY StepKeeps, EarlyKeeps DEF HInv
<1>3. QED
  BY <1>1, <1>2, PTL DEF RepositorySpec

StableStep ==
  \A o \in Operations :
    handoffs[o] # None /\ handoffs'[o] # None =>
      /\ handoffs'[o].content = handoffs[o].content
      /\ operations[o].successor # None =>
           /\ operations'[o].successor = operations[o].successor
           /\ handoffs'[o].successor = handoffs[o].successor
      /\ handoffs[o].acknowledged # None => handoffs'[o] = handoffs[o]

\* No transaction changes a handoff but to bind its successor and its acknowledgement.
LEMMA StepIsStable == HInv /\ [RepositoryNext]_repositoryVars => StableStep
<1>1. SUFFICES ASSUME HInv, [RepositoryNext]_repositoryVars, NEW o \in Operations,
                      handoffs[o] # None, handoffs'[o] # None
               PROVE  /\ handoffs'[o].content = handoffs[o].content
                      /\ operations[o].successor # None =>
                           /\ operations'[o].successor = operations[o].successor
                           /\ handoffs'[o].successor = handoffs[o].successor
                      /\ handoffs[o].acknowledged # None => handoffs'[o] = handoffs[o]
  BY DEF StableStep
<1>2. /\ IInv /\ EarlyUnbound /\ Exists(o) /\ operations[o] \in OperationRows
      /\ handoffs[o] \in HandoffRows
      /\ handoffs \in [Operations -> HandoffRows \cup {None}]
  BY <1>1 DEF HInv, IInv, TypeOK, HandoffWithOperation, Exists
<1>3. CASE operations'[o] = operations[o] /\ handoffs'[o] = handoffs[o]
  BY <1>3
<1>4. CASE \E r \in Requests : CreateOperation(r) \/ StoreHandoff(r)
  <2>1. operations'[o] = operations[o] /\ handoffs'[o] = handoffs[o]
    BY <1>1, <1>2, <1>4, CreateMoves, StoreMovesNothing DEF OnlyRow, repositoryVars
  <2>2. QED
    BY <2>1, <1>3
<1>5. CASE \E p \in Operations, next \in ContinuityStates,
             successor \in Sessions \cup {None} :
             Exists(p) /\ CompareAndSet(p, operations[p].state, next, successor)
  <2>1. PICK p \in Operations, next \in ContinuityStates,
             successor \in Sessions \cup {None} :
             Exists(p) /\ CompareAndSet(p, operations[p].state, next, successor)
    BY <1>5
  <2>2. CASE UNCHANGED repositoryVars
    BY <2>2, <1>3 DEF repositoryVars
  <2>3. CASE ~UNCHANGED repositoryVars /\ p # o
    <3>1. operations'[o] = operations[o] /\ handoffs'[o] = handoffs[o]
      BY <2>1, <2>3, <1>2, SetMoves DEF OnlyRow
    <3>2. QED
      BY <3>1, <1>3
  <2>4. CASE ~UNCHANGED repositoryVars /\ p = o
    <3> DEFINE s == ChosenSuccessor(o, successor)
    <3>1. /\ Settable(o, operations[o].state, next, successor)
          /\ operations'[o].successor = s
          /\ handoffs' = IF next = "SuccessorCreated"
               THEN [handoffs EXCEPT ![o].successor = s] ELSE handoffs
      BY <2>1, <2>4, <1>2, SetMoves
    <3>2. operations[o].successor # None => s = operations[o].successor
      BY <3>1 DEF Settable, LedgerConsistent
    <3>3. CASE next # "SuccessorCreated"
      BY <3>1, <3>2, <3>3
    <3>4. CASE next = "SuccessorCreated"
      <4>1. /\ AllowedTransition(operations[o].state, next)
            /\ operations[o].state = "RetryWait" => operations[o].retryResume = next
            /\ handoffs[o].acknowledged = None
        BY <3>1, <3>4 DEF Settable
      <4>2. operations[o].state = "SuccessorCreating"
        BY <4>1, <3>4, <1>2, TransitionFacts DEF OperationRows, ContinuityStates
      <4>3. operations[o].successor = None
        BY <4>2, <1>2 DEF EarlyUnbound, Stage
      <4>4. handoffs'[o].content = handoffs[o].content
        BY <3>1, <3>4, <1>2 DEF HandoffRows
      <4>5. QED
        BY <4>1, <4>3, <4>4
    <3>5. QED
      BY <3>3, <3>4
  <2>5. QED
    BY <2>2, <2>3, <2>4
<1>6. CASE \E p \in Operations, ack \in Acknowledgements : Acknowledge(p, ack)
  <2>1. PICK p \in Operations, ack \in Acknowledgements : Acknowledge(p, ack)
    BY <1>6
  <2>2. CASE UNCHANGED repositoryVars
    BY <2>2, <1>3 DEF repositoryVars
  <2>3. CASE ~UNCHANGED repositoryVars /\ p # o
    <3>1. operations'[o] = operations[o] /\ handoffs'[o] = handoffs[o]
      BY <2>1, <2>3, <1>2, AcknowledgeMoves DEF OnlyRow
    <3>2. QED
      BY <3>1, <1>3
  <2>4. CASE ~UNCHANGED repositoryVars /\ p = o
    <3>1. /\ handoffs[o].acknowledged \in { None, ack.successor }
          /\ operations'[o].successor = operations[o].successor
          /\ handoffs' = [handoffs EXCEPT ![o].acknowledged = ack.successor]
      BY <2>1, <2>4, <1>2, AcknowledgeMoves
    <3>2. handoffs'[o] = [handoffs[o] EXCEPT !.acknowledged = ack.successor]
      BY <3>1, <1>2
    <3>3. QED
      BY <3>1, <3>2, <1>2 DEF HandoffRows
  <2>5. QED
    BY <2>2, <2>3, <2>4
<1>7. CASE \E p \in Operations, resume \in RetryResumeStates : RecordRetry(p, resume)
  BY <1>2, <1>7, RetryMoves DEF OnlyRow
<1>8. CASE ResetContinuity
  BY <1>1, <1>8 DEF ResetContinuity
<1>9. CASE RetryTimePasses
  BY <1>2, <1>9, TimeMovesNothing
<1>10. CASE UNCHANGED repositoryVars
  BY <1>3, <1>10 DEF repositoryVars
<1>11. QED
  BY <1>1, <1>4, <1>5, <1>6, <1>7, <1>8, <1>9, <1>10 DEF RepositoryNext

\* The checkpointed content, the recorded successor and the acknowledged document are for
\* good, whatever is retried with them.
THEOREM CanonicalHandoffStableAlways == RepositorySpec => CanonicalHandoffStable
<1>1. HInv /\ [RepositoryNext]_repositoryVars => [StableStep]_repositoryVars
  BY StepIsStable
<1>2. QED
  BY <1>1, HandoffInvariant, PTL DEF RepositorySpec, CanonicalHandoffStable, StableStep

--------------------------------------------------------------------------------
(* The refinement *)

Stages == [o \in Operations |-> HandoverStage(o)]

Successors == [o \in Operations |-> IF Exists(o) THEN operations[o].successor ELSE None]

\* The promise sees of an operation only its row.
LEMMA SeenByRows ==
  ASSUME NEW o \in Operations
  PROVE  /\ Stages[o] = RowStage(operations[o])
         /\ Stages'[o] = RowStage(operations'[o])
         /\ Successors[o] = RowSuccessor(operations[o])
         /\ Successors'[o] = RowSuccessor(operations'[o])
  BY DEF Stages, Successors, HandoverStage, RowStage, RowSuccessor, Exists, OnItsWay, Stage

\* A step that writes one row is seen as a change of that operation.
LEMMA SeenOfOneRow ==
  ASSUME NEW o \in Operations, OnlyRow(o)
  PROVE  /\ Stages' = [Stages EXCEPT ![o] = RowStage(operations'[o])]
         /\ Successors' = [Successors EXCEPT ![o] = RowSuccessor(operations'[o])]
<1>1. \A p \in Operations :
        /\ Stages'[p] = IF p = o THEN RowStage(operations'[o]) ELSE Stages[p]
        /\ Successors'[p] = IF p = o THEN RowSuccessor(operations'[o]) ELSE Successors[p]
  BY SeenByRows DEF OnlyRow
<1>2. /\ DOMAIN Stages = Operations /\ Stages' = [p \in Operations |-> Stages'[p]]
      /\ DOMAIN Successors = Operations
      /\ Successors' = [p \in Operations |-> Successors'[p]]
      /\ Stages = [p \in Operations |-> Stages[p]]
      /\ Successors = [p \in Operations |-> Successors[p]]
  BY DEF Stages, Successors
<1>3. QED
  BY <1>1, <1>2

\* An operation that is open in the promise is an unfinished row.
LEMMA OpenAreActive ==
  ASSUME NEW o \in Operations
  PROVE  Stages[o] \notin { "none", "published", "given up" } => o \in ActiveOperations
<1>1. SUFFICES ASSUME RowStage(operations[o]) \notin { "none", "published", "given up" }
               PROVE  operations[o] # None /\ operations[o].state \notin TerminalStates
  BY SeenByRows DEF ActiveOperations, Exists
<1>2. operations[o] # None /\ operations[o].state # "Cancelled"
  BY <1>1 DEF RowStage
<1>3. operations[o].state # "Completed"
  BY <1>1, <1>2 DEF RowStage, OnItsWay, Stage
<1>4. QED
  BY <1>2, <1>3 DEF TerminalStates

\* What the promise sees of one row that moves along an allowed transition.
LEMMA SeenOfMove ==
  ASSUME NEW o \in Operations, NEW next \in ContinuityStates,
         operations[o] \in OperationRows, operations'[o] \in OperationRows,
         AllowedTransition(operations[o].state, next), next # "RetryWait",
         operations[o].state = "RetryWait" => operations[o].retryResume = next,
         operations'[o].state = next
  PROVE  \/ /\ RowStage(operations'[o]) = RowStage(operations[o])
            /\ next # "SuccessorCreated" /\ next # "Completed"
         \/ /\ RowStage(operations[o]) = "preparing"
            /\ RowStage(operations'[o]) = "introduced"
            /\ next = "SuccessorCreated"
         \/ /\ RowStage(operations[o]) = "introduced"
            /\ RowStage(operations'[o]) = "acknowledged"
            /\ next = "Acknowledged"
         \/ /\ RowStage(operations[o]) = "acknowledged"
            /\ RowStage(operations'[o]) = "published"
            /\ next = "Completed"
         \/ /\ RowStage(operations[o])
                 \notin { "none", "published", "giving up", "given up" }
            /\ RowStage(operations'[o]) = "giving up"
            /\ next \in { "FailedRecoverable", "Cancelling" }
         \/ /\ RowStage(operations[o]) = "giving up"
            /\ RowStage(operations'[o]) = "given up"
            /\ next = "Cancelled"
<1> DEFINE old == operations[o]
           new == operations'[o]
           from == old.state
           to == next
<1>1. /\ from \in ContinuityStates /\ to \in ContinuityStates
      /\ old # None /\ new # None /\ Stage(new) = to
      /\ from # "RetryWait" => Stage(old) = from
      /\ from = "RetryWait" => Stage(old) = to /\ to \in RetryResumeStates
  BY DEF OperationRows, Stage
<1>2. CASE from = "RetryWait"
  BY <1>1, <1>2 DEF RowStage, OnItsWay, RetryResumeStates
<1>3. CASE from # "RetryWait" /\ to \in { "FailedRecoverable", "Cancelling" }
  <2>1. from \notin TerminalStates /\ RowStage(new) = "giving up"
    BY <1>1, <1>3 DEF RowStage, OnItsWay, AllowedTransition
  <2>2. CASE from \in { "FailedRecoverable", "Cancelling" }
    <3>1. RowStage(old) = "giving up"
      BY <1>1, <2>2 DEF RowStage, OnItsWay
    <3>2. QED
      BY <1>3, <2>1, <3>1
  <2>3. CASE from \notin { "FailedRecoverable", "Cancelling" }
    <3>1. RowStage(old) \in { "preparing", "introduced", "acknowledged" }
      BY <1>1, <1>3, <2>1, <2>3 DEF RowStage, OnItsWay, TerminalStates
    <3>2. QED
      BY <1>3, <2>1, <3>1
  <2>4. QED
    BY <2>2, <2>3
<1>4. CASE from # "RetryWait" /\ to \notin { "FailedRecoverable", "Cancelling" }
  <2>1. << from, to >> \in ForwardEdges
    BY <1>4 DEF AllowedTransition
  <2>2. QED
    BY <1>1, <1>4, <2>1 DEF RowStage, OnItsWay, ForwardEdges
<1>5. QED
  BY <1>2, <1>3, <1>4

\* The steps of the promise, in the terms of this module.
LEMMA Promised ==
  /\ UNCHANGED << Stages, Successors, activeSession >>
       => UNCHANGED Handover!handoverVars
  /\ \A o \in Operations :
       /\ Stages[o] \notin { "none", "published", "given up" } <=> o \in Handover!Open
       /\ /\ Stages[o] = "none" /\ Handover!Open = {}
          /\ Stages' = [Stages EXCEPT ![o] = "preparing"]
          /\ UNCHANGED << Successors, activeSession >>
          => Handover!Begin(o)
       /\ \A s \in Sessions :
            /\ Stages[o] = "preparing" /\ Stages' = [Stages EXCEPT ![o] = "introduced"]
            /\ Successors' = [Successors EXCEPT ![o] = s]
            /\ UNCHANGED activeSession
            => Handover!Introduce(o, s)
       /\ /\ Stages[o] = "introduced" /\ Stages' = [Stages EXCEPT ![o] = "acknowledged"]
          /\ UNCHANGED << Successors, activeSession >>
          => Handover!Acknowledged(o)
       /\ /\ Stages[o] = "acknowledged" /\ Stages' = [Stages EXCEPT ![o] = "published"]
          /\ activeSession' = Successors[o] /\ UNCHANGED Successors
          => Handover!Publish(o)
       /\ /\ o \in Handover!Open
          /\ Stages' = [Stages EXCEPT ![o] =
               IF Stages[o] = "giving up" THEN "given up" ELSE "giving up"]
          /\ UNCHANGED << Successors, activeSession >>
          => Handover!GiveUp(o)
  BY DEF Stages, Successors, Handover!handoverVars, Handover!Open, Handover!Begin,
         Handover!Introduce, Handover!Acknowledged, Handover!Publish, Handover!GiveUp

\* A change of one operation to what it was is none.
LEMMA SeenUnchanged ==
  ASSUME NEW o \in Operations, OnlyRow(o)
  PROVE  /\ RowStage(operations'[o]) = RowStage(operations[o]) => Stages' = Stages
         /\ RowSuccessor(operations'[o]) = RowSuccessor(operations[o])
              => Successors' = Successors
<1>1. /\ Stages' = [Stages EXCEPT ![o] = RowStage(operations'[o])]
      /\ Successors' = [Successors EXCEPT ![o] = RowSuccessor(operations'[o])]
      /\ Stages[o] = RowStage(operations[o])
      /\ Successors[o] = RowSuccessor(operations[o])
  BY SeenOfOneRow, SeenByRows
<1>2. Stages = [p \in Operations |-> Stages[p]]
      /\ Successors = [p \in Operations |-> Successors[p]]
  BY DEF Stages, Successors
<1>3. QED
  BY <1>1, <1>2

\* A compare-and-set introduces, publishes, gives up, acknowledges, or is not seen.
LEMMA SetIsPromised ==
  ASSUME IInv, NEW o \in Operations, NEW next \in ContinuityStates,
         NEW successor \in Sessions \cup {None}, Exists(o),
         CompareAndSet(o, operations[o].state, next, successor),
         ~UNCHANGED repositoryVars
  PROVE  [Handover!HandoverNext]_(Handover!handoverVars)
<1> DEFINE old == operations[o]
           new == operations'[o]
           s == ChosenSuccessor(o, successor)
<1>1. /\ Settable(o, old.state, next, successor) /\ OnlyRow(o)
      /\ new \in OperationRows /\ new # None /\ new.state = next
      /\ new.retryResume = None /\ new.successor = s
      /\ activeSession' = IF next = "Completed" THEN s ELSE activeSession
  BY SetMoves
<1>2. old \in OperationRows /\ old # None
  BY DEF IInv, TypeOK, Exists
<1>3. /\ Stages' = [Stages EXCEPT ![o] = RowStage(new)]
      /\ Successors' = [Successors EXCEPT ![o] = s]
      /\ Stages[o] = RowStage(old) /\ Successors[o] = old.successor
  BY <1>1, <1>2, SeenOfOneRow, SeenByRows DEF RowSuccessor
<1>4. next # "SuccessorCreated" => s = old.successor /\ Successors' = Successors
  BY <1>1, <1>2, SeenUnchanged DEF Settable, LedgerConsistent, RowSuccessor
<1>5. /\ AllowedTransition(old.state, new.state) /\ new.state # "RetryWait"
      /\ old.state = "RetryWait" => old.retryResume = new.state
  BY <1>1 DEF Settable
<1>6. CASE RowStage(new) = RowStage(old) /\ next # "SuccessorCreated" /\ next # "Completed"
  BY <1>1, <1>4, <1>6, SeenUnchanged, Promised
<1>7. CASE RowStage(old) = "preparing" /\ RowStage(new) = "introduced"
             /\ next = "SuccessorCreated"
  <2>1. s \in Sessions
    BY <1>1, <1>2, <1>7 DEF Settable, ChosenSuccessor, OperationRows
  <2>2. PICK c \in Sessions : c = s
    BY <2>1
  <2>3. Handover!Introduce(o, c)
    BY <1>1, <1>3, <1>7, <2>2, Promised
  <2>4. QED
    BY <2>3 DEF Handover!HandoverNext
<1>8. CASE RowStage(old) = "introduced" /\ RowStage(new) = "acknowledged"
             /\ next = "Acknowledged"
  <2>1. Handover!Acknowledged(o)
    BY <1>1, <1>3, <1>4, <1>8, Promised
  <2>2. QED
    BY <2>1 DEF Handover!HandoverNext
<1>9. CASE RowStage(old) = "acknowledged" /\ RowStage(new) = "published"
             /\ next = "Completed"
  <2>1. Handover!Publish(o)
    BY <1>1, <1>3, <1>4, <1>9, Promised
  <2>2. QED
    BY <2>1 DEF Handover!HandoverNext
<1>10. CASE /\ RowStage(old) \notin { "none", "published", "giving up", "given up" }
            /\ RowStage(new) = "giving up"
            /\ next \in { "FailedRecoverable", "Cancelling" }
  <2>1. Handover!GiveUp(o)
    BY <1>1, <1>3, <1>4, <1>10, Promised
  <2>2. QED
    BY <2>1 DEF Handover!HandoverNext
<1>11. CASE /\ RowStage(old) = "giving up" /\ RowStage(new) = "given up"
            /\ next = "Cancelled"
  <2>1. Handover!GiveUp(o)
    BY <1>1, <1>3, <1>4, <1>11, Promised
  <2>2. QED
    BY <2>1 DEF Handover!HandoverNext
<1>12. QED
  <2>1. \/ RowStage(new) = RowStage(old) /\ next # "SuccessorCreated" /\ next # "Completed"
        \/ RowStage(old) = "preparing" /\ RowStage(new) = "introduced"
             /\ next = "SuccessorCreated"
        \/ RowStage(old) = "introduced" /\ RowStage(new) = "acknowledged"
             /\ next = "Acknowledged"
        \/ RowStage(old) = "acknowledged" /\ RowStage(new) = "published"
             /\ next = "Completed"
        \/ /\ RowStage(old) \notin { "none", "published", "giving up", "given up" }
           /\ RowStage(new) = "giving up"
           /\ next \in { "FailedRecoverable", "Cancelling" }
        \/ RowStage(old) = "giving up" /\ RowStage(new) = "given up" /\ next = "Cancelled"
    BY <1>1, <1>2, <1>5, SeenOfMove, ZenonT(40)
  <2>2. QED
    BY <2>1, <1>6, <1>7, <1>8, <1>9, <1>10, <1>11

\* Every transaction of the repository is a step of the promise, or not seen.
LEMMA StepIsPromised ==
  ASSUME IInv, [RepositoryNext]_repositoryVars
  PROVE  [Handover!HandoverNext]_(Handover!handoverVars)
<1>1. CASE UNCHANGED repositoryVars
  <2>1. UNCHANGED << Stages, Successors, activeSession >>
    BY <1>1 DEF repositoryVars, Stages, Successors, HandoverStage, Exists, OnItsWay, Stage
  <2>2. QED
    BY <2>1, Promised
<1>2. ASSUME NEW r \in Requests, CreateOperation(r) \/ StoreHandoff(r),
             ~UNCHANGED repositoryVars
      PROVE  [Handover!HandoverNext]_(Handover!handoverVars)
  <2> DEFINE o == r.operation
  <2>1. CreateOperation(r)
    BY <1>2, StoreMovesNothing
  <2>2. /\ o \in Operations /\ ~Exists(o) /\ ActiveOperations = {} /\ OnlyRow(o)
        /\ operations'[o] = CreatedRow(r) /\ CreatedRow(r) # None
        /\ activeSession' = activeSession
    BY <1>2, <2>1, CreateMoves
  <2>3. /\ RowStage(operations'[o]) = "preparing" /\ RowSuccessor(operations'[o]) = None
        /\ RowStage(operations[o]) = "none" /\ RowSuccessor(operations[o]) = None
    BY <2>2 DEF RowStage, RowSuccessor, CreatedRow, OnItsWay, Stage, Exists
  <2>4. /\ Stages' = [Stages EXCEPT ![o] = "preparing"] /\ Successors' = Successors
        /\ Stages[o] = "none"
    BY <2>2, <2>3, SeenOfOneRow, SeenUnchanged, SeenByRows
  <2>5. Handover!Open = {}
    BY <2>2, OpenAreActive, Promised DEF Handover!Open
  <2>6. Handover!Begin(o)
    BY <2>2, <2>4, <2>5, Promised
  <2>7. QED
    BY <2>2, <2>6 DEF Handover!HandoverNext
<1>3. ASSUME NEW o \in Operations, NEW ack \in Acknowledgements, Acknowledge(o, ack),
             ~UNCHANGED repositoryVars
      PROVE  [Handover!HandoverNext]_(Handover!handoverVars)
  <2>1. /\ Exists(o) /\ operations[o].state = "BootstrapSending" /\ OnlyRow(o)
        /\ operations'[o] # None /\ operations'[o].state = "Acknowledged"
        /\ operations'[o].successor = operations[o].successor
        /\ activeSession' = activeSession
    BY <1>3, AcknowledgeMoves
  <2>2. /\ RowStage(operations'[o]) = "acknowledged"
        /\ RowStage(operations[o]) = "introduced"
        /\ RowSuccessor(operations'[o]) = RowSuccessor(operations[o])
    BY <2>1 DEF RowStage, RowSuccessor, OnItsWay, Stage, Exists
  <2>3. Handover!Acknowledged(o)
    BY <2>1, <2>2, SeenOfOneRow, SeenUnchanged, SeenByRows, Promised
  <2>4. QED
    BY <2>3 DEF Handover!HandoverNext
<1>4. ASSUME NEW o \in Operations, NEW resume \in RetryResumeStates, RecordRetry(o, resume)
      PROVE  [Handover!HandoverNext]_(Handover!handoverVars)
  <2>1. /\ Exists(o) /\ OnlyRow(o) /\ Stage(operations[o]) = resume
        /\ operations[o].state \in RetryResumeStates \cup {"RetryWait"}
        /\ operations'[o].state = "RetryWait" /\ operations'[o].retryResume = resume
        /\ operations'[o].successor = operations[o].successor
        /\ activeSession' = activeSession
    BY <1>4, RetryMoves
  <2>2. operations'[o] # None
    BY <1>4, <2>1, RetryKeeps DEF IInv, HandoffWithOperation, Exists, RecordRetry
  <2>3. /\ RowStage(operations'[o]) = RowStage(operations[o])
        /\ RowSuccessor(operations'[o]) = RowSuccessor(operations[o])
    BY <2>1, <2>2 DEF RowStage, RowSuccessor, OnItsWay, Stage, Exists, RetryResumeStates
  <2>4. QED
    BY <2>1, <2>3, SeenUnchanged, Promised
<1>5. CASE ResetContinuity
  <2>1. Handover!Forget
    BY <1>5 DEF ResetContinuity, Handover!Forget, HandoverStage, Exists
  <2>2. QED
    BY <2>1 DEF Handover!HandoverNext
<1>6. CASE RetryTimePasses
  <2>1. \A o \in Operations :
          /\ RowStage(operations'[o]) = RowStage(operations[o])
          /\ RowSuccessor(operations'[o]) = RowSuccessor(operations[o])
    BY <1>6, TimeMovesNothing DEF RowStage, RowSuccessor, OnItsWay, Stage, Exists
  <2>2. \A o \in Operations : Stages'[o] = Stages[o] /\ Successors'[o] = Successors[o]
    BY <2>1, SeenByRows
  <2>3. Stages' = Stages /\ Successors' = Successors
    BY <2>2 DEF Stages, Successors
  <2>4. QED
    BY <1>6, <2>3, Promised DEF RetryTimePasses
<1>7. ASSUME NEW o \in Operations, NEW next \in ContinuityStates,
             NEW successor \in Sessions \cup {None}, Exists(o),
             CompareAndSet(o, operations[o].state, next, successor)
      PROVE  [Handover!HandoverNext]_(Handover!handoverVars)
  BY <1>1, <1>7, SetIsPromised
<1>8. QED
  BY <1>1, <1>2, <1>3, <1>4, <1>5, <1>6, <1>7 DEF RepositoryNext

\* The rollover tables keep the promise: seen as stages, successors and the active session,
\* every behaviour of the repository is one of SessionHandover.
THEOREM RepositoryImplementsHandover == RepositorySpec => ImplementsHandover
<1>1. RepositoryInit => Handover!HandoverInit
  BY DEF RepositoryInit, Handover!HandoverInit, HandoverStage, Exists
<1>2. IInv /\ [RepositoryNext]_repositoryVars
        => [Handover!HandoverNext]_(Handover!handoverVars)
  BY StepIsPromised
<1>3. QED
  BY <1>1, <1>2, RepositoryInvariant, PTL
  DEF RepositorySpec, ImplementsHandover, Handover!HandoverSpec

================================================================================

---------------------- MODULE ContinuityRepository_proofs ----------------------
(***************************************************************************)
(* What the repository promises to any callers, for every set of ids and   *)
(* every transition bound.  The inductive invariant adds to the checked    *)
(* ones that an acknowledgement, once on a row, names the recorded         *)
(* successor on both tables: sealing only compares the row's two columns,  *)
(* so what the handoff table holds has to be carried along from the        *)
(* acknowledgement itself.                                                 *)
(***************************************************************************)
EXTENDS ContinuityRepository, TLAPS

\* An acknowledgement names the recorded successor, on both tables.
AcknowledgementExact ==
  \A o \in Operations :
    Exists(o) /\ operations[o].acknowledged # None =>
      /\ operations[o].acknowledged = operations[o].successor
      /\ handoffs[o] # None
      /\ handoffs[o].acknowledged = operations[o].successor

IInv ==
  /\ TypeOK
  /\ OneActiveOperation
  /\ AttemptBound
  /\ HandoffWithOperation
  /\ AcknowledgementExact
  /\ SuccessorBound
  /\ SealedOnlyAcknowledged
  /\ PointerIsAcknowledged

USE MaxTransitionsAssumption, NoneAssumption

--------------------------------------------------------------------------------
\* No row has just been made: every part of the invariant holds of empty tables.
LEMMA InitEstablishes == RepositoryInit => IInv
  BY DEF RepositoryInit, IInv, TypeOK, OneActiveOperation, AttemptBound,
         HandoffWithOperation, AcknowledgementExact, SuccessorBound,
         SealedOnlyAcknowledged, PointerIsAcknowledged, Exists, ActiveOperations

\* The invariant only reads the tables.
LEMMA StutterKeeps == IInv /\ UNCHANGED repositoryVars => IInv'
  BY DEF IInv, TypeOK, OneActiveOperation, AttemptBound, HandoffWithOperation,
         AcknowledgementExact, SuccessorBound, SealedOnlyAcknowledged,
         PointerIsAcknowledged, Exists, ActiveOperations, Stage, repositoryVars

\* Creating an operation adds the only active row, and its handoff with it.
LEMMA CreateKeeps ==
  ASSUME IInv, NEW r \in Requests, CreateOperation(r)
  PROVE  IInv'
<1>1. CASE UNCHANGED repositoryVars
  BY <1>1, StutterKeeps
<1>2. CASE CreateInserts(r) /\ ~UNCHANGED repositoryVars
  <2> DEFINE o == r.operation
             h == [ content |-> r.content, successor |-> r.successor,
                    acknowledged |-> None ]
  <2>1. /\ operations' = [operations EXCEPT ![o] = CreatedRow(r)]
        /\ handoffs' = [handoffs EXCEPT ![o] = h]
        /\ activeSession' = activeSession
    BY <1>2 DEF CreateOperation, CreateFinds, repositoryVars
  <2>2. o \in Operations /\ CreatedRow(r) \in OperationRows /\ h \in HandoffRows
    BY DEF Requests, CreatedRow, OperationRows, HandoffRows, ContinuityStates
  <2>3. TypeOK /\ ~Exists(o) /\ ActiveOperations = {}
    BY <1>2 DEF IInv, CreateInserts
  <2>4. TypeOK'
    BY <2>1, <2>2, <2>3 DEF TypeOK
  <2>5. operations'[o] = CreatedRow(r) /\ handoffs'[o] = h
    BY <2>1, <2>2, <2>3 DEF TypeOK
  <2>6. \A p \in Operations \ {o} :
          operations'[p] = operations[p] /\ handoffs'[p] = handoffs[p]
    BY <2>1, <2>3 DEF TypeOK
  <2>7. CreatedRow(r) # None /\ h # None
    BY <2>2
  <2>8. OneActiveOperation'
    <3>1. \A p \in Operations \ {o} : p \notin ActiveOperations'
      BY <2>3, <2>6 DEF ActiveOperations, Exists
    <3>2. QED
      BY <3>1 DEF OneActiveOperation, ActiveOperations
  <2>9. AttemptBound' /\ HandoffWithOperation' /\ AcknowledgementExact'
    BY <2>5, <2>6, <2>7 DEF IInv, AttemptBound, HandoffWithOperation,
       AcknowledgementExact, Exists, CreatedRow
  <2>10. SuccessorBound' /\ SealedOnlyAcknowledged'
    BY <2>5, <2>6, <2>7 DEF IInv, SuccessorBound, SealedOnlyAcknowledged,
       Exists, CreatedRow, Stage, SealingStates
  <2>11. PointerIsAcknowledged'
    BY <2>1, <2>3, <2>6 DEF IInv, PointerIsAcknowledged, Exists
  <2>12. QED
    BY <2>4, <2>8, <2>9, <2>10, <2>11 DEF IInv
<1>3. QED
  BY <1>1, <1>2 DEF CreateOperation

\* storeHandoff finds the handoff that came with the operation, and leaves it.
LEMMA StoreKeeps ==
  ASSUME IInv, NEW r \in Requests, StoreHandoff(r)
  PROVE  IInv'
<1>1. r.operation \in Operations
  BY DEF Requests
<1>2. handoffs[r.operation] # None
  BY <1>1 DEF IInv, HandoffWithOperation, StoreHandoff, HandoffStorable
<1>3. handoffs' = handoffs
  BY <1>1, <1>2 DEF StoreHandoff, IInv, TypeOK
<1>4. QED
  BY <1>3, StutterKeeps DEF StoreHandoff, repositoryVars

--------------------------------------------------------------------------------
\* An ended row admits no transition, and no transition starts one.
LEMMA TransitionFacts ==
  ASSUME NEW from \in ContinuityStates, NEW to \in ContinuityStates,
         AllowedTransition(from, to)
  PROVE  /\ from \notin TerminalStates
         /\ to # "Idle"
         /\ to = "Completed" => from = "PredecessorSealing"
         /\ to = "SuccessorCreated" => from = "SuccessorCreating"
         /\ to = "BootstrapSending" => from \in { "SuccessorCreated", "RetryWait" }
         /\ to = "Acknowledged" => from = "BootstrapSending"
         /\ to = "PredecessorSealing" => from \in { "Acknowledged", "RetryWait" }
  BY DEF AllowedTransition, ForwardEdges, TerminalStates, RetryResumeStates

\* compareAndSet moves one unfinished row along an allowed transition.
LEMMA SetKeeps ==
  ASSUME IInv,
         NEW o \in Operations,
         NEW expected \in ContinuityStates, NEW next \in ContinuityStates,
         NEW successor \in Sessions \cup {None},
         CompareAndSet(o, expected, next, successor)
  PROVE  IInv'
<1>1. CASE UNCHANGED repositoryVars
  BY <1>1, StutterKeeps
<1>2. CASE Settable(o, expected, next, successor) /\ ~UNCHANGED repositoryVars
  <2> DEFINE old == operations[o]
             s == ChosenSuccessor(o, successor)
             new == Moved(old, next, 1, s, old.acknowledged, None)
             h == IF next = "SuccessorCreated"
                  THEN [handoffs[o] EXCEPT !.successor = s] ELSE handoffs[o]
  <2>1. /\ operations' = [operations EXCEPT ![o] = new]
        /\ handoffs' = [handoffs EXCEPT ![o] = h]
        /\ activeSession' = IF next = "Completed" THEN s ELSE activeSession
    <3>1. /\ operations' = [operations EXCEPT ![o] = new]
          /\ handoffs' = IF next = "SuccessorCreated"
               THEN [handoffs EXCEPT ![o].successor = s] ELSE handoffs
          /\ activeSession' = IF next = "Completed" THEN s ELSE activeSession
      BY <1>2 DEF CompareAndSet
    <3>2. handoffs \in [Operations -> HandoffRows \cup {None}]
      BY DEF IInv, TypeOK
    <3>3. handoffs' = [handoffs EXCEPT ![o] = h]
      BY <3>1, <3>2
    <3>4. QED
      BY <3>1, <3>3
  <2>2. /\ old # None /\ old \in OperationRows
        /\ handoffs[o] # None /\ handoffs[o] \in HandoffRows
        /\ old.state = expected
        /\ AllowedTransition(expected, next)
        /\ old.attempt < MaxTransitions - 1
        /\ TypeOK
    BY <1>2 DEF Settable, Exists, IInv, TypeOK, HandoffWithOperation
  <2>3. s \in Sessions \cup {None}
    BY <2>2 DEF ChosenSuccessor, OperationRows
  <2>4. new \in OperationRows /\ h \in HandoffRows
    BY <2>2, <2>3 DEF OperationRows, HandoffRows, Moved
  <2>5. operations'[o] = new /\ handoffs'[o] = h /\ new # None /\ h # None
    BY <2>1, <2>2, <2>4 DEF TypeOK
  <2>6. \A p \in Operations \ {o} :
          operations'[p] = operations[p] /\ handoffs'[p] = handoffs[p]
    BY <2>1, <2>2 DEF TypeOK
  <2>7. /\ new.state = next /\ new.successor = s /\ new.retryResume = None
        /\ new.attempt = old.attempt + 1
        /\ new.acknowledged = old.acknowledged
        /\ h.acknowledged = handoffs[o].acknowledged
        /\ next = "SuccessorCreated" => h.successor = s
        /\ next # "SuccessorCreated" => h = handoffs[o]
    BY <2>2 DEF HandoffRows, Moved
  <2> HIDE DEF new, h, s
  <2>8. TypeOK'
    <3>1. activeSession' \in Sessions \cup {None}
      BY <2>1, <2>2, <2>3 DEF TypeOK
    <3>2. QED
      BY <2>1, <2>2, <2>4, <3>1 DEF TypeOK
  <2>9. \A p \in Operations : p \in ActiveOperations' => p \in ActiveOperations
    <3>1. o \in ActiveOperations
      BY <2>2, TransitionFacts DEF ActiveOperations, Exists
    <3>2. QED
      BY <3>1, <2>6 DEF ActiveOperations, Exists
  <2>10. OneActiveOperation'
    BY <2>9 DEF IInv, OneActiveOperation, ActiveOperations
  <2>11. AttemptBound' /\ HandoffWithOperation'
    <3>1. old.attempt \in Int /\ new.attempt < MaxTransitions
      BY <2>2, <2>7 DEF OperationRows
    <3>2. QED
      BY <2>5, <2>6, <3>1 DEF IInv, AttemptBound, HandoffWithOperation, Exists
  <2>12. old.acknowledged # None =>
           s = old.successor /\ old.acknowledged = s
             /\ handoffs[o].acknowledged = s
    BY <1>2, <2>2 DEF s, Settable, LedgerConsistent, IInv, AcknowledgementExact,
                      Exists
  <2>13. AcknowledgementExact'
    BY <2>5, <2>6, <2>7, <2>12 DEF IInv, AcknowledgementExact, Exists
  <2>14. SuccessorBound'
    <3>1. ASSUME Stage(new) \in { "SuccessorCreated", "BootstrapSending",
                    "Acknowledged", "PredecessorSealing", "Completed" }
          PROVE  s # None /\ h.successor = s
      <4>1. CASE next = "SuccessorCreated"
        BY <4>1, <1>2, <2>7 DEF s, Settable
      <4>2. CASE next # "SuccessorCreated"
        <5>1. next \in { "BootstrapSending", "Acknowledged",
                         "PredecessorSealing", "Completed" }
          BY <3>1, <4>2, <2>7, <1>2 DEF Stage, Settable
        <5>2. Stage(old) \in { "SuccessorCreated", "BootstrapSending",
                 "Acknowledged", "PredecessorSealing", "Completed" }
          BY <5>1, <1>2, <2>2, TransitionFacts DEF Stage, Settable
        <5>3. old.successor # None /\ handoffs[o].successor = old.successor
          BY <5>2, <2>2 DEF IInv, SuccessorBound, Exists
        <5>4. s = old.successor
          BY <1>2, <4>2 DEF s, Settable, LedgerConsistent
        <5>5. QED
          BY <5>3, <5>4, <4>2, <2>7
      <4>3. QED
        BY <4>1, <4>2
    <3>2. QED
      <4>1. SUFFICES ASSUME NEW p \in Operations, Exists(p)',
                            Stage(operations'[p]) \in
                              { "SuccessorCreated", "BootstrapSending",
                                "Acknowledged", "PredecessorSealing", "Completed" }
                     PROVE  /\ operations'[p].successor # None
                            /\ handoffs'[p] # None
                            /\ handoffs'[p].successor = operations'[p].successor
        BY DEF SuccessorBound, Stage
      <4>2. CASE p = o
        BY <4>1, <4>2, <2>5, <2>7, <3>1
      <4>3. CASE p # o
        BY <4>1, <4>3, <2>6 DEF IInv, SuccessorBound, Exists
      <4>4. QED
        BY <4>2, <4>3
  <2>15. SealedOnlyAcknowledged'
    <3>1. ASSUME Stage(new) \in SealingStates
          PROVE  /\ new.acknowledged # None
                 /\ new.acknowledged = s
                 /\ h.acknowledged = s
      <4>1. next \in SealingStates
        BY <3>1, <2>7, <1>2 DEF Stage, Settable, SealingStates
      <4>2. old.acknowledged # None /\ old.acknowledged = s
        BY <4>1, <1>2 DEF s, Settable, ExactlyAcknowledged
      <4>3. QED
        BY <4>2, <2>7, <2>12
    <3>2. QED
      <4>1. SUFFICES ASSUME NEW p \in Operations, Exists(p)',
                            Stage(operations'[p]) \in SealingStates
                     PROVE  /\ operations'[p].acknowledged # None
                            /\ operations'[p].acknowledged = operations'[p].successor
                            /\ handoffs'[p] # None
                            /\ handoffs'[p].acknowledged = operations'[p].successor
        BY DEF SealedOnlyAcknowledged, Stage
      <4>2. CASE p = o
        BY <4>1, <4>2, <2>5, <2>7, <3>1
      <4>3. CASE p # o
        BY <4>1, <4>3, <2>6 DEF IInv, SealedOnlyAcknowledged, Exists
      <4>4. QED
        BY <4>2, <4>3
  <2>16. PointerIsAcknowledged'
    <3>1. CASE next = "Completed"
      <4>1. old.acknowledged # None /\ old.acknowledged = s
        BY <3>1, <1>2 DEF s, Settable, ExactlyAcknowledged, SealingStates
      <4>2. QED
        BY <3>1, <4>1, <2>1, <2>5, <2>7 DEF PointerIsAcknowledged, Exists
    <3>2. CASE next # "Completed"
      <4>1. activeSession' = activeSession
        BY <3>2, <2>1
      <4>2. old.state # "Completed"
        BY <2>2, TransitionFacts DEF TerminalStates
      <4>3. QED
        BY <4>1, <4>2, <2>6 DEF IInv, PointerIsAcknowledged, Exists
    <3>3. QED
      BY <3>1, <3>2
  <2>17. QED
    BY <2>8, <2>10, <2>11, <2>13, <2>14, <2>15, <2>16 DEF IInv
<1>3. QED
  BY <1>1, <1>2 DEF CompareAndSet

--------------------------------------------------------------------------------
\* acknowledge writes the recorded successor on both tables and moves the row on.
LEMMA AcknowledgeKeeps ==
  ASSUME IInv, NEW o \in Operations, NEW ack \in Acknowledgements,
         Acknowledge(o, ack)
  PROVE  IInv'
<1>1. CASE UNCHANGED repositoryVars
  BY <1>1, StutterKeeps
<1>2. CASE ~UNCHANGED repositoryVars
  <2> DEFINE old == operations[o]
             new == Moved(old, "Acknowledged", 1, old.successor, ack.successor,
                          None)
             h == [handoffs[o] EXCEPT !.acknowledged = ack.successor]
  <2>1. /\ operations' = [operations EXCEPT ![o] = new]
        /\ handoffs' = [handoffs EXCEPT ![o] = h]
        /\ activeSession' = activeSession
        /\ Acknowledgeable(o, ack)
    BY <1>2 DEF Acknowledge, AcknowledgeAccepts, repositoryVars, IInv, TypeOK
  <2>2. /\ old # None /\ old \in OperationRows
        /\ handoffs[o] # None /\ handoffs[o] \in HandoffRows
        /\ TypeOK
    BY DEF Acknowledge, AcknowledgeAccepts, Exists, IInv, TypeOK
  <2>3. /\ old.state = "BootstrapSending"
        /\ old.attempt < MaxTransitions - 1 /\ old.attempt \in Nat
        /\ ack.successor \in Sessions
        /\ ack.successor = old.successor
        /\ handoffs[o].successor = old.successor
    BY <2>1, <2>2 DEF Acknowledgeable, Acknowledge, AcknowledgeAccepts,
       ValidAcknowledgement, Acknowledgements, OperationRows
  <2>4. new \in OperationRows /\ h \in HandoffRows
    BY <2>2, <2>3 DEF OperationRows, HandoffRows, Moved, ContinuityStates
  <2>5. operations'[o] = new /\ handoffs'[o] = h /\ new # None /\ h # None
    BY <2>1, <2>2, <2>4 DEF TypeOK
  <2>6. \A p \in Operations \ {o} :
          operations'[p] = operations[p] /\ handoffs'[p] = handoffs[p]
    BY <2>1, <2>2 DEF TypeOK
  <2>7. /\ new.state = "Acknowledged" /\ new.successor = old.successor
        /\ new.attempt = old.attempt + 1
        /\ new.acknowledged = old.successor
        /\ h.acknowledged = old.successor
        /\ h.successor = old.successor
        /\ old.successor # None
    BY <2>2, <2>3 DEF HandoffRows, Moved
  <2> HIDE DEF new, h
  <2>8. TypeOK'
    BY <2>1, <2>2, <2>4 DEF TypeOK
  <2>9. OneActiveOperation'
    <3>1. o \in ActiveOperations
      BY <2>2, <2>3 DEF ActiveOperations, Exists, TerminalStates
    <3>2. \A p \in Operations : p \in ActiveOperations' => p \in ActiveOperations
      BY <3>1, <2>6 DEF ActiveOperations, Exists
    <3>3. QED
      BY <3>2 DEF IInv, OneActiveOperation, ActiveOperations
  <2>10. AttemptBound' /\ HandoffWithOperation'
    BY <2>3, <2>5, <2>6, <2>7 DEF IInv, AttemptBound, HandoffWithOperation, Exists
  <2>11. AcknowledgementExact'
    BY <2>5, <2>6, <2>7 DEF IInv, AcknowledgementExact, Exists
  <2>12. SuccessorBound'
    BY <2>5, <2>6, <2>7 DEF IInv, SuccessorBound, Exists, Stage
  <2>13. SealedOnlyAcknowledged'
    BY <2>5, <2>6, <2>7 DEF IInv, SealedOnlyAcknowledged, Exists, Stage
  <2>14. PointerIsAcknowledged'
    BY <2>1, <2>3, <2>6 DEF IInv, PointerIsAcknowledged, Exists
  <2>15. QED
    BY <2>8, <2>9, <2>10, <2>11, <2>12, <2>13, <2>14 DEF IInv
<1>3. QED
  BY <1>1, <1>2

\* recordRetry keeps the stage the row stands at, and takes two transitions.
LEMMA RetryKeeps ==
  ASSUME IInv, NEW o \in Operations, NEW resume \in RetryResumeStates,
         RecordRetry(o, resume)
  PROVE  IInv'
<1> DEFINE old == operations[o]
<1>1. /\ old # None /\ old \in OperationRows /\ TypeOK
      /\ handoffs' = handoffs /\ activeSession' = activeSession
  BY DEF RecordRetry, RefreshesRetry, EntersRetry, Exists, IInv, TypeOK
<1>2. PICK new \in OperationRows :
        /\ operations' = [operations EXCEPT ![o] = new]
        /\ new.state = "RetryWait" /\ new.retryResume = resume
        /\ Stage(old) = resume /\ old.state \notin TerminalStates
        /\ new.successor = old.successor
        /\ new.acknowledged = old.acknowledged
        /\ new.attempt < MaxTransitions
  <2>1. CASE RefreshesRetry(o, resume)
               /\ operations' = [operations EXCEPT ![o].retryDue = FALSE]
    <3> DEFINE new == [old EXCEPT !.retryDue = FALSE]
    <3>1. operations' = [operations EXCEPT ![o] = new]
      BY <2>1, <1>1 DEF TypeOK
    <3>2. new \in OperationRows /\ old.attempt < MaxTransitions
      BY <1>1 DEF OperationRows, IInv, AttemptBound, Exists
    <3>3. QED
      BY <3>1, <3>2, <2>1, <1>1 DEF RefreshesRetry, OperationRows, Stage,
         TerminalStates
  <2>2. CASE EntersRetry(o, resume)
               /\ operations' = [operations EXCEPT ![o] =
                    Moved(old, "RetryWait", 2, old.successor, old.acknowledged,
                          resume)]
    <3> DEFINE new == Moved(old, "RetryWait", 2, old.successor,
                            old.acknowledged, resume)
    <3>1. operations' = [operations EXCEPT ![o] = new]
      BY <2>2
    <3>2. /\ old.attempt \in Nat /\ old.attempt + 2 < MaxTransitions
          /\ old.state = resume
      BY <2>2, <1>1 DEF EntersRetry, OperationRows
    <3>3. new \in OperationRows
      BY <3>2, <1>1 DEF OperationRows, ContinuityStates, Moved
    <3>4. /\ new.state = "RetryWait" /\ new.retryResume = resume
          /\ new.successor = old.successor
          /\ new.acknowledged = old.acknowledged
          /\ new.attempt < MaxTransitions
      BY <3>2, <1>1 DEF Moved
    <3>5. Stage(old) = resume /\ old.state \notin TerminalStates
      BY <3>2 DEF Stage, RetryResumeStates, TerminalStates
    <3>6. QED
      BY <3>1, <3>3, <3>4, <3>5
  <2>3. QED
    BY <2>1, <2>2 DEF RecordRetry
<1>3. operations'[o] = new /\ new # None
  BY <1>1, <1>2 DEF TypeOK
<1>4. \A p \in Operations \ {o} : operations'[p] = operations[p]
  BY <1>1, <1>2 DEF TypeOK
<1>5. Stage(new) = Stage(old)
  BY <1>2 DEF Stage
<1>6. TypeOK'
  BY <1>1, <1>2 DEF TypeOK
<1>7. OneActiveOperation'
  <2>1. \A p \in Operations : p \in ActiveOperations' => p \in ActiveOperations
    BY <1>1, <1>2, <1>4 DEF ActiveOperations, Exists
  <2>2. QED
    BY <2>1 DEF IInv, OneActiveOperation, ActiveOperations
<1>8. AttemptBound' /\ HandoffWithOperation' /\ AcknowledgementExact'
  BY <1>1, <1>2, <1>3, <1>4 DEF IInv, AttemptBound, HandoffWithOperation,
     AcknowledgementExact, Exists
<1>9. SuccessorBound'
  <2>1. SUFFICES ASSUME NEW p \in Operations, Exists(p)',
                        Stage(operations'[p]) \in
                          { "SuccessorCreated", "BootstrapSending",
                            "Acknowledged", "PredecessorSealing", "Completed" }
                 PROVE  /\ operations'[p].successor # None
                        /\ handoffs'[p] # None
                        /\ handoffs'[p].successor = operations'[p].successor
    BY DEF SuccessorBound, Stage
  <2>2. CASE p = o
    BY <1>1, <1>2, <1>3, <1>5, <2>1, <2>2 DEF IInv, SuccessorBound, Exists
  <2>3. CASE p # o
    BY <1>1, <1>4, <2>1, <2>3 DEF IInv, SuccessorBound, Exists
  <2>4. QED
    BY <2>2, <2>3
<1>10. SealedOnlyAcknowledged'
  <2>1. SUFFICES ASSUME NEW p \in Operations, Exists(p)',
                        Stage(operations'[p]) \in SealingStates
                 PROVE  /\ operations'[p].acknowledged # None
                        /\ operations'[p].acknowledged = operations'[p].successor
                        /\ handoffs'[p] # None
                        /\ handoffs'[p].acknowledged = operations'[p].successor
    BY DEF SealedOnlyAcknowledged, Stage
  <2>2. CASE p = o
    BY <1>1, <1>2, <1>3, <1>5, <2>1, <2>2 DEF IInv, SealedOnlyAcknowledged, Exists
  <2>3. CASE p # o
    BY <1>1, <1>4, <2>1, <2>3 DEF IInv, SealedOnlyAcknowledged, Exists
  <2>4. QED
    BY <2>2, <2>3
<1>11. PointerIsAcknowledged'
  <2>1. old.state # "Completed"
    BY <1>2 DEF TerminalStates
  <2>2. QED
    BY <2>1, <1>1, <1>4 DEF IInv, PointerIsAcknowledged, Exists
<1>12. QED
  BY <1>6, <1>7, <1>8, <1>9, <1>10, <1>11 DEF IInv

--------------------------------------------------------------------------------
\* A reset leaves the tables as they began.
LEMMA ResetKeeps == IInv /\ ResetContinuity => IInv'
  BY DEF ResetContinuity, IInv, TypeOK, OneActiveOperation, AttemptBound,
         HandoffWithOperation, AcknowledgementExact, SuccessorBound,
         SealedOnlyAcknowledged, PointerIsAcknowledged, Exists, ActiveOperations

\* Time only makes waiting rows due.
LEMMA TimeKeeps ==
  ASSUME IInv, RetryTimePasses
  PROVE  IInv'
<1> DEFINE Due(p) == [operations[p] EXCEPT !.retryDue = TRUE]
           Waits(p) == Exists(p) /\ operations[p].state = "RetryWait"
<1>1. /\ operations' = [p \in Operations |->
                          IF Waits(p) THEN Due(p) ELSE operations[p]]
      /\ handoffs' = handoffs /\ activeSession' = activeSession /\ TypeOK
  BY DEF RetryTimePasses, IInv
<1>2. \A p \in Operations : Exists(p) =>
        /\ operations[p] \in OperationRows
        /\ Due(p) \in OperationRows
        /\ Due(p).state = operations[p].state
        /\ Due(p).retryResume = operations[p].retryResume
        /\ Due(p).attempt = operations[p].attempt
        /\ Due(p).successor = operations[p].successor
        /\ Due(p).acknowledged = operations[p].acknowledged
  BY <1>1 DEF TypeOK, Exists, OperationRows
<1> HIDE DEF Due
<1>3. \A p \in Operations :
        /\ Exists(p)' <=> Exists(p)
        /\ Exists(p) =>
             /\ operations'[p].state = operations[p].state
             /\ operations'[p].retryResume = operations[p].retryResume
             /\ operations'[p].attempt = operations[p].attempt
             /\ operations'[p].successor = operations[p].successor
             /\ operations'[p].acknowledged = operations[p].acknowledged
             /\ Stage(operations'[p]) = Stage(operations[p])
  BY <1>1, <1>2 DEF Exists, Stage
<1>4. TypeOK'
  BY <1>1, <1>2 DEF TypeOK
<1>5. OneActiveOperation' /\ AttemptBound' /\ HandoffWithOperation'
  BY <1>1, <1>3 DEF IInv, OneActiveOperation, ActiveOperations, AttemptBound,
     HandoffWithOperation
<1>6. AcknowledgementExact' /\ PointerIsAcknowledged'
  BY <1>1, <1>3 DEF IInv, AcknowledgementExact, PointerIsAcknowledged
<1>7. SuccessorBound' /\ SealedOnlyAcknowledged'
  BY <1>1, <1>3 DEF IInv, SuccessorBound, SealedOnlyAcknowledged
<1>8. QED
  BY <1>4, <1>5, <1>6, <1>7 DEF IInv

--------------------------------------------------------------------------------
\* Every transaction of the repository keeps the invariant.
LEMMA StepKeeps == IInv /\ [RepositoryNext]_repositoryVars => IInv'
<1>1. SUFFICES ASSUME IInv, RepositoryNext PROVE IInv'
  BY StutterKeeps
<1>2. CASE \E r \in Requests : CreateOperation(r) \/ StoreHandoff(r)
  BY <1>1, <1>2, CreateKeeps, StoreKeeps
<1>3. CASE \E o \in Operations, next \in ContinuityStates,
             successor \in Sessions \cup {None} :
             Exists(o) /\ CompareAndSet(o, operations[o].state, next, successor)
  <2>1. \A o \in Operations : Exists(o) => operations[o].state \in ContinuityStates
    BY <1>1 DEF IInv, TypeOK, Exists, OperationRows
  <2>2. QED
    BY <1>1, <1>3, <2>1, SetKeeps
<1>4. CASE \E o \in Operations, ack \in Acknowledgements : Acknowledge(o, ack)
  BY <1>1, <1>4, AcknowledgeKeeps
<1>5. CASE \E o \in Operations, resume \in RetryResumeStates :
             RecordRetry(o, resume)
  BY <1>1, <1>5, RetryKeeps
<1>6. CASE ResetContinuity
  BY <1>1, <1>6, ResetKeeps
<1>7. CASE RetryTimePasses
  BY <1>1, <1>7, TimeKeeps
<1>8. QED
  BY <1>1, <1>2, <1>3, <1>4, <1>5, <1>6, <1>7 DEF RepositoryNext

\* The invariant holds in every reachable state.
THEOREM RepositoryInvariant == RepositorySpec => []IInv
  BY InitEstablishes, StepKeeps, PTL DEF RepositorySpec

\* Callers of any number and any arguments keep the tables well typed.
THEOREM RepositoryTypeCorrect == RepositorySpec => []TypeOK
<1>1. IInv => TypeOK
  BY DEF IInv
<1>2. QED
  BY <1>1, RepositoryInvariant, PTL

\* A project never has two unfinished rollovers.
THEOREM OneActiveOperationAlways == RepositorySpec => []OneActiveOperation
<1>1. IInv => OneActiveOperation
  BY DEF IInv
<1>2. QED
  BY <1>1, RepositoryInvariant, PTL

\* No row outgrows the transition log it is read back against.
THEOREM AttemptBoundAlways == RepositorySpec => []AttemptBound
<1>1. IInv => AttemptBound
  BY DEF IInv
<1>2. QED
  BY <1>1, RepositoryInvariant, PTL

\* A predecessor is sealed only for an exactly acknowledged successor.
THEOREM SealedOnlyAcknowledgedAlways == RepositorySpec => []SealedOnlyAcknowledged
<1>1. IInv => SealedOnlyAcknowledged
  BY DEF IInv
<1>2. QED
  BY <1>1, RepositoryInvariant, PTL

\* The project's session pointer only ever names an acknowledged successor.
THEOREM PointerIsAcknowledgedAlways == RepositorySpec => []PointerIsAcknowledged
<1>1. IInv => PointerIsAcknowledged
  BY DEF IInv
<1>2. QED
  BY <1>1, RepositoryInvariant, PTL

\* From its recording on, the row and the document name the same successor.
THEOREM SuccessorBoundAlways == RepositorySpec => []SuccessorBound
<1>1. IInv => SuccessorBound
  BY DEF IInv
<1>2. QED
  BY <1>1, RepositoryInvariant, PTL

--------------------------------------------------------------------------------
(* Action properties                                                       *)

FinalStep ==
  \A o \in Operations :
    operations[o] # None /\ operations[o].state \in TerminalStates =>
      \/ operations'[o] = operations[o] /\ handoffs'[o] = handoffs[o]
      \/ operations' = [p \in Operations |-> None] /\ activeSession' = None

\* No transaction writes a finished row or the handoff it sealed.
LEMMA StepIsFinal == IInv /\ [RepositoryNext]_repositoryVars => FinalStep
<1>1. SUFFICES ASSUME IInv, RepositoryNext, NEW o \in Operations,
                      operations[o] # None, operations[o].state \in TerminalStates
               PROVE  \/ operations'[o] = operations[o] /\ handoffs'[o] = handoffs[o]
                      \/ /\ operations' = [p \in Operations |-> None]
                         /\ activeSession' = None
  BY DEF FinalStep, repositoryVars
<1>2. TypeOK
  BY <1>1 DEF IInv
<1>3. ASSUME NEW r \in Requests, CreateOperation(r) \/ StoreHandoff(r)
      PROVE  operations'[o] = operations[o] /\ handoffs'[o] = handoffs[o]
  <2>1. CASE r.operation = o
    <3>1. ~CreateInserts(r) /\ ~HandoffStorable(r)
      BY <1>1, <2>1 DEF CreateInserts, HandoffStorable, Exists, TerminalStates
    <3>2. QED
      BY <1>3, <3>1 DEF CreateOperation, StoreHandoff, repositoryVars
  <2>2. CASE r.operation # o
    BY <1>2, <1>3, <2>2 DEF CreateOperation, StoreHandoff, repositoryVars, TypeOK
  <2>3. QED
    BY <2>1, <2>2
<1>4. ASSUME NEW p \in Operations, NEW next \in ContinuityStates,
             NEW successor \in Sessions \cup {None},
             CompareAndSet(p, operations[p].state, next, successor)
      PROVE  operations'[o] = operations[o] /\ handoffs'[o] = handoffs[o]
  <2>1. CASE p = o
    <3>1. ~Settable(p, operations[p].state, next, successor)
      BY <1>1, <2>1 DEF Settable, AllowedTransition
    <3>2. QED
      BY <1>4, <3>1 DEF CompareAndSet, repositoryVars
  <2>2. CASE p # o
    BY <1>2, <1>4, <2>2 DEF CompareAndSet, repositoryVars, TypeOK
  <2>3. QED
    BY <2>1, <2>2
<1>5. ASSUME NEW p \in Operations, NEW ack \in Acknowledgements, Acknowledge(p, ack)
      PROVE  operations'[o] = operations[o] /\ handoffs'[o] = handoffs[o]
  <2>1. CASE p = o
    <3>1. ~Acknowledgeable(p, ack)
      BY <1>1, <2>1 DEF Acknowledgeable, TerminalStates
    <3>2. QED
      BY <1>5, <3>1 DEF Acknowledge, AcknowledgeAccepts, repositoryVars
  <2>2. CASE p # o
    BY <1>2, <1>5, <2>2 DEF Acknowledge, repositoryVars, TypeOK
  <2>3. QED
    BY <2>1, <2>2
<1>6. ASSUME NEW p \in Operations, NEW resume \in RetryResumeStates,
             RecordRetry(p, resume)
      PROVE  operations'[o] = operations[o] /\ handoffs'[o] = handoffs[o]
  <2>1. p # o
    BY <1>1, <1>6 DEF RecordRetry, RefreshesRetry, EntersRetry, RetryResumeStates,
       TerminalStates
  <2>2. QED
    BY <1>2, <1>6, <2>1 DEF RecordRetry, TypeOK
<1>7. CASE ResetContinuity
  BY <1>7 DEF ResetContinuity
<1>8. CASE RetryTimePasses
  BY <1>1, <1>8 DEF RetryTimePasses, TerminalStates
<1>9. QED
  BY <1>1, <1>3, <1>4, <1>5, <1>6, <1>7, <1>8 DEF RepositoryNext

\* A finished rollover is never written again, whatever arrives late.
THEOREM FinishedIsFinalAlways == RepositorySpec => FinishedIsFinal
<1>1. IInv /\ [RepositoryNext]_repositoryVars => [FinalStep]_repositoryVars
  BY StepIsFinal
<1>2. QED
  BY <1>1, RepositoryInvariant, PTL DEF RepositorySpec, FinishedIsFinal, FinalStep

================================================================================

---------------------------- MODULE ContinuityModels ----------------------------
(***************************************************************************)
(* The durable continuity vocabulary of Domain/ContinuityModels.cpp: the   *)
(* states of one session rollover ("continuity operation") and the         *)
(* transitions its repository accepts, and the ids its parts share.        *)
(*                                                                         *)
(* Ids, contents and adapters are opaque values.  A canonical handoff      *)
(* document is its content and the successor bound into it; that pair      *)
(* stands for the document's SHA-256.                                      *)
(***************************************************************************)
CONSTANTS
  Operations,       \* continuity operation ids (each with its handoff id)
  Keys,             \* idempotency keys
  Sessions,         \* logical session ids
  Contents,         \* canonical handoff contents, successor aside
  Adapters,         \* session-host adapter ids
  None              \* an absent row or an absent optional

Digests == [ content : Contents, successor : Sessions \cup {None} ]


\* Domain::ContinuityState.
ContinuityStates ==
  { "Idle", "CheckpointPreparing", "CheckpointPersisted", "SuccessorCreating",
    "SuccessorCreated", "BootstrapSending", "Acknowledged",
    "PredecessorSealing", "Completed", "FailedRecoverable", "RetryWait",
    "Cancelling", "Cancelled" }

TerminalStates == { "Completed", "Cancelled" }

\* isRetryResumeState: the states a failed rollover may be resumed in.
RetryResumeStates ==
  { "CheckpointPreparing", "SuccessorCreating", "BootstrapSending",
    "PredecessorSealing" }

\* The forward edges of isAllowedContinuityTransition's switch.
ForwardEdges ==
  { <<"Idle", "CheckpointPreparing">>,
    <<"CheckpointPreparing", "CheckpointPersisted">>,
    <<"CheckpointPersisted", "SuccessorCreating">>,
    <<"SuccessorCreating", "SuccessorCreated">>,
    <<"SuccessorCreated", "BootstrapSending">>,
    <<"BootstrapSending", "Acknowledged">>,
    <<"Acknowledged", "PredecessorSealing">>,
    <<"PredecessorSealing", "Completed">>,
    <<"FailedRecoverable", "RetryWait">>,
    <<"Cancelling", "Cancelled">> }

\* isAllowedContinuityTransition: forward one edge, out of a retry wait into a
\* resumable state, into cancellation from anything that has not ended, and
\* into a recoverable failure from anything still making progress.
AllowedTransition(from, to) ==
  /\ from # to
  /\ from \notin TerminalStates
  /\ \/ to = "Cancelling"
     \/ to = "FailedRecoverable" /\ from \notin { "Cancelling", "RetryWait" }
     \/ <<from, to>> \in ForwardEdges
     \/ from = "RetryWait" /\ to \in RetryResumeStates

\* The states in which an acknowledgement is already durable.
AcknowledgedStates == { "Acknowledged", "PredecessorSealing", "Completed" }

\* compareAndSet demands an exact acknowledgement before entering these.
SealingStates == { "PredecessorSealing", "Completed" }

================================================================================

------------------------ MODULE MCContinuityCoordinator ------------------------
(***************************************************************************)
(* ContinuityCoordinator for TLC: one rollover of one project, its callers *)
(* and the processes they run in.                                          *)
(***************************************************************************)
EXTENDS ContinuityCoordinator, TLC

CONSTANTS p1, p2, h1, h2, o1, k1, c1, c2, s0, native

\* Two callers of one process, or one in each of two.
OneProcess == p1 :> h1 @@ p2 :> h1
TwoProcesses == p1 :> h1 @@ p2 :> h2

\* Two clients that work on one rollover, and a project that may be reset under them.
ResettingClients ==
  p1 :> { "checkpoint", "rollover" } @@ p2 :> { "recover", "reset" }

\* One client, and the Manager's maintenance or another process that recovers.
ClientAndRecovery ==
  p1 :> { "checkpoint", "resume" } @@ p2 :> { "recover" }

\* Two callers that roll over.
RollingClientAndRecovery ==
  p1 :> { "checkpoint", "rollover", "resume" } @@ p2 :> { "recover" }

\* One client acknowledges or gives up what the other rolls over.
AcknowledgingClients ==
  p1 :> { "checkpoint", "rollover" }
    @@ p2 :> { "checkpoint", "resume", "acknowledge", "cancel recovery" }

\* One client, and another that recovers, acknowledges or gives up from another process.
ClientAndOther ==
  p1 :> { "checkpoint", "resume" }
    @@ p2 :> { "checkpoint", "recover", "acknowledge", "cancel recovery" }

Checkpoints(contents) ==
  [ operation : {o1}, key : {k1}, predecessor : {s0}, adapter : {native},
    content : contents, successor : {None} ]

\* One client, or two clients that disagree on what is to be handed over.
OneDocument == Checkpoints({c1})
TwoDocuments == Checkpoints({c1, c2})

\* Successor ids are opaque.
SuccessorSymmetry == Permutations(Sessions \ {s0})

================================================================================

-------------------------- MODULE MCNativeSessionHost --------------------------
(***************************************************************************)
(* NativeSessionHost for TLC: who runs in which process.                   *)
(***************************************************************************)
EXTENDS NativeSessionHost, TLC

CONSTANTS p1, p2, h1, h2

\* Two callers of one process: the calls of one adapter interleave.
OneProcess == p1 :> h1 @@ p2 :> h1

\* One caller in each of two processes sharing the ledger file.
TwoProcesses == p1 :> h1 @@ p2 :> h2

\* Ids are opaque, but for the set of predecessors they belong to.
HostSymmetry ==
  Permutations(Predecessors) \cup Permutations(Sessions \ Predecessors)
    \cup Permutations(Contents)

\* In one process, so are the keys and the callers.
OneProcessSymmetry == HostSymmetry \cup Permutations(Keys) \cup Permutations(Calls)

\* Two processes with one caller each are swapped together with their callers.
TwoProcessesSymmetry ==
  HostSymmetry \cup { p1 :> p2 @@ p2 :> p1 @@ h1 :> h2 @@ h2 :> h1 }

================================================================================

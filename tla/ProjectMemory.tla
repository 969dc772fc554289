----------------------------- MODULE ProjectMemory -----------------------------
(***************************************************************************)
(* ProjectMemoryService over the repository cache it shares with the       *)
(* continuity coordinator.  The service counts its operations in and out   *)
(* and, to shut down, waits for the last one before it shuts the cache     *)
(* down; the coordinator's calls go to the cache uncounted.  A reset       *)
(* commits in the repository, lets its pointer go and has the cache close  *)
(* the repository then.                                                    *)
(*                                                                         *)
(* Abstracted: the registry's descriptor, redaction and what an operation  *)
(* does with the repository it is given.                                   *)
(***************************************************************************)
EXTENDS RepositoryCache

CONSTANT MemoryCallers      \* callers of the service; the others are continuity's

ASSUME MemoryCallersAssumption == MemoryCallers \subseteq Callers

VARIABLES
  accepting,        \* accepting_
  work              \* the operation a caller of the service is admitted with

memoryVars == << cacheVars, accepting, work >>

Jobs ==
  { "none",         \* not admitted
    "operation",    \* an operation that is to open its repository
    "reset",        \* resetOneProject, the same
    "close",        \* closeProject
    "operating",    \* an operation that has asked the cache
    "resetting",    \* a reset that has
    "committed",    \* a reset that has committed
    "closing" }     \* closeProject, or the reset, has asked the cache to close

IdleWork == [job |-> "none", project |-> None]

Sets(c, job) == work' = [work EXCEPT ![c].job = job]

--------------------------------------------------------------------------------
\* admit: the operation is counted until it returns.
Admit(c) ==
  /\ work[c].job = "none"
  /\ accepting
  /\ \E job \in { "operation", "reset", "close" }, p \in Projects :
       work' = [work EXCEPT ![c] = [job |-> job, project |-> p]]
  /\ UNCHANGED << cacheVars, accepting >>

\* openScoped
MemoryOpens(c) ==
  LET p == work[c].project IN
  /\ \/ work[c].job = "operation" /\ Sets(c, "operating")
     \/ work[c].job = "reset" /\ Sets(c, "resetting")
  /\ OpenFinds(c, p) \/ OpenReserves(c, p) \/ OpenEvicts(c, p)
  /\ UNCHANGED accepting

\* A call in the cache runs on.
Proceeds(c) ==
  /\ CallProceeds(c)
  /\ UNCHANGED << accepting, work >>

\* A reset commits, and nothing of it is undone from here on.
ResetCommits(c) ==
  /\ work[c].job = "resetting"
  /\ calls[c].phase = "using"
  /\ Sets(c, "committed")
  /\ UNCHANGED << cacheVars, accepting >>

\* An operation is over; a reset releases its pointer once it has committed, or failed.
MemoryReleases(c) ==
  /\ Release(c)
  /\ UNCHANGED << accepting, work >>

\* close, of closeProject or of the project that was just reset.
MemoryCloses(c) ==
  LET p == work[c].project IN
  /\ \/ work[c].job = "close" /\ Sets(c, "closing")
     \/ work[c].job = "committed" /\ Sets(c, "closing")
  /\ CloseRemoves(c, p)
  /\ UNCHANGED accepting

\* The project has no entry (any more), which counts as closed.
CloseFindsNone(c) ==
  LET p == work[c].project IN
  /\ work[c].job = "committed"
  /\ calls[c].phase = "idle"
  /\ p \notin pending \cup Cached
  /\ Sets(c, "closing")
  /\ UNCHANGED << cacheVars, accepting >>

\* The operation returns: it is over, or was refused, and is not counted any more.
Return(c) ==
  /\ work[c].job # "none"
  /\ calls[c].phase = "idle"
  /\ work' = [work EXCEPT ![c] = IdleWork]
  /\ UNCHANGED << cacheVars, accepting >>

--------------------------------------------------------------------------------
\* Calls of the continuity coordinator.
ContinuityCalls(c) ==
  /\ \/ \E p \in Projects : OpenFinds(c, p) \/ OpenReserves(c, p) \/ OpenEvicts(c, p)
     \/ Release(c)
  /\ UNCHANGED << accepting, work >>

--------------------------------------------------------------------------------
(* shutdown *)

ServiceStops ==
  /\ accepting
  /\ accepting' = FALSE
  /\ UNCHANGED << cacheVars, work >>

\* Mutant: the cache is shut down under the operations that are still going on.
ServiceStopsAtOnce(s) ==
  /\ ~accepting
  /\ StopBegins(s)
  /\ UNCHANGED << accepting, work >>

\* The last operation has returned: the cache is shut down.
ServiceDrained(s) ==
  /\ ~accepting
  /\ \A c \in MemoryCallers : work[c].job = "none"
  /\ StopBegins(s)
  /\ UNCHANGED << accepting, work >>

\* A later shutdown of the cache, which the Manager calls itself.
ShutdownAgain(s) == StopReturns(s) /\ UNCHANGED << accepting, work >>

ShutdownProceeds(s) ==
  /\ StopProceeds(s)
  /\ UNCHANGED << accepting, work >>

--------------------------------------------------------------------------------
MemoryInit ==
  /\ CacheInit
  /\ accepting = TRUE
  /\ work = [c \in MemoryCallers |-> IdleWork]

MemoryNext ==
  \/ \E c \in MemoryCallers :
       \/ Admit(c) \/ MemoryOpens(c) \/ ResetCommits(c) \/ MemoryReleases(c)
       \/ MemoryCloses(c) \/ CloseFindsNone(c) \/ Return(c)
  \/ \E c \in Callers \ MemoryCallers : ContinuityCalls(c)
  \/ \E c \in Callers : Proceeds(c)
  \/ ServiceStops
  \/ \E s \in Stoppers : ServiceDrained(s) \/ ShutdownAgain(s) \/ ShutdownProceeds(s)

\* Operations run on in their threads and end; so does the shutdown.
MemoryFairness ==
  /\ \A c \in Callers : WF_memoryVars(Proceeds(c))
  /\ \A c \in MemoryCallers : WF_memoryVars(MemoryReleases(c)) /\ WF_memoryVars(Return(c))
  /\ \A s \in Stoppers : WF_memoryVars(ServiceDrained(s)) /\ WF_memoryVars(ShutdownProceeds(s))

MemorySpec == MemoryInit /\ [][MemoryNext]_memoryVars /\ MemoryFairness

--------------------------------------------------------------------------------
MemoryTypeOK ==
  /\ CacheTypeOK
  /\ accepting \in BOOLEAN
  /\ work \in [MemoryCallers -> [job : Jobs, project : Projects \cup {None}]]

\* An operation of the service never has its repository closed under it, not by a shutdown
\* either: that waits for the operation.  A continuity call has no such promise.
OperationKeepsRepository ==
  \A c \in MemoryCallers : calls[c].phase = "using" => calls[c].repository \in live

\* Once the service shuts down, whatever its operations, continuity's calls and the opener
\* were doing, the shutdown ends and every repository is closed at last.
ShutdownCloses == ~accepting ~> [](Completed /\ live = {})

================================================================================

-------------------------- MODULE ProjectMemory_proofs --------------------------
(***************************************************************************)
(* Proofs about ProjectMemory: the service and the coordinator use the     *)
(* cache as RepositoryCache allows, so its theorems hold of them, and no   *)
(* shutdown closes a repository under an operation of the service.         *)
(***************************************************************************)
EXTENDS ProjectMemory, RepositoryCache_proofs

\* A caller of the service is in the cache only while it is admitted, and the cache is
\* shut down only after the last one has returned.
Drained ==
  /\ work \in [MemoryCallers -> [job : Jobs, project : Projects \cup {None}]]
  /\ \A c \in MemoryCallers :
       IF work[c].job = "none" THEN calls[c].phase = "idle" ELSE work[c].project \in Projects
  /\ requested => ~accepting /\ \A c \in MemoryCallers : work[c].job = "none"

\* The service moves the cache only by steps of the cache.
LEMMA MemoryStepsCache == Drained /\ [MemoryNext]_memoryVars => [CacheNext]_cacheVars
<1> SUFFICES ASSUME Drained, [MemoryNext]_memoryVars PROVE [CacheNext]_cacheVars
  OBVIOUS
<1> USE MemoryCallersAssumption
<1>1. ASSUME NEW c \in MemoryCallers,
             Admit(c) \/ ResetCommits(c) \/ CloseFindsNone(c) \/ Return(c)
      PROVE  UNCHANGED cacheVars
  BY <1>1 DEF Admit, ResetCommits, CloseFindsNone, Return
<1>2. ASSUME NEW c \in MemoryCallers, MemoryOpens(c) PROVE CacheNext
  <2>1. work[c].project \in Projects
    BY <1>2 DEF MemoryOpens, Drained
  <2> QED
    BY <1>2, <2>1 DEF MemoryOpens, CacheNext, CallEnters
<1>3. ASSUME NEW c \in MemoryCallers, MemoryCloses(c) PROVE CacheNext
  <2>1. work[c].project \in Projects
    BY <1>3 DEF MemoryCloses, Drained
  <2> QED
    BY <1>3, <2>1 DEF MemoryCloses, CacheNext, CallEnters
<1>4. ASSUME NEW c \in MemoryCallers, MemoryReleases(c) PROVE CacheNext
  BY <1>4 DEF MemoryReleases, CacheNext
<1>5. ASSUME NEW c \in Callers \ MemoryCallers, ContinuityCalls(c) PROVE CacheNext
  BY <1>5 DEF ContinuityCalls, CacheNext, CallEnters
<1>6. ASSUME NEW c \in Callers, Proceeds(c) PROVE CacheNext
  BY <1>6 DEF Proceeds, CacheNext
<1>7. ASSUME ServiceStops PROVE UNCHANGED cacheVars
  BY <1>7 DEF ServiceStops
<1>8. ASSUME NEW s \in Stoppers, ServiceDrained(s) \/ ShutdownAgain(s) \/ ShutdownProceeds(s)
      PROVE  CacheNext
  BY <1>8 DEF ServiceDrained, ShutdownAgain, ShutdownProceeds, CacheNext
<1>9. CASE UNCHANGED memoryVars
  BY <1>9 DEF memoryVars
<1> QED
  BY <1>1, <1>2, <1>3, <1>4, <1>5, <1>6, <1>7, <1>8, <1>9 DEF MemoryNext

\* At the start no operation runs.
LEMMA DrainedInit == MemoryInit => Drained
BY MemoryCallersAssumption DEF MemoryInit, CacheInit, Drained, IdleWork, IdleCacheCall, Jobs

\* Every step leaves the shutdown waiting for the operations admitted before it.
LEMMA DrainedStep == CacheInv /\ Drained /\ [MemoryNext]_memoryVars => Drained'
<1> SUFFICES ASSUME CacheInv, Drained, [MemoryNext]_memoryVars PROVE Drained'
  OBVIOUS
<1> USE MemoryCallersAssumption DEF CacheInv, CacheTypeOK, CacheCalls, Drained, Jobs, IdleWork
<1>1. ASSUME NEW c \in MemoryCallers, Admit(c) PROVE Drained'
  BY <1>1 DEF Admit, cacheVars
<1>2. ASSUME NEW c \in MemoryCallers, MemoryOpens(c) PROVE Drained'
  <2>1. ~requested /\ UNCHANGED << requested, accepting >>
    BY <1>2 DEF MemoryOpens, OpenFinds, OpenReserves, OpenEvicts
  <2>2. \A d \in Callers : d # c => calls'[d] = calls[d]
    BY <1>2 DEF MemoryOpens, OpenFinds, OpenReserves, OpenEvicts
  <2>3. work[c].job # "none" /\ work' \in [MemoryCallers -> [job : Jobs, project : Projects \cup {None}]]
    BY <1>2 DEF MemoryOpens, Sets
  <2>4. /\ work'[c].job # "none" /\ work'[c].project = work[c].project
        /\ \A d \in MemoryCallers : d # c => work'[d] = work[d]
    BY <1>2 DEF MemoryOpens, Sets
  <2> HIDE DEF CacheInv, CacheTypeOK, CacheCalls
  <2> QED
    BY <2>1, <2>2, <2>3, <2>4
<1>3. ASSUME NEW c \in MemoryCallers, ResetCommits(c) PROVE Drained'
  BY <1>3 DEF ResetCommits, Sets, cacheVars
<1>4. ASSUME NEW c \in MemoryCallers, MemoryReleases(c) PROVE Drained'
  BY <1>4 DEF MemoryReleases, Release, IdleCacheCall
<1>5. ASSUME NEW c \in MemoryCallers, MemoryCloses(c) PROVE Drained'
  <2>1. UNCHANGED << requested, accepting >> /\ work[c].job # "none"
    BY <1>5 DEF MemoryCloses, CloseRemoves
  <2>2. \A d \in Callers : d # c => calls'[d] = calls[d]
    BY <1>5 DEF MemoryCloses, CloseRemoves
  <2>3. /\ work' \in [MemoryCallers -> [job : Jobs, project : Projects \cup {None}]]
        /\ work'[c].job # "none" /\ work'[c].project = work[c].project
        /\ \A d \in MemoryCallers : d # c => work'[d] = work[d]
    <3> HIDE DEF CacheInv, CacheTypeOK, CacheCalls
    <3>1. Sets(c, "closing")
      BY <1>5 DEF MemoryCloses
    <3> QED
      BY <2>1, <3>1 DEF Sets
  <2> HIDE DEF CacheInv, CacheTypeOK, CacheCalls
  <2> QED
    BY <2>1, <2>2, <2>3
<1>6. ASSUME NEW c \in MemoryCallers, CloseFindsNone(c) PROVE Drained'
  BY <1>6 DEF CloseFindsNone, Sets, cacheVars
<1>7. ASSUME NEW c \in MemoryCallers, Return(c) PROVE Drained'
  BY <1>7 DEF Return, cacheVars
<1>8. ASSUME NEW c \in Callers \ MemoryCallers, ContinuityCalls(c) PROVE Drained'
  <2>1. UNCHANGED << accepting, work, requested >>
    BY <1>8, ZenonT(40) DEF ContinuityCalls, OpenFinds, OpenReserves, OpenEvicts, Release
  <2>2. \A d \in Callers : d # c => calls'[d] = calls[d]
    BY <1>8, ZenonT(40) DEF ContinuityCalls, OpenFinds, OpenReserves, OpenEvicts, Release
  <2> HIDE DEF CacheInv, CacheTypeOK, CacheCalls
  <2> QED
    BY <2>1, <2>2
<1>9. ASSUME NEW c \in Callers, Proceeds(c) PROVE Drained'
  <2>1. requested' = requested /\ UNCHANGED << accepting, work >>
    BY <1>9 DEF Proceeds, CallProceeds, CallOpens, Evict, Opened, OpenFails, PublishNothing,
         PublishTooLate, Publish, Discard, PublishRefused, Abandon, Close
  <2>2. calls[c].phase # "idle"
    BY <1>9 DEF Proceeds, CallProceeds, CallOpens, Evict, Opened, OpenFails, PublishNothing,
         PublishTooLate, Publish, Discard, PublishRefused, Abandon, Close
  <2>3. \A d \in Callers : d # c => calls'[d] = calls[d]
    BY <1>9 DEF Proceeds, CallProceeds, CallOpens, Evict, Opened, OpenFails, PublishNothing,
         PublishTooLate, Publish, Discard, PublishRefused, Abandon, Close
  <2> HIDE DEF CacheInv, CacheTypeOK, CacheCalls
  <2> QED
    BY <2>1, <2>2, <2>3
<1>10. ASSUME ServiceStops PROVE Drained'
  BY <1>10 DEF ServiceStops, cacheVars
<1>11. ASSUME NEW s \in Stoppers, ServiceDrained(s) PROVE Drained'
  BY <1>11 DEF ServiceDrained, StopBegins
<1>12. ASSUME NEW s \in Stoppers, ShutdownAgain(s) PROVE Drained'
  BY <1>12 DEF ShutdownAgain, StopReturns
<1>13. ASSUME NEW s \in Stoppers, ShutdownProceeds(s) PROVE Drained'
  BY <1>13 DEF ShutdownProceeds, StopProceeds, StopTakes, StopCloses, StopEnds
<1>14. CASE UNCHANGED memoryVars
  BY <1>14 DEF memoryVars, cacheVars
<1> QED
  BY <1>1, <1>2, <1>3, <1>4, <1>5, <1>6, <1>7, <1>8, <1>9, <1>10, <1>11, <1>12, <1>13, <1>14
  DEF MemoryNext

\* An operation that runs has its repository open: no shutdown has begun.
LEMMA DrainedKeeps == CacheInv /\ Drained => OperationKeepsRepository
BY MemoryCallersAssumption
DEF CacheInv, HeldIsOpen, StopShaped, Drained, OperationKeepsRepository

\* The invariant of the cache and of the drain hold in every reachable state.
LEMMA MemoryInvariant == MemorySpec => [](CacheInv /\ Drained)
<1>1. MemoryInit => CacheInv /\ Drained
  BY CacheInvInit, DrainedInit DEF MemoryInit
<1>2. CacheInv /\ Drained /\ [MemoryNext]_memoryVars => (CacheInv /\ Drained)'
  BY CacheInvStep, DrainedStep, MemoryStepsCache
<1> QED
  BY <1>1, <1>2, PTL DEF MemorySpec

\* The service and the coordinator together are a use of the cache: what is proved of
\* RepositoryCache holds of them.
THEOREM MemoryUsesCache == MemorySpec => CacheInit /\ [][CacheNext]_cacheVars
<1>1. MemoryInit => CacheInit
  BY DEF MemoryInit
<1> QED
  BY <1>1, MemoryInvariant, MemoryStepsCache, PTL DEF MemorySpec

\* No operation of the service has its repository closed under it, whoever opens, closes,
\* evicts or shuts down meanwhile (ProjectMemoryService::shutdown waits for it).
THEOREM MemoryKeepsRepository == MemorySpec => []OperationKeepsRepository
BY MemoryInvariant, DrainedKeeps, PTL

\* Nor do they ever hold or reserve more repositories than the limit, or lose one.
THEOREM MemoryIsBounded == MemorySpec => [](CacheBounded /\ NoneLeaks)
BY MemoryInvariant, PTL DEF CacheInv
================================================================================

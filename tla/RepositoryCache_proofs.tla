------------------------- MODULE RepositoryCache_proofs -------------------------
(***************************************************************************)
(* Proofs about RepositoryCache: for any projects, callers and limit, the  *)
(* cache stays bounded, opens a project once, never closes a repository a  *)
(* caller holds before its own shutdown, loses no open repository and      *)
(* leaves the opener alone once that is shut down.                         *)
(***************************************************************************)
EXTENDS RepositoryCache, FiniteSetTheorems, TLAPS

Reserving == { "evicting", "opening", "publishing", "abandoning" }

\* What a call in each phase has in its hands.
CallsShaped ==
  \A c \in Callers :
    /\ calls[c].phase = "idle" => calls[c] = IdleCacheCall
    /\ calls[c].phase \in Reserving =>
         calls[c].project \in Projects /\ calls[c].project \in pending
    /\ calls[c].phase \in { "evicting", "opening", "abandoning", "discarding", "closing" } =>
         calls[c].repository = None
    /\ calls[c].phase \in { "opening", "publishing", "abandoning", "using" } =>
         calls[c].target = None
    /\ calls[c].phase = "using" => calls[c].repository # None

\* A project is reserved by one call, and has no entry meanwhile.
ReservedOnce ==
  /\ pending \cap Cached = {}
  /\ \A c, d \in Callers :
       calls[c].phase \in Reserving /\ calls[d].phase \in Reserving
         /\ calls[c].project = calls[d].project => c = d

\* An entry is open and is the entry of one project.
EntriesOpen ==
  /\ \A p \in Cached : entries[p] \in live
  /\ \A p, q \in Cached : entries[p] = entries[q] => p = q

\* What a call has taken to close it, and what it has opened and not published, nobody
\* else has.
Owned ==
  /\ \A c \in Callers : calls[c].target # None =>
       /\ \A p \in Projects : entries[p] # calls[c].target
       /\ calls[c].target \notin taken
       /\ \A d \in Callers : calls[d].repository # calls[c].target
       /\ \A d \in Callers : calls[d].target = calls[c].target => c = d
  /\ \A c \in Callers : calls[c].phase = "publishing" /\ calls[c].repository # None =>
       /\ \A p \in Projects : entries[p] # calls[c].repository
       /\ calls[c].repository \notin taken
       /\ calls[c].repository \in live
       /\ \A d \in Callers : calls[d].repository = calls[c].repository => c = d

\* An open repository a caller holds is an entry still, or the shutdown has taken it.
HeldIsCached ==
  \A c \in Callers :
    calls[c].phase = "using" /\ calls[c].repository \in live =>
      calls[c].repository \in taken \/ \E p \in Projects : entries[p] = calls[c].repository

\* One stopper leads; when it has taken the entries, nothing is cached or reserved any more.
StopShaped ==
  /\ \A s \in Stoppers : ~requested => stopping[s] = "idle"
  /\ \A s, t \in Stoppers :
       stopping[s] \in { "draining", "closing" } /\ s # t => stopping[t] = "idle"
  /\ \A s \in Stoppers : stopping[s] \in { "closing", "done" } => Cached = {} /\ pending = {}
  /\ taken # {} => \E s \in Stoppers : stopping[s] = "closing"
  /\ openerClosed => Completed

CacheInv ==
  /\ CacheTypeOK /\ CacheBounded
  /\ CallsShaped /\ ReservedOnce /\ EntriesOpen /\ Owned /\ StopShaped
  /\ HeldIsOpen /\ HeldIsCached /\ NoneLeaks

\* A touch and a removal keep the recency order a relation on projects.
LEMMA OrderTyped ==
  ASSUME older \in SUBSET (Projects \X Projects), NEW p \in Projects
  PROVE  /\ Uses(p) \in SUBSET (Projects \X Projects)
         /\ Forgets(p) \in SUBSET (Projects \X Projects)
BY DEF Uses, Forgets, Cached


\* Every step keeps the cache well typed.
LEMMA TypeStep ==
  CacheInv /\ [CacheNext]_cacheVars => CacheTypeOK'
<1> SUFFICES ASSUME CacheTypeOK, CallsShaped, [CacheNext]_cacheVars PROVE CacheTypeOK'
  BY DEF CacheInv
<1> USE DEF CacheTypeOK
<1>0. IdleCacheCall \in CacheCalls
  BY DEF IdleCacheCall, CacheCalls, CallPhases
<1>1. ASSUME NEW c \in Callers, NEW p \in Projects, OpenFinds(c, p) PROVE CacheTypeOK'
  <2>1. calls' \in [Callers -> CacheCalls]
    BY <1>1, <1>0, ZenonT(40) DEF OpenFinds, CacheCalls, CallPhases
  <2>2. older' \in SUBSET (Projects \X Projects)
    BY <1>1, OrderTyped DEF OpenFinds
  <2> QED
    BY <1>1, <2>1, <2>2 DEF OpenFinds
<1>2. ASSUME NEW c \in Callers, NEW p \in Projects, OpenReserves(c, p) PROVE CacheTypeOK'
  <2>1. calls' \in [Callers -> CacheCalls]
    BY <1>2, <1>0, ZenonT(40) DEF OpenReserves, CacheCalls, CallPhases
  <2> QED
    BY <1>2, <2>1 DEF OpenReserves
<1>3. ASSUME NEW c \in Callers, NEW p \in Projects, OpenEvicts(c, p) PROVE CacheTypeOK'
  <2>1. PICK q \in Projects :
          /\ LeastRecent(q)
          /\ entries' = [entries EXCEPT ![q] = None]
          /\ older' = Forgets(q)
          /\ calls' = [calls EXCEPT ![c] =
               [@ EXCEPT !.phase = "evicting", !.project = p, !.target = entries[q]]]
    BY <1>3 DEF OpenEvicts
  <2>2. [calls[c] EXCEPT !.phase = "evicting", !.project = p, !.target = entries[q]]
          \in CacheCalls
    BY <1>3, ZenonT(40) DEF CacheCalls, CallPhases
  <2>3. calls' \in [Callers -> CacheCalls]
    BY <2>1, <2>2
  <2>4. older' \in SUBSET (Projects \X Projects)
    BY <2>1, OrderTyped
  <2> QED
    BY <1>3, <2>1, <2>3, <2>4 DEF OpenEvicts
<1>4. ASSUME NEW c \in Callers, NEW p \in Projects, CloseRemoves(c, p) PROVE CacheTypeOK'
  <2>1. calls' \in [Callers -> CacheCalls]
    BY <1>4, <1>0, ZenonT(40) DEF CloseRemoves, CacheCalls, CallPhases, Unpinned, Cached
  <2>2. older' \in SUBSET (Projects \X Projects)
    BY <1>4, OrderTyped DEF CloseRemoves
  <2> QED
    BY <1>4, <2>1, <2>2 DEF CloseRemoves
<1>5. ASSUME NEW c \in Callers, Evict(c) PROVE CacheTypeOK'
  <2>1. calls' \in [Callers -> CacheCalls]
    BY <1>5, <1>0, ZenonT(40) DEF Evict, CacheCalls, CallPhases
  <2> QED
    BY <1>5, <2>1 DEF Evict
<1>6. ASSUME NEW c \in Callers, Opened(c) PROVE CacheTypeOK'
  <2>1. PICK r \in Repositories :
          /\ live' = live \cup {r}
          /\ calls' = [calls EXCEPT ![c] =
               [@ EXCEPT !.phase = "publishing", !.repository = r]]
    BY <1>6 DEF Opened
  <2>2. [calls[c] EXCEPT !.phase = "publishing", !.repository = r] \in CacheCalls
    BY <1>6, ZenonT(40) DEF CacheCalls, CallPhases
  <2>3. calls' \in [Callers -> CacheCalls]
    BY <2>1, <2>2
  <2> QED
    BY <1>6, <2>1, <2>3 DEF Opened
<1>7. ASSUME NEW c \in Callers, OpenFails(c) PROVE CacheTypeOK'
  <2>1. calls' \in [Callers -> CacheCalls]
    BY <1>7, <1>0 DEF OpenFails, CacheCalls, CallPhases
  <2> QED
    BY <1>7, <2>1 DEF OpenFails
<1>8. ASSUME NEW c \in Callers, PublishNothing(c) PROVE CacheTypeOK'
  <2>1. calls' \in [Callers -> CacheCalls]
    BY <1>8, <1>0 DEF PublishNothing, CacheCalls, CallPhases
  <2> QED
    BY <1>8, <2>1 DEF PublishNothing
<1>9. ASSUME NEW c \in Callers, PublishTooLate(c) PROVE CacheTypeOK'
  <2>1. calls' \in [Callers -> CacheCalls]
    BY <1>9, <1>0 DEF PublishTooLate, CacheCalls, CallPhases
  <2> QED
    BY <1>9, <2>1 DEF PublishTooLate
<1>10. ASSUME NEW c \in Callers, Publish(c) PROVE CacheTypeOK'
  <2> DEFINE p == calls[c].project
             r == calls[c].repository
  <2>1. p \in Projects /\ r \in Repositories
    BY <1>10 DEF Publish, CallsShaped, Reserving, CacheCalls
  <2>2. entries' \in [Projects -> Repositories \cup {None}]
    BY <1>10, <2>1 DEF Publish
  <2>3. calls' \in [Callers -> CacheCalls]
    BY <1>10, <2>1, <2>2 DEF Publish, CacheCalls, CallPhases
  <2>4. older' \in SUBSET (Projects \X Projects)
    BY <1>10, <2>1, OrderTyped DEF Publish
  <2> QED
    BY <1>10, <2>2, <2>3, <2>4 DEF Publish
<1>11. ASSUME NEW c \in Callers, Discard(c) PROVE CacheTypeOK'
  <2>1. calls' \in [Callers -> CacheCalls]
    BY <1>11, <1>0, ZenonT(40) DEF Discard, CacheCalls, CallPhases
  <2> QED
    BY <1>11, <2>1 DEF Discard
<1>12. ASSUME NEW c \in Callers, PublishRefused(c) PROVE CacheTypeOK'
  <2>1. calls' \in [Callers -> CacheCalls]
    BY <1>12, <1>0, ZenonT(40) DEF PublishRefused, CacheCalls, CallPhases
  <2> QED
    BY <1>12, <2>1 DEF PublishRefused
<1>13. ASSUME NEW c \in Callers, Abandon(c) PROVE CacheTypeOK'
  <2>1. calls' \in [Callers -> CacheCalls]
    BY <1>13, <1>0 DEF Abandon, CacheCalls, CallPhases
  <2> QED
    BY <1>13, <2>1 DEF Abandon
<1>14. ASSUME NEW c \in Callers, Close(c) PROVE CacheTypeOK'
  <2>1. calls' \in [Callers -> CacheCalls]
    BY <1>14, <1>0 DEF Close, CacheCalls, CallPhases
  <2> QED
    BY <1>14, <2>1 DEF Close
<1>15. ASSUME NEW c \in Callers, Release(c) PROVE CacheTypeOK'
  <2>1. calls' \in [Callers -> CacheCalls]
    BY <1>15, <1>0 DEF Release, CacheCalls, CallPhases
  <2> QED
    BY <1>15, <2>1 DEF Release
<1>16. ASSUME NEW s \in Stoppers, StopBegins(s) PROVE CacheTypeOK'
  BY <1>16 DEF StopBegins
<1>17. ASSUME NEW s \in Stoppers, StopReturns(s) PROVE CacheTypeOK'
  BY <1>17 DEF StopReturns
<1>18. ASSUME NEW s \in Stoppers, StopTakes(s) PROVE CacheTypeOK'
  BY <1>18 DEF StopTakes, Cached
<1>19. ASSUME NEW s \in Stoppers, StopCloses(s) PROVE CacheTypeOK'
  BY <1>19 DEF StopCloses
<1>20. ASSUME NEW s \in Stoppers, StopEnds(s) PROVE CacheTypeOK'
  BY <1>20 DEF StopEnds
<1>21. CASE UNCHANGED cacheVars
  BY <1>21 DEF cacheVars
<1> QED
  BY <1>1, <1>2, <1>3, <1>4, <1>5, <1>6, <1>7, <1>8, <1>9, <1>10, <1>11, <1>12, <1>13, <1>14, <1>15, <1>16, <1>17, <1>18, <1>19, <1>20, <1>21 DEF CacheNext, CallEnters, CallProceeds, CallOpens, StopProceeds

\* Every step leaves each call with what its phase says it holds.
LEMMA CallsStep ==
  CacheInv /\ [CacheNext]_cacheVars => CallsShaped'
<1> SUFFICES ASSUME CacheInv, [CacheNext]_cacheVars PROVE CallsShaped'
  OBVIOUS
<1> USE CacheNoneAssumption DEF CacheInv, CacheTypeOK, CacheCalls, CallPhases, IdleCacheCall, CallsShaped, Reserving, LeastRecent, Unpinned, Pinned, Cached, Gone, ReservedOnce
<1>1. ASSUME NEW c \in Callers, NEW p \in Projects, OpenFinds(c, p) PROVE CallsShaped'
  BY <1>1 DEF OpenFinds
<1>2. ASSUME NEW c \in Callers, NEW p \in Projects, OpenReserves(c, p) PROVE CallsShaped'
  BY <1>2 DEF OpenReserves
<1>3. ASSUME NEW c \in Callers, NEW p \in Projects, OpenEvicts(c, p) PROVE CallsShaped'
  BY <1>3 DEF OpenEvicts
<1>4. ASSUME NEW c \in Callers, NEW p \in Projects, CloseRemoves(c, p) PROVE CallsShaped'
  BY <1>4 DEF CloseRemoves
<1>5. ASSUME NEW c \in Callers, Evict(c) PROVE CallsShaped'
  BY <1>5 DEF Evict
<1>6. ASSUME NEW c \in Callers, Opened(c) PROVE CallsShaped'
  BY <1>6 DEF Opened
<1>7. ASSUME NEW c \in Callers, OpenFails(c) PROVE CallsShaped'
  BY <1>7 DEF OpenFails
<1>8. ASSUME NEW c \in Callers, PublishNothing(c) PROVE CallsShaped'
  BY <1>8 DEF PublishNothing
<1>9. ASSUME NEW c \in Callers, PublishTooLate(c) PROVE CallsShaped'
  BY <1>9 DEF PublishTooLate
<1>10. ASSUME NEW c \in Callers, Publish(c) PROVE CallsShaped'
  BY <1>10 DEF Publish
<1>11. ASSUME NEW c \in Callers, Discard(c) PROVE CallsShaped'
  BY <1>11 DEF Discard
<1>12. ASSUME NEW c \in Callers, PublishRefused(c) PROVE CallsShaped'
  BY <1>12 DEF PublishRefused
<1>13. ASSUME NEW c \in Callers, Abandon(c) PROVE CallsShaped'
  BY <1>13 DEF Abandon
<1>14. ASSUME NEW c \in Callers, Close(c) PROVE CallsShaped'
  BY <1>14 DEF Close
<1>15. ASSUME NEW c \in Callers, Release(c) PROVE CallsShaped'
  BY <1>15 DEF Release
<1>16. ASSUME NEW s \in Stoppers, StopBegins(s) PROVE CallsShaped'
  BY <1>16 DEF StopBegins
<1>17. ASSUME NEW s \in Stoppers, StopReturns(s) PROVE CallsShaped'
  BY <1>17 DEF StopReturns
<1>18. ASSUME NEW s \in Stoppers, StopTakes(s) PROVE CallsShaped'
  BY <1>18 DEF StopTakes
<1>19. ASSUME NEW s \in Stoppers, StopCloses(s) PROVE CallsShaped'
  BY <1>19 DEF StopCloses
<1>20. ASSUME NEW s \in Stoppers, StopEnds(s) PROVE CallsShaped'
  BY <1>20 DEF StopEnds
<1>21. CASE UNCHANGED cacheVars
  BY <1>21 DEF cacheVars
<1> QED
  BY <1>1, <1>2, <1>3, <1>4, <1>5, <1>6, <1>7, <1>8, <1>9, <1>10, <1>11, <1>12, <1>13, <1>14, <1>15, <1>16, <1>17, <1>18, <1>19, <1>20, <1>21 DEF CacheNext, CallEnters, CallProceeds, CallOpens, StopProceeds


\* A project is not reserved twice, nor while it has an entry.
LEMMA ReservedStep ==
  CacheInv /\ [CacheNext]_cacheVars => ReservedOnce'
<1> SUFFICES ASSUME CacheInv, [CacheNext]_cacheVars PROVE ReservedOnce'
  OBVIOUS
<1> USE CacheNoneAssumption DEF CacheInv, CacheTypeOK, CacheCalls, CallPhases, IdleCacheCall, CallsShaped, Reserving, ReservedOnce, LeastRecent, Unpinned, Cached, Gone, StopShaped
<1>1. ASSUME NEW c \in Callers, NEW p \in Projects, OpenFinds(c, p) PROVE ReservedOnce'
  BY <1>1 DEF OpenFinds
<1>2. ASSUME NEW c \in Callers, NEW p \in Projects, OpenReserves(c, p) PROVE ReservedOnce'
  BY <1>2 DEF OpenReserves
<1>3. ASSUME NEW c \in Callers, NEW p \in Projects, OpenEvicts(c, p) PROVE ReservedOnce'
  BY <1>3 DEF OpenEvicts
<1>4. ASSUME NEW c \in Callers, NEW p \in Projects, CloseRemoves(c, p) PROVE ReservedOnce'
  BY <1>4 DEF CloseRemoves
<1>5. ASSUME NEW c \in Callers, Evict(c) PROVE ReservedOnce'
  BY <1>5 DEF Evict
<1>6. ASSUME NEW c \in Callers, Opened(c) PROVE ReservedOnce'
  BY <1>6 DEF Opened
<1>7. ASSUME NEW c \in Callers, OpenFails(c) PROVE ReservedOnce'
  BY <1>7 DEF OpenFails
<1>8. ASSUME NEW c \in Callers, PublishNothing(c) PROVE ReservedOnce'
  BY <1>8 DEF PublishNothing
<1>9. ASSUME NEW c \in Callers, PublishTooLate(c) PROVE ReservedOnce'
  BY <1>9 DEF PublishTooLate
<1>10. ASSUME NEW c \in Callers, Publish(c) PROVE ReservedOnce'
  BY <1>10 DEF Publish
<1>11. ASSUME NEW c \in Callers, Discard(c) PROVE ReservedOnce'
  BY <1>11 DEF Discard
<1>12. ASSUME NEW c \in Callers, PublishRefused(c) PROVE ReservedOnce'
  BY <1>12 DEF PublishRefused
<1>13. ASSUME NEW c \in Callers, Abandon(c) PROVE ReservedOnce'
  BY <1>13 DEF Abandon
<1>14. ASSUME NEW c \in Callers, Close(c) PROVE ReservedOnce'
  BY <1>14 DEF Close
<1>15. ASSUME NEW c \in Callers, Release(c) PROVE ReservedOnce'
  BY <1>15 DEF Release
<1>16. ASSUME NEW s \in Stoppers, StopBegins(s) PROVE ReservedOnce'
  BY <1>16 DEF StopBegins
<1>17. ASSUME NEW s \in Stoppers, StopReturns(s) PROVE ReservedOnce'
  BY <1>17 DEF StopReturns
<1>18. ASSUME NEW s \in Stoppers, StopTakes(s) PROVE ReservedOnce'
  BY <1>18 DEF StopTakes
<1>19. ASSUME NEW s \in Stoppers, StopCloses(s) PROVE ReservedOnce'
  BY <1>19 DEF StopCloses
<1>20. ASSUME NEW s \in Stoppers, StopEnds(s) PROVE ReservedOnce'
  BY <1>20 DEF StopEnds
<1>21. CASE UNCHANGED cacheVars
  BY <1>21 DEF cacheVars
<1> QED
  BY <1>1, <1>2, <1>3, <1>4, <1>5, <1>6, <1>7, <1>8, <1>9, <1>10, <1>11, <1>12, <1>13, <1>14, <1>15, <1>16, <1>17, <1>18, <1>19, <1>20, <1>21 DEF CacheNext, CallEnters, CallProceeds, CallOpens, StopProceeds


\* Every step leaves the entries open, each with a repository of its own.
LEMMA EntriesStep ==
  CacheInv /\ [CacheNext]_cacheVars => EntriesOpen'
<1> SUFFICES ASSUME CacheInv, [CacheNext]_cacheVars PROVE EntriesOpen'
  OBVIOUS
<1> USE CacheNoneAssumption DEF CacheInv, CacheTypeOK, CacheCalls, CallPhases, IdleCacheCall, CallsShaped, Reserving, ReservedOnce, EntriesOpen, Owned, StopShaped, LeastRecent, Unpinned, Cached, Gone, NoneLeaks
<1>1. ASSUME NEW c \in Callers, NEW p \in Projects, OpenFinds(c, p) PROVE EntriesOpen'
  BY <1>1 DEF OpenFinds
<1>2. ASSUME NEW c \in Callers, NEW p \in Projects, OpenReserves(c, p) PROVE EntriesOpen'
  BY <1>2 DEF OpenReserves
<1>3. ASSUME NEW c \in Callers, NEW p \in Projects, OpenEvicts(c, p) PROVE EntriesOpen'
  BY <1>3 DEF OpenEvicts
<1>4. ASSUME NEW c \in Callers, NEW p \in Projects, CloseRemoves(c, p) PROVE EntriesOpen'
  BY <1>4 DEF CloseRemoves
<1>5. ASSUME NEW c \in Callers, Evict(c) PROVE EntriesOpen'
  BY <1>5 DEF Evict
<1>6. ASSUME NEW c \in Callers, Opened(c) PROVE EntriesOpen'
  BY <1>6 DEF Opened
<1>7. ASSUME NEW c \in Callers, OpenFails(c) PROVE EntriesOpen'
  BY <1>7 DEF OpenFails
<1>8. ASSUME NEW c \in Callers, PublishNothing(c) PROVE EntriesOpen'
  BY <1>8 DEF PublishNothing
<1>9. ASSUME NEW c \in Callers, PublishTooLate(c) PROVE EntriesOpen'
  BY <1>9 DEF PublishTooLate
<1>10. ASSUME NEW c \in Callers, Publish(c) PROVE EntriesOpen'
  BY <1>10 DEF Publish
<1>11. ASSUME NEW c \in Callers, Discard(c) PROVE EntriesOpen'
  BY <1>11 DEF Discard
<1>12. ASSUME NEW c \in Callers, PublishRefused(c) PROVE EntriesOpen'
  BY <1>12 DEF PublishRefused
<1>13. ASSUME NEW c \in Callers, Abandon(c) PROVE EntriesOpen'
  BY <1>13 DEF Abandon
<1>14. ASSUME NEW c \in Callers, Close(c) PROVE EntriesOpen'
  BY <1>14 DEF Close
<1>15. ASSUME NEW c \in Callers, Release(c) PROVE EntriesOpen'
  BY <1>15 DEF Release
<1>16. ASSUME NEW s \in Stoppers, StopBegins(s) PROVE EntriesOpen'
  BY <1>16 DEF StopBegins
<1>17. ASSUME NEW s \in Stoppers, StopReturns(s) PROVE EntriesOpen'
  BY <1>17 DEF StopReturns
<1>18. ASSUME NEW s \in Stoppers, StopTakes(s) PROVE EntriesOpen'
  BY <1>18 DEF StopTakes
<1>19. ASSUME NEW s \in Stoppers, StopCloses(s) PROVE EntriesOpen'
  BY <1>19 DEF StopCloses
<1>20. ASSUME NEW s \in Stoppers, StopEnds(s) PROVE EntriesOpen'
  BY <1>20 DEF StopEnds
<1>21. CASE UNCHANGED cacheVars
  BY <1>21 DEF cacheVars
<1> QED
  BY <1>1, <1>2, <1>3, <1>4, <1>5, <1>6, <1>7, <1>8, <1>9, <1>10, <1>11, <1>12, <1>13, <1>14, <1>15, <1>16, <1>17, <1>18, <1>19, <1>20, <1>21 DEF CacheNext, CallEnters, CallProceeds, CallOpens, StopProceeds


\* What is being closed or published stays with the one call that has it.
LEMMA OwnedStep ==
  CacheInv /\ [CacheNext]_cacheVars => Owned'
<1> SUFFICES ASSUME CacheInv, [CacheNext]_cacheVars PROVE Owned'
  OBVIOUS
<1> USE CacheNoneAssumption DEF CacheInv, CacheTypeOK, CacheCalls, CallPhases, IdleCacheCall, CallsShaped, Reserving, ReservedOnce, EntriesOpen, Owned, StopShaped, LeastRecent, Unpinned, Pinned, Holders, Cached, Gone
<1>1. ASSUME NEW c \in Callers, NEW p \in Projects, OpenFinds(c, p) PROVE Owned'
  BY <1>1 DEF OpenFinds
<1>2. ASSUME NEW c \in Callers, NEW p \in Projects, OpenReserves(c, p) PROVE Owned'
  BY <1>2 DEF OpenReserves
<1>3. ASSUME NEW c \in Callers, NEW p \in Projects, OpenEvicts(c, p) PROVE Owned'
  BY <1>3 DEF OpenEvicts
<1>4. ASSUME NEW c \in Callers, NEW p \in Projects, CloseRemoves(c, p) PROVE Owned'
  BY <1>4 DEF CloseRemoves
<1>5. ASSUME NEW c \in Callers, Evict(c) PROVE Owned'
  BY <1>5 DEF Evict
<1>6. ASSUME NEW c \in Callers, Opened(c) PROVE Owned'
  BY <1>6 DEF Opened
<1>7. ASSUME NEW c \in Callers, OpenFails(c) PROVE Owned'
  BY <1>7 DEF OpenFails
<1>8. ASSUME NEW c \in Callers, PublishNothing(c) PROVE Owned'
  BY <1>8 DEF PublishNothing
<1>9. ASSUME NEW c \in Callers, PublishTooLate(c) PROVE Owned'
  BY <1>9 DEF PublishTooLate
<1>10. ASSUME NEW c \in Callers, Publish(c) PROVE Owned'
  BY <1>10 DEF Publish
<1>11. ASSUME NEW c \in Callers, Discard(c) PROVE Owned'
  BY <1>11 DEF Discard
<1>12. ASSUME NEW c \in Callers, PublishRefused(c) PROVE Owned'
  BY <1>12 DEF PublishRefused
<1>13. ASSUME NEW c \in Callers, Abandon(c) PROVE Owned'
  BY <1>13 DEF Abandon
<1>14. ASSUME NEW c \in Callers, Close(c) PROVE Owned'
  BY <1>14 DEF Close
<1>15. ASSUME NEW c \in Callers, Release(c) PROVE Owned'
  BY <1>15 DEF Release
<1>16. ASSUME NEW s \in Stoppers, StopBegins(s) PROVE Owned'
  BY <1>16 DEF StopBegins
<1>17. ASSUME NEW s \in Stoppers, StopReturns(s) PROVE Owned'
  BY <1>17 DEF StopReturns
<1>18. ASSUME NEW s \in Stoppers, StopTakes(s) PROVE Owned'
  BY <1>18 DEF StopTakes
<1>19. ASSUME NEW s \in Stoppers, StopCloses(s) PROVE Owned'
  BY <1>19 DEF StopCloses
<1>20. ASSUME NEW s \in Stoppers, StopEnds(s) PROVE Owned'
  BY <1>20 DEF StopEnds
<1>21. CASE UNCHANGED cacheVars
  BY <1>21 DEF cacheVars
<1> QED
  BY <1>1, <1>2, <1>3, <1>4, <1>5, <1>6, <1>7, <1>8, <1>9, <1>10, <1>11, <1>12, <1>13, <1>14, <1>15, <1>16, <1>17, <1>18, <1>19, <1>20, <1>21 DEF CacheNext, CallEnters, CallProceeds, CallOpens, StopProceeds


\* One stopper leads, and the cache stays empty behind it.
LEMMA StopStep ==
  CacheInv /\ [CacheNext]_cacheVars => StopShaped'
<1> SUFFICES ASSUME CacheInv, [CacheNext]_cacheVars PROVE StopShaped'
  OBVIOUS
<1> USE CacheNoneAssumption DEF CacheInv, CacheTypeOK, CacheCalls, CallPhases, IdleCacheCall, CallsShaped, Reserving, ReservedOnce, StopShaped, LeastRecent, Unpinned, Cached, Completed
<1>1. ASSUME NEW c \in Callers, NEW p \in Projects, OpenFinds(c, p) PROVE StopShaped'
  BY <1>1 DEF OpenFinds
<1>2. ASSUME NEW c \in Callers, NEW p \in Projects, OpenReserves(c, p) PROVE StopShaped'
  BY <1>2 DEF OpenReserves
<1>3. ASSUME NEW c \in Callers, NEW p \in Projects, OpenEvicts(c, p) PROVE StopShaped'
  BY <1>3 DEF OpenEvicts
<1>4. ASSUME NEW c \in Callers, NEW p \in Projects, CloseRemoves(c, p) PROVE StopShaped'
  BY <1>4 DEF CloseRemoves
<1>5. ASSUME NEW c \in Callers, Evict(c) PROVE StopShaped'
  BY <1>5 DEF Evict
<1>6. ASSUME NEW c \in Callers, Opened(c) PROVE StopShaped'
  BY <1>6 DEF Opened
<1>7. ASSUME NEW c \in Callers, OpenFails(c) PROVE StopShaped'
  BY <1>7 DEF OpenFails
<1>8. ASSUME NEW c \in Callers, PublishNothing(c) PROVE StopShaped'
  BY <1>8 DEF PublishNothing
<1>9. ASSUME NEW c \in Callers, PublishTooLate(c) PROVE StopShaped'
  BY <1>9 DEF PublishTooLate
<1>10. ASSUME NEW c \in Callers, Publish(c) PROVE StopShaped'
  BY <1>10 DEF Publish
<1>11. ASSUME NEW c \in Callers, Discard(c) PROVE StopShaped'
  BY <1>11 DEF Discard
<1>12. ASSUME NEW c \in Callers, PublishRefused(c) PROVE StopShaped'
  BY <1>12 DEF PublishRefused
<1>13. ASSUME NEW c \in Callers, Abandon(c) PROVE StopShaped'
  BY <1>13 DEF Abandon
<1>14. ASSUME NEW c \in Callers, Close(c) PROVE StopShaped'
  BY <1>14 DEF Close
<1>15. ASSUME NEW c \in Callers, Release(c) PROVE StopShaped'
  BY <1>15 DEF Release
<1>16. ASSUME NEW s \in Stoppers, StopBegins(s) PROVE StopShaped'
  BY <1>16 DEF StopBegins
<1>17. ASSUME NEW s \in Stoppers, StopReturns(s) PROVE StopShaped'
  BY <1>17 DEF StopReturns
<1>18. ASSUME NEW s \in Stoppers, StopTakes(s) PROVE StopShaped'
  BY <1>18 DEF StopTakes
<1>19. ASSUME NEW s \in Stoppers, StopCloses(s) PROVE StopShaped'
  BY <1>19 DEF StopCloses
<1>20. ASSUME NEW s \in Stoppers, StopEnds(s) PROVE StopShaped'
  BY <1>20 DEF StopEnds
<1>21. CASE UNCHANGED cacheVars
  BY <1>21 DEF cacheVars
<1> QED
  BY <1>1, <1>2, <1>3, <1>4, <1>5, <1>6, <1>7, <1>8, <1>9, <1>10, <1>11, <1>12, <1>13, <1>14, <1>15, <1>16, <1>17, <1>18, <1>19, <1>20, <1>21 DEF CacheNext, CallEnters, CallProceeds, CallOpens, StopProceeds


\* No step closes a repository under its caller, but a shutdown.
LEMMA HeldStep ==
  CacheInv /\ [CacheNext]_cacheVars => HeldIsOpen'
<1> SUFFICES ASSUME CacheInv, [CacheNext]_cacheVars PROVE HeldIsOpen'
  OBVIOUS
<1> USE CacheNoneAssumption DEF CacheInv, CacheTypeOK, CacheCalls, CallPhases, IdleCacheCall, CallsShaped, EntriesOpen, Owned, ReservedOnce, Reserving, StopShaped, HeldIsOpen, LeastRecent, Unpinned, Cached, Gone
<1>1. ASSUME NEW c \in Callers, NEW p \in Projects, OpenFinds(c, p) PROVE HeldIsOpen'
  BY <1>1 DEF OpenFinds
<1>2. ASSUME NEW c \in Callers, NEW p \in Projects, OpenReserves(c, p) PROVE HeldIsOpen'
  BY <1>2 DEF OpenReserves
<1>3. ASSUME NEW c \in Callers, NEW p \in Projects, OpenEvicts(c, p) PROVE HeldIsOpen'
  BY <1>3 DEF OpenEvicts
<1>4. ASSUME NEW c \in Callers, NEW p \in Projects, CloseRemoves(c, p) PROVE HeldIsOpen'
  BY <1>4 DEF CloseRemoves
<1>5. ASSUME NEW c \in Callers, Evict(c) PROVE HeldIsOpen'
  BY <1>5 DEF Evict
<1>6. ASSUME NEW c \in Callers, Opened(c) PROVE HeldIsOpen'
  BY <1>6 DEF Opened
<1>7. ASSUME NEW c \in Callers, OpenFails(c) PROVE HeldIsOpen'
  BY <1>7 DEF OpenFails
<1>8. ASSUME NEW c \in Callers, PublishNothing(c) PROVE HeldIsOpen'
  BY <1>8 DEF PublishNothing
<1>9. ASSUME NEW c \in Callers, PublishTooLate(c) PROVE HeldIsOpen'
  BY <1>9 DEF PublishTooLate
<1>10. ASSUME NEW c \in Callers, Publish(c) PROVE HeldIsOpen'
  BY <1>10 DEF Publish
<1>11. ASSUME NEW c \in Callers, Discard(c) PROVE HeldIsOpen'
  BY <1>11 DEF Discard
<1>12. ASSUME NEW c \in Callers, PublishRefused(c) PROVE HeldIsOpen'
  BY <1>12 DEF PublishRefused
<1>13. ASSUME NEW c \in Callers, Abandon(c) PROVE HeldIsOpen'
  BY <1>13 DEF Abandon
<1>14. ASSUME NEW c \in Callers, Close(c) PROVE HeldIsOpen'
  BY <1>14 DEF Close
<1>15. ASSUME NEW c \in Callers, Release(c) PROVE HeldIsOpen'
  BY <1>15 DEF Release
<1>16. ASSUME NEW s \in Stoppers, StopBegins(s) PROVE HeldIsOpen'
  BY <1>16 DEF StopBegins
<1>17. ASSUME NEW s \in Stoppers, StopReturns(s) PROVE HeldIsOpen'
  BY <1>17 DEF StopReturns
<1>18. ASSUME NEW s \in Stoppers, StopTakes(s) PROVE HeldIsOpen'
  BY <1>18 DEF StopTakes
<1>19. ASSUME NEW s \in Stoppers, StopCloses(s) PROVE HeldIsOpen'
  BY <1>19 DEF StopCloses
<1>20. ASSUME NEW s \in Stoppers, StopEnds(s) PROVE HeldIsOpen'
  BY <1>20 DEF StopEnds
<1>21. CASE UNCHANGED cacheVars
  BY <1>21 DEF cacheVars
<1> QED
  BY <1>1, <1>2, <1>3, <1>4, <1>5, <1>6, <1>7, <1>8, <1>9, <1>10, <1>11, <1>12, <1>13, <1>14, <1>15, <1>16, <1>17, <1>18, <1>19, <1>20, <1>21 DEF CacheNext, CallEnters, CallProceeds, CallOpens, StopProceeds


\* A held repository leaves the entries only into a shutdown.
LEMMA HeldCachedStep ==
  CacheInv /\ [CacheNext]_cacheVars => HeldIsCached'
<1> SUFFICES ASSUME CacheInv, [CacheNext]_cacheVars PROVE HeldIsCached'
  OBVIOUS
<1> USE CacheNoneAssumption DEF CacheInv, CacheTypeOK, CacheCalls, CallPhases, IdleCacheCall, CallsShaped, Owned, StopShaped, HeldIsCached, EntriesOpen, ReservedOnce, Reserving, LeastRecent, Unpinned, Pinned, Holders, Cached, Gone
<1>1. ASSUME NEW c \in Callers, NEW p \in Projects, OpenFinds(c, p) PROVE HeldIsCached'
  BY <1>1 DEF OpenFinds
<1>2. ASSUME NEW c \in Callers, NEW p \in Projects, OpenReserves(c, p) PROVE HeldIsCached'
  BY <1>2 DEF OpenReserves
<1>3. ASSUME NEW c \in Callers, NEW p \in Projects, OpenEvicts(c, p) PROVE HeldIsCached'
  BY <1>3 DEF OpenEvicts
<1>4. ASSUME NEW c \in Callers, NEW p \in Projects, CloseRemoves(c, p) PROVE HeldIsCached'
  BY <1>4 DEF CloseRemoves
<1>5. ASSUME NEW c \in Callers, Evict(c) PROVE HeldIsCached'
  BY <1>5 DEF Evict
<1>6. ASSUME NEW c \in Callers, Opened(c) PROVE HeldIsCached'
  BY <1>6 DEF Opened
<1>7. ASSUME NEW c \in Callers, OpenFails(c) PROVE HeldIsCached'
  BY <1>7 DEF OpenFails
<1>8. ASSUME NEW c \in Callers, PublishNothing(c) PROVE HeldIsCached'
  BY <1>8 DEF PublishNothing
<1>9. ASSUME NEW c \in Callers, PublishTooLate(c) PROVE HeldIsCached'
  BY <1>9 DEF PublishTooLate
<1>10. ASSUME NEW c \in Callers, Publish(c) PROVE HeldIsCached'
  BY <1>10 DEF Publish
<1>11. ASSUME NEW c \in Callers, Discard(c) PROVE HeldIsCached'
  BY <1>11 DEF Discard
<1>12. ASSUME NEW c \in Callers, PublishRefused(c) PROVE HeldIsCached'
  BY <1>12 DEF PublishRefused
<1>13. ASSUME NEW c \in Callers, Abandon(c) PROVE HeldIsCached'
  BY <1>13 DEF Abandon
<1>14. ASSUME NEW c \in Callers, Close(c) PROVE HeldIsCached'
  BY <1>14 DEF Close
<1>15. ASSUME NEW c \in Callers, Release(c) PROVE HeldIsCached'
  BY <1>15 DEF Release
<1>16. ASSUME NEW s \in Stoppers, StopBegins(s) PROVE HeldIsCached'
  BY <1>16 DEF StopBegins
<1>17. ASSUME NEW s \in Stoppers, StopReturns(s) PROVE HeldIsCached'
  BY <1>17 DEF StopReturns
<1>18. ASSUME NEW s \in Stoppers, StopTakes(s) PROVE HeldIsCached'
  BY <1>18 DEF StopTakes
<1>19. ASSUME NEW s \in Stoppers, StopCloses(s) PROVE HeldIsCached'
  BY <1>19 DEF StopCloses
<1>20. ASSUME NEW s \in Stoppers, StopEnds(s) PROVE HeldIsCached'
  BY <1>20 DEF StopEnds
<1>21. CASE UNCHANGED cacheVars
  BY <1>21 DEF cacheVars
<1> QED
  BY <1>1, <1>2, <1>3, <1>4, <1>5, <1>6, <1>7, <1>8, <1>9, <1>10, <1>11, <1>12, <1>13, <1>14, <1>15, <1>16, <1>17, <1>18, <1>19, <1>20, <1>21 DEF CacheNext, CallEnters, CallProceeds, CallOpens, StopProceeds


\* An open repository is always cached, or in the hands of a call or of the shutdown.
LEMMA LeaksStep ==
  CacheInv /\ [CacheNext]_cacheVars => NoneLeaks'
<1> SUFFICES ASSUME CacheInv, [CacheNext]_cacheVars PROVE NoneLeaks'
  OBVIOUS
<1> USE CacheNoneAssumption DEF CacheInv, CacheTypeOK, CacheCalls, CallPhases, IdleCacheCall, CallsShaped, Owned, StopShaped, HeldIsCached, NoneLeaks, ReservedOnce, Reserving, LeastRecent, Unpinned, Cached, Gone
<1>1. ASSUME NEW c \in Callers, NEW p \in Projects, OpenFinds(c, p) PROVE NoneLeaks'
  BY <1>1 DEF OpenFinds
<1>2. ASSUME NEW c \in Callers, NEW p \in Projects, OpenReserves(c, p) PROVE NoneLeaks'
  BY <1>2 DEF OpenReserves
<1>3. ASSUME NEW c \in Callers, NEW p \in Projects, OpenEvicts(c, p) PROVE NoneLeaks'
  BY <1>3 DEF OpenEvicts
<1>4. ASSUME NEW c \in Callers, NEW p \in Projects, CloseRemoves(c, p) PROVE NoneLeaks'
  BY <1>4 DEF CloseRemoves
<1>5. ASSUME NEW c \in Callers, Evict(c) PROVE NoneLeaks'
  BY <1>5 DEF Evict
<1>6. ASSUME NEW c \in Callers, Opened(c) PROVE NoneLeaks'
  BY <1>6 DEF Opened
<1>7. ASSUME NEW c \in Callers, OpenFails(c) PROVE NoneLeaks'
  BY <1>7 DEF OpenFails
<1>8. ASSUME NEW c \in Callers, PublishNothing(c) PROVE NoneLeaks'
  BY <1>8 DEF PublishNothing
<1>9. ASSUME NEW c \in Callers, PublishTooLate(c) PROVE NoneLeaks'
  BY <1>9 DEF PublishTooLate
<1>10. ASSUME NEW c \in Callers, Publish(c) PROVE NoneLeaks'
  BY <1>10 DEF Publish
<1>11. ASSUME NEW c \in Callers, Discard(c) PROVE NoneLeaks'
  BY <1>11 DEF Discard
<1>12. ASSUME NEW c \in Callers, PublishRefused(c) PROVE NoneLeaks'
  BY <1>12 DEF PublishRefused
<1>13. ASSUME NEW c \in Callers, Abandon(c) PROVE NoneLeaks'
  BY <1>13 DEF Abandon
<1>14. ASSUME NEW c \in Callers, Close(c) PROVE NoneLeaks'
  BY <1>14 DEF Close
<1>15. ASSUME NEW c \in Callers, Release(c) PROVE NoneLeaks'
  BY <1>15 DEF Release
<1>16. ASSUME NEW s \in Stoppers, StopBegins(s) PROVE NoneLeaks'
  BY <1>16 DEF StopBegins
<1>17. ASSUME NEW s \in Stoppers, StopReturns(s) PROVE NoneLeaks'
  BY <1>17 DEF StopReturns
<1>18. ASSUME NEW s \in Stoppers, StopTakes(s) PROVE NoneLeaks'
  BY <1>18 DEF StopTakes
<1>19. ASSUME NEW s \in Stoppers, StopCloses(s) PROVE NoneLeaks'
  BY <1>19 DEF StopCloses
<1>20. ASSUME NEW s \in Stoppers, StopEnds(s) PROVE NoneLeaks'
  BY <1>20 DEF StopEnds
<1>21. CASE UNCHANGED cacheVars
  BY <1>21 DEF cacheVars
<1> QED
  BY <1>1, <1>2, <1>3, <1>4, <1>5, <1>6, <1>7, <1>8, <1>9, <1>10, <1>11, <1>12, <1>13, <1>14, <1>15, <1>16, <1>17, <1>18, <1>19, <1>20, <1>21 DEF CacheNext, CallEnters, CallProceeds, CallOpens, StopProceeds


\* Entries and reservations are finitely many.
LEMMA CachedFinite ==
  CacheTypeOK => IsFiniteSet(Cached) /\ IsFiniteSet(pending)
BY CacheFiniteAssumption, FS_Subset DEF CacheTypeOK, Cached

\* An element added to a finite set adds at most one to its size.
LEMMA OneMore ==
  ASSUME NEW S, NEW x, IsFiniteSet(S)
  PROVE  /\ IsFiniteSet(S \cup {x})
         /\ Cardinality(S \cup {x}) \in Nat
         /\ Cardinality(S \cup {x}) <= Cardinality(S) + 1
<1>1. IsFiniteSet(S \cup {x}) /\ Cardinality(S) \in Nat
  BY FS_AddElement, FS_CardinalityType
<1>2. CASE x \in S
  <2>1. S \cup {x} = S
    BY <1>2
  <2> QED
    BY <1>1, <2>1
<1>3. CASE x \notin S
  <2>1. Cardinality(S \cup {x}) = Cardinality(S) + 1
    BY <1>3, FS_AddElement
  <2> QED
    BY <1>1, <2>1
<1> QED
  BY <1>2, <1>3

\* Entries and reservations together never exceed the bound.
LEMMA RoomKept ==
  CacheInv /\ [CacheNext]_cacheVars => CacheBounded'
<1> SUFFICES ASSUME CacheInv, [CacheNext]_cacheVars PROVE CacheBounded'
  OBVIOUS
<1>1. IsFiniteSet(Cached) /\ IsFiniteSet(pending)
  BY CachedFinite DEF CacheInv
<1>2. /\ Cardinality(Cached) \in Nat /\ Cardinality(pending) \in Nat
      /\ Cardinality(Cached) + Cardinality(pending) <= MaxOpen
  BY <1>1, FS_CardinalityType DEF CacheInv, CacheBounded
<1>3. ASSUME Cached' \subseteq Cached, pending' \subseteq pending PROVE CacheBounded'
  <2>1. IsFiniteSet(Cached') /\ IsFiniteSet(pending')
    BY <1>1, <1>3, FS_Subset
  <2>2. Cardinality(Cached') <= Cardinality(Cached) /\ Cardinality(pending') <= Cardinality(pending)
    BY <1>1, <1>3, FS_Subset
  <2> QED
    BY <1>2, <2>1, <2>2, FS_CardinalityType, MaxOpenAssumption DEF CacheBounded
<1>4. ASSUME NEW c \in Callers, NEW p \in Projects, OpenReserves(c, p) PROVE CacheBounded'
  <2>1. Cached' = Cached /\ pending' = pending \cup {p}
    BY <1>4 DEF OpenReserves, Cached
  <2>2. Cardinality(pending') <= Cardinality(pending) + 1 /\ Cardinality(pending') \in Nat
    BY <1>1, <2>1, OneMore
  <2>3. Cardinality(Cached) + Cardinality(pending) < MaxOpen
    BY <1>2, <1>4, MaxOpenAssumption DEF OpenReserves, Full
  <2> QED
    BY <1>2, <2>1, <2>2, <2>3, MaxOpenAssumption DEF CacheBounded
<1>5. ASSUME NEW c \in Callers, NEW p \in Projects, OpenEvicts(c, p) PROVE CacheBounded'
  <2>1. PICK q \in Projects : LeastRecent(q) /\ entries' = [entries EXCEPT ![q] = None]
    BY <1>5 DEF OpenEvicts
  <2>2. q \in Cached /\ Cached' = Cached \ {q}
    BY <2>1 DEF CacheInv, CacheTypeOK, Cached, LeastRecent, Unpinned
  <2>3. Cardinality(Cached') = Cardinality(Cached) - 1
    BY <1>1, <2>2, FS_RemoveElement
  <2>4. pending' = pending \cup {p}
    BY <1>5 DEF OpenEvicts
  <2>5. Cardinality(pending') <= Cardinality(pending) + 1 /\ Cardinality(pending') \in Nat
    BY <1>1, <2>4, OneMore
  <2> QED
    BY <1>2, <2>3, <2>5, MaxOpenAssumption DEF CacheBounded
<1>6. ASSUME NEW c \in Callers, Publish(c) PROVE CacheBounded'
  <2> DEFINE p == calls[c].project
  <2>1. p \in Projects /\ p \in pending
    BY <1>6 DEF Publish, CacheInv, CallsShaped, Reserving
  <2>2. pending' = pending \ {p} /\ Cached' \subseteq Cached \cup {p}
    BY <1>6, <2>1 DEF Publish, CacheInv, CacheTypeOK, Cached
  <2>3. Cardinality(pending') = Cardinality(pending) - 1
    BY <1>1, <2>1, <2>2, FS_RemoveElement
  <2>4. IsFiniteSet(Cached \cup {p}) /\ Cardinality(Cached \cup {p}) <= Cardinality(Cached) + 1
    BY <1>1, OneMore
  <2>5. Cardinality(Cached') <= Cardinality(Cached \cup {p}) /\ IsFiniteSet(Cached')
    BY <2>2, <2>4, FS_Subset
  <2>6. Cardinality(Cached') \in Nat /\ Cardinality(Cached \cup {p}) \in Nat
    BY <2>4, <2>5, FS_CardinalityType
  <2> QED
    BY <1>2, <2>3, <2>4, <2>5, <2>6, MaxOpenAssumption DEF CacheBounded
<1>7. ASSUME NEW c \in Callers, NEW p \in Projects, CloseRemoves(c, p) PROVE CacheBounded'
  BY <1>3, <1>7 DEF CloseRemoves, Cached, CacheInv, CacheTypeOK
<1>8. ASSUME NEW s \in Stoppers, StopTakes(s) PROVE CacheBounded'
  BY <1>3, <1>8 DEF StopTakes, Cached
<1>9. ASSUME Cached' = Cached, pending' \subseteq pending PROVE CacheBounded'
  BY <1>3, <1>9
<1> QED
  BY <1>4, <1>5, <1>6, <1>7, <1>8, <1>9
  DEF CacheNext, CallEnters, CallProceeds, CallOpens, StopProceeds, OpenFinds, Evict, Opened,
      OpenFails, PublishNothing, PublishTooLate, Discard, PublishRefused, Abandon, Close,
      Release, StopBegins, StopReturns, StopCloses, StopEnds, cacheVars, Cached

\* An empty cache satisfies the invariant.
LEMMA CacheInvInit == CacheInit => CacheInv
<1> SUFFICES ASSUME CacheInit PROVE CacheInv
  OBVIOUS
<1>1. Cached = {} /\ pending = {}
  BY DEF CacheInit, Cached
<1>2. CacheBounded
  BY <1>1, FS_EmptySet, MaxOpenAssumption DEF CacheBounded
<1> QED
  BY <1>1, <1>2, CacheNoneAssumption
  DEF CacheInit, CacheInv, CacheTypeOK, CacheCalls, CallPhases, IdleCacheCall, CallsShaped,
      Reserving, ReservedOnce, EntriesOpen, Owned, StopShaped, HeldIsOpen, HeldIsCached,
      NoneLeaks

\* Every step of the cache keeps the invariant.
LEMMA CacheInvStep == CacheInv /\ [CacheNext]_cacheVars => CacheInv'
BY TypeStep, CallsStep, ReservedStep, EntriesStep, OwnedStep, StopStep, HeldStep,
   HeldCachedStep, LeaksStep, RoomKept DEF CacheInv

\* The invariant implies that one opening runs per project, and none after a shutdown.
LEMMA CacheInvImplies == CacheInv => OpenedOnce /\ OpenerQuiet
<1> SUFFICES ASSUME CacheInv PROVE OpenedOnce /\ OpenerQuiet
  OBVIOUS
<1>1. OpenedOnce
  BY DEF CacheInv, OpenedOnce, CallsShaped, ReservedOnce, Reserving
<1>2. OpenerQuiet
  BY DEF CacheInv, OpenerQuiet, StopShaped, CallsShaped, Reserving, Completed
<1> QED
  BY <1>1, <1>2

\* The inductive invariant of the cache, and with it the type of its state.
THEOREM CacheInvariant == CacheSpec => []CacheInv
BY CacheInvInit, CacheInvStep, PTL DEF CacheSpec

\* However calls and the shutdown interleave, entries and reservations together stay
\* within the limit (openAggregate reserves before it opens).
THEOREM CacheStaysBounded == CacheSpec => []CacheBounded
BY CacheInvariant, PTL DEF CacheInv

\* No project is opened by two calls at a time, and what a call publishes replaces nothing.
THEOREM CacheOpensOnce == CacheSpec => []OpenedOnce
BY CacheInvariant, CacheInvImplies, PTL

\* Only the shutdown closes a repository that some caller holds.
THEOREM CacheKeepsHeld == CacheSpec => []HeldIsOpen
BY CacheInvariant, PTL DEF CacheInv

\* No open repository is lost: somebody still has it to close it.
THEOREM CacheLosesNone == CacheSpec => []NoneLeaks
BY CacheInvariant, PTL DEF CacheInv

\* After the opener is shut down no call is in it.
THEOREM CacheLeavesOpener == CacheSpec => []OpenerQuiet
BY CacheInvariant, CacheInvImplies, PTL

================================================================================

---------------------------- MODULE RepositoryCache ----------------------------
(***************************************************************************)
(* The bounded cache of open project repositories in a process:            *)
(* ProjectMemoryRepositoryCache, over WindowsProjectMemoryRepositoryOpener.*)
(*                                                                         *)
(* Every section under the cache's mutex is one action.  Opening a         *)
(* repository and closing one happen outside the mutex, so that other      *)
(* callers find a project pending, or already gone from the entries while  *)
(* its repository is still open.                                           *)
(*                                                                         *)
(* Abstracted: lastUse is the order of the entries' last uses; a call that *)
(* is refused (busy, closed, cancelled or expired before admission) leaves *)
(* everything as it was and is no step; running out of memory is left out. *)
(***************************************************************************)
EXTENDS Naturals, FiniteSets

CONSTANTS
  Projects,         \* project ids
  Callers,          \* threads that open, use and close repositories
  Stoppers,         \* threads that shut the cache down
  Repositories,     \* repository objects; one is used again after it is gone
  None,             \* an empty pointer
  MaxOpen           \* maximumOpenRepositories_

ASSUME CacheNoneAssumption == None \notin Projects \cup Repositories
ASSUME MaxOpenAssumption == MaxOpen \in Nat \ {0}
ASSUME CacheFiniteAssumption == IsFiniteSet(Projects)

VARIABLES
  entries,          \* the cached repository of a project
  older,            \* << p, q >>: the entry of p was used before that of q
  pending,          \* projects whose repository some call is opening
  calls,            \* the call each caller has in flight
  live,             \* repositories whose database is open
  requested,        \* shutdownRequested_
  stopping,         \* what each stopper is doing
  taken,            \* the entries the shutdown has taken and not closed yet
  openerClosed      \* the opener's shutdownRequested_

cacheVars ==
  << entries, older, pending, calls, live, requested, stopping, taken, openerClosed >>

--------------------------------------------------------------------------------
CallPhases ==
  { "idle",         \* no call
    "evicting",     \* openAggregate closes the entry it made room with
    "opening",      \* openAggregate waits for the opener
    "publishing",   \* the opener has answered
    "abandoning",   \* publication was not admitted and what was opened is closed
    "discarding",   \* what was opened is not wanted any more and is closed
    "closing",      \* close closes the entry it removed
    "using" }       \* the caller holds the shared pointer it was given

\* project and repository are the call's arguments, results and local pointers; target is
\* the repository it has taken to close it.
IdleCacheCall == [phase |-> "idle", project |-> None, repository |-> None, target |-> None]

CacheCalls ==
  [ phase : CallPhases, project : Projects \cup {None},
    repository : Repositories \cup {None}, target : Repositories \cup {None} ]

Cached == { p \in Projects : entries[p] # None }

Holders(r) == { c \in Callers : calls[c].repository = r }

\* use_count() != 1: somebody but the entry holds the repository.
Pinned(p) == Holders(entries[p]) # {}

Unpinned == { p \in Cached : ~Pinned(p) }

\* A repository object that nothing refers to: the next one that is opened.
Gone(r) ==
  /\ r \notin live \cup taken
  /\ \A p \in Projects : entries[p] # r
  /\ \A c \in Callers : calls[c].repository # r /\ calls[c].target # r

\* Mutant: repositories that are being opened are not counted.
FullOfEntries == Cardinality(Cached) >= MaxOpen

Full == Cardinality(Cached) + Cardinality(pending) >= MaxOpen

\* Mutant: a pinned repository can make room.
LeastRecentOfAll(p) ==
  /\ p \in Cached
  /\ \A q \in Cached : << q, p >> \notin older

LeastRecent(p) ==
  /\ p \in Unpinned
  /\ \A q \in Unpinned : << q, p >> \notin older

\* The entry of p is the most recently used one, or is no entry any more.
Uses(p) ==
  { e \in older : e[1] # p /\ e[2] # p } \cup { << q, p >> : q \in Cached \ {p} }

Forgets(p) == { e \in older : e[1] # p /\ e[2] # p }

--------------------------------------------------------------------------------
(* openAggregate, up to the opener *)

\* The entry is there: the caller shares its pointer.
OpenFinds(c, p) ==
  /\ calls[c].phase = "idle"
  /\ ~requested
  /\ p \in Cached
  /\ older' = Uses(p)
  /\ calls' = [calls EXCEPT ![c] =
       [@ EXCEPT !.phase = "using", !.project = p, !.repository = entries[p]]]
  /\ UNCHANGED << entries, pending, live, requested, stopping, taken, openerClosed >>

\* Mutant: a second call for a project that is being opened opens it as well.
OpenAgain(c, p) ==
  /\ calls[c].phase = "idle"
  /\ ~requested
  /\ p \notin Cached
  /\ ~Full
  /\ pending' = pending \cup {p}
  /\ calls' = [calls EXCEPT ![c] = [@ EXCEPT !.phase = "opening", !.project = p]]
  /\ UNCHANGED << entries, older, live, requested, stopping, taken, openerClosed >>

\* Nobody has it open or is opening it, and there is room.
OpenReserves(c, p) ==
  /\ calls[c].phase = "idle"
  /\ ~requested
  /\ p \notin Cached \cup pending
  /\ ~Full
  /\ pending' = pending \cup {p}
  /\ calls' = [calls EXCEPT ![c] = [@ EXCEPT !.phase = "opening", !.project = p]]
  /\ UNCHANGED << entries, older, live, requested, stopping, taken, openerClosed >>

\* The least recently used entry that nobody holds makes room; with none, the call is
\* refused.
OpenEvicts(c, p) ==
  /\ calls[c].phase = "idle"
  /\ ~requested
  /\ p \notin Cached \cup pending
  /\ Full
  /\ \E q \in Projects :
       /\ LeastRecent(q)
       /\ entries' = [entries EXCEPT ![q] = None]
       /\ older' = Forgets(q)
       /\ calls' = [calls EXCEPT ![c] =
            [@ EXCEPT !.phase = "evicting", !.project = p, !.target = entries[q]]]
  /\ pending' = pending \cup {p}
  /\ UNCHANGED << live, requested, stopping, taken, openerClosed >>

Evict(c) ==
  /\ calls[c].phase = "evicting"
  /\ live' = live \ {calls[c].target}
  /\ calls' = [calls EXCEPT ![c] = [@ EXCEPT !.phase = "opening", !.target = None]]
  /\ UNCHANGED << entries, older, pending, requested, stopping, taken, openerClosed >>

--------------------------------------------------------------------------------
(* the opener, and openAggregate after it *)

\* openUncached answers with a repository of its own, unless it is shutting down.
Opened(c) ==
  /\ calls[c].phase = "opening"
  /\ ~openerClosed
  /\ \E r \in Repositories :
       /\ Gone(r)
       /\ live' = live \cup {r}
       /\ calls' = [calls EXCEPT ![c] = [@ EXCEPT !.phase = "publishing", !.repository = r]]
  /\ UNCHANGED << entries, older, pending, requested, stopping, taken, openerClosed >>

\* It fails, is cancelled or is shutting down; what it had opened it has closed.
OpenFails(c) ==
  /\ calls[c].phase = "opening"
  /\ calls' = [calls EXCEPT ![c].phase = "publishing"]
  /\ UNCHANGED << entries, older, pending, live, requested, stopping, taken, openerClosed >>

\* The section that ends the reservation, when there is nothing to publish.
PublishNothing(c) ==
  /\ calls[c].phase = "publishing"
  /\ calls[c].repository = None
  /\ pending' = pending \ {calls[c].project}
  /\ calls' = [calls EXCEPT ![c] = IdleCacheCall]
  /\ UNCHANGED << entries, older, live, requested, stopping, taken, openerClosed >>

\* Mutant: what was opened when the shutdown began is dropped, not closed.
PublishDropped(c) ==
  /\ calls[c].phase = "publishing"
  /\ calls[c].repository # None
  /\ requested
  /\ pending' = pending \ {calls[c].project}
  /\ calls' = [calls EXCEPT ![c] = IdleCacheCall]
  /\ UNCHANGED << entries, older, live, requested, stopping, taken, openerClosed >>

\* The shutdown began meanwhile: the reservation ends first, and the repository is closed
\* outside the section.
PublishTooLate(c) ==
  /\ calls[c].phase = "publishing"
  /\ calls[c].repository # None
  /\ requested
  /\ pending' = pending \ {calls[c].project}
  /\ calls' = [calls EXCEPT ![c] =
       [IdleCacheCall EXCEPT !.phase = "discarding", !.target = calls[c].repository]]
  /\ UNCHANGED << entries, older, live, requested, stopping, taken, openerClosed >>

\* The repository becomes the project's entry, or is closed where another one is the entry.
Publish(c) ==
  LET p == calls[c].project  r == calls[c].repository IN
  /\ calls[c].phase = "publishing"
  /\ r # None
  /\ ~requested
  /\ pending' = pending \ {p}
  /\ older' = Uses(p)
  /\ entries' = [entries EXCEPT ![p] = IF p \in Cached THEN @ ELSE r]
  /\ calls' = [calls EXCEPT ![c] =
       [ phase |-> IF p \in Cached THEN "discarding" ELSE "using", project |-> p,
         repository |-> entries'[p], target |-> IF p \in Cached THEN r ELSE None ]]
  /\ UNCHANGED << live, requested, stopping, taken, openerClosed >>

Discard(c) ==
  /\ calls[c].phase = "discarding"
  /\ live' = live \ {calls[c].target}
  /\ calls' = [calls EXCEPT ![c] =
       IF @.repository = None THEN IdleCacheCall
       ELSE [@ EXCEPT !.phase = "using", !.target = None]]
  /\ UNCHANGED << entries, older, pending, requested, stopping, taken, openerClosed >>

\* The context is cancelled or expired before the publishing section is entered: what was
\* opened is closed, and only then does the reservation end.
PublishRefused(c) ==
  /\ calls[c].phase = "publishing"
  /\ live' = live \ {calls[c].repository}
  /\ calls' = [calls EXCEPT ![c] = [@ EXCEPT !.phase = "abandoning", !.repository = None]]
  /\ UNCHANGED << entries, older, pending, requested, stopping, taken, openerClosed >>

\* Mutant: a cancelled publication leaves its reservation behind.
AbandonsReserved(c) ==
  /\ calls[c].phase = "abandoning"
  /\ calls' = [calls EXCEPT ![c] = IdleCacheCall]
  /\ UNCHANGED << entries, older, pending, live, requested, stopping, taken, openerClosed >>

Abandon(c) ==
  /\ calls[c].phase = "abandoning"
  /\ pending' = pending \ {calls[c].project}
  /\ calls' = [calls EXCEPT ![c] = IdleCacheCall]
  /\ UNCHANGED << entries, older, live, requested, stopping, taken, openerClosed >>

\* The caller lets its shared pointer go.
Release(c) ==
  /\ calls[c].phase = "using"
  /\ calls' = [calls EXCEPT ![c] = IdleCacheCall]
  /\ UNCHANGED << entries, older, pending, live, requested, stopping, taken, openerClosed >>

--------------------------------------------------------------------------------
(* close *)

\* Refused while the project is opening or pinned; an absent one is closed already.
CloseRemoves(c, p) ==
  /\ calls[c].phase = "idle"
  /\ p \notin pending
  /\ p \in Unpinned
  /\ entries' = [entries EXCEPT ![p] = None]
  /\ older' = Forgets(p)
  /\ calls' = [calls EXCEPT ![c] =
       [@ EXCEPT !.phase = "closing", !.project = p, !.target = entries[p]]]
  /\ UNCHANGED << pending, live, requested, stopping, taken, openerClosed >>

Close(c) ==
  /\ calls[c].phase = "closing"
  /\ live' = live \ {calls[c].target}
  /\ calls' = [calls EXCEPT ![c] = IdleCacheCall]
  /\ UNCHANGED << entries, older, pending, requested, stopping, taken, openerClosed >>

--------------------------------------------------------------------------------
(* shutdown *)

Completed == \E s \in Stoppers : stopping[s] = "done"

StopBegins(s) ==
  /\ stopping[s] = "idle"
  /\ ~requested
  /\ requested' = TRUE
  /\ stopping' = [stopping EXCEPT ![s] = "draining"]
  /\ UNCHANGED << entries, older, pending, calls, live, taken, openerClosed >>

\* A later caller waits until the shutdown that is going on has completed.
StopReturns(s) ==
  /\ stopping[s] = "idle"
  /\ Completed
  /\ stopping' = [stopping EXCEPT ![s] = "done"]
  /\ UNCHANGED << entries, older, pending, calls, live, requested, taken, openerClosed >>

\* Mutant: the shutdown does not wait for the reservations.
TakesAtOnce(s) ==
  /\ stopping[s] = "draining"
  /\ taken' = { entries[p] : p \in Cached }
  /\ entries' = [p \in Projects |-> None]
  /\ older' = {}
  /\ stopping' = [stopping EXCEPT ![s] = "closing"]
  /\ UNCHANGED << pending, calls, live, requested, openerClosed >>

\* Nothing is opening any more: every entry is taken, the pinned ones included.
StopTakes(s) ==
  /\ stopping[s] = "draining"
  /\ pending = {}
  /\ taken' = { entries[p] : p \in Cached }
  /\ entries' = [p \in Projects |-> None]
  /\ older' = {}
  /\ stopping' = [stopping EXCEPT ![s] = "closing"]
  /\ UNCHANGED << pending, calls, live, requested, openerClosed >>

StopCloses(s) ==
  /\ stopping[s] = "closing"
  /\ \E r \in taken : live' = live \ {r} /\ taken' = taken \ {r}
  /\ UNCHANGED << entries, older, pending, calls, requested, stopping, openerClosed >>

StopEnds(s) ==
  /\ stopping[s] = "closing"
  /\ taken = {}
  /\ openerClosed' = TRUE
  /\ stopping' = [stopping EXCEPT ![s] = "done"]
  /\ UNCHANGED << entries, older, pending, calls, live, requested, taken >>

--------------------------------------------------------------------------------
CacheInit ==
  /\ entries = [p \in Projects |-> None]
  /\ older = {} /\ pending = {} /\ live = {} /\ taken = {}
  /\ calls = [c \in Callers |-> IdleCacheCall]
  /\ requested = FALSE /\ openerClosed = FALSE
  /\ stopping = [s \in Stoppers |-> "idle"]

CallEnters(c) ==
  \E p \in Projects :
    OpenFinds(c, p) \/ OpenReserves(c, p) \/ OpenEvicts(c, p) \/ CloseRemoves(c, p)

CallOpens(c) ==
  \/ Evict(c) \/ Opened(c) \/ OpenFails(c) \/ PublishNothing(c) \/ PublishTooLate(c)
  \/ Publish(c) \/ Discard(c) \/ PublishRefused(c) \/ Abandon(c)

CallProceeds(c) == CallOpens(c) \/ Close(c)

StopProceeds(s) == StopTakes(s) \/ StopCloses(s) \/ StopEnds(s)

CacheNext ==
  \/ \E c \in Callers : CallEnters(c) \/ CallProceeds(c) \/ Release(c)
  \/ \E s \in Stoppers : StopBegins(s) \/ StopReturns(s) \/ StopProceeds(s)

\* A call that is admitted runs on in its thread, and so does a shutdown.
CacheFairness ==
  /\ \A c \in Callers : WF_cacheVars(CallProceeds(c))
  /\ \A s \in Stoppers : WF_cacheVars(StopProceeds(s))

CacheSpec == CacheInit /\ [][CacheNext]_cacheVars /\ CacheFairness

--------------------------------------------------------------------------------
CacheTypeOK ==
  /\ entries \in [Projects -> Repositories \cup {None}]
  /\ older \in SUBSET (Projects \X Projects)
  /\ pending \in SUBSET Projects
  /\ calls \in [Callers -> CacheCalls]
  /\ live \in SUBSET Repositories
  /\ requested \in BOOLEAN /\ openerClosed \in BOOLEAN
  /\ stopping \in [Stoppers -> { "idle", "draining", "closing", "done" }]
  /\ taken \in SUBSET Repositories

\* Entries and reservations together never exceed the limit, however the calls interleave
\* (ProjectMemoryRepositoryCache.cpp, openAggregate: a reservation becomes an entry).
CacheBounded == Cardinality(Cached) + Cardinality(pending) <= MaxOpen

\* A project is opened by one call at a time: what a call publishes never finds another
\* repository in its place.
OpenedOnce ==
  \A c \in Callers :
    calls[c].phase \in { "evicting", "opening", "publishing", "abandoning" } =>
      /\ calls[c].project \in pending \ Cached
      /\ \A d \in Callers \ {c} :
           calls[d].phase \in { "evicting", "opening", "publishing", "abandoning" } =>
             calls[d].project # calls[c].project

\* The repository a caller holds is open: eviction, close and a discarded open never close
\* one in use.  Only the shutdown of the cache does, once nothing is opening any more.
HeldIsOpen ==
  \A c \in Callers :
    calls[c].phase = "using" =>
      \/ calls[c].repository \in live
      \/ \E s \in Stoppers : stopping[s] \in { "closing", "done" }

\* No open repository is lost: it is an entry, or the call or the shutdown that will close
\* it still has it.
NoneLeaks ==
  \A r \in live :
    \/ \E p \in Projects : entries[p] = r
    \/ r \in taken
    \/ \E c \in Callers : calls[c].repository = r \/ calls[c].target = r

\* The opener is shut down only when no call is in it, and none enters it afterwards: the
\* reservations the shutdown waits for are exactly the calls that still need it.
OpenerQuiet ==
  openerClosed => \A c \in Callers : calls[c].phase \notin { "evicting", "opening" }
================================================================================

--------------------------- MODULE NativeSessionHost ---------------------------
(***************************************************************************)
(* The native session host: ForgeNativeSessionHostAdapter, one instance in *)
(* each process that composes it, over the ledger file those processes     *)
(* share, WindowsNativeSessionLedger: the Manager and every mcp-serve      *)
(* process share one, the runs of the SessionHost another.                 *)
(*                                                                         *)
(* An adapter call holds the adapter's serialized ownership in separate    *)
(* sections and talks to the provider between them.  Every section is one  *)
(* action, every provider exchange is one action, and calls of the same    *)
(* and of other processes interleave between them.                         *)
(*                                                                         *)
(* Abstracted: the file's revision number is compared only with the one a  *)
(* process loaded or committed last, so a process's view of the file is    *)
(* unloaded, current or stale; token counts, models, timestamps and the    *)
(* order of the records are left out.                                      *)
(***************************************************************************)
EXTENDS ContinuityModels, FiniteSets, Integers

CONSTANTS
  Hosts,            \* processes with a session-host adapter
  Calls,            \* concurrent callers of the adapters
  HostOf,           \* the process a call runs in
  Responses,        \* provider response ids
  Pending,          \* the provisional provider id a creation publishes
  Predecessors,     \* the sessions whose callers ask for a successor
  MaxRecords,       \* MaximumNativeSessionRecords (4096)
  FileFails,        \* whether writing the ledger file may fail
  Overlapping       \* whether the ledger commits of two processes may overlap: the choices

ASSUME HostOfAssumption == HostOf \in [Calls -> Hosts]
ASSUME PendingAssumption == Pending \notin Responses /\ None \notin Responses \cup {Pending}
ASSUME MaxRecordsAssumption == MaxRecords \in Nat \ {0}
ASSUME PredecessorsAssumption == Predecessors \subseteq Sessions
ASSUME FileFailsAssumption == FileFails \in BOOLEAN
ASSUME OverlappingAssumption == Overlapping \subseteq BOOLEAN

ProviderIds == Responses \cup {Pending, None}

\* Domain::HostSession as a caller holds it: a copy of the record when it was read.
HostSessions ==
  [ id : Sessions \cup {None}, operation : Operations, predecessor : Sessions,
    key : Keys, provider : ProviderIds ]

\* Domain::HostSessionStatus, without the two statuses no code ever stores.
Statuses == { "Creating", "Active", "Bootstrapping", "Ready", "Cancelled" }

\* Domain::NativeSessionRecord.  digest is the bound handoff, absent until a bootstrap
\* binds one; owner is the call whose cancellation ends the session.
Records ==
  [ session : HostSessions, status : Statuses,
    digest : Digests \cup {None}, owner : Calls ]

Phases ==
  { "idle", "intent", "create", "publish", "bind", "query", "rebind", "send",
    "finish", "done", "failed" }

HostCalls ==
  [ phase : Phases, session : HostSessions \cup {None},
    digest : Digests \cup {None}, cancelled : BOOLEAN ]

ASSUME HostNoneAssumption ==
  /\ None \notin Sessions
  /\ None \notin Records /\ None \notin HostSessions /\ None \notin Digests

VARIABLES
  durable,          \* the ledger file: the record of each idempotency key
  memory,           \* each process's loaded ledger, uncommitted changes included
  view,             \* what a process's ledger is to the file
  overlaps,         \* whether the ledger commits of two processes may overlap
  committing,       \* whose commit has compared the ledger with the file: see Compares
  hostCalls,        \* the adapter call each caller has in flight
  answered          \* what the provider has acknowledged: see Answer

hostVars == << durable, memory, view, overlaps, committing, hostCalls, answered >>

--------------------------------------------------------------------------------
EmptyLedger == [k \in Keys |-> None]

IdleCall ==
  [ phase |-> "idle", session |-> None, digest |-> None, cancelled |-> FALSE ]

\* The commit of an explicit cancellation, which no adapter call makes.
Committers == Calls \cup { "cancellation" }

\* The adapter's ownership is free, or held by this one's commit; its section gives it up.
Section(h, committer) ==
  /\ committing[h] \in { None, committer }
  /\ committing' = [committing EXCEPT ![h] = None]
  /\ UNCHANGED overlaps

\* Mutant: a process that cannot read the file starts with an empty ledger.
LoadedEmpty(h) == IF view[h] = "unloaded" THEN EmptyLedger ELSE memory[h]

\* ensureLoadedOwned: the first section of a process reads the file, no later one does.
Loaded(h) == IF view[h] = "unloaded" THEN durable ELSE memory[h]

Loads(h) ==
  /\ memory' = [memory EXCEPT ![h] = Loaded(h)]
  /\ view' = [view EXCEPT ![h] = IF @ = "unloaded" THEN "current" ELSE @]
  /\ UNCHANGED durable

KeysOf(ledger) == { k \in Keys : ledger[k] # None }

KeysOfSession(ledger, s) == { k \in KeysOf(ledger) : ledger[k].session.id = s }

\* Mutant: the file's revision is not compared.
CommitsOver(h, ledger) ==
  /\ durable' = ledger
  /\ memory' = [memory EXCEPT ![h] = ledger]
  /\ view' = [g \in Hosts |-> IF g = h THEN "current"
                              ELSE IF view[g] = "unloaded" THEN "unloaded"
                              ELSE "stale"]

\* Mutant: the commit returns before the file is written.
CommitsLater(h, ledger) ==
  /\ view[h] # "stale"
  /\ memory' = [memory EXCEPT ![h] = ledger]
  /\ view' = [view EXCEPT ![h] = "current"]
  /\ UNCHANGED durable

\* commitOwned refuses a ledger that the file has left behind when it compares the two.
\* Whether it succeeds or fails, the process keeps the change it made to its own copy.
Commits(h, ledger) ==
  /\ view[h] # "stale" \/ committing[h] # None
  /\ durable' = ledger
  /\ memory' = [memory EXCEPT ![h] = ledger]
  /\ view' = [g \in Hosts |-> IF g = h THEN "current"
                              ELSE IF view[g] = "unloaded" THEN "unloaded"
                              ELSE "stale"]

FailsToCommit(h, ledger) ==
  /\ FileFails \/ view[h] = "stale"
  /\ memory' = [memory EXCEPT ![h] = ledger]
  /\ view' = [view EXCEPT ![h] = IF @ = "unloaded" THEN "current" ELSE @]
  /\ UNCHANGED durable

\* A commit has compared the ledger with the file and not replaced the file yet: only the
\* other commits of its process wait for it.  A file that is not there yet is created,
\* and a second creation fails.
Compares(h, committer) ==
  /\ overlaps
  /\ committing[h] = None
  /\ view[h] # "stale"
  /\ durable # EmptyLedger
  /\ committing' = [committing EXCEPT ![h] = committer]
  /\ Loads(h)
  /\ UNCHANGED << overlaps, hostCalls, answered >>

Goes(p, phase) == hostCalls' = [hostCalls EXCEPT ![p].phase = phase]

\* Mutant: the call goes on though its commit has failed.
SavesOrNot(p, ledger, phase) ==
  /\ Goes(p, phase)
  /\ Commits(HostOf[p], ledger) \/ FailsToCommit(HostOf[p], ledger)

Saves(p, ledger, phase) ==
  \/ Commits(HostOf[p], ledger) /\ Goes(p, phase)
  \/ FailsToCommit(HostOf[p], ledger) /\ Goes(p, "failed")

--------------------------------------------------------------------------------
(* createSession                                                           *)

SameBinding(session, request) ==
  /\ session.operation = request.operation
  /\ session.predecessor = request.predecessor
  /\ session.key = request.key

Ledgers == { durable } \cup { memory[h] : h \in Hosts }

\* Every host session somebody holds.
HeldSessions ==
  (UNION { { ledger[k].session : k \in KeysOf(ledger) } : ledger \in Ledgers })
    \cup ({ hostCalls[p].session : p \in Calls } \ {None})

\* A generated UUID is the id of no session the host, or a caller, has heard of.
FreshSessions(known) ==
  Sessions \ (known \cup { s.id : s \in HeldSessions }
                    \cup { s.predecessor : s \in HeldSessions })

\* Mutant: there is always room.
AdmittingAlways(ledger) == { ledger }

\* Mutant: a full ledger gives up any record.
AdmittingForAny(ledger) ==
  IF Cardinality(KeysOf(ledger)) < MaxRecords
    THEN { ledger }
    ELSE { [ledger EXCEPT ![k] = None] : k \in KeysOf(ledger) }

\* A full ledger gives up one record that has ended, or refuses the creation.
Admitting(ledger) ==
  IF Cardinality(KeysOf(ledger)) < MaxRecords
    THEN { ledger }
    ELSE { [ledger EXCEPT ![k] = None] :
             k \in { j \in KeysOf(ledger) : ledger[j].status = "Cancelled" } }

RequestsCreation(p, request) ==
  hostCalls' = [hostCalls EXCEPT ![p] =
    [ phase |-> "intent", session |-> request, digest |-> None,
      cancelled |-> FALSE ]]

\* A caller asks for a successor, or recover for the one it was given the binding of.
StartCreate(p, request) ==
  /\ hostCalls[p].phase = "idle"
  /\ RequestsCreation(p, request)
  /\ UNCHANGED << durable, memory, view, committing, overlaps, answered >>

\* The key has a record: the call joins its creation, or returns its session.
CreateFindsRecord(p) ==
  LET ledger  == Loaded(HostOf[p])
      request == hostCalls[p].session
      record  == ledger[request.key]
  IN /\ hostCalls[p].phase = "intent"
     /\ Section(HostOf[p], p)
     /\ record # None
     /\ IF SameBinding(record.session, request) /\ record.status # "Cancelled"
          THEN hostCalls' = [hostCalls EXCEPT ![p] =
                 [@ EXCEPT !.session = record.session,
                           !.phase = IF record.session.provider # None THEN "done"
                                                                       ELSE "create"]]
          ELSE Goes(p, "failed")
     /\ Loads(HostOf[p])
     /\ UNCHANGED answered

\* A fresh logical session is recorded before the provider hears of it.
CreateRecordsIntent(p, known) ==
  LET h       == HostOf[p]
      ledger  == Loaded(h)
      request == hostCalls[p].session
  IN /\ hostCalls[p].phase = "intent"
     /\ Section(HostOf[p], p)
     /\ ledger[request.key] = None
     /\ \E admitting \in Admitting(ledger), s \in FreshSessions(known) :
          LET session == [request EXCEPT !.id = s]
              recorded == [admitting EXCEPT ![request.key] =
                [ session |-> session, status |-> "Creating", digest |-> None,
                  owner |-> p ]]
          IN \/ /\ Commits(h, recorded)
                /\ hostCalls' = [hostCalls EXCEPT ![p] =
                     [@ EXCEPT !.phase = "create", !.session = session]]
             \/ FailsToCommit(h, recorded) /\ Goes(p, "failed")
     /\ UNCHANGED answered

ProviderCreates(p) ==
  /\ hostCalls[p].phase = "create"
  /\ Goes(p, "publish")
  /\ UNCHANGED << durable, memory, view, committing, overlaps, answered >>

\* The created session becomes usable, unless this call was cancelled meanwhile.
Publish(p) ==
  LET h       == HostOf[p]
      ledger  == Loaded(h)
      session == hostCalls[p].session
      record  == ledger[session.key]
      published == [record EXCEPT !.session.provider = Pending, !.status = "Active"]
  IN /\ hostCalls[p].phase = "publish"
     /\ Section(HostOf[p], p)
     /\ IF record = None \/ record.session.id # session.id
          THEN Loads(h) /\ Goes(p, "failed")
        ELSE IF hostCalls[p].cancelled
          THEN Saves(p, [ledger EXCEPT ![session.key].status = "Cancelled"], "failed")
        ELSE IF record.session.provider \notin { None, Pending }
          THEN Loads(h) /\ Goes(p, "failed")
        ELSE LET saved == [ledger EXCEPT ![session.key] = published]
             IN \/ /\ Commits(h, saved)
                   /\ hostCalls' = [hostCalls EXCEPT ![p] =
                      [@ EXCEPT !.phase = "done", !.session = published.session]]
                \/ FailsToCommit(h, saved) /\ Goes(p, "failed")
     /\ UNCHANGED answered

--------------------------------------------------------------------------------
(* queryByIdempotencyKey                                                   *)

\* The session a key has, if its creation was published and it is not cancelled.
SessionOfKey(h, k) ==
  LET record == Loaded(h)[k]
  IN IF record = None \/ record.session.provider = None \/ record.status = "Cancelled"
       THEN None ELSE record.session

--------------------------------------------------------------------------------
(* bootstrap                                                               *)

RequestsBootstrap(p, session, digest) ==
  hostCalls' = [hostCalls EXCEPT ![p] =
    [ phase |-> "bind", session |-> session, digest |-> digest,
      cancelled |-> FALSE ]]

StartBootstrap(p, session, digest) ==
  /\ hostCalls[p].phase = "idle"
  /\ RequestsBootstrap(p, session, digest)
  /\ UNCHANGED << durable, memory, view, committing, overlaps, answered >>

\* Mutant: the handoff is not bound.
BootstrappingUnbound(record, p, digest) ==
  [record EXCEPT !.status = "Bootstrapping", !.owner = p]

Bootstrapping(record, p, digest) ==
  [record EXCEPT !.status = "Bootstrapping", !.owner = p, !.digest = digest]

\* Mutant: a session bound to the handoff counts as ready with it.
BindReplays(p) ==
  LET h       == HostOf[p]
      ledger  == Loaded(h)
      call    == hostCalls[p]
      k       == call.session.key
      record  == ledger[k]
  IN /\ call.phase = "bind"
     /\ Section(HostOf[p], p)
     /\ IF \/ KeysOfSession(ledger, call.session.id) = {}
           \/ record.session.provider # call.session.provider
           \/ record.status = "Cancelled"
           \/ record.digest \notin { None, call.digest }
          THEN Loads(h) /\ Goes(p, "failed")
        ELSE IF record.digest = call.digest
          THEN Loads(h) /\ Goes(p, "query")
        ELSE Saves(p, [ledger EXCEPT ![k] = Bootstrapping(record, p, call.digest)],
                   "send")
     /\ UNCHANGED answered

\* Mutant: a session is bound anew to another handoff.
BindAnew(p) ==
  LET h       == HostOf[p]
      ledger  == Loaded(h)
      call    == hostCalls[p]
      k       == call.session.key
      record  == ledger[k]
  IN /\ call.phase = "bind"
     /\ Section(HostOf[p], p)
     /\ IF \/ KeysOfSession(ledger, call.session.id) = {}
           \/ record.session.provider # call.session.provider
           \/ record.status = "Cancelled"
          THEN Loads(h) /\ Goes(p, "failed")
        ELSE IF record.status = "Ready" /\ record.digest = call.digest
          THEN Loads(h) /\ Goes(p, "query")
        ELSE Saves(p, [ledger EXCEPT ![k] = Bootstrapping(record, p, call.digest)],
                   "send")
     /\ UNCHANGED answered

\* The one handoff of the session is bound before it is sent; a session that is
\* ready with it is only asked about.
Bind(p) ==
  LET h       == HostOf[p]
      ledger  == Loaded(h)
      call    == hostCalls[p]
      k       == call.session.key
      record  == ledger[k]
  IN /\ call.phase = "bind"
     /\ Section(HostOf[p], p)
     /\ IF \/ KeysOfSession(ledger, call.session.id) = {}
           \/ record.session.provider # call.session.provider
           \/ record.status = "Cancelled"
           \/ record.digest \notin { None, call.digest }
          THEN Loads(h) /\ Goes(p, "failed")
        ELSE IF record.status = "Ready" /\ record.digest = call.digest
          THEN Loads(h) /\ Goes(p, "query")
        ELSE Saves(p, [ledger EXCEPT ![k] = Bootstrapping(record, p, call.digest)],
                   "send")
     /\ UNCHANGED answered

\* The provider still has the session ready, or it must be told the document again: it
\* has another status for it, or lost it and creates it again.  A session created again
\* under another id fails the call (CallFails).
ProviderReports(p) ==
  /\ hostCalls[p].phase = "query"
  /\ \E phase \in { "done", "rebind" } : Goes(p, phase)
  /\ UNCHANGED << durable, memory, view, committing, overlaps, answered >>

Rebind(p) ==
  LET h       == HostOf[p]
      ledger  == Loaded(h)
      call    == hostCalls[p]
      k       == call.session.key
  IN /\ call.phase = "rebind"
     /\ Section(HostOf[p], p)
     /\ IF KeysOfSession(ledger, call.session.id) = {} \/ ledger[k].digest # call.digest
          THEN Loads(h) /\ Goes(p, "failed")
          ELSE Saves(p, [ledger EXCEPT ![k] = Bootstrapping(@, p, call.digest)], "send")
     /\ UNCHANGED answered

\* The provider's acknowledgement of a session's document, with the key the session
\* was created for.
Answer(session, digest) ==
  [ session |-> session.id, key |-> session.key, digest |-> digest ]

\* The provider reads the canonical document and acknowledges it.
ProviderAcknowledges(p) ==
  /\ hostCalls[p].phase = "send"
  /\ Goes(p, "finish")
  /\ answered' = answered \cup { Answer(hostCalls[p].session, hostCalls[p].digest) }
  /\ UNCHANGED << durable, memory, view, committing, overlaps >>

\* A response id the provider has not given to a session somebody still holds.
FreshResponses == Responses \ { s.provider : s \in HeldSessions }

\* Mutant: an acknowledgement makes the session ready, cancelled or not.
FinishThoughCancelled(p) ==
  LET h       == HostOf[p]
      ledger  == Loaded(h)
      call    == hostCalls[p]
      k       == call.session.key
      record  == ledger[k]
  IN /\ call.phase = "finish"
     /\ Section(HostOf[p], p)
     /\ IF KeysOfSession(ledger, call.session.id) = {} \/ record.digest # call.digest
          THEN Loads(h) /\ Goes(p, "failed")
          ELSE \E id \in FreshResponses \cup { record.session.provider } :
                 Saves(p, [ledger EXCEPT ![k].status = "Ready",
                                         ![k].session.provider = id], "done")
     /\ UNCHANGED answered

\* The acknowledged session is ready, under the response's id if it has one.
Finish(p) ==
  LET h       == HostOf[p]
      ledger  == Loaded(h)
      call    == hostCalls[p]
      k       == call.session.key
      record  == ledger[k]
  IN /\ call.phase = "finish"
     /\ Section(HostOf[p], p)
     /\ IF KeysOfSession(ledger, call.session.id) = {} \/ record.digest # call.digest
          THEN Loads(h) /\ Goes(p, "failed")
        ELSE IF record.status = "Cancelled" \/ call.cancelled
          THEN Saves(p, [ledger EXCEPT ![k].status = "Cancelled"], "failed")
        ELSE \E id \in FreshResponses \cup { record.session.provider } :
               Saves(p, [ledger EXCEPT ![k].status = "Ready",
                                       ![k].session.provider = id], "done")
     /\ UNCHANGED answered

--------------------------------------------------------------------------------
(* awaitAcknowledgement                                                    *)

\* The session is ready with exactly this handoff of exactly this operation.
Acknowledges(h, session, digest) ==
  \E k \in KeysOfSession(Loaded(h), session.id) :
    /\ Loaded(h)[k].status = "Ready"
    /\ Loaded(h)[k].digest = digest
    /\ Loaded(h)[k].session.operation = session.operation

--------------------------------------------------------------------------------
(* Failures, cancellation, recovery and restarts                           *)

InFlight(p) == hostCalls[p].phase \notin { "idle", "done", "failed" }

\* The provider, the file or the queue refuses, or the deadline passes.
CallFails(p) ==
  /\ InFlight(p)
  /\ committing[HostOf[p]] # p
  /\ Goes(p, "failed")
  /\ UNCHANGED << durable, memory, view, committing, overlaps, answered >>

CallReturns(p) ==
  /\ hostCalls[p].phase \in { "done", "failed" }
  /\ hostCalls' = [hostCalls EXCEPT ![p] = IdleCall]
  /\ UNCHANGED << durable, memory, view, committing, overlaps, answered >>

\* Mutant: a cancelled session is marked as failed.
FailedRecords(ledger, doomed) ==
  [k \in Keys |-> IF k \in doomed THEN [ledger[k] EXCEPT !.status = "Failed"]
                                  ELSE ledger[k]]

CancelledRecords(ledger, doomed) ==
  [k \in Keys |-> IF k \in doomed THEN [ledger[k] EXCEPT !.status = "Cancelled"]
                                  ELSE ledger[k]]

\* cancel(operationId) of the context call p runs, or ran last, under.
Cancel(p) ==
  LET h == HostOf[p]
      ledger == Loaded(h)
      doomed == { k \in KeysOf(ledger) :
                    ledger[k].owner = p /\ ledger[k].status # "Cancelled" }
  IN /\ Section(h, "cancellation")
     /\ doomed # {} \/ (InFlight(p) /\ ~hostCalls[p].cancelled)
     /\ hostCalls' = [hostCalls EXCEPT ![p].cancelled = InFlight(p)]
     /\ IF doomed = {} THEN Loads(h)
        ELSE \/ Commits(h, CancelledRecords(ledger, doomed))
             \/ FailsToCommit(h, CancelledRecords(ledger, doomed))
     /\ UNCHANGED answered

\* recover(cancelOrphans), which the SessionHost process runs on command, and no process
\* with a coordinator.
CancelOrphans(h) ==
  LET ledger == Loaded(h)
      orphans == { k \in KeysOf(ledger) :
                     ledger[k].status \in { "Creating", "Active", "Bootstrapping" } }
      owners == { ledger[k].owner : k \in orphans }
  IN /\ Section(h, "cancellation")
     /\ orphans # {}
     /\ hostCalls' = [p \in Calls |->
          IF HostOf[p] = h /\ p \in owners /\ InFlight(p)
          THEN [hostCalls[p] EXCEPT !.cancelled = TRUE] ELSE hostCalls[p]]
     /\ \/ Commits(h, CancelledRecords(ledger, orphans))
        \/ FailsToCommit(h, CancelledRecords(ledger, orphans))
     /\ UNCHANGED answered

CallCompares(p) ==
  /\ hostCalls[p].phase \in { "intent", "publish", "bind", "rebind", "finish" }
  /\ Compares(HostOf[p], p)

\* A cancellation by the process has something to commit.
CancellationCompares(h) ==
  /\ \E k \in KeysOf(Loaded(h)) :
       \/ Loaded(h)[k].status \in { "Creating", "Active", "Bootstrapping" }
       \/ Loaded(h)[k].status = "Ready" /\ HostOf[Loaded(h)[k].owner] = h
  /\ Compares(h, "cancellation")

\* The process ends, by crash or shutdown, and starts again.
Restart(h) ==
  /\ view[h] # "unloaded"
  /\ memory' = [memory EXCEPT ![h] = EmptyLedger]
  /\ view' = [view EXCEPT ![h] = "unloaded"]
  /\ committing' = [committing EXCEPT ![h] = None]
  /\ hostCalls' = [p \in Calls |-> IF HostOf[p] = h THEN IdleCall ELSE hostCalls[p]]
  /\ UNCHANGED << durable, overlaps, answered >>

--------------------------------------------------------------------------------
HostInit ==
  /\ durable = EmptyLedger
  /\ memory = [h \in Hosts |-> EmptyLedger]
  /\ view = [h \in Hosts |-> "unloaded"]
  /\ overlaps \in Overlapping
  /\ committing = [h \in Hosts |-> None]
  /\ hostCalls = [p \in Calls |-> IdleCall]
  /\ answered = {}

\* The steps of a call once its caller has started it; known are the session ids its
\* caller has used elsewhere.
HostStep(p, known) ==
  \/ CreateFindsRecord(p)
  \/ CreateRecordsIntent(p, known)
  \/ ProviderCreates(p)
  \/ Publish(p)
  \/ Bind(p)
  \/ ProviderReports(p)
  \/ Rebind(p)
  \/ ProviderAcknowledges(p)
  \/ Finish(p)

CreationRequests ==
  [ id : {None}, operation : Operations, predecessor : Predecessors, key : Keys,
    provider : {None} ]

\* Callers that create sessions, and bootstrap the sessions they were given.
HostNext ==
  \/ \E p \in Calls :
       \/ \E request \in CreationRequests : StartCreate(p, request)
       \/ \E k \in Keys, c \in Contents :
            LET session == SessionOfKey(HostOf[p], k)
            IN /\ session # None
               /\ StartBootstrap(p, session,
                                 [ content |-> c, successor |-> session.id ])
       \/ HostStep(p, {})
       \/ CallCompares(p)
       \/ CallFails(p)
       \/ CallReturns(p)
       \/ Cancel(p)
  \/ \E h \in Hosts : CancellationCompares(h) \/ CancelOrphans(h) \/ Restart(h)

HostSpec == HostInit /\ [][HostNext]_hostVars

--------------------------------------------------------------------------------
(* Properties                                                              *)

\* The ledger document and the calls keep their types, on every path.
HostTypeOK ==
  /\ durable \in [Keys -> Records \cup {None}]
  /\ memory \in [Hosts -> [Keys -> Records \cup {None}]]
  /\ view \in [Hosts -> { "unloaded", "current", "stale" }]
  /\ overlaps \in BOOLEAN
  /\ committing \in [Hosts -> Committers \cup {None}]
  /\ hostCalls \in [Calls -> HostCalls]
  /\ answered \subseteq [ session : Sessions, key : Keys, digest : Digests ]

\* validateNativeSessionLedger: no ledger, in memory or on disk, has two records of one
\* session, a usable session without a provider, or one being bootstrapped without a
\* handoff; a process that broke this could never commit or load again.
LedgersValid ==
  \A ledger \in Ledgers : \A k \in KeysOf(ledger) :
    /\ ledger[k].session.key = k
    /\ KeysOfSession(ledger, ledger[k].session.id) = {k}
    /\ ledger[k].status \in { "Active", "Bootstrapping", "Ready" }
         => ledger[k].session.provider # None
    /\ ledger[k].status \in { "Bootstrapping", "Ready" } => ledger[k].digest # None

\* A session is ready, and a bootstrap reports success, only if the provider has really
\* acknowledged that session with that very handoff, whatever calls, replays, failed
\* commits and restarts came between.
ReadyMeansAnswered ==
  /\ \A ledger \in Ledgers : \A k \in KeysOf(ledger) :
       ledger[k].status = "Ready" =>
         Answer(ledger[k].session, ledger[k].digest) \in answered
  /\ \A p \in Calls :
       hostCalls[p].phase = "done" /\ hostCalls[p].digest # None =>
         Answer(hostCalls[p].session, hostCalls[p].digest) \in answered

\* Where commits do not overlap, two processes never hold two different ready sessions
\* for one idempotency key.
OneReadySession ==
  ~overlaps => \A one, two \in Ledgers, k \in Keys :
    /\ one[k] # None /\ one[k].status = "Ready"
    /\ two[k] # None /\ two[k].status = "Ready"
    => /\ one[k].session.id = two[k].session.id
       /\ one[k].digest = two[k].digest

\* Where commits do not overlap, the provider is sent a document only after the file has recorded that session with
\* that document: after a crash at any point the effect is known and replayed as the same.
IntentBeforeBootstrap ==
  ~overlaps => \A p \in Calls :
    hostCalls[p].phase \in { "send", "finish" } =>
      LET record == durable[hostCalls[p].session.key]
      IN /\ record # None
         /\ record.session.id = hostCalls[p].session.id
         /\ record.digest = hostCalls[p].digest

\* A ledger is committed "only if expectedRevision still matches durable state": while it
\* has room, no process overwrites the session another process has recorded for a key,
\* however old its own copy of the file is.
NoSessionLost ==
  [][ \A k \in KeysOf(durable) :
        durable'[k] # None /\ durable'[k].session.id = durable[k].session.id
    ]_hostVars

\* The same of processes whose commits do not overlap: there the comparison suffices.
NoSessionLostInTurn ==
  [][ ~overlaps => \A k \in KeysOf(durable) :
        durable'[k] # None /\ durable'[k].session.id = durable[k].session.id
    ]_hostVars

\* No ledger, uncommitted changes included, outgrows the bound the file is validated
\* against when it is loaded.
LedgerBounded ==
  \A ledger \in Ledgers : Cardinality(KeysOf(ledger)) <= MaxRecords

\* A full ledger makes room only by giving up a record that is cancelled, also where the
\* commit that gave it up fails: never one that is being created, active or ready.
EvictsOnlyCancelled ==
  [][ \A h \in Hosts : \A k \in KeysOf(memory[h]) :
        view'[h] # "unloaded" /\ memory'[h][k] = None
          => memory[h][k].status = "Cancelled"
    ]_hostVars

\* Where commits do not overlap, a session is bound to one handoff for good: no retry, replay or other process sends
\* it another document.
BoundOnce ==
  [][ ~overlaps => \A k \in KeysOf(durable) :
        durable[k].digest # None /\ durable'[k] # None
          /\ durable'[k].session.id = durable[k].session.id
        => durable'[k].digest = durable[k].digest
    ]_hostVars

\* A cancelled session comes back to life only by the step of a call of its own that had
\* passed its check for cancellation before; a call begun afterwards, a call for another
\* session, or a late acknowledgement, never revives it.
RevivedOnlyInFlight ==
  [][ \A h \in Hosts : \A k \in KeysOf(memory[h]) :
        /\ memory[h][k].status = "Cancelled"
        /\ view'[h] # "unloaded" /\ memory'[h][k] # None
        /\ memory'[h][k].session.id = memory[h][k].session.id
        /\ memory'[h][k].status # "Cancelled"
        => \E p \in Calls :
             /\ HostOf[p] = h /\ hostCalls[p].phase \in { "publish", "rebind" }
             /\ hostCalls[p].session.id = memory[h][k].session.id
             /\ hostCalls'[p].phase # hostCalls[p].phase
    ]_hostVars

================================================================================

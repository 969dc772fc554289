------------------------ MODULE NativeSessionHost_proofs ------------------------
(***************************************************************************)
(* Proofs about NativeSessionHost: for any processes, callers, keys and    *)
(* limit, the ledgers stay valid and bounded, a session is ready only when *)
(* the provider has acknowledged it, and, where the commits of processes   *)
(* do not overlap, a session has one handoff for good.  Where the ledger   *)
(* has room for every key, no recorded session is lost either.             *)
(***************************************************************************)
EXTENDS NativeSessionHost, FiniteSetTheorems, TLAPS

\* A record under key k, for what the provider has acknowledged.
RecordOK(k, record, acks) ==
  /\ record.session.id \in Sessions
  /\ record.session.key = k
  /\ record.status = "Active" => record.session.provider # None
  /\ record.digest # None => record.session.provider # None
  /\ record.status \in { "Bootstrapping", "Ready" } => record.digest # None
  /\ record.status = "Ready" => Answer(record.session, record.digest) \in acks

LedgerOK(ledger, acks) ==
  /\ ledger \in [Keys -> Records \cup {None}]
  /\ IsFiniteSet(KeysOf(ledger))
  /\ Cardinality(KeysOf(ledger)) <= MaxRecords
  /\ \A k \in KeysOf(ledger) : RecordOK(k, ledger[k], acks)

\* What a call in each phase has in its hands.
CallOK(call, acks) ==
  /\ call.phase \in { "intent", "create", "publish" } =>
       call.session # None /\ call.digest = None
  /\ call.phase \in { "create", "publish" } => call.session.id \in Sessions
  /\ call.phase \in { "bind", "query", "rebind", "send", "finish" } =>
       /\ call.session # None /\ call.session.id \in Sessions
       /\ call.session.provider # None /\ call.digest # None
  /\ call.phase \in { "query", "finish" } => Answer(call.session, call.digest) \in acks
  /\ call.phase = "done" /\ call.digest # None =>
       call.session # None /\ Answer(call.session, call.digest) \in acks

\* Somebody holds a session of this id and this key.
NamedInLedger(id, key) ==
  \E ledger \in Ledgers : \E k \in KeysOf(ledger) :
    ledger[k].session.id = id /\ ledger[k].session.key = key

NamedInCall(id, key) ==
  \E p \in Calls :
    /\ hostCalls[p].session # None
    /\ hostCalls[p].session.id = id /\ hostCalls[p].session.key = key

Named(id, key) == NamedInLedger(id, key) \/ NamedInCall(id, key)

\* A session id belongs to one key, whoever holds it.
Coherent ==
  \A id \in Sessions : \A j, k \in Keys : Named(id, j) /\ Named(id, k) => j = k

LedgersOK == \A ledger \in Ledgers : LedgerOK(ledger, answered)

CallsOK == \A p \in Calls : CallOK(hostCalls[p], answered)

Unloaded == \A h \in Hosts : view[h] = "unloaded" => memory[h] = EmptyLedger

\* The newer record is one of the same session, and keeps the handoff it was bound to.
Continues(older, newer) ==
  /\ newer.session.id = older.session.id
  /\ older.digest # None => newer.digest = older.digest

\* Where both ledgers have a session, the newer one keeps its handoff.
Bound(older, newer) ==
  \A k \in KeysOf(older) :
    newer[k] # None /\ newer[k].session.id = older[k].session.id
      => Continues(older[k], newer[k])

\* The newer ledger has every session of the older one.
Covers(older, newer) ==
  \A k \in KeysOf(older) : newer[k] # None /\ Continues(older[k], newer[k])

\* Where commits do not overlap, a current process is bound to what the file is bound to.
InTurn ==
  ~overlaps => \A h \in Hosts :
    /\ committing[h] = None
    /\ view[h] = "current" => Bound(durable, memory[h])

HostInv ==
  /\ HostTypeOK /\ LedgersOK /\ CallsOK /\ Unloaded /\ Coherent /\ InTurn

\* No ledger ever fills up.
HasRoom == IsFiniteSet(Keys) /\ Cardinality(Keys) <= MaxRecords

\* Where commits do not overlap and nothing is evicted, a current process has every
\* session of the file, and what is sent or ready is in the file.
Recorded(k, session, digest) ==
  /\ durable[k] # None
  /\ durable[k].session.id = session.id
  /\ durable[k].digest = digest

RoomInv ==
  ~overlaps =>
    /\ \A h \in Hosts : view[h] = "current" => Covers(durable, memory[h])
    /\ \A p \in Calls : hostCalls[p].phase \in { "send", "finish" } =>
         Recorded(hostCalls[p].session.key, hostCalls[p].session, hostCalls[p].digest)
    /\ \A ledger \in Ledgers : \A k \in KeysOf(ledger) : ledger[k].status = "Ready" =>
         Recorded(k, ledger[k].session, ledger[k].digest)

--------------------------------------------------------------------------------
(* What one section does to the ledger of its process                      *)

\* The process keeps the ledger in memory, and the file is left as it is.
KeepsInMemory(h, ledger) ==
  /\ memory' = [memory EXCEPT ![h] = ledger]
  /\ view' = [view EXCEPT ![h] = IF @ = "unloaded" THEN "current" ELSE @]
  /\ UNCHANGED durable

\* A section turns one ledger into another: it continues its records, gives up only
\* cancelled ones, none while there is room, and adds only sessions nobody has.
Develops(older, newer) ==
  /\ \A k \in KeysOf(older) : newer[k] # None => Continues(older[k], newer[k])
  /\ \A k \in KeysOf(older) : newer[k] = None => older[k].status = "Cancelled"
  /\ HasRoom => \A k \in KeysOf(older) : newer[k] # None
  /\ \A k \in KeysOf(newer) \ KeysOf(older) :
       /\ \A j \in Keys : ~Named(newer[k].session.id, j)
       /\ newer[k].status = "Creating"
       /\ \A j \in KeysOf(newer) \ KeysOf(older) : j = k

Advances(h, ledger) ==
  /\ Commits(h, ledger) \/ KeepsInMemory(h, ledger)
  /\ LedgerOK(ledger, answered)
  /\ Develops(Loaded(h), ledger)
  /\ overlaps' = overlaps
  /\ committing' \in [Hosts -> Committers \cup {None}]
  /\ ~overlaps => committing' = [g \in Hosts |-> None]
  /\ answered' = answered

\* No cancelled session is alive again.
RevivesNone(older, newer) ==
  \A k \in KeysOf(older) :
    older[k].status = "Cancelled" /\ newer[k] # None => newer[k].status = "Cancelled"

\* No cancelled session is alive again but one.
RevivesOnly(id, older, newer) ==
  \A k \in KeysOf(older) :
    older[k].status = "Cancelled" /\ newer[k] # None =>
      newer[k].status = "Cancelled" \/ older[k].session.id = id

\* What is ready was ready before.
ReadiesNone(older, newer) ==
  \A k \in KeysOf(newer) : newer[k].status = "Ready" =>
    k \in KeysOf(older) /\ older[k] = newer[k]

\* A section of call p.
CallSection(p, ledger) ==
  LET older == Loaded(HostOf[p])
      call  == hostCalls[p]
      next  == hostCalls'[p]
  IN /\ Advances(HostOf[p], ledger)
     /\ hostCalls' = [hostCalls EXCEPT ![p] = next]
     /\ next \in HostCalls
     /\ CallOK(next, answered)
     /\ \/ next.session = call.session
        \/ /\ next.session # None
           /\ ledger[next.session.key] # None
           /\ next.session = ledger[next.session.key].session
     /\ \/ ReadiesNone(older, ledger)
        \/ /\ call.phase = "finish"
           /\ \A k \in KeysOf(ledger) : ledger[k].status = "Ready" =>
                \/ k \in KeysOf(older) /\ older[k] = ledger[k]
                \/ /\ k = call.session.key
                   /\ ledger[k].session.id = call.session.id
                   /\ ledger[k].digest = call.digest
     /\ \/ RevivesNone(older, ledger)
        \/ call.phase \in { "publish", "rebind" } /\ RevivesOnly(call.session.id, older, ledger)
     /\ next.phase \notin { "publish", "rebind", "finish" }
     /\ next.phase = "send" =>
          /\ durable' = ledger
          /\ ledger[next.session.key] # None
          /\ ledger[next.session.key].session.id = next.session.id
          /\ ledger[next.session.key].digest = next.digest

\* The calls go on as they were, cancelled or not.
SameCalls ==
  /\ hostCalls' \in [Calls -> HostCalls]
  /\ \A p \in Calls :
       /\ hostCalls'[p].phase = hostCalls[p].phase
       /\ hostCalls'[p].session = hostCalls[p].session
       /\ hostCalls'[p].digest = hostCalls[p].digest

\* A section that no call goes on with: a cancellation, or the comparing half of a commit.
OtherSection(h, ledger) ==
  /\ Advances(h, ledger)
  /\ SameCalls
  /\ ReadiesNone(Loaded(h), ledger)
  /\ RevivesNone(Loaded(h), ledger)

Answers == [ session : Sessions, key : Keys, digest : Digests ]

\* A step of call p outside its sections.
CallOutside(p) ==
  LET call == hostCalls[p]
      next == hostCalls'[p]
  IN /\ UNCHANGED << durable, memory, view, committing, overlaps >>
     /\ answered \subseteq answered' /\ answered' \subseteq Answers
     /\ hostCalls' = [hostCalls EXCEPT ![p] = next]
     /\ next \in HostCalls
     /\ CallOK(next, answered')
     /\ \/ next.session \notin HostSessions \/ next.session.id \notin Sessions
        \/ next.session = call.session
        \/ \E ledger \in Ledgers : \E k \in KeysOf(ledger) : next.session = ledger[k].session
        \/ \A k \in Keys : Named(next.session.id, k) => next.session.key = k
     /\ next.phase # "send"
     /\ next.phase = "finish" =>
          call.phase = "send" /\ next.session = call.session /\ next.digest = call.digest

--------------------------------------------------------------------------------
(* Ledgers                                                                 *)

\* The pieces of the type invariant as the lemmas below use them.
LEMMA TypeFacts ==
  ASSUME HostTypeOK
  PROVE  /\ \A h \in Hosts : memory[h] \in [Keys -> Records \cup {None}]
         /\ \A ledger \in Ledgers : ledger \in [Keys -> Records \cup {None}]
         /\ \A p \in Calls : hostCalls[p] \in HostCalls /\ HostOf[p] \in Hosts
         /\ \A p \in Calls : hostCalls[p].session # None =>
              hostCalls[p].session \in HostSessions
BY HostOfAssumption DEF HostTypeOK, Ledgers, HostCalls

\* What a section works on is the file or its process's own copy.
LEMMA LoadedOK ==
  ASSUME HostInv, NEW h \in Hosts
  PROVE  Loaded(h) \in Ledgers /\ LedgerOK(Loaded(h), answered)
BY DEF HostInv, LedgersOK, Loaded, Ledgers

\* A record of a ledger is a record, under the key of its session.
LEMMA RecordFacts ==
  ASSUME NEW acks, NEW ledger, LedgerOK(ledger, acks), NEW k \in KeysOf(ledger)
  PROVE  /\ k \in Keys /\ ledger[k] \in Records /\ ledger[k].session \in HostSessions
         /\ ledger[k].session # None
         /\ ledger[k].session.id \in Sessions /\ ledger[k].session.key = k
         /\ RecordOK(k, ledger[k], acks)
BY HostNoneAssumption DEF LedgerOK, KeysOf, Records, RecordOK

\* The session a call holds is found under the key the call holds it for.
LEMMA FoundAtKey ==
  ASSUME HostInv, NEW p \in Calls, hostCalls[p].session # None,
         hostCalls[p].session.id \in Sessions,
         KeysOfSession(Loaded(HostOf[p]), hostCalls[p].session.id) # {}
  PROVE  /\ hostCalls[p].session.key \in KeysOf(Loaded(HostOf[p]))
         /\ Loaded(HostOf[p])[hostCalls[p].session.key].session.id = hostCalls[p].session.id
<1> DEFINE L == Loaded(HostOf[p])
<1> DEFINE id == hostCalls[p].session.id
<1>0. HostOf[p] \in Hosts /\ hostCalls[p].session \in HostSessions
  BY TypeFacts DEF HostInv
<1>1. L \in Ledgers /\ LedgerOK(L, answered)
  BY <1>0, LoadedOK
<1>2. PICK k \in KeysOf(L) : L[k].session.id = id
  BY DEF KeysOfSession
<1>3. k \in Keys /\ L[k].session.key = k
  BY <1>1, RecordFacts
<1>4. Named(id, k)
  BY <1>1, <1>2, <1>3 DEF Named, NamedInLedger
<1>5. Named(id, hostCalls[p].session.key)
  BY DEF Named, NamedInCall
<1>6. hostCalls[p].session.key \in Keys
  BY <1>0 DEF HostSessions
<1>7. k = hostCalls[p].session.key
  BY <1>3, <1>4, <1>5, <1>6 DEF HostInv, Coherent
<1> QED
  BY <1>2, <1>7

\* Replacing a record by another of the same key keeps a ledger in order.
LEMMA UpdateOK ==
  ASSUME NEW acks, NEW ledger, LedgerOK(ledger, acks), NEW k \in KeysOf(ledger),
         NEW record \in Records, RecordOK(k, record, acks)
  PROVE  /\ LedgerOK([ledger EXCEPT ![k] = record], acks)
         /\ KeysOf([ledger EXCEPT ![k] = record]) = KeysOf(ledger)
<1> DEFINE M == [ledger EXCEPT ![k] = record]
<1>1. k \in Keys /\ record # None
  BY HostNoneAssumption DEF KeysOf
<1>2. M \in [Keys -> Records \cup {None}]
  BY <1>1 DEF LedgerOK
<1>3. KeysOf(M) = KeysOf(ledger)
  BY <1>1 DEF KeysOf, LedgerOK
<1>4. \A j \in KeysOf(M) : RecordOK(j, M[j], acks)
  <2> SUFFICES ASSUME NEW j \in KeysOf(M) PROVE RecordOK(j, M[j], acks)
    OBVIOUS
  <2>1. CASE j = k
    BY <2>1, <1>1 DEF LedgerOK
  <2>2. CASE j # k
    <3>1. M[j] = ledger[j] /\ j \in KeysOf(ledger)
      BY <2>2, <1>3 DEF LedgerOK, KeysOf
    <3> QED
      BY <3>1 DEF LedgerOK
  <2> QED
    BY <2>1, <2>2
<1> QED
  BY <1>2, <1>3, <1>4 DEF LedgerOK

\* A section that changes nothing.
LEMMA LoadAdvances ==
  ASSUME HostInv, NEW h \in Hosts, NEW committer, Section(h, committer), Loads(h),
         answered' = answered
  PROVE  /\ Advances(h, Loaded(h))
         /\ ReadiesNone(Loaded(h), Loaded(h)) /\ RevivesNone(Loaded(h), Loaded(h))
<1>1. KeepsInMemory(h, Loaded(h))
  BY DEF Loads, KeepsInMemory
<1>2. LedgerOK(Loaded(h), answered)
  BY LoadedOK
<1>3. Develops(Loaded(h), Loaded(h))
  BY DEF Develops, Continues, KeysOf
<1>4. /\ overlaps' = overlaps
      /\ committing' \in [Hosts -> Committers \cup {None}]
      /\ ~overlaps => committing' = [g \in Hosts |-> None]
  BY DEF Section, HostInv, HostTypeOK, InTurn
<1>5. ReadiesNone(Loaded(h), Loaded(h)) /\ RevivesNone(Loaded(h), Loaded(h))
  BY DEF ReadiesNone, RevivesNone
<1> QED
  BY <1>1, <1>2, <1>3, <1>4, <1>5 DEF Advances

\* A section that replaces one record by another of the same session.
LEMMA UpdateAdvances ==
  ASSUME HostInv, NEW h \in Hosts, NEW committer, Section(h, committer),
         answered' = answered,
         NEW k \in KeysOf(Loaded(h)), NEW record \in Records,
         RecordOK(k, record, answered), Continues(Loaded(h)[k], record),
         \/ Commits(h, [Loaded(h) EXCEPT ![k] = record])
         \/ FailsToCommit(h, [Loaded(h) EXCEPT ![k] = record])
  PROVE  Advances(h, [Loaded(h) EXCEPT ![k] = record])
<1> DEFINE L == Loaded(h)
<1> DEFINE M == [L EXCEPT ![k] = record]
<1>1. Commits(h, M) \/ KeepsInMemory(h, M)
  BY DEF FailsToCommit, KeepsInMemory
<1>2. LedgerOK(L, answered)
  BY LoadedOK
<1>3. LedgerOK(M, answered) /\ KeysOf(M) = KeysOf(L)
  BY <1>2, UpdateOK
<1>4. L \in [Keys -> Records \cup {None}] /\ record # None /\ k \in Keys
  BY <1>2, HostNoneAssumption DEF LedgerOK, KeysOf
<1>5. Develops(L, M)
  <2>1. \A j \in KeysOf(L) : M[j] # None
    BY <1>3 DEF KeysOf
  <2>2. \A j \in KeysOf(L) : Continues(L[j], M[j])
    BY <1>4 DEF Continues, KeysOf
  <2> QED
    BY <1>3, <2>1, <2>2 DEF Develops
<1>6. /\ overlaps' = overlaps
      /\ committing' \in [Hosts -> Committers \cup {None}]
      /\ ~overlaps => committing' = [g \in Hosts |-> None]
  BY DEF Section, HostInv, HostTypeOK, InTurn
<1> QED
  BY <1>1, <1>3, <1>5, <1>6 DEF Advances

--------------------------------------------------------------------------------
(* The sections of a call                                                  *)

\* What Goes(p, phase) makes of a call.
LEMMA GoesFacts ==
  ASSUME HostTypeOK, NEW p \in Calls, NEW phase \in Phases, Goes(p, phase)
  PROVE  /\ hostCalls' = [hostCalls EXCEPT ![p] = hostCalls'[p]]
         /\ hostCalls'[p] \in HostCalls
         /\ hostCalls'[p].phase = phase
         /\ hostCalls'[p].session = hostCalls[p].session
         /\ hostCalls'[p].digest = hostCalls[p].digest
BY DEF Goes, HostTypeOK, HostCalls

\* A call that has failed changes no ledger.
LEMMA FailsUnchanged ==
  ASSUME HostInv, NEW p \in Calls, Section(HostOf[p], p), Loads(HostOf[p]),
         Goes(p, "failed"), answered' = answered
  PROVE  CallSection(p, Loaded(HostOf[p]))
<1>1. HostOf[p] \in Hosts
  BY HostOfAssumption
<1>2. /\ Advances(HostOf[p], Loaded(HostOf[p]))
      /\ ReadiesNone(Loaded(HostOf[p]), Loaded(HostOf[p]))
      /\ RevivesNone(Loaded(HostOf[p]), Loaded(HostOf[p]))
  BY <1>1, LoadAdvances
<1>3. /\ hostCalls' = [hostCalls EXCEPT ![p] = hostCalls'[p]]
      /\ hostCalls'[p] \in HostCalls /\ hostCalls'[p].phase = "failed"
      /\ hostCalls'[p].session = hostCalls[p].session
      /\ hostCalls'[p].digest = hostCalls[p].digest
  BY GoesFacts DEF HostInv, Phases
<1>4. CallOK(hostCalls'[p], answered)
  BY <1>3, SMTT(60) DEF CallOK
<1> QED
  BY <1>2, <1>3, <1>4 DEF CallSection

\* A section that replaces the record of its call's session and saves the ledger.
LEMMA SaveIsSection ==
  ASSUME HostInv, NEW p \in Calls, Section(HostOf[p], p), answered' = answered,
         NEW k \in KeysOf(Loaded(HostOf[p])), NEW record \in Records,
         RecordOK(k, record, answered), Continues(Loaded(HostOf[p])[k], record),
         NEW phase \in Phases \ { "publish", "rebind", "finish" },
         Saves(p, [Loaded(HostOf[p]) EXCEPT ![k] = record], phase),
         CallOK([hostCalls[p] EXCEPT !.phase = phase], answered),
         phase = "send" =>
           /\ k = hostCalls[p].session.key /\ record.session.id = hostCalls[p].session.id
           /\ record.digest = hostCalls[p].digest,
         record.status = "Ready" =>
           /\ hostCalls[p].phase = "finish"
           /\ k = hostCalls[p].session.key /\ record.session.id = hostCalls[p].session.id
           /\ record.digest = hostCalls[p].digest,
         \/ /\ hostCalls[p].phase \in { "publish", "rebind" }
            /\ Loaded(HostOf[p])[k].session.id = hostCalls[p].session.id
         \/ Loaded(HostOf[p])[k].status # "Cancelled"
         \/ record.status = "Cancelled"
  PROVE  CallSection(p, [Loaded(HostOf[p]) EXCEPT ![k] = record])
<1> DEFINE h == HostOf[p]
<1> DEFINE L == Loaded(h)
<1> DEFINE M == [L EXCEPT ![k] = record]
<1>0. h \in Hosts
  BY HostOfAssumption
<1>1. LedgerOK(L, answered) /\ L \in [Keys -> Records \cup {None}] /\ k \in Keys
  BY <1>0, LoadedOK DEF LedgerOK, KeysOf
<1>2. PICK result \in { phase, "failed" } :
        /\ Goes(p, result)
        /\ Commits(h, M) \/ FailsToCommit(h, M)
        /\ result # "failed" => Commits(h, M)
  BY DEF Saves
<1>3. Advances(h, M)
  BY <1>0, <1>2, UpdateAdvances
<1>4. /\ hostCalls' = [hostCalls EXCEPT ![p] = hostCalls'[p]]
      /\ hostCalls'[p] \in HostCalls /\ hostCalls'[p].phase = result
      /\ hostCalls'[p].session = hostCalls[p].session
      /\ hostCalls'[p].digest = hostCalls[p].digest
  <2>1. result \in Phases
    BY <1>2 DEF Phases
  <2> QED
    BY <1>2, <2>1, GoesFacts DEF HostInv
<1>5. CallOK(hostCalls'[p], answered)
  <2>1. CASE result = "failed"
    BY <2>1, <1>4 DEF CallOK
  <2>2. CASE result = phase
    <3>1. hostCalls[p] \in HostCalls
      BY DEF HostInv, HostTypeOK
    <3> QED
      BY <2>2, <1>4, <3>1 DEF CallOK, HostCalls
  <2> QED
    BY <1>2, <2>1, <2>2
<1>6. M[k] = record /\ \A j \in Keys : j # k => M[j] = L[j]
  BY <1>1
<1>7. KeysOf(M) = KeysOf(L) /\ record # None
  BY <1>1, UpdateOK, HostNoneAssumption
<1>8. \/ ReadiesNone(L, M)
      \/ /\ hostCalls[p].phase = "finish"
         /\ \A j \in KeysOf(M) : M[j].status = "Ready" =>
              \/ j \in KeysOf(L) /\ L[j] = M[j]
              \/ /\ j = hostCalls[p].session.key
                 /\ M[j].session.id = hostCalls[p].session.id
                 /\ M[j].digest = hostCalls[p].digest
  BY <1>6, <1>7 DEF ReadiesNone, KeysOf
<1>9. \/ RevivesNone(L, M)
      \/ /\ hostCalls[p].phase \in { "publish", "rebind" }
         /\ RevivesOnly(hostCalls[p].session.id, L, M)
  BY <1>6 DEF RevivesNone, RevivesOnly, KeysOf
<1>10. hostCalls'[p].phase \notin { "publish", "rebind", "finish" }
  BY <1>2, <1>4
<1>11. hostCalls'[p].phase = "send" =>
         /\ durable' = M
         /\ M[hostCalls'[p].session.key] # None
         /\ M[hostCalls'[p].session.key].session.id = hostCalls'[p].session.id
         /\ M[hostCalls'[p].session.key].digest = hostCalls'[p].digest
  BY <1>2, <1>4, <1>6, <1>7 DEF Commits
<1> QED
  BY <1>3, <1>4, <1>5, <1>8, <1>9, <1>10, <1>11 DEF CallSection

\* CreateFindsRecord joins the creation of its key, and changes no ledger.
LEMMA FindsIsSection ==
  ASSUME HostInv, NEW p \in Calls, CreateFindsRecord(p)
  PROVE  CallSection(p, Loaded(HostOf[p])) /\ hostCalls[p].phase = "intent"
<1> DEFINE h == HostOf[p]
<1> DEFINE L == Loaded(h)
<1> DEFINE key == hostCalls[p].session.key
<1>0. h \in Hosts /\ hostCalls[p] \in HostCalls /\ CallOK(hostCalls[p], answered)
  BY HostOfAssumption DEF HostInv, HostTypeOK, CallsOK
<1>1. /\ hostCalls[p].phase = "intent" /\ Section(h, p) /\ L[key] # None /\ Loads(h)
      /\ answered' = answered
  BY DEF CreateFindsRecord
<1>2. hostCalls[p].session \in HostSessions /\ key \in Keys /\ hostCalls[p].digest = None
  BY <1>0, <1>1 DEF CallOK, HostCalls, HostSessions
<1>3. key \in KeysOf(L)
  BY <1>1, <1>2 DEF KeysOf
<1>4. LedgerOK(L, answered)
  BY <1>0, LoadedOK
<1>5. L[key] \in Records /\ L[key].session \in HostSessions /\ L[key].session # None
      /\ L[key].session.id \in Sessions /\ L[key].session.key = key
  BY <1>3, <1>4, RecordFacts
<1>6. CASE Goes(p, "failed")
  BY <1>1, <1>6, FailsUnchanged
<1>7. CASE hostCalls' = [hostCalls EXCEPT ![p] =
              [@ EXCEPT !.session = L[key].session,
                 !.phase = IF L[key].session.provider # None THEN "done" ELSE "create"]]
  <2>2. /\ hostCalls'[p].session = L[key].session
        /\ hostCalls'[p].phase \in { "done", "create" }
        /\ hostCalls'[p].digest = None
        /\ hostCalls'[p] \in HostCalls
    BY <1>7, <1>0, <1>2, <1>5, Zenon DEF HostInv, HostTypeOK, HostCalls, Phases
  <2>3. CallOK(hostCalls'[p], answered)
    BY <2>2, <1>5 DEF CallOK
  <2>4. hostCalls' = [hostCalls EXCEPT ![p] = hostCalls'[p]]
    BY <1>7 DEF HostInv, HostTypeOK
  <2>5. Advances(h, L) /\ ReadiesNone(L, L) /\ RevivesNone(L, L)
    BY <1>0, <1>1, LoadAdvances, SMTT(60)
  <2> QED
    BY <2>2, <2>3, <2>4, <2>5, <1>1, <1>3, <1>5 DEF CallSection, KeysOf
<1> QED
  BY <1>1, <1>6, <1>7 DEF CreateFindsRecord

\* Publish publishes or cancels the session it created, if that is still recorded.
LEMMA PublishIsSection ==
  ASSUME HostInv, NEW p \in Calls, Publish(p)
  PROVE  \E ledger : CallSection(p, ledger)
<1> DEFINE h == HostOf[p]
<1> DEFINE L == Loaded(h)
<1> DEFINE own == hostCalls[p].session
<1> DEFINE key == own.key
<1> DEFINE record == L[key]
<1> DEFINE published == [record EXCEPT !.session.provider = Pending, !.status = "Active"]
<1>0. h \in Hosts /\ hostCalls[p] \in HostCalls /\ CallOK(hostCalls[p], answered)
  BY HostOfAssumption DEF HostInv, HostTypeOK, CallsOK
<1>1. hostCalls[p].phase = "publish" /\ Section(h, p) /\ answered' = answered
  BY DEF Publish
<1>2. own \in HostSessions /\ key \in Keys /\ hostCalls[p].digest = None
  BY <1>0, <1>1 DEF CallOK, HostCalls, HostSessions
<1>3. CASE Loads(h) /\ Goes(p, "failed")
  BY <1>1, <1>3, FailsUnchanged
<1>4. ASSUME record # None, record.session.id = own.id
      PROVE  /\ key \in KeysOf(L) /\ record \in Records /\ record.session \in HostSessions
             /\ RecordOK(key, record, answered)
  <2>1. key \in KeysOf(L)
    BY <1>4, <1>2 DEF KeysOf
  <2>2. LedgerOK(L, answered)
    BY <1>0, LoadedOK
  <2> QED
    BY <2>1, <2>2, RecordFacts
<1>5. CASE /\ record # None /\ record.session.id = own.id
           /\ Saves(p, [L EXCEPT ![key].status = "Cancelled"], "failed")
  <2> DEFINE cancelled == [record EXCEPT !.status = "Cancelled"]
  <2>1. cancelled \in Records
    BY <1>4, <1>5 DEF Records, Statuses
  <2>2. RecordOK(key, cancelled, answered) /\ Continues(record, cancelled)
        /\ cancelled.status = "Cancelled"
    BY <1>4, <1>5, Zenon DEF Records, RecordOK, Continues
  <2>3. CallOK([hostCalls[p] EXCEPT !.phase = "failed"], answered)
    BY <1>0, SMTT(60) DEF CallOK, HostCalls
  <2>4. CallSection(p, [L EXCEPT ![key] = cancelled])
    BY <1>1, <1>4, <1>5, <2>1, <2>2, <2>3, SaveIsSection DEF Phases
  <2> QED
    BY <2>4, Zenon
<1>6. CASE /\ record # None /\ record.session.id = own.id
           /\ \/ /\ Commits(h, [L EXCEPT ![key] = published])
                 /\ hostCalls' = [hostCalls EXCEPT ![p] =
                      [@ EXCEPT !.phase = "done", !.session = published.session]]
              \/ FailsToCommit(h, [L EXCEPT ![key] = published]) /\ Goes(p, "failed")
  <2> DEFINE M == [L EXCEPT ![key] = published]
  <2>1. /\ published \in Records /\ published.session \in HostSessions
        /\ published.status = "Active" /\ published.session.provider = Pending
        /\ published.session.id = record.session.id
        /\ published.session.key = record.session.key
        /\ published.digest = record.digest
    BY <1>4, <1>6, Zenon DEF Records, HostSessions, ProviderIds, Statuses
  <2>2. Pending # None
    BY PendingAssumption
  <2>3. RecordOK(key, published, answered) /\ Continues(record, published)
    BY <1>4, <1>6, <2>1, <2>2, Zenon DEF RecordOK, Continues
  <2>4. Advances(h, M)
    BY <1>0, <1>1, <1>4, <1>6, <2>1, <2>3, UpdateAdvances, Zenon
  <2>5. LedgerOK(L, answered) /\ L \in [Keys -> Records \cup {None}]
    BY <1>0, LoadedOK DEF LedgerOK
  <2>6. M[key] = published /\ published # None /\ \A j \in Keys : j # key => M[j] = L[j]
    BY <1>2, <2>1, <2>5, HostNoneAssumption, Zenon
  <2>7. ReadiesNone(L, M) /\ RevivesOnly(own.id, L, M)
    BY <1>6, <2>1, <2>6, Zenon DEF ReadiesNone, RevivesOnly, KeysOf
  <2>8. CASE /\ Commits(h, M)
             /\ hostCalls' = [hostCalls EXCEPT ![p] =
                  [@ EXCEPT !.phase = "done", !.session = published.session]]
    <3>2. /\ hostCalls'[p].session = published.session
          /\ hostCalls'[p].phase = "done" /\ hostCalls'[p].digest = None
          /\ hostCalls'[p] \in HostCalls
          /\ hostCalls' = [hostCalls EXCEPT ![p] = hostCalls'[p]]
      <4>1. "done" \in Phases /\ HostTypeOK
        BY DEF Phases, HostInv
      <4>2. PICK copy \in HostSessions : copy = published.session
        BY <2>1, Zenon
      <4>3. hostCalls' = [hostCalls EXCEPT ![p] =
              [@ EXCEPT !.phase = "done", !.session = copy]]
        BY <2>8, <4>2, Zenon
      <4> HIDE DEF published, M
      <4>4. hostCalls'[p] = [hostCalls[p] EXCEPT !.phase = "done", !.session = copy]
        BY <4>1, <4>3 DEF HostTypeOK
      <4>5. hostCalls' = [hostCalls EXCEPT ![p] = hostCalls'[p]]
        BY <4>3, <4>4
      <4>6. /\ hostCalls'[p].session = copy /\ hostCalls'[p].phase = "done"
            /\ hostCalls'[p].digest = hostCalls[p].digest
            /\ hostCalls'[p] \in HostCalls
        BY <1>0, <4>1, <4>4 DEF HostCalls
      <4> QED
        BY <1>2, <4>2, <4>5, <4>6
    <3>3. CallOK(hostCalls'[p], answered)
      BY <3>2 DEF CallOK
    <3>5. hostCalls'[p].session.key = key /\ hostCalls'[p].session # None
      BY <3>2, <2>1, <1>4, <1>6, HostNoneAssumption, Zenon DEF RecordOK
    <3>6. CallSection(p, M)
      BY <1>1, <2>4, <2>6, <2>7, <3>2, <3>3, <3>5, Zenon DEF CallSection
    <3> QED
      BY <3>6
  <2>9. CASE FailsToCommit(h, M) /\ Goes(p, "failed")
    <3>1. /\ hostCalls' = [hostCalls EXCEPT ![p] = hostCalls'[p]]
          /\ hostCalls'[p] \in HostCalls /\ hostCalls'[p].phase = "failed"
          /\ hostCalls'[p].session = hostCalls[p].session
      BY <2>9, GoesFacts DEF HostInv, Phases
    <3>2. CallOK(hostCalls'[p], answered)
      BY <3>1, SMTT(60) DEF CallOK
    <3>3. CallSection(p, M)
      BY <1>1, <2>4, <2>7, <3>1, <3>2 DEF CallSection
    <3> QED
      BY <3>3
  <2> QED
    BY <1>6, <2>8, <2>9
<1>7. \/ Loads(h) /\ Goes(p, "failed")
      \/ /\ record # None /\ record.session.id = own.id
         /\ Saves(p, [L EXCEPT ![key].status = "Cancelled"], "failed")
      \/ /\ record # None /\ record.session.id = own.id
         /\ \/ /\ Commits(h, [L EXCEPT ![key] = published])
               /\ hostCalls' = [hostCalls EXCEPT ![p] =
                    [@ EXCEPT !.phase = "done", !.session = published.session]]
            \/ FailsToCommit(h, [L EXCEPT ![key] = published]) /\ Goes(p, "failed")
  BY ZenonT(30) DEF Publish
<1> QED
  BY <1>3, <1>5, <1>6, <1>7, Zenon

\* A generated session id is one nobody holds.
LEMMA FreshIsNew ==
  ASSUME HostTypeOK, NEW known, NEW s \in FreshSessions(known)
  PROVE  s \in Sessions /\ \A j : ~Named(s, j)
<1>1. s \in Sessions /\ \A held \in HeldSessions : held.id # s
  BY DEF FreshSessions
<1>2. \A ledger \in Ledgers : \A k \in KeysOf(ledger) : ledger[k].session \in HeldSessions
  BY DEF HeldSessions
<1>3. \A p \in Calls : hostCalls[p].session # None => hostCalls[p].session \in HeldSessions
  BY DEF HeldSessions
<1> QED
  BY <1>1, <1>2, <1>3 DEF Named, NamedInLedger, NamedInCall

\* Making room leaves a record to spare, and gives up a cancelled one at most.
LEMMA AdmitOK ==
  ASSUME NEW acks, NEW L, LedgerOK(L, acks), NEW key \in Keys, L[key] = None,
         NEW admitting \in Admitting(L)
  PROVE  /\ admitting \in [Keys -> Records \cup {None}]
         /\ IsFiniteSet(KeysOf(admitting))
         /\ Cardinality(KeysOf(admitting)) + 1 <= MaxRecords
         /\ KeysOf(admitting) \subseteq KeysOf(L) /\ admitting[key] = None
         /\ \A k \in KeysOf(admitting) : admitting[k] = L[k]
         /\ \A k \in KeysOf(L) \ KeysOf(admitting) : L[k].status = "Cancelled"
         /\ HasRoom => KeysOf(admitting) = KeysOf(L)
<1>1. /\ L \in [Keys -> Records \cup {None}] /\ IsFiniteSet(KeysOf(L))
      /\ Cardinality(KeysOf(L)) \in Nat /\ Cardinality(KeysOf(L)) <= MaxRecords
      /\ MaxRecords \in Nat
  BY FS_CardinalityType, MaxRecordsAssumption DEF LedgerOK
<1>2. CASE Cardinality(KeysOf(L)) < MaxRecords
  <2>1. admitting = L
    BY <1>2 DEF Admitting
  <2> QED
    BY <1>1, <1>2, <2>1 DEF KeysOf
<1>3. CASE ~(Cardinality(KeysOf(L)) < MaxRecords)
  <2>1. PICK j \in KeysOf(L) :
          L[j].status = "Cancelled" /\ admitting = [L EXCEPT ![j] = None]
    BY <1>3 DEF Admitting
  <2>2. KeysOf(admitting) = KeysOf(L) \ {j} /\ j \in Keys
    BY <1>1, <2>1 DEF KeysOf
  <2>3. IsFiniteSet(KeysOf(admitting))
        /\ Cardinality(KeysOf(admitting)) = Cardinality(KeysOf(L)) - 1
    <3>1. IsFiniteSet(KeysOf(L)) /\ j \in KeysOf(L)
      BY <1>1, <2>1
    <3>2. IsFiniteSet(KeysOf(L) \ {j})
          /\ Cardinality(KeysOf(L) \ {j}) = Cardinality(KeysOf(L)) - 1
      BY <3>1, FS_RemoveElement
    <3> QED
      BY <2>2, <3>2
  <2>4. admitting \in [Keys -> Records \cup {None}]
    BY <1>1, <2>1
  <2>5. ~HasRoom
    <3> SUFFICES ASSUME HasRoom PROVE FALSE
      OBVIOUS
    <3>1. KeysOf(L) \subseteq Keys \ {key}
      BY DEF KeysOf
    <3>2. IsFiniteSet(Keys \ {key}) /\ Cardinality(Keys \ {key}) = Cardinality(Keys) - 1
      BY FS_RemoveElement DEF HasRoom
    <3>3. Cardinality(KeysOf(L)) <= Cardinality(Keys \ {key})
      BY <3>1, <3>2, FS_Subset
    <3>4. Cardinality(Keys) \in Nat
      BY FS_CardinalityType DEF HasRoom
    <3> QED
      BY <1>1, <1>3, <3>2, <3>3, <3>4 DEF HasRoom
  <2>6. /\ admitting[key] = None
        /\ \A k \in KeysOf(admitting) : admitting[k] = L[k]
        /\ \A k \in KeysOf(L) \ KeysOf(admitting) : L[k].status = "Cancelled"
    <3>1. \A k \in Keys : k # j => admitting[k] = L[k]
      BY <1>1, <2>1, <2>2
    <3>2. admitting[j] = None
      BY <1>1, <2>1, <2>2
    <3>3. KeysOf(admitting) \subseteq Keys
      BY DEF KeysOf
    <3>4. \A k \in KeysOf(L) \ KeysOf(admitting) : k = j
      BY <2>2
    <3> QED
      BY <2>1, <2>2, <3>1, <3>2, <3>3, <3>4
  <2> QED
    BY <1>1, <2>2, <2>3, <2>4, <2>5, <2>6
<1> QED
  BY <1>2, <1>3

\* CreateRecordsIntent records a session nobody has before the provider hears of it.
LEMMA RecordsIsSection ==
  ASSUME HostInv, NEW p \in Calls, NEW known, CreateRecordsIntent(p, known)
  PROVE  \E ledger : CallSection(p, ledger)
<1> DEFINE h == HostOf[p]
<1> DEFINE L == Loaded(h)
<1> DEFINE key == hostCalls[p].session.key
<1>0. h \in Hosts /\ hostCalls[p] \in HostCalls /\ CallOK(hostCalls[p], answered)
  BY HostOfAssumption DEF HostInv, HostTypeOK, CallsOK
<1>1. /\ hostCalls[p].phase = "intent" /\ Section(h, p) /\ answered' = answered
      /\ L[key] = None
  BY DEF CreateRecordsIntent
<1>2. hostCalls[p].session \in HostSessions /\ key \in Keys /\ hostCalls[p].digest = None
  BY <1>0, <1>1 DEF CallOK, HostCalls, HostSessions
<1>3. LedgerOK(L, answered)
  BY <1>0, LoadedOK
<1>4. PICK admitting \in Admitting(L), s \in FreshSessions(known) :
        LET made == [hostCalls[p].session EXCEPT !.id = s]
            recorded == [admitting EXCEPT ![key] =
              [ session |-> made, status |-> "Creating", digest |-> None, owner |-> p ]]
        IN \/ /\ Commits(h, recorded)
              /\ hostCalls' = [hostCalls EXCEPT ![p] =
                   [@ EXCEPT !.phase = "create", !.session = made]]
           \/ FailsToCommit(h, recorded) /\ Goes(p, "failed")
  BY DEF CreateRecordsIntent
<1> DEFINE made == [hostCalls[p].session EXCEPT !.id = s]
<1> DEFINE intent ==
      [ session |-> made, status |-> "Creating", digest |-> None, owner |-> p ]
<1> DEFINE M == [admitting EXCEPT ![key] = intent]
<1>5. s \in Sessions /\ \A j : ~Named(s, j)
  BY FreshIsNew DEF HostInv
<1>6. made \in HostSessions /\ made.id = s /\ made.key = key
  BY <1>2, <1>5 DEF HostSessions
<1>7. intent \in Records /\ intent # None /\ RecordOK(key, intent, answered)
  <2>1. PICK copy \in HostSessions : copy = made /\ copy.id = s /\ copy.key = key
    BY <1>6
  <2>2. intent = [ session |-> copy, status |-> "Creating", digest |-> None, owner |-> p ]
    BY <2>1
  <2> HIDE DEF intent, made
  <2>3. intent \in Records
    BY <2>2 DEF Records, Statuses
  <2>4. RecordOK(key, intent, answered)
    BY <1>5, <2>1, <2>2 DEF RecordOK
  <2> QED
    BY <2>3, <2>4, HostNoneAssumption
<1>8. /\ admitting \in [Keys -> Records \cup {None}]
      /\ IsFiniteSet(KeysOf(admitting))
      /\ Cardinality(KeysOf(admitting)) + 1 <= MaxRecords
      /\ KeysOf(admitting) \subseteq KeysOf(L) /\ admitting[key] = None
      /\ \A k \in KeysOf(admitting) : admitting[k] = L[k]
      /\ \A k \in KeysOf(L) \ KeysOf(admitting) : L[k].status = "Cancelled"
      /\ HasRoom => KeysOf(admitting) = KeysOf(L)
  BY <1>1, <1>2, <1>3, AdmitOK
<1>9. /\ M \in [Keys -> Records \cup {None}]
      /\ KeysOf(M) = KeysOf(admitting) \cup {key}
      /\ M[key] = intent
      /\ \A k \in Keys : k # key => M[k] = admitting[k]
  <2> HIDE DEF intent
  <2> QED
    BY <1>2, <1>7, <1>8 DEF KeysOf
<1>10. key \notin KeysOf(L) /\ key \notin KeysOf(admitting)
  BY <1>1, <1>8 DEF KeysOf
<1>11. LedgerOK(M, answered)
  <2>1. /\ IsFiniteSet(KeysOf(M))
        /\ Cardinality(KeysOf(M)) = Cardinality(KeysOf(admitting)) + 1
    <3> HIDE DEF M, intent
    <3>1. IsFiniteSet(KeysOf(admitting)) /\ key \notin KeysOf(admitting)
      BY <1>8, <1>10
    <3>2. IsFiniteSet(KeysOf(admitting) \cup {key})
          /\ Cardinality(KeysOf(admitting) \cup {key}) = Cardinality(KeysOf(admitting)) + 1
      BY <3>1, FS_AddElement
    <3> QED
      BY <1>9, <3>2
  <2>2. \A k \in KeysOf(M) : RecordOK(k, M[k], answered)
    <3> SUFFICES ASSUME NEW k \in KeysOf(M) PROVE RecordOK(k, M[k], answered)
      OBVIOUS
    <3>1. CASE k = key
      BY <1>7, <1>9, <3>1
    <3>2. CASE k # key
      <4>1. k \in KeysOf(L) /\ M[k] = L[k]
        BY <1>8, <1>9, <3>2 DEF KeysOf
      <4> QED
        BY <1>3, <4>1 DEF LedgerOK
    <3> QED
      BY <3>1, <3>2
  <2> QED
    BY <1>8, <1>9, <2>1, <2>2 DEF LedgerOK
<1>12. Develops(L, M)
  <2> HIDE DEF intent, M
  <2>1. \A k \in KeysOf(L) : M[k] # None => M[k] = L[k]
    BY <1>8, <1>9, <1>10 DEF KeysOf
  <2>2. \A k \in KeysOf(L) : M[k] = None => k \notin KeysOf(admitting)
    BY <1>9, <1>10 DEF KeysOf
  <2>3. KeysOf(M) \ KeysOf(L) = {key}
    BY <1>8, <1>9, <1>10
  <2>4. M[key].session.id = s /\ M[key].status = "Creating"
    <3>1. intent.session = made /\ intent.status = "Creating"
      BY DEF intent
    <3> HIDE DEF made
    <3> QED
      BY <1>6, <1>9, <3>1
  <2> QED
    BY <1>5, <1>8, <2>1, <2>2, <2>3, <2>4 DEF Develops, Continues
<1>13. Advances(h, M)
  <2>1. Commits(h, M) \/ KeepsInMemory(h, M)
    BY <1>4 DEF FailsToCommit, KeepsInMemory
  <2>2. /\ overlaps' = overlaps
        /\ committing' \in [Hosts -> Committers \cup {None}]
        /\ ~overlaps => committing' = [g \in Hosts |-> None]
    BY <1>1 DEF Section, HostInv, HostTypeOK, InTurn
  <2> QED
    BY <1>1, <1>11, <1>12, <2>1, <2>2 DEF Advances
<1>14. ReadiesNone(L, M) /\ RevivesNone(L, M)
  <2>1. \A k \in KeysOf(M) : k # key => k \in KeysOf(L) /\ M[k] = L[k]
    BY <1>8, <1>9 DEF KeysOf
  <2>2. M[key].status = "Creating"
    BY <1>9
  <2>3. \A k \in KeysOf(L) : M[k] # None => M[k] = L[k]
    BY <1>10, <2>1 DEF KeysOf
  <2> HIDE DEF M
  <2> QED
    BY <2>1, <2>2, <2>3 DEF ReadiesNone, RevivesNone
<1>15. CASE /\ Commits(h, M)
            /\ hostCalls' = [hostCalls EXCEPT ![p] =
                 [@ EXCEPT !.phase = "create", !.session = made]]
  <2>1. PICK copy \in HostSessions : copy = made
    BY <1>6
  <2>2. hostCalls' = [hostCalls EXCEPT ![p] =
          [@ EXCEPT !.phase = "create", !.session = copy]]
    BY <1>15, <2>1
  <2> HIDE DEF made, intent, M
  <2>3. hostCalls'[p] = [hostCalls[p] EXCEPT !.phase = "create", !.session = copy]
    BY <2>2 DEF HostInv, HostTypeOK
  <2>4. hostCalls' = [hostCalls EXCEPT ![p] = hostCalls'[p]]
    BY <2>2, <2>3
  <2>5. /\ hostCalls'[p].session = copy /\ hostCalls'[p].phase = "create"
        /\ hostCalls'[p].digest = None
        /\ hostCalls'[p] \in HostCalls
    BY <1>0, <1>2, <2>3 DEF HostCalls, Phases
  <2>6. copy # None /\ copy.id \in Sessions /\ copy.key = key
    BY <1>5, <1>6, <2>1, HostNoneAssumption
  <2>7. CallOK(hostCalls'[p], answered)
    BY <2>5, <2>6 DEF CallOK
  <2>8. M[key] # None /\ M[key].session = copy
    BY <1>7, <1>9, <2>1 DEF intent
  <2> QED
    BY <1>1, <1>13, <1>14, <2>4, <2>5, <2>6, <2>7, <2>8 DEF CallSection
<1>16. CASE FailsToCommit(h, M) /\ Goes(p, "failed")
  <2>1. /\ hostCalls' = [hostCalls EXCEPT ![p] = hostCalls'[p]]
        /\ hostCalls'[p] \in HostCalls /\ hostCalls'[p].phase = "failed"
        /\ hostCalls'[p].session = hostCalls[p].session
    BY <1>16, GoesFacts DEF HostInv, Phases
  <2>2. CallOK(hostCalls'[p], answered)
    BY <2>1 DEF CallOK
  <2> QED
    BY <1>1, <1>13, <1>14, <2>1, <2>2 DEF CallSection
<1> QED
  BY <1>4, <1>15, <1>16

\* The bound record of a call that binds its handoff, now or again.
LEMMA BindingRecord ==
  ASSUME HostInv, NEW p \in Calls, hostCalls[p].phase \in { "bind", "rebind" },
         NEW k \in KeysOf(Loaded(HostOf[p])),
         k = hostCalls[p].session.key,
         Loaded(HostOf[p])[k].session.id = hostCalls[p].session.id,
         Loaded(HostOf[p])[k].session.provider # None,
         Loaded(HostOf[p])[k].digest \in { None, hostCalls[p].digest },
         Section(HostOf[p], p), answered' = answered,
         Saves(p, [Loaded(HostOf[p]) EXCEPT
                     ![k] = Bootstrapping(Loaded(HostOf[p])[k], p, hostCalls[p].digest)],
               "send"),
         hostCalls[p].phase = "rebind" \/ Loaded(HostOf[p])[k].status # "Cancelled"
  PROVE  \E ledger : CallSection(p, ledger)
<1> DEFINE L == Loaded(HostOf[p])
<1> DEFINE call == hostCalls[p]
<1> DEFINE bound == Bootstrapping(L[k], p, call.digest)
<1>0. HostOf[p] \in Hosts /\ call \in HostCalls /\ CallOK(call, answered)
  BY HostOfAssumption DEF HostInv, HostTypeOK, CallsOK
<1>1. call.digest \in Digests /\ call.digest # None /\ call.session # None
      /\ call.session.id \in Sessions /\ call.session.provider # None
  BY <1>0 DEF CallOK, HostCalls
<1>2. LedgerOK(L, answered)
  BY <1>0, LoadedOK
<1>3. L[k] \in Records /\ RecordOK(k, L[k], answered)
  BY <1>2, RecordFacts, SMTT(60)
<1>4. /\ bound \in Records /\ bound.session = L[k].session /\ bound.digest = call.digest
      /\ bound.status = "Bootstrapping"
  BY <1>1, <1>3, Zenon DEF Bootstrapping, Records, Statuses
<1>5. RecordOK(k, bound, answered) /\ Continues(L[k], bound)
  <2> HIDE DEF bound
  <2> QED
    BY <1>1, <1>3, <1>4 DEF RecordOK, Continues
<1>6. "send" \in Phases \ { "publish", "rebind", "finish" }
  BY DEF Phases
<1>7. CallOK([call EXCEPT !.phase = "send"], answered)
  BY <1>0, <1>1 DEF CallOK, HostCalls
<1>8. CallSection(p, [L EXCEPT ![k] = bound])
  <2>1. bound.session.id = call.session.id /\ bound.status # "Ready"
    BY <1>4
  <2>2. \/ call.phase \in { "publish", "rebind" } /\ L[k].session.id = call.session.id
        \/ L[k].status # "Cancelled"
    OBVIOUS
  <2>3. Saves(p, [L EXCEPT ![k] = bound], "send")
    OBVIOUS
  <2> HIDE DEF bound
  <2> QED
    BY <1>4, <1>5, <1>6, <1>7, <2>1, <2>2, <2>3, SaveIsSection, Zenon
<1> QED
  BY <1>8

\* Bind binds the handoff before it is sent, or finds it bound and ready.
LEMMA BindIsSection ==
  ASSUME HostInv, NEW p \in Calls, Bind(p)
  PROVE  \E ledger : CallSection(p, ledger)
<1> DEFINE h == HostOf[p]
<1> DEFINE L == Loaded(h)
<1> DEFINE call == hostCalls[p]
<1> DEFINE k == call.session.key
<1>0. h \in Hosts /\ call \in HostCalls /\ CallOK(call, answered)
  BY HostOfAssumption DEF HostInv, HostTypeOK, CallsOK
<1>1. call.phase = "bind" /\ Section(h, p) /\ answered' = answered
  BY DEF Bind
<1>2. /\ call.session # None /\ call.session.id \in Sessions
      /\ call.session.provider # None /\ call.digest # None
  BY <1>0, <1>1 DEF CallOK
<1>3. CASE Loads(h) /\ Goes(p, "failed")
  <2>1. CallSection(p, L)
    BY <1>1, <1>3, FailsUnchanged
  <2> QED
    BY <2>1
<1>4. ASSUME KeysOfSession(L, call.session.id) # {}
      PROVE  k \in KeysOf(L) /\ L[k].session.id = call.session.id
  BY <1>2, <1>4, FoundAtKey
<1>5. CASE /\ KeysOfSession(L, call.session.id) # {}
           /\ L[k].status = "Ready" /\ L[k].digest = call.digest
           /\ Loads(h) /\ Goes(p, "query")
  <2>1. k \in KeysOf(L) /\ L[k].session.id = call.session.id
    BY <1>4, <1>5
  <2>2. LedgerOK(L, answered)
    BY <1>0, LoadedOK
  <2>3. /\ L[k].session.key = k /\ Answer(L[k].session, L[k].digest) \in answered
    BY <1>5, <2>1, <2>2, RecordFacts DEF RecordOK
  <2>4. Answer(call.session, call.digest) \in answered
    BY <1>5, <2>1, <2>3 DEF Answer
  <2>5. /\ hostCalls' = [hostCalls EXCEPT ![p] = hostCalls'[p]]
        /\ hostCalls'[p] \in HostCalls /\ hostCalls'[p].phase = "query"
        /\ hostCalls'[p].session = call.session /\ hostCalls'[p].digest = call.digest
    BY <1>5, GoesFacts DEF HostInv, Phases
  <2>6. CallOK(hostCalls'[p], answered)
    BY <1>2, <2>4, <2>5 DEF CallOK
  <2>7. Advances(h, L) /\ ReadiesNone(L, L) /\ RevivesNone(L, L)
    BY <1>0, <1>1, <1>5, LoadAdvances
  <2>8. CallSection(p, L)
    BY <1>1, <2>5, <2>6, <2>7, SMTT(60) DEF CallSection
  <2> QED
    BY <2>8
<1>6. CASE /\ KeysOfSession(L, call.session.id) # {}
           /\ L[k].session.provider = call.session.provider
           /\ L[k].status # "Cancelled"
           /\ L[k].digest \in { None, call.digest }
           /\ Saves(p, [L EXCEPT ![k] = Bootstrapping(L[k], p, call.digest)], "send")
  BY <1>1, <1>2, <1>4, <1>6, BindingRecord
<1> QED
  BY <1>3, <1>5, <1>6 DEF Bind

\* Rebind binds the same handoff anew before it is sent again.
LEMMA RebindIsSection ==
  ASSUME HostInv, NEW p \in Calls, Rebind(p)
  PROVE  \E ledger : CallSection(p, ledger)
<1> DEFINE h == HostOf[p]
<1> DEFINE L == Loaded(h)
<1> DEFINE call == hostCalls[p]
<1> DEFINE k == call.session.key
<1>0. h \in Hosts /\ call \in HostCalls /\ CallOK(call, answered)
  BY HostOfAssumption DEF HostInv, HostTypeOK, CallsOK
<1>1. call.phase = "rebind" /\ Section(h, p) /\ answered' = answered
  BY DEF Rebind
<1>2. call.session # None /\ call.session.id \in Sessions /\ call.digest # None
  BY <1>0, <1>1 DEF CallOK
<1>3. CASE Loads(h) /\ Goes(p, "failed")
  <2>1. CallSection(p, L)
    BY <1>1, <1>3, FailsUnchanged, SMTT(60)
  <2> QED
    BY <2>1
<1>4. CASE /\ KeysOfSession(L, call.session.id) # {} /\ L[k].digest = call.digest
           /\ Saves(p, [L EXCEPT ![k] = Bootstrapping(@, p, call.digest)], "send")
  <2>1. k \in KeysOf(L) /\ L[k].session.id = call.session.id
    BY <1>2, <1>4, FoundAtKey, SMTT(60)
  <2>2. LedgerOK(L, answered)
    BY <1>0, LoadedOK
  <2>3. L[k].session.provider # None
    BY <1>2, <1>4, <2>1, <2>2, RecordFacts DEF RecordOK
  <2>4. Saves(p, [L EXCEPT ![k] = Bootstrapping(L[k], p, call.digest)], "send")
    BY <1>4
  <2> QED
    BY <1>1, <1>4, <2>1, <2>3, <2>4, BindingRecord
<1> QED
  BY <1>3, <1>4 DEF Rebind

\* Finish makes the acknowledged session ready, or cancels it.
LEMMA FinishIsSection ==
  ASSUME HostInv, NEW p \in Calls, Finish(p)
  PROVE  \E ledger : CallSection(p, ledger)
<1> DEFINE h == HostOf[p]
<1> DEFINE L == Loaded(h)
<1> DEFINE call == hostCalls[p]
<1> DEFINE k == call.session.key
<1>0. h \in Hosts /\ call \in HostCalls /\ CallOK(call, answered)
  BY HostOfAssumption DEF HostInv, HostTypeOK, CallsOK
<1>1. call.phase = "finish" /\ Section(h, p) /\ answered' = answered
  BY Zenon DEF Finish
<1>2. /\ call.session # None /\ call.session.id \in Sessions /\ call.digest # None
      /\ Answer(call.session, call.digest) \in answered
  BY <1>0, <1>1 DEF CallOK
<1>3. CASE Loads(h) /\ Goes(p, "failed")
  <2>1. CallSection(p, L)
    BY <1>1, <1>3, FailsUnchanged
  <2> QED
    BY <2>1
<1>4. ASSUME KeysOfSession(L, call.session.id) # {}, L[k].digest = call.digest
      PROVE  /\ k \in KeysOf(L) /\ L[k].session.id = call.session.id
             /\ L[k] \in Records /\ L[k].session \in HostSessions
             /\ RecordOK(k, L[k], answered)
  <2>1. k \in KeysOf(L) /\ L[k].session.id = call.session.id
    BY <1>2, <1>4, FoundAtKey
  <2>2. LedgerOK(L, answered)
    BY <1>0, LoadedOK
  <2> QED
    BY <2>1, <2>2, RecordFacts
<1>5. CASE /\ KeysOfSession(L, call.session.id) # {} /\ L[k].digest = call.digest
           /\ Saves(p, [L EXCEPT ![k].status = "Cancelled"], "failed")
  <2> DEFINE cancelled == [L[k] EXCEPT !.status = "Cancelled"]
  <2>1. cancelled \in Records
    BY <1>4, <1>5, SMTT(60) DEF Records, Statuses
  <2>2. RecordOK(k, cancelled, answered) /\ Continues(L[k], cancelled)
        /\ cancelled.status = "Cancelled"
    BY <1>4, <1>5 DEF Records, RecordOK, Continues
  <2>3. CallOK([call EXCEPT !.phase = "failed"], answered)
    BY <1>0, SMTT(60) DEF CallOK, HostCalls
  <2>4. CallSection(p, [L EXCEPT ![k] = cancelled])
    BY <1>1, <1>4, <1>5, <2>1, <2>2, <2>3, SaveIsSection DEF Phases
  <2> QED
    BY <2>4, Zenon
<1>6. CASE /\ KeysOfSession(L, call.session.id) # {} /\ L[k].digest = call.digest
           /\ L[k].status # "Cancelled"
           /\ \E id \in FreshResponses \cup { L[k].session.provider } :
                Saves(p, [L EXCEPT ![k].status = "Ready", ![k].session.provider = id],
                      "done")
  <2>1. PICK id \in FreshResponses \cup { L[k].session.provider } :
          Saves(p, [L EXCEPT ![k].status = "Ready", ![k].session.provider = id], "done")
    BY <1>6, Zenon
  <2> DEFINE ready == [L[k] EXCEPT !.status = "Ready", !.session.provider = id]
  <2>2. L[k].session.provider # None /\ L[k].session.provider \in ProviderIds
    BY <1>2, <1>4, <1>6, Zenon DEF RecordOK, HostSessions
  <2>3. id \in ProviderIds /\ id # None
    BY <2>2, PendingAssumption DEF FreshResponses, ProviderIds
  <2>4. /\ ready \in Records /\ ready.status = "Ready" /\ ready.digest = call.digest
        /\ ready.session.id = call.session.id /\ ready.session.key = L[k].session.key
        /\ ready.session.provider = id
    BY <1>4, <1>6, <2>3, Zenon DEF Records, HostSessions, Statuses
  <2>5. RecordOK(k, ready, answered) /\ Continues(L[k], ready)
    <3>1. L[k].session.key = k
      BY <1>4, <1>6, Zenon DEF RecordOK
    <3>2. Answer(ready.session, ready.digest) = Answer(call.session, call.digest)
      BY <2>4, <3>1, Zenon DEF Answer
    <3> HIDE DEF ready
    <3> QED
      BY <1>2, <1>4, <1>6, <2>3, <2>4, <3>1, <3>2, Zenon DEF RecordOK, Continues
  <2>6. CallOK([call EXCEPT !.phase = "done"], answered)
    BY <1>0, <1>2 DEF CallOK, HostCalls
  <2>7. Saves(p, [L EXCEPT ![k] = ready], "done")
    <3>1. L \in [Keys -> Records \cup {None}] /\ k \in Keys
      BY <1>0, <1>4, <1>6, LoadedOK, Zenon DEF LedgerOK, KeysOf
    <3>2. [L EXCEPT ![k].status = "Ready", ![k].session.provider = id]
            = [L EXCEPT ![k] = ready]
      BY <3>1, Zenon
    <3> QED
      BY <2>1, <3>2, Zenon
  <2>8. CallSection(p, [L EXCEPT ![k] = ready])
    <3>1. "done" \in Phases \ { "publish", "rebind", "finish" }
      BY DEF Phases
    <3> HIDE DEF ready
    <3> QED
      BY <1>1, <1>4, <1>6, <2>4, <2>5, <2>6, <2>7, <3>1, SaveIsSection, Zenon
  <2> QED
    BY <2>8
<1> QED
  BY <1>3, <1>5, <1>6, Zenon DEF Finish

--------------------------------------------------------------------------------
(* The invariant across a section                                          *)

\* The types of the ledgers after a section, and which ledgers there are then.
LEMMA AdvanceTypes ==
  ASSUME HostInv, NEW h \in Hosts, NEW M, Advances(h, M)
  PROVE  /\ durable' \in [Keys -> Records \cup {None}]
         /\ memory' \in [Hosts -> [Keys -> Records \cup {None}]]
         /\ view' \in [Hosts -> { "unloaded", "current", "stale" }]
         /\ overlaps' \in BOOLEAN
         /\ committing' \in [Hosts -> Committers \cup {None}]
         /\ memory' = [memory EXCEPT ![h] = M]
         /\ durable' \in { durable, M }
         /\ Ledgers' \subseteq Ledgers \cup {M}
<1>1. M \in [Keys -> Records \cup {None}]
  BY DEF Advances, LedgerOK
<1>2. memory' = [memory EXCEPT ![h] = M] /\ durable' \in { durable, M }
  BY DEF Advances, Commits, KeepsInMemory
<1>3. memory' \in [Hosts -> [Keys -> Records \cup {None}]]
  BY <1>1, <1>2 DEF HostInv, HostTypeOK
<1>4. durable' \in [Keys -> Records \cup {None}]
  BY <1>1, <1>2 DEF HostInv, HostTypeOK
<1>5. view' \in [Hosts -> { "unloaded", "current", "stale" }]
  BY DEF Advances, Commits, KeepsInMemory, HostInv, HostTypeOK
<1>6. overlaps' \in BOOLEAN /\ committing' \in [Hosts -> Committers \cup {None}]
  BY DEF Advances, HostInv, HostTypeOK
<1>7. \A g \in Hosts : memory'[g] \in Ledgers \cup {M}
  BY <1>2 DEF HostInv, HostTypeOK, Ledgers
<1>8. Ledgers' \subseteq Ledgers \cup {M}
  BY <1>2, <1>7 DEF Ledgers
<1> QED
  BY <1>2, <1>3, <1>4, <1>5, <1>6, <1>8

\* Where commits do not overlap, what a section works on is bound to what the file is
\* bound to, unless the process is stale.
LEMMA LoadedBound ==
  ASSUME HostInv, NEW h \in Hosts, ~overlaps, view[h] # "stale"
  PROVE  Bound(durable, Loaded(h))
BY DEF HostInv, HostTypeOK, InTurn, Loaded, Bound, Continues

\* A section leaves what it works on bound as it was.
LEMMA AdvanceBound ==
  ASSUME HostInv, NEW h \in Hosts, NEW M, Advances(h, M), Bound(durable, Loaded(h))
  PROVE  Bound(durable, M)
<1> SUFFICES ASSUME NEW k \in KeysOf(durable), M[k] # None,
                    M[k].session.id = durable[k].session.id
             PROVE  Continues(durable[k], M[k])
  BY DEF Bound
<1> DEFINE L == Loaded(h)
<1>1. k \in KeysOf(M)
  BY DEF KeysOf
<1>2. CASE k \in KeysOf(L)
  <2>1. Continues(L[k], M[k])
    BY <1>2 DEF Advances, Develops
  <2>2. L[k] # None /\ L[k].session.id = durable[k].session.id
    BY <1>2, <2>1 DEF Continues, KeysOf
  <2>3. Continues(durable[k], L[k])
    BY <2>2 DEF Bound
  <2> QED
    BY <2>1, <2>3 DEF Continues
<1>3. CASE k \notin KeysOf(L)
  <2>1. \A j \in Keys : ~Named(M[k].session.id, j)
    BY <1>1, <1>3 DEF Advances, Develops
  <2>2. durable \in Ledgers /\ LedgerOK(durable, answered)
    BY DEF Ledgers, HostInv, LedgersOK
  <2>3. durable[k].session.key = k /\ k \in Keys
    BY <2>2, RecordFacts
  <2>4. Named(durable[k].session.id, k)
    BY <2>2, <2>3 DEF Named, NamedInLedger
  <2> QED
    BY <2>1, <2>3, <2>4
<1> QED
  BY <1>2, <1>3

\* A section keeps the processes that are current bound to what the file is bound to.
LEMMA AdvanceInTurn ==
  ASSUME HostInv, NEW h \in Hosts, NEW M, Advances(h, M)
  PROVE  InTurn'
<1> SUFFICES ASSUME ~overlaps, NEW g \in Hosts
             PROVE  /\ committing'[g] = None
                    /\ view'[g] = "current" => Bound(durable, memory[g])'
  BY DEF Advances, InTurn
<1>1. committing'[g] = None /\ committing[h] = None
  BY DEF Advances, HostInv, InTurn
<1>2. /\ memory' = [memory EXCEPT ![h] = M]
      /\ memory \in [Hosts -> [Keys -> Records \cup {None}]]
      /\ view \in [Hosts -> { "unloaded", "current", "stale" }]
  BY AdvanceTypes DEF HostInv, HostTypeOK
<1>3. CASE Commits(h, M)
  <2>1. durable' = M /\ (view'[g] = "current" => g = h)
    BY <1>3 DEF Commits
  <2>2. g = h => memory'[g] = M
    BY <1>2
  <2> QED
    BY <1>1, <2>1, <2>2 DEF Bound, Continues
<1>4. CASE KeepsInMemory(h, M)
  <2>1. durable' = durable
    BY <1>4 DEF KeepsInMemory
  <2>2. CASE g = h
    <3>1. memory'[g] = M /\ (view'[g] = "current" => view[h] # "stale")
      BY <1>2, <1>4, <2>2 DEF KeepsInMemory
    <3>2. view[h] # "stale" => Bound(durable, M)
      BY LoadedBound, AdvanceBound
    <3> QED
      BY <1>1, <2>1, <3>1, <3>2 DEF Bound
  <2>3. CASE g # h
    <3>1. memory'[g] = memory[g] /\ view'[g] = view[g]
      BY <1>2, <1>4, <2>3 DEF KeepsInMemory
    <3>2. view[g] = "current" => Bound(durable, memory[g])
      BY DEF HostInv, InTurn
    <3> QED
      BY <1>1, <2>1, <3>1, <3>2 DEF Bound
  <2> QED
    BY <2>2, <2>3
<1> QED
  BY <1>3, <1>4 DEF Advances

\* A session somebody holds after a section was held before, or is new in its ledger.
LEMMA AdvanceNames ==
  ASSUME HostInv, NEW h \in Hosts, NEW M, Advances(h, M),
         \A q \in Calls :
           hostCalls'[q].session # None /\ hostCalls'[q].session.id \in Sessions =>
             \/ hostCalls'[q].session = hostCalls[q].session
             \/ /\ hostCalls'[q].session.key \in KeysOf(M)
                /\ hostCalls'[q].session = M[hostCalls'[q].session.key].session,
         NEW id \in Sessions, NEW j \in Keys, Named(id, j)'
  PROVE  \/ Named(id, j)
         \/ j \in KeysOf(M) \ KeysOf(Loaded(h)) /\ M[j].session.id = id
<1> DEFINE L == Loaded(h)
<1> DEFINE New(i, k) == k \in KeysOf(M) \ KeysOf(L) /\ M[k].session.id = i
<1>1. LedgerOK(L, answered) /\ L \in Ledgers /\ LedgerOK(M, answered) /\ Develops(L, M)
  BY LoadedOK DEF Advances
<1>2. ASSUME NEW k \in KeysOf(M)
      PROVE  /\ M[k].session.key = k
             /\ Named(M[k].session.id, k) \/ New(M[k].session.id, k)
  <2>1. M[k].session.key = k /\ k \in Keys
    BY <1>1, <1>2, RecordFacts
  <2>2. CASE k \in KeysOf(L)
    <3>1. L[k].session.key = k
      BY <1>1, <2>2, RecordFacts
    <3>2. M[k].session.id = L[k].session.id
      BY <1>1, <1>2, <2>2 DEF Develops, Continues, KeysOf
    <3>3. NamedInLedger(M[k].session.id, k)
      BY <1>1, <2>2, <3>1, <3>2 DEF NamedInLedger
    <3> QED
      BY <2>1, <3>3 DEF Named
  <2>3. CASE k \notin KeysOf(L)
    BY <1>2, <2>1, <2>3
  <2> QED
    BY <2>2, <2>3
<1>3. CASE NamedInLedger(id, j)'
  <2>1. PICK ledger \in Ledgers' : \E k \in KeysOf(ledger) :
          ledger[k].session.id = id /\ ledger[k].session.key = j
    BY <1>3 DEF NamedInLedger, KeysOf
  <2>2. PICK k \in KeysOf(ledger) :
          ledger[k].session.id = id /\ ledger[k].session.key = j
    BY <2>1
  <2>3. CASE ledger \in Ledgers
    BY <2>2, <2>3 DEF Named, NamedInLedger
  <2>4. CASE ledger = M
    BY <2>2, <2>4, <1>2
  <2> QED
    BY <2>3, <2>4, AdvanceTypes
<1>4. CASE NamedInCall(id, j)'
  <2>1. PICK q \in Calls :
          /\ hostCalls'[q].session # None
          /\ hostCalls'[q].session.id = id /\ hostCalls'[q].session.key = j
    BY <1>4 DEF NamedInCall
  <2>2. CASE hostCalls'[q].session = hostCalls[q].session
    BY <2>1, <2>2 DEF Named, NamedInCall
  <2>3. CASE j \in KeysOf(M) /\ hostCalls'[q].session = M[j].session
    BY <2>1, <2>3, <1>2
  <2> QED
    BY <2>1, <2>2, <2>3
<1> QED
  BY <1>3, <1>4 DEF Named

\* A section keeps every session id with one key.
LEMMA AdvanceCoherent ==
  ASSUME HostInv, NEW h \in Hosts, NEW M, Advances(h, M),
         \A q \in Calls :
           hostCalls'[q].session # None /\ hostCalls'[q].session.id \in Sessions =>
             \/ hostCalls'[q].session = hostCalls[q].session
             \/ /\ hostCalls'[q].session.key \in KeysOf(M)
                /\ hostCalls'[q].session = M[hostCalls'[q].session.key].session
  PROVE  Coherent'
<1> DEFINE New(id, j) == j \in KeysOf(M) \ KeysOf(Loaded(h)) /\ M[j].session.id = id
<1>1. Develops(Loaded(h), M)
  BY DEF Advances
<1>2. \A id \in Sessions, j \in Keys : Named(id, j)' => Named(id, j) \/ New(id, j)
  BY AdvanceNames
<1>3. ASSUME NEW id \in Sessions, NEW j \in Keys, NEW k \in Keys,
             Named(id, j) \/ New(id, j), Named(id, k) \/ New(id, k)
      PROVE  j = k
  <2>1. CASE Named(id, j) /\ Named(id, k)
    BY <2>1 DEF HostInv, Coherent
  <2>2. CASE New(id, j) \/ New(id, k)
    BY <1>1, <1>3, <2>2 DEF Develops
  <2> QED
    BY <1>3, <2>1, <2>2
<1> HIDE DEF New
<1> QED
  BY <1>2, <1>3 DEF Coherent

\* A section keeps the invariant.
LEMMA AdvanceInv ==
  ASSUME HostInv, NEW h \in Hosts, NEW M, Advances(h, M),
         hostCalls' \in [Calls -> HostCalls],
         \A q \in Calls : CallOK(hostCalls'[q], answered),
         \A q \in Calls :
           hostCalls'[q].session # None /\ hostCalls'[q].session.id \in Sessions =>
             \/ hostCalls'[q].session = hostCalls[q].session
             \/ /\ hostCalls'[q].session.key \in KeysOf(M)
                /\ hostCalls'[q].session = M[hostCalls'[q].session.key].session
  PROVE  HostInv'
<1>1. answered' = answered
  BY DEF Advances
<1>2. HostTypeOK'
  BY <1>1, AdvanceTypes DEF HostTypeOK, HostInv
<1>3. LedgersOK'
  <2>1. \A ledger \in Ledgers \cup {M} : LedgerOK(ledger, answered)
    BY DEF HostInv, LedgersOK, Advances
  <2> QED
    BY <1>1, <2>1, AdvanceTypes DEF LedgersOK
<1>4. CallsOK'
  BY <1>1 DEF CallsOK
<1>5. Unloaded'
  BY DEF Advances, Commits, KeepsInMemory, Unloaded, HostInv, HostTypeOK, EmptyLedger
<1>6. Coherent' /\ InTurn'
  BY AdvanceCoherent, AdvanceInTurn
<1> QED
  BY <1>2, <1>3, <1>4, <1>5, <1>6 DEF HostInv

--------------------------------------------------------------------------------
(* Every step is of one of four kinds                                      *)

\* Cancelling records keeps a ledger in order, and revives and readies nothing.
LEMMA CancelledAdvances ==
  ASSUME HostInv, NEW h \in Hosts, NEW doomed \in SUBSET KeysOf(Loaded(h)),
         Section(h, "cancellation"), answered' = answered, SameCalls,
         \/ Commits(h, CancelledRecords(Loaded(h), doomed))
         \/ FailsToCommit(h, CancelledRecords(Loaded(h), doomed))
  PROVE  OtherSection(h, CancelledRecords(Loaded(h), doomed))
<1> DEFINE L == Loaded(h)
<1> DEFINE M == CancelledRecords(L, doomed)
<1>1. LedgerOK(L, answered) /\ L \in [Keys -> Records \cup {None}]
  BY LoadedOK DEF LedgerOK
<1>2. \A k \in doomed : k \in Keys /\ L[k] \in Records /\ RecordOK(k, L[k], answered)
  BY <1>1, RecordFacts
<1>3. \A k \in Keys : M[k] = IF k \in doomed THEN [L[k] EXCEPT !.status = "Cancelled"]
                                             ELSE L[k]
  BY DEF CancelledRecords
<1>4. ASSUME NEW k \in doomed
      PROVE  /\ M[k] \in Records /\ M[k] # None /\ M[k].status = "Cancelled"
             /\ RecordOK(k, M[k], answered) /\ Continues(L[k], M[k])
  <2>1. M[k] = [L[k] EXCEPT !.status = "Cancelled"]
    BY <1>2, <1>3
  <2>2. /\ M[k] \in Records /\ M[k].status = "Cancelled"
        /\ M[k].session = L[k].session /\ M[k].digest = L[k].digest
    BY <1>2, <2>1 DEF Records, Statuses
  <2> HIDE DEF M, L
  <2> QED
    BY <1>2, <2>2, HostNoneAssumption DEF RecordOK, Continues
<1>5. M \in [Keys -> Records \cup {None}]
  <2>1. M = [k \in Keys |-> M[k]]
    BY DEF CancelledRecords
  <2>2. \A k \in Keys : M[k] \in Records \cup {None}
    BY <1>1, <1>3, <1>4
  <2> HIDE DEF M, L
  <2> QED
    BY <2>1, <2>2
<1>6. \A k \in Keys : k \notin doomed => M[k] = L[k]
  BY <1>3
<1> HIDE DEF M
<1>7. KeysOf(M) = KeysOf(L)
  BY <1>4, <1>6 DEF KeysOf
<1>8. LedgerOK(M, answered)
  <2>1. \A k \in KeysOf(M) : RecordOK(k, M[k], answered)
    BY <1>1, <1>4, <1>6, <1>7 DEF LedgerOK, KeysOf
  <2> QED
    BY <1>1, <1>5, <1>7, <2>1 DEF LedgerOK
<1>9. Develops(L, M)
  <2>1. \A k \in KeysOf(L) : M[k] # None /\ Continues(L[k], M[k])
    BY <1>4, <1>6, <1>7 DEF KeysOf, Continues
  <2> QED
    BY <1>7, <2>1 DEF Develops
<1>10. /\ overlaps' = overlaps
       /\ committing' \in [Hosts -> Committers \cup {None}]
       /\ ~overlaps => committing' = [g \in Hosts |-> None]
  BY DEF Section, HostInv, HostTypeOK, InTurn
<1>11. Commits(h, M) \/ KeepsInMemory(h, M)
  BY DEF FailsToCommit, KeepsInMemory, M
<1>12. ReadiesNone(L, M)
  BY <1>4, <1>6, <1>7 DEF ReadiesNone, KeysOf
<1>13. RevivesNone(L, M)
  BY <1>4, <1>6 DEF RevivesNone, KeysOf
<1> QED
  BY <1>8, <1>9, <1>10, <1>11, <1>12, <1>13 DEF Advances, OtherSection, M

\* Cancel and CancelOrphans cancel records and mark calls.
LEMMA CancelIsSection ==
  ASSUME HostInv, NEW p \in Calls, Cancel(p)
  PROVE  \E ledger : OtherSection(HostOf[p], ledger)
<1> DEFINE h == HostOf[p]
<1> DEFINE L == Loaded(h)
<1> DEFINE doomed == { k \in KeysOf(L) : L[k].owner = p /\ L[k].status # "Cancelled" }
<1>0. h \in Hosts
  BY HostOfAssumption
<1>1. /\ Section(h, "cancellation") /\ answered' = answered
      /\ hostCalls' = [hostCalls EXCEPT ![p].cancelled = InFlight(p)]
      /\ \/ Loads(h)
         \/ Commits(h, CancelledRecords(L, doomed))
         \/ FailsToCommit(h, CancelledRecords(L, doomed))
  BY DEF Cancel
<1>2. SameCalls
  <2>1. hostCalls \in [Calls -> HostCalls]
    BY DEF HostInv, HostTypeOK
  <2>2. ASSUME NEW call \in HostCalls, NEW b \in BOOLEAN
        PROVE  /\ [call EXCEPT !.cancelled = b] \in HostCalls
               /\ [call EXCEPT !.cancelled = b].phase = call.phase
               /\ [call EXCEPT !.cancelled = b].session = call.session
               /\ [call EXCEPT !.cancelled = b].digest = call.digest
    BY DEF HostCalls
  <2>3. InFlight(p) \in BOOLEAN
    BY DEF InFlight
  <2>4. /\ \A q \in Calls : q # p => hostCalls'[q] = hostCalls[q]
        /\ hostCalls'[p] = [hostCalls[p] EXCEPT !.cancelled = InFlight(p)]
        /\ hostCalls' = [q \in Calls |-> hostCalls'[q]]
    BY <1>1, <2>1
  <2>5. /\ hostCalls'[p] \in HostCalls
        /\ hostCalls'[p].phase = hostCalls[p].phase
        /\ hostCalls'[p].session = hostCalls[p].session
        /\ hostCalls'[p].digest = hostCalls[p].digest
    <3>1. hostCalls[p] \in HostCalls
      BY <2>1
    <3> QED
      BY <3>1, <2>2, <2>3, <2>4
  <2>6. ASSUME NEW q \in Calls
        PROVE  /\ hostCalls'[q] \in HostCalls
               /\ hostCalls'[q].phase = hostCalls[q].phase
               /\ hostCalls'[q].session = hostCalls[q].session
               /\ hostCalls'[q].digest = hostCalls[q].digest
    <3>1. CASE q = p
      BY <3>1, <2>5, Zenon
    <3>2. CASE q # p
      <4>1. hostCalls'[q] = hostCalls[q] /\ hostCalls[q] \in HostCalls
        BY <3>2, <2>1, <2>4
      <4> QED
        BY <4>1, Zenon
    <3> QED
      BY <3>1, <3>2
  <2>7. hostCalls' \in [Calls -> HostCalls]
    BY <2>4, <2>6, Zenon
  <2> QED
    BY <2>6, <2>7, Zenon DEF SameCalls
<1>3. CASE Loads(h)
  <2>1. Advances(h, L) /\ ReadiesNone(L, L) /\ RevivesNone(L, L)
    BY <1>0, <1>1, <1>3, LoadAdvances
  <2> QED
    BY <1>2, <2>1 DEF OtherSection
<1>4. CASE \/ Commits(h, CancelledRecords(L, doomed))
           \/ FailsToCommit(h, CancelledRecords(L, doomed))
  <2>1. OtherSection(h, CancelledRecords(L, doomed))
    BY <1>0, <1>1, <1>2, <1>4, CancelledAdvances
  <2> QED
    BY <2>1
<1> QED
  BY <1>1, <1>3, <1>4

\* The cancellation of orphans is a section that moves no call.
LEMMA CancelOrphansIsSection ==
  ASSUME HostInv, NEW h \in Hosts, CancelOrphans(h)
  PROVE  \E ledger : OtherSection(h, ledger)
<1> DEFINE L == Loaded(h)
<1> DEFINE orphans == { k \in KeysOf(L) :
                          L[k].status \in { "Creating", "Active", "Bootstrapping" } }
<1>1. /\ Section(h, "cancellation") /\ answered' = answered
      /\ \/ Commits(h, CancelledRecords(L, orphans))
         \/ FailsToCommit(h, CancelledRecords(L, orphans))
  BY DEF CancelOrphans
<1>2. SameCalls
  <2>1. hostCalls \in [Calls -> HostCalls]
    BY DEF HostInv, HostTypeOK
  <2>2. ASSUME NEW call \in HostCalls
        PROVE  /\ [call EXCEPT !.cancelled = TRUE] \in HostCalls
               /\ [call EXCEPT !.cancelled = TRUE].phase = call.phase
               /\ [call EXCEPT !.cancelled = TRUE].session = call.session
               /\ [call EXCEPT !.cancelled = TRUE].digest = call.digest
    BY DEF HostCalls
  <2>3. /\ hostCalls' = [q \in Calls |-> hostCalls'[q]]
        /\ \A q \in Calls : \/ hostCalls'[q] = [hostCalls[q] EXCEPT !.cancelled = TRUE]
                             \/ hostCalls'[q] = hostCalls[q]
    BY DEF CancelOrphans
  <2>4. ASSUME NEW q \in Calls
        PROVE  /\ hostCalls'[q] \in HostCalls
               /\ hostCalls'[q].phase = hostCalls[q].phase
               /\ hostCalls'[q].session = hostCalls[q].session
               /\ hostCalls'[q].digest = hostCalls[q].digest
    <3>1. hostCalls[q] \in HostCalls
      BY <2>1
    <3> QED
      BY <3>1, <2>2, <2>3, Zenon
  <2>5. hostCalls' \in [Calls -> HostCalls]
    BY <2>3, <2>4, Zenon
  <2> QED
    BY <2>4, <2>5, Zenon DEF SameCalls
<1>3. OtherSection(h, CancelledRecords(L, orphans))
  BY <1>1, <1>2, CancelledAdvances
<1> QED
  BY <1>3

\* The comparing half of a commit reads the ledger, and only where commits may overlap.
LEMMA ComparesIsSection ==
  ASSUME HostInv, NEW h \in Hosts, NEW committer \in Committers, Compares(h, committer)
  PROVE  OtherSection(h, Loaded(h))
<1> DEFINE L == Loaded(h)
<1>1. KeepsInMemory(h, L) /\ answered' = answered /\ overlaps' = overlaps /\ overlaps
  BY DEF Compares, Loads, KeepsInMemory
<1>2. committing' \in [Hosts -> Committers \cup {None}]
  BY DEF Compares, HostInv, HostTypeOK
<1>3. LedgerOK(L, answered)
  BY LoadedOK
<1>4. Develops(L, L) /\ ReadiesNone(L, L) /\ RevivesNone(L, L)
  BY DEF Develops, ReadiesNone, RevivesNone, Continues, KeysOf
<1>5. SameCalls
  BY DEF Compares, SameCalls, HostInv, HostTypeOK
<1> QED
  BY <1>1, <1>2, <1>3, <1>4, <1>5 DEF OtherSection, Advances

\* A call that only moves to another phase.
LEMMA GoesOutside ==
  ASSUME HostInv, NEW p \in Calls, NEW phase \in Phases \ { "send" }, Goes(p, phase),
         UNCHANGED << durable, memory, view, committing, overlaps >>,
         answered \subseteq answered', answered' \subseteq Answers,
         CallOK([hostCalls[p] EXCEPT !.phase = phase], answered'),
         phase = "finish" => hostCalls[p].phase = "send"
  PROVE  CallOutside(p)
<1>1. /\ hostCalls' = [hostCalls EXCEPT ![p] = hostCalls'[p]]
      /\ hostCalls'[p] \in HostCalls /\ hostCalls'[p].phase = phase
      /\ hostCalls'[p].session = hostCalls[p].session
      /\ hostCalls'[p].digest = hostCalls[p].digest
  BY GoesFacts DEF HostInv
<1>2. hostCalls'[p] = [hostCalls[p] EXCEPT !.phase = phase]
  BY DEF Goes, HostInv, HostTypeOK
<1> QED
  BY <1>1, <1>2 DEF CallOutside

\* The steps of a call outside its sections.
LEMMA OutsideSteps ==
  ASSUME HostInv, NEW p \in Calls,
         \/ ProviderCreates(p) \/ ProviderReports(p) \/ ProviderAcknowledges(p)
         \/ CallFails(p)
  PROVE  CallOutside(p)
<1> DEFINE call == hostCalls[p]
<1>0. call \in HostCalls /\ CallOK(call, answered) /\ answered \subseteq Answers
  BY DEF HostInv, HostTypeOK, CallsOK, Answers
<1>1. CASE ProviderCreates(p)
  <2>1. CallOK([call EXCEPT !.phase = "publish"], answered')
    BY <1>0, <1>1 DEF ProviderCreates, CallOK, HostCalls
  <2>2. /\ Goes(p, "publish") /\ answered' = answered
        /\ UNCHANGED << durable, memory, view, committing, overlaps >>
    BY <1>1 DEF ProviderCreates
  <2> QED
    BY <1>0, <2>1, <2>2, GoesOutside DEF Phases
<1>2. CASE ProviderReports(p)
  <2>1. PICK phase \in { "done", "rebind" } : Goes(p, phase)
    BY <1>2 DEF ProviderReports
  <2>2. CallOK([call EXCEPT !.phase = phase], answered')
    BY <1>0, <1>2 DEF ProviderReports, CallOK, HostCalls
  <2>3. /\ answered' = answered
        /\ UNCHANGED << durable, memory, view, committing, overlaps >>
    BY <1>2 DEF ProviderReports
  <2> QED
    BY <1>0, <2>1, <2>2, <2>3, GoesOutside DEF Phases
<1>3. CASE ProviderAcknowledges(p)
  <2>1. /\ call.phase = "send" /\ Goes(p, "finish")
        /\ answered' = answered \cup { Answer(call.session, call.digest) }
        /\ UNCHANGED << durable, memory, view, committing, overlaps >>
    BY <1>3 DEF ProviderAcknowledges
  <2>2. /\ call.session # None /\ call.session.id \in Sessions
        /\ call.session.provider # None /\ call.digest # None
    BY <1>0, <2>1 DEF CallOK
  <2>3. call.session \in HostSessions /\ call.digest \in Digests
    BY <1>0, <2>2 DEF HostCalls
  <2>4. Answer(call.session, call.digest) \in Answers
    BY <2>2, <2>3 DEF Answer, Answers, HostSessions
  <2>5. CallOK([call EXCEPT !.phase = "finish"], answered')
    BY <1>0, <2>1, <2>2 DEF CallOK, HostCalls
  <2> QED
    BY <1>0, <2>1, <2>4, <2>5, GoesOutside DEF Phases
<1>4. CASE CallFails(p)
  <2>1. CallOK([call EXCEPT !.phase = "failed"], answered')
    BY <1>0 DEF CallOK, HostCalls
  <2>2. /\ Goes(p, "failed") /\ answered' = answered
        /\ UNCHANGED << durable, memory, view, committing, overlaps >>
    BY <1>4 DEF CallFails
  <2> QED
    BY <1>0, <2>1, <2>2, GoesOutside DEF Phases
<1> QED
  BY <1>1, <1>2, <1>3, <1>4

\* A call that returns leaves nothing behind.
LEMMA ReturnsOutside ==
  ASSUME HostInv, NEW p \in Calls, CallReturns(p)
  PROVE  CallOutside(p)
<1>1. /\ hostCalls'[p] = IdleCall /\ hostCalls' = [hostCalls EXCEPT ![p] = IdleCall]
      /\ answered' = answered
      /\ UNCHANGED << durable, memory, view, committing, overlaps >>
  BY DEF CallReturns, HostInv, HostTypeOK
<1>2. IdleCall \in HostCalls /\ CallOK(IdleCall, answered)
      /\ IdleCall.session = None /\ IdleCall.phase = "idle"
  BY DEF IdleCall, HostCalls, Phases, CallOK
<1>3. answered \subseteq Answers
  BY DEF HostInv, HostTypeOK, Answers
<1> QED
  BY <1>1, <1>2, <1>3, HostNoneAssumption DEF CallOutside

\* A caller asks for a successor of a session it knows.
LEMMA CreateOutside ==
  ASSUME HostInv, NEW p \in Calls, NEW request \in CreationRequests, StartCreate(p, request)
  PROVE  CallOutside(p)
<1> DEFINE next ==
      [ phase |-> "intent", session |-> request, digest |-> None, cancelled |-> FALSE ]
<1>1. /\ hostCalls'[p] = next /\ hostCalls' = [hostCalls EXCEPT ![p] = next]
      /\ answered' = answered
      /\ UNCHANGED << durable, memory, view, committing, overlaps >>
  BY DEF StartCreate, RequestsCreation, HostInv, HostTypeOK
<1>2. request \in HostSessions /\ request.id = None
  BY PredecessorsAssumption DEF CreationRequests, HostSessions, ProviderIds
<1>3. next \in HostCalls /\ next.session = request /\ next.phase = "intent"
      /\ next.digest = None
  BY <1>2 DEF HostCalls, Phases
<1>4. CallOK(next, answered) /\ answered \subseteq Answers
  BY <1>2, HostNoneAssumption DEF CallOK, HostInv, HostTypeOK, Answers
<1>5. CASE request.id \notin Sessions
  <2> HIDE DEF next
  <2> QED
    BY <1>1, <1>3, <1>4, <1>5 DEF CallOutside
<1> QED
  BY <1>2, <1>5, HostNoneAssumption

\* A caller bootstraps the session its host has for a key.
LEMMA BootstrapOutside ==
  ASSUME HostInv, NEW p \in Calls, NEW k \in Keys, NEW c \in Contents,
         SessionOfKey(HostOf[p], k) # None,
         StartBootstrap(p, SessionOfKey(HostOf[p], k),
           [ content |-> c, successor |-> SessionOfKey(HostOf[p], k).id ])
  PROVE  CallOutside(p)
<1> DEFINE L == Loaded(HostOf[p])
<1> DEFINE handoff == [ content |-> c, successor |-> L[k].session.id ]
<1>1. HostOf[p] \in Hosts
  BY HostOfAssumption
<1>2. L \in Ledgers /\ LedgerOK(L, answered)
  BY <1>1, LoadedOK
<1>3. k \in KeysOf(L) /\ SessionOfKey(HostOf[p], k) = L[k].session
      /\ L[k].session.provider # None
  BY DEF SessionOfKey, KeysOf
<1>4. L[k].session \in HostSessions /\ L[k].session # None /\ L[k].session.id \in Sessions
  BY <1>2, <1>3, RecordFacts
<1>5. handoff \in Digests /\ handoff # None
  BY <1>4, HostNoneAssumption DEF Digests
<1> DEFINE next ==
      [ phase |-> "bind", session |-> L[k].session, digest |-> handoff,
        cancelled |-> FALSE ]
<1>6. /\ hostCalls'[p] = next /\ hostCalls' = [hostCalls EXCEPT ![p] = next]
      /\ answered' = answered
      /\ UNCHANGED << durable, memory, view, committing, overlaps >>
  <2>1. StartBootstrap(p, L[k].session, handoff)
    BY <1>3
  <2> QED
    BY <2>1 DEF StartBootstrap, RequestsBootstrap, HostInv, HostTypeOK
<1> HIDE DEF handoff, L
<1>7. next \in HostCalls /\ next.session = L[k].session /\ next.phase = "bind"
      /\ next.digest = handoff
  BY <1>4, <1>5 DEF HostCalls, Phases
<1>8. CallOK(next, answered) /\ answered \subseteq Answers
  BY <1>3, <1>4, <1>5 DEF CallOK, HostInv, HostTypeOK, Answers
<1> HIDE DEF next
<1> QED
  BY <1>2, <1>3, <1>6, <1>7, <1>8 DEF CallOutside

\* Every step of a call that has started is a section or outside one.
LEMMA HostStepKinds ==
  ASSUME HostInv, NEW p \in Calls, NEW known, HostStep(p, known)
  PROVE  CallOutside(p) \/ \E ledger : CallSection(p, ledger)
<1>1. CASE CreateFindsRecord(p)
  <2>1. CallSection(p, Loaded(HostOf[p]))
    BY <1>1, FindsIsSection
  <2> QED
    BY <2>1
<1>2. CASE CreateRecordsIntent(p, known)
  BY <1>2, RecordsIsSection
<1>3. CASE Publish(p)
  BY <1>3, PublishIsSection
<1>4. CASE Bind(p)
  BY <1>4, BindIsSection
<1>5. CASE Rebind(p)
  BY <1>5, RebindIsSection
<1>6. CASE Finish(p)
  BY <1>6, FinishIsSection
<1>7. CASE ProviderCreates(p) \/ ProviderReports(p) \/ ProviderAcknowledges(p)
  BY <1>7, OutsideSteps
<1> QED
  BY <1>1, <1>2, <1>3, <1>4, <1>5, <1>6, <1>7 DEF HostStep

\* Every step of the hosts is of one of these kinds.
LEMMA StepKinds ==
  ASSUME HostInv, HostNext
  PROVE  \/ \E p \in Calls : CallOutside(p) \/ \E ledger : CallSection(p, ledger)
         \/ \E h \in Hosts : \E ledger : OtherSection(h, ledger)
         \/ \E h \in Hosts : Restart(h)
<1>1. ASSUME NEW p \in Calls, HostStep(p, {})
      PROVE  CallOutside(p) \/ \E ledger : CallSection(p, ledger)
  BY <1>1, HostStepKinds
<1>2. ASSUME NEW p \in Calls, CallCompares(p)
      PROVE  \E ledger : OtherSection(HostOf[p], ledger)
  <2>1. Compares(HostOf[p], p) /\ HostOf[p] \in Hosts /\ p \in Committers
    BY <1>2, HostOfAssumption DEF CallCompares, Committers
  <2>2. OtherSection(HostOf[p], Loaded(HostOf[p]))
    BY <2>1, ComparesIsSection
  <2> QED
    BY <2>2
<1>3. ASSUME NEW h \in Hosts, CancellationCompares(h)
      PROVE  \E ledger : OtherSection(h, ledger)
  <2>1. Compares(h, "cancellation") /\ "cancellation" \in Committers
    BY <1>3 DEF CancellationCompares, Committers
  <2>2. OtherSection(h, Loaded(h))
    BY <2>1, ComparesIsSection
  <2> QED
    BY <2>2
<1>4. \A p \in Calls : HostOf[p] \in Hosts
  BY HostOfAssumption
<1>5. ASSUME NEW p \in Calls, Cancel(p)
      PROVE  \E ledger : OtherSection(HostOf[p], ledger)
  BY <1>5, CancelIsSection
<1>6. ASSUME NEW h \in Hosts, CancelOrphans(h)
      PROVE  \E ledger : OtherSection(h, ledger)
  BY <1>6, CancelOrphansIsSection
<1>7. ASSUME NEW p \in Calls, NEW k \in Keys, NEW c \in Contents,
             LET session == SessionOfKey(HostOf[p], k)
             IN /\ session # None
                /\ StartBootstrap(p, session,
                                  [ content |-> c, successor |-> session.id ])
      PROVE  CallOutside(p)
  BY <1>7, BootstrapOutside
<1>8. ASSUME NEW p \in Calls, CallFails(p) PROVE CallOutside(p)
  BY <1>8, OutsideSteps
<1>9. ASSUME NEW p \in Calls, CallReturns(p) PROVE CallOutside(p)
  BY <1>9, ReturnsOutside
<1>10. ASSUME NEW p \in Calls, NEW request \in CreationRequests, StartCreate(p, request)
       PROVE  CallOutside(p)
  BY <1>10, CreateOutside
<1> QED
  BY <1>1, <1>2, <1>3, <1>4, <1>5, <1>6, <1>7, <1>8, <1>9, <1>10 DEF HostNext

--------------------------------------------------------------------------------
(* The invariant                                                           *)

\* Processes that have just started satisfy the invariant.
LEMMA HostInvInit == HostInit => HostInv
<1> SUFFICES ASSUME HostInit PROVE HostInv
  OBVIOUS
<1>1. Ledgers = { EmptyLedger }
  BY DEF HostInit, Ledgers
<1>2. EmptyLedger \in [Keys -> Records \cup {None}] /\ KeysOf(EmptyLedger) = {}
  BY DEF EmptyLedger, KeysOf
<1>3. LedgerOK(EmptyLedger, answered)
  BY <1>2, FS_EmptySet, MaxRecordsAssumption DEF LedgerOK
<1>4. IdleCall \in HostCalls /\ CallOK(IdleCall, answered) /\ IdleCall.session = None
  BY DEF IdleCall, HostCalls, Phases, CallOK
<1>5. HostTypeOK
  BY <1>2, <1>4, OverlappingAssumption DEF HostInit, HostTypeOK
<1>6. LedgersOK /\ CallsOK
  BY <1>1, <1>3, <1>4 DEF LedgersOK, CallsOK, HostInit
<1>7. Unloaded /\ InTurn
  BY DEF HostInit, Unloaded, InTurn
<1>8. \A id, k : ~Named(id, k)
  BY <1>1, <1>2, <1>4 DEF HostInit, Named, NamedInLedger, NamedInCall
<1> QED
  BY <1>5, <1>6, <1>7, <1>8 DEF HostInv, Coherent

\* What the provider has acknowledged stays acknowledged.
LEMMA AcksGrow ==
  ASSUME NEW acks, NEW more, acks \subseteq more
  PROVE  /\ \A ledger : LedgerOK(ledger, acks) => LedgerOK(ledger, more)
         /\ \A call : CallOK(call, acks) => CallOK(call, more)
BY DEF LedgerOK, RecordOK, CallOK

\* A call's section keeps the invariant.
LEMMA SectionInv ==
  ASSUME HostInv, NEW p \in Calls, NEW M, CallSection(p, M)
  PROVE  HostInv'
<1>1. HostOf[p] \in Hosts
  BY HostOfAssumption
<1>2. /\ Advances(HostOf[p], M)
      /\ hostCalls' = [hostCalls EXCEPT ![p] = hostCalls'[p]]
      /\ hostCalls'[p] \in HostCalls /\ CallOK(hostCalls'[p], answered)
  BY DEF CallSection
<1>3. hostCalls' \in [Calls -> HostCalls]
  BY <1>2 DEF HostInv, HostTypeOK
<1>4. \A q \in Calls : q # p => hostCalls'[q] = hostCalls[q]
  BY <1>2 DEF HostInv, HostTypeOK
<1>5. \A q \in Calls : CallOK(hostCalls'[q], answered)
  BY <1>2, <1>4 DEF HostInv, CallsOK
<1>6. \A q \in Calls : hostCalls'[q].session # None =>
        \/ hostCalls'[q].session = hostCalls[q].session
        \/ /\ hostCalls'[q].session.key \in KeysOf(M)
           /\ hostCalls'[q].session = M[hostCalls'[q].session.key].session
  <2>1. ASSUME hostCalls'[p].session # None,
               hostCalls'[p].session # hostCalls[p].session
        PROVE  /\ hostCalls'[p].session.key \in KeysOf(M)
               /\ hostCalls'[p].session = M[hostCalls'[p].session.key].session
    <3>1. /\ M[hostCalls'[p].session.key] # None
          /\ hostCalls'[p].session = M[hostCalls'[p].session.key].session
      BY <2>1 DEF CallSection
    <3>2. hostCalls'[p].session \in HostSessions
      BY <1>2, <2>1 DEF HostCalls
    <3> QED
      BY <3>1, <3>2 DEF KeysOf, HostSessions
  <2> QED
    BY <1>4, <2>1
<1> QED
  BY <1>1, <1>2, <1>3, <1>5, <1>6, AdvanceInv

\* A section that moves no call keeps the invariant.
LEMMA OtherSectionInv ==
  ASSUME HostInv, NEW h \in Hosts, NEW M, OtherSection(h, M)
  PROVE  HostInv'
<1>1. Advances(h, M) /\ hostCalls' \in [Calls -> HostCalls]
  BY DEF OtherSection, SameCalls
<1>2. \A q \in Calls : CallOK(hostCalls'[q], answered)
  BY DEF OtherSection, SameCalls, HostInv, CallsOK, CallOK
<1>3. \A q \in Calls : hostCalls'[q].session = hostCalls[q].session
  BY DEF OtherSection, SameCalls
<1> QED
  BY <1>1, <1>2, <1>3, AdvanceInv

\* A step of a call outside its sections keeps the invariant.
LEMMA OutsideInv ==
  ASSUME HostInv, NEW p \in Calls, CallOutside(p)
  PROVE  HostInv'
<1>1. /\ UNCHANGED << durable, memory, view, committing, overlaps >>
      /\ answered \subseteq answered' /\ answered' \subseteq Answers
      /\ hostCalls' = [hostCalls EXCEPT ![p] = hostCalls'[p]]
      /\ hostCalls'[p] \in HostCalls /\ CallOK(hostCalls'[p], answered')
  BY DEF CallOutside
<1>2. hostCalls' \in [Calls -> HostCalls]
      /\ \A q \in Calls : q # p => hostCalls'[q] = hostCalls[q]
  BY <1>1 DEF HostInv, HostTypeOK
<1>3. HostTypeOK'
  BY <1>1, <1>2 DEF HostInv, HostTypeOK, Answers
<1>4. Ledgers' = Ledgers
  BY <1>1 DEF Ledgers
<1>5. LedgersOK'
  BY <1>1, <1>4, AcksGrow DEF HostInv, LedgersOK
<1>6. CallsOK'
  BY <1>1, <1>2, AcksGrow DEF HostInv, CallsOK
<1>7. Unloaded' /\ InTurn'
  BY <1>1 DEF HostInv, Unloaded, InTurn, Bound
<1>8. Coherent'
  <2> DEFINE Given(id, j) ==
        /\ hostCalls'[p].session.id = id /\ hostCalls'[p].session.key = j
        /\ \A k \in Keys : Named(id, k) => j = k
  <2>1. ASSUME NEW id \in Sessions, NEW j \in Keys, Named(id, j)'
        PROVE  Named(id, j) \/ Given(id, j)
    <3>1. CASE NamedInLedger(id, j)'
      BY <1>4, <3>1 DEF Named, NamedInLedger, KeysOf
    <3>2. CASE NamedInCall(id, j)'
      <4>1. PICK q \in Calls :
              /\ hostCalls'[q].session # None
              /\ hostCalls'[q].session.id = id /\ hostCalls'[q].session.key = j
        BY <3>2 DEF NamedInCall
      <4>2. CASE hostCalls'[q].session = hostCalls[q].session
        BY <4>1, <4>2 DEF Named, NamedInCall
      <4>3. CASE q = p /\ hostCalls'[q].session # hostCalls[q].session
        <5>1. hostCalls'[p].session \in HostSessions
          BY <1>1, <4>1, <4>3 DEF HostCalls
        <5>2. \/ \E ledger \in Ledgers : \E k \in KeysOf(ledger) :
                   hostCalls'[p].session = ledger[k].session
              \/ \A k \in Keys : Named(id, k) => hostCalls'[p].session.key = k
          BY <4>1, <4>3, <5>1 DEF CallOutside
        <5> QED
          BY <4>1, <4>3, <5>2 DEF Named, NamedInLedger
      <4> QED
        BY <1>2, <4>2, <4>3
    <3> QED
      BY <2>1, <3>1, <3>2 DEF Named
  <2>2. ASSUME NEW id \in Sessions, NEW j \in Keys, NEW k \in Keys,
               Named(id, j) \/ Given(id, j), Named(id, k) \/ Given(id, k)
        PROVE  j = k
    BY <2>2 DEF HostInv, Coherent
  <2> HIDE DEF Given
  <2> QED
    BY <2>1, <2>2 DEF Coherent
<1> QED
  BY <1>3, <1>5, <1>6, <1>7, <1>8 DEF HostInv

\* A restart keeps the invariant: it forgets memory and calls, not the file.
LEMMA RestartInv ==
  ASSUME HostInv, NEW h \in Hosts, Restart(h)
  PROVE  HostInv'
<1>1. /\ memory' = [memory EXCEPT ![h] = EmptyLedger]
      /\ view' = [view EXCEPT ![h] = "unloaded"]
      /\ committing' = [committing EXCEPT ![h] = None]
      /\ hostCalls' = [p \in Calls |-> IF HostOf[p] = h THEN IdleCall ELSE hostCalls[p]]
      /\ durable' = durable /\ overlaps' = overlaps /\ answered' = answered
  BY DEF Restart
<1>2. EmptyLedger \in [Keys -> Records \cup {None}] /\ KeysOf(EmptyLedger) = {}
  BY DEF EmptyLedger, KeysOf
<1>3. LedgerOK(EmptyLedger, answered)
  BY <1>2, FS_EmptySet, MaxRecordsAssumption DEF LedgerOK
<1>4. IdleCall \in HostCalls /\ CallOK(IdleCall, answered) /\ IdleCall.session = None
  BY DEF IdleCall, HostCalls, Phases, CallOK
<1>5. HostTypeOK'
  BY <1>1, <1>2, <1>4 DEF HostInv, HostTypeOK
<1>6. Ledgers' \subseteq Ledgers \cup { EmptyLedger }
  BY <1>1 DEF Ledgers, HostInv, HostTypeOK
<1>7. LedgersOK'
  BY <1>1, <1>3, <1>6 DEF HostInv, LedgersOK
<1>8. CallsOK'
  BY <1>1, <1>4 DEF HostInv, CallsOK
<1>9. Unloaded' /\ InTurn'
  BY <1>1 DEF HostInv, HostTypeOK, Unloaded, InTurn, Bound
<1>10. Coherent'
  <2>1. ASSUME NEW id \in Sessions, NEW j \in Keys, Named(id, j)' PROVE Named(id, j)
    <3>1. NamedInLedger(id, j)' => NamedInLedger(id, j)
      BY <1>2, <1>6 DEF NamedInLedger, KeysOf
    <3>2. NamedInCall(id, j)' => NamedInCall(id, j)
      BY <1>1, <1>4 DEF NamedInCall
    <3> QED
      BY <2>1, <3>1, <3>2 DEF Named
  <2> QED
    BY <2>1 DEF HostInv, Coherent
<1> QED
  BY <1>5, <1>7, <1>8, <1>9, <1>10 DEF HostInv

\* Every step keeps the invariant.
LEMMA HostInvStep == HostInv /\ [HostNext]_hostVars => HostInv'
<1> SUFFICES ASSUME HostInv, [HostNext]_hostVars PROVE HostInv'
  OBVIOUS
<1>1. CASE HostNext
  BY <1>1, StepKinds, OutsideInv, SectionInv, OtherSectionInv, RestartInv
<1>2. CASE UNCHANGED hostVars
  BY <1>2 DEF hostVars, HostInv, HostTypeOK, LedgersOK, CallsOK, Unloaded, Coherent, InTurn,
              Ledgers, Named, NamedInLedger, NamedInCall, Bound, KeysOf
<1> QED
  BY <1>1, <1>2

--------------------------------------------------------------------------------
(* Where the ledger has room                                               *)

\* A ledger that covers one that covers a third covers the third.
LEMMA CoversTransitive ==
  ASSUME NEW A, NEW B, NEW C, Covers(A, B), Covers(B, C), KeysOf(A) \subseteq Keys
  PROVE  Covers(A, C)
BY DEF Covers, Continues, KeysOf

\* With room, and where commits do not overlap, a section loses no session of the file and
\* leaves every current process with all of them.
LEMMA RoomSection ==
  ASSUME HostInv, RoomInv, HasRoom, ~overlaps, NEW h \in Hosts, NEW M, Advances(h, M)
  PROVE  /\ Covers(durable, durable')
         /\ \A g \in Hosts : view'[g] = "current" => Covers(durable', memory'[g])
<1> DEFINE L == Loaded(h)
<1>1. Covers(L, M)
  BY DEF Advances, Develops, Covers
<1>2. view[h] # "stale" => Covers(durable, L)
  <2>1. Covers(durable, durable)
    BY DEF Covers, Continues, KeysOf
  <2> QED
    BY <2>1 DEF RoomInv, Loaded, HostInv, HostTypeOK
<1>3. view[h] # "stale" => Covers(durable, M)
  BY <1>1, <1>2, CoversTransitive DEF KeysOf
<1>4. committing[h] = None
  BY DEF HostInv, InTurn
<1>5. /\ memory' = [memory EXCEPT ![h] = M]
      /\ memory \in [Hosts -> [Keys -> Records \cup {None}]]
      /\ view \in [Hosts -> { "unloaded", "current", "stale" }]
  BY AdvanceTypes DEF HostInv, HostTypeOK
<1>6. CASE Commits(h, M)
  <2>1. durable' = M /\ view[h] # "stale" /\ \A g \in Hosts : view'[g] = "current" => g = h
    BY <1>4, <1>6 DEF Commits
  <2>2. memory'[h] = M
    BY <1>5
  <2>3. Covers(M, M)
    BY DEF Covers, Continues, KeysOf
  <2> QED
    BY <1>3, <2>1, <2>2, <2>3
<1>7. CASE KeepsInMemory(h, M)
  <2>1. durable' = durable /\ Covers(durable, durable)
    BY <1>7 DEF KeepsInMemory, Covers, Continues, KeysOf
  <2>2. ASSUME NEW g \in Hosts, view'[g] = "current" PROVE Covers(durable, memory'[g])
    <3>1. CASE g = h
      BY <1>3, <1>5, <1>7, <2>2, <3>1 DEF KeepsInMemory
    <3>2. CASE g # h
      BY <1>5, <1>7, <2>2, <3>2 DEF KeepsInMemory, RoomInv
    <3> QED
      BY <3>1, <3>2
  <2> QED
    BY <2>1, <2>2
<1> QED
  BY <1>6, <1>7 DEF Advances

\* What the calls that go on as before have sent, and what was ready before, is recorded still.
LEMMA RecordedBefore ==
  ASSUME HostInv, RoomInv, ~overlaps, Covers(durable, durable')
  PROVE  /\ \A p \in Calls :
              hostCalls[p].phase \in { "send", "finish" } /\ hostCalls'[p] = hostCalls[p] =>
                Recorded(hostCalls[p].session.key, hostCalls[p].session, hostCalls[p].digest)'
         /\ \A ledger \in Ledgers : \A k \in KeysOf(ledger) : ledger[k].status = "Ready" =>
              /\ durable'[k] # None
              /\ durable'[k].session.id = ledger[k].session.id
              /\ durable'[k].digest = ledger[k].digest
<1>1. ASSUME NEW p \in Calls, hostCalls[p].phase \in { "send", "finish" },
             hostCalls'[p] = hostCalls[p]
      PROVE  Recorded(hostCalls[p].session.key, hostCalls[p].session, hostCalls[p].digest)'
  <2>1. Recorded(hostCalls[p].session.key, hostCalls[p].session, hostCalls[p].digest)
    BY <1>1 DEF RoomInv
  <2>2. hostCalls[p].session \in HostSessions /\ hostCalls[p].digest # None
    BY <1>1 DEF HostInv, HostTypeOK, HostCalls, CallsOK, CallOK
  <2>3. hostCalls[p].session.key \in Keys
    BY <2>2 DEF HostSessions
  <2> QED
    BY <1>1, <2>1, <2>2, <2>3 DEF Recorded, Covers, Continues, KeysOf
<1>2. ASSUME NEW ledger \in Ledgers, NEW k \in KeysOf(ledger), ledger[k].status = "Ready"
      PROVE  /\ durable'[k] # None
             /\ durable'[k].session.id = ledger[k].session.id
             /\ durable'[k].digest = ledger[k].digest
  <2>1. Recorded(k, ledger[k].session, ledger[k].digest)
    BY <1>2 DEF RoomInv
  <2>2. ledger[k].digest # None /\ k \in Keys
    BY <1>2, RecordFacts DEF HostInv, LedgersOK, RecordOK
  <2> QED
    BY <2>1, <2>2 DEF Recorded, Covers, Continues, KeysOf
<1> QED
  BY <1>1, <1>2

\* With room, a section of a call keeps RoomInv.
LEMMA RoomInvSection ==
  ASSUME HostInv, RoomInv, HasRoom, NEW p \in Calls, NEW M, CallSection(p, M)
  PROVE  RoomInv'
<1> SUFFICES ASSUME ~overlaps
             PROVE  /\ \A h \in Hosts : view'[h] = "current" => Covers(durable', memory'[h])
                    /\ \A q \in Calls : hostCalls'[q].phase \in { "send", "finish" } =>
                         Recorded(hostCalls[q].session.key, hostCalls[q].session,
                                  hostCalls[q].digest)'
                    /\ \A ledger \in Ledgers' : \A k \in KeysOf(ledger) :
                         ledger[k].status = "Ready" =>
                           /\ durable'[k] # None
                           /\ durable'[k].session.id = ledger[k].session.id
                           /\ durable'[k].digest = ledger[k].digest
  BY DEF CallSection, Advances, RoomInv, Recorded, KeysOf, Covers
<1> DEFINE h == HostOf[p]
<1> DEFINE L == Loaded(h)
<1> DEFINE call == hostCalls[p]
<1>1. h \in Hosts /\ Advances(h, M)
  BY HostOfAssumption DEF CallSection
<1>2. /\ Covers(durable, durable')
      /\ \A g \in Hosts : view'[g] = "current" => Covers(durable', memory'[g])
  BY <1>1, RoomSection
<1>3. L \in Ledgers /\ Ledgers' \subseteq Ledgers \cup {M}
  BY <1>1, LoadedOK, AdvanceTypes
<1>4. ASSUME NEW q \in Calls, hostCalls'[q].phase \in { "send", "finish" }
      PROVE  Recorded(hostCalls[q].session.key, hostCalls[q].session, hostCalls[q].digest)'
  <2>1. CASE q = p
    BY <1>4, <2>1 DEF CallSection, Recorded
  <2>2. CASE q # p
    <3>1. hostCalls'[q] = hostCalls[q]
      BY <2>2 DEF CallSection, HostInv, HostTypeOK
    <3> QED
      BY <1>2, <1>4, <3>1, RecordedBefore
  <2> QED
    BY <2>1, <2>2
<1>5. ASSUME NEW ledger \in Ledgers', NEW k \in KeysOf(ledger), ledger[k].status = "Ready"
      PROVE  /\ durable'[k] # None
             /\ durable'[k].session.id = ledger[k].session.id
             /\ durable'[k].digest = ledger[k].digest
  <2>1. CASE ledger \in Ledgers
    BY <1>2, <1>5, <2>1, RecordedBefore
  <2>2. CASE ledger = M
    <3>1. CASE k \in KeysOf(L) /\ L[k] = M[k]
      BY <1>2, <1>3, <1>5, <2>2, <3>1, RecordedBefore
    <3>2. CASE /\ call.phase = "finish" /\ k = call.session.key
               /\ M[k].session.id = call.session.id /\ M[k].digest = call.digest
      <4>1. Recorded(k, call.session, call.digest)
        BY <3>2 DEF RoomInv
      <4>2. LedgerOK(M, answered)
        BY <1>1 DEF Advances
      <4>3. k \in Keys /\ M[k].digest # None
        BY <1>5, <2>2, <4>2, RecordFacts DEF RecordOK
      <4> QED
        BY <1>2, <2>2, <3>2, <4>1, <4>3 DEF Recorded, Covers, Continues, KeysOf
    <3> QED
      BY <1>5, <2>2, <3>1, <3>2 DEF CallSection, ReadiesNone
  <2> QED
    BY <1>3, <2>1, <2>2
<1> QED
  BY <1>2, <1>4, <1>5

\* With room, a section that moves no call keeps RoomInv.
LEMMA RoomInvOther ==
  ASSUME HostInv, RoomInv, HasRoom, NEW h \in Hosts, NEW M, OtherSection(h, M)
  PROVE  RoomInv'
<1> SUFFICES ASSUME ~overlaps
             PROVE  /\ \A g \in Hosts : view'[g] = "current" => Covers(durable', memory'[g])
                    /\ \A q \in Calls : hostCalls'[q].phase \in { "send", "finish" } =>
                         Recorded(hostCalls[q].session.key, hostCalls[q].session,
                                  hostCalls[q].digest)'
                    /\ \A ledger \in Ledgers' : \A k \in KeysOf(ledger) :
                         ledger[k].status = "Ready" =>
                           /\ durable'[k] # None
                           /\ durable'[k].session.id = ledger[k].session.id
                           /\ durable'[k].digest = ledger[k].digest
  BY DEF OtherSection, Advances, RoomInv, Recorded, KeysOf, Covers
<1> DEFINE L == Loaded(h)
<1>1. Advances(h, M)
  BY DEF OtherSection
<1>2. /\ Covers(durable, durable')
      /\ \A g \in Hosts : view'[g] = "current" => Covers(durable', memory'[g])
  BY <1>1, RoomSection
<1>3. L \in Ledgers /\ Ledgers' \subseteq Ledgers \cup {M}
  BY <1>1, LoadedOK, AdvanceTypes
<1>4. ASSUME NEW q \in Calls, hostCalls'[q].phase \in { "send", "finish" }
      PROVE  Recorded(hostCalls[q].session.key, hostCalls[q].session, hostCalls[q].digest)'
  <2>1. /\ hostCalls'[q].phase = hostCalls[q].phase
        /\ hostCalls'[q].session = hostCalls[q].session
        /\ hostCalls'[q].digest = hostCalls[q].digest
    BY DEF OtherSection, SameCalls
  <2>2. Recorded(hostCalls[q].session.key, hostCalls[q].session, hostCalls[q].digest)
    BY <1>4, <2>1 DEF RoomInv
  <2>3. hostCalls[q].session \in HostSessions /\ hostCalls[q].digest # None
    BY <1>4, <2>1 DEF HostInv, HostTypeOK, HostCalls, CallsOK, CallOK
  <2>4. hostCalls[q].session.key \in Keys
    BY <2>3 DEF HostSessions
  <2> QED
    BY <1>2, <2>1, <2>2, <2>3, <2>4 DEF Recorded, Covers, Continues, KeysOf
<1>5. ASSUME NEW ledger \in Ledgers', NEW k \in KeysOf(ledger), ledger[k].status = "Ready"
      PROVE  /\ durable'[k] # None
             /\ durable'[k].session.id = ledger[k].session.id
             /\ durable'[k].digest = ledger[k].digest
  <2>1. CASE ledger \in Ledgers
    BY <1>2, <1>5, <2>1, RecordedBefore
  <2>2. CASE ledger = M
    <3>1. k \in KeysOf(L) /\ L[k] = M[k]
      BY <1>5, <2>2 DEF OtherSection, ReadiesNone
    <3> QED
      BY <1>2, <1>3, <1>5, <2>2, <3>1, RecordedBefore
  <2> QED
    BY <1>3, <2>1, <2>2
<1> QED
  BY <1>2, <1>4, <1>5

\* A step outside the sections keeps RoomInv.
LEMMA RoomInvOutside ==
  ASSUME HostInv, RoomInv, NEW p \in Calls, CallOutside(p)
  PROVE  RoomInv'
<1>1. /\ durable' = durable /\ memory' = memory /\ view' = view /\ overlaps' = overlaps
      /\ Ledgers' = Ledgers
  BY DEF CallOutside, Ledgers
<1>2. ASSUME ~overlaps, NEW q \in Calls, hostCalls'[q].phase \in { "send", "finish" }
      PROVE  Recorded(hostCalls[q].session.key, hostCalls[q].session, hostCalls[q].digest)'
  <2>1. /\ hostCalls'[q].session = hostCalls[q].session
        /\ hostCalls'[q].digest = hostCalls[q].digest
        /\ hostCalls[q].phase \in { "send", "finish" }
    BY <1>2 DEF CallOutside, HostInv, HostTypeOK
  <2> QED
    BY <1>1, <1>2, <2>1 DEF RoomInv, Recorded
<1> QED
  BY <1>1, <1>2 DEF RoomInv, Recorded, KeysOf, Covers

\* A restart keeps RoomInv.
LEMMA RoomInvRestart ==
  ASSUME HostInv, RoomInv, NEW h \in Hosts, Restart(h)
  PROVE  RoomInv'
<1>1. /\ durable' = durable /\ overlaps' = overlaps
      /\ \A g \in Hosts : view'[g] = "current" => view[g] = "current"
                                                  /\ memory'[g] = memory[g]
      /\ Ledgers' \subseteq Ledgers \cup { EmptyLedger }
      /\ \A q \in Calls : hostCalls'[q].phase \in { "send", "finish" } =>
           hostCalls'[q] = hostCalls[q]
  BY DEF Restart, HostInv, HostTypeOK, Ledgers, IdleCall
<1>2. KeysOf(EmptyLedger) = {}
  BY DEF KeysOf, EmptyLedger
<1> QED
  BY <1>1, <1>2 DEF RoomInv, Recorded, KeysOf, Covers

\* With room, every step keeps RoomInv.
LEMMA RoomInvStep ==
  ASSUME HasRoom, HostInv, RoomInv, [HostNext]_hostVars
  PROVE  RoomInv'
<1>1. CASE UNCHANGED hostVars
  BY <1>1 DEF hostVars, RoomInv, Recorded, Ledgers, KeysOf, Covers
<1> QED
  BY <1>1, StepKinds, RoomInvSection, RoomInvOther, RoomInvOutside, RoomInvRestart


--------------------------------------------------------------------------------
(* What follows                                                            *)

\* The invariant implies what the runs check of every ledger.
LEMMA HostInvImplies ==
  HostInv => LedgersValid /\ ReadyMeansAnswered /\ LedgerBounded
<1> SUFFICES ASSUME HostInv PROVE LedgersValid /\ ReadyMeansAnswered /\ LedgerBounded
  OBVIOUS
<1>1. ASSUME NEW ledger \in Ledgers, NEW k \in KeysOf(ledger)
      PROVE  /\ k \in Keys /\ ledger[k].session.id \in Sessions /\ ledger[k].session.key = k
             /\ RecordOK(k, ledger[k], answered)
  BY <1>1, RecordFacts DEF HostInv, LedgersOK
<1>2. ASSUME NEW ledger \in Ledgers, NEW j \in KeysOf(ledger), NEW k \in KeysOf(ledger),
             ledger[j].session.id = ledger[k].session.id
      PROVE  j = k
  <2>1. Named(ledger[k].session.id, j) /\ Named(ledger[k].session.id, k)
    BY <1>1, <1>2 DEF Named, NamedInLedger
  <2> QED
    BY <1>1, <2>1 DEF HostInv, Coherent
<1>3. LedgersValid
  BY <1>1, <1>2 DEF LedgersValid, KeysOfSession, RecordOK
<1>4. ReadyMeansAnswered
  BY <1>1 DEF ReadyMeansAnswered, RecordOK, HostInv, CallsOK, CallOK
<1>5. LedgerBounded
  BY DEF LedgerBounded, HostInv, LedgersOK, LedgerOK
<1> QED
  BY <1>3, <1>4, <1>5

\* RoomInv implies one ready session per key and an intent behind every bootstrap.
LEMMA RoomInvImplies ==
  HostInv /\ RoomInv => OneReadySession /\ IntentBeforeBootstrap
<1> SUFFICES ASSUME HostInv, RoomInv PROVE OneReadySession /\ IntentBeforeBootstrap
  OBVIOUS
<1>1. OneReadySession
  BY DEF OneReadySession, RoomInv, Recorded, KeysOf
<1>2. IntentBeforeBootstrap
  BY DEF IntentBeforeBootstrap, RoomInv, Recorded
<1> QED
  BY <1>1, <1>2

\* What memory a section changes, and how.
LEMMA AdvanceMemory ==
  ASSUME HostInv, NEW h \in Hosts, NEW M, Advances(h, M),
         NEW g \in Hosts, NEW k \in KeysOf(memory[g])
  PROVE  \/ memory'[g] = memory[g]
         \/ g = h /\ memory'[g] = M /\ Loaded(h) = memory[g]
<1>1. memory' = [memory EXCEPT ![h] = M]
  BY AdvanceTypes
<1>2. view[g] # "unloaded"
  BY DEF HostInv, Unloaded, EmptyLedger, KeysOf
<1> QED
  BY <1>1, <1>2 DEF Loaded, HostInv, HostTypeOK

\* The inductive invariant of the hosts, and with it the type of their state.
THEOREM HostInvariant == HostSpec => []HostInv
BY HostInvInit, HostInvStep, PTL DEF HostSpec

\* Ledgers, calls and acknowledgements keep their types on every path, those on which a
\* commit fails half way included.
THEOREM HostIsTyped == HostSpec => []HostTypeOK
BY HostInvariant, PTL DEF HostInv

\* No ledger, in memory or on disk, ever fails validateNativeSessionLedger.
THEOREM LedgersStayValid == HostSpec => []LedgersValid
BY HostInvariant, HostInvImplies, PTL

\* No ledger outgrows MaximumNativeSessionRecords.
THEOREM LedgersStayBounded == HostSpec => []LedgerBounded
BY HostInvariant, HostInvImplies, PTL

\* A session is ready, and a bootstrap succeeds, only if the provider has acknowledged that
\* session with that handoff; overlapping commits change nothing of that.
THEOREM ReadinessIsAnswered == HostSpec => []ReadyMeansAnswered
BY HostInvariant, HostInvImplies, PTL

\* A full ledger gives up none but cancelled sessions.
THEOREM EvictionIsSafe == HostSpec => EvictsOnlyCancelled
<1> DEFINE Evicts ==
      \A h \in Hosts : \A k \in KeysOf(memory[h]) :
        view'[h] # "unloaded" /\ memory'[h][k] = None
          => memory[h][k].status = "Cancelled"
<1>1. ASSUME HostInv, [HostNext]_hostVars PROVE Evicts
  <2> SUFFICES ASSUME NEW h \in Hosts, NEW k \in KeysOf(memory[h]),
                      view'[h] # "unloaded", memory'[h][k] = None
               PROVE  memory[h][k].status = "Cancelled"
    OBVIOUS
  <2>1. memory'[h] # memory[h]
    BY DEF KeysOf
  <2>2. ASSUME NEW g \in Hosts, NEW M, Advances(g, M)
        PROVE  memory[h][k].status = "Cancelled"
    <3>1. memory'[h] = M /\ Loaded(g) = memory[h]
      BY <1>1, <2>1, <2>2, AdvanceMemory
    <3>2. Develops(Loaded(g), M)
      BY <2>2 DEF Advances
    <3>3. M[k] = None
      BY <3>1
    <3> QED
      BY <3>1, <3>2, <3>3 DEF Develops
  <2>3. ~\E p \in Calls : CallOutside(p)
    BY <2>1 DEF CallOutside
  <2>4. ~\E g \in Hosts : Restart(g)
    BY <1>1, <2>1 DEF Restart, HostInv, HostTypeOK
  <2>5. HostNext
    BY <1>1, <2>1 DEF hostVars
  <2>6. \A p \in Calls : HostOf[p] \in Hosts
    BY HostOfAssumption
  <2> QED
    BY <1>1, <2>2, <2>3, <2>4, <2>5, <2>6, StepKinds DEF CallSection, OtherSection
<1>2. HostInv /\ [HostNext]_hostVars => Evicts
  BY <1>1
<1> HIDE DEF Evicts
<1>3. HostSpec => [][Evicts]_hostVars
  BY <1>2, HostInvariant, PTL DEF HostSpec
<1> QED
  BY <1>3 DEF Evicts, EvictsOnlyCancelled

\* Only a call that was past its check for cancellation brings its cancelled session back.
THEOREM RevivalIsInFlight == HostSpec => RevivedOnlyInFlight
<1> DEFINE Revives ==
      \A h \in Hosts : \A k \in KeysOf(memory[h]) :
        /\ memory[h][k].status = "Cancelled"
        /\ view'[h] # "unloaded" /\ memory'[h][k] # None
        /\ memory'[h][k].session.id = memory[h][k].session.id
        /\ memory'[h][k].status # "Cancelled"
        => \E p \in Calls :
             /\ HostOf[p] = h /\ hostCalls[p].phase \in { "publish", "rebind" }
             /\ hostCalls[p].session.id = memory[h][k].session.id
             /\ hostCalls'[p].phase # hostCalls[p].phase
<1>1. ASSUME HostInv, [HostNext]_hostVars PROVE Revives
  <2> SUFFICES ASSUME NEW h \in Hosts, NEW k \in KeysOf(memory[h]),
                      memory[h][k].status = "Cancelled",
                      view'[h] # "unloaded", memory'[h][k] # None,
                      memory'[h][k].status # "Cancelled"
               PROVE  \E p \in Calls :
                        /\ HostOf[p] = h /\ hostCalls[p].phase \in { "publish", "rebind" }
                        /\ hostCalls[p].session.id = memory[h][k].session.id
                        /\ hostCalls'[p].phase # hostCalls[p].phase
    OBVIOUS
  <2>1. memory'[h] # memory[h]
    OBVIOUS
  <2>2. ASSUME NEW g \in Hosts, NEW M, Advances(g, M)
        PROVE  /\ g = h /\ ~RevivesNone(Loaded(g), M)
               /\ \A id : RevivesOnly(id, Loaded(g), M) => memory[h][k].session.id = id
    BY <1>1, <2>1, <2>2, AdvanceMemory DEF RevivesNone, RevivesOnly
  <2>3. ~\E p \in Calls : CallOutside(p)
    BY <2>1 DEF CallOutside
  <2>4. ~\E g \in Hosts : Restart(g)
    BY <1>1, <2>1 DEF Restart, HostInv, HostTypeOK
  <2>5. HostNext
    BY <1>1, <2>1 DEF hostVars
  <2>6. \A p \in Calls : HostOf[p] \in Hosts
    BY HostOfAssumption
  <2>7. ~\E g \in Hosts : \E M : OtherSection(g, M)
    BY <2>2 DEF OtherSection
  <2>8. PICK p \in Calls : \E M : CallSection(p, M)
    BY <1>1, <2>3, <2>4, <2>5, <2>7, StepKinds
  <2>9. PICK M : CallSection(p, M)
    BY <2>8
  <2>10. HostOf[p] = h /\ ~RevivesNone(Loaded(HostOf[p]), M)
    BY <2>2, <2>6, <2>9 DEF CallSection
  <2>11. /\ hostCalls[p].phase \in { "publish", "rebind" }
         /\ RevivesOnly(hostCalls[p].session.id, Loaded(HostOf[p]), M)
         /\ hostCalls'[p].phase \notin { "publish", "rebind" }
    BY <2>9, <2>10 DEF CallSection
  <2> QED
    BY <2>2, <2>6, <2>9, <2>10, <2>11 DEF CallSection
<1>2. HostInv /\ [HostNext]_hostVars => Revives
  BY <1>1
<1> HIDE DEF Revives
<1>3. HostSpec => [][Revives]_hostVars
  BY <1>2, HostInvariant, PTL DEF HostSpec
<1> QED
  BY <1>3 DEF Revives, RevivedOnlyInFlight

\* The ledger file changes only when a section commits.
LEMMA FileAdvances ==
  ASSUME HostInv, [HostNext]_hostVars, durable' # durable
  PROVE  \E h \in Hosts : \E M : Advances(h, M) /\ Commits(h, M) /\ durable' = M
<1>1. ASSUME NEW h \in Hosts, NEW M, Advances(h, M)
      PROVE  Advances(h, M) /\ Commits(h, M) /\ durable' = M
  BY <1>1 DEF Advances, Commits, KeepsInMemory
<1>2. ~\E p \in Calls : CallOutside(p)
  BY DEF CallOutside
<1>3. ~\E h \in Hosts : Restart(h)
  BY DEF Restart
<1>4. HostNext
  BY DEF hostVars
<1>5. \A p \in Calls : HostOf[p] \in Hosts
  BY HostOfAssumption
<1>6. \E h \in Hosts : \E M : Advances(h, M)
  BY <1>2, <1>3, <1>4, <1>5, StepKinds DEF CallSection, OtherSection
<1> QED
  BY <1>1, <1>6

\* Where commits do not overlap, no retry, replay or other process sends a session another
\* document than the one it is bound to.
THEOREM BindingIsFinal == HostSpec => BoundOnce
<1> DEFINE Keeps ==
      ~overlaps => \A k \in KeysOf(durable) :
        durable[k].digest # None /\ durable'[k] # None
          /\ durable'[k].session.id = durable[k].session.id
        => durable'[k].digest = durable[k].digest
<1>1. ASSUME HostInv, [HostNext]_hostVars PROVE Keeps
  <2> SUFFICES ASSUME ~overlaps, durable' # durable,
                      NEW k \in KeysOf(durable), durable[k].digest # None,
                      durable'[k] # None,
                      durable'[k].session.id = durable[k].session.id
               PROVE  durable'[k].digest = durable[k].digest
    OBVIOUS
  <2>0. PICK h \in Hosts : \E M : Advances(h, M) /\ Commits(h, M) /\ durable' = M
    BY <1>1, FileAdvances
  <2>1. PICK M : Advances(h, M) /\ Commits(h, M) /\ durable' = M
    BY <2>0
  <2>2. view[h] # "stale"
    BY <1>1, <2>1 DEF Commits, HostInv, InTurn
  <2>3. Bound(durable, M)
    BY <1>1, <2>1, <2>2, LoadedBound, AdvanceBound
  <2> QED
    BY <2>1, <2>3 DEF Bound, Continues
<1>2. HostInv /\ [HostNext]_hostVars => Keeps
  BY <1>1
<1> HIDE DEF Keeps
<1>3. HostSpec => [][Keeps]_hostVars
  BY <1>2, HostInvariant, PTL DEF HostSpec
<1> QED
  BY <1>3 DEF Keeps, BoundOnce

\* Empty ledgers satisfy RoomInv.
LEMMA RoomInvInit ==
  ASSUME HostInit
  PROVE  RoomInv
BY DEF HostInit, RoomInv, Ledgers, EmptyLedger, KeysOf, IdleCall

\* The invariant of ledgers with room for every key.
THEOREM RoomInvariant ==
  ASSUME HasRoom
  PROVE  HostSpec => []RoomInv
<1>1. HostInit => RoomInv
  BY RoomInvInit
<1>2. HostInv /\ RoomInv /\ [HostNext]_hostVars => RoomInv'
  BY RoomInvStep
<1> QED
  BY <1>1, <1>2, HostInvariant, PTL DEF HostSpec

\* Where commits do not overlap and the ledger has room, no two processes ever have
\* different ready sessions for one key.
THEOREM ReadySessionIsOne ==
  ASSUME HasRoom
  PROVE  HostSpec => []OneReadySession
BY RoomInvariant, HostInvariant, RoomInvImplies, PTL

\* There, what the provider is sent is recorded in the file before.
THEOREM IntentIsDurable ==
  ASSUME HasRoom
  PROVE  HostSpec => []IntentBeforeBootstrap
BY RoomInvariant, HostInvariant, RoomInvImplies, PTL

\* And there, no process overwrites the session another process has recorded.
THEOREM SessionsAreKept ==
  ASSUME HasRoom
  PROVE  HostSpec => NoSessionLostInTurn
<1> DEFINE Keeps ==
      ~overlaps => \A k \in KeysOf(durable) :
        durable'[k] # None /\ durable'[k].session.id = durable[k].session.id
<1>1. ASSUME HostInv, RoomInv, [HostNext]_hostVars PROVE Keeps
  <2> SUFFICES ASSUME ~overlaps, durable' # durable, NEW k \in KeysOf(durable)
               PROVE  durable'[k] # None
                      /\ durable'[k].session.id = durable[k].session.id
    BY DEF KeysOf
  <2>1. PICK h \in Hosts : \E M : Advances(h, M)
    BY <1>1, FileAdvances
  <2>2. Covers(durable, durable')
    BY <1>1, <2>1, RoomSection
  <2> QED
    BY <2>2 DEF Covers, Continues
<1>2. HostInv /\ RoomInv /\ [HostNext]_hostVars => Keeps
  BY <1>1
<1> HIDE DEF Keeps
<1>3. HostSpec => [][Keeps]_hostVars
  BY <1>2, HostInvariant, RoomInvariant, PTL DEF HostSpec
<1> QED
  BY <1>3 DEF Keeps, NoSessionLostInTurn

--------------------------------------------------------------------------------
(* Where the records of a ledger come from                                 *)

SameSession(older, newer) ==
  /\ newer.session.id = older.session.id
  /\ newer.session.operation = older.session.operation

\* What a section of call p makes of a ledger: its records stay those of their sessions,
\* the call binds only its own session, and adds only the one it was to create.
Rewritten(p, older, newer) ==
  LET call == hostCalls[p]
  IN \A k \in KeysOf(newer) :
       \/ /\ k \in KeysOf(older) /\ SameSession(older[k], newer[k])
          /\ \/ newer[k].digest = older[k].digest
             \/ /\ call.phase \in { "bind", "rebind" }
                /\ k = call.session.key /\ newer[k].session.id = call.session.id
                /\ newer[k].digest = call.digest
       \/ /\ k \notin KeysOf(older)
          /\ call.phase = "intent" /\ k = call.session.key /\ newer[k].digest = None

\* A process's ledger is rewritten, or was only read.
Rewrites(p, ledger) ==
  LET h == HostOf[p]
  IN /\ \/ Commits(h, ledger)
        \/ FailsToCommit(h, ledger)
        \/ Loads(h) /\ ledger = Loaded(h)
     /\ Rewritten(p, Loaded(h), ledger)

\* Reading a ledger rewrites nothing.
LEMMA LoadRewrites ==
  ASSUME NEW p \in Calls, Loads(HostOf[p])
  PROVE  \E ledger : Rewrites(p, ledger)
<1>1. Rewritten(p, Loaded(HostOf[p]), Loaded(HostOf[p]))
  BY DEF Rewritten, SameSession
<1> QED
  BY <1>1 DEF Rewrites

\* Replacing one record by another of the same session.
LEMMA ReplaceRewrites ==
  ASSUME HostInv, NEW p \in Calls, NEW k \in KeysOf(Loaded(HostOf[p])), NEW record,
         SameSession(Loaded(HostOf[p])[k], record),
         \/ record.digest = Loaded(HostOf[p])[k].digest
         \/ /\ hostCalls[p].phase \in { "bind", "rebind" }
            /\ k = hostCalls[p].session.key /\ record.session.id = hostCalls[p].session.id
            /\ record.digest = hostCalls[p].digest,
         \/ Commits(HostOf[p], [Loaded(HostOf[p]) EXCEPT ![k] = record])
         \/ FailsToCommit(HostOf[p], [Loaded(HostOf[p]) EXCEPT ![k] = record])
  PROVE  \E ledger : Rewrites(p, ledger)
<1> DEFINE L == Loaded(HostOf[p])
           M == [L EXCEPT ![k] = record]
<1>1. L \in [Keys -> Records \cup {None}] /\ k \in Keys
  BY LoadedOK, HostOfAssumption DEF LedgerOK, KeysOf
<1>2. M[k] = record /\ \A j \in Keys : j # k => M[j] = L[j]
  BY <1>1
<1>3. Rewritten(p, L, M)
  <2> HIDE DEF L, M
  <2>1. k \in KeysOf(L) /\ SameSession(L[k], record)
        /\ \/ record.digest = L[k].digest
           \/ /\ hostCalls[p].phase \in { "bind", "rebind" }
              /\ k = hostCalls[p].session.key
              /\ record.session.id = hostCalls[p].session.id
              /\ record.digest = hostCalls[p].digest
    BY DEF L
  <2> SUFFICES ASSUME NEW j \in KeysOf(M)
               PROVE  /\ j \in KeysOf(L) /\ SameSession(L[j], M[j])
                      /\ \/ M[j].digest = L[j].digest
                         \/ /\ hostCalls[p].phase \in { "bind", "rebind" }
                            /\ j = hostCalls[p].session.key
                            /\ M[j].session.id = hostCalls[p].session.id
                            /\ M[j].digest = hostCalls[p].digest
    BY DEF Rewritten
  <2>2. CASE j = k
    BY <1>2, <2>1, <2>2
  <2>3. CASE j # k
    BY <1>2, <2>3 DEF KeysOf, SameSession
  <2> QED
    BY <2>2, <2>3
<1> QED
  BY <1>3 DEF Rewrites, M, L

\* A session that has ended, been published or become ready is the same session.
LEMMA MarksRewrite ==
  ASSUME HostInv, NEW p \in Calls, NEW k \in KeysOf(Loaded(HostOf[p])),
         NEW status, NEW provider,
         \E M : /\ \/ M = [Loaded(HostOf[p]) EXCEPT ![k].status = status]
                   \/ M = [Loaded(HostOf[p]) EXCEPT ![k].status = status,
                                                    ![k].session.provider = provider]
                   \/ M = [Loaded(HostOf[p]) EXCEPT
                             ![k] = [@ EXCEPT !.session.provider = provider,
                                              !.status = status]]
                /\ Commits(HostOf[p], M) \/ FailsToCommit(HostOf[p], M)
  PROVE  \E ledger : Rewrites(p, ledger)
<1> DEFINE L == Loaded(HostOf[p])
<1>1. /\ L \in [Keys -> Records \cup {None}] /\ k \in Keys
      /\ L[k] \in Records /\ L[k].session \in HostSessions
  BY LoadedOK, HostOfAssumption, RecordFacts DEF LedgerOK
<1>2. PICK M : /\ \/ M = [L EXCEPT ![k].status = status]
                  \/ M = [L EXCEPT ![k].status = status,
                                   ![k].session.provider = provider]
                  \/ M = [L EXCEPT ![k] = [@ EXCEPT !.session.provider = provider,
                                                    !.status = status]]
               /\ Commits(HostOf[p], M) \/ FailsToCommit(HostOf[p], M)
  OBVIOUS
<1>3. \E record : /\ M = [L EXCEPT ![k] = record] /\ SameSession(L[k], record)
                  /\ record.digest = L[k].digest
  <2>1. CASE M = [L EXCEPT ![k].status = status]
    <3> DEFINE r == [L[k] EXCEPT !.status = status]
    <3>1. M = [L EXCEPT ![k] = r]
      BY <2>1
    <3>2. SameSession(L[k], r) /\ r.digest = L[k].digest
      BY <1>1 DEF SameSession, Records
    <3> QED
      BY <3>1, <3>2
  <2>2. CASE \/ M = [L EXCEPT ![k].status = status, ![k].session.provider = provider]
             \/ M = [L EXCEPT ![k] = [@ EXCEPT !.session.provider = provider,
                                               !.status = status]]
    <3> DEFINE r == [L[k] EXCEPT !.session.provider = provider, !.status = status]
               s == [L[k] EXCEPT !.status = status, !.session.provider = provider]
    <3>1. M = [L EXCEPT ![k] = r] \/ M = [L EXCEPT ![k] = s]
      BY <1>1, <2>2, Zenon
    <3>2. SameSession(L[k], r) /\ r.digest = L[k].digest
      BY <1>1, Zenon DEF SameSession, Records, HostSessions
    <3>3. SameSession(L[k], s) /\ s.digest = L[k].digest
      BY <1>1, Zenon DEF SameSession, Records, HostSessions
    <3> QED
      BY <3>1, <3>2, <3>3, Zenon
  <2> QED
    BY <1>2, <2>1, <2>2
<1> QED
  BY <1>2, <1>3, ReplaceRewrites

\* A creation adds the record of its intent, and may give up one that has ended.
LEMMA IntentRewrites ==
  ASSUME HostInv, NEW p \in Calls, NEW known, CreateRecordsIntent(p, known)
  PROVE  \E ledger : Rewrites(p, ledger)
<1> DEFINE h == HostOf[p]
           L == Loaded(h)
           key == hostCalls[p].session.key
<1>0. h \in Hosts /\ hostCalls[p] \in HostCalls /\ CallOK(hostCalls[p], answered)
  BY HostOfAssumption DEF HostInv, HostTypeOK, CallsOK
<1>1. hostCalls[p].phase = "intent" /\ L[key] = None
  BY DEF CreateRecordsIntent
<1>2. key \in Keys
  BY <1>0, <1>1 DEF CallOK, HostCalls, HostSessions
<1>3. LedgerOK(L, answered)
  BY <1>0, LoadedOK
<1>4. PICK admitting \in Admitting(L), s \in FreshSessions(known) :
        LET made == [hostCalls[p].session EXCEPT !.id = s]
            recorded == [admitting EXCEPT ![key] =
              [ session |-> made, status |-> "Creating", digest |-> None, owner |-> p ]]
        IN Commits(h, recorded) \/ FailsToCommit(h, recorded)
  BY DEF CreateRecordsIntent
<1>5. PICK intent :
        /\ intent.digest = None
        /\ \/ Commits(h, [admitting EXCEPT ![key] = intent])
           \/ FailsToCommit(h, [admitting EXCEPT ![key] = intent])
  <2> DEFINE made == [hostCalls[p].session EXCEPT !.id = s]
             r == [ session |-> made, status |-> "Creating", digest |-> None,
                    owner |-> p ]
  <2>1. r.digest = None
    OBVIOUS
  <2>2. \/ Commits(h, [admitting EXCEPT ![key] = r])
        \/ FailsToCommit(h, [admitting EXCEPT ![key] = r])
    BY <1>4
  <2> HIDE DEF r
  <2> QED
    BY <2>1, <2>2
<1> DEFINE M == [admitting EXCEPT ![key] = intent]
<1>6. /\ admitting \in [Keys -> Records \cup {None}]
      /\ KeysOf(admitting) \subseteq KeysOf(L)
      /\ \A k \in KeysOf(admitting) : admitting[k] = L[k]
  BY <1>1, <1>2, <1>3, AdmitOK
<1>7. Rewritten(p, L, M)
  <2>1. M[key] = intent /\ \A k \in Keys : k # key => M[k] = admitting[k]
    BY <1>2, <1>6
  <2> HIDE DEF M, L
  <2>2. \A k \in KeysOf(M) : k # key => k \in KeysOf(L) /\ M[k] = L[k]
    BY <1>6, <2>1 DEF KeysOf
  <2>3. key \notin KeysOf(L)
    BY <1>1 DEF KeysOf, L
  <2> QED
    BY <1>1, <1>5, <2>1, <2>2, <2>3 DEF Rewritten, SameSession
<1> QED
  BY <1>5, <1>7 DEF Rewrites

\* The record a call has bound its handoff to.
LEMMA BoundRewrites ==
  ASSUME HostInv, NEW p \in Calls, hostCalls[p].phase \in { "bind", "rebind" },
         KeysOfSession(Loaded(HostOf[p]), hostCalls[p].session.id) # {},
         Saves(p, [Loaded(HostOf[p]) EXCEPT ![hostCalls[p].session.key] =
                     Bootstrapping(Loaded(HostOf[p])[hostCalls[p].session.key], p,
                                   hostCalls[p].digest)], "send")
  PROVE  \E ledger : Rewrites(p, ledger)
<1> DEFINE L == Loaded(HostOf[p])
           k == hostCalls[p].session.key
           bound == Bootstrapping(L[k], p, hostCalls[p].digest)
<1>1. hostCalls[p].session # None /\ hostCalls[p].session.id \in Sessions
  BY DEF HostInv, CallsOK, CallOK
<1>2. k \in KeysOf(L) /\ L[k].session.id = hostCalls[p].session.id
  BY <1>1, FoundAtKey
<1>3. L[k] \in Records
  BY <1>2, LoadedOK, HostOfAssumption, RecordFacts
<1>4. SameSession(L[k], bound) /\ bound.digest = hostCalls[p].digest
      /\ bound.session.id = hostCalls[p].session.id
  BY <1>2, <1>3 DEF Bootstrapping, Records, SameSession
<1>5. Commits(HostOf[p], [L EXCEPT ![k] = bound])
        \/ FailsToCommit(HostOf[p], [L EXCEPT ![k] = bound])
  BY DEF Saves
<1> HIDE DEF bound
<1> QED
  BY <1>2, <1>4, <1>5, ReplaceRewrites

\* A section of a call rewrites the ledger of its process, or only reads it.
LEMMA HostStepRewrites ==
  ASSUME HostInv, NEW p \in Calls, NEW known, HostStep(p, known)
  PROVE  CallOutside(p) \/ \E ledger : Rewrites(p, ledger)
<1> DEFINE L == Loaded(HostOf[p])
           call == hostCalls[p]
           k == call.session.key
<1>0. \A j \in Keys : L[j] # None => j \in KeysOf(L)
  BY DEF KeysOf
<1>1. CASE Loads(HostOf[p])
  BY <1>1, LoadRewrites
<1>2. CASE CreateFindsRecord(p)
  BY <1>1, <1>2 DEF CreateFindsRecord
<1>3. CASE CreateRecordsIntent(p, known)
  BY <1>3, IntentRewrites
<1>4. CASE Publish(p) /\ ~Loads(HostOf[p])
  <2>1. call.phase = "publish" /\ L[k] # None
    BY <1>4 DEF Publish
  <2>2. k \in Keys
    BY <2>1 DEF HostInv, HostTypeOK, HostCalls, CallsOK, CallOK, HostSessions
  <2>3. \E M : /\ \/ M = [L EXCEPT ![k].status = "Cancelled"]
                  \/ M = [L EXCEPT ![k] = [@ EXCEPT !.session.provider = Pending,
                                                    !.status = "Active"]]
               /\ Commits(HostOf[p], M) \/ FailsToCommit(HostOf[p], M)
    BY <1>4 DEF Publish, Saves
  <2> QED
    BY <1>0, <2>1, <2>2, <2>3, MarksRewrite
<1>5. CASE Bind(p) /\ ~Loads(HostOf[p])
  BY <1>5, BoundRewrites DEF Bind
<1>6. CASE Rebind(p) /\ ~Loads(HostOf[p])
  BY <1>6, BoundRewrites DEF Rebind
<1>7. CASE Finish(p) /\ ~Loads(HostOf[p])
  <2>1. call.phase = "finish" /\ KeysOfSession(L, call.session.id) # {}
    BY <1>7 DEF Finish
  <2>2. k \in KeysOf(L)
    BY <2>1, FoundAtKey DEF HostInv, CallsOK, CallOK
  <2>3. \E provider, M :
          /\ \/ M = [L EXCEPT ![k].status = "Cancelled"]
             \/ M = [L EXCEPT ![k].status = "Ready", ![k].session.provider = provider]
          /\ Commits(HostOf[p], M) \/ FailsToCommit(HostOf[p], M)
    BY <1>7 DEF Finish, Saves
  <2> QED
    BY <2>2, <2>3, MarksRewrite
<1>8. CASE ProviderCreates(p) \/ ProviderReports(p) \/ ProviderAcknowledges(p)
  BY <1>8, OutsideSteps
<1> QED
  BY <1>1, <1>2, <1>3, <1>4, <1>5, <1>6, <1>7, <1>8 DEF HostStep

\* A cancellation ends sessions, and binds and adds none.
LEMMA CancelRewrites ==
  ASSUME HostInv, NEW p \in Calls, Cancel(p)
  PROVE  \E ledger : Rewrites(p, ledger)
<1> DEFINE L == Loaded(HostOf[p])
           doomed == { k \in KeysOf(L) : L[k].owner = p /\ L[k].status # "Cancelled" }
           M == CancelledRecords(L, doomed)
<1>1. CASE Loads(HostOf[p])
  BY <1>1, LoadRewrites
<1>2. CASE Commits(HostOf[p], M) \/ FailsToCommit(HostOf[p], M)
  <2>1. LedgerOK(L, answered)
    BY LoadedOK, HostOfAssumption
  <2>2. ASSUME NEW k \in KeysOf(M)
        PROVE  k \in KeysOf(L) /\ SameSession(L[k], M[k]) /\ M[k].digest = L[k].digest
    <3>1. M[k] = IF k \in doomed THEN [L[k] EXCEPT !.status = "Cancelled"] ELSE L[k]
      BY <2>2 DEF CancelledRecords, KeysOf
    <3>2. CASE k \in doomed
      <4>1. k \in KeysOf(L) /\ L[k] \in Records
        BY <2>1, <3>2, RecordFacts
      <4> QED
        BY <3>1, <3>2, <4>1 DEF SameSession, Records
    <3>3. CASE k \notin doomed
      BY <2>2, <3>1, <3>3 DEF KeysOf, SameSession
    <3> QED
      BY <3>2, <3>3
  <2> HIDE DEF M, L
  <2>3. Rewritten(p, L, M)
    BY <2>2 DEF Rewritten
  <2> QED
    BY <1>2, <2>3 DEF Rewrites, L
<1> QED
  BY <1>1, <1>2 DEF Cancel

================================================================================

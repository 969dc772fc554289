--------------------------- MODULE SessionHandover ---------------------------
(***************************************************************************)
(* What a project is promised of its rollovers, whoever drives them and    *)
(* however often they fail and are retried: one at a time, each introduces *)
(* one successor for good, and the project's active session moves to a     *)
(* successor only after that successor has been acknowledged.              *)
(*                                                                         *)
(* ContinuityRepository implements this specification: see Handover there. *)
(***************************************************************************)
CONSTANTS
  Operations,       \* rollovers
  Sessions,         \* logical sessions
  None              \* no session

Stages ==
  { "none", "preparing", "introduced", "acknowledged", "published", "giving up",
    "given up" }

VARIABLES
  stage,            \* how far each rollover has come
  successor,        \* the successor it has introduced
  active            \* the session the project points at

handoverVars == << stage, successor, active >>

--------------------------------------------------------------------------------
Open == { o \in Operations : stage[o] \notin { "none", "published", "given up" } }

HandoverInit ==
  /\ stage = [o \in Operations |-> "none"]
  /\ successor = [o \in Operations |-> None]
  /\ active = None

Begin(o) ==
  /\ stage[o] = "none"
  /\ Open = {}
  /\ stage' = [stage EXCEPT ![o] = "preparing"]
  /\ UNCHANGED << successor, active >>

Introduce(o, s) ==
  /\ stage[o] = "preparing"
  /\ stage' = [stage EXCEPT ![o] = "introduced"]
  /\ successor' = [successor EXCEPT ![o] = s]
  /\ UNCHANGED active

Acknowledged(o) ==
  /\ stage[o] = "introduced"
  /\ stage' = [stage EXCEPT ![o] = "acknowledged"]
  /\ UNCHANGED << successor, active >>

Publish(o) ==
  /\ stage[o] = "acknowledged"
  /\ stage' = [stage EXCEPT ![o] = "published"]
  /\ active' = successor[o]
  /\ UNCHANGED successor

GiveUp(o) ==
  /\ o \in Open
  /\ stage' = [stage EXCEPT ![o] =
       IF @ = "giving up" THEN "given up" ELSE "giving up"]
  /\ UNCHANGED << successor, active >>

\* The project's data is reset.
Forget ==
  /\ stage' = [o \in Operations |-> "none"]
  /\ successor' = [o \in Operations |-> None]
  /\ active' = None

HandoverNext ==
  \/ \E o \in Operations :
       \/ Begin(o)
       \/ \E s \in Sessions : Introduce(o, s)
       \/ Acknowledged(o)
       \/ Publish(o)
       \/ GiveUp(o)
  \/ Forget

HandoverSpec == HandoverInit /\ [][HandoverNext]_handoverVars

================================================================================

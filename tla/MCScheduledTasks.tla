--------------------------- MODULE MCScheduledTasks ---------------------------
(***************************************************************************)
(* ScheduledTasks for TLC: the schedules of one owner.                     *)
(***************************************************************************)
EXTENDS ScheduledTasks, TLC

CONSTANT o1

OneOwner == 1 :> o1 @@ 2 :> o1

\* One with a time, which a client may run again when it is over, and one with an interval.
SecondRepeats == 1 :> FALSE @@ 2 :> TRUE

\* The Manager is started when the first schedule's time is over: its run has completed.
Completed == [ state |-> "completed", pending |-> FALSE, interrupted |-> FALSE ]

Over ==
  [ next |-> FALSE, attention |-> FALSE, cancelled |-> FALSE, authorized |-> FALSE,
    latest |-> [ run |-> 1, state |-> "ended", interrupted |-> FALSE ] ]

OnceInit ==
  /\ receipt = [r \in Runs |-> IF r = 1 THEN Completed ELSE None]
  /\ active = [r \in Runs |-> None]
  /\ faults = 0
  /\ manager = "down"
  /\ disk = << Over >>
  /\ records = << >>
  /\ op = None
  /\ scheduleOf = [r \in Runs |-> IF r = 1 THEN 1 ELSE None]
  /\ used = 1

OnceSpec == OnceInit /\ [][Next]_vars

================================================================================

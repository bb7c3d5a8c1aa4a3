-------------------------- MODULE MCSimulatorEngine --------------------------
(* Small instances of SimulatorEngine.                                     *)
EXTENDS SimulatorEngine, TLC

(* Clients and workers are only compared for equality.                     *)
Symmetry == Permutations(Clients) \cup Permutations(Workers)

(* The database after a first reset, with the baseline still to be played   *)
(* or just complete, so that every client is free to take part in a race.   *)
StartedInit ==
    /\ \/ /\ engine = [NewEngine EXCEPT !.wasReset = TRUE]
          /\ stored = {}
       \/ /\ engine = [NewEngine EXCEPT !.wasReset = TRUE, !.state = "ready",
                                        !.scenario = "baseline_complete",
                                        !.cursor = BaselineLength]
          /\ stored = Baseline
    /\ stopEvent = FALSE
    /\ worker = NoThread
    /\ simulatorLock = NoThread
    /\ orchestratorLock = NoThread
    /\ writer = NoThread
    /\ pc = [t \in Threads |-> IF t \in Workers THEN "dead" ELSE "new"]
    /\ op = [c \in Clients |-> "none"]
    /\ group = [t \in Threads |-> 0]

StartedSpec == StartedInit /\ [][Next]_vars /\ Fairness
=============================================================================

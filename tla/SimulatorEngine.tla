--------------------------- MODULE SimulatorEngine ---------------------------
(***************************************************************************)
(* The demo simulator and the demo reset.                                  *)
(*                                                                         *)
(* SimulatorEngine replays a baseline from a background worker thread and, *)
(* once it is complete, a scenario from the thread of the request that     *)
(* triggers it.  Each timestamp group goes through ingestion: it takes     *)
(* SQLite's writer lock, then the orchestrator lock.  A tick holds the     *)
(* engine's lock meanwhile; a trigger does not.  A reset takes the         *)
(* orchestrator lock, then the writer lock, then the engine's lock.        *)
(*                                                                         *)
(* Groups are numbered in the order of the timeline: the baseline's, then  *)
(* the scenario's.                                                         *)
(***************************************************************************)
EXTENDS Integers, FiniteSets

CONSTANTS
    Clients,         \* requests to /simulator, each with a thread of its own
    Workers,         \* worker threads that may be alive at one time
    BaselineLength,  \* groups of the baseline
    ScenarioLength,  \* groups of a scenario
    NoThread         \* no thread

ASSUME LengthAssumption ==
    BaselineLength \in Nat \ {0} /\ ScenarioLength \in Nat \ {0}
ASSUME ThreadAssumption ==
    Clients \cap Workers = {} /\ NoThread \notin Clients \cup Workers

VARIABLES
    engine,           \* the engine's fields, guarded by simulatorLock
    stopEvent,        \* SimulatorEngine._stop_event
    worker,           \* SimulatorEngine._worker
    simulatorLock,    \* thread holding SimulatorEngine._lock across steps
    orchestratorLock, \* thread holding the orchestrator's lock
    writer,           \* thread holding SQLite's writer lock
    stored,           \* groups in the committed database
    pc,               \* where each thread is
    op,               \* which request a client makes
    group             \* the group each thread is emitting

locks == <<simulatorLock, orchestratorLock, writer>>
control == <<engine, stopEvent, worker>>
vars == <<control, locks, stored, pc, op, group>>

Threads == Clients \cup Workers
Baseline == 1..BaselineLength
Groups == 1..(BaselineLength + ScenarioLength)

Engine == [state : {"stopped", "running", "ready", "triggering", "completed"},
           scenario : {"idle", "baseline", "baseline_complete", "triggering",
                       "completed"},
           active : BOOLEAN,     \* active_scenario is not None
           cursor : 0..BaselineLength,
           wasReset : BOOLEAN]   \* last_reset_at is not None

NewEngine == [state |-> "stopped", scenario |-> "idle", active |-> FALSE,
              cursor |-> 0, wasReset |-> FALSE]

-----------------------------------------------------------------------------
Init ==
    /\ engine = NewEngine
    /\ stopEvent = FALSE
    /\ worker = NoThread
    /\ simulatorLock = NoThread
    /\ orchestratorLock = NoThread
    /\ writer = NoThread
    /\ stored = {}
    /\ pc = [t \in Threads |-> IF t \in Workers THEN "dead" ELSE "new"]
    /\ op = [c \in Clients |-> "none"]
    /\ group = [t \in Threads |-> 0]

Goto(t, label) == pc' = [pc EXCEPT ![t] = label]

(* A short critical section of the engine: one step while nobody holds it.  *)
EngineFree == simulatorLock = NoThread

Alive(w) == w # NoThread /\ pc[w] # "dead"

-----------------------------------------------------------------------------
(* Requests.                                                               *)

CanStart ==
    /\ engine.wasReset
    /\ engine.state \notin {"running", "ready"}
    /\ ~engine.active
    /\ engine.cursor < BaselineLength

(* start; _start_worker leaves a worker alone that is still alive.         *)
Start(c) ==
    /\ pc[c] = "new"
    /\ EngineFree
    /\ CanStart
    /\ engine' = [engine EXCEPT !.state = "running", !.scenario = "baseline"]
    /\ stopEvent' = FALSE
    /\ \/ /\ Alive(worker)
          /\ Goto(c, "done")
          /\ UNCHANGED worker
       \/ /\ ~Alive(worker)
          /\ \E w \in Workers :
                /\ pc[w] = "dead"
                /\ worker' = w
                /\ pc' = [pc EXCEPT ![c] = "done", ![w] = "loop"]
    /\ UNCHANGED <<locks, stored, op, group>>

(* Already running, or 409.                                                *)
StartRefused(c) ==
    /\ pc[c] = "new"
    /\ EngineFree
    /\ ~CanStart
    /\ Goto(c, "done")
    /\ UNCHANGED <<control, locks, stored, op, group>>

(* POST /simulator/stop reads the state before it calls stop().            *)
Stop(c) ==
    /\ pc[c] = "new"
    /\ EngineFree
    /\ engine.state = "running"
    /\ op' = [op EXCEPT ![c] = "stop"]
    /\ Goto(c, "signal")
    /\ UNCHANGED <<control, locks, stored, group>>

Reset(c) ==
    /\ pc[c] = "new"
    /\ op' = [op EXCEPT ![c] = "reset"]
    /\ Goto(c, "signal")
    /\ UNCHANGED <<control, locks, stored, group>>

CanTrigger ==
    /\ engine.state = "ready"
    /\ engine.scenario = "baseline_complete"
    /\ ~engine.active

Trigger(c) ==
    /\ pc[c] = "new"
    /\ EngineFree
    /\ CanTrigger
    /\ op' = [op EXCEPT ![c] = "trigger"]
    /\ Goto(c, "signal")
    /\ UNCHANGED <<control, locks, stored, group>>

(* _stop_worker: set the event, ...                                        *)
SignalWorker(c) ==
    /\ pc[c] = "signal"
    /\ stopEvent' = TRUE
    /\ Goto(c, "join")
    /\ UNCHANGED <<engine, worker, locks, stored, op, group>>

(* ... wait for the worker, for one second at most, and forget it.         *)
JoinWorker(c) ==
    /\ pc[c] = "join"
    /\ worker' = NoThread
    /\ Goto(c, CASE op[c] = "trigger" -> "arm"
                 [] orchestratorLock = c -> "rewind"
                 [] OTHER -> "halt")
    /\ UNCHANGED <<engine, stopEvent, locks, stored, op, group>>

(* Fault: the scenario's initial state is taken for the engine's.           *)
HaltIdle(c) ==
    /\ pc[c] = "halt"
    /\ EngineFree
    /\ engine' = [engine EXCEPT !.state = "idle"]
    /\ Goto(c, IF op[c] = "reset" THEN "lock" ELSE "done")
    /\ UNCHANGED <<stopEvent, worker, locks, stored, op, group>>

Halt(c) ==
    /\ pc[c] = "halt"
    /\ EngineFree
    /\ engine' = [engine EXCEPT !.state = "stopped"]
    /\ Goto(c, IF op[c] = "reset" THEN "lock" ELSE "done")
    /\ UNCHANGED <<stopEvent, worker, locks, stored, op, group>>

-----------------------------------------------------------------------------
(* The locked part of a reset.                                             *)

LockAnalysis(c) ==
    /\ pc[c] = "lock"
    /\ orchestratorLock = NoThread
    /\ orchestratorLock' = c
    /\ Goto(c, "clear")
    /\ UNCHANGED <<control, simulatorLock, writer, stored, op, group>>

(* Its first DELETE takes the writer lock; the rows go with the commit.    *)
ClearRows(c) ==
    /\ pc[c] = "clear"
    /\ writer = NoThread
    /\ writer' = c
    /\ Goto(c, "signal")
    /\ UNCHANGED <<control, simulatorLock, orchestratorLock, stored, op, group>>

(* Fault: reset waits for the writer lock as long as it takes.             *)
ResetWaits(c) ==
    /\ pc[c] = "clear"
    /\ writer \notin {NoThread, c}
    /\ UNCHANGED vars

(* busy_timeout expires: DATABASE_BUSY.                                    *)
ResetBusy(c) ==
    /\ pc[c] = "clear"
    /\ writer \notin {NoThread, c}
    /\ orchestratorLock' = NoThread
    /\ Goto(c, "done")
    /\ UNCHANGED <<control, simulatorLock, writer, stored, op, group>>

(* SimulatorEngine.reset.                                                  *)
Rewind(c) ==
    /\ pc[c] = "rewind"
    /\ EngineFree
    /\ engine' = [NewEngine EXCEPT !.wasReset = TRUE]
    /\ orchestratorLock' = NoThread
    /\ Goto(c, "settle")
    /\ UNCHANGED <<stopEvent, worker, simulatorLock, writer, stored, op, group>>

(* The orchestrator lock is already free when the session ends.            *)
CommitReset(c) ==
    /\ pc[c] = "settle"
    /\ stored' \in {{}, stored}
    /\ writer' = NoThread
    /\ Goto(c, "done")
    /\ UNCHANGED <<control, simulatorLock, orchestratorLock, op, group>>

(* A fixture is missing or inconsistent, or a statement fails.             *)
ResetFails(c) ==
    /\ pc[c] = "signal"
    /\ orchestratorLock = c
    /\ orchestratorLock' = NoThread
    /\ writer' = NoThread
    /\ Goto(c, "done")
    /\ UNCHANGED <<control, simulatorLock, stored, op, group>>

-----------------------------------------------------------------------------
(* The scenario.                                                           *)

Arm(c) ==
    /\ pc[c] = "arm"
    /\ EngineFree
    /\ engine' = [engine EXCEPT !.active = TRUE, !.state = "triggering",
                                !.scenario = "triggering"]
    /\ group' = [group EXCEPT ![c] = BaselineLength + 1]
    /\ Goto(c, "lookup")
    /\ UNCHANGED <<stopEvent, worker, locks, stored, op>>

(* The next group, or the end of the scenario.                             *)
Advance(c) ==
    /\ pc[c] = "counted"
    /\ c \in Clients
    /\ EngineFree
    /\ \/ /\ group[c] + 1 \in Groups
          /\ group' = [group EXCEPT ![c] = @ + 1]
          /\ Goto(c, "lookup")
          /\ UNCHANGED engine
       \/ /\ group[c] + 1 \notin Groups
          /\ engine' = [engine EXCEPT !.state = "completed",
                                      !.scenario = "completed"]
          /\ Goto(c, "done")
          /\ UNCHANGED group
    /\ UNCHANGED <<stopEvent, worker, locks, stored, op>>

-----------------------------------------------------------------------------
(* The worker.                                                             *)

Loop(w) ==
    /\ pc[w] = "loop"
    /\ Goto(w, IF stopEvent THEN "dead" ELSE "state")
    /\ UNCHANGED <<control, locks, stored, op, group>>

ReadState(w) ==
    /\ pc[w] = "state"
    /\ EngineFree
    /\ Goto(w, IF engine.state = "running" THEN "tick" ELSE "dead")
    /\ UNCHANGED <<control, locks, stored, op, group>>

BaselineDone(e) ==
    IF e.cursor < BaselineLength THEN e
    ELSE [e EXCEPT !.state = "ready", !.scenario = "baseline_complete"]

(* tick: nothing to do, or the end of the baseline.                        *)
TickIdle(w) ==
    /\ pc[w] = "tick"
    /\ EngineFree
    /\ engine.state # "running" \/ engine.cursor >= BaselineLength
    /\ engine' = IF engine.state = "running" THEN BaselineDone(engine) ELSE engine
    /\ Goto(w, "loop")
    /\ UNCHANGED <<stopEvent, worker, locks, stored, op, group>>

(* Fault: the engine's lock is let go while the group is emitted.          *)
TickUnlocked(w) ==
    /\ pc[w] = "tick"
    /\ EngineFree
    /\ engine.state = "running"
    /\ engine.cursor < BaselineLength
    /\ group' = [group EXCEPT ![w] = engine.cursor + 1]
    /\ Goto(w, "lookup")
    /\ UNCHANGED <<control, locks, stored, op>>

(* tick keeps the engine's lock while the group is emitted.                *)
Tick(w) ==
    /\ pc[w] = "tick"
    /\ EngineFree
    /\ engine.state = "running"
    /\ engine.cursor < BaselineLength
    /\ simulatorLock' = w
    /\ group' = [group EXCEPT ![w] = engine.cursor + 1]
    /\ Goto(w, "lookup")
    /\ UNCHANGED <<control, orchestratorLock, writer, stored, op>>

(* The group is in: the cursor moves on and the engine's lock is released.  *)
Count(w) ==
    /\ pc[w] = "counted"
    /\ w \in Workers
    /\ engine' = BaselineDone([engine EXCEPT !.cursor = @ + 1])
    /\ simulatorLock' = NoThread
    /\ Goto(w, "loop")
    /\ UNCHANGED <<stopEvent, worker, orchestratorLock, writer, stored, op, group>>

-----------------------------------------------------------------------------
(* _emit_group, by the worker or by a trigger.                             *)

(* A group whose source records are all known is not stored again.         *)
Lookup(t) ==
    /\ pc[t] = "lookup"
    /\ Goto(t, IF group[t] \in stored THEN "counted" ELSE "insert")
    /\ UNCHANGED <<control, locks, stored, op, group>>

InsertGroup(t) ==
    /\ pc[t] = "insert"
    /\ writer = NoThread
    /\ group[t] \notin stored
    /\ writer' = t
    /\ Goto(t, "publish")
    /\ UNCHANGED <<control, simulatorLock, orchestratorLock, stored, op, group>>

PublishGroup(t) ==
    /\ pc[t] = "publish"
    /\ orchestratorLock = NoThread
    /\ orchestratorLock' = t
    /\ Goto(t, "analysed")
    /\ UNCHANGED <<control, simulatorLock, writer, stored, op, group>>

(* The exception leaves the engine as it is, but for a tick's lock: the     *)
(* worker dies, the trigger's request fails.                               *)
Raise(t) ==
    /\ simulatorLock' = IF simulatorLock = t THEN NoThread ELSE simulatorLock
    /\ Goto(t, IF t \in Workers THEN "dead" ELSE "done")
    /\ UNCHANGED <<control, op, group>>

(* The writer lock is not had in time, or another thread's rows reject ours *)
InsertFails(t) ==
    /\ pc[t] = "insert"
    /\ writer # NoThread \/ group[t] \in stored
    /\ Raise(t)
    /\ UNCHANGED <<orchestratorLock, writer, stored>>

(* A failed detection rolls the group back; a failed analysis commits it.  *)
AnalysisFails(t) ==
    /\ pc[t] = "analysed"
    /\ stored' \in {stored, stored \cup {group[t]}}
    /\ writer' = NoThread
    /\ orchestratorLock' = NoThread
    /\ Raise(t)

ReleaseAnalysis(t) ==
    /\ pc[t] = "analysed"
    /\ orchestratorLock' = NoThread
    /\ Goto(t, "commit")
    /\ UNCHANGED <<control, simulatorLock, writer, stored, op, group>>

CommitGroup(t) ==
    /\ pc[t] = "commit"
    /\ stored' = stored \cup {group[t]}
    /\ writer' = NoThread
    /\ Goto(t, "counted")
    /\ UNCHANGED <<control, simulatorLock, orchestratorLock, op, group>>

-----------------------------------------------------------------------------
(* The process is restarted: only the database is left.                    *)
Restart ==
    /\ engine' = NewEngine
    /\ stopEvent' = FALSE
    /\ worker' = NoThread
    /\ simulatorLock' = NoThread
    /\ orchestratorLock' = NoThread
    /\ writer' = NoThread
    /\ pc' = [t \in Threads |-> IF t \in Workers THEN "dead"
                                ELSE IF pc[t] = "new" THEN "new" ELSE "done"]
    /\ UNCHANGED <<stored, op, group>>

Request(c) ==
    Start(c) \/ StartRefused(c) \/ Stop(c) \/ Reset(c) \/ Trigger(c)

ClientStep(c) ==
    \/ SignalWorker(c) \/ JoinWorker(c) \/ Halt(c)
    \/ LockAnalysis(c) \/ ClearRows(c) \/ ResetBusy(c) \/ Rewind(c)
    \/ CommitReset(c) \/ ResetFails(c)
    \/ Arm(c) \/ Advance(c)

WorkerStep(w) ==
    Loop(w) \/ ReadState(w) \/ TickIdle(w) \/ Tick(w) \/ Count(w)

Emit(t) ==
    \/ Lookup(t) \/ InsertGroup(t) \/ InsertFails(t) \/ PublishGroup(t)
    \/ AnalysisFails(t) \/ ReleaseAnalysis(t) \/ CommitGroup(t)

Next ==
    \/ \E c \in Clients : Request(c) \/ ClientStep(c)
    \/ \E w \in Workers : WorkerStep(w)
    \/ \E t \in Threads : Emit(t)
    \/ Restart

(* Threads run on, a busy wait ends.                                       *)
Fairness ==
    /\ \A c \in Clients : WF_vars(ClientStep(c) \/ Emit(c))
    /\ \A w \in Workers : WF_vars(WorkerStep(w) \/ Emit(w))

Spec == Init /\ [][Next]_vars /\ Fairness

-----------------------------------------------------------------------------
(* The variables have the types their comments announce.                   *)
TypeOK ==
    /\ engine \in Engine
    /\ stopEvent \in BOOLEAN
    /\ worker \in Workers \cup {NoThread}
    /\ {simulatorLock, orchestratorLock, writer} \subseteq Threads \cup {NoThread}
    /\ stored \subseteq Groups
    /\ pc \in [Threads -> {"new", "signal", "join", "halt", "lock", "clear",
                           "rewind", "settle", "arm", "loop", "state", "tick",
                           "lookup", "insert", "publish", "analysed",
                           "commit", "counted", "done", "dead"}]
    /\ op \in [Clients -> {"none", "stop", "reset", "trigger"}]
    /\ group \in [Threads -> Groups \cup {0}]

(* The detectors see the baseline in order and without a gap: what the      *)
(* cursor has passed, and the group about to be counted, is stored.         *)
BaselineHasNoGap ==
    /\ 1..engine.cursor \subseteq stored
    /\ \A g \in stored \cap Baseline : 1..g \subseteq stored
    /\ \A w \in Workers : pc[w] = "counted" => group[w] \in stored

(* Nothing but the commit of a reset opens a gap in the baseline: not       *)
(* workers that outlive their stop, are revived by the next start or tick   *)
(* beside a second one, nor a failed group, a failed reset or a restart     *)
(* (tick, _emit_group, _stop_worker, reset).                               *)
OnlyResetOpensGap ==
    [][BaselineHasNoGap =>
          BaselineHasNoGap' \/ \E c \in Clients : CommitReset(c)]_vars

(* Every request ends: ticks, triggers and resets take the three locks in   *)
(* different orders, and only the busy timeout parts them.                 *)
RequestsEnd == \A c \in Clients : pc[c] # "new" ~> pc[c] = "done"
=============================================================================

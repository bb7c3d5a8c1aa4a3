------------------------ MODULE SimulatorEngineProofs ------------------------
(***************************************************************************)
(* Proofs about SimulatorEngine, for any number of clients and workers and  *)
(* timelines of any length.                                                *)
(*                                                                         *)
(* That only the commit of a reset opens a gap in the baseline rests on     *)
(* EmissionInv: a worker that emits a group holds the engine's lock, so     *)
(* its group is still the one that the cursor points at when it is          *)
(* committed and counted, whoever stopped, restarted or reset the engine.   *)
(***************************************************************************)
EXTENDS SimulatorEngine, TLAPS

(* Where _emit_group is under way.                                         *)
Emitting == {"lookup", "insert", "publish", "analysed", "commit", "counted"}

WorkerInv ==
    \A w \in Workers :
        pc[w] \in Emitting => /\ simulatorLock = w
                              /\ engine.cursor < BaselineLength
                              /\ group[w] = engine.cursor + 1

ClientInv ==
    \A c \in Clients : pc[c] \in Emitting => group[c] \in Groups \ Baseline

EmissionInv == TypeOK /\ WorkerInv /\ ClientInv

-----------------------------------------------------------------------------
(* Types.                                                                  *)

(* What the engine's statements assign is within its type.                 *)
LEMMA EngineFields ==
    ASSUME NEW e \in Engine
    PROVE  /\ e.cursor \in Nat /\ e.cursor <= BaselineLength
           /\ [e EXCEPT !.state = "stopped"] \in Engine
           /\ [e EXCEPT !.state = "running", !.scenario = "baseline"]
                 \in Engine
           /\ [e EXCEPT !.active = TRUE, !.state = "triggering",
                        !.scenario = "triggering"] \in Engine
           /\ [e EXCEPT !.state = "completed", !.scenario = "completed"]
                 \in Engine
           /\ BaselineDone(e) \in Engine
           /\ BaselineDone(e).cursor = e.cursor
           /\ e.cursor < BaselineLength =>
                 /\ [e EXCEPT !.cursor = @ + 1] \in Engine
                 /\ [e EXCEPT !.cursor = @ + 1].cursor = e.cursor + 1
<1>1. BaselineLength \in Nat
  BY LengthAssumption
<1>2. e.cursor \in Nat /\ e.cursor <= BaselineLength
  BY <1>1 DEF Engine
<1>3. /\ [e EXCEPT !.state = "stopped"] \in Engine
      /\ [e EXCEPT !.state = "running", !.scenario = "baseline"] \in Engine
  BY DEF Engine
<1>4. /\ [e EXCEPT !.active = TRUE, !.state = "triggering",
                   !.scenario = "triggering"] \in Engine
      /\ [e EXCEPT !.state = "completed", !.scenario = "completed"] \in Engine
  BY DEF Engine
<1>5. /\ BaselineDone(e) \in Engine /\ BaselineDone(e).cursor = e.cursor
  BY DEF Engine, BaselineDone
<1>6. ASSUME e.cursor < BaselineLength
      PROVE  /\ [e EXCEPT !.cursor = e.cursor + 1] \in Engine
             /\ [e EXCEPT !.cursor = e.cursor + 1].cursor = e.cursor + 1
  <2>1. e.cursor + 1 \in 0..BaselineLength
    BY <1>1, <1>2, <1>6
  <2> QED
    BY <2>1 DEF Engine
<1> QED
  BY <1>2, <1>3, <1>4, <1>5, <1>6

(* A new engine is at the start of the baseline.                           *)
LEMMA NewEngineFacts ==
    /\ NewEngine \in Engine /\ NewEngine.cursor = 0
    /\ [NewEngine EXCEPT !.wasReset = TRUE] \in Engine
    /\ [NewEngine EXCEPT !.wasReset = TRUE].cursor = 0
<1>1. 0 \in 0..BaselineLength
  BY LengthAssumption
<1>2. NewEngine \in Engine /\ NewEngine.cursor = 0
  BY <1>1 DEF NewEngine, Engine
<1> QED
  BY <1>2 DEF Engine

(* The baseline's groups come before the scenarios'.                       *)
LEMMA GroupFacts ==
    /\ BaselineLength + 1 \in Groups \ Baseline
    /\ \A g \in Groups : g \in Nat /\ g >= 1
    /\ \A g \in Groups \ Baseline : g + 1 \notin Baseline
    /\ \A n \in Nat : n < BaselineLength => n + 1 \in Groups \cap Baseline
<1> QED
  BY LengthAssumption DEF Groups, Baseline

(* The control of clients.                                                 *)
LEMMA RequestTyped ==
    ASSUME TypeOK, NEW c \in Clients, Request(c)
    PROVE  TypeOK'
<1>1. CASE Start(c)
  BY <1>1, EngineFields DEF TypeOK, Start, Goto, locks, Threads
<1>2. CASE StartRefused(c)
  BY <1>2 DEF TypeOK, StartRefused, Goto, locks, control, Threads
<1>3. CASE Stop(c) \/ Reset(c) \/ Trigger(c)
  BY <1>3 DEF TypeOK, Stop, Reset, Trigger, Goto, locks, control, Threads
<1> QED
  BY <1>1, <1>2, <1>3 DEF Request

(* A request keeps the types.                                              *)
LEMMA ClientTyped ==
    ASSUME TypeOK, NEW c \in Clients, ClientStep(c)
    PROVE  TypeOK'
<1>1. c \in Threads
  BY DEF Threads
<1>2. CASE SignalWorker(c)
  BY <1>2, <1>1 DEF TypeOK, SignalWorker, Goto, locks
<1>3. CASE JoinWorker(c)
  <2>1. PICK label \in {"arm", "rewind", "halt"} : Goto(c, label)
    BY <1>3 DEF JoinWorker
  <2> QED
    BY <1>1, <1>3, <2>1 DEF TypeOK, JoinWorker, Goto, locks
<1>4. CASE Halt(c)
  BY <1>4, <1>1, EngineFields DEF TypeOK, Halt, Goto, locks
<1>5. CASE LockAnalysis(c) \/ ClearRows(c) \/ ResetBusy(c) \/ ResetFails(c)
  BY <1>5, <1>1
  DEF TypeOK, LockAnalysis, ClearRows, ResetBusy, ResetFails, Goto, control
<1>6. CASE Rewind(c)
  BY <1>6, <1>1, NewEngineFacts DEF TypeOK, Rewind, Goto
<1>7. CASE CommitReset(c)
  BY <1>7, <1>1 DEF TypeOK, CommitReset, Goto, control
<1>8. CASE Arm(c)
  BY <1>8, <1>1, EngineFields, GroupFacts DEF TypeOK, Arm, Goto, locks
<1>9. CASE Advance(c)
  BY <1>9, <1>1, EngineFields DEF TypeOK, Advance, Goto, locks
<1> QED
  BY <1>2, <1>3, <1>4, <1>5, <1>6, <1>7, <1>8, <1>9 DEF ClientStep

(* The baseline thread keeps the types.                                    *)
LEMMA WorkerTyped ==
    ASSUME EmissionInv, NEW w \in Workers, WorkerStep(w)
    PROVE  TypeOK'
<1>1. w \in Threads /\ TypeOK /\ engine \in Engine
  BY DEF Threads, EmissionInv, TypeOK
<1>2. CASE Loop(w) \/ ReadState(w)
  BY <1>2, <1>1 DEF TypeOK, Loop, ReadState, Goto, locks, control
<1>3. CASE TickIdle(w)
  BY <1>3, <1>1, EngineFields DEF TypeOK, TickIdle, Goto, locks
<1>4. CASE Tick(w)
  BY <1>4, <1>1, EngineFields, GroupFacts DEF TypeOK, Tick, Goto, control
<1>5. CASE Count(w)
  <2>1. engine.cursor < BaselineLength
    BY <1>5 DEF EmissionInv, WorkerInv, Emitting, Count
  <2>2. engine' \in Engine
    BY <1>1, <1>5, <2>1, EngineFields DEF Count
  <2> QED
    BY <1>1, <1>5, <2>2 DEF TypeOK, Count, Goto
<1> QED
  BY <1>2, <1>3, <1>4, <1>5 DEF WorkerStep

(* An emission under way keeps the types.                                  *)
LEMMA EmitTyped ==
    ASSUME EmissionInv, NEW t \in Threads, Emit(t)
    PROVE  TypeOK'
<1>1. TypeOK
  BY DEF EmissionInv
<1>2. CASE Lookup(t) \/ InsertGroup(t) \/ PublishGroup(t) \/ ReleaseAnalysis(t)
  BY <1>2, <1>1
  DEF TypeOK, Lookup, InsertGroup, PublishGroup, ReleaseAnalysis, Goto,
      control, locks
<1>3. CASE InsertFails(t)
  BY <1>3, <1>1 DEF TypeOK, InsertFails, Raise, Goto, control
<1>4. pc[t] \in Emitting => group[t] \in Groups
  BY <1>1, EngineFields, GroupFacts
  DEF EmissionInv, WorkerInv, ClientInv, Threads, TypeOK
<1>5. CASE AnalysisFails(t)
  BY <1>5, <1>1, <1>4
  DEF TypeOK, AnalysisFails, Raise, Goto, control, Emitting
<1>6. CASE CommitGroup(t)
  BY <1>6, <1>1, <1>4 DEF TypeOK, CommitGroup, Goto, control, Emitting
<1> QED
  BY <1>2, <1>3, <1>5, <1>6 DEF Emit

(* A restart keeps the types.                                              *)
LEMMA RestartTyped ==
    ASSUME TypeOK, Restart
    PROVE  TypeOK'
<1> QED
  BY NewEngineFacts DEF TypeOK, Restart

-----------------------------------------------------------------------------
(* Who emits which group.                                                  *)

(* A request keeps where each thread is in its emission.                   *)
LEMMA RequestEmits ==
    ASSUME EmissionInv, NEW c \in Clients, Request(c)
    PROVE  (WorkerInv /\ ClientInv)'
<1>1. c \notin Workers /\ c \in Threads /\ TypeOK
  BY ThreadAssumption DEF Threads, EmissionInv
<1>2. /\ engine'.cursor = engine.cursor
      /\ group' = group /\ simulatorLock' = simulatorLock
  BY <1>1
  DEF Request, Start, StartRefused, Stop, Reset, Trigger, control, locks,
      TypeOK, Engine
<1>3. \A t \in Threads : pc'[t] \in Emitting => pc[t] \in Emitting
  BY <1>1
  DEF Request, Start, StartRefused, Stop, Reset, Trigger, Goto, TypeOK,
      Emitting
<1> QED
  BY <1>2, <1>3 DEF EmissionInv, WorkerInv, ClientInv, Threads

(* A reset rewinds the cursor only while no worker emits.                   *)
LEMMA ClientEmits ==
    ASSUME EmissionInv, NEW c \in Clients, ClientStep(c)
    PROVE  (WorkerInv /\ ClientInv)'
<1>1. c \notin Workers /\ c \in Threads /\ TypeOK
  BY ThreadAssumption DEF Threads, EmissionInv
<1>2. CASE Rewind(c)
  <2>1. /\ simulatorLock = NoThread
        /\ group' = group /\ pc' = [pc EXCEPT ![c] = "settle"]
    BY <1>2 DEF Rewind, EngineFree, Goto
  <2>2. \A w \in Workers : pc[w] \notin Emitting
    BY <2>1, ThreadAssumption DEF EmissionInv, WorkerInv
  <2>3. \A t \in Threads : pc'[t] \in Emitting => pc[t] \in Emitting
    BY <1>1, <2>1 DEF TypeOK, Emitting
  <2> QED
    BY <2>1, <2>2, <2>3 DEF EmissionInv, WorkerInv, ClientInv, Threads
<1>3. CASE Arm(c) \/ Advance(c)
  <2>1. /\ simulatorLock' = simulatorLock
        /\ \A w \in Workers : pc'[w] = pc[w] /\ group'[w] = group[w]
        /\ engine'.cursor = engine.cursor
    BY <1>1, <1>3
    DEF Arm, Advance, Goto, locks, Threads, TypeOK, Engine
  <2>2. \A d \in Clients : d # c => pc'[d] = pc[d] /\ group'[d] = group[d]
    BY <1>1, <1>3 DEF Arm, Advance, Goto, Threads, TypeOK
  <2>3. pc'[c] \in Emitting => group'[c] \in Groups \ Baseline
    <3>1. CASE Arm(c)
      BY <1>1, <3>1, GroupFacts DEF Arm, TypeOK
    <3>2. CASE Advance(c)
      <4>1. group[c] \in Groups \ Baseline
        BY <3>2 DEF Advance, EmissionInv, ClientInv, Emitting
      <4>2. CASE group[c] + 1 \in Groups
        BY <1>1, <3>2, <4>1, <4>2, GroupFacts DEF Advance, TypeOK
      <4>3. CASE group[c] + 1 \notin Groups
        BY <1>1, <3>2, <4>3 DEF Advance, TypeOK, Goto, Emitting
      <4> QED
        BY <4>2, <4>3
    <3> QED
      BY <1>3, <3>1, <3>2
  <2> QED
    BY <2>1, <2>2, <2>3 DEF EmissionInv, WorkerInv, ClientInv
<1>4. CASE \/ SignalWorker(c) \/ JoinWorker(c) \/ Halt(c)
           \/ LockAnalysis(c) \/ ClearRows(c) \/ ResetBusy(c)
           \/ CommitReset(c) \/ ResetFails(c)
  <2>1. /\ engine'.cursor = engine.cursor
        /\ group' = group /\ simulatorLock' = simulatorLock
    BY <1>1, <1>4
    DEF SignalWorker, JoinWorker, Halt, LockAnalysis, ClearRows, ResetBusy,
        CommitReset, ResetFails, control, locks, TypeOK, Engine
  <2>2. PICK label \in {"join", "arm", "rewind", "halt", "lock", "clear",
                        "signal", "done"} : Goto(c, label)
    BY <1>4
    DEF SignalWorker, JoinWorker, Halt, LockAnalysis, ClearRows, ResetBusy,
        CommitReset, ResetFails
  <2>3. \A t \in Threads : pc'[t] \in Emitting => pc[t] \in Emitting
    BY <1>1, <2>2 DEF Goto, TypeOK, Emitting
  <2> QED
    BY <2>1, <2>3 DEF EmissionInv, WorkerInv, ClientInv, Threads
<1> QED
  BY <1>2, <1>3, <1>4 DEF ClientStep

(* The baseline thread keeps where each thread is in its emission.         *)
LEMMA WorkerEmits ==
    ASSUME EmissionInv, NEW w \in Workers, WorkerStep(w)
    PROVE  (WorkerInv /\ ClientInv)'
<1>1. w \notin Clients /\ w \in Threads /\ TypeOK /\ engine \in Engine
  BY ThreadAssumption DEF Threads, EmissionInv, TypeOK
<1>2. CASE Loop(w) \/ ReadState(w) \/ TickIdle(w)
  <2>1. /\ engine'.cursor = engine.cursor
        /\ group' = group /\ simulatorLock' = simulatorLock
    BY <1>1, <1>2, EngineFields DEF Loop, ReadState, TickIdle, control, locks
  <2>2. \A t \in Threads : pc'[t] \in Emitting => pc[t] \in Emitting
    BY <1>1, <1>2 DEF Loop, ReadState, TickIdle, Goto, TypeOK, Emitting
  <2> QED
    BY <2>1, <2>2 DEF EmissionInv, WorkerInv, ClientInv, Threads
<1>3. CASE Tick(w)
  <2>1. /\ simulatorLock = NoThread /\ simulatorLock' = w
        /\ engine' = engine /\ engine.cursor < BaselineLength
        /\ group' = [group EXCEPT ![w] = engine.cursor + 1]
        /\ pc' = [pc EXCEPT ![w] = "lookup"]
    BY <1>3 DEF Tick, EngineFree, Goto, control
  <2>2. \A v \in Workers : pc[v] \notin Emitting
    BY <2>1, ThreadAssumption DEF EmissionInv, WorkerInv
  <2>3. WorkerInv'
    BY <1>1, <2>1, <2>2 DEF WorkerInv, TypeOK, Threads
  <2>4. ClientInv'
    BY <1>1, <2>1 DEF EmissionInv, ClientInv, TypeOK, Threads
  <2> QED
    BY <2>3, <2>4
<1>4. CASE Count(w)
  <2>1. /\ pc[w] = "counted" /\ group' = group
        /\ pc' = [pc EXCEPT ![w] = "loop"]
    BY <1>4 DEF Count, Goto
  <2>2. \A v \in Workers : pc'[v] \notin Emitting
    BY <1>1, <2>1 DEF EmissionInv, WorkerInv, Emitting, TypeOK, Threads
  <2>3. ClientInv'
    BY <1>1, <2>1 DEF EmissionInv, ClientInv, TypeOK, Threads
  <2> QED
    BY <2>2, <2>3 DEF WorkerInv
<1> QED
  BY <1>2, <1>3, <1>4 DEF WorkerStep

(* A thread that raises while another one holds the engine's lock does not  *)
(* release it.                                                             *)
LEMMA EmitEmits ==
    ASSUME EmissionInv, NEW t \in Threads, Emit(t)
    PROVE  (WorkerInv /\ ClientInv)'
<1>1. TypeOK /\ t # NoThread
  BY ThreadAssumption DEF EmissionInv, Threads
<1>2. CASE InsertFails(t) \/ AnalysisFails(t)
  <2>1. /\ engine' = engine /\ group' = group /\ pc[t] \in Emitting
        /\ Raise(t)
    BY <1>2 DEF InsertFails, AnalysisFails, Raise, control, Emitting
  <2>2. /\ \A u \in Threads : u # t => pc'[u] = pc[u]
        /\ pc'[t] \in {"dead", "done"}
    BY <1>1, <2>1 DEF Raise, Goto, TypeOK
  <2>3. pc'[t] \notin Emitting
    BY <2>2 DEF Emitting
  <2>4. simulatorLock' = simulatorLock \/ simulatorLock = t
    BY <2>1 DEF Raise
  <2> QED
    BY <1>1, <2>1, <2>2, <2>3, <2>4 DEF EmissionInv, WorkerInv, ClientInv, Threads
<1>3. CASE \/ Lookup(t) \/ InsertGroup(t) \/ PublishGroup(t)
           \/ ReleaseAnalysis(t) \/ CommitGroup(t)
  <2>1. /\ engine' = engine /\ group' = group /\ pc[t] \in Emitting
        /\ simulatorLock' = simulatorLock
        /\ \A u \in Threads : u # t => pc'[u] = pc[u]
    BY <1>1, <1>3
    DEF Lookup, InsertGroup, PublishGroup, ReleaseAnalysis, CommitGroup,
        Goto, control, locks, Emitting, TypeOK
  <2> QED
    BY <1>1, <2>1 DEF EmissionInv, WorkerInv, ClientInv, Threads
<1> QED
  BY <1>2, <1>3 DEF Emit

(* After a restart no thread is in an emission.                            *)
LEMMA RestartEmits ==
    ASSUME Restart
    PROVE  (WorkerInv /\ ClientInv)'
<1>1. \A t \in Threads : pc'[t] \in {"dead", "new", "done"}
  BY DEF Restart
<1> QED
  BY <1>1 DEF WorkerInv, ClientInv, Emitting, Threads

(* The inductive invariant holds in every state of the specification.       *)
THEOREM EmissionInvariant == Spec => []EmissionInv
<1>1. Init => EmissionInv
  <2> SUFFICES ASSUME Init PROVE EmissionInv
    OBVIOUS
  <2>1. TypeOK
    BY NewEngineFacts DEF Init, TypeOK
  <2>2. WorkerInv /\ ClientInv
    BY DEF Init, WorkerInv, ClientInv, Emitting, Threads
  <2> QED
    BY <2>1, <2>2 DEF EmissionInv
<1>2. EmissionInv /\ [Next]_vars => EmissionInv'
  <2> SUFFICES ASSUME EmissionInv, [Next]_vars PROVE EmissionInv'
    OBVIOUS
  <2>1. TypeOK
    BY DEF EmissionInv
  <2>2. CASE UNCHANGED vars
    BY <2>2
    DEF vars, control, locks, EmissionInv, TypeOK, WorkerInv, ClientInv
  <2>3. ASSUME NEW c \in Clients, Request(c) \/ ClientStep(c)
        PROVE  EmissionInv'
    BY <2>1, <2>3, RequestTyped, ClientTyped, RequestEmits, ClientEmits
    DEF EmissionInv
  <2>4. ASSUME NEW w \in Workers, WorkerStep(w)
        PROVE  EmissionInv'
    BY <2>4, WorkerTyped, WorkerEmits DEF EmissionInv
  <2>5. ASSUME NEW t \in Threads, Emit(t)
        PROVE  EmissionInv'
    BY <2>5, EmitTyped, EmitEmits DEF EmissionInv
  <2>6. CASE Restart
    BY <2>1, <2>6, RestartTyped, RestartEmits DEF EmissionInv
  <2> QED
    BY <2>2, <2>3, <2>4, <2>5, <2>6 DEF Next
<1> QED
  BY <1>1, <1>2, PTL DEF Spec

(* Every variable of the simulator keeps its type.                         *)
THEOREM SimulatorTyped == Spec => []TypeOK
<1>1. EmissionInv => TypeOK
  BY DEF EmissionInv
<1> QED
  BY <1>1, EmissionInvariant, PTL

-----------------------------------------------------------------------------
(* The gap.                                                                *)

(* A step that adds nothing but the group of a thread that is emitting it.  *)
LEMMA CommitKeepsOrder ==
    ASSUME EmissionInv, BaselineHasNoGap, NEW t \in Threads,
           pc[t] \in Emitting, engine' = engine, group' = group,
           \A u \in Threads : u # t => pc'[u] = pc[u],
           stored' \in {stored, stored \cup {group[t]}},
           pc'[t] = "counted" => group[t] \in stored'
    PROVE  BaselineHasNoGap'
<1>1. TypeOK /\ engine.cursor \in Nat
  BY EngineFields DEF EmissionInv, TypeOK
<1>2. 1..engine'.cursor \subseteq stored'
  BY DEF BaselineHasNoGap
<1>3. \A w \in Workers : pc'[w] = "counted" => group'[w] \in stored'
  BY DEF BaselineHasNoGap, Threads
<1>4. ASSUME NEW g \in stored' \cap Baseline
      PROVE  1..g \subseteq stored'
  <2>1. CASE g \in stored
    BY <1>4, <2>1 DEF BaselineHasNoGap
  <2>2. CASE g \notin stored
    <3>1. g = group[t] /\ t \in Workers
      BY <1>4, <2>2 DEF EmissionInv, ClientInv, Threads
    <3>2. g = engine.cursor + 1
      BY <3>1 DEF EmissionInv, WorkerInv
    <3>3. 1..g = (1..engine.cursor) \cup {g}
      BY <1>1, <3>2
    <3> QED
      BY <1>2, <1>4, <3>3
  <2> QED
    BY <2>1, <2>2
<1> QED
  BY <1>2, <1>3, <1>4 DEF BaselineHasNoGap

(* A step that stores nothing and does not move the cursor up.              *)
LEMMA OthersKeepOrder ==
    ASSUME EmissionInv, BaselineHasNoGap, stored' = stored,
           engine'.cursor = engine.cursor \/ engine'.cursor = 0,
           \A w \in Workers : pc'[w] = "counted" =>
                                 pc[w] = "counted" /\ group'[w] = group[w]
    PROVE  BaselineHasNoGap'
<1>1. 1..engine'.cursor \subseteq stored'
  BY DEF BaselineHasNoGap
<1> QED
  BY <1>1 DEF BaselineHasNoGap

(* Only the commit of a reset opens a gap: the detectors see the baseline   *)
(* in order through stops, starts, workers that outlive their stop, failed  *)
(* groups, failed resets and restarts.                                     *)
THEOREM OnlyResetsOpenGaps == Spec => OnlyResetOpensGap
<1> DEFINE Kept == BaselineHasNoGap =>
                      BaselineHasNoGap' \/ \E c \in Clients : CommitReset(c)
<1>1. ASSUME EmissionInv, [Next]_vars
      PROVE  Kept
  <2> SUFFICES ASSUME BaselineHasNoGap, ~ \E c \in Clients : CommitReset(c)
               PROVE  BaselineHasNoGap'
    OBVIOUS
  <2>1. TypeOK /\ engine \in Engine /\ Clients \cap Workers = {}
    BY <1>1, ThreadAssumption DEF EmissionInv, TypeOK
  <2>2. CASE UNCHANGED vars
    BY <1>1, <2>2, OthersKeepOrder DEF vars, control
  <2>3. ASSUME NEW c \in Clients, Request(c) \/ ClientStep(c)
        PROVE  BaselineHasNoGap'
    <3>1. stored' = stored
      BY <2>3
      DEF Request, Start, StartRefused, Stop, Reset, Trigger, ClientStep,
          SignalWorker, JoinWorker, Halt, LockAnalysis, ClearRows, ResetBusy,
          Rewind, ResetFails, Arm, Advance
    <3>2. engine'.cursor = engine.cursor \/ engine'.cursor = 0
      BY <2>1, <2>3, NewEngineFacts
      DEF Request, Start, StartRefused, Stop, Reset, Trigger, ClientStep,
          SignalWorker, JoinWorker, Halt, LockAnalysis, ClearRows, ResetBusy,
          Rewind, ResetFails, Arm, Advance, control, Engine
    <3>3. ASSUME NEW w \in Workers
          PROVE  /\ pc'[w] = pc[w] \/ pc'[w] = "loop"
                 /\ group'[w] = group[w]
      BY <2>1, <2>3
      DEF Request, Start, StartRefused, Stop, Reset, Trigger, ClientStep,
          SignalWorker, JoinWorker, Halt, LockAnalysis, ClearRows, ResetBusy,
          Rewind, ResetFails, Arm, Advance, Goto, TypeOK, Threads
    <3> QED
      BY <1>1, <3>1, <3>2, <3>3, OthersKeepOrder
  <2>4. ASSUME NEW w \in Workers, WorkerStep(w)
        PROVE  BaselineHasNoGap'
    <3>1. CASE Count(w)
      <4>1. /\ stored' = stored /\ group' = group
            /\ pc' = [pc EXCEPT ![w] = "loop"] /\ pc[w] = "counted"
        BY <3>1 DEF Count, Goto
      <4>2. /\ group[w] = engine.cursor + 1 /\ engine.cursor \in Nat
            /\ engine'.cursor = engine.cursor + 1
        BY <1>1, <2>1, <3>1, <4>1, EngineFields
        DEF EmissionInv, WorkerInv, Emitting, Count
      <4>3. group[w] \in stored /\ 1..engine.cursor \subseteq stored
        BY <4>1 DEF BaselineHasNoGap
      <4>4. 1..engine'.cursor \subseteq stored'
        BY <4>1, <4>2, <4>3
      <4>5. \A v \in Workers : pc'[v] = "counted" => group'[v] \in stored'
        BY <2>1, <4>1 DEF BaselineHasNoGap, TypeOK, Threads
      <4> QED
        BY <4>1, <4>4, <4>5 DEF BaselineHasNoGap
    <3>2. CASE Loop(w) \/ ReadState(w) \/ TickIdle(w) \/ Tick(w)
      <4>1. stored' = stored /\ engine'.cursor = engine.cursor
        BY <2>1, <3>2, EngineFields
        DEF Loop, ReadState, TickIdle, Tick, control
      <4>2. \A v \in Workers : pc'[v] = "counted" =>
                                  pc[v] = "counted" /\ group'[v] = group[v]
        BY <2>1, <3>2
        DEF Loop, ReadState, TickIdle, Tick, Goto, TypeOK, Threads
      <4> QED
        BY <1>1, <4>1, <4>2, OthersKeepOrder
    <3> QED
      BY <2>4, <3>1, <3>2 DEF WorkerStep
  <2>5. ASSUME NEW t \in Threads, Emit(t)
        PROVE  BaselineHasNoGap'
    <3>1. /\ pc[t] \in Emitting /\ engine' = engine /\ group' = group
          /\ \A u \in Threads : u # t => pc'[u] = pc[u]
      BY <2>1, <2>5
      DEF Emit, Lookup, InsertGroup, InsertFails, PublishGroup,
          AnalysisFails, ReleaseAnalysis, CommitGroup, Raise, Goto, control,
          Emitting, TypeOK
    <3>2. /\ stored' \in {stored, stored \cup {group[t]}}
          /\ pc'[t] = "counted" => group[t] \in stored'
      BY <2>1, <2>5
      DEF Emit, Lookup, InsertGroup, InsertFails, PublishGroup,
          AnalysisFails, ReleaseAnalysis, CommitGroup, Raise, Goto, TypeOK
    <3> QED
      BY <1>1, <3>1, <3>2, CommitKeepsOrder
  <2>6. CASE Restart
    <3>1. /\ stored' = stored /\ engine'.cursor = 0
          /\ \A w \in Workers : pc'[w] = "dead"
      BY <2>6, NewEngineFacts DEF Restart, Threads
    <3> QED
      BY <1>1, <3>1, OthersKeepOrder
  <2> QED
    BY <1>1, <2>2, <2>3, <2>4, <2>5, <2>6 DEF Next
<1> QED
  BY <1>1, EmissionInvariant, PTL DEF Spec, OnlyResetOpensGap
=============================================================================

--------------------------- MODULE EventIngestion ---------------------------
(***************************************************************************)
(* IngestionPipeline.ingest under POST /events and /events/batch, with the *)
(* EWMA baseline that detection keeps for the accepted metric samples.      *)
(*                                                                         *)
(* A request is a thread with a session of its own.  It looks its records   *)
(* up one after the other, reading the committed database until its first   *)
(* INSERT or UPDATE takes SQLite's writer lock, which it keeps to the end.  *)
(* The new representatives are then evaluated; the baseline of each metric  *)
(* lives in EwmaStateStore, a process-wide cache over a table.  The cache   *)
(* is no part of the transaction: a rollback does not undo it.              *)
(*                                                                         *)
(* Metrics are the samples of one (entity, signal), Alerts the alerts of    *)
(* one duplicate fingerprint, Invalid the records the pipeline quarantines. *)
(***************************************************************************)
EXTENDS Integers, Sequences, FiniteSets, FiniteSetsExt, SequencesExt

CONSTANTS
    Requests,   \* HTTP requests
    Metrics,    \* source records: samples of one metric
    Alerts,     \* source records: alerts with one duplicate fingerprint
    Invalid,    \* unknown source or entity, label, too large, not adaptable
    Batches,    \* the sequences of records that requests may carry
    MaxResets,  \* bound on demo resets
    Resetter,   \* the session of the demo reset
    NoRequest   \* nobody holds the writer lock

Records == Metrics \cup Alerts \cup Invalid

ASSUME RecordsAssumption ==
    Metrics \cap Alerts = {} /\ Invalid \cap (Metrics \cup Alerts) = {}
ASSUME BatchesAssumption == Batches \subseteq Seq(Records)
ASSUME MaxResetsAssumption == MaxResets \in Nat
ASSUME NobodyAssumption ==
    Resetter \notin Requests /\ NoRequest \notin Requests \cup {Resetter}

VARIABLES
    db,      \* committed database
    tx,      \* the database as the holder of the writer lock sees it
    writer,  \* the session holding SQLite's writer lock
    store,   \* the EwmaStateStore singleton
    pc,      \* where each request is
    job      \* the local variables of each request

vars == <<db, tx, writer, store, pc, job>>

-----------------------------------------------------------------------------
(* An EWMA state is a function of the samples it was updated with, in       *)
(* order; n_samples is their number.  A sample carries the number of resets *)
(* committed when it was evaluated.                                         *)
Sample == [record : Metrics, reset : 0..MaxResets]

Group == [representative : Alerts, count : Nat]

Image == [events      : SUBSET (Metrics \cup Alerts),
          groups      : Seq(Group),         \* collapsed_event_groups
          quarantined : SUBSET Invalid,
          baseline    : Seq(Sample),        \* the row of ewma_baselines
          resets      : 0..MaxResets]

Store == [cache : Seq(Sample), dirty : BOOLEAN, loaded : BOOLEAN]

Outcome == {"accepted", "collapsed", "retry", "quarantined"}

Job == [batch     : Seq(Records),
        outcomes  : Seq(Outcome),  \* results so far
        group     : [at : Nat, reset : 0..MaxResets], \* the group loaded
        count     : Nat,           \* its event_count as loaded
        todo      : Seq(Metrics \cup Alerts), \* representatives to evaluate
        reset     : 0..MaxResets]  \* resets committed when received

EmptyImage(n) == [events |-> {}, groups |-> << >>, quarantined |-> {},
                  baseline |-> << >>, resets |-> n]

EmptyStore == [cache |-> << >>, dirty |-> FALSE, loaded |-> FALSE]

EmptyJob == [batch |-> << >>, outcomes |-> << >>,
             group |-> [at |-> 0, reset |-> 0], count |-> 0,
             todo |-> << >>, reset |-> 0]

-----------------------------------------------------------------------------
(* EwmaStateStore                                                          *)

(* Fault: a fresh store is never loaded.                                    *)
GetUnloaded(s, baseline) == [s EXCEPT !.loaded = TRUE]

(* get: the first access loads the table.                                  *)
Get(s, baseline) ==
    IF s.loaded THEN s ELSE [s EXCEPT !.cache = baseline, !.loaded = TRUE]

(* put, with the state that EwmaDetector.evaluate computes from the cached  *)
(* one: the first sample initialises it, every later one updates it.        *)
Put(s, sample) == [s EXCEPT !.cache = Append(s.cache, sample), !.dirty = TRUE]

Flushed(s, baseline) == IF s.dirty THEN s.cache ELSE baseline

Flush(s) == [s EXCEPT !.dirty = FALSE]

-----------------------------------------------------------------------------
Init ==
    /\ db = EmptyImage(0)
    /\ tx = EmptyImage(0)
    /\ writer = NoRequest
    /\ store = EmptyStore
    /\ pc = [r \in Requests |-> "new"]
    /\ job = [r \in Requests |-> EmptyJob]

Goto(r, label) == pc' = [pc EXCEPT ![r] = label]

View(r) == IF writer = r THEN tx ELSE db

(* Fault: a read sees what another session has not committed.               *)
DirtyView(r) == tx

(* A statement of r writes the image; before its first one r waits for the  *)
(* writer lock.                                                             *)
Write(r, image) ==
    /\ writer \in {NoRequest, r}
    /\ writer' = r
    /\ tx' = image

(* Commit or roll back the session of r and give the request its end.       *)
End(r, image, label) ==
    /\ db' = IF writer = r THEN image ELSE db
    /\ tx' = IF writer = r THEN image ELSE tx
    /\ writer' = IF writer = r THEN NoRequest ELSE writer
    /\ Goto(r, label)

Current(r) == job[r].batch[Len(job[r].outcomes) + 1]

HasRecord(r) == Len(job[r].outcomes) < Len(job[r].batch)

Conclude(r, outcome, accepted) ==
    /\ job' = [job EXCEPT ![r].outcomes = Append(@, outcome),
                          ![r].todo = @ \o accepted]
    /\ Goto(r, "record")

Receive(r) ==
    /\ pc[r] = "new"
    /\ \E b \in Batches :
          job' = [job EXCEPT ![r] = [EmptyJob EXCEPT !.batch = b,
                                                     !.reset = db.resets]]
    /\ Goto(r, "record")
    /\ UNCHANGED <<db, tx, writer, store>>

(* Fault: an invalid record is stored like any other.                       *)
QuarantineAsEvent(r) ==
    /\ pc[r] = "record" /\ HasRecord(r) /\ Current(r) \in Invalid
    /\ Write(r, [View(r) EXCEPT !.events = @ \cup {Current(r)}])
    /\ Conclude(r, "quarantined", << >>)
    /\ UNCHANGED <<db, store>>

(* _quarantine: keep the record aside.                                      *)
Quarantine(r) ==
    /\ pc[r] = "record" /\ HasRecord(r) /\ Current(r) \in Invalid
    /\ Write(r, [View(r) EXCEPT !.quarantined = @ \cup {Current(r)}])
    /\ Conclude(r, "quarantined", << >>)
    /\ UNCHANGED <<db, store>>

(* Fault: the lookup sees uncommitted events.                               *)
LookupRecordDirty(r) ==
    /\ pc[r] = "record" /\ HasRecord(r) /\ Current(r) \notin Invalid
    /\ IF Current(r) \in DirtyView(r).events
       THEN Conclude(r, "retry", << >>)
       ELSE /\ Goto(r, IF Current(r) \in Alerts THEN "group" ELSE "store")
            /\ UNCHANGED job
    /\ UNCHANGED <<db, tx, writer, store>>

(* get_by_source_record: a known record is an idempotent retry.             *)
LookupRecord(r) ==
    /\ pc[r] = "record" /\ HasRecord(r) /\ Current(r) \notin Invalid
    /\ IF Current(r) \in View(r).events
       THEN Conclude(r, "retry", << >>)
       ELSE /\ Goto(r, IF Current(r) \in Alerts THEN "group" ELSE "store")
            /\ UNCHANGED job
    /\ UNCHANGED <<db, tx, writer, store>>

(* get_collapsed_group_by_fingerprint, for collapsible records.             *)
LookupGroup(r) ==
    /\ pc[r] = "group"
    /\ LET groups == View(r).groups IN
          \/ groups = << >> /\ Goto(r, "store") /\ UNCHANGED job
          \/ /\ Len(groups) = 1
             /\ job' = [job EXCEPT
                           ![r].group = [at |-> 1, reset |-> View(r).resets],
                           ![r].count = groups[1].count]
             /\ Goto(r, "increment")
    /\ UNCHANGED <<db, tx, writer, store>>

(* scalar_one_or_none: a second group of the fingerprint is an error.       *)
LookupGroupFails(r) ==
    /\ pc[r] = "group" /\ Len(View(r).groups) > 1
    /\ End(r, db, "failed")
    /\ UNCHANGED <<store, job>>

(* increment_collapsed_group: the UPDATE writes the count that was read     *)
(* plus one; if a reset deleted the row the UPDATE matches none and raises. *)
Increment(r) ==
    /\ pc[r] = "increment" /\ job[r].group.reset = View(r).resets
    /\ Write(r, [View(r) EXCEPT !.groups[job[r].group.at].count =
                                    job[r].count + 1])
    /\ Conclude(r, "collapsed", << >>)
    /\ UNCHANGED <<db, store>>

IncrementFails(r) ==
    /\ pc[r] = "increment" /\ writer \in {NoRequest, r}
    /\ job[r].group.reset # View(r).resets
    /\ End(r, db, "failed")
    /\ UNCHANGED <<store, job>>

(* Fault: the representative of a storm is stored without its group.        *)
StoredUngrouped(image, record) == [image EXCEPT !.events = @ \cup {record}]

(* persist_accepted and, for a collapsible record, persist_collapsed_group. *)
Stored(image, record) ==
    [image EXCEPT
        !.events = @ \cup {record},
        !.groups = IF record \in Alerts
                   THEN Append(@, [representative |-> record, count |-> 1])
                   ELSE @]

StoreRecord(r) ==
    /\ pc[r] = "store" /\ Current(r) \notin View(r).events
    /\ Write(r, Stored(View(r), Current(r)))
    /\ Conclude(r, "accepted", <<Current(r)>>)
    /\ UNCHANGED <<db, store>>

(* uq_events_source_record rejects a record stored since the lookup, and    *)
(* with it everything the batch has written.                                *)
StoreRejected(r) ==
    /\ pc[r] = "store" /\ writer \in {NoRequest, r}
    /\ Current(r) \in View(r).events
    /\ End(r, db, "failed")
    /\ UNCHANGED <<store, job>>

(* The writer lock is not had within the busy timeout.                      *)
WriterTimeout(r) ==
    /\ pc[r] \in {"record", "increment", "store"}
    /\ pc[r] = "record" => HasRecord(r) /\ Current(r) \in Invalid
    /\ writer \notin {NoRequest, r}
    /\ End(r, db, "failed")
    /\ UNCHANGED <<store, job>>

Publish(r) ==
    /\ pc[r] = "record" /\ ~HasRecord(r)
    /\ Goto(r, IF job[r].todo = << >> THEN "finish" ELSE "detect")
    /\ UNCHANGED <<db, tx, writer, store, job>>

-----------------------------------------------------------------------------
(* Detection, under the orchestrator lock.  The session holds the writer    *)
(* lock already and the reset below needs both, so no other session reads   *)
(* or writes the baseline meanwhile.                                        *)

Evaluated(record) == [record |-> record, reset |-> tx.resets]

(* Fault: the samples of a batch are flushed before they are put.           *)
EvaluateFlushFirst(r) ==
    /\ pc[r] = "detect" /\ job[r].todo # << >>
    /\ LET record == Head(job[r].todo)
           s == Get(store, tx.baseline)
       IN IF record \in Metrics
          THEN /\ tx' = [tx EXCEPT !.baseline = Flushed(s, @)]
               /\ store' = Put(Flush(s), Evaluated(record))
          ELSE UNCHANGED <<store, tx>>
    /\ job' = [job EXCEPT ![r].todo = Tail(@)]
    /\ UNCHANGED <<db, writer, pc>>

(* DetectorService.evaluate_event: get, evaluate, put, flush.               *)
Evaluate(r) ==
    /\ pc[r] = "detect" /\ job[r].todo # << >>
    /\ LET record == Head(job[r].todo)
           s == Put(Get(store, tx.baseline), Evaluated(record))
       IN IF record \in Metrics
          THEN /\ store' = Flush(s)
               /\ tx' = [tx EXCEPT !.baseline = Flushed(s, @)]
          ELSE UNCHANGED <<store, tx>>
    /\ job' = [job EXCEPT ![r].todo = Tail(@)]
    /\ UNCHANGED <<db, writer, pc>>

(* A detector or the incident manager raises: the session is rolled back,   *)
(* the cache keeps the samples evaluated so far.                            *)
DetectFails(r) ==
    /\ pc[r] = "detect"
    /\ End(r, db, "failed")
    /\ UNCHANGED <<store, job>>

(* The analysis fails: the failed run and all before it are committed, and  *)
(* the request is answered with the error.                                  *)
AnalysisFails(r) ==
    /\ pc[r] = "detect" /\ job[r].todo = << >>
    /\ End(r, tx, "failed")
    /\ UNCHANGED <<store, job>>

Processed(r) ==
    /\ pc[r] = "detect" /\ job[r].todo = << >>
    /\ Goto(r, "finish")
    /\ UNCHANGED <<db, tx, writer, store, job>>

Commit(r) ==
    /\ pc[r] = "finish"
    /\ End(r, tx, "done")
    /\ UNCHANGED <<store, job>>

CommitFails(r) ==
    /\ pc[r] = "finish" /\ writer = r
    /\ End(r, db, "failed")
    /\ UNCHANGED <<store, job>>

-----------------------------------------------------------------------------
(* Fault: the reset forgets that the cache is loaded.                       *)
ClearRowsKeepCache ==
    /\ writer = NoRequest /\ db.resets < MaxResets
    /\ writer' = Resetter
    /\ tx' = EmptyImage(db.resets + 1)
    /\ UNCHANGED <<db, store, pc, job>>

(* ResetService: delete the rows, then clear the store, before the commit.  *)
ClearRows ==
    /\ writer = NoRequest /\ db.resets < MaxResets
    /\ writer' = Resetter
    /\ tx' = EmptyImage(db.resets + 1)
    /\ store' = EmptyStore
    /\ UNCHANGED <<db, pc, job>>

ResetEnds ==
    /\ writer = Resetter
    /\ \E image \in {tx, db} : db' = image /\ tx' = image
    /\ writer' = NoRequest
    /\ UNCHANGED <<store, pc, job>>

(* The process dies and starts again.                                      *)
Restart ==
    /\ tx' = db
    /\ writer' = NoRequest
    /\ store' = EmptyStore
    /\ pc' = [r \in Requests |-> IF pc[r] \in {"new", "done"} THEN pc[r]
                                 ELSE "failed"]
    /\ UNCHANGED <<db, job>>

Step(r) ==
    \/ Quarantine(r) \/ LookupRecord(r) \/ LookupGroup(r)
    \/ LookupGroupFails(r) \/ Increment(r) \/ IncrementFails(r)
    \/ StoreRecord(r) \/ StoreRejected(r) \/ WriterTimeout(r) \/ Publish(r)
    \/ Evaluate(r) \/ DetectFails(r) \/ AnalysisFails(r) \/ Processed(r)
    \/ Commit(r) \/ CommitFails(r)

Next ==
    \/ \E r \in Requests : Receive(r) \/ Step(r)
    \/ ClearRows \/ ResetEnds
    \/ Restart

Spec == Init /\ [][Next]_vars

-----------------------------------------------------------------------------
(* The variables have the types their comments announce.                   *)
TypeOK ==
    /\ db \in Image /\ tx \in Image
    /\ writer \in Requests \cup {Resetter, NoRequest}
    /\ store \in Store
    /\ pc \in [Requests -> {"new", "record", "group", "increment", "store",
                            "detect", "finish", "done", "failed"}]
    /\ job \in [Requests -> Job]

(* What a request was told is in the committed database until a reset:     *)
(* accepted and repeated records are stored, collapsed ones are counted in  *)
(* a group, quarantined ones are kept.  A retry is never answered with an   *)
(* event of a session that is then rolled back.                             *)
AnswersAreStored ==
    \A r \in Requests :
        pc[r] = "done" /\ job[r].reset = db.resets =>
            \A k \in DOMAIN job[r].batch :
                LET record == job[r].batch[k] IN
                CASE job[r].outcomes[k] \in {"accepted", "retry"} ->
                        record \in db.events
                  [] job[r].outcomes[k] = "collapsed" ->
                        \E g \in DOMAIN db.groups : db.groups[g].count > 1
                  [] OTHER -> record \in db.quarantined

(* Every stored alert represents one group and every group is represented   *)
(* by a stored alert, whatever was rolled back or reset.                    *)
StormsHaveRepresentatives ==
    /\ \A a \in db.events \cap Alerts :
          \E g \in DOMAIN db.groups : db.groups[g].representative = a
    /\ \A g, h \in DOMAIN db.groups :
          /\ db.groups[g].representative \in db.events
          /\ g # h =>
                db.groups[g].representative # db.groups[h].representative

(* Restarts, rollbacks and resets lose no committed sample: each stored     *)
(* metric is in the committed baseline, and a loaded cache continues the    *)
(* baseline from where the committed row left off.                          *)
CommittedSamplesAreKept ==
    /\ \A e \in db.events \cap Metrics :
          \E k \in DOMAIN db.baseline : db.baseline[k].record = e
    /\ store.loaded /\ writer = NoRequest =>
          IsPrefix(db.baseline, store.cache)

(* After a reset nothing of the old baseline comes back: neither the row    *)
(* nor the cache has a sample evaluated before the last committed reset.    *)
BaselineStartsFresh ==
    /\ \A k \in DOMAIN db.baseline : db.baseline[k].reset = db.resets
    /\ writer = NoRequest =>
          \A k \in DOMAIN store.cache : store.cache[k].reset = db.resets

(* The committed baseline is only ever extended, except by a reset.        *)
BaselineOnlyGrows ==
    [][\/ IsPrefix(db.baseline, db'.baseline)
       \/ db'.resets = db.resets + 1]_vars

(* An alarm storm is one group, which counts every alert of the storm that  *)
(* was answered as accepted or collapsed.                                  *)
StormIsCounted ==
    LET Counted(r) == {k \in DOMAIN job[r].batch :
                          /\ pc[r] = "done" /\ job[r].batch[k] \in Alerts
                          /\ job[r].outcomes[k] \in {"accepted", "collapsed"}}
    IN /\ Len(db.groups) <= 1
       /\ (\A r \in Requests : pc[r] \in {"new", "done"}) =>
             \A g \in DOMAIN db.groups :
                db.groups[g].count =
                    MapThenSumSet(LAMBDA r : Cardinality(Counted(r)), Requests)
=============================================================================

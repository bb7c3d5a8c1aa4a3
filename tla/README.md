# Network Anomaly Root-Cause Assistant: TLA+ models, checks and proofs

This directory is a verification development for the backend in `src/backend/app`.
The program ingests network telemetry, detects anomalies, groups them into
incidents, finds and explains likely causes, and publishes *analysis revisions* of
each incident that people review. It is one FastAPI process over one SQLite database.

Two things make it hard. Every request runs in a thread of its own, with a session
of its own, under two locks that different requests take in different orders. And
the analysis is a pipeline of parts that compute related things separately (four
graph searches, two ways to count evidence, two ways to find a conflict), and rely
on each other's results being equal.

## 1. Inventory

Paths are relative to `src/backend/app`. "Hard" names what tests rarely reach.

| Component | State | Operations | Interacts with | Hard | Correct when |
| --- | --- | --- | --- | --- | --- |
| Orchestrator (`orchestration/orchestrator.py`, `publisher.py`) | `_lock`; rows of `analysis_runs`; `incidents.current_analysis_run_id` | `process_event`, `process_batch`, `recompute`, `_run_rca_and_publish`, `_atomic_publish`, `_persist_failed_run` | ingestion and the simulator call it; it calls detectors, incident manager, analysis | lock released before commit; stale ORM rows; failure between savepoint steps; lock-order inversion | at most one current run per incident and the pointer names it; revisions only grow; no building run is ever visible |
| Sessions and schema (`db/session.py`, `db/models.py`, `db/repositories`) | the database | commit, rollback, savepoint, unique indexes | all | single writer, busy timeout, reads outside a transaction | constraints hold whoever races |
| Reviews (`reviews/service.py`, `db/repositories/review_repository.py`) | `reviews`; incident status | `submit`, `persist_idempotent` | reads what the orchestrator publishes | check-then-insert without a lock; repeated submissions | a client action is recorded once; terminal decisions agree; only reviews close incidents |
| Simulator (`simulator/engine.py`, `simulator/ingestion.py`, `api/simulator.py`) | state, cursor, active scenario, stop event, worker thread, `_lock` | `start`, `stop`, `reset`, `trigger`, `tick`, `_run` | ingests groups through the pipeline | workers that outlive a stop, checks that go stale, failing ticks | baseline emitted in order without a gap |
| Demo reset (`orchestration/reset_service.py`) | none of its own | `execute` | stops and resets the engine, takes the orchestrator lock, clears rows, resets the EWMA store | engine and cache reset before the commit; three locks | nothing overlaps the reset; nothing of the old demo comes back |
| Ingestion (`ingestion/pipeline.py`, `api/events.py`) | events, collapsed groups, quarantine | `ingest`, `ingest_batch` | orchestrator | duplicate races, batches that fail as a whole | a source record is stored once; what a client was told is stored |
| EWMA store (`detection/ewma_store.py`) | cache, dirty set, loaded flag | `get`, `put`, `flush`, `reset`, `bind` | detectors; reset | cache ahead of the table after a rollback | the baseline loses no committed sample and revives none |
| Incident manager (`incidents/manager.py`) | incidents, attached events, evaluations | `process_anomalies`, `score_attachment`, `_open_incident` | called under the orchestrator lock | score boundaries, lookback, late events | every event is decided for every incident; summaries are right |
| Detectors (`detection/`) | none but the EWMA store | `evaluate_event` | orchestrator, topology | order of evaluation; signals that feed on signals | a signal names a cause that precedes it; context opens and ranks nothing |
| Topology (`topology/`, `detection/topology_view.py`) | a graph | `distance`, `blast_radius`, neighbours | manager, detectors, analysis | four searches of one graph | all agree with distance |
| Analysis (`rca/`) | none | `generate`, `rank`, topology states | orchestrator | rounding, ties, cycles, missing data | every cause is located; an order independent of context signals |
| Evidence (`evidence/`) | none | `collect`, coverage, conflicts | analysis adapter | a second implementation of rules of the ranker | the two agree; ids are distinct |
| Bundle and adapter (`orchestration/analysis_bundle.py`, `rca_adapter.py`), playbooks | none | `analyse` | all of analysis | a check that fails fails the whole analysis | only true disagreements fail |
| Explanation (`explanation/`) | none | two attempts, then the template | orchestrator; external model | late, foreign or invalid answers | one valid explanation, or the template and a reason |
| Incident API (`api/incidents.py`) | none | recompute, review, read routes | orchestrator, reviews | reads in several statements | one run per answer |
| Audit, handover, concepts, adapters, dataset bridge, start-up | append-only log or none | - | - | - | - |
| Frontend (`src/frontend`) | query cache | polling | API | stale polls | - |

`PROJECT.json` lists the same components with their status, and every hazard at its line.

## 2. Modules

| Module | Models |
| --- | --- |
| `AnalysisPublication` | the orchestrator with ingestion and recompute requests over the database |
| `RevisionLog` | the abstract promise of publication: a log of attempts and a served pointer |
| `InvestigationReader` | extends `AnalysisPublication` by readers of the published analysis and the demo reset |
| `ReviewSubmission` | reviews of one incident racing with each other and with publications |
| `SimulatorEngine` | the simulator's engine, its worker threads and the demo reset |
| `EventIngestion` | the ingestion pipeline and the EWMA store under requests, rollbacks, resets, restarts |
| `IncidentManager` | attachment, opening and lookback |
| `IncidentPages` | extends `IncidentManager` by a client that pages through the incidents |
| `Topology` | the typed graph and its searches |
| `CauseRanking` | candidates, factors, conflicts, ranks, topology states; extends `Topology` |
| `EvidenceCollection`, `Detection` | the collector and the detectors; both extend `CauseRanking` |
| `IncidentAnalysis` | the pipeline of analysis and the explanation; extends the two |
| `MC...` | instances, symmetry, starts |
| `...Proofs` | theorems about the module of that name; `AnalysisPublicationProofs` about the refinement of `RevisionLog` too, `IncidentManagerProofs` about the pages too, `IncidentAnalysisProofs` about the topology, the detectors and the explanation, `CauseRankingProofs` about the ranking and the evidence |

### AnalysisPublication

A request is a thread: `pc[r]` is where it is and `job[r]` its local variables.
Two paths meet at `inputs`:

    POST /events:       insert -> lock -> detect -> inputs
    POST .../recompute:           lock ----------> inputs
    per incident:       inputs -> compare -> revision -> create -> analyse
                        -> supersede -> mark -> point -> inputs
    end:                unlock -> finish -> done

`orchestratorLock` is `AnalysisOrchestrator._lock`. `writer` is SQLite's writer
lock, taken by a session's first INSERT or UPDATE and held to the end of the
session. The database is an *image*: `db` is what is committed, `tx` what the
holder of `writer` sees, `savepoint` what `session.begin_nested()` rolls back to.
A session without the writer lock reads `db` anew with each statement; that is how
the driver behaves before the first write, and why a recompute, which takes the
orchestrator lock first, can read a database that lacks the run of the previous
holder: the lock is released before the session commits.

`job[r].loaded` is the pointer of the incident row the request loaded. The session
keeps rows (`expire_on_commit=False` and the identity map), so a recompute
supersedes the run its *loaded* row names. The two unique indexes are guards:
`CreateRun`/`CreateRejected` for (incident, revision) and
`MarkCurrent`/`MarkRejected` for the one current run. `FailRun` is the `except`
block: roll back to the savepoint, mark failed, commit, and raise again.
`Crash` may come at any time. Detection and incident management are one step with a
nondeterministic outcome (`Attachments`): scores are data here, and the subject of
`IncidentManager`. A fingerprint is the set of attached events with the version of the
catalogue files.

### InvestigationReader

The routes that follow the pointer read the incident, then the run, its children, the
timeline and the explanation, in the order of `Statements`. No reader takes the writer
lock, so each statement sees what is committed by then; `page[r]` is what it has so far.
A missing or superseded run is a 409 (`ReadRunStale`), a missing explanation a 404.
`Reset` waits until no writer is in flight; a reset deletes everything and ids are new
afterwards, so a reader from before it (`SameDemo`) finds no row.

### ReviewSubmission

`submit` is followed statement by statement up to its INSERT, which takes the
writer lock; from there to the commit nobody else writes, so that part is one step
(`Persist`). A hypothesis has one missing-evidence item. A run counts as one
publication step, by an ingestion (which loads the incident under the writer lock and
only if it is active) or by a recompute (which loads it earlier, in any status).

### SimulatorEngine

Short critical sections of the engine's lock are one step; `tick` keeps the lock over
the whole emission, so `simulatorLock` is a variable. `stored` is the set of timestamp
groups in the committed database. `_stop_worker` sets the event, waits a second at
most and forgets the worker: `JoinWorker` may therefore happen while the old worker
still runs. A reset holds the orchestrator lock and the writer lock while it resets the
engine, and releases the first before its session commits. A failing analysis commits
the group and raises; a failing detection rolls it back.

A worker's identity may be reused once it is dead. `Workers` bounds how many are alive.
A timestamp group is one unit; that some of its records may be found and others not,
when a reset commits in the middle, is left out.

### EventIngestion

The same session model (`db`, `tx`, `writer`) under `ingest`: per record a lookup, for an
alert the lookup of its group, and an INSERT or a counting UPDATE; then one `Evaluate` per
new representative; then the commit. `Metrics` are samples of one metric, `Alerts` alerts
of one duplicate fingerprint, `Invalid` records of any kind that is quarantined.

An EWMA state is the sequence of samples it was updated with, since mean and variance are
a function of those. `store` is the singleton: `Get` loads the table once per process or
after a reset, `Put` updates the cache, `Flush` writes the row. The cache is no part of the transaction.
A sample is marked with the number of resets (`resets`, history) committed when it was
evaluated, and a group read before a reset is told from one read after it.

`todo` holds what was accepted and not yet evaluated. `Publish` hands it to the orchestrator. Detection that fails
rolls the session back (`DetectFails`), an analysis that fails has committed it (`AnalysisFails`).

### IncidentManager

Turns are taken under the orchestrator lock inside one transaction, so a turn is one
step (`ProcessAnomalies`), and a batch is `ReceiveBatch`, turns, then `Commit` or
`BatchFails`. The score of an event for an incident is computed by the code's rules on
hundredths (`ScoreAttachment`): time, distance, symptom family, trace, the vetoes for incompatible
families and for distance. `OpenIncident` creates the incident with the opening event and looks
back over accepted events (`LookbackWindow`). `ChangeStatus` stands for publications and reviews. What an incident has
decided about an event is `log`; `opener` is history.

### IncidentPages

`GET /incidents` is one statement per page (`ListPage`), keyed by `(started_at, id)` of the last
incident shown. `present` is history: what matched the filters from the first page on. A page is read
between two batches only, which loses nothing since nothing is committed within one.

### Topology, CauseRanking, EvidenceCollection, Detection, IncidentAnalysis

Numbers are integers: factors in ten-thousandths (`Whole` is 10000), severities and anomaly scores
in hundredths; a `round` is a division that rounds half up. Strings that the code matches by substring (signal names, payload
words) are sets of words, of which the catalogue uses a few.

`Topology` states the searches as the code writes them and, beside them, distance by
paths as their reference. `CauseRanking` follows `CandidateGenerator.generate` (anchors,
selectors, change filters, traversals), the eight factors of `RootCauseRanker`, the conflicts that
cap a factor or subtract from it, ranks with their tie-breaks, and `NodeState`/`EdgeState`. `EvidenceCollection` follows
the collector: requirements, one or several matches, conflicts, alternatives,
missing items, coverage. `Detection` has the detectors and their order within a batch. The rolling z-score and
EWMA detectors are statistics over windows: what they find is an input (`statistical`).

`IncidentAnalysis` is the state machine around them: `Init` builds the bundle of an incident
(everything is a snapshot: the caller holds both locks), `Analyse` ranks, `Collect` takes one
hypothesis after the other and fails the analysis where the adapter does (`CollectFails`), and
the explanation goes through `Template` (which fails the analysis if the template itself is invalid, `TemplateFails`), `Accept`, `Stale` and `Retry`. The external model is unconstrained: late, foreign, invalid or valid.

## 3. Runs

| Run | Instance | What it shows |
| --- | --- | --- |
| `publication` | 2 requests, 1 incident, 3 events, 2 catalogue edits | `TypeOK`, `PointerIsCurrent`, `NoCommittedBuilding`, `AttachedIsAnalysed`; every step implements `RevisionLog`; `UnchangedIsServed`: a request is only skipped if what readers are served has its inputs, and it is answered with a published run; `RequestsEnd`: the lock-order inversion never blocks for good |
| `investigation` | 1 reader, 2 requests, 1 incident, 2 events, 1 reset | `AnswersAreWhole`, `StaleIsOvertaken` |
| `reviews` | 2 submissions, 2 client actions, 2 hypotheses, 2 runs | `ActionsAreIdempotent`, `ClosedByReview`, `SubmissionsEnd` |
| `simulator` | 3 clients, 2 workers, baseline of 2 groups, scenario of 1 | `OnlyResetOpensGap`, `RequestsEnd` |
| `telemetry` | 3 requests, 2 samples, 2 alerts, 1 invalid record, 1 reset | `AnswersAreStored`, `StormsHaveRepresentatives`, `CommittedSamplesAreKept`, `BaselineStartsFresh`, `BaselineOnlyGrows` |
| `incidents` | 6 events of 3 entities, 3 incidents, pages of 1, 2 filters | `SummaryOfAttached`, `TurnDecides`, `ClosedReceivesNothing`, `NothingIsPassedOver`: a listing misses no incident, though late events move them between two pages |
| `analysis` | 10 events that may be attached and 6 that are only stored (but for the 4 of a trace, which some incidents attach), 4 entities, 3 causes | eleven properties, below |
| `reopen` | violation | `src/BLUEPRINT.md:1162`: closed incidents are not reopened. A recompute reopens them |
| `conflict` | violation | `src/BLUEPRINT.md:1558`: one terminal decision per hypothesis and run. Two racing reviews record two |
| `reset_overlap` | violation | `src/BLUEPRINT.md:376`: no event processing overlaps reset. A tick before the commit counts a group that is then deleted |
| `storm` | violation | `src/BLUEPRINT.md:921`: collapsing counts the alarm storm. Two requests that meet insert two groups with one fingerprint, or lose a count |
| `landing` | violation | `src/BLUEPRINT.md:1111`: an anomaly above the threshold that attaches to nothing opens an incident. One that another event with the same timestamp looked back on, and excluded, is in no incident |

### The properties of `analysis`

- `CascadesFollowTheirCause`: a cascade signal is downstream of the anomaly it names and not
  before it, in whatever order a batch lists its events. The code's query has no upper bound:
  for an event that arrives in a later batch the cause may be a *later* anomaly, and the property allows exactly that.
- `CascadesDoNotCascade`: cascade signals and configuration markers do not feed further cascades.
- `WholeTracesPass`: a trace whose spans all arrived in time is not reported as torn. Two
  cases are outside the property because the code reports them: a span that starts at the
  same instant as its parent, and one evaluated before its parent arrived.
- `TopologySearchesAgree`, `CausesAreLocated`, `PaintedEdgesJoinPaintedNodes`: the graph
  searches of the manager, the cascade detector, the candidate generator and the ranker agree on every
  graph of six edges over four entities, cycles included.
- `EvidenceIdsAreDistinct`, `AppliedConflictsAreShown`, `CoverageAgrees`: the collector and the ranker agree.
  The ranker looks for a word in signal, type and payload of an event, the collector for most words
  in one of them only. `CoverageAgrees` supposes a vocabulary (`SharedVocabulary`): each word stands where the
  collector looks for it, and no event has a word that only the collector knows. The 251 events of
  `tests/fixtures/golden_events.jsonl` keep it: the demo's alert names forwarded requests in its
  type, and a metric of the gateway counts them. Where it is broken the adapter's check fails the analysis: an alert
  whose payload mentions latency, or a trace span, whose signal says "duration", attached without a latency metric.
- `ExplanationIsSound`: the explanations of a published run.

Metrics have severity 0 as the Prometheus adapter normalises them, so a metric never carries a cascade (30 % of the cause's
score is below the threshold); the detector's documentation speaks of metrics too.

### Consequences of the code that are not stated as runs

Found while modelling. Either no document promises the opposite, or the behaviour is visible at one line,
or a theorem settles it for every instance:

- Cascade signals have no effect on any ranking. `detection/topology_cascade.py` says the opposite: its output "feeds into the
  Topology relevance and Propagation consistency factors" (line 10), the signal "strengthens the incident's topology evidence"
  (lines 16-18), which "tightens topology evidence in the RCA scoring" (lines 62-63). The generator and the ranker read no
  context anomaly, and section 14.4 of `src/BLUEPRINT.md` asks for none. This is a disagreement of code and comment, proved
  rather than run: by the theorem `ContextNeverRanks`, candidates, factors and order are the same without these signals.
- A cascade runs forward along `depends_on` as it does along `sends_traffic_to`, while `src/BLUEPRINT.md:1202` reads the impact of
  a failed dependency in reverse. `CascadesFollowTheirCause` states the code's direction. In the shipped topology the two relations
  join the same entities; on the 64 graphs of the run they are complementary, so that they are told apart.
- A batch stops at the first incident whose analysis fails and leaves the attachments of
  the others in no run. `AttachedIsAnalysed` therefore lets a failed run, of this incident or of
  another, tell of events that no run covers.
- An unchanged recompute may answer with the id of a superseded run, or with none (`SkipUnchanged` answers with the loaded
  pointer). `UnchangedIsServed` bounds how wrong that is.
- If detection fails, the accepted events are rolled back with it, while
  `src/BLUEPRINT.md:936` has the accepted event survive a failing stage (`DetectFails`).
- Samples of a request that is rolled back stay in the EWMA cache, and the retry counts them again.
- Two triggers that pass the check together both go on (`CanTrigger`, `Arm`); `src/BLUEPRINT.md:1555`
  refuses a trigger while another scenario is active.
- A review may be recorded against a run that was superseded after `submit` checked it.
- If the ranker applied no conflict at all, the collector matches the catalogue's patterns by itself, without their
  conditions, and may show a conflict that cost nothing.
- An incident whose start moves between two pages may be listed twice.
- A configuration change that targets a database yields a candidate for which one of the
  declared playbook steps does not apply, and fails the analysis (`CollectFails`).

### Bounds

*Publication.* The races need two requests that hold different locks while one of them has read
earlier: two requests on an incident that was published before (`StartedSpec` goes from the empty
database through `FirstIngestion`), one of them with two events to come. `MaxVersion`, catalogue edits, lets a recompute find changed inputs
without a new event; two edits let two recomputes publish. *Investigation.* One reader, since readers do not
interact; two requests publish over each other while it reads; one reset. *Reviews.* `MaxRuns` bounds publications: one to
review and one to supersede it. Two hypotheses distinguish "one rejected" from "all rejected". *Simulator.* Two
groups distinguish a gap from a missing end, two workers are the old one and the new one; three
clients allow a stop, a start and a reset to meet. *Telemetry.* Batches of one or two records, of which the second may spoil the
first; three requests are one that loads, one that rolls back and one that continues. *Incidents.* Six events chosen at the
boundaries: at one timestamp, after the idle window, a veto by family, context only, with a trace, evidence only; every
partition into batches in every order. A listing may begin at any time, so nothing stops there; `landing` runs without a client and may consume all events, which is why it does not check deadlock. *Analysis.* Every subset of ten events on the shipped
topology; three of them on each of 64 graphs, with the remaining edges as dependencies; any four together with a trace, whose spans are where ranker and
collector may part; and every single event late. `RecentLimit` is 6 where the
code has 50, so that the limit is reached.

Symmetry is declared on sets whose members are only compared, and never in a run with a liveness property.

### Fairness

Weak fairness of each request's steps, each submission's steps and each worker's steps:
threads are scheduled, and code that holds a lock goes on. Every wait inside is bounded by
SQLite's busy timeout or by the one-second join; the analysis itself is assumed to return,
since the language model is called with a timeout. Receiving a request, editing a catalogue,
crashing, and publishing are never fair. Requests are finitely many, so a waiting thread
cannot be overtaken for ever and weak fairness suffices. `RequestsEnd` fails without the
busy timeout: a request that retries or waits for ever is caught.

Every property of a passing run has a fault operator in its module (marked "Fault:") that
breaks it: a missing savepoint, an unchecked index, a fingerprint without events, and so on.

## 4. Proofs

Each proof module has an inductive invariant, a lemma per action that it is preserved, and theorems
that follow from it. They hold for all sets of requests, records, workers and so on, of any size, under
the named assumptions of the module they are about, such as: `NoRequest` is no request, bounds are
natural numbers, metrics and alerts are different records.

**AnalysisPublicationProofs**: `TypeCorrect`, `PointerIsAlwaysCurrent`, `NeverCommittedBuilding`, and from the revision history
`PublicationRefinesLog`, `AttachedAlwaysAnalysed`, `UnchangedAlwaysServed`.
`PointerIsCurrent` speaks of committed databases only and is not inductive: what is
committed next is `tx`. `PublicationInv` says that `db` is *settled* (each row is
superseded or failed, but for the current row the pointer names), that `tx` equals `db` when nobody
writes, and for the writer what stage it is in (`StageInv`): outside publication its `tx` is settled;
within it, the incident being published is `Building`, `Superseded` or `Marked`, every other incident is settled, and the
`savepoint` is settled but for the one building row. The lemmas say what each statement
does to an image (`SetRunStatusFacts`, `InsertBuildingFacts`, ...) and how it moves an
incident from stage to stage (`BuildingCreated`, `SupersedeStage`, `MarkStage`,
`PointerSettles`, `FailureSettles`). An interesting case is a stale `loaded` pointer: the
wrong run is superseded, the unique index then rejects `MarkCurrent`, and the savepoint
undoes both.

The second half of the module proves `PublicationRefinesLog` (publication implements the abstract `RevisionLog`) and
`AttachedAlwaysAnalysed`, for any number of incidents. Type correctness and `PublicationInv` are
used as lemmas. `HistoryInv` relates what a request has read to what is committed now. A commit only adds (`Continues`): rows
keep their fingerprints and whether they were published, the pointer never moves back, attachments grow, and an incident gains at most
one attempt. So a pointer and a fingerprint that were read before the writer lock are lower bounds (`LoadedInv`, `InputsInv`), and
that suffices: the partial unique index lets `MarkCurrent` pass only if the run superseded, which is the *loaded* one, was the
committed current one (`MarkedIsLoaded`). That is the step of `RevisionLog` that needs the served run to be
followed by one whose inputs differ from it and contain its inputs. `SessionInv` bounds what the writer's `tx` may hold beyond `db`, and
`SavepointInv` and `PublishingInv` say what a rollback to the savepoint leaves. For `AttachedIsAnalysed`, `AccountsInv` adds whom the
writer owes an analysis: the incidents in `todo` and the one it is at, and nobody once it commits without a failure.

`UnchangedAlwaysServed` rests on `HistoryInv` and on `ServedInv`: the pointer a request goes by names a published run, though it
may have been loaded before any lock was held. A commit keeps who is published, so `ServedInv` needs nothing but `Continues`
of the steps of others. That the run found by its fingerprint is the committed one, and not one of the session's own, is because
a session that compares has added nothing for that incident yet (`UnchangedIsCommitted`).

**ReviewSubmissionProofs**: `ReviewsTyped`, `ActionsRecordedOnce`, `ReviewsClose`. `ReviewInv`
adds to the two properties what a submission knows before its INSERT (`LocalInv`): it has no
answer yet, and the run it asks about exists and is the one it loaded. That an action is recorded once then rests on
`Persist` looking it up under the writer lock; what was read before it may be stale.

**EventIngestionProofs**: `IngestionTyped`, `AnswersStored`, `StormsRepresented`, `SamplesKept`,
`BaselineFresh`, `BaselineGrows`. `IngestionInv` is `TypeOK`, who may hold the writer lock
(`WriterInv`), the state of the two images, the row and the cache (`StoreInv`), and for each request
(`RequestsInv`): what it was told so far is true of the image *it* sees (`Told`), and every sample it stored
is in the baseline or still in `todo` (`Pending`). `Told` is stable because images only grow between resets (`Grows`). The cache may be ahead of the row, never behind: that a rollback leaves samples in
it is why `CommittedSamplesAreKept` says prefix and not equality.

**SimulatorEngineProofs**: `SimulatorTyped`, `OnlyResetsOpenGaps`. `EmissionInv` is `TypeOK` with
`WorkerInv` and `ClientInv`: whoever emits a baseline group holds the engine's lock, so the group it emits
is the one after the cursor, however many workers outlived their stop. Only the commit of a reset, which
holds the writer lock and not the engine's, can take groups away behind the cursor.

**InvestigationReaderProofs**: `ReaderTypesHold`, `AnswersAreAlwaysWhole`, `StaleIsAlwaysOvertaken`. Readers hold no lock, so what
they read must stay true while others commit. Every commit is `Continues` of the one before, by the theorem above; a
reset increments the epoch, and the properties speak of a reader of the same epoch (`SameDemo`). `ReadersInv`: the pointer a
reader found is not beyond the committed one; the run it names has been published, and what it was computed from is still attached; and
of the children and the timeline a reader has what its statements so far are for.

**IncidentManagerProofs**: `SummariesHold`, `ManagerTypesHold`, `ClosedStayUntouched`, `TurnsDecide`, and, for the listing,
`NothingPassedOver` and `PagesImplementManager` (a client that pages changes nothing, so the first four hold in the run
`incidents` too). `ManagerInv` says that each incident of `tx` summarises what is attached to it
(`Summarises`: start, end and severity are bounds that some attached event reaches, which survives an attachment, where "the minimum of" would have to be
computed anew), that a closed incident of `tx` is the one of `db`, and that the events waiting for their turn are stored in `tx`
and not in `db`. `OpenIncident` folds over the lookback; `TakeAll` is a recursive function on the positions of a sequence, and what
every step keeps is proved to hold of its result by a least counterexample (`TakeAllKeeps`, `LeastExists`), an induction without an operator parameter. For the
listing, `PagesInv` says that a committed start never moves later and that an incident that matched since the first page
is listed or below the cursor. A late event that moves a start earlier moves the incident towards pages still to be read, never past
them. That a page has the lowest ranks of what is left is proved from the finite orders at the head of the module.
The assumptions are `WindowAssumption` (the idle window of `config.py` and the minute of nearness are natural numbers),
`ThresholdAssumption` (`config.py:125` has 40 hundredths; an opener scores 50 for its incident, and with a higher threshold it would not be in
the incident it opened) and `DataAssumption` (times are natural numbers, scores are from 0 to 100, families are a sequence).

**IncidentAnalysisProofs**: `ExplanationsSound`, `SearchesOfTopologyAgree`, `CascadesAreDownstream`, `CascadesNameSymptoms` and
`WholeTracesAlwaysPass`, for any incident, events, batches, topology, catalogue, playbook and modes. For the first, `AttemptInv`
says that while the model is asked there is the template's row, no reason yet, and at most one answer, one that raised or
was invalid. The other four are about what `Bundle` computes, and their state invariant is short (`FromIncident`: the bundle is that
of an incident, and no step changes it); the work is in the operators:

- *Topology*: `Ball` and the queue search are recursive functions on numbers, and what holds of every step of such a function is
  proved by the least number at which it would fail (`UpTo`), an induction without an operator parameter. A ball of radius n holds what paths
  of at most n edges reach (`BallIsPaths`). The queue search goes through the balls one after the other (`AtLevel`), and takes a
  new entity in each iteration (`Bookkept`), so it ends within as many iterations as there are entities. So the searches agree on all
  graphs, where the run has 64.
- *Detection*: `Detect` goes through the events in their order of evaluation. What each step keeps (`IsAnomaly`, ids of
  events that were evaluated, causes among what was found before) is proved of the whole batch, and of all batches. A cause is
  filtered by `context` before it is followed, and that the anomaly named by event and detector is the one
  that was followed rests on there being one anomaly per event and detector.

**CauseRankingProofs**: `RankingsAreTyped`, `ConflictsAreShown`, `EvidenceCanBeStored`, `CausesAreAlwaysLocated`, `MapsHangTogether`,
`ContextNeverRanks` and `CoverageAlwaysAgrees`. `AnalysisInv` is the invariant of the explanation, `AnswersInv` (the model is asked twice at most, and
not before the evidence is there) and `RankingInv`: what is ranked is `Rank(Candidates(bundle), bundle)`, and the evidence so
far is what `Collected` makes of the hypotheses from the first on. The properties follow from that invariant and lemmas
about the operators, of which these carry most:

- *Conflicts* are folded over a score. `Scored` says what a fold keeps: each factor within 0 and `Whole`, a score that is the
  weighted sum, rounded, and never more than the one without conflicts. A cap or a subtraction that raised a factor would break it.
- *Ranks*: a hypothesis has the place of the number of better ones (`RankingIs`). That each place is taken needs
  `Better` to be a total order, and it is one since each entry of the catalogue has one candidate at most, so that the order of
  the catalogue decides between equal scores.
- *Ids*: the codes of requirements, associations and conflicts differ, and an alternative, whose code is of the form of a conflict's, is
  only shown if there is no conflict. The two kinds of timeout share a code. No entry of `hypotheses.yaml` expects both, and the theorem needs that (`ReasonsDiffer`).
- *Coverage*: under the shared vocabulary each rule of the ranker and the rule of the collector for the same requirement accept the
  same events (`RulesAgree`, one requirement at a time, from `WordsArePlaced`). So evidence is available to the one exactly if the other finds a
  latest match (`EvidenceIsFound`, `MissingIs`), and the collector's missing items, which are distinct by their
  requirement, are as many as the requirements the ranker does not count (`CoverageCounts`).
- *Locations*: the generator follows typed paths and the ranker takes a route; both are compared with `Paths` (`RouteExists`). The
  longest traversal that the topology factor gives anything for is `MaxHops`.
- *Context* (`ContextDoesNotRank`, defined in the proof module): an anomaly that is context has a type in `ContextTypes` (proved of `Detect`), and no pattern of the catalogue
  asks for such a type. So each factor is proved equal with and without them, then the candidates, the history, and the ranks.

The assumptions of these two modules are named where they are declared. `TopologyAssumption` is what `TopologyGraph` refuses otherwise (an
edge whose end is no entity). `LocationAssumption`: the incident manager takes entities from the topology. `DeliveryAssumption`: an event is
a `CanonicalEvent`, and its id is the key of its table. `LogRulesAssumption`: scores are from 0 to 1. `CatalogueAssumption` is what
the loader of the catalogue validates, and that the lists of the file are finite. `ShippedAssumption` is what the loader does *not* validate and `hypotheses.yaml`
happens to satisfy: no conflict changes the topology factor, no pattern asks for context, traversals are no longer than the maximal hops, and the
two requirements above do not meet. An edit of that file which breaks it can break the theorems, and TLC evaluates
the assumption on the entries that the run has.

TLC checked each inductive invariant on small instances before it was proved.

What stays model-checked, and why:

- *Liveness*: `RequestsEnd` of publication and of the simulator, and `SubmissionsEnd`. ENABLED is out of the prover's reach.

Every other property of a passing run, safety invariant or action property, is a theorem.

## 5. Not modelled, and what is left

Not modelled, with the reason:

- *Pause and resume* of the engine: no route calls them. Counters and source health: no decision reads them.
- *The statistics* inside the z-score and EWMA detectors: floating-point. Which samples they are computed from is in `EventIngestion`.
- *Paging of the audit log*: rows that are only appended.
- *The connection pool*: the models have a connection for every request.
- *Foreign keys*: rows are written with their parents. The reset switches `PRAGMA foreign_keys` inside a transaction, where SQLite ignores it.
- *Audit rows* (one per operation, in the same session), *handover* and *concept assistant* (formatting, or one stateless call).
- *Adapters and dataset bridge*: parsing. *Start-up*: wiring. *Playbook loading*: I/O; steps are a constant table.
- *Frontend*: views that poll.

Left to do, in this order: several metrics and several fingerprints in `EventIngestion`; the reset in one model with
publication and its foreign keys.

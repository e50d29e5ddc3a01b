# SecureSwipe: specifications, model checking and proofs

SecureSwipe is a fraud-risk reference service: a FastAPI application that scores
transactions under an idempotency key and leaves tamper-evident audit evidence of
every decision, surrounded by offline pipelines that prepare, train, evaluate and
report, and by synthetic real-time and order-integrity references. This directory
holds TLA+ modules of its stateful core and of the rules its pipelines rest on, TLC
configurations that check them on small instances, and TLAPS proofs for every size.

Run from this directory:

    tlc -workers 2 -config scale_chain.cfg MCScaleStore
    tlc -workers 2 -config independent_components.cfg MCComponents
    tlapm ScaleStoreProofs.tla

## 1. The system

Paths are those of the repository (`api/`, `src/`, `scripts/`, ...).

### The serving path

| Component | State it keeps | Operations | What is hard | What makes it correct |
| --- | --- | --- | --- | --- |
| Durable store of `postgres-scale` (`api/postgres_idempotency.py`, migrations 0001, 0002) | table `secureswipe_idempotency`, pool, completion gate | `reserve`, `wait_for_reservation`, `complete_reservation`, `fail`, `open`, `execute_detailed` | several processes, row locks, expiry, COMMIT whose acknowledgement is lost, crashes of owners | one scoring and one decision per key; released decisions are committed; terminal rows stay; every request ends |
| Durable audit chain (`api/postgres_audit.py`) | `audit_chain_heads`, `audit_events` | `build_audit_event`, `verify_audit_chain` | head contention of all processes, verification while others commit | one gap-free hash chain; rows and events paired; a verifier refuses broken evidence only |
| Local audit log (`api/audit.py`) | NDJSON log, anchor file, count and head in memory | `append_inference`, `verify_audit_log`, start | a failed or cut off system call at any step, loss of power | released results are durable evidence; the anchor never runs ahead; broken evidence is frozen |
| Local registry (`api/audit.py`) | entry per key, with an event to wait on | `reserve`, `replay`, `complete`, `fail` | waiters of an entry that failed and was replaced | replays show the owner's outcome; nobody waits for ever |
| Routes, admission, deadline (`api/main.py`, `api/service.py`) | `ConcurrencyGate`, worker threads | `/v1/predict`, `/v1/predict/batch`, `/v2/predict` | threads that outlive their requests, cancellation at each await | the gate counts what runs; nothing is released without evidence |
| Request ingress (`api/main.py`, `api/metrics.py`) | a request's body, id and status while it passes | `RequestBodyLimitMiddleware`, `request_context`, the exception handlers | a body in any number of messages, clients that go away, an error in the error path | a route sees the whole body or does not run; every request is counted once, under one id, with the status it got |
| Migrations (`api/postgres_migrations.py`) | advisory lock, migration history, schema, grants | `run_migrations` with `--check` or `--apply` | operators of different releases at once, a COMMIT whose outcome the client never learns | the history says what was executed, once, in order; a release found current stays so |
| SQLite prototype (`src/operations/durable_idempotency.py`) | one row per key, an audit trail | `reserve`, `complete`, `fail`, recovery on opening | another handle on the file, or a restart, between any two statements | one audit event per key; no second decision after an unknown outcome |

### Evidence and artifacts

| Component | State it keeps | Operations | What is hard | What makes it correct |
| --- | --- | --- | --- | --- |
| One-time final evaluation (`src/lane_a/final_lifecycle.py`, `scripts/lane_a_run_final_evaluation.py`) | one record file per output directory | `prepare`, `start`, `seal`, `fail_after_access` | two runners, a kill or an interrupt between steps | final data is read at most once per record, and the record says so |
| Model bundles (`src/artifacts/bundle.py`) | a directory per bundle, renamed into place | `save_model_bundle`, `load_model_bundle`, two validators | publishers that compete, withdraw or die, loss of power, damage | what was returned stays, whole; what is served was saved |
| Historical test quarantine (`src/data/historical_quarantine.py`) | the test files, an approved anchor, a manifest of row hashes | derive a candidate, write the manifest, load, check overlap, reverify | files replaced between the reads, an anchor approved anew, a stale manifest | no published model was trained on a test row |
| Training roles (`curation.py`, `historical_reference.py`, `run_development_training.py`, `temporal_validation.py`) | none: pure functions of frames | curate, assign roles, deduplicate, fold, declare | ties of time, duplicates across sources, blocks of unequal length | each row plays one role, roles follow one another in time, and the bundle validators accept what the producers declare |
| Lane A (`src/lane_a`, `scripts/lane_a_*`) | the files of a private directory | freeze, materialise, experiment, authorize, evaluate | files that are overwritten one at a time, several builders of the same features, ties and roundings in the rules | sealed scores are of held-out rows by untouched, matching artifacts; rules computed apart agree |
| Reference stages (`scripts/run_reference_stage.py`, days 2 to 7) | evidence directories with manifests | launch, compute, hash, publish | files replaced between reading and hashing, racing invocations, mixed lineages | evidence is immutable and reproducible from the inputs it names; no model is judged on its training rows |
| Scale harness (`scripts/run_p1_scale_benchmark.py`, `src/operations/p1_scale_benchmark.py`) | container, volume, evidence files | own docker resources, drive workloads, judge, write evidence | an API that misbehaves, failing or hanging docker, kills between files | a repeat is accepted only if every request was scored exactly once; what was made is removed |

### References and the rest

| Component | State it keeps | Operations | What is hard | What makes it correct |
| --- | --- | --- | --- | --- |
| Synthetic real-time layer (`src/synthetic_realtime`) | ordered events, watermark, clock | `record`, `evict_expired`, windows, features, scenarios | late, duplicate and evicted events at closed window edges | what is reported of an event is what the whole history says; each scenario shows its pattern and no other family's |
| Order integrity (`src/order_integrity`) | quotes, confirmation ledger, settled quotes | `issue_quote`, `verify_confirmation` | replays, altered quotes, changed prices | one eligible confirmation per quote, for the exact amount |
| Timing, metrics, diagnostics; request contracts; other benchmarks, scripts and the web front end; model fitting, metrics, explainability, monitoring, exploratory analysis | observers, validators and numerical batch code | | numerics and presentation | not modelled, see section 2 |

How they interact. A `/v2/predict` request (profile `postgres-scale`) calls
`execute_detailed`: it reserves its key in a short transaction; the owner scores in
a worker thread outside the database and completes in one transaction that locks
the key's row, then the chain head, inserts the event, completes the row and moves
the head; everybody else polls the row until a deadline. The database is the only
state the processes share. A `/v1` request (profile `local-default`) reserves its
key in the process's registry, is admitted by the gate, waits for its worker up to
a deadline, appends its events to the audit log and publishes its result to the
requests that wait for the same entry. The audit files are all that outlives that
process. Everything else shares no state with the serving path but a bundle: the two
producers train on frames that the quarantine and the roles admit, a bundle declares
what they did, the publication puts it under its name, and the service loads it at
its start.

## 2. Modules

| Module | Models | State and actions |
| --- | --- | --- |
| `DecisionLedger` | the contract of an idempotency key, whatever the backend | `binding`, `decision`, `shown`; `Bind`, `Release`, `Decide`, `Show`, `DecideAndShow`, `Conflict` |
| `ScaleStore` | `postgres-scale`: table rows, chain, processes and requests | `row`, `head`, `events` are the committed tables; `tx`/`staged` a completion transaction on the server; `pc` where `execute_detailed` stands; `phase` a process's life; one action per step between two awaits |
| `AuditLog` | the files and the writer of `api/audit.py` | `log`, `torn`, `synced`, `anchor`, `anchorOnDisk`, `memory`, `writer`; one action per system call that can fail |
| `LocalServing` | `local-default`, on top of `AuditLog` | `entry`/`published` (registry), `inFlight` (gate), `worker`/`result` (threads), `pc`/`answer` (handlers), `process` |
| `RequestIngress` | one request through the two middlewares to a route and back | `request`: the messages left, what is buffered, id, status, counts; `NameRequest`, `Buffer`, `Disconnect`, `ReadBody`, `RouteAnswers`, `RouteRaises` |
| `SchemaMigrations` | operators of several releases that check or apply | `lock`, `history`, `schema`, `granted`, `at`; one action per statement, `Vanishes` and what the server then does |
| `SqliteStore` | the prototype and its callers | `table` (its rows), `trail` (audit events), `call`, `handle` (connections); one action per statement, so that `reserve` is a read and a claim; handles open, recover and die beside one another |
| `FinalLifecycle` | the record file of each output directory and the runners | `record`, `where`, `stage`, `seen`, `accessed`; `AssertNoPriorRun`, `Create`, `WritePrepared`, a check and a replacement per transition, `Access`, `Fails`, `Dies`, `Report` |
| `BundleContract` | what a bundle declares and the two validators that read it | pure operators: `ValidBundle`, `Manifest`, `ValidManifest` |
| `ArtifactPublication` | publishers and loaders of bundles and quarantine manifests | `entry`, `synced`, `tree`, `parent` (file system), `stage`, `loader`; a step per file, rename, link and fsync, deaths, damage, loss of power |
| `DataRoles` | which rows may play which role, and what is then declared | `lesson` holds the inputs of the algorithms: curation, chronological roles, folds, calibrator choice, fitting pool |
| `Subframes` | the rows of a frame at given positions, in their order | one operator, used by `DataRoles` and `LaneAFeatures` |
| `TestQuarantine` | the way of the test rows into the quarantine and of the quarantine into training | `retained` (test files), `anchor`, `hashList` (manifest), `deriver`, `trainer`; a step per look at a file, and files replaced, approved and edited in between |
| `LaneASelection` | partition boundaries, capacity, workload, thresholds, calibration error, choice of a model | `exam` holds the inputs; the rules are operators |
| `LaneAFeatures` | column contracts and the three builders of features | `source` holds the rows the builders read |
| `LaneAPipeline` | the scripts from the freeze of a partition to the sealed scores | `assignment`, `files`, `artifacts`, `report`, `pins`, `manifest`, `final`; one action per command, which may die between files |
| `SyntheticSignals`, `EventStore` | windows, features and scenarios; the event store and its clock | `held`, `watermark`, `clock`, `feed`; `Record`, `AdvanceClock`, `Reset`, `Replay` |
| `OrderIntegrity` | quotes and confirmations | `quotes`, `outcomes`, `settled`, `prices`, `version`; issuing, altering, repricing, confirming |
| `ScaleHarness` | one run of the scale harness against docker and a served API | `step`, `trial`, `client`, `server`, `docker`, `files` |
| `ReferenceStages` | invocations of the stages of days 2 to 7 | `elsewhere` (input files outside the evidence), `tree` (evidence), `job`; launch, a step per file that is read, dispatch, manifest, publish, files replaced by others |
| `MCScaleStore`, `MCLocalServing`, `MCFinalLifecycle`, `MCEvidence`, `MCComponents` | instances for TLC | the small sets the configurations name |
| `ScaleStoreProofs`, `LocalServingProofs`, `FinalLifecycleProofs`, `SqliteStoreProofs` | theorems about the module they are named for | see section 5 |
| `ArtifactProofs` | theorems about `ArtifactPublication`, `LaneAPipeline`, `TestQuarantine`, `LaneASelection`, `LaneAFeatures`, `DataRoles` | see section 5 |
| `EvidenceProofs` | theorems about `ReferenceStages`, `ScaleHarness` | see section 5 |
| `ComponentProofs` | theorems about `OrderIntegrity`, `SchemaMigrations`, `RequestIngress`, `EventStore` | see section 5 |
| `FiniteSums` | lemmas about sums over finite sets and sequences, and induction over sets | cited by `ArtifactProofs`, `EvidenceProofs` and `ComponentProofs` |

`LocalServing` extends `AuditLog` and calls its actions: the files say what happens
to a write, the serving process says when. `ArtifactPublication`, `DataRoles` and
`TestQuarantine` extend `BundleContract`: what the producers of `DataRoles` declare is
what its validators judge and what the publishers publish. `ScaleStore`, `LocalServing` and
`SqliteStore` instantiate `DecisionLedger` with a refinement mapping (`ImplementsLedger`,
`SqliteImplementsLedger`).

The names of actions are those of the code where that is possible; the mapping in
`PROJECT.json` gives the lines of every definition. Operators whose comment begins
with "Faulty" are variants of the definition after them with a plausible bug; they
belong to no specification and serve to show that a property can fail.

### What the models of PostgreSQL and of files assume

* READ COMMITTED: each statement sees what is committed when it starts, so one action
  is one statement's snapshot. `SELECT ... FOR UPDATE` and `UPDATE` wait for the
  transaction that holds the row, `FOR SHARE` (in `reserve`) too; a plain `SELECT`
  (in `_read`, `verify_audit_chain`) does not. `is_stale` is evaluated no later than
  the lock is granted; the model evaluates it at that moment.
* A lost connection leaves the server free to apply a COMMIT it has received or to roll
  back, whether or not the client has gone on; it keeps an advisory lock until it ends the
  session. A reservation whose acknowledgement is lost is committed at the moment its
  client sees the error.
* Digests do not collide: a digest is the content, or the tuple, it binds. Tokens drawn at
  random for scenarios may collide, unless the property says otherwise.
* A killed process loses nothing it has written; a loss of power keeps what was fsynced
  and a prefix of the rest, and of the anchor file the new or the old version. The loss of
  the log's own directory entry before the first anchor is not modelled.
* In `ArtifactPublication` a directory's entries survive a loss of power as of its last
  fsync, or later. Directories that a publication had to make are not synced into theirs by the
  code, so that they, with all below, may be lost: `ReturnedStays` excepts this case. The
  manifest of a bundle has no digest of its own and is never damaged in the model.
* `O_EXCL` creation, `os.replace`, `link` and `RENAME_NOREPLACE` are atomic; a runner has its own
  run id (`uuid4`). A loss of power is not modelled for the lifecycle record: whether a renamed
  file survives without an fsync of its directory depends on the file system.
* A Parquet file is read in one step: a replacement is a rename. Published reference evidence is not
  edited in place, and the checksum beside a model is replaced with it. In `LaneAPipeline` an operator
  runs one command at a time. The seeded splitter, models and calibrators are
  deterministic. The API that the harness drives may misbehave, but an answer that claims to be
  the original carries an event of its own.
* `local-default` is modelled with an audit log configured. The batch route returns no
  receipt, as in the code. Nobody edits the serving tables or files from outside.

### Left out of the modelled components

* `ScaleStore`: the size of the connection pool (a connection is there or the step fails),
  `is_available`, retention columns; admission and the scoring deadline appear as
  `ScoreFails` and are modelled in `LocalServing`. `LocalServing`: `/health` and read-only routes.
* `FinalLifecycle`: the verification gates before the record and the metrics; all its runs are
  for one freeze commit. `LaneAPipeline` has the gates about artifacts, digests and
  sources; those about the repository, the documents and the environment compare constants.
* `OrderIntegrity`: unknown client fields and the signature of synthetic bodies. `BundleContract`
  and `ArtifactPublication`: deserialisation, the arithmetic of the golden probe, file names and
  checksum sidecars. `TestQuarantine`: who reviews, paths and symbolic links.
* `LaneASelection`, `LaneAFeatures`, `DataRoles`: model fitting, encoders, bootstrap intervals, the other
  metrics. `ScaleHarness`: timing, sampling, statistics and reports. `ReferenceStages`: what the
  stages compute beyond the rows it is computed from. `SqliteStore`: several statements of one handle at a
  time (a connection refuses other threads), and a busy file but as a statement that raises; a `SELECT` that
  raises, after which nothing has happened.

### Not modelled

Timing, metrics and diagnostics are observers on which no outcome depends. Request and response
contracts validate and encode one value at a time; requests and decisions are model values here.
Model fitting, metrics, explainability, exploratory analysis and offline monitoring are
numerical batch code on pandas and scikit-learn, where a finite model would only repeat the
arithmetic. The other benchmarks and scripts, the web export and the front end present what the
rest produces.

## 3. Runs

| Run | Instance | What it shows |
| --- | --- | --- |
| `scale_chain` | 2 keys, 1 input, 3 requests, 2 processes, 1 crash, expiry after 1 tick | `CompletedIffAudited`, `ChainContiguous`: rows, events and head agree whoever commits and dies; `RowsAreTerminal`: late failures never touch a finished row; `RefusedOnlyByConcurrentCommit`: a starting verifier is right about a store nobody appends to |
| `scale_retries` | 1 key, 2 inputs, 2 decisions, 3 requests, 2 processes, 1 crash | `ScoredOnce`, `AnswersAreDurable`, `RefusalsAreTruthful` under retries, conflicts, expiry and lost acknowledgements; `ImplementsLedger`: refinement of `DecisionLedger` |
| `scale_liveness` | 2 keys, 2 requests, 1 process, 1 crash | `EveryRequestEnds`, `LocksAreReleased` under `FairSpec` |
| `scale_stale` | 1 key, 2 requests | a disagreement: see section 6 |
| `scale_startup` | 1 key, 2 requests, 2 processes | a disagreement: see section 6 |
| `local_audit` | 2 keys, a single and a batch input, 3 requests, gate of 2, 2 ends of the process | `ReleasedIsAudited`: durability at every cut, with the anchor never ahead; `OncePerLifetime`, `BrokenLogIsFrozen`: failed appends are never repeated or built upon; `GateCountsWorkers`: admission counts threads, not requests |
| `local_liveness` | 1 key, 2 inputs, 2 decisions, 3 requests, gate of 2, no end | `ImplementsLedger` and `EveryRequestEnds` within one lifetime |
| `evidence_tools` | the final evaluation, the scale harness, the reference stages and the SQLite prototype, one of them per behaviour (table below) | see below |
| `final_partial` | 2 runners, 1 directory | a disagreement: see section 6 |
| `final_directories` | 2 runners, 2 directories | a disagreement: see section 6 |
| `independent_components` | ten components, one of them per behaviour (table below) | see below |
| `event_lookback` | the instance of `independent_components` | a disagreement: see section 6 |

`independent_components` and `evidence_tools` check what shares no state, each alone: `Init`
chooses one (`part`, `tool`), the others stay as they are. One run for all of them asks the same as one run
for each; the sets of states are disjoint and add up.

| `tool` | Distinct states | Instance | Properties |
| --- | --- | --- | --- |
| `final` | 4,661 | 3 runners, 2 directories | `AccessedOncePerDirectory`, `RecordIsTruthful`, `RecordMovesForward` |
| `harness` | 494,392 | 2 repeats of 2 requests and a warm-up, 2 misbehaviours | `AcceptedMeansExactlyOnce`, `OwnedIsReleased`, `EvidenceIsKept` |
| `racing` | 76,258 | 2 invocations of days 3 and 4, 3 targets, the default paths with files of another draw, 1 act of interference | `EvidenceIsNamed`: manifests name what was read, and one of two rivals wins a name; `JudgedOnUnseenRows`: evidence that leads back to day 3 mixes no lineages |
| `alone` | 25,879 | the same with one invocation at a time, of days 2 to 7 | the same |
| `chain` | 99,029 | the same with one invocation at a time in 4 targets, of each of days 3 to 6 once | the same, as far as the thresholds of a traced model of day 5 |
| `sqlite` | 20,536 | 1 key, 2 inputs, 2 verdicts, 3 callers, 2 handles | `OneEventPerKey`: statement by statement, with another handle that inserts, recovers or dies in between; `SqliteImplementsLedger`: refinement of `DecisionLedger` |

| `part` | Distinct states | Instance | Properties |
| --- | --- | --- | --- |
| `events` | 13,422 | 6 free events around two days, 4 arrivals, capacity 6; the nine scenarios with two kinds of draws | `ReportedIsExact`: features and ordering are those of the history that forgets nothing, for an event not behind the clock; `ScenariosShowTheirPattern` |
| `orders` | 130,272 | 3 carts, 2 price tables, 2 versions, 1 quote, 2 events | `OneEligiblePerQuote`, `VerifiedIsExact` |
| `migrations` | 11,480 | 4 operators of 4 releases, two of which disagree on the first file | `HistoryMatchesSchema`, `CurrentStaysTrue` |
| `publication` | 216,021 | 2 publishers, 1 loader, bundles and quarantine manifests, 1 accident | `ReturnedStays`, `ServedIsWhole` |
| `lessons` | 16,660 | frames of 4 rows at 19 to 35 times, splits of up to 3 rows, timelines of up to 5 | `ProducedDataIsSound` |
| `selection` | 3,732 | up to 7 timestamps, samples of 4 rows with tied scores, boards of 4 models | `SelectionsAreSound` |
| `features` | 1,404 | two rows with every kind of unusual cell | `FeaturesAreFaithful` |
| `lane` | 220,888 | 6 rows, 2 partitions, 11 commands | `FinalScoresAreHeldOut` |
| `ingress` | 9,829 | bodies of up to 3 messages around a limit of 3, up to two id headers | `RequestsAreAccountedFor` |
| `quarantine` | 199,818 | two contents of the test features, another format, three of the labels, 2 training frames, 3 disturbances | `NoModelSawTestRows` |

Bounds of the serving runs. Three requests are an owner, a competitor or retry, and one more that meets
what those two have left. Two keys let completions contend for the head only; one key
with two inputs lets requests contend for the row. Two processes give two gates and a
starting verifier beside a serving process. One tick (`TTL = MaxTime = 1`) separates
valid from expired; one crash (`MaxCrashes`) at any step covers owner, waiter and
verifier, as no state outlives a crash but the tables. Two ends (`MaxEnds`) of the local process
let a restart follow a cut-off append and be cut off itself. A batch of two is the smallest
that can be written half. A gate of two makes the third request meet a full one,
also when its two slots belong to abandoned threads.

Bounds of the other runs. Two handles of the SQLite file are a running one and one that is opened beside it or after
its death; three callers are two that race for a row and a retry that meets what they have left. `Instants` are the two edges of the retention and a minute
beside each; `MaxArrivals = 4` free events are one more than any feature's threshold counts up to in the
instance, `MaxEvents = 6` is reached by replays. `Accidents = 1`: two independent accidents to one tree add
no order of steps the publishers do not already have. `MaxCommands = 11`: eight commands lead from nothing to
an authorized final evaluation, and three more rerun any step under another partition. `MaxChunks = 3` and
`MaxBytes = 3` let the limit be met, passed by the last message, and passed before it.
`MaxDisturbances = 3` lets an anchor be approved, its test files be replaced and another be approved between any
two steps of a training run, or a file be replaced and put back during one read and the candidate be approved.
`Misbehaviours = 2` lets one fault of the API hide another; `GrowthRequests = 2` and two repeats are the least
that can be reordered or lost. Two invocations and one act of interference
(`MaxMeddling = 1`) let two stages race for a name, and a file be replaced
after it is read and before it is hashed; the files at the default paths start as those of another draw of the same or of another
dataset. Three targets hold a split, evidence of day 4 and what is made of it, or two splits, also of different
datasets, and a model of one; evidence of day 6 on a traced model of day 5 is the fourth in a row, which is
what `chain` is for. Invocations share nothing but the targets, and what is published stays, so that
two at a time meet only over names: `racing` has the two stages that this takes, a split
and what reads it, and the later days run one at a time, with others free to interfere between any two of
their steps. All places are `Trusted` in the run (the theorems allow any). Three runners are the holder of
a record, a competitor that has passed the same check, and a late one; two directories show that records are
independent. These bounds, with `MaxTime`, `MaxCrashes` and `MaxEnds`, are the only ones in guards. Symmetry is used only in
runs that check safety.

Deadlock is checked in all runs. `Quiet` and the operators named `...Over` are the legitimate stops: all requests have
ended and no transaction is open (`ScaleStore`), the log was refused and an operator must look (`LocalServing`),
all runners, publishers, loaders, operators or invocations have ended, or the inputs of a pure
algorithm have been chosen.

## 4. Fairness

`ScaleStore!FairSpec`: weak fairness, for each request, of its own progress and of the server's
progress with its transaction. It is justified by `asyncio`, whose lock is first come first
served and which runs every ready task; by PostgreSQL's lock queues; by the bounded
scoring (`prediction_timeout_seconds`), the bounded wait (`wait_timeout_seconds`)
and the connect timeout; and by the server's noticing of dead connections. `CompletionError`,
`StoreError`, `Crash`, `Tick` and every other failure may happen and need not.

`LocalServing!FairSpec`: an owner's wait ends at its deadline, the append is straight-line code on
the event loop, and a set `asyncio.Event` wakes its waiters. Worker threads need never finish
and callers need never cancel: `EveryRequestEnds` does not depend on them.

The components of `independent_components` and `evidence_tools` are checked for safety only, without
fairness: they are scripts that an operator runs, or a prototype that only tests call, and may die at any step.

## 5. Proofs

`ScaleStoreProofs` proves for all sets of keys, inputs, decisions, requests and processes, every
positive TTL and all bounds (assumption `ScaleAssumption`):

* `StoreInvariantHolds`: `Spec => []StoreInvariant`, and from it `TypeCorrect`,
  `CompletionIsAudited`, `ChainIsContiguous`, `ReleasedAnswersAreDurable`, `KeysAreScoredOnce`;
* `RowsStayTerminal`: `Spec => RowsAreTerminal`, an action property that uses the invariant.

The argument. No property of the list is inductive alone: that a commit leaves the row and its event
paired depends on what was true when the row was locked, several steps before. `StoreInvariant`
says what a lock protects in between. `RequestsInOrder` ties a request's place in the handler to its
transaction, `LocksProtect` says that the two locks are exclusive, that a locked row is
still the reserved row the guard has seen, that a staged event is still the next one of the
chain, and that after COMMIT the row stays what was committed; `RowsWellFormed` and `EventKeys`
say which columns a state implies. With them each step is local: `Commit` (lemma
`CommitFacts`, on top of `AppendFacts` about one more event in the chain) is the only step that
changes events, and the reservation steps (`ReservationFacts`, `ReservationKeeps`,
`ReservationAnswers`) and `RecordFailureStep` the only others that change rows. Steps that
change no table are handled by the frame lemma `StoreFrame`. `InitStep`, `NextStep` and
`StutterStep` are combined by temporal reasoning.

On top of `StoreInvariant`, three more theorems:

* `RefusalsStayTruthful`: `Spec => []RefusalsAreTruthful`. A refusal is decided on a row that was read earlier and is given without a
  lock. `AnswersFollowRows` is the strengthening: a request has no answer before it is done or failing, a row that is polled exists, and
  an answer given says of its row what no later step can take back (`ObservedRefusal`, `AnswersKeep`, with `RowsStayTerminal`).
* `StartsAreRefusedByCommits`: `Spec => []RefusedOnlyByConcurrentCommit`. `SnapshotsAreOld` says that the head a starting process has
  read was the head of a prefix of today's chain; so a mismatch with the events means that the chain has grown since.
* `StoreImplementsLedger`: `Spec => ImplementsLedger`. Each step is a step of `DecisionLedger` under the refinement mapping, or a
  stutter: an insertion binds (`InsertionBinds`), a commit decides (`CommitDecides`), an answer shows (`SuccessShows`) or refuses
  (`ConflictShows`), everything else stutters (`LedgerStutters`).

`LocalServingProofs` proves for all requests, keys, slots and any number of ends of the process `LocalInvariantHolds`, and from it
`GateIsExact`, `EventsOncePerLifetime`, `EveryReleaseIsAudited` and the action property `BrokenLogStaysFrozen`. That a caller who was
sent a decision has its evidence on disk goes back to an append that ended many steps before, in a thread that outlives its
request. `LocalInvariant` follows it: `SlotsCounted` ties the gate to the workers, `HandlersInOrder` a handler's place to its worker and
entry, `EntriesOwned` an entry of the registry to the one request that may publish it, `WriterInOrder` the one writer to the
lines it has appended and synced, `AnchorNeverAhead` the anchor to the synced lines, `LinesAccounted` every line to a request
of this life that has not been released unaudited, and `PublishedIsAudited` every published result to complete lines behind an
anchor. The parts concern different sides of the process; what a step may do to each side is stated once (`WorkerStep`,
`RequestFrame`, `LogStep`, `WriterShape`) and each part then has its own preservation lemma.
`RegistryImplementsLedger` proves `ImplementsLedger` under `MaxEnds = 0`, that is for one life of the process: the registry is in memory,
and a restart forgets its bindings in the code as well. Its strengthening is `RegistryKept`.

`FinalLifecycleProofs` proves for all sets of runs and directories (assumption
`LifecycleAssumption`) `LifecycleInvariantHolds`, and from it `FinalDataReadOnce`, `RecordsAreTruthful`
(from `FinalAccessIsRecorded` and `ReportsAreSealed`) and the action property `RecordOnlyMovesForward`. A transition replaces a
file it has read earlier, without a lock; the invariant says why that is safe: a run past its creation owns the record
of its directory, and the record's state is one its stage expects. `RecordWritten` shows that writing a file that is
absent or one's own disturbs no other run, `RecordKept` the same for steps that only move on;
`TransitionKeeps` and `StepKeeps` apply them to every action.

`SqliteStoreProofs` proves for all keys, inputs, verdicts, callers and handles (assumption `SqliteAssumption`)
`SqliteIsInvariant`, `OneEventPerKeyTheorem`, and `SqliteImplementsLedgerTheorem`: every initial state of `SqliteStore` is one of
`DecisionLedger`, every step a step of it or a stutter. `OneEventPerKey` is not inductive: that a key has no second event
depends on what a call knows while it is between two statements. `CallKnows` says what holds of a call whoever else works on
its key. `KeyIsExclusive` adds, for a key that was never contended: two callers under way own different keys, also after another handle
has recovered the file; an owner that has not written its event meets a key without one; what was read as FAILED
still is when it is claimed; a key that may be claimed (again) has no event. An `INSERT` that lost the race raises and
owns nothing. The `UPDATE` that claims a failed attempt has no guard: `contended` is the history of the keys it was run on while
another call stood before the same statement, and the theorems are about the others (see section 6).

`ComponentProofs` is about four components that stand alone.

* `OneEligiblePerQuoteTheorem` and `VerifiedIsExactTheorem`, for all carts, catalogs, amounts, times, quotes and events
  (assumption `OrderAssumption`). The strengthening is `LedgerConsistent`: the ledger knows every quote it has verified, and a
  quote keeps the digest of the cart it was issued for whatever else is altered.
* `PlanIsInvariant`, `HistoryMatchesSchemaTheorem` and `CurrentStaysTrueTheorem`, for all operators and releases (assumption
  `MigrationAssumption`: files are numbered from 1, `--apply` names a role). The strengthening is `LockGuardsPlan`: only the
  holder of the advisory lock is between its look at the history and its last commit, also while the server still has the
  session of one that vanished, so what it took for applied is what is there.
* `RequestsStayAccounted`: `IngressSpec => []RequestsAreAccountedFor`, for any limit, messages and headers. The strengthening is
  `IngressInvariant`: at each stage what is kept, seen and still to come is, in order, what was sent, and the buffer was within
  the limit before its last message (`BodyIsKept`); the id, count and answer follow the header and the verdict
  (`NameIsKept`). That a body over the limit is always refused needs that the size of a body is that of its first
  message and of the rest (`SummedFromTheHead`).
* `ReportsAreExact`: `EventsSpec => []ReportedIsExact` under `Retention >= Day`, for any events, capacity, clocks and replays. The
  default retention is the longest window, 24 hours; with a shorter one the statement is false, since the day window would
  look for events that are gone. The strengthening is `EventsInvariant`: what is held is the last arrival of its event
  (`HeldIsLast`), with the ordering that the arrivals before it give it; whatever arrived is held, was crowded out by `MaxEvents`
  later ones or is behind the retention (`NothingElseIsGone`); the watermark is the latest time that arrived
  (`WatermarkIsHighest`); and the
  last result is of an event that is held, if it is recent (`ResultIsHeld`). The features are then functions of one
  look-back, which the store and the whole history agree on, so that no feature has to be evaluated.
* `ScenariosAlwaysShow`: `EventsSpec => []ScenariosShowTheirPattern` under `MaxEvents >= 7`, for any tokens drawn, retention and instant. The
  hypothesis lets the store hold the longest stream (`DEFAULT_MAX_EVENTS` is 100 000); the run has the capacity 6, where the oldest event of
  that stream is pushed out and the pattern shows all the same. The strengthening is `ReplayInvariant`: the arrivals are the first events of the
  stream that was generated, the feed is the rest, and all of them are held (`Follows`), or the repeated event came last
  (`Repeated`). At the end of a stream the signals are evaluated on its events (`BurstShows`, `StormShows`, `UnusualShows`, ...), from what each
  generator holds fixed (`BurstIs`, `StormIs`, `UnusualIs`, ...); the sum that the amount baseline takes by a fold is that of its
  three amounts (`TotalOfThree`).

`ArtifactProofs` has eleven theorems about six modules. Four are about files that are written and read over time:

* `PublishedStays` and `LoadedIsWhole`: `PublicationSpec => []ReturnedStays` and `=> []ServedIsWhole`, for any number of publishers
  and loaders and any contents. `PublicationInvariant`: a name is held by who still has something to do with it, and is
  synced for good once its publisher has returned (`NamesHeld`); a tree that was written is whole and on disk until its own
  publisher discards it, and only loadable ones are placed (`TreesWhole`); a loader has read undamaged parts of the one bundle
  whose manifest it accepted, although the name may have changed hands (`LoadersInOrder`).
* `FinalScoresAreHeldOutTheorem`: `LaneSpec => []FinalScoresAreHeldOut`, for all partitions and protocols (assumption `AbsenceAssumption`:
  the mark of a missing object is no score). A report is of objects made from the partitions that its files came from (`sources`, a
  history that no file records), whatever has been overwritten since (`ReportIsTruthful`); what was pinned belongs together and precedes any authorization (`PinsBelongTogether`);
  a final evaluation that started holds what was pinned (`FinalFollowsPins`).
* `TestRowsStayUnseen`: `QuarantineSpec => []NoModelSawTestRows`, for all frames and splits (assumption `TrainingAssumption`: a frame
  is a finite sequence). `SeenInOrder` is the core: what a derivation has seen of the files is what they hold now or, after one
  replacement, what they held before it, followed by what they hold; so that equal digests before and after mean one
  content. `AnchorsTellTheTruth` and `TrainersHoldTheirAnchor` carry that to the training run, which reads everything again.

The other seven are about what is computed from an input, for every input. The state is the input, so the invariant only says
that it is one of the constants' (`ExamShape`, `SampleShape`, `BoardShape`, `LessonShape`), and the work is in the lemmas.

* `PartitionsAreAccepted`: `SelectionSpec => []PartitionIsAccepted`, for any numbers of rows per timestamp (assumption `SelectionAssumption`: no
  timestamp without rows). The partitioner chooses one cut after the other, each as near to its target as the room for the later roles
  allows; the verifier counts rows and timestamps again. `BestCutHasRoom` and `CutsInOrder` show that the search never runs out of room and
  leaves increasing cuts, `RoleIsBetween` that a timestamp has the role between whose cuts it lies, and
  `SumBetween` that the rows counted per role are the differences of the cumulated counts.
* `CapacityAndThresholdAlwaysAgree`: `SelectionSpec => []CapacityAndThresholdAgree`, for any sample, scores tied or not, any budgets and
  capacities. The budget table counts the rows of the lowest ranks, the choice of a threshold the rows at or above a score. Ranks number the
  rows (`RanksNumberRows`), so a budget is spent exactly (`BudgetIsSpent`), and the volume of a threshold is a budget for which
  both mark the same rows (`ThresholdsMarkBudgets`); a larger budget keeps a recall that was reached (`RecallGrows`). That the
  choice is the best needs that the preference between thresholds is a total order (`PreferenceIsTotal`, `PreferenceChains`).
* `RolesAlwaysFollowInTime`: `LessonSpec => []RolesFollowInTime`, for any frame (assumption `LessonAssumption`: times are not
  negative, which the code refuses). Of what is not refused, curated rows share out among the four roles, and all rows of a role
  are older than those of the next. `BlocksAscend` is about equal blocks of distinct times, the first ones one longer: none is empty, and a
  later time is never in an earlier block; `SubframeRows` and `SubframeHoldsRows` say that a subframe has exactly the rows of its places.
* `FoldsAlwaysLookBack`: `LessonSpec => []FoldsNeverLookAhead`, for any times and gap, from `BlocksAscend` for three blocks.
* `SelectionsAlwaysSound`: `SelectionSpec => []SelectionsAreSound`, also for any boards of models (assumption `BoardAssumption`: a board has
  average precisions or none, and at least one). What the freeze takes is chosen in one place and ranked, compared or reported in others
  by rules of their own: two calibration errors over bins of one sample agree (`CalibrationsAgree`), the champion is the first row of a
  table that was sorted by rounded values (`TableFacts`, `ChampionIsFirst`) and is beaten by less than a unit of the rounding
  (`WinnersAlwaysStand`), the uncapped choice of a threshold is as good as the best one (`AsGoodAsBest`), and the three targets and the best F1 of
  the tuning table are those of the thresholds (`RecallTargetIsBest`, `PrecisionTargetReturns`, `FalsePositiveTargetMarks`, `BestF1IsEfficient`).
* `ProducedDataStaysSound`: `LessonSpec => []ProducedDataIsSound`, for any frames, comparisons of calibrators, splits and gaps
  (assumption `NullAssumption`: the missing object is none of the ones that are declared). It adds to the two above that the roles hold
  every curated row once (`RolesShareOut`), that the calibrator that is chosen is the best ahead of its margin (`CalibrationPays`), that the pool of the
  historical reference holds each row outside the quarantine once and its counts add up (`PoolHoldsEachRowOnce`, `CountsAddUp`), and that the
  validators of `BundleContract` take what each producer declares (`DevelopmentIsValid`, `ReferenceIsValid`), whose checks of ascending roles and of fitted rows
  are written independently of the code that makes them.
* `FeaturesStayFaithful`: `FeaturesSpec => []FeaturesAreFaithful`, for any source rows (assumption `SourceAssumption`: a row has a role and a cell of
  a known kind in each column). The column lists, computed by three modules from one snapshot, agree (`ContractsDoAgree`, from `CoreIsListed`,
  `ExtrasAreListed`, `SupersetHolds`); two cells are equal exactly if what they stand for is (`FeaturesSayTheSame`, with `NumbersAreKept`,
  `TextsAreKept`, `PresenceIsApart`); and the matrix that is written for a role and read back is the frame that the final runner builds in memory
  (`FileReadsAsFrame`, `FramesOfRole`, `SubframesSharePlaces`), where nothing in it is read differently than it was written.

`EvidenceProofs` has five theorems about two modules.

* `JudgedRowsAreUnseen` and `PublishedEvidenceIsNamed`: `StagesSpec => []JudgedOnUnseenRows` and `StagesSpec => EvidenceIsNamed`, for
  any invocations, targets, files, data and interference. All published splits of a dataset come from one splitter with one seed, and the
  models and rows in evidence that is `traced` come from published splits (`SplitsAreSeeded`), therefore a model and the
  rows it is judged on, although they reach a stage through different directories, are of one split. What an
  invocation has read is still in its file unless the file was replaced, so that inputs hashed after the run are those that were
  read (`InputsStay`); `steady` is the history of that.
* `MadeIsReleased`: `HarnessSpec => []OwnedIsReleased`, for any matrix and workload (assumption `HarnessAssumption`). `KnowsWhatItMade`
  says at each step of the run what may exist of its own and that the harness knows of it, unless docker disobeyed.
* `FiledEvidenceIsKept`: `HarnessSpec => EvidenceIsKept`. `FilesInOrder` says where the run stands and how many repeats each file then has:
  both hold the first repeats of the matrix, the table at most one fewer (`FilesInStep`), as many as are over
  (`FilesFollowTrial`), and a result is the whole matrix and comes last (`ResultComesLast`). That prefixes grow then follows from
  lemmas about sequences (`FirstOnesAreAPrefix`, `FilesGrow`).
* `AcceptedIsExactlyOnce`: `HarnessSpec => []AcceptedMeansExactlyOnce`, for any mix of requests and any number of misbehaviours.
  `VerdictInvariant` follows a repeat while nothing has gone wrong: an answer that claims to be the original has the receipt of an
  event (`OriginalsHaveEvents`), so that answers judged consistent in groups give each identifier one event at least
  (`JudgedAnswersAreScored`); the growth procedure has one request under way and has met originals only (`GrowthInOrder`); and what
  was counted is still what there is, since nothing is in flight once a workload is judged (`MeasuredInOrder`). That as many
  events as identifiers then mean one each is `SumsOfOnes`, an induction over finite sets.

`FiniteSums` has the lemmas about sums. The provers take no operator parameters, so `SubsetInduction` states induction over the
subsets of a finite set for a set `T` of such subsets, from the library's fact that strict inclusion is well founded; `SumsExist`
shows by it that the recursion behind the community folds has a solution. A sum over a sequence is one over its places
(`FoldSeqSums`), so that the same lemmas serve bodies cut into messages. `NaturalInduction` does for sets of natural numbers what
`SubsetInduction` does for sets of subsets; the cumulated counts of a partition exist by it (`CumulatedExists`).

The type and strengthening invariants of the proofs (`TypeOK`, `StoreInvariant`, `LocalInvariant`, `PublicationInvariant`, ...) were
checked with TLC on the instances of section 3 before they were proved; they are not listed in the runs, since the theorems cover every
instance.

Only model-checked:

* the liveness properties (`EveryRequestEnds` of `ScaleStore` and of `LocalServing`, `LocksAreReleased`): fairness and ENABLED are out of the
  prover's reach;
* the properties of the violation runs, which the code does not have (section 6).

Every other property of the passing runs is stated by a theorem. Three of these have a hypothesis besides the assumptions on the constants:
`MaxEnds = 0` (`RegistryImplementsLedger`), `Retention >= Day` (`ReportsAreExact`) and `MaxEvents >= 7` (`ScenariosAlwaysShow`).

## 6. Disagreements between code and documentation

* `scale_stale` (`StaleIsTerminal`). `docs/ARCHITECTURE.md` line 136 promises "terminal stale/failed
  states". An owner that locked its row before expiry may wait for the chain head past it and still
  commit; meanwhile a poller reads the row as expired and answers 503. The key then has a decision.
* `scale_startup` (`RefusedOnlyIfBroken`). `PostgresAuditIntegrityError` means an invalid chain or linkage;
  `verify_audit_chain` raises it for an intact one when a completion commits between its reads of
  the head and of the events, so a process may fail to start while others serve.
* `final_partial` (`PartialNeverObserved`). The docstring of `final_lifecycle.py` (line 10) says that a
  partially written record can never be observed. `prepare` creates the record under its final
  name and writes it afterwards; a runner that looks in between reads an empty file. It is
  refused, so nothing unsafe follows, but a kill there leaves an unreadable record.
* `final_directories` (`AccessedOncePerFreeze`). The protocol (`docs/evidence/LANE_A_FINAL_EVALUATION_PROTOCOL.md`
  line 169) says that the evaluation runs exactly once for a freeze commit. The record lives in the
  directory the operator names, so the code keeps that per directory only.
* `event_lookback` (`WindowsFindTheirLookBack`). `store.py` line 41 says that the retention matches the longest window, so that
  windows always find the look-back they need. Eviction is relative to the clock, a window to the time of its event: an
  event recorded after its own time looks back to events that are gone. `ReportedIsExact` says what does hold.

Observations that no run checks:

* `evidence_directory.py` (docstring, lines 28-31) and D-026 of `DECISIONS.md` promise not to overwrite; the final `rename` silently
  replaces an empty directory made at the target after the last check.
* D-026 speaks of byte-identical evidence; `split_data.py` line 485 writes the time of generation.
* `calibration.py` line 166 says that identity wins ties; with a margin of zero another method with an equal Brier score can win.
* `reserve` of the SQLite prototype reads FAILED and claims with a separate `UPDATE` without a guard on the state (lines 154 and 181-184). Two
  handles may both claim one failed attempt, and each writes an event; `OneEventPerKey` and `SqliteImplementsLedger` except such keys. The
  docstring (lines 11-13) declares several processes unsupported.
* `durable_idempotency.py` line 34 calls UNRESOLVED terminal. A handle that is opened beside a running owner makes its row UNRESOLVED, and
  the owner's late `fail` without an event makes it FAILED, hence retryable (line 234).
* The materialisation of Lane A v2 (`lane_a_materialise_variant_superset.py` lines 173-199) and the report of its experiment
  (`lane_a_run_v2_experiment.py` lines 226-473) do not name the assignment of roles they used. If the partition is frozen anew between two commands,
  the committed `role_assignment_digest` (`lane_a_run_final_evaluation.py` lines 99-105) may be of another one than the reported run's, and nothing
  notices that a final row was trained on. `FinalScoresAreHeldOut` says that there is no other way.
* The reference stages accept any regular file (`run_reference_stage.py` lines 47-106; the defaults are not evidence), and hash it after it was
  read. A file replaced in between makes the manifest name what was not used: `EvidenceIsNamed` excepts it. Evidence whose inputs cannot be
  followed to files of day 3 may be judged on any rows: `JudgedOnUnseenRows` is about the rest. Features are matched with labels by
  the number of rows only, on days 4 to 6, so that files read around a replacement are not refused.
* The final runner verifies the model artifacts by digest and then reads them again by path.
* A withdrawal of a bundle that is interrupted leaves a partial directory under the name, which blocks later publications.
* The features of Lane A v2 are read back with the defaults of pandas: a categorical `NULL` or `n/a` becomes missing and an all-number
  categorical column becomes numbers, while the final runner builds its frame in memory; `FeaturesAreFaithful` excepts both.
* `model_comparison.py` picks the champion by values rounded to four decimals; `WinnersStand` says what that costs.
* The reading of the test files compares digests and sizes before and after only: a file that is replaced and put back during the
  read is not noticed; `NoModelSawTestRows` excepts that case.
* `/v2/predict` is counted under the route "unmatched"; the answer to an unexpected error bears no `X-Request-ID` header.
* The scale harness calls `record_failure` for `BenchmarkValidationError` only, although its docstring (lines 1436-1441) speaks of success and
  failure paths; a hanging `docker run` leaves container and volume behind; receipts are not compared with the audit table.

## 7. Plan

1. (done) `DecisionLedger`, `ScaleStore` and its proofs; `AuditLog`, `LocalServing`; `FinalLifecycle` and its proofs.
2. (done) `SqliteStore`, `OrderIntegrity`, `SchemaMigrations` and their proofs; `SyntheticSignals`, `EventStore`; `BundleContract`,
   `ArtifactPublication`, `DataRoles`, `TestQuarantine`; `LaneASelection`, `LaneAFeatures`, `LaneAPipeline`; `RequestIngress`;
   `ScaleHarness`, `ReferenceStages`.
3. (done) `LocalServingProofs`, `ArtifactProofs`, `EvidenceProofs`, `ComponentProofs`; the refinements of `ScaleStore` and `LocalServing`.
4. (done) Theorems for every safety property of the passing runs: `SelectionsAreSound`, `ProducedDataIsSound`, `FeaturesAreFaithful` and
   `ScenariosShowTheirPattern` were the last ones.
5. The connection pool as a counter in `ScaleStore`; crashes between the files of two Lane A commands that run at once.

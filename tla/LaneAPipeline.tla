--------------------------- MODULE LaneAPipeline ----------------------------
(***************************************************************************)
(* The Lane A scripts over one private directory, from the freeze of the   *)
(* partition to the final evaluation: which rows reach which file, which   *)
(* model and which score.  Each script is one run of a command; a run that *)
(* writes several files may die between two of them.  FinalLifecycle has   *)
(* the record of the final evaluation in detail; here it is a stage.       *)
(*                                                                         *)
(* A file of rows is the assignment it was made from, a fitted object is   *)
(* the rows it was fitted on, and a digest is the content it is of: the    *)
(* scripts are seeded.  An operator runs one command at a time.            *)
(***************************************************************************)
EXTENDS Naturals, FiniteSets

CONSTANTS
  Assignments,   \* the partitions that freezing may produce: [rows -> LaneRoles]
  MaxCommands,   \* bound on the commands an operator runs before the final one
  Absent         \* a file that does not exist

LaneRoles == {"training", "validation_threshold", "calibration_fit", "calibration_eval",
              "final_test"}

\* The choices of the experiment: models of v1, variants of v2.  SELECTED_VARIANT is "E".
Winners == [v1 |-> {"champion"}, v2 |-> {"A", "E"}]

ASSUME PipelineAssumption ==
  /\ \A a, b \in Assignments : DOMAIN a = DOMAIN b
  /\ MaxCommands \in Nat

\* What the scripts make of the rows: fitted objects and scores.
Rows == UNION {DOMAIN a : a \in Assignments}

Pipelines ==
  [choice : UNION {Winners[p] : p \in DOMAIN Winners}, trained : SUBSET Rows,
   selected : SUBSET Rows]

Calibrators == [pipeline : Pipelines, fitted : SUBSET Rows, compared : SUBSET Rows]

Loaded == [pipeline : Pipelines, calibrator : Calibrators]

FinalScores == [rows : SUBSET Rows, by : Loaded]

ASSUME AbsenceAssumption == Absent \notin FinalScores

VARIABLES
  protocol,    \* v1 or v2: their files have different names
  assignment,  \* lane_a_role_assignment.csv
  files,       \* the features and the labels of every role
  artifacts,   \* the pipeline files and the calibrator file
  report,      \* the report of the last experiment that ended
  pins,        \* the digests committed with the runner, once
  manifest,    \* the authorization manifest
  final,       \* the final evaluation
  commands     \* commands run

laneVars == <<protocol, assignment, files, artifacts, report, pins, manifest, final, commands>>

RowsOf(a, role) == {row \in DOMAIN a : a[row] = role}

LaneInit ==
  /\ protocol \in DOMAIN Winners
  /\ assignment = Absent
  /\ files = [role \in LaneRoles |-> [features |-> Absent, labels |-> Absent]]
  /\ artifacts = [pipelines |-> [c \in Winners[protocol] |-> Absent], calibrator |-> Absent]
  /\ report = Absent /\ pins = Absent /\ manifest = Absent
  /\ final = [stage |-> "idle", loaded |-> Absent, scores |-> Absent, labels |-> Absent]
  /\ commands = 0

Command ==
  /\ final.stage = "idle"
  /\ commands < MaxCommands
  /\ commands' = commands + 1

-----------------------------------------------------------------------------
(* Freezing and materialising *)

FreezePartition(a) ==
  /\ Command
  /\ assignment' = a
  /\ UNCHANGED <<protocol, files, artifacts, report, pins, manifest, final>>

\* assert_role_permitted, assert_labels_readable: the same four roles.
RolePermitted(role) == role \in LaneRoles \ {"final_test"}

\* The features are written, then the labels if they were asked for; a run that
\* dies in between, or was not asked, leaves the labels of an earlier run.
Materialise(role, labelled) ==
  /\ Command
  /\ assignment # Absent
  /\ RolePermitted(role)
  /\ files' = [files EXCEPT ![role] =
                 [features |-> assignment,
                  labels   |-> IF labelled THEN assignment ELSE @.labels]]
  /\ UNCHANGED <<protocol, assignment, artifacts, report, pins, manifest, final>>

\* lane_a_build_training_features.py: the file of v1, without its labels.
BuildTrainingFeatures ==
  /\ Command
  /\ protocol = "v1" /\ assignment # Absent
  /\ files' = [files EXCEPT !["training"].features = assignment]
  /\ UNCHANGED <<protocol, assignment, artifacts, report, pins, manifest, final>>

-----------------------------------------------------------------------------
(* The experiment *)

\* _load: an inner join that must not lose a row.
Loadable(role) ==
  /\ RolePermitted(role)
  /\ files[role].features # Absent /\ files[role].labels # Absent
  /\ RowsOf(files[role].features, role) \subseteq RowsOf(files[role].labels, role)

LoadedRows(role) == RowsOf(files[role].features, role)

Fitted(choice) ==
  [choice |-> choice, trained |-> LoadedRows("training"),
   selected |-> LoadedRows("validation_threshold")]

FittedCalibrator(choice) ==
  [pipeline |-> Fitted(choice), fitted |-> LoadedRows("calibration_fit"),
   compared |-> LoadedRows("calibration_eval")]

\* The model or variant that won, and whether a calibrator cleared its margin,
\* depend on scores.  The pipeline is dumped, then a calibrator if one was
\* selected, then the report: a run may stop after any of the three.  An
\* experiment whose control fails writes nothing.
Experiment(choice, calibrated, dumps) ==
  /\ Command
  /\ \A role \in {r \in LaneRoles : RolePermitted(r)} : Loadable(role)
  /\ artifacts' = [pipelines  |-> [artifacts.pipelines EXCEPT ![choice] = Fitted(choice)],
                   calibrator |-> IF calibrated /\ dumps >= 2 THEN FittedCalibrator(choice)
                                  ELSE artifacts.calibrator]
  /\ report' = IF dumps < 3 THEN report
               ELSE [pipeline   |-> Fitted(choice),
                     calibrator |-> IF calibrated THEN FittedCalibrator(choice) ELSE Absent,
                     sources    |-> {files[r].features : r \in LaneRoles} \ {Absent}]
  /\ UNCHANGED <<protocol, assignment, files, pins, manifest, final>>

-----------------------------------------------------------------------------
(* Authorization and the final evaluation *)

\* External: the digests of a reported v2 run are committed as constants of the
\* runner, with that of a partition.  Nothing says that the run used it: neither
\* the files of a role nor the report name the assignment they come from (sources
\* remembers it).
CommitFreeze(a) ==
  /\ Command
  /\ protocol = "v2" /\ pins = Absent /\ report # Absent
  /\ report.pipeline.choice = "E" /\ report.calibrator # Absent
  /\ pins' = [pipeline |-> report.pipeline, calibrator |-> report.calibrator,
              assignment |-> a, sources |-> report.sources]
  /\ UNCHANGED <<protocol, assignment, files, artifacts, report, manifest, final>>

\* path_metadata: the file is there, and is not opened; its metadata is recorded,
\* and nothing compares it later.
SourcesDescribed == assignment # Absent

\* _frozen_from_mt3e: a report without a calibrator has no digest to authorize.
HasDigests == report # Absent /\ report.calibrator # Absent

FrozenDigests == [pipeline |-> report.pipeline, calibrator |-> report.calibrator]

\* build: the artifacts must exist; the runner compares them.
BuildAuthorization ==
  /\ Command
  /\ pins # Absent /\ SourcesDescribed /\ HasDigests
  /\ artifacts.pipelines["E"] # Absent /\ artifacts.calibrator # Absent
  /\ manifest' = FrozenDigests
  /\ UNCHANGED <<protocol, assignment, files, artifacts, report, pins, final>>

\* Faulty: the files are taken by their names.
ArtifactsExist == artifacts.pipelines["E"] # Absent /\ artifacts.calibrator # Absent

\* verify_artifacts
ArtifactsArePinned ==
  /\ artifacts.pipelines["E"] = pins.pipeline
  /\ artifacts.calibrator = pins.calibrator

\* load_and_verify_manifest: the file whose digest the operator passes.
ManifestPresent == manifest # Absent

\* verify_frozen_digests: the manifest says what the runner has as constants.
ManifestIsPinned ==
  manifest.pipeline = pins.pipeline /\ manifest.calibrator = pins.calibrator

\* verify_source_metadata: it is still there, and not opened either.
SourcesPresent == assignment # Absent

\* The gates before STARTED, and the loading of what they verified.
StartFinal ==
  /\ final.stage = "idle"
  /\ ManifestPresent
  /\ ManifestIsPinned
  /\ SourcesPresent
  /\ ArtifactsArePinned
  /\ final' = [final EXCEPT !.stage = "started",
                 !.loaded = [pipeline |-> artifacts.pipelines["E"],
                             calibrator |-> artifacts.calibrator]]
  /\ UNCHANGED <<protocol, assignment, files, artifacts, report, pins, manifest, commands>>

\* _read_final_ids: the assignment is read, and must be the frozen one.
AssignmentIsPinned == assignment = pins.assignment

FinalIds == RowsOf(assignment, "final_test")

\* build_features, the four private files and their seal.
SealScores ==
  /\ final.stage = "started"
  /\ AssignmentIsPinned
  /\ FinalIds # {}
  /\ final' = [final EXCEPT !.stage = "scored",
                 !.scores = [rows |-> FinalIds, by |-> final.loaded]]
  /\ UNCHANGED <<protocol, assignment, files, artifacts, report, pins, manifest, commands>>

OpenLabels ==
  /\ final.stage = "scored"
  /\ final' = [final EXCEPT !.stage = "sealed", !.labels = final.scores.rows]
  /\ UNCHANGED <<protocol, assignment, files, artifacts, report, pins, manifest, commands>>

\* Any error after STARTED.
FailFinal ==
  /\ final.stage \in {"started", "scored"}
  /\ final' = [final EXCEPT !.stage = "failed"]
  /\ UNCHANGED <<protocol, assignment, files, artifacts, report, pins, manifest, commands>>

-----------------------------------------------------------------------------
LaneNext ==
  \/ \E a \in Assignments : FreezePartition(a)
  \/ \E role \in LaneRoles, labelled \in BOOLEAN : Materialise(role, labelled)
  \/ BuildTrainingFeatures
  \/ \E choice \in Winners[protocol], calibrated \in BOOLEAN, dumps \in 1..3 :
       Experiment(choice, calibrated, dumps)
  \/ \E a \in Assignments : CommitFreeze(a)
  \/ BuildAuthorization
  \/ StartFinal
  \/ SealScores
  \/ OpenLabels
  \/ FailFinal

LaneSpec == LaneInit /\ [][LaneNext]_laneVars

\* The operator has no command left, or the one final evaluation has ended.
LaneOver == final.stage \in {"idle", "sealed", "failed"}

-----------------------------------------------------------------------------
\* Rows that made a pipeline or its calibrator.
RowsUsed(by) ==
  by.pipeline.trained \cup by.pipeline.selected
    \cup by.calibrator.fitted \cup by.calibrator.compared

\* Through files that are overwritten one at a time, labels of an earlier run,
\* a calibrator that an uncalibrated rerun leaves behind and an assignment file
\* that is frozen anew: the scores that the final evaluation seals are those of
\* the held-out rows, by a pipeline and the calibrator fitted on that pipeline.  A
\* step that made the two used one of those rows only if a file of the reported
\* run came from another partition than the committed one, which put the row
\* elsewhere.  No file of rows is of the final role, and its labels are opened
\* after the scores are sealed.
FinalScoresAreHeldOut ==
  /\ files["final_test"] = [features |-> Absent, labels |-> Absent]
  /\ final.labels # Absent => final.scores # Absent
  /\ final.scores # Absent =>
       LET by   == final.scores.by
           held == RowsOf(pins.assignment, "final_test")
       IN  /\ final.scores.rows = held
           /\ by.calibrator.pipeline = by.pipeline
           /\ \A row \in held \cap RowsUsed(by) :
                \E a \in pins.sources \ {pins.assignment} : a[row] # "final_test"

(* Why it holds: what is true between any two commands.  The conjunction is *)
(* inductive (ArtifactProofs).                                              *)

Maybe(S) == S \cup {Absent}

\* No file of rows is of the final role.
LaneShape ==
  /\ protocol \in DOMAIN Winners
  /\ assignment \in Maybe(Assignments)
  /\ files \in [LaneRoles -> [features : Maybe(Assignments), labels : Maybe(Assignments)]]
  /\ files["final_test"] = [features |-> Absent, labels |-> Absent]
  /\ report # Absent =>
       report \in [pipeline : Pipelines, calibrator : Maybe(Calibrators),
                  sources : SUBSET Assignments]
  /\ pins # Absent => pins \in [pipeline : Pipelines, calibrator : Calibrators,
                                assignment : Assignments, sources : SUBSET Assignments]
  /\ final = [stage |-> final.stage, loaded |-> final.loaded, scores |-> final.scores,
              labels |-> final.labels]

\* The rows behind a pipeline and behind its calibrator, in terms of partitions.
PipelineMadeFrom(pipeline, sources) ==
  /\ \E a \in sources : pipeline.trained = RowsOf(a, "training")
  /\ \E a \in sources : pipeline.selected = RowsOf(a, "validation_threshold")

CalibratorMadeFrom(calibrator, pipeline, sources) ==
  /\ calibrator.pipeline = pipeline
  /\ \E a \in sources : calibrator.fitted = RowsOf(a, "calibration_fit")
  /\ \E a \in sources : calibrator.compared = RowsOf(a, "calibration_eval")

\* A report is of objects made from its sources, whatever has happened to the
\* files since.
ReportIsTruthful ==
  report # Absent =>
    /\ PipelineMadeFrom(report.pipeline, report.sources)
    /\ report.calibrator # Absent =>
         CalibratorMadeFrom(report.calibrator, report.pipeline, report.sources)

\* What was committed belongs together, and comes before any authorization.
PinsBelongTogether ==
  /\ pins # Absent =>
       /\ PipelineMadeFrom(pins.pipeline, pins.sources)
       /\ CalibratorMadeFrom(pins.calibrator, pins.pipeline, pins.sources)
  /\ manifest # Absent => pins # Absent

\* A final evaluation that started loaded what was committed, scored the held-out
\* rows of the partition that was, and opened labels last.
FinalFollowsPins ==
  /\ final.stage # "idle" =>
       /\ pins # Absent
       /\ final.loaded = [pipeline |-> pins.pipeline, calibrator |-> pins.calibrator]
  /\ final.stage = "scored" => final.scores # Absent
  /\ final.labels # Absent => final.scores # Absent
  /\ final.scores # Absent =>
       /\ final.stage # "idle"
       /\ final.scores = [rows |-> RowsOf(pins.assignment, "final_test"), by |-> final.loaded]

LaneInvariant ==
  /\ LaneShape
  /\ ReportIsTruthful
  /\ PinsBelongTogether
  /\ FinalFollowsPins

=============================================================================

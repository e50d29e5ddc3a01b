--------------------------- MODULE ReferenceStages --------------------------
(***************************************************************************)
(* The manifested reference stages, days 2 to 7: several invocations of    *)
(* run_reference_stage.py, each of which reads its input files one by one, *)
(* works in a temporary sibling directory and publishes it by a rename.    *)
(* Inputs are in the evidence of earlier stages or elsewhere, as by        *)
(* default, where others replace any of them at any time.                  *)
(*                                                                         *)
(* A digest is the content it is taken of.  A processed file is known by   *)
(* the rows of the dataset that are in it, models and metrics by the files *)
(* they were fitted on and measured on.  What the stages compute is not    *)
(* modelled, nor the text of reports and figures.                          *)
(***************************************************************************)
EXTENDS Integers, Sequences, FiniteSets

CONSTANTS
  Stages,       \* the stages that are run: days 2 to 7
  RowsOf,       \* the rows of each dataset: sequences of [features, fraud]
  Draws,        \* what the splitter may draw: the part of each row number;
                \* the first is what the fixed seed draws
  Invocations,  \* the invocations under way at one time
  Targets,      \* names of evidence directories
  Elsewhere,    \* names of other directories, among them the default ones
  Trusted,      \* places below <repository>/artifacts, where models may be loaded
  Strays,       \* directories as others may leave them: what each file holds
  MaxMeddling   \* bound: what others do to those files and to the targets

ASSUME ReferenceAssumption ==
  /\ Stages \subseteq {"day2", "day3", "day4", "day5", "day6", "day7"}
  /\ Elsewhere \cap Targets = {}
  /\ MaxMeddling \in Nat

VARIABLES
  elsewhere, \* the input files in each of the other directories
  tree,      \* what is at each target
  job,       \* the invocations
  meddling   \* how often somebody else has interfered

stageVars == <<elsewhere, tree, job, meddling>>

Parts == {"train", "validation", "test"}

Baselines == {"dummy_baseline", "logistic_regression", "random_forest"}

-----------------------------------------------------------------------------
(* Transactions and splits *)

Rows(data) == DOMAIN RowsOf[data]

\* Rows are told apart by their features alone.
Features(data, rows) == {RowsOf[data][i].features : i \in rows}

BothClasses(data, rows) == {RowsOf[data][i].fraud : i \in rows} = {TRUE, FALSE}

WithoutDuplicates(data) == Cardinality(Features(data, Rows(data))) = Cardinality(Rows(data))

\* The raw file is refused when two transactions have the same features.
Loads(data) == WithoutDuplicates(data)

Splittable(data) == BothClasses(data, Rows(data)) /\ WithoutDuplicates(data)

\* separate_features_target: the columns are there, and validated as for a split.
Separable(data) == Splittable(data)

Part(split, part) == {i \in Rows(split.of) : Draws[split.draw][i] = part}

\* Both stages of the split are stratified, and each part needs both classes.
Stratified(split) == \A part \in Parts : BothClasses(split.of, Part(split, part))

DisjointRows(split) ==
  \A left, right \in Parts : left # right =>
    Features(split.of, Part(split, left)) \cap Features(split.of, Part(split, right)) = {}

\* get_class_distribution refuses an empty part.
HasClasses(split, part) == Part(split, part) # {}

\* get_split_summary compares the parts once more before they are saved.
Summarised(split) ==
  (\A part \in Parts : HasClasses(split, part)) /\ DisjointRows(split)

\* Faulty: the splitter is not given the seed.
UnseededSplits(data) ==
  {split \in [of : {data}, draw : DOMAIN Draws] :
     Splittable(data) /\ Stratified(split) /\ DisjointRows(split)}

\* The draw is the same whenever a dataset is split: the seed is fixed.
Splits(data) ==
  {split \in [of : {data}, draw : {1}] :
     Splittable(data) /\ Stratified(split) /\ DisjointRows(split)}

-----------------------------------------------------------------------------
(* Files *)

ProcessedFiles == {"x_train", "y_train", "x_validation", "y_validation"}

FileNames == ProcessedFiles \cup {"dataset", "metrics", "model"}

\* The rows that day 3 writes to a file, with their numbers as its index.
FileOf(split, file) ==
  LET part == IF file \in {"x_train", "y_train"} THEN "train" ELSE "validation" IN
  [of |-> split.of, rows |-> Part(split, part)]

\* What models are fitted on and judged on: features and labels, file by file.
TrainingOf(files) == [x |-> files.x_train, y |-> files.y_train]

ValidationOf(files) == [x |-> files.x_validation, y |-> files.y_validation]

\* Features and labels are matched by their number only.
Matched(pair) == Cardinality(pair.x.rows) = Cardinality(pair.y.rows)

Loadable(pair) == Matched(pair) /\ BothClasses(pair.y.of, pair.y.rows)

\* Training needs both classes, and so does what is judged on.
LoadsTraining(files) == Loadable(TrainingOf(files)) /\ Loadable(ValidationOf(files))

Judges(files) == Loadable(ValidationOf(files))

\* The rows that are explained need not have both classes, but are matched by
\* their index.
Explains(files) == files.x_validation.rows = files.y_validation.rows

-----------------------------------------------------------------------------
(* What a stage makes of its inputs: none if it must raise *)

NoSplit == [kind |-> "none"]

Content(split, models, rows) == [split |-> split, models |-> models, rows |-> rows]

Model(name, files) == [name |-> name, fitted |-> TrainingOf(files)]

\* A row of metrics: the model, the files it was measured on, and the file whose
\* number of rows is written beside the metrics.
Measured(model, judged, labelled) ==
  [model |-> model, judged |-> judged, labelled |-> labelled]

MeasuredHere(model, files) == Measured(model, ValidationOf(files), files.y_validation)

TrainBaselines(files) == {Model(name, files) : name \in Baselines}

TrainXgboost(files) == Model("xgboost_baseline", files)

\* The metrics of day 4 are taken over as they are; the number of rows beside
\* them is that of the files in hand.
ComparisonRows(metrics, xgboost, files) ==
  {Measured(row.model, row.judged, files.y_validation) :
     row \in {old \in metrics : old.model.name \in Baselines}}
    \cup {MeasuredHere(xgboost, files)}

DayTwo(data) == IF Loads(data) THEN {Content(NoSplit, {}, {})} ELSE {}

DayThree(data) ==
  IF Loads(data) /\ Separable(data)
  THEN {Content(split, {}, {}) : split \in {s \in Splits(data) : Summarised(s)}}
  ELSE {}

DayFour(files) ==
  LET models == TrainBaselines(files) IN
  IF LoadsTraining(files)
  THEN {Content(NoSplit, models, {MeasuredHere(m, files) : m \in models})}
  ELSE {}

DayFive(files) ==
  LET xgboost == TrainXgboost(files) IN
  IF LoadsTraining(files)
  THEN {Content(NoSplit, {xgboost}, ComparisonRows(files.metrics, xgboost, files))}
  ELSE {}

DaySix(files) ==
  IF Judges(files) THEN {Content(NoSplit, {}, {MeasuredHere(files.model, files)})} ELSE {}

DaySeven(files) ==
  IF Explains(files) THEN {Content(NoSplit, {}, {MeasuredHere(files.model, files)})} ELSE {}

Results(stage, files) ==
  CASE stage = "day2" -> DayTwo(files.dataset)
    [] stage = "day3" -> DayThree(files.dataset)
    [] stage = "day4" -> DayFour(files)
    [] stage = "day5" -> DayFive(files)
    [] stage = "day6" -> DaySix(files)
    [] stage = "day7" -> DaySeven(files)

-----------------------------------------------------------------------------
(* Inputs *)

IsEvidence(t) == tree[t].kind = "evidence"

IsSplit(t) == IsEvidence(t) /\ tree[t].stage = "day3"

\* Any regular file will do.  Elsewhere there always is one: a stage that does
\* not find its file raises, as it may at any time.
HasFile(place, file) ==
  \/ place \in Elsewhere
  \/ place \in Targets /\ IsSplit(place) /\ file \in ProcessedFiles
  \/ place \in Targets /\ IsEvidence(place) /\ tree[place].stage = "day4" /\ file = "metrics"
  \/ place \in Targets /\ IsEvidence(place) /\ tree[place].content.models # {} /\ file = "model"

\* Of several models the operator names one.
NamedModel(models) == CHOOSE m \in models : TRUE

\* What a file holds at present.
Holds(place, file) ==
  CASE place \in Elsewhere      -> elsewhere[place][file]
    [] file \in ProcessedFiles  -> FileOf(tree[place].content.split, file)
    [] file = "metrics"         -> tree[place].content.rows
    [] file = "model"           -> NamedModel(tree[place].content.models)

\* The input files of a stage, in the order in which it reads them.
InputOrder(stage) ==
  LET training == <<"x_train", "x_validation", "y_train", "y_validation">> IN
  CASE stage \in {"day2", "day3"} -> <<"dataset">>
    [] stage = "day4"             -> training
    [] stage = "day5"             -> training \o <<"metrics">>
    [] stage \in {"day6", "day7"} -> <<"model", "x_validation", "y_validation">>

InputFiles(stage) ==
  CASE stage \in {"day2", "day3"} -> {"dataset"}
    [] stage = "day4"             -> ProcessedFiles
    [] stage = "day5"             -> ProcessedFiles \cup {"metrics"}
    [] stage \in {"day6", "day7"} -> {"model", "x_validation", "y_validation"}

\* The arguments name a directory of processed files, a model, metrics, a dataset.
ArgumentOf(file) == IF file \in ProcessedFiles THEN "processed" ELSE file

Places(stage) ==
  {[file \in InputFiles(stage) |-> given[ArgumentOf(file)]] :
     given \in [{ArgumentOf(f) : f \in InputFiles(stage)} -> Targets \cup Elsewhere]}

\* They must be there.
Resolves(places) == \A file \in DOMAIN places : HasFile(places[file], file)

\* What the files so named hold at present.
Inputs(places) == [file \in DOMAIN places |-> Holds(places[file], file)]

\* Whether an input is a file of published evidence, as its digest tells: the
\* processed files are those of one split, the models and the metrics of evidence
\* of which this is true in turn.
Traced(files) ==
  /\ DOMAIN files \cap ProcessedFiles # {} =>
       \E t \in Targets :
         /\ IsSplit(t)
         /\ \A f \in DOMAIN files \cap ProcessedFiles :
              files[f] = FileOf(tree[t].content.split, f)
  /\ "metrics" \in DOMAIN files =>
       \E t \in Targets :
         IsEvidence(t) /\ tree[t].traced /\ files.metrics = tree[t].content.rows
  /\ "model" \in DOMAIN files =>
       \E t \in Targets :
         IsEvidence(t) /\ tree[t].traced /\ files.model \in tree[t].content.models

-----------------------------------------------------------------------------
(* The directory of an invocation: evidence_directory.py *)

NoJob == [at |-> "idle"]

NothingRead == [file \in {} |-> NoSplit]

\* require_absent_evidence_target
Free(t) == tree[t].kind = "absent"

\* A failure removes the temporary tree, a kill leaves it under a name that
\* nobody reads.
StageFails(j) ==
  /\ job[j].at # "idle"
  /\ job' = [job EXCEPT ![j] = NoJob]
  /\ UNCHANGED <<elsewhere, tree, meddling>>

\* Two checks of the target, and mkdtemp beside it.  The invocation remembers
\* what it has read and, as a history variable would, whether a file has been
\* replaced since it was read.
Launch(j) ==
  /\ job[j].at = "idle"
  /\ \E stage \in Stages, t \in Targets :
       /\ Free(t)
       /\ \E places \in Places(stage) :
            /\ Resolves(places)
            /\ job' = [job EXCEPT ![j] = [at |-> "run", stage |-> stage, target |-> t,
                                          places |-> places, steady |-> TRUE,
                                          read |-> NothingRead]]
  /\ UNCHANGED <<elsewhere, tree, meddling>>

\* A model is deserialised from below the trusted root only.
LoadsChampion(places) == "model" \in DOMAIN places => places.model \in Trusted

\* The files are read one by one.
IsNext(file, stage, read) ==
  \E i \in DOMAIN InputOrder(stage) :
    /\ file = InputOrder(stage)[i] /\ file \notin DOMAIN read
    /\ \A k \in 1..(i - 1) : InputOrder(stage)[k] \in DOMAIN read

WithFile(read, places, file) ==
  [f \in DOMAIN read \cup {file} |-> IF f = file THEN Holds(places[file], file) ELSE read[f]]

ReadInput(j) ==
  /\ job[j].at = "run"
  /\ LoadsChampion(job[j].places)
  /\ \E file \in DOMAIN job[j].places :
       /\ IsNext(file, job[j].stage, job[j].read)
       /\ job' = [job EXCEPT ![j].read = WithFile(@, job[j].places, file)]
  /\ UNCHANGED <<elsewhere, tree, meddling>>

DispatchStage(j) ==
  /\ job[j].at = "run"
  /\ DOMAIN job[j].read = DOMAIN job[j].places
  /\ \E content \in Results(job[j].stage, job[j].read) :
       job' = [job EXCEPT ![j] = [at      |-> "computed",
                                  stage   |-> @.stage,
                                  target  |-> @.target,
                                  places  |-> @.places,
                                  steady  |-> @.steady,
                                  read    |-> @.read,
                                  content |-> content]]
  /\ UNCHANGED <<elsewhere, tree, meddling>>

\* The inputs are hashed after the stage has read them; then the target is
\* looked at once more.  Whether the evidence is traced is what its manifest
\* shows, unless a file was replaced.
CloseManifest(j) ==
  /\ job[j].at = "computed"
  /\ Free(job[j].target)
  /\ job' = [job EXCEPT ![j] = [at       |-> "rename",
                                target   |-> @.target,
                                evidence |-> [kind    |-> "evidence",
                                              stage   |-> @.stage,
                                              content |-> @.content,
                                              inputs  |-> Inputs(@.places),
                                              steady  |-> @.steady,
                                              traced  |-> @.steady /\ Traced(Inputs(@.places))]]]
  /\ UNCHANGED <<elsewhere, tree, meddling>>

\* Faulty: whatever is at the target makes way for the new directory.
PublishOver(j) ==
  /\ job[j].at = "rename"
  /\ tree' = [tree EXCEPT ![job[j].target] = job[j].evidence]
  /\ job' = [job EXCEPT ![j] = NoJob]
  /\ UNCHANGED <<elsewhere, meddling>>

\* rename(2) refuses a directory with entries and replaces an empty one.
Publish(j) ==
  /\ job[j].at = "rename"
  /\ tree[job[j].target].kind \in {"absent", "empty"}
  /\ tree' = [tree EXCEPT ![job[j].target] = job[j].evidence]
  /\ job' = [job EXCEPT ![j] = NoJob]
  /\ UNCHANGED <<elsewhere, meddling>>

-----------------------------------------------------------------------------
(* Others *)

\* What can be copied from the evidence.
Published(file) == {Holds(t, file) : t \in {u \in Targets : HasFile(u, file)}}

\* Somebody replaces a file elsewhere, perhaps with a copy of a published one and
\* perhaps while stages run: those that have read it are no longer steady.
ReplaceFile(place, file) ==
  /\ meddling < MaxMeddling
  /\ \E content \in ({stray[file] : stray \in Strays} \cup Published(file))
                      \ {elsewhere[place][file]} :
       elsewhere' = [elsewhere EXCEPT ![place][file] = content]
  /\ job' = [j \in Invocations |->
               IF /\ job[j].at \in {"run", "computed"}
                  /\ file \in DOMAIN job[j].read /\ job[j].places[file] = place
               THEN [job[j] EXCEPT !.steady = FALSE] ELSE job[j]]
  /\ meddling' = meddling + 1
  /\ UNCHANGED tree

MakeDirectory(t) ==
  /\ meddling < MaxMeddling
  /\ Free(t)
  /\ \E kind \in {"empty", "foreign"} : tree' = [tree EXCEPT ![t] = [kind |-> kind]]
  /\ meddling' = meddling + 1
  /\ UNCHANGED <<elsewhere, job>>

-----------------------------------------------------------------------------
StagesInit ==
  /\ elsewhere \in [Elsewhere -> Strays]
  /\ tree = [t \in Targets |-> [kind |-> "absent"]]
  /\ job = [j \in Invocations |-> NoJob]
  /\ meddling = 0

StagesNext ==
  \/ \E j \in Invocations :
       \/ Launch(j) \/ ReadInput(j) \/ DispatchStage(j) \/ CloseManifest(j) \/ Publish(j)
       \/ StageFails(j)
  \/ \E place \in Elsewhere, file \in FileNames : ReplaceFile(place, file)
  \/ \E t \in Targets : MakeDirectory(t)

StagesSpec == StagesInit /\ [][StagesNext]_stageVars

-----------------------------------------------------------------------------
(* Correctness *)

\* Published evidence, and what others have put at a target, is never changed;
\* what is published can be had again from the inputs its manifest names,
\* although these are hashed long after they were read and were read at
\* different times, unless one of them was replaced after it was read.
EvidenceIsNamed ==
  [][\A t \in Targets :
       /\ tree[t].kind \in {"evidence", "foreign"} => UNCHANGED tree[t]
       /\ tree'[t].kind = "evidence" /\ tree[t].kind # "evidence" /\ tree'[t].steady =>
            tree'[t].content \in Results(tree'[t].stage, tree'[t].inputs)]_stageVars

\* Nothing compares the lineages of what a stage is given.  But when the digests
\* of the manifests can be followed from evidence, over the models and metrics it
\* was made from, to files of day 3, of one split each but of any, and no file
\* was replaced after it was read, then features are matched with the labels of
\* the same rows, and as long as the splits are of the same dataset no model was
\* judged on a transaction it was fitted on, or that any published split keeps
\* for the final test, and metrics are of the rows written beside them.
JudgedOnUnseenRows ==
  \A t \in Targets : IsEvidence(t) /\ tree[t].traced =>
    \A row \in tree[t].content.rows :
      LET fitted == row.model.fitted
          judged == row.judged
          data   == judged.x.of
      IN
      /\ fitted.x = fitted.y /\ judged.x = judged.y
      /\ fitted.x.of = data =>
           Features(data, fitted.x.rows) \cap Features(data, judged.x.rows) = {}
      /\ \A u \in Targets : IsSplit(u) /\ tree[u].content.split.of = data =>
           LET kept == Features(data, Part(tree[u].content.split, "test")) IN
           /\ fitted.x.of = data => Features(data, fitted.x.rows) \cap kept = {}
           /\ Features(data, judged.x.rows) \cap kept = {}
      /\ row.labelled.of = data => row.labelled = judged.y

(* Why they hold: what is true between any two steps.  The conjunction is   *)
(* inductive (EvidenceProofs).                                              *)

JobShaped(x) ==
  /\ x.at \in {"idle", "run", "computed", "rename"}
  /\ x.at = "run" =>
       x = [at |-> "run", stage |-> x.stage, target |-> x.target, places |-> x.places,
            steady |-> x.steady, read |-> x.read]
  /\ x.at = "computed" =>
       x = [at |-> "computed", stage |-> x.stage, target |-> x.target, places |-> x.places,
            steady |-> x.steady, read |-> x.read, content |-> x.content]
  /\ x.at = "rename" => x.evidence.kind = "evidence"

StagesShape ==
  /\ DOMAIN elsewhere = Elsewhere
  /\ DOMAIN tree = Targets
  /\ DOMAIN job = Invocations
  /\ \A j \in Invocations : JobShaped(job[j])

\* Every split goes back to the one splitter with its one seed, and whatever is in
\* evidence that is traced goes back to published splits.
Seeded(split) == split \in Splits(split.of)

FromSplit(pair, file) ==
  \E t \in Targets :
    /\ IsSplit(t)
    /\ pair.x = FileOf(tree[t].content.split, file)
    /\ pair.y = FileOf(tree[t].content.split, file)

TracedModel(model) == FromSplit(model.fitted, "x_train")

TracedRow(row) ==
  /\ TracedModel(row.model)
  /\ FromSplit(row.judged, "x_validation")
  /\ FromSplit([x |-> row.labelled, y |-> row.labelled], "y_validation")

SeededEvidence(e) ==
  /\ e.stage = "day3" => Seeded(e.content.split)
  /\ e.traced => /\ \A model \in e.content.models : TracedModel(model)
                 /\ \A row \in e.content.rows : TracedRow(row)

JobSeeded(x) == x.at = "rename" => SeededEvidence(x.evidence)

SplitsAreSeeded ==
  /\ \A t \in Targets : IsEvidence(t) => SeededEvidence(tree[t])
  /\ \A j \in Invocations : JobSeeded(job[j])

\* What an invocation has read is what is still in the file, unless the file was
\* replaced; evidence that it was pointed at stays.
OfItsInputs(x) ==
  /\ x.at \in {"run", "computed"} =>
       /\ x.stage \in Stages /\ x.places \in Places(x.stage) /\ Resolves(x.places)
       /\ DOMAIN x.read \subseteq DOMAIN x.places
       /\ x.read = [f \in DOMAIN x.read |-> x.read[f]]
       /\ x.steady => \A f \in DOMAIN x.read : x.read[f] = Holds(x.places[f], f)
  /\ x.at = "computed" =>
       DOMAIN x.read = DOMAIN x.places /\ x.content \in Results(x.stage, x.read)
  /\ x.at = "rename" =>
       LET e == x.evidence IN e.steady => e.content \in Results(e.stage, e.inputs)

InputsStay == \A j \in Invocations : OfItsInputs(job[j])

StagesInvariant ==
  /\ StagesShape
  /\ SplitsAreSeeded
  /\ InputsStay

=============================================================================

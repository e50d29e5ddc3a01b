---------------------------- MODULE EvidenceProofs ----------------------------
(***************************************************************************)
(* What stays true of the evidence that the tools leave, for every value   *)
(* of the constants: the directories of the reference stages               *)
(* (ReferenceStages), and what the scale harness makes and files           *)
(* (ScaleHarness).                                                         *)
(***************************************************************************)
EXTENDS ReferenceStages, ScaleHarness, FiniteSums

-----------------------------------------------------------------------------
(* ReferenceStages: splits *)

\* One seed: a dataset has one split.
LEMMA OneSplitPerDataset ==
  ASSUME NEW left, NEW right, Seeded(left), Seeded(right), left.of = right.of
  PROVE  left = right
BY DEF Seeded, Splits

LEMMA SplitsAreOfTheirDataset ==
  ASSUME NEW data, NEW split \in Splits(data)
  PROVE  Seeded(split)
BY DEF Seeded, Splits

LEMMA SeededSplitsAreDisjoint ==
  ASSUME NEW split, Seeded(split)
  PROVE  DisjointRows(split)
BY DEF Seeded, Splits

\* What day 3 makes is the split of the dataset.
LEMMA DayThreeIsSeeded ==
  ASSUME NEW given, NEW content \in Results("day3", given)
  PROVE  Seeded(content.split)
<1>1. PICK split \in Splits(given.dataset) : content = Content(split, {}, {})
  BY DEF Results, DayThree
<1>2. content.split = split
  BY <1>1 DEF Content
<1> QED
  BY <1>2, SplitsAreOfTheirDataset

LEMMA DataStagesMakeNoModels ==
  ASSUME NEW stage \in {"day2", "day3"}, NEW given, NEW content \in Results(stage, given)
  PROVE  content.models = {} /\ content.rows = {}
<1>1. \E split : content = Content(split, {}, {})
  BY DEF Results, DayTwo, DayThree
<1> QED
  BY <1>1 DEF Content

LEMMA MeasuredHereIs ==
  ASSUME NEW model, NEW given
  PROVE  /\ MeasuredHere(model, given).model = model
         /\ MeasuredHere(model, given).judged = ValidationOf(given)
         /\ MeasuredHere(model, given).labelled = given.y_validation
BY DEF MeasuredHere, Measured

\* What stages make of traced files can be traced.
LEMMA TrainingIsTraced ==
  ASSUME NEW given, Traced(given), ProcessedFiles \subseteq DOMAIN given
  PROVE  /\ \A name : TracedModel(Model(name, given))
         /\ FromSplit(ValidationOf(given), "x_validation")
         /\ FromSplit([x |-> given.y_validation, y |-> given.y_validation], "y_validation")
<1>1. PICK t \in Targets : /\ IsSplit(t)
                           /\ \A f \in ProcessedFiles : given[f] = FileOf(tree[t].content.split, f)
  BY DEF Traced, ProcessedFiles
<1> DEFINE split == tree[t].content.split
<1>2. /\ FileOf(split, "y_train") = FileOf(split, "x_train")
      /\ FileOf(split, "y_validation") = FileOf(split, "x_validation")
  BY DEF FileOf
<1>3. /\ given.x_train = FileOf(split, "x_train") /\ given.y_train = FileOf(split, "x_train")
      /\ given.x_validation = FileOf(split, "x_validation")
      /\ given.y_validation = FileOf(split, "x_validation")
  BY <1>1, <1>2 DEF ProcessedFiles
<1> HIDE DEF split
<1>4. \A name : Model(name, given).fitted = [x |-> given.x_train, y |-> given.y_train]
  BY DEF Model, TrainingOf
<1> USE DEF split
<1> QED
  BY <1>1, <1>2, <1>3, <1>4 DEF TracedModel, FromSplit, ValidationOf

LEMMA ValidationIsTraced ==
  ASSUME NEW given, Traced(given), {"x_validation", "y_validation"} \subseteq DOMAIN given
  PROVE  /\ FromSplit(ValidationOf(given), "x_validation")
         /\ FromSplit([x |-> given.y_validation, y |-> given.y_validation], "y_validation")
<1>1. PICK t \in Targets :
        /\ IsSplit(t)
        /\ \A f \in DOMAIN given \cap ProcessedFiles : given[f] = FileOf(tree[t].content.split, f)
  BY DEF Traced, ProcessedFiles
<1>2. \A split : FileOf(split, "y_validation") = FileOf(split, "x_validation")
  BY DEF FileOf
<1>3. /\ given.x_validation = FileOf(tree[t].content.split, "x_validation")
      /\ given.y_validation = FileOf(tree[t].content.split, "y_validation")
  BY <1>1 DEF ProcessedFiles
<1> QED
  BY <1>1, <1>2, <1>3 DEF FromSplit, ValidationOf

\* Evidence of which the manifest shows so.
LEMMA EvidenceIsTraced ==
  ASSUME SplitsAreSeeded, NEW t \in Targets, IsEvidence(t), tree[t].traced
  PROVE  /\ \A model \in tree[t].content.models : TracedModel(model)
         /\ \A row \in tree[t].content.rows : TracedRow(row)
BY DEF SplitsAreSeeded, SeededEvidence

TracedContent(content) ==
  /\ \A model \in content.models : TracedModel(model)
  /\ \A row \in content.rows : TracedRow(row)

LEMMA ResultsAreTraced ==
  ASSUME SplitsAreSeeded, NEW stage \in {"day2", "day3", "day4", "day5", "day6", "day7"}, NEW given,
         DOMAIN given = InputFiles(stage), Traced(given),
         NEW content \in Results(stage, given)
  PROVE  TracedContent(content)
<1>1. CASE stage \in {"day2", "day3"}
  BY <1>1, DataStagesMakeNoModels DEF TracedContent
<1>2. CASE stage = "day4"
  <2> DEFINE models == TrainBaselines(given)
  <2>1. content = Content(NoSplit, models, {MeasuredHere(m, given) : m \in models})
    BY <1>2 DEF Results, DayFour
  <2>2. ProcessedFiles \subseteq DOMAIN given
    BY <1>2 DEF InputFiles
  <2>3. \A m \in models : TracedModel(m)
    BY <2>2, TrainingIsTraced DEF TrainBaselines
  <2> HIDE DEF models
  <2>4. content.models = models /\ content.rows = {MeasuredHere(m, given) : m \in models}
    BY <2>1 DEF Content
  <2>5. \A m \in models : TracedRow(MeasuredHere(m, given))
    BY <2>2, <2>3, TrainingIsTraced, MeasuredHereIs DEF TracedRow
  <2> QED
    BY <2>3, <2>4, <2>5 DEF TracedContent
<1>3. CASE stage = "day5"
  <2> DEFINE xgboost == TrainXgboost(given)
             old == {o \in given.metrics : o.model.name \in Baselines}
  <2>1. content = Content(NoSplit, {xgboost}, ComparisonRows(given.metrics, xgboost, given))
    BY <1>3 DEF Results, DayFive
  <2>2. ProcessedFiles \subseteq DOMAIN given /\ "metrics" \in DOMAIN given
    BY <1>3 DEF InputFiles
  <2>3. TracedModel(xgboost)
    BY <2>2, TrainingIsTraced DEF TrainXgboost
  <2> HIDE DEF xgboost
  <2>4. /\ content.models = {xgboost}
        /\ content.rows = {Measured(o.model, o.judged, given.y_validation) : o \in old}
                            \cup {MeasuredHere(xgboost, given)}
    BY <2>1 DEF Content, ComparisonRows
  <2>5. TracedRow(MeasuredHere(xgboost, given))
    BY <2>2, <2>3, TrainingIsTraced, MeasuredHereIs DEF TracedRow
  <2>6. PICK t \in Targets :
          IsEvidence(t) /\ tree[t].traced /\ given.metrics = tree[t].content.rows
    BY <2>2 DEF Traced
  <2>7. \A o \in old : TracedModel(o.model) /\ FromSplit(o.judged, "x_validation")
    BY <2>6, EvidenceIsTraced DEF TracedRow
  <2>8. \A o \in old :
          /\ Measured(o.model, o.judged, given.y_validation).model = o.model
          /\ Measured(o.model, o.judged, given.y_validation).judged = o.judged
          /\ Measured(o.model, o.judged, given.y_validation).labelled = given.y_validation
    BY DEF Measured
  <2>9. \A o \in old : TracedRow(Measured(o.model, o.judged, given.y_validation))
    BY <2>2, <2>7, <2>8, TrainingIsTraced DEF TracedRow
  <2> HIDE DEF old
  <2> QED
    BY <2>3, <2>4, <2>5, <2>9 DEF TracedContent
<1>4. CASE stage \in {"day6", "day7"}
  <2>1. content = Content(NoSplit, {}, {MeasuredHere(given.model, given)})
    BY <1>4 DEF Results, DaySix, DaySeven
  <2>2. content.models = {} /\ content.rows = {MeasuredHere(given.model, given)}
    BY <2>1 DEF Content
  <2>3. {"x_validation", "y_validation"} \subseteq DOMAIN given /\ "model" \in DOMAIN given
    BY <1>4 DEF InputFiles
  <2>4. TracedModel(given.model)
    BY <2>3, EvidenceIsTraced DEF Traced
  <2>5. TracedRow(MeasuredHere(given.model, given))
    BY <2>3, <2>4, ValidationIsTraced, MeasuredHereIs DEF TracedRow
  <2> QED
    BY <2>2, <2>5 DEF TracedContent
<1> QED
  BY <1>1, <1>2, <1>3, <1>4

-----------------------------------------------------------------------------
(* ReferenceStages: evidence and jobs *)

\* What is there stays: a rename replaces nothing but an empty directory.
LEMMA EvidenceStays ==
  ASSUME StagesInvariant, [StagesNext]_stageVars, NEW t \in Targets
  PROVE  tree[t].kind \in {"evidence", "foreign"} => tree'[t] = tree[t]
<1>1. DOMAIN tree = Targets
  BY DEF StagesInvariant, StagesShape
<1>2. CASE tree' = tree
  BY <1>2
<1>3. CASE \E j \in Invocations : Publish(j)
  BY <1>1, <1>3 DEF Publish
<1>4. CASE \E u \in Targets : MakeDirectory(u)
  BY <1>1, <1>4 DEF MakeDirectory, Free
<1> QED
  BY <1>2, <1>3, <1>4 DEF StagesNext, stageVars, Launch, ReadInput, DispatchStage, CloseManifest,
     StageFails, ReplaceFile

LEMMA SplitsStay ==
  ASSUME StagesInvariant, [StagesNext]_stageVars, NEW t \in Targets
  PROVE  /\ IsEvidence(t) => IsEvidence(t)' /\ tree'[t] = tree[t]
         /\ IsSplit(t) => IsSplit(t)' /\ tree'[t] = tree[t]
BY EvidenceStays DEF IsEvidence, IsSplit

LEMMA TracedStays ==
  ASSUME StagesInvariant, [StagesNext]_stageVars
  PROVE  /\ \A pair, file : FromSplit(pair, file) => FromSplit(pair, file)'
         /\ \A model : TracedModel(model) => TracedModel(model)'
         /\ \A row : TracedRow(row) => TracedRow(row)'
<1>1. \A pair, file : FromSplit(pair, file) => FromSplit(pair, file)'
  BY SplitsStay DEF FromSplit
<1>2. \A model : TracedModel(model) => TracedModel(model)'
  BY <1>1 DEF TracedModel
<1>3. \A row : TracedRow(row) => TracedRow(row)'
  BY <1>1, <1>2 DEF TracedRow
<1> QED
  BY <1>1, <1>2, <1>3

LEMMA SeededStays ==
  ASSUME StagesInvariant, [StagesNext]_stageVars, NEW e, SeededEvidence(e)
  PROVE  SeededEvidence(e)'
BY TracedStays DEF SeededEvidence

\* So does what can be read of evidence.
LEMMA WhatIsHeldStays ==
  ASSUME StagesInvariant, [StagesNext]_stageVars, NEW place, NEW file, HasFile(place, file)
  PROVE  /\ HasFile(place, file)'
         /\ place \notin Elsewhere => Holds(place, file)' = Holds(place, file)
<1>1. CASE place \in Elsewhere
  BY <1>1 DEF HasFile
<1>2. CASE place \notin Elsewhere
  <2>1. place \in Targets /\ IsEvidence(place)
    BY <1>2 DEF HasFile, IsSplit
  <2>2. tree'[place] = tree[place] /\ IsEvidence(place)'
    BY <2>1, SplitsStay
  <2>3. HasFile(place, file)'
    BY <1>2, <2>2 DEF HasFile, IsSplit, IsEvidence
  <2>4. Holds(place, file)' = Holds(place, file)
    <3>1. CASE file \in ProcessedFiles
      BY <1>2, <2>2, <3>1 DEF Holds
    <3>2. CASE file = "metrics"
      BY <1>2, <2>2, <3>2 DEF Holds, ProcessedFiles
    <3>3. CASE file = "model"
      BY <1>2, <2>2, <3>3 DEF Holds, ProcessedFiles
    <3> QED
      BY <1>2, <3>1, <3>2, <3>3 DEF HasFile
  <2> QED
    BY <2>3, <2>4
<1> QED
  BY <1>1, <1>2

LEMMA PlacesAre ==
  ASSUME NEW stage, NEW places \in Places(stage)
  PROVE  DOMAIN places = InputFiles(stage)
BY DEF Places

\* Whoever is pointed at files finds them, and what was read of them stays, unless
\* a file was replaced.
LEMMA ReadFilesStay ==
  ASSUME StagesInvariant, [StagesNext]_stageVars, NEW places, Resolves(places)
  PROVE  /\ Resolves(places)'
         /\ \A f \in DOMAIN places :
              places[f] \notin Elsewhere \/ elsewhere'[places[f]][f] = elsewhere[places[f]][f] =>
                Holds(places[f], f)' = Holds(places[f], f)
<1>1. ASSUME NEW f \in DOMAIN places
      PROVE  /\ HasFile(places[f], f)'
             /\ places[f] \notin Elsewhere \/ elsewhere'[places[f]][f] = elsewhere[places[f]][f] =>
                  Holds(places[f], f)' = Holds(places[f], f)
  <2>1. HasFile(places[f], f)
    BY DEF Resolves
  <2>2. /\ HasFile(places[f], f)'
        /\ places[f] \notin Elsewhere => Holds(places[f], f)' = Holds(places[f], f)
    BY <2>1, WhatIsHeldStays
  <2>3. ASSUME places[f] \in Elsewhere, elsewhere'[places[f]][f] = elsewhere[places[f]][f]
        PROVE  Holds(places[f], f)' = Holds(places[f], f)
    BY <2>3 DEF Holds
  <2> QED
    BY <2>2, <2>3
<1> QED
  BY <1>1 DEF Resolves

LEMMA StagesStart ==
  StagesInit => StagesInvariant
<1> SUFFICES ASSUME StagesInit
             PROVE  StagesInvariant
  OBVIOUS
<1>1. /\ DOMAIN elsewhere = Elsewhere
      /\ tree = [t \in Targets |-> [kind |-> "absent"]]
      /\ job = [j \in Invocations |-> NoJob]
  BY DEF StagesInit
<1>2. /\ \A t \in Targets : tree[t].kind = "absent"
      /\ \A j \in Invocations : job[j].at = "idle"
  BY <1>1 DEF NoJob
<1>3. StagesShape
  BY <1>1, <1>2 DEF StagesShape, JobShaped
<1>4. SplitsAreSeeded /\ InputsStay
  BY <1>2 DEF SplitsAreSeeded, InputsStay, JobSeeded, OfItsInputs, IsEvidence
<1> QED
  BY <1>3, <1>4 DEF StagesInvariant

\* An invocation whose files another step leaves alone stays in order.
LEMMA OthersStay ==
  ASSUME StagesInvariant, [StagesNext]_stageVars, NEW k \in Invocations, job'[k] = job[k],
         job[k].at \in {"run", "computed"} =>
           \A f \in DOMAIN job[k].read :
             \/ job[k].places[f] \notin Elsewhere
             \/ elsewhere'[job[k].places[f]][f] = elsewhere[job[k].places[f]][f]
  PROVE  JobShaped(job'[k]) /\ JobSeeded(job[k])' /\ OfItsInputs(job[k])'
<1> DEFINE x == job[k]
<1>1. JobShaped(x) /\ JobSeeded(x) /\ OfItsInputs(x)
  BY DEF StagesInvariant, StagesShape, SplitsAreSeeded, InputsStay
<1>2. JobSeeded(job[k])'
  BY <1>1, SeededStays DEF JobSeeded
<1>3. ASSUME x.at \in {"run", "computed"}
      PROVE  /\ Resolves(x.places)'
             /\ \A f \in DOMAIN x.read : Holds(x.places[f], f)' = Holds(x.places[f], f)
  <2>1. Resolves(x.places) /\ DOMAIN x.read \subseteq DOMAIN x.places
    BY <1>1, <1>3 DEF OfItsInputs
  <2>2. PICK places : places = x.places
    OBVIOUS
  <2>3. /\ Resolves(places)'
        /\ \A f \in DOMAIN places :
             places[f] \notin Elsewhere \/ elsewhere'[places[f]][f] = elsewhere[places[f]][f] =>
               Holds(places[f], f)' = Holds(places[f], f)
    BY <2>1, <2>2, ReadFilesStay
  <2> QED
    BY <1>3, <2>1, <2>2, <2>3
<1>4. OfItsInputs(job[k])'
  BY <1>1, <1>3 DEF OfItsInputs
<1> QED
  BY <1>1, <1>2, <1>4

\* What an invocation starts with.
LEMMA LaunchStays ==
  ASSUME StagesInvariant, NEW j \in Invocations, Launch(j)
  PROVE  JobShaped(job'[j]) /\ JobSeeded(job[j])' /\ OfItsInputs(job[j])'
<1>1. DOMAIN job = Invocations /\ StagesNext
  BY DEF StagesInvariant, StagesShape, StagesNext
<1>2. PICK stage \in Stages : \E t \in Targets, places \in Places(stage) :
        /\ Resolves(places)
        /\ job' = [job EXCEPT ![j] = [at |-> "run", stage |-> stage, target |-> t,
                                      places |-> places, steady |-> TRUE, read |-> NothingRead]]
  BY DEF Launch
<1>3. PICK t \in Targets, places \in Places(stage) :
        /\ Resolves(places)
        /\ job' = [job EXCEPT ![j] = [at |-> "run", stage |-> stage, target |-> t,
                                      places |-> places, steady |-> TRUE, read |-> NothingRead]]
  BY <1>2
<1>4. job'[j] = [at |-> "run", stage |-> stage, target |-> t, places |-> places,
                 steady |-> TRUE, read |-> NothingRead]
  BY <1>1, <1>3
<1>5. /\ job'[j].at = "run" /\ job'[j].stage = stage /\ job'[j].places = places
      /\ job'[j].target = t /\ job'[j].steady = TRUE /\ job'[j].read = NothingRead
  BY <1>4
<1>6. Resolves(places)'
  BY <1>1, <1>3, ReadFilesStay
<1>7. DOMAIN NothingRead = {} /\ NothingRead = [f \in DOMAIN NothingRead |-> NothingRead[f]]
  BY DEF NothingRead
<1>8. JobShaped(job'[j]) /\ JobSeeded(job[j])'
  BY <1>4, <1>5 DEF JobShaped, JobSeeded
<1>9. OfItsInputs(job[j])'
  BY <1>5, <1>6, <1>7 DEF OfItsInputs
<1> QED
  BY <1>8, <1>9

\* What it reads is what the file holds.
LEMMA ReadInputStays ==
  ASSUME StagesInvariant, NEW j \in Invocations, ReadInput(j)
  PROVE  JobShaped(job'[j]) /\ JobSeeded(job[j])' /\ OfItsInputs(job[j])'
<1> DEFINE x == job[j]
<1>1. /\ DOMAIN job = Invocations /\ StagesNext
      /\ JobShaped(x) /\ OfItsInputs(x) /\ x.at = "run"
      /\ elsewhere' = elsewhere
  BY DEF StagesInvariant, StagesShape, InputsStay, StagesNext, ReadInput
<1>2. PICK stage, places, old :
        /\ stage = x.stage /\ places = x.places /\ old = x.read
        /\ stage \in Stages /\ places \in Places(stage) /\ Resolves(places)
        /\ DOMAIN old \subseteq DOMAIN places
        /\ x.steady => \A f \in DOMAIN old : old[f] = Holds(places[f], f)
  BY <1>1 DEF OfItsInputs
<1>3. PICK file \in DOMAIN places :
        job' = [job EXCEPT ![j].read = WithFile(old, places, file)]
  BY <1>1, <1>2 DEF ReadInput
<1>4. PICK read : read = WithFile(old, places, file)
  OBVIOUS
<1>5. /\ DOMAIN read = DOMAIN old \cup {file}
      /\ read = [f \in DOMAIN read |-> read[f]]
      /\ x.steady => \A f \in DOMAIN read : read[f] = Holds(places[f], f)
  BY <1>2, <1>4 DEF WithFile
<1>6. job'[j] = [x EXCEPT !.read = read]
  BY <1>1, <1>3, <1>4
<1>7. job'[j] = [at |-> "run", stage |-> stage, target |-> x.target, places |-> places,
                 steady |-> x.steady, read |-> read]
  BY <1>1, <1>2, <1>6 DEF JobShaped
<1>8. /\ job'[j].at = "run" /\ job'[j].stage = stage /\ job'[j].places = places
      /\ job'[j].target = x.target /\ job'[j].steady = x.steady /\ job'[j].read = read
  BY <1>7
<1>9. Resolves(places)' /\ \A f \in DOMAIN places : Holds(places[f], f)' = Holds(places[f], f)
  BY <1>1, <1>2, ReadFilesStay
<1>10. JobShaped(job'[j]) /\ JobSeeded(job[j])'
  BY <1>7, <1>8 DEF JobShaped, JobSeeded
<1>11. OfItsInputs(job[j])'
  BY <1>2, <1>5, <1>8, <1>9 DEF OfItsInputs
<1> QED
  BY <1>10, <1>11

\* What it makes is made of what it read.
LEMMA DispatchStays ==
  ASSUME StagesInvariant, NEW j \in Invocations, DispatchStage(j)
  PROVE  JobShaped(job'[j]) /\ JobSeeded(job[j])' /\ OfItsInputs(job[j])'
<1> DEFINE x == job[j]
<1>1. /\ DOMAIN job = Invocations /\ StagesNext
      /\ JobShaped(x) /\ OfItsInputs(x) /\ x.at = "run"
      /\ elsewhere' = elsewhere /\ DOMAIN x.read = DOMAIN x.places
  BY DEF StagesInvariant, StagesShape, InputsStay, StagesNext, DispatchStage
<1>2. PICK stage, places, read :
        /\ stage = x.stage /\ places = x.places /\ read = x.read
        /\ stage \in Stages /\ places \in Places(stage) /\ Resolves(places)
        /\ read = [f \in DOMAIN read |-> read[f]]
        /\ x.steady => \A f \in DOMAIN read : read[f] = Holds(places[f], f)
  BY <1>1 DEF OfItsInputs
<1>3. PICK content \in Results(stage, read) :
        job' = [job EXCEPT ![j] = [at |-> "computed", stage |-> stage, target |-> x.target,
                                   places |-> places, steady |-> x.steady, read |-> read,
                                   content |-> content]]
  BY <1>1, <1>2 DEF DispatchStage
<1>4. job'[j] = [at |-> "computed", stage |-> stage, target |-> x.target, places |-> places,
                 steady |-> x.steady, read |-> read, content |-> content]
  BY <1>1, <1>3
<1>5. /\ job'[j].at = "computed" /\ job'[j].stage = stage /\ job'[j].places = places
      /\ job'[j].target = x.target /\ job'[j].steady = x.steady /\ job'[j].read = read
      /\ job'[j].content = content
  BY <1>4
<1>6. Resolves(places)' /\ \A f \in DOMAIN places : Holds(places[f], f)' = Holds(places[f], f)
  BY <1>1, <1>2, ReadFilesStay
<1>7. JobShaped(job'[j]) /\ JobSeeded(job[j])'
  BY <1>4, <1>5 DEF JobShaped, JobSeeded
<1>8. OfItsInputs(job[j])'
  BY <1>1, <1>2, <1>3, <1>5, <1>6 DEF OfItsInputs
<1> QED
  BY <1>7, <1>8

\* If no file was replaced, the inputs that are hashed are those that were read, and
\* whether they can be traced is true of what was made of them.
LEMMA ManifestStays ==
  ASSUME StagesInvariant, NEW j \in Invocations, CloseManifest(j)
  PROVE  JobShaped(job'[j]) /\ JobSeeded(job[j])' /\ OfItsInputs(job[j])'
<1> DEFINE x == job[j]
           inputs == Inputs(x.places)
           e == [kind |-> "evidence", stage |-> x.stage, content |-> x.content,
                 inputs |-> inputs, steady |-> x.steady,
                 traced |-> x.steady /\ Traced(inputs)]
<1>1. /\ DOMAIN job = Invocations /\ StagesNext
      /\ JobShaped(x) /\ OfItsInputs(x) /\ x.at = "computed" /\ SplitsAreSeeded
      /\ job' = [job EXCEPT ![j] = [at |-> "rename", target |-> x.target, evidence |-> e]]
  BY DEF StagesInvariant, StagesShape, InputsStay, StagesNext, CloseManifest
<1>2. PICK stage, places, read, content :
        /\ stage = x.stage /\ places = x.places /\ read = x.read /\ content = x.content
        /\ stage \in Stages /\ places \in Places(stage)
        /\ DOMAIN read = DOMAIN places
        /\ read = [f \in DOMAIN read |-> read[f]]
        /\ x.steady => \A f \in DOMAIN read : read[f] = Holds(places[f], f)
        /\ content \in Results(stage, read)
  BY <1>1 DEF OfItsInputs
<1>3. x.steady => Inputs(places) = read
  BY <1>2 DEF Inputs
<1>4. inputs = Inputs(places)
  BY <1>2
<1>5. /\ e.kind = "evidence" /\ e.stage = stage /\ e.content = content
      /\ e.inputs = inputs /\ e.steady = x.steady
      /\ e.traced <=> x.steady /\ Traced(inputs)
  BY <1>2
<1> HIDE DEF inputs, e
<1>6. stage \in {"day2", "day3", "day4", "day5", "day6", "day7"}
  BY <1>2, ReferenceAssumption
<1>7. e.traced => TracedContent(content)
  <2> SUFFICES ASSUME x.steady, Traced(inputs)
               PROVE  TracedContent(content)
    BY <1>5
  <2>1. Traced(read)
    BY <1>3, <1>4
  <2>2. DOMAIN read = InputFiles(stage)
    BY <1>2, PlacesAre
  <2> QED
    BY <1>1, <1>2, <1>6, <2>1, <2>2, ResultsAreTraced
<1>8. stage = "day3" => Seeded(content.split)
  BY <1>2, DayThreeIsSeeded
<1>9. SeededEvidence(e)
  BY <1>5, <1>7, <1>8 DEF SeededEvidence, TracedContent
<1>10. PICK g : g = e
  OBVIOUS
<1>11. job'[j].at = "rename" /\ job'[j].evidence = g
  BY <1>1, <1>10
<1>12. JobShaped(job'[j])
  BY <1>5, <1>10, <1>11 DEF JobShaped
<1>13. JobSeeded(job[j])'
  <2>1. SeededEvidence(g)'
    BY <1>1, <1>9, <1>10, SeededStays
  <2> QED
    BY <1>11, <2>1 DEF JobSeeded
<1>14. OfItsInputs(job[j])'
  BY <1>2, <1>3, <1>4, <1>5, <1>10, <1>11 DEF OfItsInputs
<1> QED
  BY <1>12, <1>13, <1>14

\* What an invocation does next keeps it, and the evidence, in order.
LEMMA InvocationStays ==
  ASSUME StagesInvariant, NEW j \in Invocations,
         Launch(j) \/ ReadInput(j) \/ DispatchStage(j) \/ CloseManifest(j) \/ Publish(j)
           \/ StageFails(j)
  PROVE  StagesInvariant'
<1>1. /\ DOMAIN elsewhere = Elsewhere /\ DOMAIN tree = Targets /\ DOMAIN job = Invocations
      /\ JobSeeded(job[j]) /\ elsewhere' = elsewhere /\ StagesNext
  BY DEF StagesInvariant, StagesShape, SplitsAreSeeded, Launch, ReadInput, DispatchStage,
     CloseManifest, Publish, StageFails, StagesNext
<1>2. \E x : job' = [job EXCEPT ![j] = x]
  BY DEF Launch, ReadInput, DispatchStage, CloseManifest, Publish, StageFails
<1>3. DOMAIN job' = Invocations /\ \A k \in Invocations \ {j} : job'[k] = job[k]
  BY <1>1, <1>2
<1>4. JobShaped(job'[j]) /\ JobSeeded(job[j])' /\ OfItsInputs(job[j])'
  <2>1. CASE Publish(j) \/ StageFails(j)
    <3>1. job'[j].at = "idle"
      BY <1>1, <2>1 DEF Publish, StageFails, NoJob
    <3> QED
      BY <3>1 DEF JobShaped, JobSeeded, OfItsInputs
  <2> QED
    BY <2>1, LaunchStays, ReadInputStays, DispatchStays, ManifestStays
<1>5. \A k \in Invocations : JobShaped(job'[k]) /\ JobSeeded(job[k])' /\ OfItsInputs(job[k])'
  <2>1. ASSUME NEW k \in Invocations \ {j}
        PROVE  JobShaped(job'[k]) /\ JobSeeded(job[k])' /\ OfItsInputs(job[k])'
    BY <1>1, <1>3, OthersStay
  <2> QED
    BY <1>4, <2>1
<1>6. /\ DOMAIN tree' = Targets
      /\ \A t \in Targets : IsEvidence(t)' => SeededEvidence(tree[t])'
  <2>1. ASSUME NEW t \in Targets, tree'[t] = tree[t], IsEvidence(t)
        PROVE  SeededEvidence(tree[t])'
    <3>1. PICK e : e = tree[t]
      OBVIOUS
    <3>2. SeededEvidence(e)
      BY <2>1, <3>1 DEF StagesInvariant, SplitsAreSeeded
    <3>3. SeededEvidence(e)'
      BY <1>1, <3>2, SeededStays
    <3> QED
      BY <2>1, <3>1, <3>3
  <2>2. CASE tree' = tree
    BY <1>1, <2>1, <2>2 DEF IsEvidence
  <2>3. CASE Publish(j)
    <3>1. PICK e, u : /\ job[j].at = "rename" /\ e = job[j].evidence /\ u = job[j].target
                      /\ tree' = [tree EXCEPT ![u] = e]
      BY <2>3 DEF Publish
    <3>2. SeededEvidence(e)
      BY <1>1, <3>1 DEF JobSeeded
    <3>3. SeededEvidence(e)'
      BY <1>1, <3>2, SeededStays
    <3>4. ASSUME NEW t \in Targets, IsEvidence(t)'
          PROVE  SeededEvidence(tree[t])'
      <4>1. CASE t = u
        <5>1. tree'[t] = e
          BY <1>1, <3>1, <4>1
        <5> QED
          BY <3>3, <5>1
      <4>2. CASE t # u
        <5>1. tree'[t] = tree[t]
          BY <1>1, <3>1, <4>2
        <5>2. IsEvidence(t)
          BY <3>4, <5>1 DEF IsEvidence
        <5> QED
          BY <2>1, <5>1, <5>2
      <4> QED
        BY <4>1, <4>2
    <3> QED
      BY <1>1, <3>1, <3>4
  <2> QED
    BY <2>2, <2>3 DEF Launch, ReadInput, DispatchStage, CloseManifest, StageFails
<1>7. StagesShape'
  BY <1>1, <1>3, <1>5, <1>6 DEF StagesShape
<1>8. SplitsAreSeeded' /\ InputsStay'
  BY <1>5, <1>6 DEF SplitsAreSeeded, InputsStay
<1> QED
  BY <1>7, <1>8 DEF StagesInvariant

\* Whoever read the file before it was replaced is no longer steady.
LEMMA FileMayChange ==
  ASSUME StagesInvariant, NEW place \in Elsewhere, NEW file \in FileNames, ReplaceFile(place, file)
  PROVE  StagesInvariant'
<1> DEFINE Read(x) ==
      x.at \in {"run", "computed"} /\ file \in DOMAIN x.read /\ x.places[file] = place
<1>1. /\ StagesShape /\ SplitsAreSeeded /\ InputsStay /\ StagesNext /\ tree' = tree
      /\ \E content : elsewhere' = [elsewhere EXCEPT ![place][file] = content]
      /\ job' = [j \in Invocations |->
                   IF Read(job[j]) THEN [job[j] EXCEPT !.steady = FALSE] ELSE job[j]]
  BY DEF StagesInvariant, StagesNext, ReplaceFile
<1>2. /\ DOMAIN elsewhere' = Elsewhere
      /\ \A p \in Elsewhere : \A f : p # place \/ f # file => elsewhere'[p][f] = elsewhere[p][f]
  <2>1. PICK content : elsewhere' = [elsewhere EXCEPT ![place][file] = content]
    BY <1>1
  <2>2. PICK old, new : old = elsewhere[place] /\ new = [old EXCEPT ![file] = content]
    OBVIOUS
  <2>3. elsewhere' = [elsewhere EXCEPT ![place] = new] /\ DOMAIN elsewhere = Elsewhere
    BY <1>1, <2>1, <2>2 DEF StagesShape
  <2>4. \A f : f # file => new[f] = old[f]
    BY <2>2
  <2> QED
    BY <2>2, <2>3, <2>4
<1>3. ASSUME NEW j \in Invocations
      PROVE  JobShaped(job'[j]) /\ JobSeeded(job[j])' /\ OfItsInputs(job[j])'
  <2> DEFINE x == job[j]
  <2>1. JobShaped(x) /\ JobSeeded(x) /\ OfItsInputs(x)
    BY <1>1 DEF StagesShape, SplitsAreSeeded, InputsStay
  <2>2. CASE ~Read(x)
    <3>1. job'[j] = x
      BY <1>1, <2>2
    <3>2. x.at \in {"run", "computed"} =>
            \A f \in DOMAIN x.read :
              x.places[f] \notin Elsewhere \/ elsewhere'[x.places[f]][f] = elsewhere[x.places[f]][f]
      BY <1>2, <2>2
    <3> QED
      BY <1>1, <3>1, <3>2, OthersStay
  <2>3. CASE Read(x)
    <3>1. job'[j] = [x EXCEPT !.steady = FALSE]
      BY <1>1, <2>3
    <3>2. PICK stage, places, read :
            /\ stage = x.stage /\ places = x.places /\ read = x.read
            /\ stage \in Stages /\ places \in Places(stage) /\ Resolves(places)
            /\ DOMAIN read \subseteq DOMAIN places
            /\ read = [f \in DOMAIN read |-> read[f]]
      BY <2>1, <2>3 DEF OfItsInputs
    <3>3. Resolves(places)'
      BY <1>1, <3>2, ReadFilesStay
    <3>4. CASE x.at = "run"
      <4>1. job'[j] = [at |-> "run", stage |-> stage, target |-> x.target, places |-> places,
                       steady |-> FALSE, read |-> read]
        BY <2>1, <3>1, <3>2, <3>4 DEF JobShaped
      <4>2. /\ job'[j].at = "run" /\ job'[j].stage = stage /\ job'[j].places = places
            /\ job'[j].target = x.target /\ job'[j].steady = FALSE /\ job'[j].read = read
        BY <4>1
      <4>3. JobShaped(job'[j]) /\ JobSeeded(job[j])'
        BY <4>1, <4>2 DEF JobShaped, JobSeeded
      <4>4. OfItsInputs(job[j])'
        BY <3>2, <3>3, <4>2 DEF OfItsInputs
      <4> QED
        BY <4>3, <4>4
    <3>5. CASE x.at = "computed"
      <4>1. PICK content : content = x.content
        OBVIOUS
      <4>2. job'[j] = [at |-> "computed", stage |-> stage, target |-> x.target, places |-> places,
                       steady |-> FALSE, read |-> read, content |-> content]
        BY <2>1, <3>1, <3>2, <3>5, <4>1 DEF JobShaped
      <4>3. /\ job'[j].at = "computed" /\ job'[j].stage = stage /\ job'[j].places = places
            /\ job'[j].target = x.target /\ job'[j].steady = FALSE /\ job'[j].read = read
            /\ job'[j].content = content
        BY <4>2
      <4>4. JobShaped(job'[j]) /\ JobSeeded(job[j])'
        BY <4>2, <4>3 DEF JobShaped, JobSeeded
      <4>5. DOMAIN read = DOMAIN places /\ content \in Results(stage, read)
        BY <2>1, <3>2, <3>5, <4>1 DEF OfItsInputs
      <4>6. OfItsInputs(job[j])'
        BY <3>2, <3>3, <4>3, <4>5 DEF OfItsInputs
      <4> QED
        BY <4>4, <4>6
    <3> QED
      BY <2>3, <3>4, <3>5
  <2> QED
    BY <2>2, <2>3
<1>4. DOMAIN job' = Invocations
  BY <1>1
<1>5. StagesShape'
  BY <1>1, <1>2, <1>3, <1>4 DEF StagesShape
<1>6. \A t \in Targets : IsEvidence(t)' => SeededEvidence(tree[t])'
  <2>1. ASSUME NEW t \in Targets, IsEvidence(t)'
        PROVE  SeededEvidence(tree[t])'
    <3>1. PICK e : e = tree[t]
      OBVIOUS
    <3>2. SeededEvidence(e)
      BY <1>1, <2>1, <3>1 DEF SplitsAreSeeded, IsEvidence
    <3>3. SeededEvidence(e)'
      BY <1>1, <3>2, SeededStays
    <3> QED
      BY <1>1, <3>1, <3>3
  <2> QED
    BY <2>1
<1>7. SplitsAreSeeded' /\ InputsStay'
  BY <1>3, <1>6 DEF SplitsAreSeeded, InputsStay
<1> QED
  BY <1>5, <1>7 DEF StagesInvariant

LEMMA StagesStay ==
  ASSUME StagesInvariant, [StagesNext]_stageVars
  PROVE  StagesInvariant'
<1>1. /\ StagesShape /\ SplitsAreSeeded /\ InputsStay
      /\ DOMAIN tree = Targets
  BY DEF StagesInvariant, StagesShape
<1>2. ASSUME elsewhere' = elsewhere, job' = job, DOMAIN tree' = Targets,
             \A t \in Targets : tree'[t] = tree[t] \/ tree'[t].kind # "evidence"
      PROVE  StagesInvariant'
  <2>1. \A j \in Invocations : JobShaped(job'[j]) /\ JobSeeded(job[j])' /\ OfItsInputs(job[j])'
    BY <1>2, OthersStay
  <2>2. StagesShape'
    BY <1>1, <1>2 DEF StagesShape
  <2>3. ASSUME NEW t \in Targets, IsEvidence(t)'
        PROVE  SeededEvidence(tree[t])'
    <3>1. PICK e : e = tree[t] /\ tree'[t] = e
      BY <1>2, <2>3 DEF IsEvidence
    <3>2. SeededEvidence(e)
      BY <1>1, <2>3, <3>1 DEF SplitsAreSeeded, IsEvidence
    <3>3. SeededEvidence(e)'
      BY <3>2, SeededStays
    <3> QED
      BY <3>1, <3>3
  <2>4. SplitsAreSeeded' /\ InputsStay'
    BY <2>1, <2>3 DEF SplitsAreSeeded, InputsStay
  <2> QED
    BY <2>2, <2>4 DEF StagesInvariant
<1>3. CASE UNCHANGED stageVars
  BY <1>1, <1>2, <1>3 DEF stageVars
<1>4. ASSUME NEW t \in Targets, MakeDirectory(t)
      PROVE  StagesInvariant'
  <2>1. PICK kind \in {"empty", "foreign"} : tree' = [tree EXCEPT ![t] = [kind |-> kind]]
    BY <1>4 DEF MakeDirectory
  <2>2. tree'[t].kind = kind
    BY <1>1, <2>1
  <2>3. /\ elsewhere' = elsewhere /\ job' = job /\ DOMAIN tree' = Targets
        /\ \A u \in Targets : tree'[u] = tree[u] \/ tree'[u].kind # "evidence"
    BY <1>1, <1>4, <2>1, <2>2 DEF MakeDirectory
  <2> QED
    BY <1>2, <2>3
<1> QED
  BY <1>3, <1>4, InvocationStays, FileMayChange DEF StagesNext

LEMMA StagesHold ==
  StagesSpec => []StagesInvariant
<1>1. StagesInvariant /\ [StagesNext]_stageVars => StagesInvariant'
  BY StagesStay
<1> QED
  BY <1>1, StagesStart, PTL DEF StagesSpec

\* A file of a published split holds one part of it.
LEMMA PartsAreDisjoint ==
  ASSUME StagesInvariant, NEW t \in Targets, NEW u \in Targets, IsSplit(t), IsSplit(u),
         NEW data, tree[t].content.split.of = data, tree[u].content.split.of = data
  PROVE  LET features(part) == Features(data, Part(tree[t].content.split, part)) IN
         /\ tree[u].content.split = tree[t].content.split
         /\ features("train") \cap features("validation") = {}
         /\ features("train") \cap features("test") = {}
         /\ features("validation") \cap features("test") = {}
<1> DEFINE split == tree[t].content.split
<1>1. Seeded(split) /\ Seeded(tree[u].content.split)
  BY DEF StagesInvariant, SplitsAreSeeded, SeededEvidence, IsSplit
<1>2. tree[u].content.split = split
  BY <1>1, OneSplitPerDataset
<1>3. DisjointRows(split)
  BY <1>1, SeededSplitsAreDisjoint
<1> HIDE DEF split
<1>4. \A left, right \in Parts : left # right =>
        Features(data, Part(split, left)) \cap Features(data, Part(split, right)) = {}
  BY <1>3 DEF DisjointRows, split
<1> QED
  BY <1>2, <1>4 DEF Parts, split

\* Whatever evidence and stray files are mixed, replaced or published at the same
\* time: when every digest of the manifests leads back to files of day 3, numbers
\* are of rows that the model was not fitted on and that no final test keeps
\* (split_transactions, run_reference_stage.py).
THEOREM JudgedRowsAreUnseen ==
  StagesSpec => []JudgedOnUnseenRows
<1>1. ASSUME StagesInvariant, NEW t \in Targets, IsEvidence(t), tree[t].traced,
             NEW row \in tree[t].content.rows
      PROVE  LET fitted == row.model.fitted
                 judged == row.judged
                 data   == judged.x.of
             IN
             /\ fitted.x = fitted.y /\ judged.x = judged.y
             /\ fitted.x.of = data =>
                  Features(data, fitted.x.rows) \cap Features(data, judged.x.rows) = {}
             /\ \A u \in Targets : IsSplit(u) /\ tree[u].content.split.of = data =>
                  LET kept == Features(data, Part(tree[u].content.split, "test")) IN
                  /\ fitted.x.of = data => Features(data, fitted.x.rows) \cap kept = {}
                  /\ Features(data, judged.x.rows) \cap kept = {}
             /\ row.labelled.of = data => row.labelled = judged.y
  <2> DEFINE fitted == row.model.fitted
             judged == row.judged
             data   == judged.x.of
             split(u) == tree[u].content.split
  <2>1. TracedRow(row)
    BY <1>1, EvidenceIsTraced DEF StagesInvariant
  <2>2. PICK a \in Targets : IsSplit(a) /\ fitted.x = FileOf(split(a), "x_train")
                                        /\ fitted.y = FileOf(split(a), "x_train")
    BY <2>1 DEF TracedRow, TracedModel, FromSplit
  <2>3. PICK b \in Targets : IsSplit(b) /\ judged.x = FileOf(split(b), "x_validation")
                                        /\ judged.y = FileOf(split(b), "x_validation")
    BY <2>1 DEF TracedRow, FromSplit
  <2>4. PICK c \in Targets : IsSplit(c) /\ row.labelled = FileOf(split(c), "y_validation")
    BY <2>1 DEF TracedRow, FromSplit
  <2>5. \A u : /\ FileOf(split(u), "x_train").of = split(u).of
               /\ FileOf(split(u), "x_train").rows = Part(split(u), "train")
               /\ FileOf(split(u), "x_validation").of = split(u).of
               /\ FileOf(split(u), "x_validation").rows = Part(split(u), "validation")
               /\ FileOf(split(u), "y_validation") = FileOf(split(u), "x_validation")
               /\ FileOf(split(u), "y_validation").of = split(u).of
    BY DEF FileOf
  <2>6. /\ fitted.x.of = split(a).of /\ fitted.x.rows = Part(split(a), "train")
        /\ data = split(b).of /\ judged.x.rows = Part(split(b), "validation")
        /\ row.labelled.of = split(c).of
    BY <2>2, <2>3, <2>4, <2>5
  <2>7. row.labelled.of = data => row.labelled = judged.y
    BY <1>1, <2>3, <2>4, <2>5, <2>6, PartsAreDisjoint
  <2>8. fitted.x.of = data =>
          /\ split(a) = split(b)
          /\ Features(data, Part(split(a), "train")) \cap Features(data, Part(split(a), "validation")) = {}
    <3>1. SUFFICES ASSUME fitted.x.of = data
                   PROVE  /\ split(a) = split(b)
                          /\ Features(data, Part(split(a), "train"))
                               \cap Features(data, Part(split(a), "validation")) = {}
      OBVIOUS
    <3>2. PICK d : d = data
      OBVIOUS
    <3>3. split(a).of = d /\ split(b).of = d
      BY <2>6, <3>1, <3>2
    <3>4. /\ split(b) = split(a)
          /\ Features(d, Part(split(a), "train")) \cap Features(d, Part(split(a), "validation")) = {}
      BY <1>1, <2>2, <2>3, <3>3, PartsAreDisjoint
    <3> QED
      BY <3>2, <3>4
  <2>9. ASSUME NEW u \in Targets, IsSplit(u), split(u).of = data
        PROVE  /\ fitted.x.of = data =>
                    Features(data, fitted.x.rows) \cap Features(data, Part(split(u), "test")) = {}
               /\ Features(data, judged.x.rows) \cap Features(data, Part(split(u), "test")) = {}
    <3>1. split(b) = split(u) /\ (fitted.x.of = data => split(a) = split(u))
      BY <1>1, <2>2, <2>3, <2>6, <2>9, PartsAreDisjoint
    <3>2. /\ Features(data, Part(split(u), "train")) \cap Features(data, Part(split(u), "test")) = {}
          /\ Features(data, Part(split(u), "validation")) \cap Features(data, Part(split(u), "test")) = {}
      BY <1>1, <2>9, PartsAreDisjoint
    <3> QED
      BY <2>6, <3>1, <3>2
  <2> QED
    BY <2>2, <2>3, <2>6, <2>7, <2>8, <2>9
<1>2. StagesInvariant => JudgedOnUnseenRows
  BY <1>1 DEF JudgedOnUnseenRows
<1> QED
  BY <1>2, StagesHold, PTL

\* Published evidence is never changed, and can be had again from the inputs that
\* its manifest names, unless one was replaced after it was read
\* (evidence_directory.py, run_reference_stage.py).
THEOREM PublishedEvidenceIsNamed ==
  StagesSpec => EvidenceIsNamed
<1> DEFINE Kept ==
      \A t \in Targets :
        /\ tree[t].kind \in {"evidence", "foreign"} => UNCHANGED tree[t]
        /\ tree'[t].kind = "evidence" /\ tree[t].kind # "evidence" /\ tree'[t].steady =>
             tree'[t].content \in Results(tree'[t].stage, tree'[t].inputs)
<1>1. ASSUME StagesInvariant, [StagesNext]_stageVars
      PROVE  [Kept]_stageVars
  <2>1. ASSUME NEW t \in Targets, tree'[t].kind = "evidence", tree[t].kind # "evidence",
               tree'[t].steady
        PROVE  tree'[t].content \in Results(tree'[t].stage, tree'[t].inputs)
    <3>1. DOMAIN tree = Targets
      BY <1>1 DEF StagesInvariant, StagesShape
    <3>2. ~(\E u \in Targets : MakeDirectory(u))
      BY <2>1, <3>1 DEF MakeDirectory
    <3>3. \E j \in Invocations : Publish(j)
      BY <1>1, <2>1, <3>2 DEF StagesNext, stageVars, Launch, ReadInput, DispatchStage,
         CloseManifest, StageFails, ReplaceFile
    <3>4. PICK j \in Invocations : Publish(j)
      BY <3>3
    <3>5. job[j].at = "rename" /\ tree'[t] = job[j].evidence
      BY <2>1, <3>1, <3>4 DEF Publish
    <3>6. OfItsInputs(job[j])
      BY <1>1 DEF StagesInvariant, InputsStay
    <3> QED
      BY <2>1, <3>5, <3>6 DEF OfItsInputs
  <2>2. \A t \in Targets : tree[t].kind \in {"evidence", "foreign"} => UNCHANGED tree[t]
    BY <1>1, EvidenceStays
  <2> QED
    BY <2>1, <2>2
<1>2. StagesInvariant /\ [StagesNext]_stageVars => [Kept]_stageVars
  BY <1>1
<1>3. StagesSpec => [][Kept]_stageVars
  BY <1>2, StagesHold, PTL DEF StagesSpec
<1> QED
  BY <1>3 DEF EvidenceIsNamed

-----------------------------------------------------------------------------
(* ScaleHarness: what it made *)

LEMMA HarnessStarts ==
  ASSUME HarnessInit
  PROVE  HarnessShape /\ KnowsWhatItMade
BY DEF HarnessInit, HarnessShape, KnowsWhatItMade, Preparing, InRepeat, Serving, Filing, Stopped

\* Each command of docker, with what the harness remembers of it.
LEMMA DockerStays ==
  ASSUME HarnessShape, KnowsWhatItMade,
         RunHarness \/ RequireNothingThere \/ CreateVolume \/ RunContainer \/ DatabaseReady
           \/ RemoveContainer \/ RemoveVolume
  PROVE  HarnessShape' /\ KnowsWhatItMade'
<1> USE DEF HarnessShape, KnowsWhatItMade, Preparing, InRepeat, Serving, Filing, Stopped
<1>1. CASE RunHarness
  BY <1>1 DEF RunHarness
<1>2. CASE RequireNothingThere
  BY <1>2 DEF RequireNothingThere
<1>3. CASE CreateVolume
  BY <1>3 DEF CreateVolume
<1>4. CASE RunContainer
  BY <1>4 DEF RunContainer
<1>5. CASE DatabaseReady
  BY <1>5 DEF DatabaseReady
<1>6. CASE RemoveContainer
  BY <1>6 DEF RemoveContainer
<1>7. CASE RemoveVolume
  BY <1>7 DEF RemoveVolume
<1> QED
  BY <1>1, <1>2, <1>3, <1>4, <1>5, <1>6, <1>7

\* A repeat touches neither, and brings the cluster down whatever happens.
LEMMA RepeatStays ==
  ASSUME HarnessShape, KnowsWhatItMade,
         \/ \E r \in client.pending : Serve(r) \/ Misbehave(r) \/ Collect(r) \/ GrowthAnswered(r)
         \/ WorkloadEnds \/ AuditState
         \/ Migrate \/ StartCluster \/ StopCluster \/ CheckGates \/ DropSchema
  PROVE  HarnessShape' /\ KnowsWhatItMade'
<1> USE DEF HarnessShape, KnowsWhatItMade, Preparing, InRepeat, Serving, Filing, Stopped
<1>1. ASSUME NEW r \in client.pending,
             Serve(r) \/ Misbehave(r) \/ Collect(r) \/ GrowthAnswered(r)
      PROVE  HarnessShape' /\ KnowsWhatItMade'
  <2>1. CASE Serve(r)
    BY <2>1 DEF Serve, InFlight, Answers, Appends
  <2>2. CASE Misbehave(r)
    BY <2>2 DEF Misbehave, InFlight, Answers
  <2>3. CASE Collect(r)
    BY <2>3 DEF Collect
  <2>4. CASE GrowthAnswered(r)
    BY <2>4 DEF GrowthAnswered, Raise
  <2> QED
    BY <1>1, <2>1, <2>2, <2>3, <2>4
<1>2. CASE WorkloadEnds
  BY <1>2 DEF WorkloadEnds, Raise
<1>3. CASE AuditState
  BY <1>3 DEF AuditState, Raise
<1>4. CASE Migrate
  BY <1>4 DEF Migrate
<1>5. CASE StartCluster
  BY <1>5 DEF StartCluster, Raise
<1>6. CASE StopCluster
  BY <1>6 DEF StopCluster
<1>7. CASE CheckGates
  BY <1>7 DEF CheckGates
<1>8. CASE DropSchema
  <2>1. PICK error \in {trial.error, "other"} :
          LET goes == error = "none" /\ Growing IN
          /\ trial' = [trial EXCEPT !.error = error, !.cell = IF goes THEN @ + 1 ELSE @,
                                    !.status = IF error = "none" THEN "in_progress" ELSE "failed"]
          /\ step' = CASE error = "other"      -> "remove_container"
                       [] error = "validation" -> "json"
                       [] error = "none"       -> IF goes THEN "report" ELSE "json"
    BY <1>8 DEF DropSchema
  <2>2. step = "drop" /\ UNCHANGED <<mode, server, docker, files>>
    BY <1>8 DEF DropSchema
  <2>3. /\ trial'.cell \in {trial.cell, trial.cell + 1}
        /\ trial'.error = error /\ trial'.status \in {"in_progress", "failed"}
        /\ trial' = [cell |-> trial'.cell, error |-> trial'.error, status |-> trial'.status,
                     counts |-> trial'.counts]
    BY <2>1
  <2>4. step' \in {"remove_container", "json", "report"}
    BY <2>1
  <2>5. HarnessShape'
    BY <2>2, <2>3, <2>4
  <2>6. KnowsWhatItMade'
    BY <2>2, <2>4
  <2> QED
    BY <2>5, <2>6
<1> QED
  BY <1>1, <1>2, <1>3, <1>4, <1>5, <1>6, <1>7, <1>8

LEMMA FilingStays ==
  ASSUME HarnessShape, KnowsWhatItMade,
         FlushJson \/ FlushCsv \/ WritePartial \/ Summarise \/ WriteResult
  PROVE  HarnessShape' /\ KnowsWhatItMade'
<1> DEFINE filed ==
      /\ step \in Filing /\ step' \in {"migrate", "remove_container"} \cup Filing
      /\ UNCHANGED <<mode, server, docker>>
<1> DEFINE tried ==
      /\ trial' = [cell |-> trial'.cell, error |-> trial'.error, status |-> trial'.status,
                   counts |-> trial'.counts]
      /\ trial'.cell \in {trial.cell, trial.cell + 1} /\ UNCHANGED trial.error
      /\ trial'.status \in {trial.status, "completed"}
<1> DEFINE written ==
      files' = [status |-> files'.status, json |-> files'.json, csv |-> files'.csv,
                result |-> files'.result, resultCsv |-> files'.resultCsv,
                partial |-> files'.partial]
<1>1. ASSUME FlushJson PROVE filed /\ tried /\ written
  <2>1. filed
    BY <1>1 DEF FlushJson, WriteFails, Filing
  <2>2. tried
    BY <1>1 DEF FlushJson, WriteFails, HarnessShape
  <2>3. written
    BY <1>1 DEF FlushJson, WriteFails, HarnessShape
  <2> QED
    BY <2>1, <2>2, <2>3
<1>2. ASSUME FlushCsv PROVE filed /\ tried /\ written
  <2>1. filed
    BY <1>2 DEF FlushCsv, WriteFails, Filing, HarnessShape
  <2>2. tried
    BY <1>2 DEF FlushCsv, WriteFails, HarnessShape
  <2>3. written
    BY <1>2 DEF FlushCsv, WriteFails, HarnessShape
  <2> QED
    BY <2>1, <2>2, <2>3
<1>3. ASSUME WritePartial PROVE filed /\ tried /\ written
  <2>1. filed
    BY <1>3 DEF WritePartial, Filing
  <2>2. tried
    BY <1>3 DEF WritePartial, HarnessShape
  <2>3. written
    BY <1>3 DEF WritePartial, HarnessShape
  <2> QED
    BY <2>1, <2>2, <2>3
<1>4. ASSUME Summarise PROVE filed /\ tried /\ written
  <2>1. filed
    BY <1>4 DEF Summarise, Filing
  <2>2. tried
    BY <1>4 DEF Summarise, HarnessShape
  <2>3. written
    BY <1>4 DEF Summarise, HarnessShape
  <2> QED
    BY <2>1, <2>2, <2>3
<1>5. ASSUME WriteResult PROVE filed /\ tried /\ written
  <2>1. filed
    BY <1>5 DEF WriteResult, WriteFails, Filing
  <2>2. tried
    BY <1>5 DEF WriteResult, WriteFails, HarnessShape
  <2>3. written
    BY <1>5 DEF WriteResult, WriteFails, HarnessShape
  <2> QED
    BY <2>1, <2>2, <2>3
<1>6. ASSUME filed, tried, written
      PROVE  HarnessShape' /\ KnowsWhatItMade'
  <2>1. HarnessShape'
    BY <1>6 DEF HarnessShape, Preparing, InRepeat, Filing, Stopped
  <2>2. KnowsWhatItMade'
    BY <1>6 DEF KnowsWhatItMade, Preparing, InRepeat, Serving, Filing, Stopped
  <2> QED
    BY <2>1, <2>2
<1>7. filed /\ tried /\ written
  BY <1>1, <1>2, <1>3, <1>4, <1>5
<1> QED
  BY <1>6, <1>7

LEMMA KnowledgeStays ==
  ASSUME HarnessShape, KnowsWhatItMade, [HarnessNext]_harnessVars
  PROVE  HarnessShape' /\ KnowsWhatItMade'
<1>1. CASE UNCHANGED harnessVars
  BY <1>1 DEF harnessVars, HarnessShape, KnowsWhatItMade
<1>2. CASE HarnessNext
  BY <1>2, DockerStays, RepeatStays, FilingStays DEF HarnessNext
<1> QED
  BY <1>1, <1>2

LEMMA KnowledgeHolds ==
  HarnessSpec => [](HarnessShape /\ KnowsWhatItMade)
<1>1. /\ HarnessShape /\ KnowsWhatItMade
      /\ [HarnessNext]_harnessVars
      => (HarnessShape /\ KnowsWhatItMade)'
  BY KnowledgeStays
<1> QED
  BY <1>1, HarnessStarts, PTL DEF HarnessSpec

\* In every state of the harness: it never goes on with a container or a volume
\* it did not make, and once it is over nothing of its own is left, whatever
\* failed, unless docker hung or refused (cleanup of run_p1_scale_benchmark.py).
THEOREM MadeIsReleased ==
  HarnessSpec => []OwnedIsReleased
<1>1. HarnessShape /\ KnowsWhatItMade => OwnedIsReleased
  BY DEF HarnessShape, KnowsWhatItMade, OwnedIsReleased, HarnessOver, Serving
<1> QED
  BY <1>1, KnowledgeHolds, PTL

-----------------------------------------------------------------------------
(* ScaleHarness: what it filed *)

LEMMA LeastOfTwo ==
  ASSUME NEW a \in Int, NEW b \in Int
  PROVE  Min({a, b}) = IF a <= b THEN a ELSE b
BY DEF Min

LEMMA FirstOnes ==
  ASSUME NEW S, NEW runs \in Seq(S), NEW n \in 0..Len(runs)
  PROVE  /\ SubSeq(runs, 1, n) \in Seq(S)
         /\ Len(SubSeq(runs, 1, n)) = n
<1>1. \A i \in 1..n : runs[i] \in S
  OBVIOUS
<1> QED
  BY <1>1, SubSeqProperties

LEMMA FirstOnesAreAPrefix ==
  ASSUME NEW S, NEW runs \in Seq(S), NEW n \in 0..Len(runs), NEW k \in 0..n
  PROVE  IsPrefix(SubSeq(runs, 1, k), SubSeq(runs, 1, n))
<1> DEFINE few == SubSeq(runs, 1, k)
<1> DEFINE more == SubSeq(runs, 1, n)
<1>1. few \in Seq(S) /\ Len(few) = k /\ more \in Seq(S) /\ Len(more) = n
  BY FirstOnes
<1>2. SubSeq(few, 1, k) = few
  BY <1>1, SubSeqFull
<1>3. SubSeq(more, 1, k) = few
  <2>1. CASE k = 0
    BY <2>1, SubSeqEmpty
  <2>2. CASE k # 0
    <3>1. 1 \in 1..Len(runs) /\ n \in 1..Len(runs) /\ 1 \in 1..(n - 1 + 1) /\ k \in 1..(n - 1 + 1)
      BY <2>2
    <3>2. SubSeq(SubSeq(runs, 1, n), 1, k) = SubSeq(runs, 1 + 1 - 1, 1 + k - 1)
      BY <3>1, <1>1, SubSeqOfSubSeq
    <3> QED
      BY <3>2
  <2> QED
    BY <2>1, <2>2
<1> QED
  BY <1>1, <1>2, <1>3 DEF IsPrefix

\* The matrix is a sequence.
LEMMA MatrixIsASequence ==
  \E S : Dimensions \in Seq(S)
<1>1. CASE mode = "smoke"
  <2>1. Dimensions = <<SmokeCell>>
    BY <1>1 DEF Dimensions
  <2>2. <<SmokeCell>> \in Seq({SmokeCell})
    OBVIOUS
  <2> QED
    BY <2>1, <2>2
<1>2. CASE mode # "smoke"
  <2> DEFINE w == Len(WorkerCounts)
  <2> DEFINE c == Len(ConcurrencyLevels)
  <2> DEFINE r == Len(RepeatNumbers)
  <2> DEFINE cell(i) == <<WorkerCounts[(i - 1) \div (c * r) + 1],
                          ConcurrencyLevels[(((i - 1) \div r) % c) + 1],
                          RepeatNumbers[((i - 1) % r) + 1]>>
  <2> DEFINE n == w * c * r
  <2>1. Dimensions = [i \in 1..n |-> cell(i)]
    BY <1>2 DEF Dimensions
  <2>2. n \in Nat
    <3>1. w \in Nat /\ c \in Nat /\ r \in Nat
      BY HarnessAssumption
    <3>2. \A a, b \in Nat : a * b \in Nat
      OBVIOUS
    <3>3. w * c \in Nat
      BY <3>1, <3>2
    <3> QED
      BY <3>1, <3>2, <3>3
  <2> DEFINE cells == {cell(i) : i \in 1..n}
  <2>3. [i \in 1..n |-> cell(i)] \in [1..n -> cells]
    OBVIOUS
  <2>4. \A T : \A s : s \in [1..n -> T] => s \in Seq(T)
    <3> HIDE DEF n
    <3> QED
      BY <2>2
  <2> QED
    BY <2>1, <2>3, <2>4
<1> QED
  BY <1>1, <1>2

\* What the numbers of the invariant are.
LEMMA RepeatsAreCounted ==
  ASSUME HarnessShape
  PROVE  /\ Len(Dimensions) \in Nat
         /\ RepeatsOver = IF trial.cell - 1 <= Len(Dimensions) THEN trial.cell - 1
                          ELSE Len(Dimensions)
         /\ RunsInHand = IF trial.status = "in_progress" THEN SubSeq(Dimensions, 1, trial.cell)
                         ELSE SubSeq(Dimensions, 1, RepeatsOver)
         /\ SubSeq(Dimensions, 1, Len(Dimensions)) = Dimensions
         /\ SubSeq(Dimensions, 1, 0) = <<>>
         /\ \A n \in 0..Len(Dimensions) : Len(SubSeq(Dimensions, 1, n)) = n
<1>1. PICK S : Dimensions \in Seq(S)
  BY MatrixIsASequence
<1>2. Len(Dimensions) \in Nat
  BY <1>1
<1>3. trial.cell - 1 \in Int
  BY DEF HarnessShape
<1>4. RepeatsOver = IF trial.cell - 1 <= Len(Dimensions) THEN trial.cell - 1 ELSE Len(Dimensions)
  BY <1>2, <1>3, LeastOfTwo DEF RepeatsOver
<1> QED
  BY <1>1, <1>2, <1>4, FirstOnes, SubSeqFull, SubSeqEmpty DEF RunsInHand, RepeatsOver

LEMMA FilesStart ==
  ASSUME HarnessInit
  PROVE  FilesInOrder
<1>1. HarnessShape
  BY HarnessStarts
<1>2. trial.cell = 1 /\ trial.status = "started" /\ step = "start"
  BY DEF HarnessInit
<1>3. files.json = <<>> /\ files.csv = <<>> /\ files.result = <<>> /\ ~files.partial
      /\ files.status = "absent"
  BY DEF HarnessInit
<1>4. RepeatsOver = 0 /\ Len(files.csv) = 0
  BY <1>1, <1>2, <1>3, RepeatsAreCounted
<1>5. FirstRepeats(0) = <<>> /\ Len(Dimensions) \in Nat
  BY <1>1, RepeatsAreCounted DEF FirstRepeats
<1> USE <1>2, <1>3, <1>4, <1>5
<1>6. TrialInOrder
  BY DEF TrialInOrder, InRepeat, Serving
<1>7. FilesInStep
  BY DEF FilesInStep
<1>8. FilesFollowTrial
  BY DEF FilesFollowTrial
<1>9. ResultComesLast
  BY DEF ResultComesLast
<1> QED
  BY <1>6, <1>7, <1>8, <1>9 DEF FilesInOrder

\* A step that leaves the files alone and goes on where it was, or stops.
LEMMA QuietStepsKeepFiles ==
  ASSUME FilesInOrder, UNCHANGED <<mode, files, trial.cell, trial.status>>,
         \/ UNCHANGED step
         \/ step' \in Stopped
         \/ step \in Preparing /\ step' \in Preparing \cup {"json"}
         \/ step \in InRepeat /\ step' \in InRepeat
  PROVE  FilesInOrder'
<1>1. Dimensions' = Dimensions
  BY DEF Dimensions
<1>2. RepeatsOver' = RepeatsOver /\ RunsInHand' = RunsInHand
  BY <1>1 DEF RepeatsOver, RunsInHand
<1> USE DEF FilesInOrder, Preparing, InRepeat, Serving, Stopped
<1>3. TrialInOrder'
  BY <1>1 DEF TrialInOrder, MatrixOver
<1>4. FilesInStep'
  BY <1>1 DEF FilesInStep, FirstRepeats
<1>5. FilesFollowTrial'
  BY <1>1, <1>2 DEF FilesFollowTrial, FirstRepeats
<1>6. ResultComesLast'
  BY <1>1 DEF ResultComesLast
<1> QED
  BY <1>3, <1>4, <1>5, <1>6

\* The steps that do: all but those of the evidence itself and the end of a repeat.
LEMMA MostStepsAreQuiet ==
  ASSUME HarnessShape,
         \/ UNCHANGED harnessVars
         \/ RunHarness \/ RequireNothingThere \/ CreateVolume \/ RunContainer \/ DatabaseReady
         \/ RemoveContainer \/ RemoveVolume
         \/ \E r \in client.pending : Serve(r) \/ Misbehave(r) \/ Collect(r) \/ GrowthAnswered(r)
         \/ WorkloadEnds \/ AuditState
         \/ Migrate \/ StartCluster \/ StopCluster \/ CheckGates
         \/ WriteFails /\ UNCHANGED mode
  PROVE  /\ UNCHANGED <<mode, files, trial.cell, trial.status>>
         /\ \/ UNCHANGED step
            \/ step' \in Stopped
            \/ step \in Preparing /\ step' \in Preparing \cup {"json"}
            \/ step \in InRepeat /\ step' \in InRepeat
<1> USE DEF Preparing, InRepeat, Serving, Stopped
<1>1. CASE UNCHANGED harnessVars
  BY <1>1 DEF harnessVars
<1>2. CASE RunHarness \/ RequireNothingThere \/ CreateVolume \/ RunContainer \/ DatabaseReady
  BY <1>2 DEF RunHarness, RequireNothingThere, CreateVolume, RunContainer, DatabaseReady
<1>3. CASE RemoveContainer \/ RemoveVolume
  BY <1>3, SMTT(30) DEF RemoveContainer, RemoveVolume
<1>4. ASSUME NEW r \in client.pending, Serve(r) \/ Misbehave(r) \/ Collect(r)
      PROVE  UNCHANGED <<mode, files, trial, step>>
  BY <1>4 DEF Serve, Misbehave, Collect, Answers
<1>5. ASSUME NEW r \in client.pending, GrowthAnswered(r)
      PROVE  /\ UNCHANGED <<mode, files, trial.cell, trial.status>>
             /\ step = "growth" /\ step' \in {"growth", "unwind"}
  BY <1>5 DEF GrowthAnswered, Raise, HarnessShape
<1>6. CASE WorkloadEnds \/ AuditState
  BY <1>6 DEF WorkloadEnds, AuditState, Raise, HarnessShape
<1>7. CASE Migrate \/ StartCluster
  BY <1>7 DEF Migrate, StartCluster, Raise, HarnessShape
<1>8. CASE StopCluster \/ CheckGates
  BY <1>8 DEF StopCluster, CheckGates, HarnessShape
<1>9. CASE WriteFails /\ UNCHANGED mode
  BY <1>9 DEF WriteFails
<1> QED
  BY <1>1, <1>2, <1>3, <1>4, <1>5, <1>6, <1>7, <1>8, <1>9

LEMMA RepeatEndsInOrder ==
  ASSUME HarnessShape, FilesInOrder, DropSchema
  PROVE  FilesInOrder'
<1>1. Dimensions' = Dimensions
  BY DEF DropSchema, Dimensions
<1>2. PICK error \in {trial.error, "other"} :
        LET goes == error = "none" /\ Growing IN
        /\ trial' = [trial EXCEPT !.error = error, !.cell = IF goes THEN @ + 1 ELSE @,
                                  !.status = IF error = "none" THEN "in_progress" ELSE "failed"]
        /\ step' = CASE error = "other"      -> "remove_container"
                     [] error = "validation" -> "json"
                     [] error = "none"       -> IF goes THEN "report" ELSE "json"
  BY DEF DropSchema
<1>3. step = "drop" /\ UNCHANGED <<mode, files>>
  BY DEF DropSchema
<1>4. /\ trial'.cell = IF error = "none" /\ Growing THEN trial.cell + 1 ELSE trial.cell
      /\ trial'.status = IF error = "none" THEN "in_progress" ELSE "failed"
  BY <1>2 DEF HarnessShape
<1>5. /\ error = "other" => step' = "remove_container"
      /\ error = "validation" => step' = "json"
      /\ error = "none" => step' = IF Growing THEN "report" ELSE "json"
      /\ error \in {"none", "validation", "other"}
  BY <1>2 DEF HarnessShape
<1>6. Len(Dimensions) \in Nat /\ trial.cell \in Nat \ {0}
  BY RepeatsAreCounted DEF HarnessShape
<1>7. RepeatsOver = IF trial.cell - 1 <= Len(Dimensions) THEN trial.cell - 1 ELSE Len(Dimensions)
  BY RepeatsAreCounted
<1>8. trial'.cell \in Int
  BY <1>4, <1>6
<1>9. RepeatsOver' = IF trial'.cell - 1 <= Len(Dimensions) THEN trial'.cell - 1
                     ELSE Len(Dimensions)
  BY <1>1, <1>6, <1>8, LeastOfTwo DEF RepeatsOver
<1>10. Growing <=> mode = "full" /\ trial.cell = Len(Dimensions) + 1
  BY DEF Growing
<1>11. RepeatsOver' = RepeatsOver
  BY <1>4, <1>6, <1>7, <1>9, <1>10
<1>12. /\ trial.status \in {"started", "in_progress"}
       /\ trial.cell <= Len(Dimensions) + (IF mode = "full" THEN 1 ELSE 0)
  BY <1>3 DEF FilesInOrder, TrialInOrder, InRepeat
<1>13. files.result = <<>> /\ ~files.partial
  BY <1>3, <1>12 DEF FilesInOrder, ResultComesLast, Stopped
<1>14. step' \in {"json", "report", "remove_container"} /\ trial'.status \in {"in_progress", "failed"}
  BY <1>4, <1>5
<1>15. TrialInOrder'
  <2>1. step' = "json" /\ trial'.status = "in_progress" => trial'.cell <= Len(Dimensions)
    BY <1>4, <1>5, <1>6, <1>10, <1>12
  <2>2. step' = "report" => trial'.cell > Len(Dimensions)
    BY <1>4, <1>5, <1>6, <1>10
  <2> QED
    BY <1>1, <1>6, <1>8, <1>14, <2>1, <2>2 DEF TrialInOrder, MatrixOver, Preparing, InRepeat, Serving
<1>16. FilesInStep'
  BY <1>1, <1>3 DEF FilesInOrder, FilesInStep, FirstRepeats
<1>17. FilesFollowTrial'
  <2>1. /\ files.json = FirstRepeats(RepeatsOver) /\ files.csv = FirstRepeats(RepeatsOver)
        /\ files.status \notin {"failed", "completed"}
    BY <1>3 DEF FilesInOrder, FilesFollowTrial, InRepeat
  <2> QED
    BY <1>1, <1>3, <1>11, <1>14, <2>1 DEF FilesFollowTrial, FirstRepeats
<1>18. ResultComesLast'
  BY <1>3, <1>13, <1>14 DEF ResultComesLast
<1> QED
  BY <1>15, <1>16, <1>17, <1>18 DEF FilesInOrder

LEMMA ProgressIsFiledInOrder ==
  ASSUME HarnessShape, FilesInOrder, FlushJson, ~WriteFails
  PROVE  FilesInOrder'
<1>1. Dimensions' = Dimensions
  BY DEF FlushJson, Dimensions
<1>2. step = "json" /\ step' = "csv" /\ UNCHANGED <<mode, trial>>
  BY DEF FlushJson
<1>3. files' = [files EXCEPT !.status = trial.status, !.json = RunsInHand]
  BY DEF FlushJson
<1>4. /\ files'.status = trial.status /\ files'.json = RunsInHand /\ files'.csv = files.csv
      /\ files'.result = files.result /\ files'.partial = files.partial
  BY <1>3 DEF HarnessShape
<1>5. RepeatsOver' = RepeatsOver /\ RunsInHand' = RunsInHand
  BY <1>1, <1>2 DEF RepeatsOver, RunsInHand
<1>6. /\ files.json = FirstRepeats(RepeatsOver) /\ files.csv = FirstRepeats(RepeatsOver)
      /\ files.status \notin {"failed", "completed"}
  BY <1>2 DEF FilesInOrder, FilesFollowTrial
<1>7. files.result = <<>> /\ ~files.partial
  BY <1>2, <1>6 DEF FilesInOrder, ResultComesLast, Stopped
<1>8. Len(Dimensions) \in Nat /\ trial.cell \in Nat \ {0}
  BY RepeatsAreCounted DEF HarnessShape
<1>9. RepeatsOver = IF trial.cell - 1 <= Len(Dimensions) THEN trial.cell - 1 ELSE Len(Dimensions)
  BY RepeatsAreCounted
<1>10. RunsInHand = FirstRepeats(IF trial.status = "in_progress" THEN trial.cell ELSE RepeatsOver)
  BY RepeatsAreCounted DEF FirstRepeats
<1>11. RepeatsOver \in 0..Len(Dimensions)
  BY <1>8, <1>9
<1>12. TrialInOrder'
  BY <1>1, <1>2 DEF FilesInOrder, TrialInOrder, MatrixOver, Preparing, InRepeat, Serving
<1>13. FilesInStep'
  <2>1. trial.status = "in_progress" => trial.cell <= Len(Dimensions)
    BY <1>2, <1>8 DEF FilesInOrder, TrialInOrder, MatrixOver
  <2>2. files'.csv = FirstRepeats(RepeatsOver)
    BY <1>4, <1>6
  <2>3. trial.status = "in_progress" => trial.cell = RepeatsOver + 1
    BY <2>1, <1>8, <1>9
  <2>4. PICK n \in {RepeatsOver, RepeatsOver + 1} :
          n \in 0..Len(Dimensions) /\ files'.json = FirstRepeats(n)
    BY <2>1, <2>3, <1>4, <1>8, <1>10, <1>11
  <2> QED
    BY <1>1, <1>11, <2>2, <2>4 DEF FilesInStep, FirstRepeats
<1>14. FilesFollowTrial'
  BY <1>1, <1>2, <1>4, <1>5, <1>6 DEF FilesFollowTrial, FirstRepeats, Preparing, InRepeat, Serving
<1>15. ResultComesLast'
  BY <1>2, <1>4, <1>7 DEF ResultComesLast
<1> QED
  BY <1>12, <1>13, <1>14, <1>15 DEF FilesInOrder

LEMMA TableIsFiledInOrder ==
  ASSUME HarnessShape, FilesInOrder, FlushCsv, ~WriteFails
  PROVE  FilesInOrder'
<1>1. Dimensions' = Dimensions
  BY DEF FlushCsv, Dimensions
<1>2. step = "csv" /\ UNCHANGED mode /\ files' = [files EXCEPT !.csv = RunsInHand]
  BY DEF FlushCsv, WriteFails
<1>3. /\ files'.status = files.status /\ files'.json = files.json /\ files'.csv = RunsInHand
      /\ files'.result = files.result /\ files'.partial = files.partial
  BY <1>2 DEF HarnessShape
<1>4. files.json = RunsInHand /\ files.status = trial.status
  BY <1>2 DEF FilesInOrder, FilesFollowTrial
<1>5. Len(Dimensions) \in Nat /\ trial.cell \in Nat \ {0}
  BY RepeatsAreCounted DEF HarnessShape
<1>6. RepeatsOver = IF trial.cell - 1 <= Len(Dimensions) THEN trial.cell - 1 ELSE Len(Dimensions)
  BY RepeatsAreCounted
<1>7. RunsInHand = FirstRepeats(IF trial.status = "in_progress" THEN trial.cell ELSE RepeatsOver)
  BY RepeatsAreCounted DEF FirstRepeats
<1>8. trial.status = "in_progress" => trial.cell <= Len(Dimensions)
  BY <1>2, <1>5 DEF FilesInOrder, TrialInOrder, MatrixOver
<1>9. ~files.partial
  BY <1>2 DEF FilesInOrder, ResultComesLast, Stopped
<1>10. files.result = <<>> \/ trial.status = "completed"
  BY DEF FilesInOrder, ResultComesLast
<1>11. FilesInStep'
  <2> DEFINE n == IF trial.status = "in_progress" THEN trial.cell ELSE RepeatsOver
  <2>1. n \in 0..Len(Dimensions)
    BY <1>5, <1>6, <1>8
  <2>2. PICK k \in 0..Len(Dimensions) : RunsInHand = FirstRepeats(k)
    BY <2>1, <1>7
  <2>3. files'.json = FirstRepeats(k) /\ files'.csv = FirstRepeats(k)
    BY <2>2, <1>3, <1>4
  <2> QED
    BY <2>2, <2>3, <1>1 DEF FilesInStep, FirstRepeats
<1>12. CASE trial.status = "started"
  <2>1. step' = "migrate" /\ UNCHANGED trial
    BY <1>12 DEF FlushCsv, WriteFails
  <2>2. RepeatsOver' = RepeatsOver
    BY <1>1, <2>1 DEF RepeatsOver
  <2>3. trial.cell = 1
    BY <1>12 DEF FilesInOrder, TrialInOrder
  <2>4. mode = "smoke" => Len(Dimensions) = 1
    BY DEF Dimensions
  <2>5. TrialInOrder'
    BY <1>1, <1>2, <1>5, <1>12, <2>1, <2>3, <2>4
    DEF TrialInOrder, MatrixOver, HarnessShape, Preparing, InRepeat, Serving
  <2>6. FilesFollowTrial'
    BY <1>1, <1>3, <1>4, <1>7, <1>12, <2>1, <2>2 DEF FilesFollowTrial, FirstRepeats
  <2>7. ResultComesLast'
    BY <1>3, <1>9, <1>10, <1>12, <2>1 DEF ResultComesLast
  <2> QED
    BY <1>11, <2>5, <2>6, <2>7 DEF FilesInOrder
<1>13. CASE trial.status = "in_progress"
  <2>1. /\ trial' = [trial EXCEPT !.cell = @ + 1]
        /\ step' = IF mode = "smoke" /\ trial.cell = Len(Dimensions) THEN "report" ELSE "migrate"
    BY <1>13 DEF FlushCsv, WriteFails
  <2>2. trial'.cell = trial.cell + 1 /\ trial'.status = "in_progress"
    BY <2>1, <1>13 DEF HarnessShape
  <2>3. RepeatsOver' = trial.cell
    <3>1. RepeatsOver' = Min({trial'.cell - 1, Len(Dimensions)})
      BY <1>1 DEF RepeatsOver
    <3>2. trial'.cell - 1 = trial.cell
      BY <2>2, <1>5
    <3> QED
      BY <3>1, <3>2, <1>5, <1>8, <1>13, LeastOfTwo
  <2>4. step' \in {"report", "migrate"}
    BY <2>1
  <2>5. TrialInOrder'
    <3>1. step' = "report" => trial'.cell > Len(Dimensions)
      BY <2>1, <2>2, <1>5
    <3>2. step' = "migrate" =>
            trial'.cell <= Len(Dimensions) + (IF mode = "full" THEN 1 ELSE 0)
      BY <2>1, <2>2, <1>5, <1>8, <1>13 DEF HarnessShape
    <3> QED
      BY <1>1, <1>2, <2>2, <2>4, <3>1, <3>2
      DEF TrialInOrder, MatrixOver, Preparing, InRepeat, Serving
  <2>6. FilesFollowTrial'
    BY <1>1, <1>3, <1>4, <1>7, <1>13, <2>3, <2>4 DEF FilesFollowTrial, FirstRepeats
  <2>7. ResultComesLast'
    BY <1>3, <1>9, <1>10, <1>13, <2>4 DEF ResultComesLast
  <2> QED
    BY <1>11, <2>5, <2>6, <2>7 DEF FilesInOrder
<1>14. CASE trial.status = "failed"
  <2>1. step' = "partial" /\ UNCHANGED trial
    BY <1>14 DEF FlushCsv, WriteFails
  <2>2. TrialInOrder'
    BY <1>1, <1>14, <2>1 DEF TrialInOrder, MatrixOver, Preparing, InRepeat, Serving
  <2>3. FilesFollowTrial'
    BY <2>1 DEF FilesFollowTrial, Preparing, InRepeat, Serving
  <2>4. ResultComesLast'
    BY <1>3, <1>9, <1>10, <1>14, <2>1 DEF ResultComesLast
  <2> QED
    BY <1>11, <2>2, <2>3, <2>4 DEF FilesInOrder
<1>15. CASE trial.status = "completed"
  <2>1. step' = "result" /\ UNCHANGED trial
    BY <1>15 DEF FlushCsv, WriteFails
  <2>2. trial.cell > Len(Dimensions)
    BY <1>15 DEF FilesInOrder, TrialInOrder, MatrixOver
  <2>3. RunsInHand = Dimensions
    <3>1. RepeatsOver = Len(Dimensions)
      BY <2>2, <1>5, <1>6
    <3>2. RunsInHand = FirstRepeats(Len(Dimensions))
      BY <3>1, <1>7, <1>15
    <3> QED
      BY <3>2, RepeatsAreCounted DEF FirstRepeats
  <2>4. TrialInOrder'
    BY <1>1, <1>15, <2>1, <2>2 DEF TrialInOrder, MatrixOver, Preparing, InRepeat, Serving
  <2>5. FilesFollowTrial'
    BY <2>1 DEF FilesFollowTrial, Preparing, InRepeat, Serving
  <2>6. files.result \in {<<>>, Dimensions}
    BY DEF FilesInOrder, ResultComesLast
  <2>7. ResultComesLast'
    BY <1>1, <1>3, <1>4, <1>9, <1>15, <2>1, <2>3, <2>6 DEF ResultComesLast
  <2> QED
    BY <1>11, <2>4, <2>5, <2>7 DEF FilesInOrder
<1> QED
  BY <1>12, <1>13, <1>14, <1>15 DEF HarnessShape

LEMMA VerdictsAreFiledInOrder ==
  ASSUME HarnessShape, FilesInOrder, WritePartial \/ Summarise \/ WriteResult, ~WriteFails
  PROVE  FilesInOrder'
<1>1. Dimensions' = Dimensions
  BY DEF WritePartial, Summarise, WriteResult, Dimensions
<1>2. FilesInOrder
  OBVIOUS
<1> USE DEF FilesInOrder
<1>3. CASE WritePartial
  <2>1. step = "partial" /\ step' = "remove_container" /\ UNCHANGED <<mode, trial>>
    BY <1>3 DEF WritePartial
  <2>2. /\ files'.status = files.status /\ files'.json = files.json /\ files'.csv = files.csv
        /\ files'.result = files.result
    BY <1>3 DEF WritePartial, HarnessShape
  <2>3. trial.status = "failed"
    BY <2>1 DEF TrialInOrder
  <2>4. TrialInOrder'
    BY <1>1, <2>1, <2>3 DEF TrialInOrder, MatrixOver, Preparing, InRepeat, Serving
  <2>5. FilesInStep'
    BY <1>1, <2>2 DEF FilesInStep, FirstRepeats
  <2>6. FilesFollowTrial'
    BY <2>1 DEF FilesFollowTrial, Preparing, InRepeat, Serving
  <2>7. ResultComesLast'
    BY <1>1, <2>1, <2>2, <2>3 DEF ResultComesLast, Stopped
  <2> QED
    BY <2>4, <2>5, <2>6, <2>7
<1>4. CASE Summarise
  <2>1. /\ step = "report" /\ step' = "json" /\ UNCHANGED <<mode, files>>
        /\ trial' = [trial EXCEPT !.status = "completed"]
    BY <1>4 DEF Summarise, WriteFails
  <2>2. trial'.cell = trial.cell /\ trial'.status = "completed"
    BY <2>1 DEF HarnessShape
  <2>3. RepeatsOver' = RepeatsOver
    BY <1>1, <2>2 DEF RepeatsOver
  <2>4. TrialInOrder'
    BY <1>1, <2>1, <2>2 DEF TrialInOrder, MatrixOver, Preparing, InRepeat, Serving
  <2>5. FilesInStep'
    BY <1>1, <2>1 DEF FilesInStep, FirstRepeats
  <2>6. FilesFollowTrial'
    BY <1>1, <2>1, <2>3 DEF FilesFollowTrial, FirstRepeats
  <2>7. files.status \notin {"failed", "completed"}
    BY <2>1 DEF FilesFollowTrial
  <2>8. ResultComesLast'
    BY <1>1, <2>1, <2>2, <2>7 DEF ResultComesLast, Stopped
  <2> QED
    BY <2>4, <2>5, <2>6, <2>8
<1>5. CASE WriteResult
  <2>1. /\ step \in {"result", "result_csv"} /\ step' \in {"result_csv", "remove_container"}
        /\ UNCHANGED <<mode, trial>>
    BY <1>5 DEF WriteResult, WriteFails
  <2>2. /\ files'.status = files.status /\ files'.json = files.json /\ files'.csv = files.csv
        /\ files'.result \in {files.result, RunsInHand} /\ files'.partial = files.partial
    BY <1>5 DEF WriteResult, WriteFails, HarnessShape
  <2>3. /\ trial.status = "completed" /\ files.status = "completed"
        /\ files.json = Dimensions /\ files.csv = Dimensions /\ ~files.partial
    BY <2>1 DEF ResultComesLast, Stopped
  <2>4. trial.cell > Len(Dimensions) /\ trial.cell \in Nat
    BY <2>3 DEF TrialInOrder, MatrixOver, HarnessShape
  <2>5. RunsInHand = Dimensions
    BY <2>3, <2>4, RepeatsAreCounted
  <2>6. TrialInOrder'
    BY <1>1, <2>1, <2>3, <2>4 DEF TrialInOrder, MatrixOver, Preparing, InRepeat, Serving
  <2>7. FilesInStep'
    BY <1>1, <2>2 DEF FilesInStep, FirstRepeats
  <2>8. FilesFollowTrial'
    BY <2>1 DEF FilesFollowTrial, Preparing, InRepeat, Serving
  <2>9. files.result \in {<<>>, Dimensions}
    BY DEF ResultComesLast
  <2>10. ResultComesLast'
    BY <1>1, <2>1, <2>2, <2>3, <2>5, <2>9 DEF ResultComesLast
  <2> QED
    BY <2>6, <2>7, <2>8, <2>10
<1> QED
  BY <1>3, <1>4, <1>5

LEMMA FilesStay ==
  ASSUME HarnessShape, FilesInOrder, [HarnessNext]_harnessVars
  PROVE  FilesInOrder'
<1>1. CASE DropSchema
  BY <1>1, RepeatEndsInOrder
<1>2. CASE (FlushJson \/ FlushCsv \/ WritePartial \/ Summarise \/ WriteResult) /\ ~WriteFails
  BY <1>2, ProgressIsFiledInOrder, TableIsFiledInOrder, VerdictsAreFiledInOrder
<1>3. CASE (FlushJson \/ FlushCsv \/ WritePartial \/ Summarise \/ WriteResult) /\ WriteFails
  <2>1. UNCHANGED mode
    BY <1>3 DEF FlushJson, FlushCsv, WritePartial, Summarise, WriteResult
  <2> QED
    BY <1>3, <2>1, MostStepsAreQuiet, QuietStepsKeepFiles
<1> QED
  BY <1>1, <1>2, <1>3, MostStepsAreQuiet, QuietStepsKeepFiles DEF HarnessNext

LEMMA HarnessHolds ==
  HarnessSpec => []HarnessInvariant
<1>1. HarnessInit => HarnessInvariant
  BY HarnessStarts, FilesStart DEF HarnessInvariant
<1>2. HarnessInvariant /\ [HarnessNext]_harnessVars => HarnessInvariant'
  BY KnowledgeStays, FilesStay DEF HarnessInvariant
<1> QED
  BY <1>1, <1>2, PTL DEF HarnessSpec

\* No file gets shorter, and a progress file that calls the run over stays as it is.
LEMMA FilesGrow ==
  ASSUME HarnessShape, FilesInOrder, [HarnessNext]_harnessVars
  PROVE  /\ UNCHANGED mode
         /\ Len(files.json) <= Len(files'.json)
         /\ Len(files.csv) <= Len(files'.csv)
         /\ files.status \in {"failed", "completed"} => UNCHANGED <<files.status, files.json>>
<1>1. /\ Len(Dimensions) \in Nat /\ trial.cell \in Nat \ {0}
      /\ RepeatsOver = IF trial.cell - 1 <= Len(Dimensions) THEN trial.cell - 1
                       ELSE Len(Dimensions)
      /\ \A n \in 0..Len(Dimensions) : Len(FirstRepeats(n)) = n
      /\ RunsInHand = FirstRepeats(IF trial.status = "in_progress" THEN trial.cell
                                   ELSE RepeatsOver)
  BY RepeatsAreCounted DEF HarnessShape, FirstRepeats
<1>2. RepeatsOver \in 0..Len(Dimensions)
  BY <1>1
<1>3. step \in {"json", "csv"} =>
        /\ Len(RunsInHand) \in Nat
        /\ RepeatsOver <= Len(RunsInHand)
  <2>1. step \in {"json", "csv"} /\ trial.status = "in_progress" => trial.cell <= Len(Dimensions)
    BY <1>1 DEF FilesInOrder, TrialInOrder, MatrixOver
  <2>2. CASE trial.status = "in_progress" /\ step \in {"json", "csv"}
    <3>1. RunsInHand = FirstRepeats(trial.cell) /\ trial.cell \in 0..Len(Dimensions)
      BY <1>1, <2>1, <2>2
    <3> QED
      BY <1>1, <3>1
  <2>3. CASE trial.status # "in_progress"
    BY <1>1, <1>2, <2>3
  <2> QED
    BY <2>2, <2>3
<1>4. PICK n, k \in 0..Len(Dimensions) :
        n \in {k, k + 1} /\ files.json = FirstRepeats(n) /\ files.csv = FirstRepeats(k)
  BY DEF FilesInOrder, FilesInStep
<1>5. Len(files.json) \in Int /\ Len(files.csv) \in Int
  BY <1>1, <1>4
<1>6. CASE FlushJson /\ ~WriteFails
  <2>1. files' = [files EXCEPT !.status = trial.status, !.json = RunsInHand]
        /\ step = "json" /\ UNCHANGED mode
    BY <1>6 DEF FlushJson
  <2>2. files'.json = RunsInHand /\ files'.csv = files.csv
    BY <2>1 DEF HarnessShape
  <2>3. files.json = FirstRepeats(RepeatsOver) /\ files.status \notin {"failed", "completed"}
    BY <2>1 DEF FilesInOrder, FilesFollowTrial
  <2>4. Len(files.json) = RepeatsOver
    BY <1>1, <1>2, <2>3
  <2> QED
    BY <1>3, <1>5, <2>1, <2>2, <2>3, <2>4
<1>7. CASE FlushCsv /\ ~WriteFails
  <2>1. files' = [files EXCEPT !.csv = RunsInHand] /\ step = "csv" /\ UNCHANGED mode
    BY <1>7 DEF FlushCsv, WriteFails
  <2>2. files'.json = files.json /\ files'.csv = RunsInHand /\ files'.status = files.status
    BY <2>1 DEF HarnessShape
  <2>3. Len(files.csv) = RepeatsOver
    BY <1>1, <1>2, <2>1 DEF FilesInOrder, FilesFollowTrial
  <2> QED
    BY <1>3, <1>5, <2>1, <2>2, <2>3
<1>8. CASE ~(FlushJson /\ ~WriteFails) /\ ~(FlushCsv /\ ~WriteFails)
  <2>1. UNCHANGED <<mode, files.json, files.csv, files.status>>
    <3>1. CASE WritePartial \/ WriteResult \/ Summarise \/ DropSchema
      BY <3>1 DEF WritePartial, WriteResult, Summarise, DropSchema, WriteFails, HarnessShape
    <3>2. CASE (FlushJson \/ FlushCsv) /\ WriteFails
      BY <3>2 DEF FlushJson, FlushCsv, WriteFails
    <3> QED
      BY <1>8, <3>1, <3>2, MostStepsAreQuiet DEF HarnessNext
  <2> QED
    BY <1>5, <2>1
<1> QED
  BY <1>6, <1>7, <1>8

\* At every step of the harness, whatever fails and wherever it is killed: no
\* repeat that was filed is lost or reordered, the table is at most one repeat
\* behind the progress file, and a result is written for the whole matrix only,
\* after the progress file calls it complete, never beside a partial diagnostic
\* (flush and the finalisation of run_p1_scale_benchmark.py).
THEOREM FiledEvidenceIsKept ==
  HarnessSpec => EvidenceIsKept
<1> DEFINE Kept ==
      /\ IsPrefix(files.json, files'.json) /\ IsPrefix(files.csv, files'.csv)
      /\ IsPrefix(files'.csv, files'.json) /\ Len(files'.json) - Len(files'.csv) <= 1
      /\ IsPrefix(files'.json, Dimensions)
      /\ files'.result # <<>> => /\ files'.result = Dimensions
                                /\ files'.json = Dimensions /\ files'.csv = Dimensions
                                /\ files'.status = "completed"
                                /\ ~files'.partial
      /\ files.status \in {"failed", "completed"} => UNCHANGED <<files.status, files.json>>
<1>1. ASSUME HarnessInvariant, [HarnessNext]_harnessVars
      PROVE  Kept
  <2>1. HarnessShape /\ FilesInOrder /\ FilesInOrder'
    BY <1>1, FilesStay DEF HarnessInvariant
  <2>2. /\ UNCHANGED mode
        /\ Len(files.json) <= Len(files'.json) /\ Len(files.csv) <= Len(files'.csv)
        /\ files.status \in {"failed", "completed"} => UNCHANGED <<files.status, files.json>>
    BY <1>1, <2>1, FilesGrow
  <2>3. Dimensions' = Dimensions
    BY <2>2 DEF Dimensions
  <2>4. PICK S : Dimensions \in Seq(S)
    BY MatrixIsASequence
  <2> DEFINE D == Dimensions
  <2>5. PICK n, k \in 0..Len(D) :
          n \in {k, k + 1} /\ files.json = SubSeq(D, 1, n) /\ files.csv = SubSeq(D, 1, k)
    BY <2>1 DEF FilesInOrder, FilesInStep, FirstRepeats
  <2>6. PICK m, l \in 0..Len(D) :
          m \in {l, l + 1} /\ files'.json = SubSeq(D, 1, m) /\ files'.csv = SubSeq(D, 1, l)
    BY <2>1, <2>3 DEF FilesInOrder, FilesInStep, FirstRepeats
  <2>7. Len(D) \in Nat /\ SubSeq(D, 1, Len(D)) = D
    BY <2>4, SubSeqFull
  <2>8. /\ Len(files.json) = n /\ Len(files.csv) = k
        /\ Len(files'.json) = m /\ Len(files'.csv) = l
    BY <2>4, <2>5, <2>6, FirstOnes
  <2>9. n <= m /\ k <= l /\ l <= m /\ m - l <= 1
    BY <2>2, <2>6, <2>7, <2>8
  <2>10. IsPrefix(files.json, files'.json)
    BY <2>4, <2>5, <2>6, <2>7, <2>9, FirstOnesAreAPrefix
  <2>11. IsPrefix(files.csv, files'.csv)
    BY <2>4, <2>5, <2>6, <2>7, <2>9, FirstOnesAreAPrefix
  <2>12. IsPrefix(files'.csv, files'.json)
    BY <2>4, <2>6, <2>7, <2>9, FirstOnesAreAPrefix
  <2>13. IsPrefix(files'.json, D)
    <3>1. IsPrefix(SubSeq(D, 1, m), SubSeq(D, 1, Len(D)))
      BY <2>4, <2>6, <2>7, FirstOnesAreAPrefix
    <3> QED
      BY <3>1, <2>6, <2>7
  <2>14. files'.result # <<>> => /\ files'.result = D /\ files'.json = D /\ files'.csv = D
                                /\ files'.status = "completed" /\ ~files'.partial
    BY <2>1, <2>3 DEF FilesInOrder, ResultComesLast
  <2> QED
    BY <2>2, <2>8, <2>9, <2>10, <2>11, <2>12, <2>13, <2>14
<1>2. HarnessInvariant /\ [HarnessNext]_harnessVars => [Kept]_harnessVars
  BY <1>1
<1>3. HarnessSpec => [][Kept]_harnessVars
  BY <1>2, HarnessHolds, PTL DEF HarnessSpec
<1> QED
  BY <1>3 DEF EvidenceIsKept

-----------------------------------------------------------------------------
(* ScaleHarness: what it vouches for *)

\* The n-th valid identifier of a phase.
ValidIds(phase, n) == {<<phase, "valid", i>> : i \in 1..n}

LEMMA ValidIdsAreCounted ==
  ASSUME NEW phase, NEW n \in Nat
  PROVE  IsFiniteSet(ValidIds(phase, n)) /\ Cardinality(ValidIds(phase, n)) = n
<1> DEFINE g == [i \in 1..n |-> <<phase, "valid", i>>]
           T == ValidIds(phase, n)
<1>1. IsFiniteSet(1..n) /\ Cardinality(1..n) = n
  BY FS_Interval
<1>2. g \in [1..n -> T] /\ \A t \in T : \E i \in 1..n : g[i] = t
  BY DEF ValidIds
<1>3. \A i, j \in 1..n : g[i] = g[j] => i = j
  OBVIOUS
<1> HIDE DEF g, T
<1>4. IsFiniteSet(T) /\ Cardinality(T) = Cardinality(1..n)
  BY <1>1, <1>2, <1>3, ImageIsFinite
<1> QED
  BY <1>1, <1>4 DEF T

LEMMA WorkloadsAreFinite ==
  ASSUME NEW phase \in Phases
  PROVE  /\ IsFiniteSet(BuildWorkload(phase))
         /\ phase = "growth" => Cardinality(BuildWorkload(phase)) = GrowthRequests
<1>1. ASSUME NEW kind, NEW n \in Nat
      PROVE  /\ IsFiniteSet({Request(kind, phase, i, 0) : i \in 1..n})
             /\ Cardinality({Request(kind, phase, i, 0) : i \in 1..n}) = n
  <2> DEFINE T == {Request(kind, phase, i, 0) : i \in 1..n}
             g == [i \in 1..n |-> Request(kind, phase, i, 0)]
  <2>1. IsFiniteSet(1..n) /\ Cardinality(1..n) = n
    BY FS_Interval
  <2>2. g \in [1..n -> T] /\ \A t \in T : \E i \in 1..n : g[i] = t
    OBVIOUS
  <2>3. \A i, j \in 1..n : g[i] = g[j] => i = j
    <3> SUFFICES ASSUME NEW i \in 1..n, NEW j \in 1..n, g[i] = g[j] PROVE i = j
      OBVIOUS
    <3>1. Request(kind, phase, i, 0).id = Request(kind, phase, j, 0).id
      OBVIOUS
    <3> QED
      BY <3>1 DEF Request
  <2> HIDE DEF g, T
  <2>4. IsFiniteSet(T) /\ Cardinality(T) = Cardinality(1..n)
    BY <2>1, <2>2, <2>3, ImageIsFinite
  <2> QED
    BY <2>1, <2>4 DEF T
<1>2. CASE phase = "growth"
  <2>1. BuildWorkload(phase) = {Request("valid", phase, i, 0) : i \in 1..GrowthRequests}
    BY <1>2 DEF BuildWorkload
  <2>2. GrowthRequests \in Nat
    BY HarnessAssumption
  <2>3. /\ IsFiniteSet({Request("valid", phase, i, 0) : i \in 1..GrowthRequests})
        /\ Cardinality({Request("valid", phase, i, 0) : i \in 1..GrowthRequests}) = GrowthRequests
    BY <1>1, <2>2
  <2> QED
    BY <2>1, <2>3
<1>3. CASE phase # "growth"
  <2>1. phase \in {"warmup", "measured"}
    BY <1>3 DEF Phases
  <2> DEFINE m == Mix[phase]
  <2>2. m.valid \in Nat /\ m.sources \in Nat /\ m.each \in Nat /\ m.malformed \in Nat
    BY <2>1, HarnessAssumption
  <2> DEFINE originals == {Request("valid", phase, i, 0) : i \in 1..m.valid}
             replays == {Request("replay", phase, i, c) : i \in 1..m.sources, c \in 1..m.each}
             invalid == {Request("malformed", phase, i, 0) : i \in 1..m.malformed}
  <2>3. BuildWorkload(phase) = (originals \cup replays) \cup invalid
    BY <1>3 DEF BuildWorkload
  <2>4. IsFiniteSet(originals) /\ IsFiniteSet(invalid)
    BY <2>2, <1>1
  <2> HIDE DEF m
  <2>5. IsFiniteSet(replays)
    <3> DEFINE P == (1..m.sources) \X (1..m.each)
    <3> DEFINE g == [p \in P |-> Request("replay", phase, p[1], p[2])]
    <3>0. \A k \in Nat : IsFiniteSet(1..k)
      BY FS_Interval
    <3>1. IsFiniteSet(1..m.sources) /\ IsFiniteSet(1..m.each)
      BY <2>2, <3>0
    <3>2. IsFiniteSet(P)
      BY <3>1, FS_Product
    <3>3. g \in [P -> replays]
      OBVIOUS
    <3>4. ASSUME NEW t \in replays
          PROVE  \E p \in P : g[p] = t
      <4>1. PICK i \in 1..m.sources, c \in 1..m.each : t = Request("replay", phase, i, c)
        OBVIOUS
      <4>2. <<i, c>> \in P /\ g[<<i, c>>] = t
        BY <4>1
      <4> QED
        BY <4>2
    <3> HIDE DEF g, P, replays
    <3> QED
      BY <3>2, <3>3, <3>4, ImageIsFinite
  <2> HIDE DEF originals, replays, invalid
  <2>6. IsFiniteSet(originals \cup replays)
    BY <2>4, <2>5, FS_Union
  <2>7. IsFiniteSet((originals \cup replays) \cup invalid)
    BY <2>4, <2>6, FS_Union
  <2> QED
    BY <1>3, <2>3, <2>7
<1> QED
  BY <1>2, <1>3

LEMMA IdsAreFinite ==
  IsFiniteSet(AllRequests) /\ IsFiniteSet(Ids)
<1> DEFINE w == BuildWorkload("warmup")  m == BuildWorkload("measured")  g == BuildWorkload("growth")
<1>1. AllRequests = (w \cup m) \cup g
  BY DEF AllRequests, Phases
<1>2. IsFiniteSet(w) /\ IsFiniteSet(m) /\ IsFiniteSet(g)
  BY WorkloadsAreFinite DEF Phases
<1> HIDE DEF w, m, g
<1>3. IsFiniteSet(w \cup m)
  BY <1>2, FS_Union
<1>4. IsFiniteSet(AllRequests)
  BY <1>1, <1>2, <1>3, FS_Union
<1> DEFINE name == [r \in AllRequests |-> r.id]
<1>5. name \in [AllRequests -> Ids] /\ \A id \in Ids : \E r \in AllRequests : name[r] = id
  BY DEF Ids
<1> HIDE DEF name
<1> QED
  BY <1>4, <1>5, ImageIsFinite

LEMMA TotalIsANumber ==
  ASSUME NEW events \in [Ids -> Nat]
  PROVE  Total(events) \in Nat /\ Total(events) = Sums(events, Ids)[Ids]
<1>1. Total(events) = Sums(events, Ids)[Ids]
  BY DEF Total, MapThenSumSet, MapThenFoldSet, Sums
<1> QED
  BY <1>1, IdsAreFinite, SumsAreNumbers

LEMMA NothingIsInTotal ==
  Total(NoEvents) = 0
<1>1. NoEvents \in [Ids -> Nat] /\ \A id \in Ids : NoEvents[id] = 0
  BY DEF NoEvents
<1> DEFINE iter == Sums(NoEvents, Ids)
<1> DEFINE T == {s \in SUBSET Ids : iter[s] = 0}
<1>2. iter[{}] = 0
  BY <1>1, IdsAreFinite, SumsAreNumbers
<1>3. ASSUME NEW s \in SUBSET Ids, s # {}, \A x \in s : s \ {x} \in T
      PROVE  s \in T
  <2>1. PICK x \in s : TRUE
    BY <1>3
  <2>2. iter[s] = NoEvents[x] + iter[s \ {x}]
    BY <1>1, <2>1, IdsAreFinite, SumsApart
  <2>3. iter[s \ {x}] = 0 /\ NoEvents[x] = 0
    BY <1>1, <1>3, <2>1
  <2> HIDE DEF iter
  <2> QED
    BY <2>2, <2>3
<1> HIDE DEF iter
<1>4. {} \in T
  BY <1>2
<1> HIDE DEF T
<1>5. \A s \in SUBSET Ids : s \in T
  BY <1>3, <1>4, IdsAreFinite, SubsetInduction
<1> QED
  BY <1>1, <1>5, TotalIsANumber DEF T, iter

\* The growth procedure has one request under way.
LEMMA OneIsSubmitted ==
  ASSUME NEW c, IsFiniteSet(c.unsent), NEW S \in SUBSET c.unsent,
         Cardinality(S) = Min({1, Cardinality(c.unsent)})
  PROVE  \A r, q \in S : r = q
<1>1. Cardinality(c.unsent) \in Nat /\ IsFiniteSet(S) /\ Cardinality(S) \in Nat
  BY FS_CardinalityType, FS_Subset
<1>2. Cardinality(S) \in {0, 1}
  BY <1>1, LeastOfTwo
<1>3. CASE Cardinality(S) = 0
  BY <1>1, <1>3, FS_EmptySet
<1>4. CASE Cardinality(S) = 1
  BY <1>1, <1>4, OneMember
<1> QED
  BY <1>2, <1>3, <1>4

\* What a refill does: some of what is unsent is submitted.
IsClient(c) == c = [unsent |-> c.unsent, pending |-> c.pending, replies |-> c.replies]

Submits(c, d, S) ==
  /\ IsClient(d) /\ d.replies = c.replies
  /\ d.unsent = c.unsent \ S /\ d.pending = c.pending \cup S

LEMMA RefillSubmits ==
  ASSUME NEW c, IsClient(c), NEW k, NEW d \in Refill(c, k)
  PROVE  \E S \in SUBSET c.unsent :
           Submits(c, d, S) /\ (k = 1 /\ IsFiniteSet(c.unsent) => \A r, q \in S : r = q)
<1>1. PICK S \in SUBSET c.unsent :
        /\ Cardinality(S) = Min({k, Cardinality(c.unsent)})
        /\ d = [c EXCEPT !.unsent = @ \ S, !.pending = @ \cup S]
  BY DEF Refill
<1>2. Submits(c, d, S)
  BY <1>1 DEF IsClient, Submits
<1>3. k = 1 /\ IsFiniteSet(c.unsent) => \A r, q \in S : r = q
  BY <1>1, OneIsSubmitted
<1> QED
  BY <1>1, <1>2, <1>3

\* Judged answers: each identifier has an event, whose receipt they carry.
LEMMA JudgedAnswersAreScored ==
  ASSUME OriginalsHaveEvents, server.events \in [Ids -> Nat],
         NEW phase \in Phases, SummaryHolds(phase), ResponseGroupsHold
  PROVE  /\ Scored(phase)
         /\ \A r \in DOMAIN client.replies : r.kind # "malformed" =>
              /\ client.replies[r].status = "ok"
              /\ \E k \in 1..server.events[r.id] : client.replies[r].receipt = <<r.id, k>>
<1> DEFINE successes == {r \in DOMAIN client.replies : client.replies[r].status = "ok"}
           group(id) == {r \in successes : r.id = id}
           originals(id) == {r \in group(id) : ~client.replies[r].replay}
           evidence(r) == <<client.replies[r].receipt, client.replies[r].body>>
           shown(id) == {evidence(r) : r \in group(id)}
<1>1. /\ DOMAIN client.replies = BuildWorkload(phase)
      /\ \A r \in DOMAIN client.replies : ContractValid(r, client.replies[r])
  BY DEF SummaryHolds
<1>2. \A id \in {r.id : r \in successes} :
        Cardinality(originals(id)) = 1 /\ Cardinality(shown(id)) = 1
  BY DEF ResponseGroupsHold
<1>3. \A r \in BuildWorkload(phase) : r \in AllRequests /\ r.id \in Ids
  BY DEF AllRequests, Ids
<1>4. IsFiniteSet(successes)
  <2>1. IsFiniteSet(DOMAIN client.replies)
    BY <1>1, WorkloadsAreFinite
  <2> QED
    BY <2>1, FS_Subset
<1>5. ASSUME NEW r \in DOMAIN client.replies, r.kind # "malformed"
      PROVE  /\ client.replies[r].status = "ok"
             /\ \E k \in 1..server.events[r.id] : client.replies[r].receipt = <<r.id, k>>
  <2>1. r \in successes /\ client.replies[r].status = "ok"
    BY <1>1, <1>5 DEF ContractValid
  <2>2. Cardinality(originals(r.id)) = 1 /\ Cardinality(shown(r.id)) = 1
    BY <1>2, <2>1
  <2>3. IsFiniteSet(group(r.id))
    BY <1>4, FS_Subset
  <2>4. IsFiniteSet(originals(r.id))
    BY <2>3, FS_Subset
  <2>5. IsFiniteSet(shown(r.id))
    <3> DEFINE S == group(r.id)
               T == shown(r.id)
               g == [q \in S |-> evidence(q)]
    <3>1. g \in [S -> T] /\ \A t \in T : \E q \in S : g[q] = t
      OBVIOUS
    <3>2. IsFiniteSet(S)
      BY <2>3
    <3> HIDE DEF S, T, g
    <3>3. IsFiniteSet(T)
      BY <3>1, <3>2, ImageIsFinite
    <3> QED
      BY <3>3 DEF T
  <2>6. PICK o \in originals(r.id) : TRUE
    BY <2>2, <2>4, OneMember
  <2>7. o \in successes /\ o.id = r.id /\ ~client.replies[o].replay
    OBVIOUS
  <2>8. client.replies[o].shaped
    BY <1>1, <2>7 DEF ContractValid
  <2>9. PICK k \in 1..server.events[r.id] : client.replies[o].receipt = <<r.id, k>>
    BY <2>7, <2>8 DEF OriginalsHaveEvents
  <2>10. evidence(r) = evidence(o)
    <3>1. evidence(r) \in shown(r.id) /\ evidence(o) \in shown(r.id)
      BY <2>1, <2>7
    <3> HIDE DEF shown, evidence
    <3> QED
      BY <2>2, <2>5, <3>1, OneMember
  <2>11. client.replies[r].receipt = client.replies[o].receipt
    BY <2>10
  <2> QED
    BY <2>1, <2>9, <2>11
<1>6. Scored(phase)
  <2> SUFFICES ASSUME NEW r \in BuildWorkload(phase), r.kind # "malformed"
               PROVE  server.events[r.id] >= 1
    BY DEF Scored
  <2>1. PICK k \in 1..server.events[r.id] : TRUE
    BY <1>1, <1>5
  <2>2. server.events[r.id] \in Nat
    BY <1>3
  <2> QED
    BY <2>1, <2>2
<1> QED
  BY <1>5, <1>6

\* What the workloads of an accepted trial have: the valid identifiers, and for
\* the rest requests that repeat one of them or are malformed.
LEMMA WorkloadIds ==
  ASSUME NEW phase \in Phases, NEW n \in Nat,
         n = IF phase = "growth" THEN GrowthRequests ELSE Mix[phase].valid
  PROVE  /\ \A r \in BuildWorkload(phase) :
              IF r.kind = "malformed" THEN \E i \in Nat : r.id = <<phase, "invalid", i>>
              ELSE r.id \in ValidIds(phase, n)
         /\ \A id \in ValidIds(phase, n) :
              \E r \in BuildWorkload(phase) : r.kind # "malformed" /\ r.id = id
         /\ ValidIds(phase, n) \subseteq Ids
<1>1. CASE phase = "growth"
  <2>1. BuildWorkload(phase) = {Request("valid", phase, i, 0) : i \in 1..n}
    BY <1>1 DEF BuildWorkload
  <2>2. \A i \in 1..n : /\ Request("valid", phase, i, 0).kind = "valid"
                        /\ Request("valid", phase, i, 0).id = <<phase, "valid", i>>
    BY DEF Request
  <2> QED
    BY <2>1, <2>2 DEF ValidIds, AllRequests, Ids
<1>2. CASE phase # "growth"
  <2>1. phase \in {"warmup", "measured"}
    BY <1>2 DEF Phases
  <2> DEFINE m == Mix[phase]
  <2>2. /\ m.valid = n /\ m.sources \in Nat /\ m.each \in Nat /\ m.malformed \in Nat
        /\ m.sources <= n
    BY <1>2, <2>1, HarnessAssumption
  <2>3. BuildWorkload(phase) =
          {Request("valid", phase, i, 0) : i \in 1..n}
          \cup {Request("replay", phase, i, c) : i \in 1..m.sources, c \in 1..m.each}
          \cup {Request("malformed", phase, i, 0) : i \in 1..m.malformed}
    BY <1>2, <2>2 DEF BuildWorkload
  <2> HIDE DEF m
  <2>4. \A i : /\ Request("valid", phase, i, 0).kind = "valid"
               /\ Request("valid", phase, i, 0).id = <<phase, "valid", i>>
               /\ Request("malformed", phase, i, 0).kind = "malformed"
               /\ Request("malformed", phase, i, 0).id = <<phase, "invalid", i>>
               /\ \A c : /\ Request("replay", phase, i, c).kind = "replay"
                         /\ Request("replay", phase, i, c).id = <<phase, "valid", i>>
    BY DEF Request
  <2>5. \A i \in 1..m.sources : i \in 1..n
    BY <2>2
  <2>6. \A r \in BuildWorkload(phase) :
              IF r.kind = "malformed" THEN \E i \in Nat : r.id = <<phase, "invalid", i>>
              ELSE r.id \in ValidIds(phase, n)
    <3> SUFFICES ASSUME NEW r \in BuildWorkload(phase)
                 PROVE  IF r.kind = "malformed" THEN \E i \in Nat : r.id = <<phase, "invalid", i>>
                        ELSE r.id \in ValidIds(phase, n)
      OBVIOUS
    <3>1. CASE \E i \in 1..n : r = Request("valid", phase, i, 0)
      BY <2>4, <3>1, ZenonT(60) DEF ValidIds
    <3>2. CASE \E i \in 1..m.sources, c \in 1..m.each : r = Request("replay", phase, i, c)
      <4>1. PICK i \in 1..m.sources, c \in 1..m.each : r = Request("replay", phase, i, c)
        BY <3>2
      <4>2. r.kind = "replay" /\ r.id = <<phase, "valid", i>> /\ i \in 1..n
        BY <2>4, <2>5, <4>1
      <4>3. r.id \in ValidIds(phase, n)
        BY <4>2 DEF ValidIds
      <4> QED
        BY <4>2, <4>3
    <3>3. CASE \E i \in 1..m.malformed : r = Request("malformed", phase, i, 0)
      <4>1. PICK i \in 1..m.malformed : r = Request("malformed", phase, i, 0)
        BY <3>3
      <4>2. i \in Nat
        BY <2>2
      <4> QED
        BY <2>4, <4>1, <4>2
    <3> QED
      BY <2>3, <3>1, <3>2, <3>3
  <2>7. \A id \in ValidIds(phase, n) :
          \E r \in BuildWorkload(phase) : r.kind # "malformed" /\ r.id = id
    <3> SUFFICES ASSUME NEW i \in 1..n
                 PROVE  \E r \in BuildWorkload(phase) :
                          r.kind # "malformed" /\ r.id = <<phase, "valid", i>>
      BY DEF ValidIds
    <3>1. Request("valid", phase, i, 0) \in BuildWorkload(phase)
      BY <2>3
    <3> QED
      BY <2>4, <3>1
  <2> QED
    BY <2>6, <2>7 DEF AllRequests, Ids
<1> QED
  BY <1>1, <1>2

\* As many events as valid identifiers were sent, and one at least for each.
LEMMA CountsSettleEvents ==
  ASSUME NEW events \in [Ids -> Nat], NEW A \in SUBSET Ids,
         \A id \in A : events[id] >= 1, Total(events) = Cardinality(A)
  PROVE  \A id \in Ids : events[id] = IF id \in A THEN 1 ELSE 0
BY IdsAreFinite, TotalIsANumber, SumsOfOnes

\* The receipts that answers carry are then those of the only events.
LEMMA OnlyReceipts ==
  ASSUME ClientInOrder, NEW r \in DOMAIN client.replies, server.events[r.id] = 1,
         client.replies[r].status = "ok",
         \E k \in 1..server.events[r.id] : client.replies[r].receipt = <<r.id, k>>
  PROVE  client.replies[r] = [client.replies[r] EXCEPT !.status = "ok", !.receipt = <<r.id, 1>>]
<1> DEFINE reply == client.replies[r]
<1>1. reply = [status |-> reply.status, shaped |-> reply.shaped, replay |-> reply.replay,
               receipt |-> reply.receipt, body |-> reply.body]
  BY DEF ClientInOrder, Reply
<1>2. reply.status = "ok" /\ reply.receipt = <<r.id, 1>>
  <2>1. PICK k \in 1..1 : reply.receipt = <<r.id, k>>
    OBVIOUS
  <2>2. k = 1
    OBVIOUS
  <2> QED
    BY <2>1, <2>2
<1> HIDE DEF reply
<1>3. reply = [reply EXCEPT !.status = "ok", !.receipt = <<r.id, 1>>]
  BY <1>1, <1>2
<1> QED
  BY <1>3 DEF reply

LEMMA RepeatIsVouchedFor ==
  ASSUME VerdictInvariant, step = "drop", trial.error = "none", ~Growing
  PROVE  AcceptedMeansExactlyOnce
<1> DEFINE w == Mix["warmup"].valid
           m == Mix["measured"].valid
           A == ValidIds("warmup", w) \cup ValidIds("measured", m)
           sent == BuildWorkload("warmup") \cup BuildWorkload("measured")
<1>1. /\ ClientInOrder /\ OriginalsHaveEvents /\ MeasuredInOrder
      /\ server.events \in [Ids -> Nat]
  BY DEF VerdictInvariant, ClientInOrder
<1>2. /\ Scored("warmup") /\ SummaryHolds("measured") /\ ResponseGroupsHold
      /\ trial.counts.before = 0 /\ trial.counts.after = Total(server.events) /\ AuditReconciles
  BY <1>1 DEF MeasuredInOrder
<1>3. w \in Nat /\ m \in Nat
  BY HarnessAssumption
<1>4. Total(server.events) = w + m
  <2>1. trial.counts.between \in Nat /\ trial.counts.after \in Nat
    BY <1>1 DEF ClientInOrder
  <2> QED
    BY <1>2, <1>3, <2>1 DEF AuditReconciles
<1>5. Scored("measured") /\ \A r \in DOMAIN client.replies : r.kind # "malformed" =>
        /\ client.replies[r].status = "ok"
        /\ \E k \in 1..server.events[r.id] : client.replies[r].receipt = <<r.id, k>>
  BY <1>1, <1>2, JudgedAnswersAreScored DEF Phases
<1> HIDE DEF w, m
<1>6. /\ ValidIds("warmup", w) \subseteq Ids /\ ValidIds("measured", m) \subseteq Ids
      /\ \A id \in ValidIds("warmup", w) :
           \E r \in BuildWorkload("warmup") : r.kind # "malformed" /\ r.id = id
      /\ \A id \in ValidIds("measured", m) :
           \E r \in BuildWorkload("measured") : r.kind # "malformed" /\ r.id = id
      /\ \A r \in BuildWorkload("warmup") :
           IF r.kind = "malformed" THEN \E i \in Nat : r.id = <<"warmup", "invalid", i>>
           ELSE r.id \in ValidIds("warmup", w)
      /\ \A r \in BuildWorkload("measured") :
           IF r.kind = "malformed" THEN \E i \in Nat : r.id = <<"measured", "invalid", i>>
           ELSE r.id \in ValidIds("measured", m)
  <2>1. w = Mix["warmup"].valid /\ m = Mix["measured"].valid
    BY DEF w, m
  <2> QED
    BY <1>3, <2>1, WorkloadIds DEF Phases
<1>7. Cardinality(A) = w + m
  <2>1. ValidIds("warmup", w) \cap ValidIds("measured", m) = {}
    BY DEF ValidIds
  <2>2. /\ IsFiniteSet(ValidIds("warmup", w)) /\ Cardinality(ValidIds("warmup", w)) = w
        /\ IsFiniteSet(ValidIds("measured", m)) /\ Cardinality(ValidIds("measured", m)) = m
    BY <1>3, ValidIdsAreCounted
  <2>3. Cardinality(A) = w + m - Cardinality({})
    BY <2>1, <2>2, FS_Union
  <2> QED
    BY <1>3, <2>3, FS_EmptySet
<1>8. \A id \in A : server.events[id] >= 1
  BY <1>2, <1>5, <1>6 DEF Scored
<1>9. A \subseteq Ids
  BY <1>6
<1>10. \A id \in Ids : server.events[id] = IF id \in A THEN 1 ELSE 0
  <2> HIDE DEF A
  <2> QED
    BY <1>1, <1>4, <1>7, <1>8, <1>9, CountsSettleEvents
<1>11. \A r \in sent : /\ r.id \in Ids
                       /\ IF r.kind = "malformed" THEN r.id \notin A ELSE r.id \in A
  <2>1. \A r \in sent : r.id \in Ids
    BY DEF AllRequests, Ids, Phases
  <2>2. ASSUME NEW r, NEW phase, NEW i, r.id = <<phase, "invalid", i>>
        PROVE  r.id \notin A
    BY <2>2 DEF ValidIds
  <2>3. ValidIds("warmup", w) \subseteq A /\ ValidIds("measured", m) \subseteq A
    OBVIOUS
  <2> HIDE DEF A
  <2>4. \A r \in BuildWorkload("warmup") :
          IF r.kind = "malformed" THEN r.id \notin A ELSE r.id \in A
    BY <1>6, <2>2, <2>3
  <2>5. \A r \in BuildWorkload("measured") :
          IF r.kind = "malformed" THEN r.id \notin A ELSE r.id \in A
    BY <1>6, <2>2, <2>3
  <2> QED
    BY <2>1, <2>4, <2>5
<1>12. sent = UNION {BuildWorkload(phase) :
                       phase \in IF Growing THEN {"growth"} ELSE {"warmup", "measured"}}
  OBVIOUS
<1>13. ScoredExactlyOnce({r.id : r \in {q \in sent : q.kind # "malformed"}})
  BY <1>10, <1>11 DEF ScoredExactlyOnce
<1>14. \A r \in sent : r.kind = "malformed" => server.events[r.id] = 0
  BY <1>10, <1>11
<1>15. \A r \in DOMAIN client.replies :
         r.kind # "malformed" =>
           client.replies[r] = [client.replies[r] EXCEPT !.status = "ok", !.receipt = <<r.id, 1>>]
  <2> SUFFICES ASSUME NEW r \in DOMAIN client.replies, r.kind # "malformed"
               PROVE  client.replies[r] =
                        [client.replies[r] EXCEPT !.status = "ok", !.receipt = <<r.id, 1>>]
    OBVIOUS
  <2>1. r \in sent
    BY <1>2 DEF SummaryHolds
  <2>2. server.events[r.id] = 1
    BY <1>10, <1>11, <2>1
  <2> QED
    BY <1>1, <1>5, <2>2, OnlyReceipts
<1> HIDE DEF sent
<1> QED
  BY <1>12, <1>13, <1>14, <1>15 DEF AcceptedMeansExactlyOnce

LEMMA GrowthIsVouchedFor ==
  ASSUME VerdictInvariant, step = "drop", trial.error = "none", Growing
  PROVE  AcceptedMeansExactlyOnce
<1> DEFINE sent == BuildWorkload("growth")
           A == ValidIds("growth", GrowthRequests)
<1>1. /\ ClientInOrder /\ OriginalsHaveEvents /\ GrowthInOrder
      /\ server.events \in [Ids -> Nat] /\ GrowthRequests \in Nat
  BY HarnessAssumption DEF VerdictInvariant, ClientInOrder
<1>2. /\ Total(server.events) = GrowthRequests /\ DOMAIN client.replies = sent
      /\ \A r \in DOMAIN client.replies :
           ContractValid(r, client.replies[r]) /\ ~client.replies[r].replay
  BY <1>1 DEF GrowthInOrder
<1>3. /\ A \subseteq Ids
      /\ \A r \in sent : IF r.kind = "malformed" THEN \E i \in Nat : r.id = <<"growth", "invalid", i>>
                         ELSE r.id \in A
      /\ \A id \in A : \E r \in sent : r.kind # "malformed" /\ r.id = id
  BY <1>1, WorkloadIds DEF Phases
<1>4. \A r \in sent : r.kind = "valid" /\ r.id \in Ids
  BY DEF BuildWorkload, Request, AllRequests, Ids, Phases
<1>5. ASSUME NEW r \in sent
      PROVE  /\ client.replies[r].status = "ok"
             /\ \E k \in 1..server.events[r.id] : client.replies[r].receipt = <<r.id, k>>
  <2>1. client.replies[r].status = "ok" /\ client.replies[r].shaped /\ ~client.replies[r].replay
    BY <1>2, <1>4, <1>5 DEF ContractValid
  <2> QED
    BY <1>1, <1>2, <1>5, <2>1 DEF OriginalsHaveEvents
<1>6. \A id \in A : server.events[id] >= 1
  <2> SUFFICES ASSUME NEW id \in A PROVE server.events[id] >= 1
    OBVIOUS
  <2>1. PICK r \in sent : r.id = id
    BY <1>3
  <2>2. PICK k \in 1..server.events[id] : TRUE
    BY <1>5, <2>1
  <2>3. server.events[id] \in Nat
    BY <1>1, <1>3
  <2> QED
    BY <2>2, <2>3
<1>7. Cardinality(A) = GrowthRequests
  BY <1>1, ValidIdsAreCounted
<1> HIDE DEF A, sent
<1>8. \A id \in Ids : server.events[id] = IF id \in A THEN 1 ELSE 0
  BY <1>1, <1>2, <1>3, <1>6, <1>7, CountsSettleEvents
<1>9. \A r \in sent : server.events[r.id] = 1 /\ r.kind # "malformed"
  BY <1>3, <1>4, <1>8
<1>10. \A r \in DOMAIN client.replies :
         client.replies[r] = [client.replies[r] EXCEPT !.status = "ok", !.receipt = <<r.id, 1>>]
  BY <1>1, <1>2, <1>5, <1>9, OnlyReceipts
<1>11. sent = UNION {BuildWorkload(phase) :
                       phase \in IF Growing THEN {"growth"} ELSE {"warmup", "measured"}}
  BY DEF sent
<1>12. ScoredExactlyOnce({r.id : r \in {q \in sent : q.kind # "malformed"}})
  BY <1>9 DEF ScoredExactlyOnce
<1> QED
  BY <1>9, <1>10, <1>11, <1>12 DEF AcceptedMeansExactlyOnce

LEMMA VerdictStarts ==
  ASSUME HarnessInit
  PROVE  VerdictInvariant
<1>1. NoEvents \in [Ids -> Nat]
  BY DEF NoEvents
<1>2. client = Idle /\ DOMAIN client.replies = {} /\ client.unsent = {} /\ client.pending = {}
  BY DEF HarnessInit, Idle
<1>3. step = "start" /\ server.events = NoEvents
      /\ trial.counts = [before |-> 0, between |-> 0, after |-> 0]
  BY DEF HarnessInit
<1>4. ClientInOrder
  BY <1>1, <1>2, <1>3 DEF ClientInOrder, Idle, WithClient
<1>5. OriginalsHaveEvents
  BY <1>2 DEF OriginalsHaveEvents
<1> QED
  BY <1>3, <1>4, <1>5 DEF VerdictInvariant, MeasuredInOrder, GrowthInOrder

\* Between two repeats there is no workload, and nothing to vouch for yet.
LEMMA VerdictWithoutClient ==
  ASSUME VerdictInvariant, client' = Idle, server'.events \in [Ids -> Nat],
         trial'.counts = trial.counts, step' \notin WithClient, step' # "before",
         step' = "api" => server'.events = NoEvents
  PROVE  VerdictInvariant'
<1>1. DOMAIN client'.replies = {} /\ client'.unsent = {} /\ client'.pending = {}
  BY DEF Idle
<1>2. ClientInOrder'
  BY <1>1 DEF VerdictInvariant, ClientInOrder, Idle
<1>3. OriginalsHaveEvents'
  BY <1>1 DEF OriginalsHaveEvents
<1>4. MeasuredInOrder' /\ GrowthInOrder'
  BY DEF MeasuredInOrder, GrowthInOrder, WithClient
<1> QED
  BY <1>2, <1>3, <1>4 DEF VerdictInvariant

\* Once something has gone wrong the repeat is not vouched for.
LEMMA VerdictAfterError ==
  ASSUME VerdictInvariant, UNCHANGED client, server'.events = server.events,
         trial'.counts \in [{"before", "between", "after"} -> Nat],
         step' \in WithClient, trial'.error # "none"
  PROVE  VerdictInvariant'
<1>1. ClientInOrder'
  BY DEF VerdictInvariant, ClientInOrder
<1>2. OriginalsHaveEvents'
  BY DEF VerdictInvariant, OriginalsHaveEvents
<1> QED
  BY <1>1, <1>2 DEF VerdictInvariant

\* An answer, with or without an event of its own, takes nothing back.
LEMMA VerdictAfterAnswer ==
  ASSUME VerdictInvariant, NEW r \in client.pending, r \notin DOMAIN client.replies,
         NEW reply, reply = Reply(reply.status, reply.shaped, reply.replay, reply.receipt, reply.body),
         NEW appends \in BOOLEAN,
         server'.events = IF appends THEN [server.events EXCEPT ![r.id] = @ + 1] ELSE server.events,
         reply.status = "ok" /\ reply.shaped /\ ~reply.replay => appends /\ reply = Original(r),
         client' = [client EXCEPT !.replies = WithReply(@, r, reply)], UNCHANGED <<mode, step, trial>>
  PROVE  VerdictInvariant'
<1>1. /\ ClientInOrder /\ OriginalsHaveEvents
      /\ r \in AllRequests /\ r.id \in Ids /\ server.events \in [Ids -> Nat]
  BY DEF VerdictInvariant, ClientInOrder, Ids
<1>2. step \in WithClient
  BY <1>1 DEF ClientInOrder, Idle
<1>3. /\ client'.unsent = client.unsent /\ client'.pending = client.pending
      /\ client' = [unsent |-> client'.unsent, pending |-> client'.pending,
                    replies |-> client'.replies]
      /\ client'.replies = WithReply(client.replies, r, reply)
  BY <1>1 DEF ClientInOrder
<1>4. /\ DOMAIN client'.replies = DOMAIN client.replies \cup {r}
      /\ \A q \in DOMAIN client.replies : client'.replies[q] = client.replies[q]
      /\ client'.replies[r] = reply
  BY <1>3 DEF WithReply
<1>5. /\ server'.events \in [Ids -> Nat]
      /\ \A id \in Ids : server'.events[id] >= server.events[id]
      /\ appends => server'.events[r.id] = server.events[r.id] + 1
  <2>1. CASE appends
    BY <1>1, <2>1
  <2>2. CASE ~appends
    BY <1>1, <2>2
  <2> QED
    BY <2>1, <2>2
<1>6. ClientInOrder'
  <2>1. client'.unsent \cup client'.pending \cup DOMAIN client'.replies \subseteq AllRequests
    BY <1>1, <1>3, <1>4 DEF ClientInOrder
  <2>2. client'.unsent \cap (client'.pending \cup DOMAIN client'.replies) = {}
    BY <1>1, <1>3, <1>4 DEF ClientInOrder
  <2>3. \A q \in DOMAIN client'.replies :
          client'.replies[q] = Reply(client'.replies[q].status, client'.replies[q].shaped,
                                     client'.replies[q].replay, client'.replies[q].receipt,
                                     client'.replies[q].body)
    BY <1>1, <1>4 DEF ClientInOrder
  <2> QED
    BY <1>1, <1>2, <1>3, <1>5, <2>1, <2>2, <2>3 DEF ClientInOrder
<1>7. OriginalsHaveEvents'
  <2> SUFFICES ASSUME NEW q \in DOMAIN client'.replies, client'.replies[q].status = "ok",
                      client'.replies[q].shaped, ~client'.replies[q].replay
               PROVE  \E k \in 1..server'.events[q.id] : client'.replies[q].receipt = <<q.id, k>>
    BY DEF OriginalsHaveEvents
  <2>1. CASE q = r
    <3>1. appends /\ reply = Original(r)
      BY <1>4, <2>1
    <3>2. reply.receipt = <<r.id, server.events[r.id] + 1>>
      BY <3>1 DEF Original, Reply
    <3>3. server.events[r.id] + 1 \in 1..server'.events[r.id]
      BY <1>1, <1>5, <3>1
    <3> QED
      BY <1>4, <2>1, <3>2, <3>3
  <2>2. CASE q # r
    <3>1. q \in DOMAIN client.replies /\ client'.replies[q] = client.replies[q]
      BY <1>4, <2>2
    <3>2. PICK k \in 1..server.events[q.id] : client.replies[q].receipt = <<q.id, k>>
      BY <1>1, <3>1 DEF OriginalsHaveEvents
    <3>3. q.id \in Ids
      BY <1>1, <3>1 DEF ClientInOrder, Ids
    <3>4. server.events[q.id] \in Nat /\ server'.events[q.id] \in Nat
          /\ server'.events[q.id] >= server.events[q.id]
      BY <1>1, <1>5, <3>3
    <3>5. k \in 1..server'.events[q.id]
      BY <3>4
    <3> QED
      BY <3>1, <3>2, <3>5
  <2> QED
    BY <2>1, <2>2
<1>8. ASSUME trial.error = "none", MeasuredInOrder, GrowthInOrder
      PROVE  MeasuredInOrder' /\ GrowthInOrder'
  <2>1. step \in {"warmup", "measured", "growth"}
    BY <1>2, <1>8 DEF MeasuredInOrder, WithClient
  <2>2. Growing' = Growing
    BY DEF Growing, Dimensions
  <2>3. Scored("warmup") => Scored("warmup")'
    <3> SUFFICES ASSUME Scored("warmup"), NEW q \in BuildWorkload("warmup"), q.kind # "malformed"
                 PROVE  server'.events[q.id] >= 1
      BY DEF Scored
    <3>1. q.id \in Ids
      BY DEF Ids, AllRequests, Phases
    <3>2. server.events[q.id] >= 1 /\ server.events[q.id] \in Nat /\ server'.events[q.id] \in Nat
      BY <1>1, <1>5, <3>1 DEF Scored
    <3> QED
      BY <1>5, <3>1, <3>2
  <2>4. MeasuredInOrder'
    BY <1>8, <2>1, <2>2, <2>3 DEF MeasuredInOrder
  <2>5. GrowthInOrder'
    BY <1>3, <1>4, <1>8, <2>1, <2>2 DEF GrowthInOrder, ContractValid
  <2> QED
    BY <2>4, <2>5
<1> QED
  BY <1>6, <1>7, <1>8 DEF VerdictInvariant

LEMMA AnswersKeepVerdict ==
  ASSUME HarnessShape, VerdictInvariant, NEW r \in client.pending, Serve(r) \/ Misbehave(r)
  PROVE  VerdictInvariant'
<1>1. InFlight(r) /\ r \notin DOMAIN client.replies
  BY DEF Serve, Misbehave, InFlight
<1>2. server.events \in [Ids -> Nat] /\ r.id \in Ids
  BY DEF VerdictInvariant, ClientInOrder, Ids
<1>3. CASE Serve(r)
  <2>1. CASE r.kind # "malformed" /\ server.events[r.id] = 0
             /\ Appends(r.id) /\ Answers(r, Original(r))
    <3>1. server'.events = [server.events EXCEPT ![r.id] = @ + 1]
      BY <2>1 DEF Appends, HarnessShape
    <3> DEFINE reply == Original(r)
    <3>2. reply = Reply(reply.status, reply.shaped, reply.replay, reply.receipt, reply.body)
      BY DEF Original, Reply
    <3>3. client' = [client EXCEPT !.replies = WithReply(@, r, reply)] /\ UNCHANGED <<mode, step, trial>>
      BY <2>1 DEF Answers
    <3> HIDE DEF reply
    <3> QED
      BY <1>1, <3>1, <3>2, <3>3, VerdictAfterAnswer DEF reply
  <2>2. CASE UNCHANGED server /\ Answers(r, Replayed(r))
    <3> DEFINE reply == Replayed(r)
    <3>1. /\ reply = Reply(reply.status, reply.shaped, reply.replay, reply.receipt, reply.body)
          /\ reply.replay
      BY DEF Replayed, Reply
    <3>2. client' = [client EXCEPT !.replies = WithReply(@, r, reply)] /\ UNCHANGED <<mode, step, trial>>
      BY <2>2 DEF Answers
    <3> HIDE DEF reply
    <3> QED
      BY <1>1, <2>2, <3>1, <3>2, VerdictAfterAnswer
  <2>3. CASE UNCHANGED server /\ Answers(r, Reply("invalid", TRUE, FALSE, NoReceipt, "same"))
    <3> DEFINE reply == Reply("invalid", TRUE, FALSE, NoReceipt, "same")
    <3>1. /\ reply = Reply(reply.status, reply.shaped, reply.replay, reply.receipt, reply.body)
          /\ reply.status # "ok"
      BY DEF Reply
    <3>2. client' = [client EXCEPT !.replies = WithReply(@, r, reply)] /\ UNCHANGED <<mode, step, trial>>
      BY <2>3 DEF Answers
    <3> HIDE DEF reply
    <3> QED
      BY <1>1, <2>3, <3>1, <3>2, VerdictAfterAnswer
  <2> QED
    BY <1>3, <2>1, <2>2, <2>3 DEF Serve
<1>4. CASE Misbehave(r)
  <2>1. PICK appends \in BOOLEAN : \E reply \in Misanswers(r, appends) :
          /\ server' = [server EXCEPT !.slips = @ + 1,
                                      !.events[r.id] = IF appends THEN @ + 1 ELSE @]
          /\ Answers(r, reply)
    BY <1>4 DEF Misbehave
  <2>0. PICK reply \in Misanswers(r, appends) :
          /\ server' = [server EXCEPT !.slips = @ + 1,
                                      !.events[r.id] = IF appends THEN @ + 1 ELSE @]
          /\ Answers(r, reply)
    BY <2>1
  <2>2. server'.events = IF appends THEN [server.events EXCEPT ![r.id] = @ + 1] ELSE server.events
    BY <1>2, <2>0 DEF HarnessShape
  <2>3. /\ reply = Reply(reply.status, reply.shaped, reply.replay, reply.receipt, reply.body)
        /\ reply.status = "ok" /\ reply.shaped /\ ~reply.replay => appends /\ reply = Original(r)
    BY DEF Misanswers, Original, Reply
  <2>4. client' = [client EXCEPT !.replies = WithReply(@, r, reply)] /\ UNCHANGED <<mode, step, trial>>
    BY <2>0 DEF Answers
  <2> QED
    BY <1>1, <2>2, <2>3, <2>4, VerdictAfterAnswer
<1> QED
  BY <1>3, <1>4

\* A workload starts without answers.
LEMMA WorkloadStarts ==
  ASSUME NEW phase \in Phases, StartWorkload(phase), server'.events \in [Ids -> Nat],
         trial'.counts \in [{"before", "between", "after"} -> Nat], step' \in WithClient
  PROVE  /\ ClientInOrder' /\ OriginalsHaveEvents'
         /\ client'.unsent \cup client'.pending \subseteq BuildWorkload(phase)
         /\ DOMAIN client'.replies = {}
         /\ Concurrency = 1 => \A r, q \in client'.pending : r = q
<1> DEFINE load == BuildWorkload(phase)
           c == [Idle EXCEPT !.unsent = load]
<1>1. IsClient(c) /\ c.unsent = load /\ c.pending = {} /\ c.replies = <<>>
  <2>1. ASSUME NEW n, NEW idle, idle = [unsent |-> {}, pending |-> {}, replies |-> n]
        PROVE  LET d == [idle EXCEPT !.unsent = load] IN
               IsClient(d) /\ d.unsent = load /\ d.pending = {} /\ d.replies = n
    BY <2>1 DEF IsClient
  <2>2. Idle = [unsent |-> {}, pending |-> {}, replies |-> <<>>]
    BY DEF Idle
  <2> HIDE DEF load
  <2> DEFINE none == <<>>
  <2>3. Idle = [unsent |-> {}, pending |-> {}, replies |-> none]
    BY <2>2
  <2> HIDE DEF none
  <2>4. IsClient(c) /\ c.unsent = load /\ c.pending = {} /\ c.replies = none
    BY <2>1, <2>3
  <2> QED
    BY <2>4 DEF none
<1>2. client' \in Refill(c, Concurrency)
  BY DEF StartWorkload
<1>3. IsFiniteSet(load) /\ load \subseteq AllRequests
  BY WorkloadsAreFinite DEF AllRequests
<1> HIDE DEF c, load
<1>4. PICK S \in SUBSET c.unsent :
        Submits(c, client', S)
        /\ (Concurrency = 1 /\ IsFiniteSet(c.unsent) => \A r, q \in S : r = q)
  BY <1>1, <1>2, RefillSubmits
<1>5. /\ client' = [unsent |-> client'.unsent, pending |-> client'.pending,
                    replies |-> client'.replies]
      /\ client'.unsent = load \ S /\ client'.pending = S /\ DOMAIN client'.replies = {}
      /\ S \subseteq load
  BY <1>1, <1>4 DEF Submits, IsClient
<1>6. ClientInOrder'
  BY <1>3, <1>4, <1>5 DEF ClientInOrder
<1>7. OriginalsHaveEvents'
  BY <1>5 DEF OriginalsHaveEvents
<1> QED
  BY <1>1, <1>3, <1>4, <1>5, <1>6, <1>7 DEF load

\* One request is collected and others are submitted in its place.
LEMMA CollectedIsReplaced ==
  ASSUME ClientInOrder, OriginalsHaveEvents, NEW r \in client.pending,
         client' \in Refill([client EXCEPT !.pending = @ \ {r}], 1),
         UNCHANGED <<trial, server>>, step' \in WithClient
  PROVE  /\ ClientInOrder' /\ OriginalsHaveEvents'
         /\ client'.replies = client.replies
         /\ \E S \in SUBSET client.unsent :
              /\ client'.unsent = client.unsent \ S
              /\ client'.pending = (client.pending \ {r}) \cup S
              /\ \A q, p \in S : q = p
<1> DEFINE c == [client EXCEPT !.pending = @ \ {r}]
           pending == client.pending \ {r}
<1>1. IsClient(c) /\ c.unsent = client.unsent /\ c.pending = pending /\ c.replies = client.replies
  <2>1. IsClient(client)
    BY DEF ClientInOrder, IsClient
  <2> QED
    BY <2>1 DEF IsClient
<1>2. IsFiniteSet(c.unsent)
  <2>1. client.unsent \in SUBSET AllRequests
    BY DEF ClientInOrder
  <2>2. IsFiniteSet(client.unsent)
    BY <2>1, IdsAreFinite, FS_Subset
  <2> QED
    BY <1>1, <2>2
<1>3. client' \in Refill(c, 1)
  OBVIOUS
<1> HIDE DEF c, pending
<1>4. PICK S \in SUBSET c.unsent :
        Submits(c, client', S) /\ (1 = 1 /\ IsFiniteSet(c.unsent) => \A q, p \in S : q = p)
  BY <1>1, <1>3, RefillSubmits
<1>5. /\ client' = [unsent |-> client'.unsent, pending |-> client'.pending,
                    replies |-> client'.replies]
      /\ client'.unsent = client.unsent \ S /\ client'.pending = pending \cup S
      /\ client'.replies = client.replies /\ (\A q, p \in S : q = p) /\ S \subseteq client.unsent
  BY <1>1, <1>2, <1>4 DEF Submits, IsClient
<1>6. ClientInOrder'
  BY <1>5 DEF ClientInOrder, pending
<1>7. OriginalsHaveEvents'
  BY <1>5 DEF OriginalsHaveEvents
<1> QED
  BY <1>5, <1>6, <1>7 DEF pending

LEMMA CollectKeepsVerdict ==
  ASSUME VerdictInvariant, NEW r \in client.pending, Collect(r)
  PROVE  VerdictInvariant'
<1>1. /\ step \in {"warmup", "measured"} /\ step' = step
      /\ client' \in Refill([client EXCEPT !.pending = @ \ {r}], 1)
      /\ UNCHANGED <<mode, trial, server>>
  BY DEF Collect
<1>2. ClientInOrder' /\ OriginalsHaveEvents'
  BY <1>1, CollectedIsReplaced DEF VerdictInvariant, WithClient
<1>3. ASSUME trial.error = "none", MeasuredInOrder
      PROVE  MeasuredInOrder' /\ GrowthInOrder'
  <2>1. Growing' = Growing /\ (Scored("warmup"))' = Scored("warmup")
    BY <1>1 DEF Growing, Dimensions, Scored
  <2> QED
    BY <1>1, <1>3, <2>1 DEF MeasuredInOrder, GrowthInOrder
<1> QED
  BY <1>1, <1>2, <1>3 DEF VerdictInvariant

LEMMA GrowthKeepsVerdict ==
  ASSUME HarnessShape, VerdictInvariant, NEW r \in client.pending, GrowthAnswered(r)
  PROVE  VerdictInvariant'
<1> DEFINE reply == client.replies[r]
           n == Cardinality(DOMAIN client.replies)
<1>1. step = "growth" /\ r \in DOMAIN client.replies /\ UNCHANGED <<mode, server>>
  BY DEF GrowthAnswered
<1>2. CASE UNCHANGED client /\ Raise("other")
  <2>1. trial'.error = "other" /\ trial'.counts = trial.counts /\ step' = "unwind"
    BY <1>2 DEF Raise, HarnessShape
  <2> QED
    BY <1>1, <1>2, <2>1, VerdictAfterError DEF VerdictInvariant, ClientInOrder, WithClient
<1>3. CASE /\ ContractValid(r, reply) /\ ~reply.replay
           /\ n \in Checkpoints => Total(server.events) = n
           /\ client' \in Refill([client EXCEPT !.pending = @ \ {r}], 1)
           /\ step' = (IF n = GrowthRequests THEN "unwind" ELSE "growth")
           /\ UNCHANGED trial
  <2>1. step' \in WithClient /\ step' \in {"unwind", "growth"}
    BY <1>3 DEF WithClient
  <2>2. /\ ClientInOrder' /\ OriginalsHaveEvents'
        /\ client'.replies = client.replies
        /\ \E S \in SUBSET client.unsent :
             /\ client'.unsent = client.unsent \ S
             /\ client'.pending = (client.pending \ {r}) \cup S
             /\ \A q, p \in S : q = p
    BY <1>1, <1>3, <2>1, CollectedIsReplaced DEF VerdictInvariant
  <2>3. PICK S \in SUBSET client.unsent :
             /\ client'.unsent = client.unsent \ S
             /\ client'.pending = (client.pending \ {r}) \cup S
             /\ \A q, p \in S : q = p
    BY <2>2
  <2>4. ASSUME trial.error = "none", GrowthInOrder
        PROVE  MeasuredInOrder' /\ GrowthInOrder'
    <3>1. /\ Growing
          /\ client.unsent \cup client.pending \cup DOMAIN client.replies \subseteq
               BuildWorkload("growth")
          /\ \A q, p \in client.pending : q = p
          /\ \A q \in DOMAIN client.replies \ client.pending :
               ContractValid(q, client.replies[q]) /\ ~client.replies[q].replay
      BY <1>1, <2>4 DEF GrowthInOrder
    <3>2. Growing' = Growing
      BY <1>1, <1>3 DEF Growing, Dimensions
    <3>3. client'.pending = S
      BY <2>3, <3>1
    <3>4. \A q \in DOMAIN client.replies :
            ContractValid(q, client.replies[q]) /\ ~client.replies[q].replay
      BY <1>3, <3>1
    <3>5. CASE n # GrowthRequests
      <4>1. step' = "growth"
        BY <1>3, <3>5
      <4>2. \A q \in DOMAIN client'.replies \ client'.pending :
              ContractValid(q, client'.replies[q]) /\ ~client'.replies[q].replay
        BY <2>2, <3>4
      <4> QED
        BY <2>2, <2>3, <3>1, <3>2, <3>3, <4>1, <4>2 DEF MeasuredInOrder, GrowthInOrder, ContractValid
    <3>6. CASE n = GrowthRequests
      <4>1. step' = "unwind" /\ Total(server.events) = GrowthRequests
        BY <1>3, <3>6, HarnessAssumption
      <4>2. DOMAIN client.replies = BuildWorkload("growth")
        <5>1. /\ IsFiniteSet(BuildWorkload("growth"))
              /\ Cardinality(BuildWorkload("growth")) = GrowthRequests
          BY WorkloadsAreFinite DEF Phases
        <5>2. DOMAIN client.replies \in SUBSET BuildWorkload("growth")
          BY <3>1
        <5> QED
          BY <3>6, <5>1, <5>2, FS_Subset
      <4>3. client.unsent \cap DOMAIN client.replies = {}
        BY DEF VerdictInvariant, ClientInOrder
      <4>4. client'.pending = {}
        BY <3>1, <3>3, <4>2, <4>3
      <4>5. \A q \in DOMAIN client'.replies :
              ContractValid(q, client'.replies[q]) /\ ~client'.replies[q].replay
        BY <2>2, <3>4
      <4>6. DOMAIN client'.replies = BuildWorkload("growth") /\ Total(server'.events) = GrowthRequests
        BY <1>1, <2>2, <4>1, <4>2
      <4>7. MeasuredInOrder'
        BY <3>1, <3>2, <4>1, <4>4 DEF MeasuredInOrder
      <4>8. GrowthInOrder'
        BY <4>1, <4>5, <4>6 DEF GrowthInOrder, ContractValid
      <4> QED
        BY <4>7, <4>8
    <3> QED
      BY <3>5, <3>6
  <2> QED
    BY <1>3, <2>2, <2>4 DEF VerdictInvariant
<1> QED
  BY <1>2, <1>3 DEF GrowthAnswered

LEMMA WorkloadEndKeepsVerdict ==
  ASSUME HarnessShape, VerdictInvariant, WorkloadEnds
  PROVE  VerdictInvariant'
<1>1. /\ step \in {"warmup", "measured"} /\ client.pending = {}
      /\ UNCHANGED <<mode, client, server, files>>
  BY DEF WorkloadEnds
<1>2. CASE Raise("validation")
  <2>1. trial'.error = "validation" /\ trial'.counts = trial.counts /\ step' = "unwind"
    BY <1>2 DEF Raise, HarnessShape
  <2> QED
    BY <1>1, <2>1, VerdictAfterError DEF VerdictInvariant, ClientInOrder, WithClient
<1>3. CASE /\ SummaryHolds(step) /\ ResponseGroupsHold
           /\ step' = (IF step = "warmup" THEN "between" ELSE "after") /\ UNCHANGED trial
  <2>1. ClientInOrder' /\ OriginalsHaveEvents'
    BY <1>1, <1>3 DEF VerdictInvariant, ClientInOrder, OriginalsHaveEvents, WithClient
  <2>2. Scored(step)
    BY <1>1, <1>3, JudgedAnswersAreScored DEF VerdictInvariant, ClientInOrder, Phases
  <2>3. ASSUME trial.error = "none", MeasuredInOrder
        PROVE  MeasuredInOrder' /\ GrowthInOrder'
    <3>1. /\ Growing' = Growing /\ \A phase : Scored(phase)' = Scored(phase)
          /\ \A phase : SummaryHolds(phase)' = SummaryHolds(phase)
          /\ ResponseGroupsHold' = ResponseGroupsHold
      <4>1. Growing' = Growing
        BY <1>1, <1>3 DEF Growing, Dimensions
      <4>2. \A phase : Scored(phase)' = Scored(phase)
        BY <1>1 DEF Scored
      <4>3. \A phase : SummaryHolds(phase)' = SummaryHolds(phase)
        BY <1>1 DEF SummaryHolds, ContractValid
      <4>4. ResponseGroupsHold' = ResponseGroupsHold
        BY <1>1 DEF ResponseGroupsHold
      <4> QED
        BY <4>1, <4>2, <4>3, <4>4
    <3>2. CASE step = "warmup"
      BY <1>1, <1>3, <2>2, <2>3, <3>1, <3>2 DEF MeasuredInOrder, GrowthInOrder
    <3>3. CASE step = "measured"
      BY <1>1, <1>3, <2>2, <2>3, <3>1, <3>3 DEF MeasuredInOrder, GrowthInOrder
    <3> QED
      BY <1>1, <3>2, <3>3
  <2> QED
    BY <1>3, <2>1, <2>3 DEF VerdictInvariant
<1> QED
  BY <1>2, <1>3 DEF WorkloadEnds

LEMMA AuditKeepsVerdict ==
  ASSUME HarnessShape, VerdictInvariant, AuditState
  PROVE  VerdictInvariant'
<1>1. /\ step \in {"before", "between", "after"} /\ UNCHANGED <<mode, server>>
      /\ ClientInOrder /\ OriginalsHaveEvents
      /\ server.events \in [Ids -> Nat]
      /\ trial.counts \in [{"before", "between", "after"} -> Nat]
  BY DEF AuditState, VerdictInvariant, ClientInOrder
<1>2. CASE Raise("other") /\ UNCHANGED client
  <2>1. trial'.error = "other" /\ trial'.counts = trial.counts /\ step' = "unwind"
    BY <1>2 DEF Raise, HarnessShape
  <2> QED
    BY <1>1, <1>2, <2>1, VerdictAfterError DEF WithClient
<1>3. CASE /\ trial' = [trial EXCEPT !.counts[step] = Total(server.events)]
           /\ CASE step = "before"  -> step' = "warmup" /\ StartWorkload("warmup")
                [] step = "between" -> step' = "measured" /\ StartWorkload("measured")
                [] step = "after"   -> step' = "unwind" /\ UNCHANGED client
  <2>1. /\ trial'.counts = [trial.counts EXCEPT ![step] = Total(server.events)]
        /\ trial'.error = trial.error /\ trial'.cell = trial.cell
    BY <1>3 DEF HarnessShape
  <2>2. Total(server.events) \in Nat
    BY <1>1, TotalIsANumber
  <2>3. /\ trial'.counts \in [{"before", "between", "after"} -> Nat]
        /\ trial'.counts[step] = Total(server.events)
        /\ \A s \in {"before", "between", "after"} \ {step} : trial'.counts[s] = trial.counts[s]
    BY <1>1, <2>1, <2>2
  <2>4. Growing' = Growing /\ \A phase : Scored(phase)' = Scored(phase)
    BY <1>1, <2>1 DEF Growing, Dimensions, Scored
  <2>5. CASE step = "before"
    <3>1. step' = "warmup" /\ StartWorkload("warmup")
      BY <1>3, <2>5
    <3>2. ClientInOrder' /\ OriginalsHaveEvents'
      BY <1>1, <2>3, <3>1, WorkloadStarts DEF Phases, WithClient
    <3>3. ASSUME trial.error = "none", MeasuredInOrder
          PROVE  MeasuredInOrder' /\ GrowthInOrder'
      <4>1. server.events = NoEvents /\ ~Growing
        BY <2>5, <3>3 DEF MeasuredInOrder
      <4>2. trial'.counts["before"] = 0
        BY <2>3, <2>5, <4>1, NothingIsInTotal
      <4> QED
        BY <2>4, <3>1, <4>1, <4>2 DEF MeasuredInOrder, GrowthInOrder
    <3> QED
      BY <2>1, <3>2, <3>3 DEF VerdictInvariant
  <2>6. CASE step = "between"
    <3>1. step' = "measured" /\ StartWorkload("measured")
      BY <1>3, <2>6
    <3>2. ClientInOrder' /\ OriginalsHaveEvents'
      BY <1>1, <2>3, <3>1, WorkloadStarts DEF Phases, WithClient
    <3>3. ASSUME trial.error = "none", MeasuredInOrder
          PROVE  MeasuredInOrder' /\ GrowthInOrder'
      BY <2>3, <2>4, <2>6, <3>1, <3>3 DEF MeasuredInOrder, GrowthInOrder
    <3> QED
      BY <2>1, <3>2, <3>3 DEF VerdictInvariant
  <2>7. CASE step = "after"
    <3>1. step' = "unwind" /\ UNCHANGED client
      BY <1>3, <2>7
    <3>2. ClientInOrder' /\ OriginalsHaveEvents'
      BY <1>1, <2>3, <3>1 DEF ClientInOrder, OriginalsHaveEvents, WithClient
    <3>3. ASSUME trial.error = "none", MeasuredInOrder
          PROVE  MeasuredInOrder' /\ GrowthInOrder'
      <4>1. \A phase : SummaryHolds(phase)' = SummaryHolds(phase)
        BY <3>1 DEF SummaryHolds, ContractValid
      <4>2. ResponseGroupsHold' = ResponseGroupsHold
        BY <3>1 DEF ResponseGroupsHold
      <4> QED
        BY <1>1, <2>3, <2>4, <2>7, <3>1, <3>3, <4>1, <4>2 DEF MeasuredInOrder, GrowthInOrder
    <3> QED
      BY <2>1, <3>2, <3>3 DEF VerdictInvariant
  <2> QED
    BY <1>1, <2>5, <2>6, <2>7
<1> QED
  BY <1>2, <1>3 DEF AuditState

LEMMA StartKeepsVerdict ==
  ASSUME HarnessShape, VerdictInvariant, StartCluster
  PROVE  VerdictInvariant'
<1>1. /\ step = "api" /\ UNCHANGED mode
      /\ ClientInOrder /\ OriginalsHaveEvents /\ client = Idle
      /\ server.events \in [Ids -> Nat]
      /\ trial.counts \in [{"before", "between", "after"} -> Nat]
  BY DEF StartCluster, VerdictInvariant, ClientInOrder, WithClient
<1>2. CASE Raise("other") /\ UNCHANGED <<server, client>>
  <2>1. trial'.error = "other" /\ trial'.counts = trial.counts /\ step' = "unwind"
    BY <1>2 DEF Raise, HarnessShape
  <2> QED
    BY <1>1, <1>2, <2>1, VerdictAfterError DEF WithClient
<1>3. CASE /\ server' = [server EXCEPT !.up = TRUE] /\ UNCHANGED trial
           /\ IF Growing THEN step' = "growth" /\ StartWorkload("growth")
                         ELSE step' = "before" /\ UNCHANGED client
  <2>1. server'.events = server.events
    BY <1>3 DEF HarnessShape
  <2>2. Growing' = Growing
    BY <1>1, <1>3 DEF Growing, Dimensions
  <2>3. CASE Growing
    <3>1. step' = "growth" /\ StartWorkload("growth") /\ Concurrency = 1
      BY <1>3, <2>3 DEF Concurrency
    <3>2. /\ ClientInOrder' /\ OriginalsHaveEvents'
          /\ client'.unsent \cup client'.pending \subseteq BuildWorkload("growth")
          /\ DOMAIN client'.replies = {} /\ \A r, q \in client'.pending : r = q
      BY <1>1, <1>3, <2>1, <3>1, WorkloadStarts DEF Phases, WithClient
    <3>3. MeasuredInOrder' /\ GrowthInOrder'
      BY <2>2, <2>3, <3>1, <3>2 DEF MeasuredInOrder, GrowthInOrder
    <3> QED
      BY <3>2, <3>3 DEF VerdictInvariant
  <2>4. CASE ~Growing
    <3>1. step' = "before" /\ UNCHANGED client
      BY <1>3, <2>4
    <3>2. ClientInOrder' /\ OriginalsHaveEvents'
      BY <1>1, <1>3, <2>1, <3>1 DEF ClientInOrder, OriginalsHaveEvents, WithClient
    <3>3. ASSUME trial.error = "none", MeasuredInOrder
          PROVE  MeasuredInOrder' /\ GrowthInOrder'
      BY <1>1, <2>1, <2>2, <2>4, <3>1, <3>3 DEF MeasuredInOrder, GrowthInOrder
    <3> QED
      BY <1>3, <3>2, <3>3 DEF VerdictInvariant
  <2> QED
    BY <2>3, <2>4
<1> QED
  BY <1>2, <1>3 DEF StartCluster

\* Stopping the cluster and judging the gates.
LEMMA JudgingKeepsVerdict ==
  ASSUME HarnessShape, VerdictInvariant, StopCluster \/ CheckGates
  PROVE  VerdictInvariant'
<1>1. /\ step \in {"unwind", "gates"} /\ step' = (IF step = "unwind" THEN "gates" ELSE "drop")
      /\ UNCHANGED <<mode, client>> /\ server'.events = server.events
      /\ ClientInOrder /\ OriginalsHaveEvents
      /\ trial.counts \in [{"before", "between", "after"} -> Nat]
  BY DEF StopCluster, CheckGates, HarnessShape, VerdictInvariant, ClientInOrder
<1>2. CASE trial' \in {[trial EXCEPT !.error = "other"], [trial EXCEPT !.error = "validation"]}
  <2>1. trial'.error # "none" /\ trial'.counts = trial.counts
    BY <1>2 DEF HarnessShape
  <2> QED
    BY <1>1, <2>1, VerdictAfterError DEF WithClient
<1>3. CASE UNCHANGED trial /\ (step = "gates" /\ ~Growing /\ trial.error = "none" => AuditReconciles)
  <2>1. ClientInOrder' /\ OriginalsHaveEvents'
    BY <1>1, <1>3 DEF ClientInOrder, OriginalsHaveEvents, WithClient
  <2>2. ASSUME trial.error = "none", MeasuredInOrder, GrowthInOrder
        PROVE  MeasuredInOrder' /\ GrowthInOrder'
    <3>1. Growing' = Growing /\ Scored("warmup")' = Scored("warmup")
          /\ AuditReconciles' = AuditReconciles /\ Total(server'.events) = Total(server.events)
      BY <1>1, <1>3 DEF Growing, Dimensions, Scored, AuditReconciles
    <3>2. SummaryHolds("measured")' = SummaryHolds("measured")
      BY <1>1 DEF SummaryHolds, ContractValid
    <3>3. ResponseGroupsHold' = ResponseGroupsHold
      BY <1>1 DEF ResponseGroupsHold
    <3>4. step' \in {"gates", "drop"} /\ (step' = "drop" => step = "gates")
      BY <1>1
    <3>5. MeasuredInOrder'
      BY <1>1, <1>3, <2>2, <3>1, <3>2, <3>3, <3>4 DEF MeasuredInOrder
    <3>6. GrowthInOrder'
      BY <1>1, <2>2, <3>1, <3>4 DEF GrowthInOrder, ContractValid
    <3> QED
      BY <3>5, <3>6
  <2> QED
    BY <1>3, <2>1, <2>2 DEF VerdictInvariant
<1> QED
  BY <1>2, <1>3 DEF StopCluster, CheckGates

\* Every step away from a workload.
LEMMA OthersKeepVerdict ==
  ASSUME HarnessShape, KnowsWhatItMade, VerdictInvariant,
         \/ Migrate \/ DropSchema
         \/ RunHarness \/ RequireNothingThere \/ CreateVolume \/ RunContainer \/ DatabaseReady
         \/ RemoveContainer \/ RemoveVolume
         \/ FlushJson \/ FlushCsv \/ WritePartial \/ Summarise \/ WriteResult
  PROVE  VerdictInvariant'
<1>1. /\ server.events \in [Ids -> Nat] /\ NoEvents \in [Ids -> Nat]
      /\ step \notin WithClient => client = Idle
  BY DEF VerdictInvariant, ClientInOrder, NoEvents
<1>2. CASE Migrate
  <2>1. /\ server'.events \in [Ids -> Nat]
        /\ step' \in {"api", "remove_container"}
        /\ step' = "api" => server'.events = NoEvents
    BY <1>1, <1>2 DEF Migrate, HarnessShape
  <2>2. client' = Idle /\ trial'.counts = trial.counts
    BY <1>1, <1>2 DEF Migrate, WithClient
  <2> QED
    BY <2>1, <2>2, VerdictWithoutClient DEF WithClient
<1>3. CASE DropSchema
  <2>1. PICK error \in {trial.error, "other"} :
          LET goes == error = "none" /\ Growing IN
          /\ trial' = [trial EXCEPT !.error = error, !.cell = IF goes THEN @ + 1 ELSE @,
                                    !.status = IF error = "none" THEN "in_progress" ELSE "failed"]
          /\ step' = CASE error = "other"      -> "remove_container"
                       [] error = "validation" -> "json"
                       [] error = "none"       -> IF goes THEN "report" ELSE "json"
    BY <1>3 DEF DropSchema
  <2>2. error \in {"none", "validation", "other"}
    BY <2>1 DEF HarnessShape
  <2>3. step' \in {"remove_container", "json", "report"} /\ trial'.counts = trial.counts
    BY <2>1, <2>2 DEF HarnessShape
  <2>4. client' = Idle /\ server' = server
    BY <1>3 DEF DropSchema
  <2> QED
    BY <1>1, <2>3, <2>4, VerdictWithoutClient DEF WithClient
<1>4. CASE RunHarness \/ RequireNothingThere \/ CreateVolume \/ RunContainer \/ DatabaseReady
           \/ RemoveContainer \/ RemoveVolume
  <2>1. /\ step \notin WithClient /\ UNCHANGED <<client, server, trial>>
        /\ step' \in Preparing \cup {"json"} \cup Stopped
    BY <1>4 DEF RunHarness, RequireNothingThere, CreateVolume, RunContainer, DatabaseReady,
       RemoveContainer, RemoveVolume, WithClient, Preparing, Stopped
  <2> QED
    BY <1>1, <2>1, VerdictWithoutClient DEF WithClient, Preparing, Stopped
<1>5. CASE FlushJson \/ FlushCsv \/ WritePartial \/ Summarise \/ WriteResult
  <2>1. /\ step \in Filing /\ UNCHANGED <<client, server>> /\ trial'.counts = trial.counts
        /\ step' \in Filing \cup {"migrate", "remove_container"}
    <3>1. CASE FlushJson
      BY <3>1 DEF FlushJson, WriteFails, Filing
    <3>2. CASE FlushCsv
      BY <3>2 DEF FlushCsv, WriteFails, Filing, HarnessShape
    <3>3. CASE WritePartial \/ WriteResult
      BY <3>3 DEF WritePartial, WriteResult, WriteFails, Filing
    <3>4. CASE Summarise
      BY <3>4 DEF Summarise, Filing, HarnessShape
    <3> QED
      BY <1>5, <3>1, <3>2, <3>3, <3>4
  <2> QED
    BY <1>1, <2>1, VerdictWithoutClient DEF WithClient, Filing
<1> QED
  BY <1>2, <1>3, <1>4, <1>5

LEMMA VerdictStays ==
  ASSUME HarnessShape, KnowsWhatItMade, VerdictInvariant, [HarnessNext]_harnessVars
  PROVE  VerdictInvariant'
<1>1. CASE UNCHANGED harnessVars
  <2>1. UNCHANGED <<mode, step, trial, client, server>>
    BY <1>1 DEF harnessVars
  <2>2. /\ ClientInOrder' = ClientInOrder /\ OriginalsHaveEvents' = OriginalsHaveEvents
        /\ Growing' = Growing /\ AuditReconciles' = AuditReconciles
        /\ \A phase : Scored(phase)' = Scored(phase)
    BY <2>1 DEF ClientInOrder, OriginalsHaveEvents, Growing, Dimensions, AuditReconciles, Scored
  <2>3. ResponseGroupsHold' = ResponseGroupsHold
    BY <2>1 DEF ResponseGroupsHold
  <2>4. \A phase : SummaryHolds(phase)' = SummaryHolds(phase)
    BY <2>1 DEF SummaryHolds, ContractValid
  <2>5. MeasuredInOrder' = MeasuredInOrder
    BY <2>1, <2>2, <2>3, <2>4 DEF MeasuredInOrder
  <2>6. GrowthInOrder' = GrowthInOrder
    BY <2>1, <2>2 DEF GrowthInOrder, ContractValid
  <2> QED
    BY <2>1, <2>2, <2>5, <2>6 DEF VerdictInvariant
<1>2. ASSUME NEW r \in client.pending, Serve(r) \/ Misbehave(r) \/ Collect(r) \/ GrowthAnswered(r)
      PROVE  VerdictInvariant'
  BY <1>2, AnswersKeepVerdict, CollectKeepsVerdict, GrowthKeepsVerdict
<1> QED
  BY <1>1, <1>2, WorkloadEndKeepsVerdict, AuditKeepsVerdict, StartKeepsVerdict,
     JudgingKeepsVerdict, OthersKeepVerdict DEF HarnessNext

\* Every repeat that is accepted and every growth procedure that passes had an
\* API that scored each identifier once and only once, whatever it answered and
\* however the requests interleaved: the answers, judged in groups, and the
\* counts of the audit chain suffice to tell (validate_response_groups,
\* summarize_outcomes and the reconciliation of _run_repeat).
THEOREM AcceptedIsExactlyOnce ==
  HarnessSpec => []AcceptedMeansExactlyOnce
<1>1. HarnessInit => VerdictInvariant
  BY VerdictStarts
<1>2. HarnessShape /\ KnowsWhatItMade /\ VerdictInvariant /\ [HarnessNext]_harnessVars
        => VerdictInvariant'
  BY VerdictStays
<1>3. VerdictInvariant => AcceptedMeansExactlyOnce
  <2>1. ~(step = "drop" /\ trial.error = "none") => AcceptedMeansExactlyOnce
    BY DEF AcceptedMeansExactlyOnce
  <2> QED
    BY <2>1, RepeatIsVouchedFor, GrowthIsVouchedFor
<1> QED
  BY <1>1, <1>2, <1>3, KnowledgeHolds, PTL DEF HarnessSpec

=============================================================================

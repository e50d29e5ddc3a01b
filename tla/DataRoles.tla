----------------------------- MODULE DataRoles ------------------------------
(***************************************************************************)
(* Which rows may play which role in training.  Curation (curation.py),    *)
(* the four chronological roles of development training                    *)
(* (run_development_training.py), forward folds (temporal_validation.py),  *)
(* the fitting pool of the historical reference (historical_reference.py)  *)
(* with the quarantine of the historical test rows                         *)
(* (historical_quarantine.py), and what the two producers then declare in  *)
(* a bundle, for the validators of BundleContract.                         *)
(*                                                                         *)
(* A row has a time, its other features, and a label; a frame is a         *)
(* sequence of rows.  A fingerprint is what it was computed from.          *)
(***************************************************************************)
EXTENDS Integers, Sequences, FiniteSets, FiniteSetsExt, SequencesExt, BundleContract, Subframes

CONSTANTS
  Frames,     \* inputs of curation and development training
  Splits,     \* inputs of the reference producer: [train, val] of frames
  TestRows,   \* the historical test rows, whose hashes are quarantined
  Timelines,  \* inputs of the forward folds: sequences of times
  Gaps,       \* gaps between a fold's training rows and its validation rows
  Comparisons \* Brier score and calibration error of each method

\* Times are not negative; a source of the reference has validated labels.
ASSUME LessonAssumption ==
  /\ \A frame \in Frames :
       frame \in Seq(ToSet(frame)) /\ \A row \in ToSet(frame) : row.time \in Nat
  /\ \A split \in Splits : \A frame \in {split.train, split.val} :
       frame \in Seq(ToSet(frame)) /\ \A row \in ToSet(frame) : row.label \in {0, 1}
  /\ Timelines \subseteq Seq(Nat) /\ Gaps \subseteq Nat
  /\ \A table \in Comparisons, m \in 1..3 : table[m].brier \in Int /\ table[m].error \in Int

VARIABLE lesson  \* the inputs the producers are applied to

-----------------------------------------------------------------------------
(* Rows *)

Vector(row) == <<row.time, row.others>>

SameContent(r, s) == Vector(r) = Vector(s)

\* The rows that are not among the given ones.
Without(frame, rows) == Subframe(frame, {i \in DOMAIN frame : frame[i] \notin rows})

Contradictory(frame) ==
  \E i, j \in DOMAIN frame : SameContent(frame[i], frame[j]) /\ frame[i].label # frame[j].label

\* curate_exact_feature_duplicates, past its refusal of contradictory labels.
Curated(frame) ==
  Subframe(frame, {i \in DOMAIN frame :
                     \A j \in 1..(i - 1) : ~SameContent(frame[i], frame[j])})

\* fingerprint_dataframe, row_hashes_checksum: the rows with their numbers.
Occurrences(frame) ==
  [row \in ToSet(frame) |-> Cardinality({i \in DOMAIN frame : frame[i] = row})]

\* data_role_metadata, HistoricalReferencePool: what is declared about rows.
Declared(frame) ==
  [content    |-> Occurrences(frame),
   rows       |-> Len(frame),
   fraud      |-> Cardinality({i \in DOMAIN frame : frame[i].label = 1}),
   legitimate |-> Cardinality({i \in DOMAIN frame : frame[i].label = 0}),
   duplicates |-> Len(frame) - Cardinality(ToSet(frame))]

\* _build_historical_quarantine_payload, and its anchor: rows are hashed with
\* their labels.
Quarantine == [anchor |-> Anchor, rows |-> TestRows]

\* require_no_historical_test_overlap
Overlaps(frame) == ToSet(frame) \cap Quarantine.rows # {}

-----------------------------------------------------------------------------
(* Chronological roles *)

\* np.array_split of the distinct times into equal blocks, the first ones one
\* longer: the block of a time.
BlockOf(times, time, blocks) ==
  LET rank   == Cardinality({t \in times : t < time})
      size   == Cardinality(times) \div blocks
      longer == Cardinality(times) % blocks
  IN  IF rank < longer * (size + 1) THEN rank \div (size + 1)
      ELSE longer + (rank - longer * (size + 1)) \div size

TimesOf(frame) == {row.time : row \in ToSet(frame)}

\* Faulty: the rows, not the distinct times, are cut into blocks.
TimeRoleByPosition(frame, i) ==
  LET block == BlockOf(DOMAIN frame, i, 20) IN
  CASE block < 10 -> "model_fit"
    [] block \in 10..12 -> "calibrator_fit"
    [] block \in 13..15 -> "threshold_selection"
    [] OTHER -> "evaluation"

\* _time_roles, by the names a bundle gives the roles.
TimeRole(frame, i) ==
  LET block == BlockOf(TimesOf(frame), frame[i].time, 20) IN
  CASE block < 10 -> "model_fit"
    [] block \in 10..12 -> "calibrator_fit"
    [] block \in 13..15 -> "threshold_selection"
    [] OTHER -> "evaluation"

TimeRoles(frame) ==
  [role \in Roles |-> Subframe(frame, {i \in DOMAIN frame : TimeRole(frame, i) = role})]

LabelsOf(rows) == {row.label : row \in ToSet(rows)}

BothClasses(rows) == LabelsOf(rows) = {0, 1}

\* The refusals of run_development_training that depend on the rows.
Trainable(frame) ==
  /\ ~Overlaps(frame)
  /\ Cardinality(TimesOf(frame)) >= 20
  /\ \A role \in Roles : BothClasses(TimeRoles(frame)[role])
  /\ Len(TimeRoles(frame)["threshold_selection"]) >= 10   \* bins of its calibration table

\* make_expanding_time_folds for two forward folds; a fold whose training part
\* is empty refuses the whole request.
Folds(times, gap) ==
  LET block(time) == BlockOf(ToSet(times), time, 3) IN
  [fold \in 1..2 |->
     LET validated == {i \in DOMAIN times : block(times[i]) = fold}
         start     == Min({times[i] : i \in validated})
     IN  [train |-> {i \in DOMAIN times : times[i] < start - gap}, validated |-> validated]]

Foldable(times, gap) ==
  /\ Cardinality(ToSet(times)) >= 3
  /\ \A fold \in 1..2 : Folds(times, gap)[fold].train # {}

-----------------------------------------------------------------------------
(* Calibration and the development bundle *)

Methods == <<"identity", "platt", "isotonic">>

\* compare_calibrators: least Brier score, then calibration error, then the
\* order above; but only past the margin.
BestMethod(table) ==
  LET ahead(m, n) ==
        LET r == table[m] s == table[n] IN
        \/ r.brier < s.brier
        \/ r.brier = s.brier /\ r.error < s.error
        \/ r.brier = s.brier /\ r.error = s.error /\ m < n
  IN  CHOOSE m \in 1..3 : \A n \in 1..3 \ {m} : ahead(m, n)

CalibrationMethod(table, margin) ==
  LET best == BestMethod(table) IN
  IF best # 1 /\ table[1].brier - table[best].brier >= margin THEN Methods[best]
  ELSE Methods[1]

\* The preprocessor scales two columns and passes the others on behind them; the
\* model is fitted on what it gives.
Scaled == <<"Time", "Amount">>

PassedOn == <<"V1">>

\* classes_ of a fitted estimator: the labels, sorted.
Ascending(labels) ==
  [k \in 1..Cardinality(labels) |->
     CHOOSE l \in labels : Cardinality({m \in labels : m < l}) = k - 1]

FittedOn(labels) ==
  LET gives == Scaled \o PassedOn
  IN  [takes |-> Schema, gives |-> gives, fits |-> gives, classes |-> Ascending(labels)]

\* quarantine_provenance_metadata, after the overlap was found empty.
QuarantineChecked == [anchor |-> Quarantine.anchor, overlap |-> 0]

\* One estimator per role: fitted on the first, calibrated on the second and
\* thresholded on the third; the fourth is scored when all of it is settled.
DevelopmentBundle(frame, method, threshold) ==
  LET roles      == [role \in Roles |-> Declared(TimeRoles(frame)[role])]
      training   == Training("development", roles, QuarantineChecked)
      calibrated == method # "identity"
  IN  [features |-> Schema, threshold |-> threshold, use |-> IntendedUse("development"),
       components |-> FittedOn(LabelsOf(TimeRoles(frame)["model_fit"])),
       calibrator |-> calibrated,
       score |-> IF calibrated THEN "calibrated_probability" ELSE "raw_score",
       training |-> training, fingerprint |-> training.rolesSha,
       said |-> ThresholdSaid("development", threshold, calibrated),
       reference |-> Nothing]

-----------------------------------------------------------------------------
(* The historical reference *)

\* _filter_quarantine
Unquarantined(frame) == Without(frame, Quarantine.rows)

FirstOf(frame) ==
  Subframe(frame, {i \in DOMAIN frame : \A j \in 1..(i - 1) : frame[j] # frame[i]})

\* _deduplicate_final_fitting_pool
Pool(train, val) == FirstOf(train) \o Without(FirstOf(val), ToSet(train))

CrossSplit(train, val) == Cardinality(ToSet(train) \cap ToSet(val))

\* The provenance of a reference, from its sources and what became of their rows.
ReferenceSaid(split, train, val, pool) ==
  [recipe      |-> "approved recipe",
   quarantine  |-> QuarantineChecked,
   conflicts   |-> 0,
   trainRows   |-> Len(split.train),
   valRows     |-> Len(split.val),
   quarantined |-> Len(split.train) + Len(split.val) - Len(train) - Len(val),
   duplicates  |-> Len(train) + Len(val) - Len(pool),
   crossSplit  |-> CrossSplit(train, val),
   pool        |-> Declared(pool)]

\* create_historical_reference_demo_bundle, when the approved recipe asks for
\* what was found.
ReferenceOf(split) ==
  LET train == Unquarantined(split.train)
      val   == Unquarantined(split.val)
  IN  ReferenceSaid(split, train, val, Pool(train, val))

Referable(split) == ~Contradictory(split.train \o split.val)

\* The accounting of _parse_recipe.  It divides by the pool's fraud rows.
RecipeAccepts(r) ==
  /\ r.crossSplit <= r.duplicates
  /\ r.pool.rows = r.pool.legitimate + r.pool.fraud
  /\ r.trainRows + r.valRows = r.pool.rows + r.quarantined + r.duplicates
  /\ r.pool.fraud > 0

\* The labels the model was fitted on, from the counts of the pool.
PoolLabels(pool) ==
  (IF pool.legitimate > 0 THEN {0} ELSE {}) \cup (IF pool.fraud > 0 THEN {1} ELSE {})

ReferenceBundle(reference) ==
  LET roles    == [role \in Roles |-> IF role = "model_fit" THEN reference.pool ELSE Nothing]
      training == Training("historical", roles, reference.quarantine)
  IN  [features |-> Schema, threshold |-> 53, use |-> IntendedUse("historical"),
       components |-> FittedOn(PoolLabels(reference.pool)),
       calibrator |-> FALSE, score |-> "raw_score",
       training |-> training, fingerprint |-> training.rolesSha,
       said |-> ThresholdSaid("historical", 53, FALSE),
       reference |-> reference]

\* null is none of the records that are declared.  The approved reference was made
\* from rows of both labels.
ASSUME NullAssumption ==
  /\ Nothing # QuarantineChecked /\ Nothing # Evidence0 /\ Evidence0.pool.legitimate \in Nat \ {0}
  /\ \A split \in Splits : Nothing # ReferenceOf(split).pool
  /\ \A frame \in Frames, role \in Roles :
       Nothing # Declared(TimeRoles(Curated(frame))[role])

-----------------------------------------------------------------------------
LessonInit == lesson = [kind |-> "none"]

LessonNext ==
  /\ lesson = [kind |-> "none"]
  /\ \/ \E frame \in Frames, table \in Comparisons, margin \in 0..1 :
          lesson' = [kind |-> "development", frame |-> frame, table |-> table,
                     margin |-> margin]
     \/ \E split \in Splits : lesson' = [kind |-> "reference", split |-> split]
     \/ \E times \in Timelines, gap \in Gaps :
          lesson' = [kind |-> "folds", times |-> times, gap |-> gap]

LessonSpec == LessonInit /\ [][LessonNext]_lesson

LessonOver == lesson.kind # "none"

-----------------------------------------------------------------------------
(* Parts of ProducedDataIsSound *)

\* The roles, in the order of their use, follow one another in time.
RolesFollow(roles) ==
  LET order == <<"model_fit", "calibrator_fit", "threshold_selection", "evaluation">> IN
  \A p, q \in 1..4 : p < q =>
    \A r \in ToSet(roles[order[p]]), s \in ToSet(roles[order[q]]) : r.time < s.time

\* Every distinct feature vector of the frame plays exactly one role, the roles
\* follow one another in time, so that the two internal errors about overlaps
\* cannot be raised, and both validators take the bundle.
RolesStayApart(frame, table, margin) ==
  LET roles  == TimeRoles(frame)
      method == CalibrationMethod(table, margin)
      bundle == DevelopmentBundle(frame, method, 50)
      sizes  == [role \in Roles |-> Len(roles[role])]
  IN  /\ RolesFollow(roles)
      /\ MapThenSumSet(LAMBDA role : sizes[role], Roles) = Len(frame)
      /\ method # "identity" =>
           \E m \in 2..3 : Methods[m] = method /\ table[m].brier <= table[1].brier - margin
      /\ ValidBundle(bundle)
      /\ ValidManifest(Manifest(bundle, 0), 0)

\* The pool holds every row of the two sources outside the quarantine, once,
\* and its accounts pass the parsers of the recipe and of the bundle.
PoolIsAccounted(split) ==
  LET reference == ReferenceOf(split)
      pool      == Pool(Unquarantined(split.train), Unquarantined(split.val))
  IN  /\ ToSet(pool) = ToSet(split.train \o split.val) \ TestRows
      /\ reference.pool.duplicates = 0
      /\ reference.pool.fraud > 0 =>
           /\ RecipeAccepts(reference)
           /\ ValidReference(reference)
           /\ ValidTraining(ReferenceBundle(reference).training)
           /\ reference = Evidence0 =>
                /\ ValidBundle(ReferenceBundle(reference))
                /\ ValidManifest(Manifest(ReferenceBundle(reference), 0), 0)

\* No fold looks ahead of its gap, and no row is validated twice.
FoldsLookBack(times, gap) ==
  LET folds == Folds(times, gap) IN
  /\ \A fold \in 1..2 :
       \A i \in folds[fold].train, j \in folds[fold].validated : times[i] + gap <= times[j]
  /\ folds[1].validated \cap folds[2].validated = {}
  /\ folds[1].train \subseteq folds[2].train

\* Whatever the frames hold, ties of time, duplicates and quarantined rows
\* included: a producer that does not refuse its rows keeps the roles apart, and
\* what it then declares passes the validators written apart from it.
ProducedDataIsSound ==
  CASE lesson.kind = "development" ->
         LET frame == Curated(lesson.frame) IN
         ~Contradictory(lesson.frame) /\ Trainable(frame) =>
           RolesStayApart(frame, lesson.table, lesson.margin)
    [] lesson.kind = "reference" ->
         Referable(lesson.split) => PoolIsAccounted(lesson.split)
    [] lesson.kind = "folds" ->
         Foldable(lesson.times, lesson.gap) => FoldsLookBack(lesson.times, lesson.gap)
    [] OTHER -> TRUE

=============================================================================

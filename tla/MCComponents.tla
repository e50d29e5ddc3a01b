---------------------------- MODULE MCComponents ----------------------------
(***************************************************************************)
(* The components that share no state with the serving path, on small      *)
(* instances for TLC.  They share none with one another either, so one run *)
(* checks them all: a behaviour exercises the component named by part and  *)
(* leaves the others at their initial states.                              *)
(***************************************************************************)
EXTENDS EventStore, OrderIntegrity, SchemaMigrations, ArtifactPublication,
        DataRoles, LaneASelection, LaneAFeatures, LaneAPipeline,
        RequestIngress, TestQuarantine, TLC

VARIABLE part

Components ==
  {"events", "orders", "migrations", "publication", "lessons", "selection",
   "features", "lane", "ingress", "quarantine"}

-----------------------------------------------------------------------------
(* SyntheticSignals and EventStore: a day apart, and a minute *)

FreeEvent(i, t, actor) == Ordinary(<<"free", i>>, t, actor, 300)

TheFreeEvents ==
  {FreeEvent(1, 0, 1), FreeEvent(1, 0, 2), FreeEvent(2, 60, 1), FreeEvent(3, 86400, 1),
   FreeEvent(4, 86460, 2), [FreeEvent(5, 86400, 1) EXCEPT !.outcome = "failed"]}

TheDraws == [1..7 -> 1..2] \cup {[i \in 1..7 |-> i]}

-----------------------------------------------------------------------------
(* OrderIntegrity *)

Line(sku, quantity) == [sku |-> sku, quantity |-> quantity]

TheCarts == {<<Line("a", 1)>>, <<Line("b", 1), Line("b", 1)>>, <<Line("b", 2), Line("b", 2)>>}
TheTables == {[a |-> 4, b |-> 2], [a |-> 5, b |-> 2]}
TheAmounts == {4, 5, -1}

-----------------------------------------------------------------------------
(* SchemaMigrations: of four releases two disagree on the first file *)

File(v, checksum) == [version |-> v, checksum |-> checksum]

TheRelease ==
  [oA |-> <<File(1, "x")>>, oB |-> <<File(1, "x"), File(2, "x")>>,
   oC |-> <<File(1, "y"), File(2, "x")>>, oD |-> <<File(1, "x"), File(2, "x")>>]

-----------------------------------------------------------------------------
(* DataRoles: four rows at each of 19 to 35 times *)

Row(t, others, label) == [time |-> t, others |-> others, label |-> label]

FrameOf(n, kinds, shift, forward) ==
  [i \in 1..(4 * n) |->
     LET p == IF forward THEN i ELSE 4 * n + 1 - i
         t == (p - 1) \div 4 + 1
         o == (p - 1) % kinds
     IN  Row(t, o, IF shift = 2 THEN (p \div 2) % 2 ELSE (t + o + shift) % 2)]

TheFrames ==
  {FrameOf(n, kinds, shift, forward) :
     n \in {19, 20, 27, 35}, kinds \in {3, 4}, shift \in 0..2, forward \in BOOLEAN}

SomeRows == {Row(1, 1, 0), Row(1, 2, 1), Row(2, 1, 0), Row(2, 1, 1), Row(3, 1, 1)}

TheSplits ==
  [train : UNION {[1..n -> SomeRows] : n \in 1..3}, val : UNION {[1..n -> SomeRows] : n \in 1..2}]

TheTestRows == {Row(1, 1, 0), Row(3, 2, 1)}

TheTimelines == UNION {[1..n -> 0..4] : n \in 3..5}

Comparison(identity, platt, isotonic) ==
  <<[brier |-> identity, error |-> 1], [brier |-> platt, error |-> 0],
    [brier |-> isotonic, error |-> 1]>>

TheComparisons ==
  {Comparison(2, 2, 2), Comparison(2, 1, 0), Comparison(1, 2, 0), Comparison(0, 1, 2)}

\* The approved reference.
TheReference ==
  ReferenceOf([train |-> <<Row(1, 2, 1), Row(1, 1, 0), Row(1, 2, 1)>>,
               val   |-> <<Row(2, 1, 0), Row(1, 2, 1)>>])

-----------------------------------------------------------------------------
(* ArtifactPublication: two bundles, one with counts that do not add up, and a
   quarantine *)

OnlyFit(counts) == [role \in Roles |-> IF role = "model_fit" THEN counts ELSE Nothing]

HistoricalBundle == ReferenceBundle(TheReference)

CalibratedBundle ==
  LET roles    == [role \in Roles |-> TheReference.pool]
      training == Training("development", roles, QuarantineChecked)
  IN  [HistoricalBundle EXCEPT
         !.use = IntendedUse("development"), !.calibrator = TRUE, !.score = "calibrated_probability",
         !.threshold = 40, !.said = ThresholdSaid("development", 40, TRUE),
         !.training = training, !.fingerprint = training.rolesSha, !.reference = Nothing]

OddBundle ==
  LET roles    == OnlyFit([TheReference.pool EXCEPT !.rows = 0])
      training == Training("synthetic", roles, Nothing)
  IN  [HistoricalBundle EXCEPT
         !.use = IntendedUse("synthetic"), !.said = ThresholdSaid("synthetic", 53, FALSE),
         !.training = training, !.fingerprint = training.rolesSha, !.reference = Nothing]

TheCandidates ==
  [a |-> {HistoricalBundle, Quarantined}, b |-> {CalibratedBundle, OddBundle, Quarantined}]

-----------------------------------------------------------------------------
(* LaneASelection *)

TheRowCounts == [1..5 -> {1, 2, 9}] \cup [1..6 -> {1, 9}] \cup [1..7 -> {1, 9}]

\* Two that round to the same, two a gate apart, and one that failed.
TheBoards ==
  LET aps == {-1, 21358, 21361, 22361, 22364}
      results == [ap : aps, above : BOOLEAN]
  IN  {<<[ap |-> a, above |-> FALSE], r, s, t>> : a \in aps \ {-1}, r \in results,
         s \in results, t \in {u \in results : u.above}}

TheSamples == [1..4 -> [label : {0, 1}, score : 0..2]]

-----------------------------------------------------------------------------
(* LaneAFeatures: one ordinary row and one in which a few cells are unusual *)

TheCells ==
  {Blank, ReservedText, PrefixedText, NullLike, Text("a"), Text("b"), Number(1, "1"),
   Number(1, "1.0"), Number(-1, "-1")}

SourceRow(role, amount, product, flag, device) ==
  [role |-> role, present |-> device # NoCell,
   cells |-> [c \in TransactionSourced |->
                CASE c = Column("TransactionAmt") -> amount
                  [] c = Column("ProductCD") -> product
                  [] c = <<"M", 1>> -> flag
                  [] c \in NumericColumns -> Number(1, "1")
                  [] OTHER -> Text("a")],
   identity |-> [c \in IdentitySourced |-> IF c = Column("DeviceType") THEN device ELSE Text("a")]]

TheSources ==
  LET rest(role, product, flag) == SourceRow(role, Number(1, "1"), product, flag, Text("a"))
      a == Text("a")
  IN  {<<rest("training", x, a), rest(role, y, f)>> :
         role \in {"training", "final_test"}, x \in TheCells, y \in TheCells, f \in {a, NullLike}}
        \cup
      {<<SourceRow("training", n, x, a, d), SourceRow("training", m, x, a, e)>> :
         n \in TheCells, m \in {Number(1, "1"), Blank}, x \in {a, Number(2, "2")},
         d \in TheCells \cup {NoCell}, e \in {a, NoCell, Blank}}

-----------------------------------------------------------------------------
(* LaneAPipeline: two partitions whose held-out rows differ *)

TheAssignments ==
  {<<"training", "validation_threshold", "calibration_fit", "calibration_eval", "final_test",
     "final_test">>,
   <<"training", "training", "validation_threshold", "calibration_fit", "calibration_eval",
     "final_test">>}

-----------------------------------------------------------------------------
(* RequestIngress *)

TheHeaders == {<<>>} \cup [1..1 -> {"id1", "@"}] \cup [1..2 -> {"id1", "id2", "@"}]

-----------------------------------------------------------------------------
(* TestQuarantine: two test files of which one row differs; one training frame
   has that row *)

TheXContents ==
  LET file(last) == <<[time |-> 1, others |-> 1], [time |-> last, others |-> 1]>>
  IN  {file(2), file(3), OtherColumns}

TheYContents == {<<0, 1>>, <<1, 0>>, <<0, 1, 1>>}

TheTrainingFrames == {<<Row(4, 1, 0), Row(5, 1, 1)>>, <<Row(4, 1, 0), Row(3, 1, 1)>>}

TheRecipe ==
  LET x == <<[time |-> 1, others |-> 1], [time |-> 3, others |-> 1]>>
      y == <<0, 1>>
  IN  [sources |-> <<Row(4, 1, 0), Row(3, 1, 1)>>,
       anchor  |-> AnchorOf(Payload([x |-> x, y |-> y], TestFrame(x, y)))]

-----------------------------------------------------------------------------
(* One component at a time *)

ComponentsInit ==
  /\ part \in Components
  /\ EventsInit /\ OrderInit /\ MigrationsInit
  /\ PublicationInit /\ LessonInit /\ SelectionInit /\ FeaturesInit /\ LaneInit /\ IngressInit
  /\ QuarantineInit
  /\ retained.y = <<0, 1>>
  /\ retained.x # OtherColumns
  /\ part # "publication" =>
       /\ parent = "old"
       /\ \A p \in Publishers : content[p] = Quarantined
  /\ part # "lane" => protocol = "v1"
  /\ part # "quarantine" => retained.x = CHOOSE x \in TheXContents : ExactTypes(x)

ComponentsNext ==
  /\ UNCHANGED part
  /\ \/ part = "events" /\ EventsNext
     \/ part # "events" /\ UNCHANGED eventVars
  /\ \/ part = "orders" /\ OrderNext
     \/ part # "orders" /\ UNCHANGED orderVars
  /\ \/ part = "migrations" /\ MigrationsNext
     \/ part # "migrations" /\ UNCHANGED migrationVars
  /\ \/ part = "publication" /\ PublicationNext
     \/ part # "publication" /\ UNCHANGED publicationVars
  /\ \/ part = "lessons" /\ LessonNext
     \/ part # "lessons" /\ UNCHANGED lesson
  /\ \/ part = "selection" /\ SelectionNext
     \/ part # "selection" /\ UNCHANGED exam
  /\ \/ part = "features" /\ FeaturesNext
     \/ part # "features" /\ UNCHANGED source
  /\ \/ part = "lane" /\ LaneNext
     \/ part # "lane" /\ UNCHANGED laneVars
  /\ \/ part = "ingress" /\ IngressNext
     \/ part # "ingress" /\ UNCHANGED request
  /\ \/ part = "quarantine" /\ QuarantineNext
     \/ part # "quarantine" /\ UNCHANGED quarantineVars

componentVars ==
  <<part, eventVars, orderVars, migrationVars, publicationVars, lesson, exam, source,
    laneVars, request, quarantineVars>>

\* Where a component may stop for good.
ComponentOver ==
  \/ part = "migrations" /\ MigrationsOver
  \/ part = "publication" /\ PublicationOver
  \/ part = "lessons" /\ LessonOver
  \/ part = "selection" /\ SelectionOver
  \/ part = "features" /\ FeaturesOver
  \/ part = "lane" /\ LaneOver
  \/ part = "ingress" /\ IngressOver

ComponentsSpec ==
  ComponentsInit /\ [][ComponentsNext \/ (ComponentOver /\ UNCHANGED componentVars)]_componentVars

=============================================================================

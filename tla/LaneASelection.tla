--------------------------- MODULE LaneASelection ---------------------------
(***************************************************************************)
(* The selection rules of Lane A: the chronological partition              *)
(* (partition.py), the allocation of a review capacity and the workload    *)
(* for a recall (capacity.py, final_evaluation.py), and the operating      *)
(* threshold (evaluation.py); beside them the threshold rules of the       *)
(* reference stages (threshold_tuning.py), the calibration errors          *)
(* (calibration.py) and the choice among fitted models (variants.py,       *)
(* model_comparison.py).                                                   *)
(*                                                                         *)
(* A partition is made from the numbers of rows at successive timestamps.  *)
(* A sample is a sequence of rows with a label and a score; fractions are  *)
(* compared by cross-multiplication, targets are percentages.              *)
(***************************************************************************)
EXTENDS Integers, Sequences, FiniteSets, FiniteSetsExt, SequencesExt

CONSTANTS
  RowCounts,    \* inputs of choose_boundaries: rows at timestamp 1, 2, ...
  Samples,      \* inputs of the ranking rules: sequences of [label, score]
  Thresholds,   \* candidate grid of select_threshold
  Capacities,   \* review budgets
  Boards        \* validation results of models: sequences of [ap, above]

ASSUME SelectionAssumption ==
  /\ RowCounts \subseteq Seq(Nat \ {0})
  /\ Samples \subseteq Seq([label : {0, 1}, score : Nat])
  /\ Thresholds \subseteq Int /\ IsFiniteSet(Thresholds) /\ Capacities \subseteq Nat

VARIABLE exam   \* the inputs the rules are applied to

Magnitude(n) == IF n < 0 THEN -n ELSE n

-----------------------------------------------------------------------------
(* partition.py *)

RoleNames == <<"training", "validation_threshold", "calibration_fit", "calibration_eval",
           "final_test">>

Target == <<55, 12, 9, 9, 15>>

\* np.cumsum, from 0.
Cumulated(counts) ==
  LET sum[n \in 0..Len(counts)] == IF n = 0 THEN 0 ELSE sum[n - 1] + counts[n]
  IN  sum

Total(counts) == Cumulated(counts)[Len(counts)]

\* How far a cut is from its target, in hundredths of a row.
Deviation(counts, index, role) ==
  Magnitude(100 * Cumulated(counts)[index] - Cumulated(Target)[role] * Total(counts))

Room(counts, previous, role) == (previous + 1)..(Len(counts) - (5 - role))

\* The index of least deviation, the first of several.
BestCut(counts, previous, role) ==
  LET off == [i \in Room(counts, previous, role) |-> Deviation(counts, i, role)]
  IN  Min({i \in DOMAIN off : \A j \in DOMAIN off : off[i] <= off[j]})

\* choose_boundaries: four cuts one after the other; the last role takes the
\* rest.  The upper timestamp of a role is the index of its cut.
Boundaries(counts) ==
  LET cut[role \in 0..5] ==
        IF role = 0 THEN 0
        ELSE IF role = 5 THEN Len(counts)
        ELSE BestCut(counts, cut[role - 1], role)
  IN  [role \in 1..5 |->
         [upper |-> cut[role],
          rows |-> Cumulated(counts)[cut[role]] - Cumulated(counts)[cut[role - 1]]]]

RoleForTimestamp(t, bounds) == Min({role \in 1..5 : t <= bounds[role].upper})

\* verify_partition: the roles re-derived row by row.
VerifiesPartition(counts, bounds) ==
  LET role(t) == RoleForTimestamp(t, bounds) IN
  /\ \A r \in 1..4 : bounds[r].upper < bounds[r + 1].upper
  /\ \A s, t \in DOMAIN counts : s < t => role(s) <= role(t)
  /\ {role(t) : t \in DOMAIN counts} = 1..5
  /\ \A r \in 1..5 :
       MapThenSumSet(LAMBDA t : counts[t], {t \in DOMAIN counts : role(t) = r})
         = bounds[r].rows

-----------------------------------------------------------------------------
(* capacity.py *)

\* np.lexsort((positions, -values))
Precedes(sample, i, j) ==
  \/ sample[i].score > sample[j].score
  \/ sample[i].score = sample[j].score /\ i < j

RankOf(sample, i) == 1 + Cardinality({j \in DOMAIN sample : Precedes(sample, j, i)})

\* allocate_reviews: the first rows of that order, up to the budget.
Allocated(sample, budget) == {i \in DOMAIN sample : RankOf(sample, i) <= budget}

Positives(sample) == {i \in DOMAIN sample : sample[i].label = 1}

FrontierRow(sample, budget) ==
  LET chosen == Allocated(sample, budget) IN
  [tp |-> Cardinality(chosen \cap Positives(sample)),
   fp |-> Cardinality(chosen \ Positives(sample)),
   fn |-> Cardinality(Positives(sample) \ chosen),
   tn |-> Cardinality((DOMAIN sample \ chosen) \ Positives(sample))]

ReachesRecall(row) == row.tp > 0 /\ 10 * row.tp >= 8 * (row.tp + row.fn)

\* capacity_table raises unless every row reconciles.
Reconciles(sample, budget) ==
  LET row == FrontierRow(sample, budget) IN
  /\ row.tp + row.fn = Cardinality(Positives(sample))
  /\ row.tp + row.fp + row.fn + row.tn = Len(sample)
  /\ row.tp + row.fp <= budget

\* Faulty: equal scores in the order of their labels.
PrecedesByLabel(sample, i, j) ==
  \/ sample[i].score > sample[j].score
  \/ sample[i].score = sample[j].score /\ sample[i].label > sample[j].label

RankedWithoutTies(sample) ==
  SortSeq([i \in DOMAIN sample |-> i], LAMBDA i, j : PrecedesByLabel(sample, i, j))

\* The rows with the numbers 1, 2, ... in their order.
InOrder(rank) == [k \in DOMAIN rank |-> CHOOSE i \in DOMAIN rank : rank[i] = k]

Ranked(sample) == InOrder([i \in DOMAIN sample |-> RankOf(sample, i)])

Needed(sample) == (8 * Cardinality(Positives(sample)) + 9) \div 10

\* workload_for_recall: the first position at which enough positives are found.
WorkloadForRecall(sample) ==
  LET order == Ranked(sample)
      found(n) == Cardinality({k \in 1..n : sample[order[k]].label = 1})
  IN  Min({n \in DOMAIN order : found(n) >= Needed(sample)})

-----------------------------------------------------------------------------
(* evaluation.py *)

Predicted(sample, threshold) == {i \in DOMAIN sample : sample[i].score >= threshold}

ThresholdRow(sample, threshold) ==
  LET chosen == Predicted(sample, threshold) IN
  [threshold |-> threshold,
   tp |-> Cardinality(chosen \cap Positives(sample)),
   volume |-> Cardinality(chosen),
   meetsRecall |-> 10 * Cardinality(chosen \cap Positives(sample))
                     >= 8 * Cardinality(Positives(sample))]

\* Higher precision, then higher recall, then the lower threshold.  A row that
\* meets the recall target selects something.
Preferred(r, s) ==
  \/ r.tp * s.volume > s.tp * r.volume
  \/ /\ r.tp * s.volume = s.tp * r.volume
     /\ \/ r.tp > s.tp
        \/ r.tp = s.tp /\ r.threshold <= s.threshold

SelectThreshold(sample, capacity) ==
  LET rows     == {ThresholdRow(sample, t) : t \in Thresholds}
      meeting  == {r \in rows : r.meetsRecall}
      feasible == {r \in meeting : r.volume <= capacity}
      best(S)  == CHOOSE r \in S : \A s \in S : Preferred(r, s)
  IN  IF feasible # {} THEN [selected |-> TRUE, reason |-> "satisfied", row |-> best(feasible)]
      ELSE IF meeting # {}
           THEN [selected |-> FALSE, reason |-> "review_capacity", row |-> best(meeting)]
      ELSE [selected |-> FALSE, reason |-> "recall_target"]

-----------------------------------------------------------------------------
(* threshold_tuning.py: the rules of the reference stages *)

\* Without a prediction precision is zero.
AsPrecise(r, s) == r.tp * Max({s.volume, 1}) >= s.tp * Max({r.volume, 1})

FalseAlerts(row) == row.volume - row.tp

\* The table of metrics at every threshold.
TuningTable(sample) == {ThresholdRow(sample, t) : t \in Thresholds}

Lowest(rows) == CHOOSE r \in rows : \A s \in rows : r.threshold <= s.threshold

\* f1 = 2 tp / (volume + positives)
BestF1(sample) ==
  LET f1AtLeast(r, s) == r.tp * (s.volume + Cardinality(Positives(sample)))
                           >= s.tp * (r.volume + Cardinality(Positives(sample)))
      table == TuningTable(sample)
  IN  Lowest({r \in table : \A s \in table : f1AtLeast(r, s)})

\* The highest precision among the rows that reach the recall target.
RecallTarget(sample) ==
  LET eligible == {r \in TuningTable(sample) : r.meetsRecall} IN
  {Lowest({r \in eligible : \A s \in eligible : AsPrecise(r, s)}) : e \in eligible}

\* The highest recall among the rows as precise as the given one.
PrecisionTarget(sample, goal) ==
  LET eligible == {r \in TuningTable(sample) : AsPrecise(r, goal)} IN
  Lowest({r \in eligible : \A s \in eligible : r.tp >= s.tp})

\* The highest recall under a cap of false alerts; then the fewest of them, and
\* the largest threshold.
FalsePositiveTarget(sample, cap) ==
  LET eligible  == {r \in TuningTable(sample) : FalseAlerts(r) <= cap}
      recalling == {r \in eligible : \A s \in eligible : r.tp >= s.tp}
  IN  CHOOSE r \in recalling : \A s \in recalling :
        \/ FalseAlerts(r) < FalseAlerts(s)
        \/ FalseAlerts(r) = FalseAlerts(s) /\ r.threshold >= s.threshold

-----------------------------------------------------------------------------
(* final_evaluation.py, calibration.py: a score is in units of one half, and there
   are two bins where the code has ten *)

Bins == 2

\* expected_calibration_error: np.digitize over the inner edges.
BinOf(score) == Cardinality({edge \in 1..(Bins - 1) : edge <= score})

\* reliability_table, uniform: the last bin also takes a score of one.
UniformBin(score) == Min({score, Bins - 1})

\* _validated_inputs
TwoLabels(sample) == Positives(sample) \notin {{}, DOMAIN sample}

\* Summed over the bins, how far the positives are from the sum of the scores;
\* a bin is weighted by its rows.
CalibrationError(sample, bins) ==
  MapThenSumSet(
    LAMBDA b : LET rows == {i \in DOMAIN sample : bins[i] = b} IN
               Magnitude(Bins * Cardinality(rows \cap Positives(sample))
                           - MapThenSumSet(LAMBDA i : sample[i].score, rows)),
    0..(Bins - 1))

ExpectedCalibrationError(sample) ==
  CalibrationError(sample, [i \in DOMAIN sample |-> BinOf(sample[i].score)])

EvaluateCalibration(sample) ==
  CalibrationError(sample, [i \in DOMAIN sample |-> UniformBin(sample[i].score)])

-----------------------------------------------------------------------------
(* The choice among fitted models.  A board has, for every model in the order of
   simplicity, the average precision in units of 1/100000, none of them half way
   between two rounded ones, and whether the interval of its gain over the first
   lies above zero. *)

NoScore == -1   \* a model that failed, None or NaN

Rounded(ap) == IF ap = NoScore THEN NoScore ELSE (ap + 5) \div 10

Scored(board) == {i \in DOMAIN board : board[i].ap # NoScore}

\* Both choices raise when no model has a score.
ASSUME BoardAssumption ==
  \A board \in Boards :
    board \in Seq([ap : Nat \cup {NoScore}, above : BOOLEAN]) /\ Scored(board) # {}

\* build_model_comparison_table: rounded, then sorted; a few equal ones stay in order.
ListedBefore(board, i, j) ==
  \/ Rounded(board[i].ap) > Rounded(board[j].ap)
  \/ Rounded(board[i].ap) = Rounded(board[j].ap) /\ i < j

ComparisonTable(board) ==
  InOrder([i \in DOMAIN board |->
             1 + Cardinality({j \in DOMAIN board : ListedBefore(board, j, i)})])

\* select_champion_model: the first row of the highest value.
ChampionModel(board) ==
  LET table == ComparisonTable(board)
      valid == {k \in DOMAIN table : table[k] \in Scored(board)}
  IN  table[Min({k \in valid : \A l \in valid :
                   Rounded(board[table[k]].ap) >= Rounded(board[table[l]].ap)})]

\* select_champion of Lane A v1: a tie goes to the simpler model.
SelectChampion(board) ==
  Min({i \in Scored(board) : \A j \in Scored(board) : board[i].ap >= board[j].ap})

\* The gates of v2 over the baseline, whose control has been reproduced.
PassesGates(board, i) ==
  i # 1 /\ i \in Scored(board) /\ board[i].ap - board[1].ap >= 1000 /\ board[i].above

\* choose_eligible_variant: a later variant has more inputs, so that an exact
\* tie never gets to the size or to the name.
ChosenVariant(board) ==
  LET eligible == {i \in DOMAIN board : PassesGates(board, i)} IN
  IF eligible = {} THEN 1
  ELSE Min({i \in eligible : \A j \in eligible : board[i].ap >= board[j].ap})

-----------------------------------------------------------------------------
SelectionInit == exam = [kind |-> "none"]

SelectionNext ==
  /\ exam = [kind |-> "none"]
  /\ \/ \E counts \in RowCounts : exam' = [kind |-> "partition", counts |-> counts]
     \/ \E sample \in Samples : exam' = [kind |-> "ranking", sample |-> sample]
     \/ \E board \in Boards : exam' = [kind |-> "contest", board |-> board]

SelectionSpec == SelectionInit /\ [][SelectionNext]_exam

SelectionOver == exam.kind # "none"

-----------------------------------------------------------------------------
\* The five cuts are placed one after the other, each as close to its target as
\* the earlier ones left it; still every role gets rows, and the independent
\* verification of the freeze accepts whatever was chosen, however unevenly the
\* rows fall on the timestamps.
PartitionIsAccepted ==
  exam.kind = "partition" /\ Len(exam.counts) >= 5 =>
    /\ VerifiesPartition(exam.counts, Boundaries(exam.counts))
    /\ \A r \in 1..5 : Boundaries(exam.counts)[r].rows >= 1

\* Whoever rounds before comparing picks a model that no other beats by a whole
\* unit of the rounding, the one that Lane A picks where the rounding makes no tie;
\* and a variant replaces the baseline only if it is also better than whatever
\* simpler one passed the gates.
WinnersStand(board) ==
  LET champion == ChampionModel(board)
      best     == SelectChampion(board)
      chosen   == ChosenVariant(board)
  IN  /\ champion = ComparisonTable(board)[1]
      /\ \A i \in Scored(board) : board[i].ap - board[champion].ap < 10
      /\ (\A i \in Scored(board) \ {best} : Rounded(board[i].ap) < Rounded(board[best].ap)) =>
           champion = best
      /\ board[1].ap # NoScore =>
           /\ chosen # best => board[best].ap - board[chosen].ap < 1000 \/ ~board[best].above
           /\ \A i \in 1..(chosen - 1) : PassesGates(board, i) => board[i].ap < board[chosen].ap

\* Three rules computed apart agree: the workload for a recall is the smallest
\* budget whose allocation reaches that recall; an operating threshold marks
\* exactly the rows that a capacity of its volume would, ties included; and the
\* threshold said to be the best is not beaten by any within the capacity.
\*
\* The rules of the reference stages agree with them: without a capacity Lane A
\* chooses their recall-target threshold, that threshold is again the answer
\* when its own precision is asked for, and marks the same rows as the answer
\* when its own false alerts are allowed; and no threshold marks as many
\* positives with fewer false alerts than the one of the best F1, if that finds any.
\*
\* The calibration error of the final evaluation is that of the development
\* report over uniform bins, a score on an edge or of one included.
RankingsAgree ==
  /\ exam.kind = "contest" => WinnersStand(exam.board)
  /\ exam.kind = "ranking" /\ TwoLabels(exam.sample) =>
       ExpectedCalibrationError(exam.sample) = EvaluateCalibration(exam.sample)
  /\ exam.kind = "ranking" /\ Positives(exam.sample) # {} =>
    LET sample == exam.sample
        workload == WorkloadForRecall(sample)
    IN  /\ \A budget \in 0..Len(sample) :
             /\ ReachesRecall(FrontierRow(sample, budget)) <=> budget >= workload
             /\ Reconciles(sample, budget)
        /\ \A capacity \in Capacities :
             LET choice == SelectThreshold(sample, capacity) IN
             /\ choice.selected =>
                  /\ Predicted(sample, choice.row.threshold)
                       = Allocated(sample, choice.row.volume)
                  /\ choice.row.volume \in workload..capacity
                  /\ \A t \in Thresholds :
                       Cardinality(Predicted(sample, t)) \in workload..choice.row.volume =>
                         ThresholdRow(sample, t).tp <= choice.row.tp
             /\ choice.reason = "recall_target" =>
                  \A t \in Thresholds : Cardinality(Predicted(sample, t)) < workload
        /\ \A r \in RecallTarget(sample) :
             /\ SelectThreshold(sample, Len(sample)).row = r
             /\ PrecisionTarget(sample, r) = r
             /\ LET f == FalsePositiveTarget(sample, FalseAlerts(r)) IN
                  Predicted(sample, f.threshold) = Predicted(sample, r.threshold)
        /\ LET best == BestF1(sample) IN
             best.tp > 0 =>
               \A r \in TuningTable(sample) :
                 r.tp >= best.tp /\ FalseAlerts(r) <= FalseAlerts(best) => r.volume = best.volume

\* The two together: what was chosen for the freeze can be frozen, and those who
\* rank, compare or report by rules of their own come to the same selection.
SelectionsAreSound == PartitionIsAccepted /\ RankingsAgree

=============================================================================

----------------------------- MODULE MCEvidence -----------------------------
(***************************************************************************)
(* The tools that leave evidence behind, and the SQLite prototype, on small *)
(* instances for TLC.  They share no state, so one run checks them all: a  *)
(* behaviour exercises the one named by tool and leaves the others at their *)
(* initial states.                                                         *)
(***************************************************************************)
EXTENDS FinalLifecycle, ScaleHarness, ReferenceStages, SqliteStore, TLC

\* One tool runs at a time, so the tools share their model values, and one
\* group of permutations serves all of them.
CONSTANTS a1, a2, a3, a4, b1, b2

VARIABLE tool

Tools == {"final", "harness", "racing", "alone", "chain", "sqlite"}

-----------------------------------------------------------------------------
(* FinalLifecycle *)

ThreeRuns      == {a1, a2, a3}
TwoDirectories == {b1, b2}

-----------------------------------------------------------------------------
(* ScaleHarness: a matrix of two repeats *)

TheMix == [warmup   |-> [valid |-> 2, sources |-> 1, each |-> 1, malformed |-> 0],
           measured |-> [valid |-> 2, sources |-> 1, each |-> 1, malformed |-> 1]]

TheSmokeCell   == <<1, 8, 1>>
TheWorkers     == <<1>>
TheConcurrency == <<2>>
TheRepeats     == <<1, 2>>

-----------------------------------------------------------------------------
(* ReferenceStages.  Two invocations at a time split and train in three    *)
(* directories; one at a time, all stages run in three directories, and    *)
(* each stage up to the judgement of the day 5 model once, in four.  The    *)
(* default paths hold files of another split.                              *)

StagesRun ==
  [racing |-> [stages |-> {"day3", "day4"}, targets |-> {a1, a2, a3}, atOnce |-> 2, again |-> TRUE],
   alone  |-> [stages |-> Stages, targets |-> {a1, a2, a3}, atOnce |-> 1, again |-> TRUE],
   chain  |-> [stages |-> {"day3", "day4", "day5", "day6"}, targets |-> {a1, a2, a3, a4},
               atOnce |-> 1, again |-> FALSE]]

TwoInvocations == {b1, b2}
FourTargets    == {a1, a2, a3, a4}

\* What may be launched is restricted; whatever is under way goes its way.
StagesAsRun(how) ==
  LET busy == {j \in Invocations : job[j].at # "idle"} IN
  /\ StagesNext
  /\ Cardinality(busy') <= how.atOnce
  /\ \A t \in Targets \ how.targets : Free(t)'
  /\ \A j \in busy' \ busy :
       /\ job'[j].stage \in how.stages /\ job'[j].target \in how.targets
       /\ how.again \/ \A t \in Targets : IsEvidence(t) => tree[t].stage # job'[j].stage

\* Nothing is left to publish to.
StagesOver(how) ==
  (\A j \in Invocations : job[j].at = "idle") /\ \A t \in how.targets : ~Free(t)

TheDefaults    == {"defaults"}
TrustedPlaces  == FourTargets \cup TheDefaults

\* Six transactions, another edition that overlaps, and one with a duplicate.
TheRows ==
  LET first(n) == [i \in 1..6 |-> [features |-> n + i, fraud |-> i % 2 = 0]]
  IN  [one |-> first(0), other |-> first(2), doubled |-> [first(0) EXCEPT ![6].features = 1]]

TheDraws ==
  <<<<"train", "train", "validation", "validation", "test", "test">>,
    <<"test", "validation", "train", "train", "validation", "test">>>>

\* Elsewhere are the files of another draw, the model and the metrics made of it.
TheStrays ==
  LET part(name) == [of |-> "one", rows |-> {i \in 1..6 : TheDraws[2][i] = name}]
      pair(name) == [x |-> part(name), y |-> part(name)]
      model(name) == [name |-> name, fitted |-> pair("train")]
  IN  {[dataset |-> data,
        x_train |-> part("train"), x_validation |-> part("validation"),
        y_train |-> part("train"), y_validation |-> part("validation"),
        model   |-> model("xgboost_baseline"),
        metrics |-> {[model    |-> model("random_forest"), judged |-> pair("validation"),
                      labelled |-> part("validation")]}] : data \in DOMAIN TheRows}

-----------------------------------------------------------------------------
(* SqliteStore: three calls of one key over two connections *)

ThreeCallers == {a1, a2, a3}
TwoHandles   == {b1, b2}

-----------------------------------------------------------------------------
(* One tool at a time *)

Symmetry == Permutations({a1, a2, a3}) \cup Permutations({b1, b2})

EvidenceInit ==
  /\ tool \in Tools
  /\ Init /\ HarnessInit /\ StagesInit /\ SqliteInit
  /\ elsewhere["defaults"].dataset = "one"
  /\ tool # "harness" => mode = "smoke" /\ docker.container = "none" /\ docker.volume = "none"

EvidenceNext ==
  /\ UNCHANGED tool
  /\ \/ tool = "final" /\ Next
     \/ tool # "final" /\ UNCHANGED vars
  /\ \/ tool = "harness" /\ HarnessNext
     \/ tool # "harness" /\ UNCHANGED harnessVars
  /\ \/ /\ tool \in DOMAIN StagesRun
        /\ StagesAsRun(StagesRun[tool])
     \/ tool \notin DOMAIN StagesRun /\ UNCHANGED stageVars
  /\ \/ tool = "sqlite" /\ SqliteNext
     \/ tool # "sqlite" /\ UNCHANGED sqliteVars

evidenceVars == <<tool, vars, harnessVars, stageVars, sqliteVars>>

\* Where a tool may stop for good.
EvidenceOver ==
  \/ tool = "harness" /\ HarnessOver
  \/ tool \in DOMAIN StagesRun /\ StagesOver(StagesRun[tool])
  \/ tool = "sqlite" /\ SqliteQuiet

EvidenceSpec ==
  EvidenceInit /\ [][EvidenceNext \/ (EvidenceOver /\ UNCHANGED evidenceVars)]_evidenceVars

=============================================================================

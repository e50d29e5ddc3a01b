--------------------------- MODULE FinalLifecycle ---------------------------
(***************************************************************************)
(* The one-time final evaluation of a freeze commit: the lifecycle record  *)
(* of src/lane_a/final_lifecycle.py and the runner that drives it          *)
(* (scripts/lane_a_run_final_evaluation.py).                               *)
(*                                                                         *)
(* Several operators may start a runner, each in an output directory of    *)
(* its choice.  A runner asserts that no record exists, creates one with   *)
(* O_EXCL, writes it, and moves it from PREPARED to STARTED before it      *)
(* reads any final data, then to SEALED or FAILED_AFTER_ACCESS.  Every     *)
(* transition reads and checks the record and replaces the file.  A runner *)
(* can fail or be killed between any two of these steps.                   *)
(***************************************************************************)
EXTENDS Naturals, FiniteSets

CONSTANTS
  Runs,         \* runner invocations; each has its own run_id
  Directories,  \* values of --private-output-dir
  None          \* no directory, no run

ASSUME LifecycleAssumption == None \notin Directories \cup Runs

VARIABLES
  record,       \* the record file of a directory
  where,        \* output directory of a run
  stage,        \* how far a run is
  seen,         \* state of the record a run has read last
  accessed      \* history: runs that have read final data

vars == <<record, where, stage, seen, accessed>>

-----------------------------------------------------------------------------
(* The record file: absent, created but not yet written, or complete *)

LegalTransitions == [PREPARED |-> {"STARTED"},
                     STARTED |-> {"SEALED", "FAILED_AFTER_ACCESS"},
                     SEALED |-> {}, FAILED_AFTER_ACCESS |-> {}]

States == DOMAIN LegalTransitions

AccessBegun == {"STARTED", "SEALED", "FAILED_AFTER_ACCESS"}

NoFile == [state |-> "absent", run |-> None]

Exists(d) == record[d] # NoFile

Mine(n) == record[where[n]]

Write(n, s) == record' = [record EXCEPT ![where[n]] = [state |-> s, run |-> n]]

Goto(n, s) == stage' = [stage EXCEPT ![n] = s]

\* read: an unreadable or unknown record raises, as any refusal does.
Look(n, d) == seen' = [seen EXCEPT ![n] = record[d].state]

\* Faulty: any target is legal from a record of one's own.
MoveAnywhere(n, target) == Mine(n).state \in States /\ Mine(n).run = n

\* The checks of _transition.
MayMove(n, target) ==
  /\ Mine(n).state \in States
  /\ Mine(n).run = n
  /\ target \in LegalTransitions[Mine(n).state]

-----------------------------------------------------------------------------
Init ==
  /\ record = [d \in Directories |-> NoFile]
  /\ where = [n \in Runs |-> None]
  /\ stage = [n \in Runs |-> "off"]
  /\ seen = [n \in Runs |-> "nothing"]
  /\ accessed = {}

\* The pre-access gates, up to assert_no_prior_run.
AssertNoPriorRun(n, d) ==
  /\ stage[n] = "off"
  /\ where' = [where EXCEPT ![n] = d]
  /\ Look(n, d)
  /\ Goto(n, IF Exists(d) THEN "refused" ELSE "cleared")
  /\ UNCHANGED <<record, accessed>>

\* Faulty: open without O_EXCL.
CreateOver(n) ==
  /\ stage[n] = "cleared"
  /\ Write(n, "unwritten")
  /\ Goto(n, "created")
  /\ UNCHANGED <<where, seen, accessed>>

\* os.open with O_CREAT | O_EXCL.
Create(n) ==
  /\ stage[n] = "cleared"
  /\ ~Exists(where[n])
  /\ Write(n, "unwritten")
  /\ Goto(n, "created")
  /\ UNCHANGED <<where, seen, accessed>>

\* FileExistsError: prepare reads the record only to name its state.
CreateRefused(n) ==
  /\ stage[n] = "cleared"
  /\ Exists(where[n])
  /\ Look(n, where[n])
  /\ Goto(n, "refused")
  /\ UNCHANGED <<record, where, accessed>>

WritePrepared(n) ==
  /\ stage[n] = "created"
  /\ Write(n, "PREPARED")
  /\ Goto(n, "prepared")
  /\ UNCHANGED <<where, seen, accessed>>

\* _transition reads and checks; the replacement is a step of its own.
Check(n, from, target, next) ==
  /\ stage[n] = from
  /\ Look(n, where[n])
  /\ Goto(n, IF MayMove(n, target) THEN next ELSE "refused")
  /\ UNCHANGED <<record, where, accessed>>

Replace(n, from, target, next) ==
  /\ stage[n] = from
  /\ Write(n, target)
  /\ Goto(n, next)
  /\ UNCHANGED <<where, seen, accessed>>

CheckStart(n)  == Check(n, "prepared", "STARTED", "starting")
ReplaceStart(n) == Replace(n, "starting", "STARTED", "started")
CheckSeal(n)   == Check(n, "evaluated", "SEALED", "sealing")
ReplaceSeal(n) == Replace(n, "sealing", "SEALED", "sealed")
CheckFail(n)   == Check(n, "failing", "FAILED_AFTER_ACCESS", "recording")
ReplaceFail(n) == Replace(n, "recording", "FAILED_AFTER_ACCESS", "failed")

\* Faulty: sources are read while the record still says PREPARED.
AccessEarly(n) ==
  /\ stage[n] \in {"starting", "started"}
  /\ accessed' = accessed \cup {n}
  /\ Goto(n, IF stage[n] = "started" THEN "reading" ELSE "starting")
  /\ UNCHANGED <<record, where, seen>>

\* The first statement of the try block.
Access(n) ==
  /\ stage[n] = "started"
  /\ accessed' = accessed \cup {n}
  /\ Goto(n, "reading")
  /\ UNCHANGED <<record, where, seen>>

Evaluate(n) ==
  /\ stage[n] = "reading"
  /\ Goto(n, "evaluated")
  /\ UNCHANGED <<record, where, seen, accessed>>

\* An exception or an interrupt inside the try block, even one that arrives
\* when the record is already SEALED.
Fails(n) ==
  /\ stage[n] \in {"started", "reading", "evaluated", "sealing", "sealed"}
  /\ Goto(n, "failing")
  /\ UNCHANGED <<record, where, seen, accessed>>

Report(n) ==
  /\ stage[n] = "sealed"
  /\ Goto(n, "reported")
  /\ UNCHANGED <<record, where, seen, accessed>>

Ended == {"refused", "failed", "reported", "dead"}

\* A kill anywhere, or an error outside the try block.
Dies(n) ==
  /\ stage[n] \notin Ended \cup {"off"}
  /\ Goto(n, "dead")
  /\ UNCHANGED <<record, where, seen, accessed>>

Quiet == (\A n \in Runs : stage[n] \in Ended) /\ UNCHANGED vars

Next ==
  \/ \E n \in Runs :
       \/ \E d \in Directories : AssertNoPriorRun(n, d)
       \/ Create(n)
       \/ CreateRefused(n)
       \/ WritePrepared(n)
       \/ CheckStart(n)
       \/ ReplaceStart(n)
       \/ Access(n)
       \/ Evaluate(n)
       \/ CheckSeal(n)
       \/ ReplaceSeal(n)
       \/ Fails(n)
       \/ CheckFail(n)
       \/ ReplaceFail(n)
       \/ Report(n)
       \/ Dies(n)
  \/ Quiet

Spec == Init /\ [][Next]_vars

-----------------------------------------------------------------------------
(* Properties *)

\* O_EXCL and the run id decide between runners that have all found the
\* directory empty: at most one of them reads final data, in any directory.
AccessedOncePerDirectory ==
  \A m, n \in accessed : where[m] = where[n] => m = n

\* Whoever has read final data has left a record under its own run id that
\* says so, even if it was killed or interrupted right after.
AccessIsRecorded ==
  \A n \in accessed : Mine(n).state \in AccessBegun /\ Mine(n).run = n

\* Results are reported from a sealed record only, and a run recorded as failed
\* reports nothing.
ReportedIsSealed ==
  \A n \in Runs :
    stage[n] = "reported" => Mine(n) = [state |-> "SEALED", run |-> n]

\* A record tells of what was done under it, whether a run ended well, was
\* interrupted or was killed: nobody has read final data without one that says
\* so, and nobody reports without one that is sealed.
RecordIsTruthful == AccessIsRecorded /\ ReportedIsSealed

\* What a step may do to the record of a directory.
Forward(d) ==
  record'[d] # record[d] /\ Exists(d) =>
    /\ record'[d].run = record[d].run
    /\ \/ record[d].state = "unwritten" /\ record'[d].state = "PREPARED"
       \/ /\ record[d].state \in States
          /\ record'[d].state \in LegalTransitions[record[d].state]

\* The record only moves along the declared transitions, never changes hands
\* and never goes away; an interrupt after the seal must not turn it into a
\* failure.
RecordMovesForward == [][\A d \in Directories : Forward(d)]_record

\* What the record of a run's directory says while the run is at a stage.
Expected ==
  [created |-> {"unwritten"}, prepared |-> {"PREPARED"}, starting |-> {"PREPARED"},
   started |-> {"STARTED"}, reading |-> {"STARTED"}, evaluated |-> {"STARTED"},
   sealing |-> {"STARTED"}, sealed |-> {"SEALED"}, reported |-> {"SEALED"},
   failing |-> {"STARTED", "SEALED"}, recording |-> {"STARTED"},
   failed |-> {"FAILED_AFTER_ACCESS"}]

Owning == {"created", "prepared", "starting", "started", "reading", "evaluated",
           "sealing", "sealed", "reported", "failing", "recording", "failed"}

\* Why they hold: a run past its creation owns the record of its directory and
\* knows its state, also between the check and the replacement of a transition.
LifecycleInvariant ==
  /\ record \in [Directories ->
                  [state : States \cup {"absent", "unwritten"}, run : Runs \cup {None}]]
  /\ where \in [Runs -> Directories \cup {None}]
  /\ stage \in [Runs -> Owning \cup {"off", "cleared", "refused", "dead"}]
  /\ accessed \subseteq Runs
  /\ \A d \in Directories : record[d].run = None => record[d] = NoFile
  /\ \A n \in Runs :
       /\ stage[n] = "off" => n \notin accessed
       /\ stage[n] # "off" => where[n] \in Directories
       /\ stage[n] \in Owning =>
            Mine(n).run = n /\ Mine(n).state \in Expected[stage[n]]
       /\ n \in accessed => Mine(n).run = n /\ Mine(n).state \in AccessBegun

(* Two claims of the repository that the code does not keep *)

\* Module docstring: "A partially written record can therefore never be
\* observed."
PartialNeverObserved == \A n \in Runs : seen[n] # "unwritten"

\* Evaluation protocol: "The evaluation runs exactly once for a given freeze
\* commit", whatever directory its operator names.
AccessedOncePerFreeze == Cardinality(accessed) <= 1

=============================================================================

------------------------ MODULE FinalLifecycleProofs ------------------------
(***************************************************************************)
(* Proofs about FinalLifecycle, for any number of runs and directories.    *)
(*                                                                         *)
(* LifecycleInvariant is inductive: a step of one run writes only to a     *)
(* file that did not exist or that carries its own run id, so it cannot    *)
(* disturb what another run knows.  The properties of the runs follow.     *)
(***************************************************************************)
EXTENDS FinalLifecycle, TLAPS

\* A run that is not writing keeps what every other run knows: a step that
\* leaves the record alone preserves the invariant of the runs it does not move.
LEMMA RecordKept ==
  ASSUME LifecycleInvariant, NEW n \in Runs, NEW s,
         s \in Owning \cup {"cleared", "refused", "dead"},
         stage[n] # "off",
         stage' = [stage EXCEPT ![n] = s],
         UNCHANGED <<record, where>>,
         accessed' \subseteq accessed \cup {n},
         s \in Owning =>
           Mine(n).run = n /\ Mine(n).state \in Expected[s],
         n \in accessed' => Mine(n).run = n /\ Mine(n).state \in AccessBegun
  PROVE  LifecycleInvariant'
<1>1. /\ \A m \in Runs : Mine(m)' = Mine(m)
      /\ \A m \in Runs : m # n => stage'[m] = stage[m]
      /\ stage'[n] = s /\ s # "off"
  BY DEF LifecycleInvariant, Mine, Owning
<1>2. /\ stage' \in [Runs -> Owning \cup {"off", "cleared", "refused", "dead"}]
      /\ accessed' \subseteq Runs
  BY DEF LifecycleInvariant
<1>3. \A m \in Runs :
        /\ stage'[m] = "off" => m \notin accessed'
        /\ stage'[m] # "off" => where'[m] \in Directories
        /\ stage'[m] \in Owning =>
             Mine(m)'.run = m /\ Mine(m)'.state \in Expected[stage'[m]]
        /\ m \in accessed' => Mine(m)'.run = m /\ Mine(m)'.state \in AccessBegun
  <2> TAKE m \in Runs
  <2>1. CASE m = n
    BY <1>1, <2>1 DEF LifecycleInvariant
  <2>2. CASE m # n
    BY <1>1, <2>2 DEF LifecycleInvariant
  <2> QED BY <2>1, <2>2
<1> QED BY <1>2, <1>3 DEF LifecycleInvariant, Mine, NoFile

\* A run that writes the file of its directory, which did not exist or was its
\* own, preserves the invariant: no other run owns that file.
LEMMA RecordWritten ==
  ASSUME LifecycleInvariant, NEW n \in Runs, NEW s \in Owning, NEW t,
         t \in States \cup {"unwritten"},
         stage[n] # "off",
         ~Exists(where[n]) \/ Mine(n).run = n,
         stage' = [stage EXCEPT ![n] = s],
         Write(n, t),
         UNCHANGED <<where, accessed>>,
         t \in Expected[s],
         n \in accessed => t \in AccessBegun
  PROVE  LifecycleInvariant'
<1>1. where[n] \in Directories
  BY DEF LifecycleInvariant
<1>2. record' = [record EXCEPT ![where[n]] = [state |-> t, run |-> n]]
  BY DEF Write
<1>3. \A m \in Runs : m # n /\ where[m] = where[n] => Mine(m).run # m
  BY <1>1, LifecycleAssumption DEF LifecycleInvariant, Mine, Exists, NoFile
<1>4. \A m \in Runs : m # n /\ where[m] \in Directories /\ Mine(m).run = m =>
        Mine(m)' = Mine(m)
  BY <1>1, <1>2, <1>3 DEF LifecycleInvariant, Mine
<1>5. Mine(n)' = [state |-> t, run |-> n]
  BY <1>1, <1>2 DEF LifecycleInvariant, Mine
<1>6. \A m \in Runs : /\ m # n => stage'[m] = stage[m]
                      /\ stage'[n] = s
  BY DEF LifecycleInvariant
<1>7. \A m \in Runs :
        /\ stage'[m] \in Owning =>
             Mine(m)'.run = m /\ Mine(m)'.state \in Expected[stage'[m]]
        /\ m \in accessed' => Mine(m)'.run = m /\ Mine(m)'.state \in AccessBegun
        /\ stage'[m] = "off" => m \notin accessed'
        /\ stage'[m] # "off" => where'[m] \in Directories
  <2> TAKE m \in Runs
  <2>1. CASE m = n
    BY <1>1, <1>5, <1>6, <2>1 DEF LifecycleInvariant, Owning
  <2>2. CASE m # n
    BY <1>4, <1>6, <2>2 DEF LifecycleInvariant, Owning
  <2> QED BY <2>1, <2>2
<1>8. /\ record' \in [Directories ->
                 [state : States \cup {"absent", "unwritten"}, run : Runs \cup {None}]]
      /\ stage' \in [Runs -> Owning \cup {"off", "cleared", "refused", "dead"}]
      /\ where' \in [Runs -> Directories \cup {None}]
      /\ accessed' \subseteq Runs
  BY <1>2 DEF LifecycleInvariant
<1>9. \A d \in Directories : record'[d].run = None => record'[d] = NoFile
  BY <1>1, <1>2, LifecycleAssumption DEF LifecycleInvariant
<1> QED BY <1>7, <1>8, <1>9 DEF LifecycleInvariant, Mine

\* The two halves of a transition: the check, which changes no file, and the
\* replacement of a file that is still the run's own.
LEMMA TransitionKeeps ==
  ASSUME LifecycleInvariant, NEW n \in Runs
  PROVE  /\ CheckStart(n) \/ CheckSeal(n) \/ CheckFail(n) => LifecycleInvariant'
         /\ ReplaceStart(n) \/ ReplaceSeal(n) \/ ReplaceFail(n) => LifecycleInvariant'
<1>1. ASSUME CheckStart(n) PROVE LifecycleInvariant'
  <2>1. stage[n] = "prepared" /\ Mine(n).run = n /\ Mine(n).state = "PREPARED"
    BY <1>1 DEF CheckStart, Check, LifecycleInvariant, Expected, Owning
  <2>2. n \notin accessed
    BY <2>1 DEF LifecycleInvariant, AccessBegun
  <2> DEFINE s == IF MayMove(n, "STARTED") THEN "starting" ELSE "refused"
  <2>3. s \in Owning \cup {"refused"} /\ (s \in Owning => Mine(n).state \in Expected[s])
    BY <2>1 DEF Owning, Expected
  <2>4. stage' = [stage EXCEPT ![n] = s] /\ UNCHANGED <<record, where, accessed>>
    BY <1>1 DEF CheckStart, Check, Goto
  <2> HIDE DEF s
  <2> QED BY <2>1, <2>2, <2>3, <2>4, RecordKept
<1>2. ASSUME CheckSeal(n) PROVE LifecycleInvariant'
  <2>1. stage[n] = "evaluated" /\ Mine(n).run = n /\ Mine(n).state = "STARTED"
    BY <1>2 DEF CheckSeal, Check, LifecycleInvariant, Expected, Owning
  <2> DEFINE s == IF MayMove(n, "SEALED") THEN "sealing" ELSE "refused"
  <2>2. s \in Owning \cup {"refused"} /\ (s \in Owning => Mine(n).state \in Expected[s])
    BY <2>1 DEF Owning, Expected
  <2>3. stage' = [stage EXCEPT ![n] = s] /\ UNCHANGED <<record, where, accessed>>
    BY <1>2 DEF CheckSeal, Check, Goto
  <2> HIDE DEF s
  <2> QED BY <2>1, <2>2, <2>3, RecordKept DEF AccessBegun
<1>3. ASSUME CheckFail(n) PROVE LifecycleInvariant'
  <2>1. MayMove(n, "FAILED_AFTER_ACCESS") => Mine(n).state = "STARTED"
    BY DEF MayMove, LegalTransitions, States
  <2> QED BY <1>3, <2>1, RecordKept
          DEF CheckFail, Check, Goto, LifecycleInvariant, Expected, Owning
<1>4. ASSUME ReplaceStart(n) PROVE LifecycleInvariant'
  BY <1>4, RecordWritten
     DEF ReplaceStart, Replace, Goto, LifecycleInvariant, Expected, Owning, Owning, States,
         LegalTransitions, AccessBegun
<1>5. ASSUME ReplaceSeal(n) PROVE LifecycleInvariant'
  BY <1>5, RecordWritten
     DEF ReplaceSeal, Replace, Goto, LifecycleInvariant, Expected, Owning, Owning, States,
         LegalTransitions, AccessBegun
<1>6. ASSUME ReplaceFail(n) PROVE LifecycleInvariant'
  BY <1>6, RecordWritten
     DEF ReplaceFail, Replace, Goto, LifecycleInvariant, Expected, Owning, Owning, States,
         LegalTransitions, AccessBegun
<1> QED BY <1>1, <1>2, <1>3, <1>4, <1>5, <1>6

\* Every step keeps the invariant: O_EXCL and the run id keep runs apart.
LEMMA StepKeeps ==
  LifecycleInvariant /\ [Next]_vars => LifecycleInvariant'
<1> SUFFICES ASSUME LifecycleInvariant, [Next]_vars
             PROVE  LifecycleInvariant'
  OBVIOUS
<1>1. ASSUME NEW n \in Runs, NEW d \in Directories, AssertNoPriorRun(n, d)
      PROVE  LifecycleInvariant'
  BY <1>1 DEF AssertNoPriorRun, Goto, LifecycleInvariant, Mine, Expected, Owning, NoFile
<1>2. ASSUME NEW n \in Runs, Create(n) PROVE LifecycleInvariant'
  <2>1. n \notin accessed
    BY <1>2, LifecycleAssumption DEF Create, Exists, NoFile, LifecycleInvariant, Mine
  <2> QED BY <1>2, <2>1, RecordWritten DEF Create, Goto, Expected, Owning
<1>3. ASSUME NEW n \in Runs, WritePrepared(n) PROVE LifecycleInvariant'
  <2>1. n \notin accessed /\ Mine(n).run = n
    BY <1>3 DEF WritePrepared, LifecycleInvariant, Expected, Owning, AccessBegun
  <2> QED BY <1>3, <2>1, RecordWritten
          DEF WritePrepared, Goto, Expected, Owning, States, LegalTransitions
<1>4. ASSUME NEW n \in Runs, Access(n) PROVE LifecycleInvariant'
  <2>1. /\ UNCHANGED <<record, where>>
        /\ stage' = [stage EXCEPT ![n] = "reading"]
        /\ accessed' = accessed \cup {n}
    BY <1>4 DEF Access, Goto
  <2>2. stage[n] = "started" /\ Mine(n).run = n /\ Mine(n).state = "STARTED"
    BY <1>4 DEF Access, LifecycleInvariant, Expected, Owning
  <2>3. "reading" \in Owning /\ Mine(n).state \in Expected["reading"] /\ Mine(n).state \in AccessBegun
    BY <2>2 DEF Owning, Expected, AccessBegun
  <2> QED BY <2>1, <2>2, <2>3, RecordKept
<1>5. ASSUME NEW n \in Runs, Evaluate(n) \/ Report(n) \/ Fails(n)
      PROVE  LifecycleInvariant'
  <2> SUFFICES ASSUME NEW s \in {"evaluated", "reported", "failing"},
                      stage' = [stage EXCEPT ![n] = s],
                      UNCHANGED <<record, where, accessed>>,
                      stage[n] \in Owning,
                      Mine(n).state \in Expected[s]
               PROVE  LifecycleInvariant'
    BY <1>5 DEF Evaluate, Report, Fails, Goto, LifecycleInvariant, Expected, Owning
  <2>1. s \in Owning /\ stage[n] # "off"
    BY DEF Owning
  <2>2. /\ Mine(n).run = n
        /\ n \in accessed' => Mine(n).state \in AccessBegun
    BY DEF LifecycleInvariant
  <2> QED BY <2>1, <2>2, RecordKept
<1>6. ASSUME NEW n \in Runs, CreateRefused(n) \/ Dies(n) PROVE LifecycleInvariant'
  BY <1>6, RecordKept DEF CreateRefused, Dies, Goto, LifecycleInvariant, Expected, Owning, Ended
<1>7. CASE UNCHANGED vars
  BY <1>7 DEF vars, LifecycleInvariant, Mine
<1> QED BY <1>1, <1>2, <1>3, <1>4, <1>5, <1>6, <1>7, TransitionKeeps DEF Next, Quiet

\* The lifecycle invariant of any number of runners and directories.
THEOREM LifecycleInvariantHolds == Spec => []LifecycleInvariant
<1>1. Init => LifecycleInvariant
  BY DEF Init, LifecycleInvariant, NoFile, Mine, Expected, Owning
<1> QED BY <1>1, StepKeeps, PTL DEF Spec

\* At most one run per directory ever reads final data: O_EXCL, the run id and
\* the order of access and STARTED in main.
THEOREM FinalDataReadOnce == Spec => []AccessedOncePerDirectory
<1>1. LifecycleInvariant => AccessedOncePerDirectory
  BY DEF LifecycleInvariant, AccessedOncePerDirectory, Mine
<1> QED BY <1>1, LifecycleInvariantHolds, PTL

\* Final data that was read is on record, whatever interrupted the run.
THEOREM FinalAccessIsRecorded == Spec => []AccessIsRecorded
<1>1. LifecycleInvariant => AccessIsRecorded
  BY DEF LifecycleInvariant, AccessIsRecorded
<1> QED BY <1>1, LifecycleInvariantHolds, PTL

\* Results are reported from a record that is sealed under the run's own id.
THEOREM ReportsAreSealed == Spec => []ReportedIsSealed
<1>1. LifecycleInvariant => ReportedIsSealed
  <2> SUFFICES ASSUME LifecycleInvariant, NEW n \in Runs, stage[n] = "reported"
               PROVE  Mine(n) = [state |-> "SEALED", run |-> n]
    BY DEF ReportedIsSealed
  <2>1. Mine(n).run = n /\ Mine(n).state = "SEALED"
    BY DEF LifecycleInvariant, Owning, Expected
  <2>2. Mine(n) \in [state : States \cup {"absent", "unwritten"}, run : Runs \cup {None}]
    BY DEF LifecycleInvariant, Mine
  <2> QED BY <2>1, <2>2
<1> QED BY <1>1, LifecycleInvariantHolds, PTL

\* The record of a directory says who has read final data and who may report.
THEOREM RecordsAreTruthful == Spec => []RecordIsTruthful
<1>1. AccessIsRecorded /\ ReportedIsSealed => RecordIsTruthful
  BY DEF RecordIsTruthful
<1> QED BY <1>1, FinalAccessIsRecorded, ReportsAreSealed, PTL

\* A run that replaces its own record by a legal successor moves it forward and
\* leaves the records of other directories alone.
LEMMA WriteMovesForward ==
  ASSUME LifecycleInvariant, NEW n \in Runs, NEW t, Write(n, t),
         where[n] \in Directories,
         Exists(where[n]) =>
           /\ Mine(n).run = n
           /\ \/ Mine(n).state = "unwritten" /\ t = "PREPARED"
              \/ Mine(n).state \in States /\ t \in LegalTransitions[Mine(n).state],
         NEW d \in Directories
  PROVE  Forward(d)
<1>1. record' = [record EXCEPT ![where[n]] = [state |-> t, run |-> n]]
  BY DEF Write
<1>2. CASE d = where[n]
  <2>1. record'[d].state = t /\ record'[d].run = n
    BY <1>1, <1>2 DEF LifecycleInvariant
  <2> QED BY <2>1, <1>2 DEF Forward, Mine
<1>3. CASE d # where[n]
  BY <1>1, <1>3 DEF Forward, LifecycleInvariant
<1> QED BY <1>2, <1>3

\* The record of a directory only moves along the declared transitions and never
\* changes hands: an interrupt after the seal cannot turn it into a failure.
THEOREM RecordOnlyMovesForward == Spec => RecordMovesForward
<1>1. LifecycleInvariant /\ [Next]_vars => [\A d \in Directories : Forward(d)]_record
  <2> SUFFICES ASSUME LifecycleInvariant, Next, record' # record,
                      NEW d \in Directories
               PROVE  Forward(d)
    BY DEF vars
  <2>1. PICK n \in Runs :
          \/ Create(n) \/ WritePrepared(n) \/ ReplaceStart(n)
          \/ ReplaceSeal(n) \/ ReplaceFail(n)
    BY DEF Next, Quiet, vars, AssertNoPriorRun, CreateRefused, CheckStart, CheckSeal,
           CheckFail, Check, Access, Evaluate, Fails, Report, Dies
  <2>2. CASE Create(n)
    BY <2>2, WriteMovesForward DEF Create, LifecycleInvariant
  <2>3. CASE WritePrepared(n)
    <3>1. stage[n] = "created" /\ Write(n, "PREPARED")
      BY <2>3 DEF WritePrepared
    <3>2. Mine(n).run = n /\ Mine(n).state = "unwritten" /\ where[n] \in Directories
      BY <3>1 DEF LifecycleInvariant, Owning, Expected
    <3> QED BY <3>1, <3>2, WriteMovesForward
  <2>4. CASE ReplaceStart(n)
    <3>1. stage[n] = "starting" /\ Write(n, "STARTED")
      BY <2>4 DEF ReplaceStart, Replace
    <3>2. Mine(n).run = n /\ Mine(n).state = "PREPARED" /\ where[n] \in Directories
      BY <3>1 DEF LifecycleInvariant, Owning, Expected
    <3>3. "PREPARED" \in States /\ "STARTED" \in LegalTransitions["PREPARED"]
      BY DEF States, LegalTransitions
    <3> QED BY <3>1, <3>2, <3>3, WriteMovesForward
  <2>5. CASE ReplaceSeal(n)
    <3>1. stage[n] = "sealing" /\ Write(n, "SEALED")
      BY <2>5 DEF ReplaceSeal, Replace
    <3>2. Mine(n).run = n /\ Mine(n).state = "STARTED" /\ where[n] \in Directories
      BY <3>1 DEF LifecycleInvariant, Owning, Expected
    <3>3. "STARTED" \in States /\ "SEALED" \in LegalTransitions["STARTED"]
      BY DEF States, LegalTransitions
    <3> QED BY <3>1, <3>2, <3>3, WriteMovesForward
  <2>6. CASE ReplaceFail(n)
    <3>1. stage[n] = "recording" /\ Write(n, "FAILED_AFTER_ACCESS")
      BY <2>6 DEF ReplaceFail, Replace
    <3>2. Mine(n).run = n /\ Mine(n).state = "STARTED" /\ where[n] \in Directories
      BY <3>1 DEF LifecycleInvariant, Owning, Expected
    <3>3. "STARTED" \in States /\ "FAILED_AFTER_ACCESS" \in LegalTransitions["STARTED"]
      BY DEF States, LegalTransitions
    <3> QED BY <3>1, <3>2, <3>3, WriteMovesForward
  <2> QED BY <2>1, <2>2, <2>3, <2>4, <2>5, <2>6
<1>2. Spec => []LifecycleInvariant
  BY LifecycleInvariantHolds
<1> QED BY <1>1, <1>2, PTL DEF Spec, RecordMovesForward

=============================================================================

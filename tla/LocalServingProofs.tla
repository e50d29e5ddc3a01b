------------------------- MODULE LocalServingProofs -------------------------
(***************************************************************************)
(* The safety of the local-default profile for every value of its          *)
(* constants: any number of requests, slots and ends of the process.       *)
(*                                                                         *)
(* LocalInvariant is inductive.  Its parts speak of different sides of the *)
(* process, so the proof goes by part: what one step can do to the gate,   *)
(* to the requests, to the writer and to the log file is stated once       *)
(* (WorkerStep, RequestFrame, LogStep), and each part is then shown to     *)
(* survive it.                                                             *)
(***************************************************************************)
EXTENDS LocalServing, FiniteSetTheorems, TLAPS

-----------------------------------------------------------------------------
(* Sequences *)

LEMMA SequenceFacts ==
  ASSUME NEW s, IsSequence(s)
  PROVE  Len(s) \in Nat /\ DOMAIN s = 1..Len(s)
BY DEF IsSequence

\* A function on 1..n is a sequence.
LEMMA FunctionIsSequence ==
  ASSUME NEW n \in Nat, NEW s, DOMAIN s = 1..n, s = [i \in 1..n |-> s[i]]
  PROVE  IsSequence(s) /\ Len(s) = n
<1> DEFINE S == {s[i] : i \in DOMAIN s}
<1>1. s \in [1..n -> S]
  OBVIOUS
<1>2. s \in Seq(S)
  BY <1>1
<1> QED
  BY <1>2 DEF IsSequence

LEMMA ElementIsSequence ==
  ASSUME NEW S, NEW s \in Seq(S)
  PROVE  IsSequence(s)
<1>1. Len(s) \in Nat /\ DOMAIN s = 1..Len(s) /\ s = [i \in 1..Len(s) |-> s[i]]
  OBVIOUS
<1> QED
  BY <1>1, FunctionIsSequence

LEMMA ConcatenationFacts ==
  ASSUME NEW s, NEW t, IsSequence(s), IsSequence(t)
  PROVE  /\ IsSequence(s \o t)
         /\ Len(s \o t) = Len(s) + Len(t)
         /\ \A i \in 1..Len(s) : (s \o t)[i] = s[i]
         /\ \A i \in 1..Len(t) : (s \o t)[Len(s) + i] = t[i]
<1> DEFINE S == {s[i] : i \in DOMAIN s} \cup {t[i] : i \in DOMAIN t}
<1>1. s \in Seq(S) /\ t \in Seq(S)
  <2>1. s \in [1..Len(s) -> S] /\ t \in [1..Len(t) -> S]
    BY DEF IsSequence
  <2> QED
    BY <2>1, SequenceFacts
<1> HIDE DEF S
<1>2. /\ s \o t \in Seq(S)
      /\ Len(s \o t) = Len(s) + Len(t)
      /\ \A i \in 1..Len(s) : (s \o t)[i] = s[i]
  BY <1>1
<1>3. \A i \in 1..Len(t) : (s \o t)[Len(s) + i] = t[i]
  BY <1>1
<1>4. IsSequence(s \o t)
  BY <1>2, ElementIsSequence
<1> QED
  BY <1>2, <1>3, <1>4

LEMMA PrefixFacts ==
  ASSUME NEW s, IsSequence(s), NEW n \in 0..Len(s)
  PROVE  /\ IsSequence(SubSeq(s, 1, n))
         /\ Len(SubSeq(s, 1, n)) = n
         /\ \A i \in 1..n : SubSeq(s, 1, n)[i] = s[i]
<1> DEFINE S == {s[i] : i \in DOMAIN s}
<1>1. s \in Seq(S) /\ Len(s) \in Nat
  BY DEF IsSequence
<1> HIDE DEF S
<1>2. /\ SubSeq(s, 1, n) \in Seq(S)
      /\ Len(SubSeq(s, 1, n)) = n
      /\ \A i \in 1..n : SubSeq(s, 1, n)[i] = s[i]
  BY <1>1
<1>3. IsSequence(SubSeq(s, 1, n))
  BY <1>2, ElementIsSequence
<1> QED
  BY <1>2, <1>3

\* Two sequences with the same elements are the same.
LEMMA SameSequence ==
  ASSUME NEW s, NEW t, IsSequence(s), IsSequence(t), Len(s) = Len(t),
         \A i \in 1..Len(s) : s[i] = t[i]
  PROVE  s = t
BY SMTT(30) DEF IsSequence

-----------------------------------------------------------------------------
(* What one step can do to the files and to the writer *)

LEMMA AuditStep ==
  ASSUME [Next]_vars
  PROVE  \/ UNCHANGED auditVars
         \/ \E r \in Requests : BeginAudit(r) \/ AuditFails(r) \/ Publish(r)
         \/ AuditProceeds
         \/ EndProcess
         \/ Start
BY DEF Next, RequestStep, Enters, RejectConflict, JoinOwner, StartScoring, RefuseCapacity,
   WorkerFinishes, ScoringRaises, AbandonWorker, AuditRefused, Replay, CancelWaiter,
   StartRefused, Quiet, vars

\* The log grows by the first m lines of the writer.
LogPlus(m) ==
  /\ m \in 0..Len(writer.lines)
  /\ Len(log') = Len(log) + m
  /\ \A i \in 1..Len(log) : log'[i] = log[i]
  /\ \A i \in 1..m : log'[Len(log) + i] = writer.lines[i]

\* The log keeps its first n lines.
LogCut(n) ==
  /\ n \in synced..Len(log)
  /\ Len(log') = n
  /\ \A i \in 1..n : log'[i] = log[i]

\* The types of the log file, in the form the steps need them.
LEMMA LogTypes ==
  ASSUME LocalInvariant
  PROVE  /\ IsSequence(log) /\ IsSequence(writer.lines)
         /\ Len(log) \in Nat /\ DOMAIN log = 1..Len(log)
         /\ Len(writer.lines) \in Nat /\ DOMAIN writer.lines = 1..Len(writer.lines)
         /\ synced \in 0..Len(log) /\ memory.count \in Nat /\ ends \in Nat
BY SequenceFacts DEF LocalInvariant, LocalShape, LocalTypeOK

LEMMA WriteLinesGrows ==
  ASSUME LocalInvariant, WriteLines
  PROVE  IsSequence(log') /\ writer.at = "open" /\ LogPlus(Len(writer.lines))
<1>1. log' = log \o writer.lines /\ writer.at = "open"
  BY DEF WriteLines
<1> QED
  BY <1>1, LogTypes, ConcatenationFacts, SMTT(30) DEF LogPlus

LEMMA WriteFailsGrows ==
  ASSUME LocalInvariant, WriteLinesFails
  PROVE  IsSequence(log') /\ writer.at = "open" /\ \E m \in Nat : LogPlus(m)
<1>1. PICK n \in 0..(Len(writer.lines) - 1) : log' = log \o SubSeq(writer.lines, 1, n)
  BY DEF WriteLinesFails
<1>2. n \in Nat /\ n \in 0..Len(writer.lines) /\ writer.at = "open"
  BY LogTypes DEF WriteLinesFails
<1> DEFINE some == SubSeq(writer.lines, 1, n)
<1>3. /\ IsSequence(some) /\ Len(some) = n
      /\ \A i \in 1..n : some[i] = writer.lines[i]
  BY <1>2, LogTypes, PrefixFacts
<1> HIDE DEF some
<1>4. /\ IsSequence(log \o some) /\ Len(log \o some) = Len(log) + n
      /\ \A i \in 1..Len(log) : (log \o some)[i] = log[i]
      /\ \A i \in 1..n : (log \o some)[Len(log) + i] = some[i]
  BY <1>3, LogTypes, ConcatenationFacts
<1>5. log' = log \o some
  BY <1>1 DEF some
<1>6. LogPlus(n)
  BY <1>2, <1>3, <1>4, <1>5 DEF LogPlus
<1>7. IsSequence(log')
  BY <1>4, <1>5
<1> QED
  BY <1>2, <1>6, <1>7

\* A kill or a loss of power leaves a prefix that holds what was on disk, or
\* part of the lines that were being written.
LEMMA CutOffStep ==
  ASSUME LocalInvariant, NEW first \in synced..Len(log), CutOff(first)
  PROVE  /\ IsSequence(log') /\ Len(log') >= first
         /\ \/ writer.at = "open" /\ \E m \in Nat : LogPlus(m)
            \/ \E n \in Nat : LogCut(n)
<1> DEFINE full == IF writer.at = "open" THEN log \o writer.lines ELSE log
<1>1. /\ IsSequence(full) /\ Len(full) \in Nat /\ Len(log) <= Len(full)
      /\ \A i \in 1..Len(log) : full[i] = log[i]
  BY LogTypes, ConcatenationFacts
<1>2. PICK n \in first..Len(full) : log' = SubSeq(full, 1, n)
  BY DEF CutOff
<1>3. /\ writer.at # "open" => Len(full) = Len(log)
      /\ writer.at = "open" =>
           /\ Len(full) = Len(log) + Len(writer.lines)
           /\ \A i \in 1..Len(writer.lines) : full[Len(log) + i] = writer.lines[i]
  <2>1. CASE writer.at # "open"
    BY <2>1
  <2>2. CASE writer.at = "open"
    <3>1. full = log \o writer.lines
      BY <2>2
    <3> HIDE DEF full
    <3> QED
      BY <2>2, <3>1, LogTypes, ConcatenationFacts
  <2> QED
    BY <2>1, <2>2
<1> HIDE DEF full
<1>4. n \in 0..Len(full) /\ n >= first /\ n \in Nat
  BY <1>1, <1>2, LogTypes
<1>5. /\ IsSequence(SubSeq(full, 1, n)) /\ Len(log') = n
      /\ \A i \in 1..n : log'[i] = full[i]
  BY <1>1, <1>2, <1>4, PrefixFacts
<1>6. IsSequence(log') /\ Len(log') >= first
  BY <1>2, <1>4, <1>5
<1>7. CASE n <= Len(log)
  <2>1. LogCut(n)
    BY <1>1, <1>4, <1>5, <1>7, LogTypes DEF LogCut
  <2> QED
    BY <1>4, <1>6, <2>1
<1>8. CASE n > Len(log)
  <2>1. writer.at = "open"
    BY <1>1, <1>3, <1>4, <1>8, LogTypes
  <2> DEFINE m == n - Len(log)
  <2>2. m \in Nat /\ n = Len(log) + m /\ m \in 0..Len(writer.lines)
    <3>1. Len(full) = Len(log) + Len(writer.lines) /\ Len(writer.lines) \in Nat
      BY <1>3, <2>1, LogTypes
    <3> QED
      BY <1>4, <1>8, <3>1, LogTypes
  <2> HIDE DEF m
  <2>3. ASSUME NEW i \in 1..m PROVE log'[Len(log) + i] = writer.lines[i]
    <3>1. Len(log) + i \in 1..n /\ i \in 1..Len(writer.lines)
      BY <2>2, LogTypes
    <3> QED
      BY <1>3, <1>5, <2>1, <3>1
  <2>4. LogPlus(m)
    BY <1>1, <1>5, <2>2, <2>3, LogTypes DEF LogPlus
  <2> QED
    BY <1>6, <2>1, <2>2, <2>4
<1> QED
  BY <1>1, <1>4, <1>7, <1>8, LogTypes

\* The end of the process.
LEMMA EndStep ==
  ASSUME LocalInvariant, EndProcess
  PROVE  /\ IsSequence(log') /\ ends' = ends + 1 /\ process' = "down"
         /\ synced' \in 0..Len(log') /\ synced <= synced'
         /\ writer' = Idle /\ memory' = memory
         /\ \/ writer.at = "open" /\ \E m \in Nat : LogPlus(m)
            \/ \E n \in Nat : LogCut(n)
         /\ {anchor', anchorOnDisk'} \subseteq {anchor, anchorOnDisk}
<1>1. ends' = ends + 1 /\ process' = "down"
  BY DEF EndProcess
<1>2. CASE Killed
  <2>1. Len(log) \in synced..Len(log) /\ CutOff(Len(log))
    BY <1>2, LogTypes DEF Killed
  <2>2. synced' = synced /\ writer' = Idle /\ memory' = memory
        /\ anchor' = anchor /\ anchorOnDisk' = anchorOnDisk
    BY <1>2 DEF Killed
  <2>3. Len(log') >= Len(log) /\ IsSequence(log') /\ Len(log') \in Nat
    BY <2>1, CutOffStep, SequenceFacts
  <2> QED
    BY <1>1, <2>1, <2>2, <2>3, CutOffStep, LogTypes
<1>3. CASE PowerLost
  <2>1. synced \in synced..Len(log) /\ CutOff(synced)
    BY <1>3, LogTypes DEF PowerLost
  <2>2. synced' = Len(log') /\ writer' = Idle /\ memory' = memory
        /\ anchor' \in {anchor, anchorOnDisk} /\ anchorOnDisk' = anchor'
    BY <1>3 DEF PowerLost
  <2>3. Len(log') >= synced /\ IsSequence(log') /\ Len(log') \in Nat
    BY <2>1, CutOffStep, SequenceFacts
  <2> QED
    BY <1>1, <2>1, <2>2, <2>3, CutOffStep, LogTypes
<1> QED
  BY <1>2, <1>3 DEF EndProcess

-----------------------------------------------------------------------------
(* The gate *)

\* What one step can do to workers and slots.
LEMMA WorkerStep ==
  ASSUME LocalInvariant, [Next]_vars
  PROVE  \/ UNCHANGED <<worker, inFlight>>
         \/ \E r \in Requests :
              /\ worker[r] = "none" /\ inFlight < Limit
              /\ worker' = [worker EXCEPT ![r] = "running"] /\ inFlight' = inFlight + 1
         \/ \E r \in Requests :
              /\ worker[r] = "running" /\ worker' = [worker EXCEPT ![r] = "finished"]
              /\ inFlight' = IF inFlight > 0 THEN inFlight - 1 ELSE 0
         \/ EndProcess
<1>1. ASSUME NEW r \in Requests, NEW k \in Keys, NEW d \in Digests, StartScoring(r, k, d)
      PROVE  /\ worker[r] = "none" /\ inFlight < Limit
             /\ worker' = [worker EXCEPT ![r] = "running"] /\ inFlight' = inFlight + 1
  BY <1>1 DEF StartScoring, Enter, LocalInvariant, HandlersInOrder
<1>2. ASSUME NEW r \in Requests, RequestStep(r),
             \A k \in Keys, d \in Digests : ~StartScoring(r, k, d)
      PROVE  UNCHANGED <<worker, inFlight>> \/ WorkerFinishes(r)
  BY <1>2 DEF RequestStep, Enters, RejectConflict, JoinOwner, RefuseCapacity, ScoringRaises,
     AbandonWorker, BeginAudit, AuditRefused, AuditFails, Publish, Replay, CancelWaiter, workVars
<1>3. AuditProceeds \/ Start \/ StartRefused \/ Quiet \/ UNCHANGED vars => UNCHANGED <<worker, inFlight>>
  BY DEF AuditProceeds, Start, StartRefused, Quiet, vars, servingVars, workVars
<1> QED
  BY <1>1, <1>2, <1>3 DEF Next, WorkerFinishes

LEMMA SlotsKeep ==
  ASSUME LocalInvariant, [Next]_vars
  PROVE  SlotsCounted' /\ inFlight' \in Nat
<1>1. /\ IsFiniteSet(Running) /\ inFlight = Cardinality(Running) /\ inFlight <= Limit
      /\ worker \in [Requests -> {"none", "running", "finished"}] /\ inFlight \in Nat
      /\ Limit \in Nat
  BY LocalAssumption DEF LocalInvariant, LocalTypeOK, SlotsCounted
<1>2. CASE UNCHANGED <<worker, inFlight>>
  BY <1>1, <1>2 DEF SlotsCounted, Running
<1>3. ASSUME NEW r \in Requests, worker[r] = "none", inFlight < Limit,
             worker' = [worker EXCEPT ![r] = "running"], inFlight' = inFlight + 1
      PROVE  SlotsCounted' /\ inFlight' \in Nat
  <2>1. Running' = Running \cup {r} /\ r \notin Running
    BY <1>1, <1>3 DEF Running
  <2>2. IsFiniteSet(Running') /\ Cardinality(Running') = Cardinality(Running) + 1
    BY <1>1, <2>1, FS_AddElement
  <2> QED
    BY <1>1, <1>3, <2>2 DEF SlotsCounted
<1>4. ASSUME NEW r \in Requests, worker[r] = "running",
             worker' = [worker EXCEPT ![r] = "finished"],
             inFlight' = IF inFlight > 0 THEN inFlight - 1 ELSE 0
      PROVE  SlotsCounted' /\ inFlight' \in Nat
  <2>1. Running' = Running \ {r} /\ r \in Running
    BY <1>1, <1>4 DEF Running
  <2>2. IsFiniteSet(Running') /\ Cardinality(Running') = Cardinality(Running) - 1
    BY <1>1, <2>1, FS_RemoveElement
  <2>3. Cardinality(Running') \in Nat
    BY <2>2, FS_CardinalityType
  <2>4. inFlight > 0
    BY <1>1, <2>2, <2>3
  <2> QED
    BY <1>1, <1>4, <2>2, <2>3, <2>4 DEF SlotsCounted
<1>5. CASE EndProcess
  <2>1. Running' = {} /\ inFlight' = 0
    BY <1>1, <1>5 DEF EndProcess, Running
  <2> QED
    BY <1>1, <2>1, FS_EmptySet DEF SlotsCounted
<1> QED
  BY <1>2, <1>3, <1>4, <1>5, WorkerStep

-----------------------------------------------------------------------------
(* Types *)

LEMMA TypesKeep ==
  ASSUME LocalInvariant, [Next]_vars
  PROVE  /\ process' \in {"down", "up", "refused"} /\ ends' \in Nat
         /\ entry' \in [Keys -> Requests \cup {None}]
         /\ key' \in [Requests -> Keys \cup {None}]
         /\ digest' \in [Requests -> Digests \cup {None}]
         /\ owner' \in [Requests -> Requests \cup {None}]
         /\ pc' \in [Requests -> {"new", "waiting", "scoring", "auditing", "done", "dead"}]
         /\ worker' \in [Requests -> {"none", "running", "finished"}]
         /\ result' \in [Requests -> Decisions \cup {None}]
<1> USE DEF LocalInvariant, LocalTypeOK
<1>1. ASSUME NEW r \in Requests, Enters(r)
      PROVE  /\ process' \in {"down", "up", "refused"} /\ ends' \in Nat
             /\ entry' \in [Keys -> Requests \cup {None}]
             /\ key' \in [Requests -> Keys \cup {None}]
             /\ digest' \in [Requests -> Digests \cup {None}]
             /\ owner' \in [Requests -> Requests \cup {None}]
             /\ pc' \in [Requests -> {"new", "waiting", "scoring", "auditing", "done", "dead"}]
             /\ worker' \in [Requests -> {"none", "running", "finished"}]
             /\ result' \in [Requests -> Decisions \cup {None}]
  BY <1>1 DEF Enters, Enter, RejectConflict, JoinOwner, StartScoring, RefuseCapacity, Answer,
     processVars, registryVars, workVars
<1>2. ASSUME NEW r \in Requests, RequestStep(r), ~Enters(r)
      PROVE  /\ UNCHANGED <<process, ends, key, digest, owner>>
             /\ entry' \in [Keys -> Requests \cup {None}]
             /\ pc' \in [Requests -> {"new", "waiting", "scoring", "auditing", "done", "dead"}]
             /\ worker' \in [Requests -> {"none", "running", "finished"}]
             /\ result' \in [Requests -> Decisions \cup {None}]
  <2>1. CASE WorkerFinishes(r)
    BY <2>1 DEF WorkerFinishes, processVars, registryVars, inputVars
  <2>2. CASE ScoringRaises(r) \/ AbandonWorker(r) \/ AuditRefused(r) \/ AuditFails(r)
    BY <2>2 DEF ScoringRaises, AbandonWorker, AuditRefused, AuditFails, Fail, Answer, processVars,
       inputVars, workVars
  <2>3. CASE BeginAudit(r) \/ Publish(r) \/ Replay(r) \/ CancelWaiter(r)
    BY <2>3 DEF BeginAudit, Publish, Replay, CancelWaiter, Answer, processVars, registryVars,
       inputVars, workVars
  <2> QED
    BY <1>2, <2>1, <2>2, <2>3 DEF RequestStep
<1>3. CASE EndProcess
  BY <1>3 DEF EndProcess, inputVars
<1>4. CASE AuditProceeds \/ Start \/ StartRefused \/ Quiet \/ UNCHANGED vars
  BY <1>4 DEF AuditProceeds, Start, StartRefused, Quiet, vars, servingVars, processVars,
     registryVars, inputVars, workVars
<1> QED
  BY <1>1, <1>2, <1>3, <1>4 DEF Next

-----------------------------------------------------------------------------
(* The requests and the registry *)

\* What HandlersInOrder says of one request.
HandlerInOrder(r) ==
  /\ pc[r] = "new" => worker[r] = "none" /\ owner[r] = None
  /\ pc[r] # "new" => key[r] \in Keys /\ digest[r] \in Digests
  /\ pc[r] # "done" => published[r] = Nothing /\ answer[r] = Nothing
  /\ pc[r] \in {"scoring", "auditing"} => owner[r] = r /\ entry[key[r]] = r
  /\ pc[r] = "waiting" => owner[r] # None
  /\ pc[r] = "auditing" => worker[r] = "finished"
  /\ Active(r) => process = "up"
  /\ owner[r] # None => /\ owner[owner[r]] = owner[r]
                        /\ key[owner[r]] = key[r]
                        /\ digest[owner[r]] = digest[r]
  /\ published[r].kind = "success" => owner[r] = r
  /\ answer[r].kind = "success" => owner[r] # None /\ published[owner[r]] = answer[r]

\* The functions the request steps update.
LEMMA RequestTypes ==
  ASSUME LocalInvariant
  PROVE  /\ entry \in [Keys -> Requests \cup {None}]
         /\ key \in [Requests -> Keys \cup {None}]
         /\ digest \in [Requests -> Digests \cup {None}]
         /\ owner \in [Requests -> Requests \cup {None}]
         /\ pc \in [Requests -> {"new", "waiting", "scoring", "auditing", "done", "dead"}]
         /\ worker \in [Requests -> {"none", "running", "finished"}]
         /\ result \in [Requests -> Decisions \cup {None}]
         /\ DOMAIN answer = Requests /\ DOMAIN published = Requests
         /\ \A r \in Requests : HandlerInOrder(r)
         /\ None \notin Requests /\ None \notin Decisions
BY LocalAssumption DEF LocalInvariant, LocalTypeOK, LocalShape, HandlersInOrder, HandlerInOrder

\* What a step of one request leaves alone: the others, its own key, input and
\* owner once it has them, what was published for good, and every entry but one
\* it makes or, as the owner, takes away.
OthersStay(r) ==
  \A q \in Requests \ {r} :
    /\ pc'[q] = pc[q] /\ key'[q] = key[q] /\ digest'[q] = digest[q] /\ owner'[q] = owner[q]
    /\ worker'[q] = worker[q] /\ result'[q] = result[q]
    /\ published'[q] = published[q] /\ answer'[q] = answer[q]

LEMMA RequestFrame ==
  ASSUME LocalInvariant, NEW r \in Requests, RequestStep(r)
  PROVE  /\ process = "up" /\ process' = process /\ ends' = ends /\ OthersStay(r)
         /\ pc[r] # "new" => key'[r] = key[r] /\ digest'[r] = digest[r] /\ owner'[r] = owner[r]
         /\ pc[r] = "done" => pc'[r] = "done" /\ published'[r] = published[r] /\ answer'[r] = answer[r]
         /\ \A k \in Keys : \/ entry'[k] = entry[k]
                            \/ entry[k] = None /\ entry'[k] = r
                            \/ entry[k] = r /\ entry'[k] = None /\ pc[r] \in {"scoring", "auditing"}
<1> USE RequestTypes
<1>1. CASE Enters(r)
  BY <1>1 DEF Enters, Enter, LoopFree, RejectConflict, JoinOwner, StartScoring, RefuseCapacity, Answer,
     processVars, registryVars, workVars, OthersStay
<1>2. CASE WorkerFinishes(r)
  BY <1>2 DEF WorkerFinishes, LoopFree, processVars, registryVars, inputVars, OthersStay
<1>3. CASE ScoringRaises(r) \/ AbandonWorker(r) \/ AuditRefused(r) \/ AuditFails(r)
  BY <1>3 DEF ScoringRaises, AbandonWorker, AuditRefused, AuditFails, LoopFree, Fail, Answer,
     processVars, inputVars, workVars, OthersStay
<1>4. CASE BeginAudit(r) \/ Publish(r) \/ Replay(r) \/ CancelWaiter(r)
  BY <1>4 DEF BeginAudit, Publish, Replay, CancelWaiter, LoopFree, Answer, processVars,
     registryVars, inputVars, workVars, OthersStay
<1> QED
  BY <1>1, <1>2, <1>3, <1>4 DEF RequestStep

\* Nobody waits for a request that has not entered.
LEMMA NobodyHolds ==
  ASSUME LocalInvariant, NEW r \in Requests, pc[r] = "new", NEW q \in Requests
  PROVE  owner[q] # r
BY RequestTypes DEF HandlerInOrder

\* The requests that do not take the step stay in order.
LEMMA OtherHandlers ==
  ASSUME LocalInvariant, NEW r \in Requests, RequestStep(r), NEW q \in Requests \ {r}
  PROVE  HandlerInOrder(q)'
<1>1. /\ process' = process
      /\ pc'[q] = pc[q] /\ key'[q] = key[q] /\ digest'[q] = digest[q] /\ owner'[q] = owner[q]
      /\ worker'[q] = worker[q] /\ published'[q] = published[q] /\ answer'[q] = answer[q]
  BY RequestFrame DEF OthersStay
<1>2. HandlerInOrder(q) /\ None \notin Requests /\ owner[q] \in Requests \cup {None}
  BY RequestTypes
<1>3. owner[q] # None =>
        /\ owner'[owner[q]] = owner[owner[q]]
        /\ key'[owner[q]] = key[owner[q]]
        /\ digest'[owner[q]] = digest[owner[q]]
  <2>1. CASE owner[q] = r
    BY <2>1, NobodyHolds, RequestFrame
  <2>2. CASE owner[q] # r
    BY <1>2, <2>2, RequestFrame DEF OthersStay
  <2> QED
    BY <2>1, <2>2
<1>4. pc[q] \in {"scoring", "auditing"} => entry'[key[q]] = q
  BY <1>2, RequestFrame DEF HandlerInOrder
<1>5. answer[q].kind = "success" => published'[owner[q]] = answer[q]
  <2> SUFFICES ASSUME answer[q].kind = "success" PROVE published'[owner[q]] = answer[q]
    OBVIOUS
  <2>1. owner[q] \in Requests /\ published[owner[q]] = answer[q]
    BY <1>2 DEF HandlerInOrder
  <2>2. pc[owner[q]] = "done"
    BY <2>1, RequestTypes DEF HandlerInOrder, Nothing
  <2> QED
    BY <2>1, <2>2, RequestFrame DEF OthersStay
<1> QED
  BY <1>1, <1>2, <1>3, <1>4, <1>5 DEF HandlerInOrder, Active

\* A request that enters is refused, joins the owner of its key or becomes it.
LEMMA EnteringHandler ==
  ASSUME LocalInvariant, NEW r \in Requests, NEW k \in Keys, NEW d \in Digests,
         \/ RejectConflict(r, k, d) \/ JoinOwner(r, k, d)
         \/ StartScoring(r, k, d) \/ RefuseCapacity(r, k, d)
  PROVE  HandlerInOrder(r)'
<1>1. /\ pc[r] = "new" /\ key'[r] = k /\ digest'[r] = d /\ process' = "up"
      /\ worker[r] = "none" /\ owner[r] = None /\ published[r] = Nothing /\ answer[r] = Nothing
      /\ k # None /\ d # None
  BY RequestTypes, LocalAssumption DEF RejectConflict, JoinOwner, StartScoring, RefuseCapacity, Enter,
     LoopFree, HandlerInOrder, processVars
<1>2. CASE RejectConflict(r, k, d)
  BY <1>1, <1>2, RequestTypes DEF RejectConflict, Answer, Refused, Nothing, registryVars, workVars,
     HandlerInOrder, Active
<1>3. CASE RefuseCapacity(r, k, d)
  BY <1>1, <1>3, RequestTypes DEF RefuseCapacity, Answer, Refused, Nothing, workVars, HandlerInOrder,
     Active, Enter
<1>4. CASE StartScoring(r, k, d)
  BY <1>1, <1>4, RequestTypes DEF StartScoring, Nothing, HandlerInOrder, Active, Enter
<1>5. CASE JoinOwner(r, k, d)
  <2> DEFINE o == entry[k]
  <2>1. o \in Requests /\ owner[o] = o /\ key[o] = k /\ digest[o] = d
    BY <1>5, RequestTypes DEF JoinOwner, LocalInvariant, EntriesOwned
  <2>2. o # r
    BY <1>1, <2>1, NobodyHolds
  <2>3. owner'[r] = o /\ owner'[o] = o /\ key'[o] = k /\ digest'[o] = d
    BY <1>5, <2>1, <2>2, RequestTypes DEF JoinOwner, Enter
  <2>4. pc'[r] = "waiting" /\ worker'[r] = worker[r] /\ published'[r] = published[r]
        /\ answer'[r] = answer[r]
    BY <1>5, RequestTypes DEF JoinOwner, registryVars, workVars
  <2> HIDE DEF o
  <2> QED
    BY <1>1, <2>1, <2>3, <2>4, RequestTypes DEF Nothing, HandlerInOrder, Active
<1> QED
  BY <1>2, <1>3, <1>4, <1>5

\* A request goes on in order with its own step.
LEMMA OwnHandler ==
  ASSUME LocalInvariant, NEW r \in Requests, RequestStep(r)
  PROVE  HandlerInOrder(r)'
<1>1. CASE Enters(r)
  BY <1>1, EnteringHandler DEF Enters
<1> SUFFICES ASSUME ~Enters(r) PROVE HandlerInOrder(r)'
  BY <1>1
<1>2. /\ HandlerInOrder(r) /\ process' = process
      /\ owner[r] \in Requests \cup {None} /\ None \notin Requests
  BY RequestTypes, RequestFrame
<1>3. pc[r] # "new" => key'[r] = key[r] /\ digest'[r] = digest[r] /\ owner'[r] = owner[r]
  BY RequestFrame
<1>4. pc[r] # "new" /\ owner[r] # None =>
        /\ owner'[owner[r]] = owner[owner[r]]
        /\ key'[owner[r]] = key[owner[r]]
        /\ digest'[owner[r]] = digest[owner[r]]
  BY <1>2, <1>3, RequestFrame DEF OthersStay
<1>5. CASE WorkerFinishes(r)
  <2>1. /\ pc[r] # "new" /\ pc'[r] = pc[r] /\ worker'[r] = "finished"
        /\ published' = published /\ answer' = answer /\ entry' = entry
    BY <1>2, <1>5, RequestTypes DEF WorkerFinishes, HandlerInOrder, registryVars
  <2> QED
    BY <1>2, <1>3, <1>4, <2>1 DEF HandlerInOrder, Active
<1>6. CASE ScoringRaises(r) \/ AbandonWorker(r) \/ AuditRefused(r) \/ AuditFails(r)
  <2>1. PICK why \in {"scoring_error", "timeout", "cancelled", "audit_unavailable"} : Fail(r, why)
    BY <1>6 DEF ScoringRaises, AbandonWorker, AuditRefused, AuditFails
  <2>2. pc[r] \in {"scoring", "auditing"}
    BY <1>6 DEF ScoringRaises, AbandonWorker, AuditRefused, AuditFails
  <2>3. /\ pc'[r] = "done" /\ published'[r] = Refused(why) /\ answer'[r] = Refused(why)
    BY <2>1, RequestTypes DEF Fail, Answer
  <2>4. Refused(why).kind = why
    BY DEF Refused
  <2> QED
    BY <1>2, <1>3, <1>4, <2>2, <2>3, <2>4 DEF HandlerInOrder, Active
<1>7. CASE BeginAudit(r)
  <2>1. /\ pc[r] = "scoring" /\ pc'[r] = "auditing" /\ worker[r] = "finished"
        /\ UNCHANGED <<worker, published, answer, entry>>
    BY <1>7, RequestTypes DEF BeginAudit, registryVars, workVars
  <2> QED
    BY <1>2, <1>3, <1>4, <2>1 DEF HandlerInOrder, Active
<1>8. CASE Publish(r)
  <2>1. /\ pc[r] = "auditing" /\ pc'[r] = "done"
        /\ published'[r] = Released(r) /\ answer'[r] = Released(r)
    BY <1>8, RequestTypes DEF Publish, Answer
  <2> QED
    BY <1>2, <1>3, <1>4, <2>1 DEF HandlerInOrder, Active
<1>9. CASE Replay(r) \/ CancelWaiter(r)
  <2>1. /\ pc[r] = "waiting" /\ pc'[r] = "done" /\ published' = published
        /\ answer'[r] = published[owner[r]] \/ answer'[r] = Refused("cancelled")
    BY <1>9, RequestTypes DEF Replay, CancelWaiter, Answer, registryVars
  <2>2. Refused("cancelled").kind = "cancelled"
    BY DEF Refused
  <2> QED
    BY <1>2, <1>3, <1>4, <2>1, <2>2 DEF HandlerInOrder, Active, Nothing
<1> QED
  BY <1>5, <1>6, <1>7, <1>8, <1>9 DEF RequestStep

LEMMA HandlersKeep ==
  ASSUME LocalInvariant, [Next]_vars
  PROVE  HandlersInOrder'
<1> SUFFICES ASSUME NEW q \in Requests PROVE HandlerInOrder(q)'
  BY DEF HandlersInOrder, HandlerInOrder
<1>1. ASSUME NEW r \in Requests, RequestStep(r) PROVE HandlerInOrder(q)'
  BY <1>1, OtherHandlers, OwnHandler
<1>2. CASE EndProcess
  <2>1. /\ pc'[q] = IF Active(q) THEN "dead" ELSE pc[q]
        /\ worker'[q] = IF worker[q] = "running" THEN "none" ELSE worker[q]
        /\ UNCHANGED <<published, key, digest, owner, answer>>
    BY <1>2 DEF EndProcess, inputVars
  <2> QED
    BY <2>1, RequestTypes DEF HandlerInOrder, Active
<1>3. CASE AuditProceeds \/ Start \/ StartRefused \/ Quiet \/ UNCHANGED vars
  <2>1. /\ UNCHANGED <<pc, worker, published, key, digest, owner, answer, entry>>
        /\ process' = process \/ process' = "up" \/ process = "down"
    BY <1>3 DEF AuditProceeds, Start, StartRefused, Quiet, vars, servingVars, processVars,
       registryVars, inputVars, workVars
  <2>2. Active(q) => process = "up"
    BY RequestTypes DEF HandlerInOrder
  <2> QED
    BY <2>1, <2>2, RequestTypes DEF HandlerInOrder, Active
<1> QED
  BY <1>1, <1>2, <1>3 DEF Next

\* The registry holds owners of the key they are registered under.
LEMMA EntriesKeep ==
  ASSUME LocalInvariant, [Next]_vars
  PROVE  EntriesOwned'
<1> SUFFICES ASSUME NEW k \in Keys, entry'[k] # None
             PROVE  owner'[entry'[k]] = entry'[k] /\ key'[entry'[k]] = k
  BY DEF EntriesOwned
<1>1. ASSUME NEW r \in Requests, RequestStep(r), entry'[k] = entry[k]
      PROVE  owner'[entry'[k]] = entry'[k] /\ key'[entry'[k]] = k
  <2> DEFINE o == entry[k]
  <2>1. o \in Requests /\ owner[o] = o /\ key[o] = k /\ o # None
    BY <1>1, RequestTypes DEF LocalInvariant, EntriesOwned
  <2>2. pc[o] # "new"
    BY <2>1, RequestTypes DEF HandlerInOrder
  <2> HIDE DEF o
  <2>3. owner'[o] = owner[o] /\ key'[o] = key[o]
    BY <1>1, <2>1, <2>2, RequestFrame DEF OthersStay
  <2> QED
    BY <1>1, <2>1, <2>3 DEF o
<1>2. ASSUME NEW r \in Requests, RequestStep(r), entry'[k] # entry[k]
      PROVE  owner'[entry'[k]] = entry'[k] /\ key'[entry'[k]] = k
  <2>1. \E j \in Keys, d \in Digests : StartScoring(r, j, d)
    <3>1. entry[k] = None
      BY <1>2, RequestFrame
    <3> QED
      BY <1>2, <3>1, RequestTypes DEF RequestStep, Enters, RejectConflict, JoinOwner, RefuseCapacity, WorkerFinishes,
         ScoringRaises, AbandonWorker, BeginAudit, AuditRefused, AuditFails, Publish, Replay,
         CancelWaiter, registryVars, Fail
  <2> QED
    BY <1>2, <2>1, RequestTypes DEF StartScoring, Enter
<1>3. CASE EndProcess
  BY <1>3 DEF EndProcess
<1>4. CASE AuditProceeds \/ Start \/ StartRefused \/ Quiet \/ UNCHANGED vars
  BY <1>4 DEF AuditProceeds, Start, StartRefused, Quiet, vars, servingVars, registryVars,
     inputVars, LocalInvariant, EntriesOwned
<1> QED
  BY <1>1, <1>2, <1>3, <1>4 DEF Next

-----------------------------------------------------------------------------
(* The log file and the writer *)

\* append_inference builds one event per decision of the request.
LEMMA LinesForFacts ==
  ASSUME NEW size \in Nat, NEW request, NEW k, NEW d, NEW v, NEW life
  PROVE  LET lines == LinesFor(request, k, d, v, size, life) IN
         /\ IsSequence(lines) /\ Len(lines) = size
         /\ \A i \in 1..size :
              /\ lines[i].request = request /\ lines[i].index = i /\ lines[i].key = k
              /\ lines[i].digest = d /\ lines[i].decision = v /\ lines[i].life = life
<1> DEFINE lines == LinesFor(request, k, d, v, size, life)
<1>1. DOMAIN lines = 1..size /\ lines = [i \in 1..size |-> lines[i]]
  BY DEF LinesFor
<1>2. \A i \in 1..size :
        /\ lines[i].request = request /\ lines[i].index = i /\ lines[i].key = k
        /\ lines[i].digest = d /\ lines[i].decision = v /\ lines[i].life = life
  BY DEF LinesFor
<1> HIDE DEF lines
<1>3. IsSequence(lines) /\ Len(lines) = size
  BY <1>1, FunctionIsSequence
<1> QED
  BY <1>2, <1>3 DEF lines

\* The file grows by lines of the writer while it is open, or is cut to a
\* prefix that holds all that was on disk when the process ends.
LEMMA LogStep ==
  ASSUME LocalInvariant, [Next]_vars
  PROVE  /\ IsSequence(log') /\ synced <= synced' /\ synced' \in 0..Len(log')
         /\ \/ log' = log
            \/ writer.at = "open" /\ \E m \in Nat : LogPlus(m)
            \/ EndProcess /\ \E n \in Nat : LogCut(n)
<1>0. /\ IsSequence(log) /\ Len(log) \in Nat /\ synced \in 0..Len(log)
      /\ Len(writer.lines) \in Nat
  BY LogTypes
<1>1. CASE log' = log /\ (synced' = synced \/ synced' = Len(log))
  BY <1>0, <1>1
<1>2. CASE WriteLines \/ WriteLinesFails
  <2>1. writer.at = "open" /\ IsSequence(log') /\ \E m \in Nat : LogPlus(m)
    BY <1>0, <1>2, WriteLinesGrows, WriteFailsGrows
  <2>2. PICK m \in Nat : LogPlus(m)
    BY <2>1
  <2>3. Len(log') = Len(log) + m /\ synced' = synced
    BY <1>2, <2>2 DEF LogPlus, WriteLines, WriteLinesFails
  <2> QED
    BY <1>0, <2>1, <2>3
<1>3. CASE EndProcess
  BY <1>3, EndStep
<1>4. \/ log' = log /\ (synced' = synced \/ synced' = Len(log))
      \/ WriteLines \/ WriteLinesFails \/ EndProcess
  BY AuditStep DEF auditVars, fileVars, BeginAudit, BeginAppend, AuditFails, AppendFails, Publish,
     EndAppend, AuditProceeds, SyncLines, ReplaceAnchor, Start, OpenLog
<1> QED
  BY <1>1, <1>2, <1>3, <1>4

\* What is on disk stays as it is.
LEMMA SyncedStay ==
  ASSUME LocalInvariant, [Next]_vars
  PROVE  \A i \in 1..synced : log'[i] = log[i]
<1> SUFFICES ASSUME NEW i \in 1..synced PROVE log'[i] = log[i]
  OBVIOUS
<1>1. i \in 1..Len(log)
  BY LogTypes
<1>2. ASSUME NEW n \in Nat, LogCut(n) PROVE i \in 1..n
  BY <1>2, LogTypes DEF LogCut
<1> QED
  BY <1>1, <1>2, LogStep DEF LogPlus, LogCut

\* Types and shapes that the request steps and the audit steps keep.
LEMMA WriterShape ==
  ASSUME LocalInvariant, [Next]_vars
  PROVE  /\ IsSequence(writer'.lines)
         /\ writer' = [at |-> writer'.at, lines |-> writer'.lines]
         /\ writer'.at \in {"idle", "open", "written", "synced", "replaced"}
         /\ memory'.count \in Nat
         /\ torn' \in BOOLEAN
<1>1. /\ IsSequence(writer.lines) /\ writer = [at |-> writer.at, lines |-> writer.lines]
      /\ writer.at \in {"idle", "open", "written", "synced", "replaced"}
      /\ memory.count \in Nat /\ torn \in BOOLEAN
  BY DEF LocalInvariant, LocalShape, LocalTypeOK
<1>2. IsSequence(Idle.lines) /\ Idle = [at |-> "idle", lines |-> Idle.lines] /\ Idle.at = "idle"
  <2>1. <<>> \in Seq({})
    OBVIOUS
  <2> QED
    BY <2>1, ElementIsSequence DEF Idle
<1>3. CASE UNCHANGED auditVars
  BY <1>1, <1>3 DEF auditVars
<1>4. ASSUME NEW r \in Requests, BeginAudit(r)
      PROVE  /\ IsSequence(writer'.lines) /\ writer' = [at |-> "open", lines |-> writer'.lines]
             /\ UNCHANGED <<memory, torn>>
  <2>1. writer' = [at |-> "open", lines |-> ScoredLines(r)] /\ UNCHANGED <<memory, torn>>
    BY <1>4 DEF BeginAudit, BeginAppend, fileVars
  <2>2. Size[digest[r]] \in Nat
    BY <1>4, RequestTypes, LocalAssumption DEF BeginAudit, HandlerInOrder
  <2>3. IsSequence(ScoredLines(r))
    BY <2>2, LinesForFacts DEF ScoredLines
  <2> QED
    BY <2>1, <2>3
<1>5. ASSUME NEW r \in Requests, AuditFails(r)
      PROVE  writer' = Idle /\ UNCHANGED memory /\ torn' \in BOOLEAN
  BY <1>1, <1>5 DEF AuditFails, WriteLinesFails, AppendFails, fileVars
<1>6. ASSUME NEW r \in Requests, Publish(r)
      PROVE  writer' = Idle /\ memory'.count \in Nat /\ torn' = torn
  <2>1. writer' = Idle /\ memory' = anchor /\ torn' = torn
    BY <1>6 DEF Publish, EndAppend
  <2>2. anchor.count \in Nat
    <3>1. anchor = HeadOf(log)
      BY <1>6 DEF Publish, EndAppend, LocalInvariant, WriterInOrder
    <3> QED
      BY <3>1, LogTypes DEF HeadOf
  <2> QED
    BY <2>1, <2>2
<1>7. CASE AuditProceeds
  <2>1. /\ \E at \in {"written", "synced", "replaced"} : writer' = [writer EXCEPT !.at = at]
        /\ UNCHANGED <<memory, torn>>
    BY <1>7 DEF AuditProceeds, WriteLines, SyncLines, ReplaceAnchor
  <2> QED
    BY <1>1, <2>1
<1>8. CASE EndProcess
  <2>1. writer' = Idle /\ memory' = memory
    BY <1>8, EndStep
  <2>2. torn' \in BOOLEAN
    BY <1>1, <1>8 DEF EndProcess, Killed, PowerLost, CutOff
  <2> QED
    BY <1>1, <1>2, <2>1, <2>2
<1>9. CASE Start
  BY <1>1, <1>9, LogTypes DEF Start, OpenLog, HeadOf, fileVars
<1> QED
  BY <1>1, <1>2, <1>3, <1>4, <1>5, <1>6, <1>7, <1>8, <1>9, AuditStep

\* Answers and published results are of the kinds the routes know.
LEMMA AnswerKinds ==
  ASSUME LocalInvariant, [Next]_vars
  PROVE  /\ DOMAIN answer' = Requests /\ DOMAIN published' = Requests
         /\ \A q \in Requests : answer'[q].kind \in Kinds /\ published'[q].kind \in Kinds
<1>1. /\ DOMAIN answer = Requests /\ DOMAIN published = Requests
      /\ \A q \in Requests : answer[q].kind \in Kinds /\ published[q].kind \in Kinds
  BY DEF LocalInvariant, LocalShape, LocalTypeOK
<1>2. CASE UNCHANGED <<answer, published>>
  BY <1>1, <1>2
<1>3. ASSUME NEW r \in Requests, NEW why \in Kinds, answer' = [answer EXCEPT ![r] = Refused(why)],
             published' = published \/ published' = [published EXCEPT ![r] = Refused(why)]
      PROVE  /\ DOMAIN answer' = Requests /\ DOMAIN published' = Requests
             /\ \A q \in Requests : answer'[q].kind \in Kinds /\ published'[q].kind \in Kinds
  BY <1>1, <1>3 DEF Refused
<1>4. ASSUME NEW r \in Requests, NEW a, a.kind \in Kinds, answer' = [answer EXCEPT ![r] = a],
             published' = published \/ published' = [published EXCEPT ![r] = a]
      PROVE  /\ DOMAIN answer' = Requests /\ DOMAIN published' = Requests
             /\ \A q \in Requests : answer'[q].kind \in Kinds /\ published'[q].kind \in Kinds
  BY <1>1, <1>4
<1>5. ASSUME NEW r \in Requests, RequestStep(r)
      PROVE  \/ UNCHANGED <<answer, published>>
             \/ \E why \in Kinds :
                  /\ answer' = [answer EXCEPT ![r] = Refused(why)]
                  /\ published' = published \/ published' = [published EXCEPT ![r] = Refused(why)]
             \/ Publish(r) \/ Replay(r)
  <2>1. CASE Enters(r)
    BY <2>1 DEF Enters, RejectConflict, JoinOwner, StartScoring, RefuseCapacity, Answer,
       registryVars, Kinds
  <2>2. CASE ScoringRaises(r) \/ AbandonWorker(r) \/ AuditRefused(r) \/ AuditFails(r)
    BY <2>2 DEF ScoringRaises, AbandonWorker, AuditRefused, AuditFails, Fail, Answer, Kinds
  <2>3. CASE WorkerFinishes(r) \/ BeginAudit(r) \/ CancelWaiter(r)
    BY <2>3 DEF WorkerFinishes, BeginAudit, CancelWaiter, Answer, registryVars, Kinds
  <2> QED
    BY <1>5, <2>1, <2>2, <2>3 DEF RequestStep
<1>6. ASSUME NEW r \in Requests, Publish(r)
      PROVE  /\ DOMAIN answer' = Requests /\ DOMAIN published' = Requests
             /\ \A q \in Requests : answer'[q].kind \in Kinds /\ published'[q].kind \in Kinds
  <2>1. Released(r).kind \in Kinds
    BY DEF Released, Kinds
  <2> QED
    BY <1>4, <1>6, <2>1 DEF Publish, Answer
<1>7. ASSUME NEW r \in Requests, Replay(r)
      PROVE  /\ DOMAIN answer' = Requests /\ DOMAIN published' = Requests
             /\ \A q \in Requests : answer'[q].kind \in Kinds /\ published'[q].kind \in Kinds
  <2>1. owner[r] \in Requests
    BY <1>7, RequestTypes DEF Replay, HandlerInOrder
  <2> QED
    BY <1>1, <1>4, <1>7, <2>1 DEF Replay, Answer, registryVars
<1>8. EndProcess \/ AuditProceeds \/ Start \/ StartRefused \/ Quiet \/ UNCHANGED vars =>
        UNCHANGED <<answer, published>>
  BY DEF EndProcess, AuditProceeds, Start, StartRefused, Quiet, vars, servingVars, registryVars
<1> QED
  BY <1>2, <1>3, <1>5, <1>6, <1>7, <1>8 DEF Next

\* Every head is the count of a log and a hash.
LEMMA HeadsShape ==
  ASSUME LocalInvariant, [Next]_vars
  PROVE  \A head \in {memory', anchor', anchorOnDisk'} : head.count \in Nat
<1>1. memory.count \in Nat /\ anchor.count \in Nat /\ anchorOnDisk.count \in Nat
  BY DEF LocalInvariant, LocalShape
<1>2. HeadOf(log).count \in Nat
  BY LogTypes DEF HeadOf
<1>3. CASE UNCHANGED <<anchor, anchorOnDisk>>
  BY <1>1, <1>3, WriterShape
<1>4. CASE AuditProceeds
  BY <1>1, <1>2, <1>4 DEF AuditProceeds, WriteLines, SyncLines, ReplaceAnchor
<1>5. ASSUME NEW r \in Requests, Publish(r)
      PROVE  anchor'.count \in Nat /\ anchorOnDisk'.count \in Nat
  BY <1>1, <1>5 DEF Publish, EndAppend
<1>6. CASE EndProcess
  BY <1>1, <1>6, EndStep, WriterShape
<1>7. \/ UNCHANGED <<anchor, anchorOnDisk>> \/ AuditProceeds \/ EndProcess
      \/ \E r \in Requests : Publish(r)
  BY AuditStep DEF auditVars, fileVars, BeginAudit, BeginAppend, AuditFails, WriteLinesFails,
     AppendFails, Start, OpenLog
<1> QED
  BY <1>3, <1>4, <1>5, <1>6, <1>7, WriterShape

LEMMA ShapesKeep ==
  ASSUME LocalInvariant, [Next]_vars
  PROVE  LocalTypeOK' /\ LocalShape'
<1>1. LocalTypeOK'
  BY TypesKeep, SlotsKeep, AnswerKinds, WriterShape, LogStep DEF LocalTypeOK
<1>2. IsSequence(log)' /\ IsSequence(writer.lines)'
  BY LogStep, WriterShape DEF IsSequence
<1>3. LocalShape'
  BY <1>2, AnswerKinds, WriterShape, HeadsShape DEF LocalShape
<1> QED
  BY <1>1, <1>3

\* Only one request appends at a time, for the loop stands still meanwhile.
LEMMA OneAppends ==
  ASSUME LocalInvariant, NEW q \in Requests, NEW r \in Requests,
         pc[q] = "auditing", pc[r] = "auditing"
  PROVE  q = r
<1>1. LinesOf(q) /\ LinesOf(r)
  BY DEF LocalInvariant, WriterInOrder
<1>2. Len(writer.lines) \in Nat \ {0}
  BY <1>1, RequestTypes, LocalAssumption DEF LinesOf, HandlerInOrder
<1>3. 1 \in 1..Len(writer.lines)
  BY <1>2
<1> QED
  BY <1>1, <1>3 DEF LinesOf

\* A step of a request either finds the loop free and leaves the files alone,
\* or begins, fails or ends an append.
LEMMA LoopStep ==
  ASSUME LocalInvariant, NEW r \in Requests, RequestStep(r)
  PROVE  \/ /\ writer.at = "idle" /\ UNCHANGED auditVars
            /\ \A q \in Requests : pc'[q] = "auditing" => pc[q] = "auditing"
         \/ BeginAudit(r) \/ AuditFails(r) \/ Publish(r)
<1>1. CASE Enters(r)
  BY <1>1, RequestTypes DEF Enters, Enter, LoopFree, RejectConflict, JoinOwner, StartScoring,
     RefuseCapacity, Answer
<1>2. CASE ScoringRaises(r) \/ AbandonWorker(r) \/ AuditRefused(r)
  BY <1>2, RequestTypes DEF ScoringRaises, AbandonWorker, AuditRefused, LoopFree, Fail, Answer
<1>3. CASE WorkerFinishes(r) \/ Replay(r) \/ CancelWaiter(r)
  BY <1>3, RequestTypes DEF WorkerFinishes, Replay, CancelWaiter, LoopFree, Answer
<1> QED
  BY <1>1, <1>2, <1>3 DEF RequestStep

LEMMA WriterKeeps ==
  ASSUME LocalInvariant, [Next]_vars
  PROVE  WriterInOrder'
<1>0. WriterInOrder
  BY DEF LocalInvariant
<1>1. ASSUME writer'.at = "idle", \A q \in Requests : pc'[q] # "auditing"
      PROVE  WriterInOrder'
  BY <1>1 DEF WriterInOrder
<1>2. ASSUME NEW r \in Requests, RequestStep(r), writer.at = "idle", UNCHANGED auditVars,
             \A q \in Requests : pc'[q] = "auditing" => pc[q] = "auditing"
      PROVE  WriterInOrder'
  BY <1>0, <1>1, <1>2 DEF auditVars, WriterInOrder
<1>3. ASSUME NEW r \in Requests, BeginAudit(r)
      PROVE  WriterInOrder'
  <2>1. /\ writer' = [at |-> "open", lines |-> ScoredLines(r)] /\ MayAppend
        /\ UNCHANGED <<fileVars, memory, key, digest, result, ends>>
        /\ pc' = [pc EXCEPT ![r] = "auditing"] /\ writer.at = "idle"
    BY <1>3 DEF BeginAudit, BeginAppend, LoopFree, inputVars, workVars, processVars
  <2>2. \A q \in Requests : pc'[q] = "auditing" => q = r
    BY <1>0, <2>1, RequestTypes DEF WriterInOrder
  <2>3. pc'[r] = "auditing"
    BY <2>1, RequestTypes
  <2>4. Size[digest[r]] \in Nat
    BY <1>3, RequestTypes, LocalAssumption DEF BeginAudit, HandlerInOrder
  <2>5. LinesOf(r)'
    BY <2>1, <2>4, LinesForFacts DEF ScoredLines, LinesOf
  <2>6. Intact'
    BY <2>1 DEF MayAppend, Intact, LinesParse, HashBefore, EventHash, HeadOf, fileVars
  <2>7. memory'.count = Len(log')
    BY <2>1 DEF MayAppend, HeadOf, fileVars
  <2> QED
    BY <2>1, <2>2, <2>3, <2>5, <2>6, <2>7 DEF WriterInOrder
<1>4. ASSUME NEW r \in Requests, AuditFails(r) \/ Publish(r)
      PROVE  WriterInOrder'
  <2>1. writer' = Idle /\ pc[r] = "auditing" /\ pc' = [pc EXCEPT ![r] = "done"]
    BY <1>4 DEF AuditFails, WriteLinesFails, AppendFails, Publish, EndAppend, Fail, Answer
  <2>2. \A q \in Requests : pc'[q] # "auditing"
    BY <2>1, OneAppends, RequestTypes
  <2> QED
    BY <1>1, <2>1, <2>2 DEF Idle
<1>5. CASE AuditProceeds
  <2>1. UNCHANGED <<key, digest, result, ends, pc, memory>>
    BY <1>5 DEF AuditProceeds, WriteLines, SyncLines, ReplaceAnchor, servingVars, inputVars,
       workVars, processVars
  <2>2. /\ writer'.lines = writer.lines /\ writer.at \in {"open", "written", "synced"}
        /\ writer'.at = IF writer.at = "open" THEN "written"
                        ELSE IF writer.at = "written" THEN "synced" ELSE "replaced"
    <3>1. writer = [at |-> writer.at, lines |-> writer.lines]
      BY DEF LocalInvariant, LocalShape
    <3> QED
      BY <1>5, <3>1 DEF AuditProceeds, WriteLines, SyncLines, ReplaceAnchor
  <2>3. \A r \in Requests : LinesOf(r)' <=> LinesOf(r)
    BY <2>1, <2>2 DEF LinesOf
  <2>4. CASE WriteLines
    <3>1. LogPlus(Len(writer.lines)) /\ writer.at = "open" /\ memory.count = Len(log)
      BY <1>0, <2>4, WriteLinesGrows DEF WriterInOrder
    <3>2. /\ Len(log') = memory'.count + Len(writer'.lines)
          /\ \A i \in 1..Len(writer'.lines) : log'[memory'.count + i] = writer'.lines[i]
      BY <2>1, <2>2, <3>1 DEF LogPlus
    <3> QED
      BY <1>0, <2>1, <2>2, <2>3, <3>1, <3>2 DEF WriterInOrder
  <2>5. CASE SyncLines
    BY <1>0, <2>1, <2>2, <2>3, <2>5 DEF SyncLines, WriterInOrder
  <2>6. CASE ReplaceAnchor
    <3>1. anchor' = HeadOf(log)' /\ log' = log /\ synced' = synced /\ writer.at = "synced"
      BY <2>6 DEF ReplaceAnchor, HeadOf, HashBefore, EventHash
    <3> QED
      BY <1>0, <2>1, <2>2, <2>3, <3>1 DEF WriterInOrder
  <2> QED
    BY <1>5, <2>4, <2>5, <2>6 DEF AuditProceeds
<1>6. CASE EndProcess
  <2>1. writer' = Idle /\ \A q \in Requests : pc'[q] # "auditing"
    BY <1>6, EndStep DEF EndProcess, Active
  <2> QED
    BY <1>1, <2>1 DEF Idle
<1>7. CASE Start \/ StartRefused
  <2>1. process = "down" /\ writer' = writer /\ pc' = pc
    BY <1>7 DEF Start, OpenLog, StartRefused, auditVars
  <2>2. \A q \in Requests : pc[q] # "auditing"
    BY <2>1, RequestTypes DEF HandlerInOrder, Active
  <2> QED
    BY <1>0, <1>1, <2>1, <2>2 DEF WriterInOrder, LocalInvariant, LocalTypeOK
<1>8. CASE Quiet \/ UNCHANGED vars
  <2>1. UNCHANGED <<auditVars, key, digest, result, ends, pc>>
    BY <1>8 DEF Quiet, vars, servingVars, inputVars, workVars, processVars
  <2> QED
    BY <1>0, <2>1 DEF auditVars, WriterInOrder, LinesOf, Intact, LinesParse, HashBefore,
       EventHash, HeadOf
<1> QED
  BY <1>2, <1>3, <1>4, <1>5, <1>6, <1>7, <1>8, LoopStep DEF Next

-----------------------------------------------------------------------------
(* The anchor *)

\* The anchor names the head of a prefix of the log that is on disk.
Anchored(a) ==
  /\ a.count <= synced
  /\ a = HeadOf(SubSeq(log, 1, a.count))

\* It goes on naming it, for what is on disk stays.
LEMMA AnchoredStays ==
  ASSUME LocalInvariant, [Next]_vars, NEW a, a.count \in Nat, Anchored(a)
  PROVE  /\ a.count <= synced'
         /\ a = HeadOf(SubSeq(log', 1, a.count))
<1> DEFINE n == a.count
<1>1. n \in 0..Len(log) /\ n \in 0..Len(log') /\ n <= synced' /\ n \in 0..synced
  <2>1. n \in Nat /\ n <= synced /\ synced \in 0..Len(log) /\ Len(log) \in Nat
    BY LogTypes DEF Anchored
  <2>2. IsSequence(log') /\ synced <= synced' /\ synced' \in 0..Len(log')
    BY LogStep
  <2>3. Len(log') \in Nat
    BY <2>2, SequenceFacts
  <2> QED
    BY <2>1, <2>2, <2>3
<1> HIDE DEF n
<1>2. /\ IsSequence(SubSeq(log, 1, n)) /\ Len(SubSeq(log, 1, n)) = n
      /\ \A i \in 1..n : SubSeq(log, 1, n)[i] = log[i]
  BY <1>1, LogTypes, PrefixFacts
<1>3. /\ IsSequence(SubSeq(log', 1, n)) /\ Len(SubSeq(log', 1, n)) = n
      /\ \A i \in 1..n : SubSeq(log', 1, n)[i] = log'[i]
  BY <1>1, LogStep, PrefixFacts
<1>4. \A i \in 1..n : log'[i] = log[i]
  BY <1>1, LogTypes, SyncedStay
<1>5. SubSeq(log', 1, n) = SubSeq(log, 1, n)
  BY <1>2, <1>3, <1>4, SameSequence
<1> QED
  BY <1>1, <1>5 DEF n, Anchored

\* The head of the whole log, once it is on disk.
LEMMA HeadIsAnchored ==
  ASSUME LocalInvariant, synced = Len(log)
  PROVE  Anchored(HeadOf(log))
<1>1. Len(log) \in 0..Len(log) /\ IsSequence(log) /\ HeadOf(log).count = Len(log)
  BY LogTypes DEF HeadOf
<1>2. /\ IsSequence(SubSeq(log, 1, Len(log))) /\ Len(SubSeq(log, 1, Len(log))) = Len(log)
      /\ \A i \in 1..Len(log) : SubSeq(log, 1, Len(log))[i] = log[i]
  BY <1>1, PrefixFacts
<1>3. SubSeq(log, 1, Len(log)) = log
  BY <1>1, <1>2, SameSequence
<1>4. Len(log) <= synced
  BY <1>1, LogTypes
<1> QED
  BY <1>1, <1>3, <1>4 DEF Anchored

LEMMA AnchorKeeps ==
  ASSUME LocalInvariant, [Next]_vars
  PROVE  AnchorNeverAhead'
<1>1. /\ anchor.count \in Nat /\ anchorOnDisk.count \in Nat
      /\ Anchored(anchor) /\ Anchored(anchorOnDisk)
  BY DEF LocalInvariant, LocalShape, AnchorNeverAhead, Anchored
<1>2. ASSUME anchor' \in {anchor, anchorOnDisk}, anchorOnDisk' \in {anchor, anchorOnDisk}
      PROVE  AnchorNeverAhead'
  <2>1. ASSUME NEW a \in {anchor, anchorOnDisk}
        PROVE  a.count <= synced' /\ a = HeadOf(SubSeq(log', 1, a.count))
    BY <1>1, <2>1, AnchoredStays
  <2> QED
    BY <1>2, <2>1 DEF AnchorNeverAhead, HeadOf, HashBefore, EventHash
<1>3. CASE ReplaceAnchor
  <2>1. /\ anchor' = HeadOf(log) /\ anchorOnDisk' = anchorOnDisk
        /\ synced = Len(log)
    BY <1>3 DEF ReplaceAnchor, LocalInvariant, WriterInOrder
  <2>2. Anchored(HeadOf(log)) /\ HeadOf(log).count \in Nat
    BY <2>1, HeadIsAnchored, LogTypes DEF HeadOf
  <2>3. ASSUME NEW a \in {HeadOf(log), anchorOnDisk}
        PROVE  a.count <= synced' /\ a = HeadOf(SubSeq(log', 1, a.count))
    BY <1>1, <2>2, <2>3, AnchoredStays
  <2> QED
    BY <2>1, <2>3 DEF AnchorNeverAhead, HeadOf, HashBefore, EventHash
<1>4. \/ ReplaceAnchor
      \/ anchor' \in {anchor, anchorOnDisk} /\ anchorOnDisk' \in {anchor, anchorOnDisk}
  <2>1. EndProcess => anchor' \in {anchor, anchorOnDisk} /\ anchorOnDisk' \in {anchor, anchorOnDisk}
    BY EndStep
  <2> QED
    BY <2>1, AuditStep DEF auditVars, fileVars, BeginAudit, BeginAppend, AuditFails, WriteLinesFails,
       AppendFails, Start, OpenLog, Publish, EndAppend, AuditProceeds, WriteLines, SyncLines
<1> QED
  BY <1>2, <1>3, <1>4

-----------------------------------------------------------------------------
(* The lines of a lifetime *)

\* A line is an old one, or one the writer has just written.
LEMMA EveryLine ==
  ASSUME LocalInvariant, [Next]_vars, NEW i \in DOMAIN log'
  PROVE  \/ i \in DOMAIN log /\ log'[i] = log[i]
         \/ /\ writer.at = "open" /\ memory.count < i
            /\ i - memory.count \in 1..Len(writer.lines)
            /\ log'[i] = writer.lines[i - memory.count]
<1>1. /\ DOMAIN log = 1..Len(log) /\ Len(log) \in Nat /\ synced \in 0..Len(log)
      /\ Len(writer.lines) \in Nat
  BY LogTypes
<1>2. DOMAIN log' = 1..Len(log') /\ Len(log') \in Nat
  BY LogStep, SequenceFacts
<1>3. ASSUME NEW m \in Nat, LogPlus(m), writer.at = "open", i \notin DOMAIN log
      PROVE  /\ memory.count < i /\ i - memory.count \in 1..Len(writer.lines)
             /\ log'[i] = writer.lines[i - memory.count]
  <2>1. memory.count = Len(log)
    BY <1>3 DEF LocalInvariant, WriterInOrder
  <2> DEFINE j == i - Len(log)
  <2>2. j \in 1..m /\ i = Len(log) + j /\ m \in 0..Len(writer.lines)
    BY <1>1, <1>2, <1>3 DEF LogPlus
  <2>3. log'[Len(log) + j] = writer.lines[j]
    BY <1>3, <2>2 DEF LogPlus
  <2> QED
    BY <1>1, <2>1, <2>2, <2>3
<1>4. ASSUME NEW n \in Nat, LogCut(n) PROVE i \in DOMAIN log /\ log'[i] = log[i]
  BY <1>1, <1>2, <1>4 DEF LogCut
<1>5. ASSUME NEW m \in Nat, LogPlus(m), i \in DOMAIN log PROVE log'[i] = log[i]
  BY <1>1, <1>5 DEF LogPlus
<1> QED
  BY <1>3, <1>4, <1>5, LogStep

\* While an append is under way its lines belong to one request.
LEMMA WriterOwner ==
  ASSUME LocalInvariant, writer.at # "idle"
  PROVE  /\ process = "up"
         /\ \E r \in Requests :
              /\ pc[r] = "auditing" /\ LinesOf(r) /\ owner[r] = r /\ entry[key[r]] = r
              /\ key[r] \in Keys /\ digest[r] \in Digests /\ published[r] = Nothing
BY RequestTypes DEF LocalInvariant, WriterInOrder, HandlerInOrder, Active

\* An entry of a published owner stays until the process ends.
LEMMA PublishedEntryStays ==
  ASSUME LocalInvariant, NEW r \in Requests, RequestStep(r), NEW k \in Keys,
         entry[k] \in Requests, published[entry[k]].kind = "success"
  PROVE  entry'[k] = entry[k] /\ published'[entry[k]] = published[entry[k]]
<1> DEFINE o == entry[k]
<1>1. pc[o] = "done" /\ o # None
  BY RequestTypes DEF HandlerInOrder, Nothing
<1>2. entry'[k] = o
  BY <1>1, RequestFrame
<1>3. published'[o] = published[o]
  BY <1>1, RequestFrame DEF OthersStay
<1> QED
  BY <1>2, <1>3

\* What LinesAccounted says of one line.
LineAccounted(i) ==
  /\ log[i].life <= ends /\ log[i].life \in Nat
  /\ log[i].life = ends => process = "up"
  /\ log[i].life = ends /\ i <= memory.count =>
       /\ log[i].request \in Requests /\ log[i].key \in Keys
       /\ entry[log[i].key] = log[i].request
       /\ published[log[i].request].kind = "success"

\* A line of an append that goes on, fails or is cut off.
LEMMA WrittenLine ==
  ASSUME LocalInvariant, writer.at # "idle", NEW i \in 1..Len(writer.lines)
  PROVE  writer.lines[i].life = ends
BY WriterOwner DEF LinesOf

LEMMA LinesKeep ==
  ASSUME LocalInvariant, [Next]_vars
  PROVE  LinesAccounted'
<1> SUFFICES ASSUME NEW i \in DOMAIN log' PROVE LineAccounted(i)'
  BY DEF LinesAccounted, LineAccounted
<1>1. /\ ends \in Nat /\ DOMAIN log = 1..Len(log) /\ Len(log) \in Nat /\ memory.count \in Nat
      /\ \A j \in DOMAIN log : LineAccounted(j)
  BY LogTypes DEF LocalInvariant, LinesAccounted, LineAccounted
<1>2. log'[i].life \in Nat /\ log'[i].life <= ends
      /\ (log'[i].life = ends => process = "up")
  <2>1. CASE i \in DOMAIN log /\ log'[i] = log[i]
    BY <1>1, <2>1 DEF LineAccounted
  <2>2. CASE /\ writer.at = "open" /\ i - memory.count \in 1..Len(writer.lines)
             /\ log'[i] = writer.lines[i - memory.count]
    <3>1. log'[i].life = ends /\ process = "up"
      BY <2>2, WrittenLine, WriterOwner
    <3> QED
      BY <1>1, <3>1
  <2> QED
    BY <2>1, <2>2, EveryLine
<1>3. CASE EndProcess
  <2>1. ends' = ends + 1
    BY <1>3, EndStep
  <2> QED
    BY <1>1, <1>2, <2>1 DEF LineAccounted
<1>4. CASE Start \/ StartRefused
  <2>1. process = "down" /\ log' = log /\ ends' = ends
    BY <1>4 DEF Start, OpenLog, StartRefused, fileVars, auditVars
  <2> QED
    BY <1>1, <1>2, <2>1 DEF LineAccounted
\* No step of these covers a line that was not covered before.
<1>5. ASSUME memory' = memory, process' = process, ends' = ends,
             \/ UNCHANGED <<entry, published>>
             \/ \E r \in Requests : RequestStep(r)
      PROVE  LineAccounted(i)'
  <2>1. CASE i \in DOMAIN log /\ log'[i] = log[i]
    <3>1. LineAccounted(i)
      BY <1>1, <2>1
    <3>2. ASSUME log[i].life = ends, i <= memory.count
          PROVE  entry'[log[i].key] = log[i].request /\ published'[log[i].request].kind = "success"
      BY <1>5, <3>1, <3>2, PublishedEntryStays DEF LineAccounted
    <3> QED
      BY <1>5, <2>1, <3>1, <3>2 DEF LineAccounted
  <2>2. CASE memory.count < i
    BY <1>1, <1>2, <1>5, <2>2 DEF LineAccounted
  <2> QED
    BY <2>1, <2>2, EveryLine
<1>6. ASSUME NEW r \in Requests, Publish(r)
      PROVE  LineAccounted(i)'
  <2>1. /\ writer.at = "replaced" /\ anchor = HeadOf(log) /\ log' = log /\ ends' = ends
        /\ process' = process /\ entry' = entry /\ pc[r] = "auditing"
        /\ Len(log) = memory.count + Len(writer.lines)
        /\ \A j \in 1..Len(writer.lines) : log[memory.count + j] = writer.lines[j]
    BY <1>6 DEF Publish, EndAppend, LocalInvariant, WriterInOrder, processVars
  <2>2. CASE i <= memory.count
    <3>1. LineAccounted(i) /\ RequestStep(r)
      BY <1>1, <1>6, <2>1 DEF RequestStep
    <3>2. ASSUME log[i].life = ends
          PROVE  entry'[log[i].key] = log[i].request /\ published'[log[i].request].kind = "success"
      BY <2>2, <3>1, <3>2, PublishedEntryStays DEF LineAccounted
    <3> QED
      BY <2>1, <2>2, <3>1, <3>2 DEF LineAccounted
  <2>3. CASE memory.count < i
    <3> DEFINE j == i - memory.count
    <3>1. j \in 1..Len(writer.lines) /\ i = memory.count + j
      BY <1>1, <2>1, <2>3, LogTypes
    <3>2. log[i] = writer.lines[j]
      BY <2>1, <3>1
    <3> HIDE DEF j
    <3>3. LinesOf(r)
      BY <2>1 DEF LocalInvariant, WriterInOrder
    <3>4. log[i].request = r /\ log[i].key = key[r]
      BY <3>1, <3>2, <3>3 DEF LinesOf
    <3>5. key[r] \in Keys /\ entry[key[r]] = r
      BY <2>1, RequestTypes DEF HandlerInOrder
    <3>6. published'[r].kind = "success"
      BY <1>6, RequestTypes DEF Publish, Released
    <3> QED
      BY <1>2, <2>1, <3>4, <3>5, <3>6 DEF LineAccounted
  <2> QED
    BY <1>1, <2>1, <2>2, <2>3
<1>7. ASSUME NEW r \in Requests, RequestStep(r), ~Publish(r)
      PROVE  memory' = memory /\ process' = process /\ ends' = ends
  <2>1. memory' = memory
    BY <1>7, LoopStep DEF auditVars, BeginAudit, BeginAppend, AuditFails, WriteLinesFails, AppendFails
  <2> QED
    BY <1>7, <2>1, RequestFrame
<1>8. AuditProceeds \/ Quiet \/ UNCHANGED vars =>
        UNCHANGED <<memory, process, ends, entry, published>>
  BY DEF AuditProceeds, WriteLines, SyncLines, ReplaceAnchor, Quiet, vars, servingVars, processVars,
     registryVars, auditVars
<1> QED
  BY <1>3, <1>4, <1>5, <1>6, <1>7, <1>8 DEF Next

\* A line that is written has no double in its lifetime: whoever was published
\* under its key still holds the entry, and the writer's request holds it too.
LEMMA NewLineIsFirst ==
  ASSUME LocalInvariant, writer.at = "open",
         NEW i \in DOMAIN log, NEW j \in 1..Len(writer.lines)
  PROVE  log[i].key # writer.lines[j].key \/ log[i].life # writer.lines[j].life
<1>1. PICK r \in Requests : LinesOf(r) /\ entry[key[r]] = r /\ published[r] = Nothing
  BY WriterOwner
<1>2. writer.lines[j].key = key[r] /\ writer.lines[j].life = ends
  BY <1>1 DEF LinesOf
<1>3. i <= memory.count
  BY LogTypes DEF LocalInvariant, WriterInOrder
<1>4. log[i].life = ends => entry[log[i].key] = log[i].request
                            /\ published[log[i].request].kind = "success"
  BY <1>3 DEF LocalInvariant, LinesAccounted
<1> QED
  BY <1>1, <1>2, <1>4 DEF Nothing

LEMMA OnceKeeps ==
  ASSUME LocalInvariant, [Next]_vars
  PROVE  OncePerLifetime'
<1> SUFFICES ASSUME NEW i \in DOMAIN log', NEW j \in DOMAIN log',
                    log'[i].key = log'[j].key, log'[i].index = log'[j].index, i # j
             PROVE  log'[i].life # log'[j].life
  BY DEF OncePerLifetime
<1>1. CASE i \in DOMAIN log /\ log'[i] = log[i] /\ j \in DOMAIN log /\ log'[j] = log[j]
  BY <1>1 DEF LocalInvariant, OncePerLifetime
<1>2. ASSUME NEW a \in DOMAIN log, NEW b \in DOMAIN log', log'[a] = log[a], writer.at = "open",
             b - memory.count \in 1..Len(writer.lines),
             log'[b] = writer.lines[b - memory.count], log'[a].key = log'[b].key
      PROVE  log'[a].life # log'[b].life
  BY <1>2, NewLineIsFirst
<1>3. CASE /\ writer.at = "open"
           /\ i - memory.count \in 1..Len(writer.lines)
           /\ log'[i] = writer.lines[i - memory.count]
           /\ j - memory.count \in 1..Len(writer.lines)
           /\ log'[j] = writer.lines[j - memory.count]
  <2>1. i \in Nat /\ j \in Nat /\ memory.count \in Nat
    BY LogStep, SequenceFacts, LogTypes
  <2> DEFINE a == i - memory.count
             b == j - memory.count
  <2>2. a # b
    BY <2>1
  <2> HIDE DEF a, b
  <2>3. PICK r \in Requests : LinesOf(r)
    BY <1>3, WriterOwner
  <2>4. writer.lines[a].index = a /\ writer.lines[b].index = b
    BY <1>3, <2>3 DEF LinesOf, a, b
  <2> QED
    BY <1>3, <2>2, <2>4 DEF a, b
<1> QED
  BY <1>1, <1>2, <1>3, EveryLine

-----------------------------------------------------------------------------
(* The evidence *)

\* The evidence of a decision stays on disk.
LEMMA EvidenceStays ==
  ASSUME LocalInvariant, [Next]_vars, NEW o \in Requests, digest[o] \in Digests, EvidenceOf(o),
         key'[o] = key[o], digest'[o] = digest[o], published'[o] = published[o]
  PROVE  EvidenceOf(o)'
<1>1. PICK first \in 1..synced :
        /\ first + Size[digest[o]] - 1 <= synced
        /\ \A i \in 1..Size[digest[o]] :
             LET e == log[first + i - 1] IN
             /\ e.request = o
             /\ e.index = i
             /\ e.key = key[o]
             /\ e.digest = digest[o]
             /\ e.decision = published[o].decision
        /\ Size[digest[o]] = 1 => published[o].receipt = EventHash(log[first])
  BY DEF EvidenceOf
<1>2. Size[digest[o]] \in Nat \ {0} /\ synced \in Nat /\ synced' \in Nat /\ synced <= synced'
  <2>1. Len(log') \in Nat
    BY LogStep, SequenceFacts
  <2> QED
    BY <2>1, LocalAssumption, LogTypes, LogStep
<1>3. first \in 1..synced' /\ first + Size[digest[o]] - 1 <= synced'
  BY <1>1, <1>2
<1>4. ASSUME NEW i \in 1..Size[digest[o]] PROVE log'[first + i - 1] = log[first + i - 1]
  BY <1>1, <1>2, <1>4, SyncedStay
<1>5. log'[first] = log[first]
  BY SyncedStay
<1>6. \A i \in 1..Size[digest'[o]] :
        LET e == log'[first + i - 1] IN
        /\ e.request = o
        /\ e.index = i
        /\ e.key = key'[o]
        /\ e.digest = digest'[o]
        /\ e.decision = published'[o].decision
  BY <1>1, <1>4
<1>7. Size[digest'[o]] = 1 => published'[o].receipt = EventHash(log'[first])
  BY <1>1, <1>5 DEF EventHash
<1> QED
  BY <1>3, <1>6, <1>7 DEF EvidenceOf, EventHash

\* What a request publishes is what it has just written and synced.
LEMMA EvidencePublished ==
  ASSUME LocalInvariant, NEW r \in Requests, Publish(r)
  PROVE  EvidenceOf(r)'
<1> DEFINE n == Size[digest[r]]
           first == memory.count + 1
<1>1. /\ pc[r] = "auditing" /\ writer.at = "replaced" /\ LinesOf(r)
      /\ Len(log) = memory.count + Len(writer.lines) /\ synced = Len(log)
      /\ \A i \in 1..Len(writer.lines) : log[memory.count + i] = writer.lines[i]
      /\ log' = log /\ synced' = synced
  BY DEF Publish, EndAppend, LocalInvariant, WriterInOrder
<1>2. n \in Nat \ {0} /\ Len(writer.lines) = n /\ memory.count \in Nat
  BY <1>1, RequestTypes, LogTypes, LocalAssumption DEF HandlerInOrder, LinesOf
<1>3. key' = key /\ digest' = digest /\ published'[r] = Released(r)
  BY RequestTypes DEF Publish, inputVars
<1>4. first \in 1..synced /\ first + n - 1 <= synced
  BY <1>1, <1>2
<1>5. ASSUME NEW i \in 1..n PROVE log[first + i - 1] = writer.lines[i]
  <2>1. first + i - 1 = memory.count + i
    BY <1>2
  <2> QED
    BY <1>1, <1>2, <2>1
<1>6. log[first] = writer.lines[1]
  BY <1>1, <1>2
<1>7. \A i \in 1..n :
        LET e == writer.lines[i] IN
        /\ e.request = r /\ e.index = i /\ e.key = key[r] /\ e.digest = digest[r]
        /\ e.decision = result[r]
  BY <1>1, <1>2 DEF LinesOf
<1>8. Released(r).decision = result[r] /\ (n = 1 => Released(r).receipt = EventHash(writer.lines[1]))
  BY DEF Released
<1>9. first \in 1..synced' /\ first + Size[digest'[r]] - 1 <= synced'
  BY <1>1, <1>3, <1>4
<1>10. \A i \in 1..Size[digest'[r]] :
         LET e == log'[first + i - 1] IN
         /\ e.request = r /\ e.index = i /\ e.key = key'[r] /\ e.digest = digest'[r]
         /\ e.decision = published'[r].decision
  BY <1>1, <1>3, <1>5, <1>7, <1>8, SMTT(30)
<1>11. Size[digest'[r]] = 1 => published'[r].receipt = EventHash(log'[first])
  BY <1>1, <1>3, <1>6, <1>8
<1> HIDE DEF first, n
<1> QED
  BY <1>9, <1>10, <1>11 DEF EvidenceOf, EventHash

LEMMA PublishedKeeps ==
  ASSUME LocalInvariant, [Next]_vars
  PROVE  PublishedIsAudited'
<1> SUFFICES ASSUME NEW o \in Requests, published'[o].kind = "success" PROVE EvidenceOf(o)'
  BY DEF PublishedIsAudited
<1>1. ASSUME published[o].kind = "success", UNCHANGED <<key, digest, published>>
      PROVE  EvidenceOf(o)'
  <2>1. digest[o] \in Digests /\ EvidenceOf(o)
    BY <1>1, RequestTypes DEF HandlerInOrder, Nothing, LocalInvariant, PublishedIsAudited
  <2> QED
    BY <1>1, <2>1, EvidenceStays
<1>2. ASSUME NEW r \in Requests, RequestStep(r), published[o].kind = "success"
      PROVE  EvidenceOf(o)'
  <2>1. pc[o] = "done" /\ digest[o] \in Digests /\ EvidenceOf(o)
    BY <1>2, RequestTypes DEF HandlerInOrder, Nothing, LocalInvariant, PublishedIsAudited
  <2>2. key'[o] = key[o] /\ digest'[o] = digest[o] /\ published'[o] = published[o]
    BY <1>2, <2>1, RequestFrame DEF OthersStay
  <2> QED
    BY <2>1, <2>2, EvidenceStays
<1>3. ASSUME NEW r \in Requests, RequestStep(r), published[o].kind # "success"
      PROVE  EvidenceOf(o)'
  <2>1. o = r
    BY <1>3, RequestFrame DEF OthersStay
  <2>2. Publish(r)
    <3>1. CASE Enters(r)
      BY <1>3, <2>1, <3>1, RequestTypes DEF Enters, RejectConflict, JoinOwner, StartScoring,
         RefuseCapacity, Refused, registryVars
    <3>2. CASE ScoringRaises(r) \/ AbandonWorker(r) \/ AuditRefused(r) \/ AuditFails(r)
      BY <1>3, <2>1, <3>2, RequestTypes DEF ScoringRaises, AbandonWorker, AuditRefused,
         AuditFails, Fail, Refused
    <3>3. CASE WorkerFinishes(r) \/ BeginAudit(r) \/ Replay(r) \/ CancelWaiter(r)
      BY <1>3, <2>1, <3>3 DEF WorkerFinishes, BeginAudit, Replay, CancelWaiter, registryVars
    <3> QED
      BY <1>3, <3>1, <3>2, <3>3 DEF RequestStep
  <2> QED
    BY <2>1, <2>2, EvidencePublished
<1>4. EndProcess \/ AuditProceeds \/ Start \/ StartRefused \/ Quiet \/ UNCHANGED vars =>
        UNCHANGED <<key, digest, published>>
  BY DEF EndProcess, AuditProceeds, Start, StartRefused, Quiet, vars, servingVars, inputVars,
     registryVars
<1> QED
  BY <1>1, <1>2, <1>3, <1>4 DEF Next

-----------------------------------------------------------------------------
(* The invariant and what follows from it *)

LEMMA InitHolds == Init => LocalInvariant
<1> SUFFICES ASSUME Init PROVE LocalInvariant
  OBVIOUS
<1> USE DEF Init, AuditInit
<1>1. IsSequence(<<>>) /\ Len(<<>>) = 0 /\ DOMAIN <<>> = {}
  <2>1. <<>> \in Seq({}) /\ Len(<<>>) = 0
    OBVIOUS
  <2>2. IsSequence(<<>>)
    BY <2>1, ElementIsSequence
  <2>3. DOMAIN <<>> = 1..0
    BY <2>1, <2>2, SequenceFacts
  <2> QED
    BY <2>1, <2>2, <2>3
<1>2. HeadOf(<<>>).count = 0
  BY DEF HeadOf
<1>3. Nothing.kind = "none"
  BY DEF Nothing
<1>4. LocalTypeOK
  <2>1. synced \in 0..Len(log)
    BY <1>1
  <2>2. \A r \in Requests : answer[r].kind \in Kinds /\ published[r].kind \in Kinds
    BY <1>3 DEF Kinds
  <2>3. torn \in BOOLEAN /\ writer.at = "idle"
    OBVIOUS
  <2> QED
    BY <2>1, <2>2, <2>3 DEF LocalTypeOK
<1>10. LocalShape
  BY <1>1, <1>2 DEF LocalShape
<1>5. SlotsCounted
  <2>1. Running = {}
    BY DEF Running
  <2> QED
    BY <2>1, FS_EmptySet, LocalAssumption DEF SlotsCounted
<1>6. HandlersInOrder /\ EntriesOwned /\ PublishedIsAudited
  BY <1>3 DEF HandlersInOrder, EntriesOwned, PublishedIsAudited, Active
<1>7. WriterInOrder
  BY DEF WriterInOrder
<1>8. LinesAccounted /\ OncePerLifetime
  BY <1>1 DEF LinesAccounted, OncePerLifetime
<1>9. AnchorNeverAhead
  <2>1. IsSequence(SubSeq(<<>>, 1, 0)) /\ Len(SubSeq(<<>>, 1, 0)) = 0
    BY <1>1, PrefixFacts
  <2>2. SubSeq(<<>>, 1, 0) = <<>>
    BY <1>1, <2>1, SameSequence
  <2>3. synced = 0 /\ anchor = HeadOf(<<>>) /\ anchorOnDisk = HeadOf(<<>>) /\ log = <<>>
    OBVIOUS
  <2> DEFINE a == HeadOf(<<>>)
  <2>4. SubSeq(log, 1, 0) = log /\ a.count = 0 /\ a = HeadOf(log)
    BY <1>2, <2>2, <2>3
  <2> HIDE DEF Init, AuditInit, a
  <2>5. a.count <= synced
    BY <2>3, <2>4
  <2>6. SubSeq(log, 1, a.count) = log
    BY <2>4
  <2>7. a = HeadOf(SubSeq(log, 1, a.count))
    BY <2>4, <2>6
  <2> QED
    BY <2>3, <2>5, <2>7 DEF AnchorNeverAhead, a
<1> QED
  BY <1>4, <1>5, <1>6, <1>7, <1>8, <1>9, <1>10 DEF LocalInvariant

LEMMA NextStep == LocalInvariant /\ [Next]_vars => LocalInvariant'
<1> SUFFICES ASSUME LocalInvariant, [Next]_vars PROVE LocalInvariant'
  OBVIOUS
<1> QED
  BY ShapesKeep, SlotsKeep, HandlersKeep, EntriesKeep, WriterKeeps, AnchorKeeps, LinesKeep, OnceKeeps,
     PublishedKeeps DEF LocalInvariant

\* LocalInvariant holds in every state, for any number of requests, slots,
\* transactions and ends of the process (api/main.py, api/audit.py).
THEOREM LocalInvariantHolds == Spec => []LocalInvariant
BY InitHolds, NextStep, PTL DEF Spec

\* The gate's counter is the number of worker threads that run, including those
\* whose requests were answered long ago, and never exceeds the limit.
THEOREM GateIsExact == Spec => []GateCountsWorkers
<1>1. LocalInvariant => GateCountsWorkers
  BY DEF LocalInvariant, SlotsCounted, Running, GateCountsWorkers
<1> QED
  BY <1>1, LocalInvariantHolds, PTL

\* No retry within a lifetime of the process leaves a second event of an id and
\* index in the log, whatever failed before it.
THEOREM EventsOncePerLifetime == Spec => []OncePerLifetime
<1>1. LocalInvariant => OncePerLifetime
  BY DEF LocalInvariant
<1> QED
  BY <1>1, LocalInvariantHolds, PTL

\* Every decision a caller was sent, first hand or replayed, has the complete
\* evidence of its id and input on disk, under an anchor that is never ahead.
THEOREM EveryReleaseIsAudited == Spec => []ReleasedIsAudited
<1>1. LocalInvariant => ReleasedIsAudited
  <2> SUFFICES ASSUME LocalInvariant, NEW r \in Requests, answer[r].kind = "success"
               PROVE  \E first \in 1..synced :
                        /\ first + Size[digest[r]] - 1 <= synced
                        /\ \A i \in 1..Size[digest[r]] :
                             LET e == log[first + i - 1] IN
                             /\ e.request = owner[r]
                             /\ e.index = i
                             /\ e.key = key[r]
                             /\ e.digest = digest[r]
                             /\ e.decision = answer[r].decision
                        /\ Size[digest[r]] = 1 => answer[r].receipt = EventHash(log[first])
    BY DEF ReleasedIsAudited, LocalInvariant
  <2>1. /\ owner[r] \in Requests /\ published[owner[r]] = answer[r]
        /\ key[owner[r]] = key[r] /\ digest[owner[r]] = digest[r]
    BY RequestTypes DEF HandlerInOrder
  <2>2. EvidenceOf(owner[r])
    BY <2>1 DEF LocalInvariant, PublishedIsAudited
  <2> QED
    BY <2>1, <2>2 DEF EvidenceOf
<1> QED
  BY <1>1, LocalInvariantHolds, PTL

\* A log that fails verification never grows again and keeps its lines: only
\* the end of the process may still take from its end what was not on disk.
THEOREM BrokenLogStaysFrozen == Spec => BrokenLogIsFrozen
<1>1. LocalInvariant /\ [Next]_vars /\ ~Intact =>
        Len(log') <= Len(log) /\ log' = SubSeq(log, 1, Len(log'))
  <2> SUFFICES ASSUME LocalInvariant, [Next]_vars, ~Intact
               PROVE  Len(log') <= Len(log) /\ log' = SubSeq(log, 1, Len(log'))
    OBVIOUS
  <2>1. writer.at # "open"
    BY DEF LocalInvariant, WriterInOrder
  <2>2. IsSequence(log') /\ IsSequence(log) /\ Len(log) \in Nat /\ Len(log') \in Nat
    BY LogTypes, LogStep, SequenceFacts
  <2>3. Len(log') <= Len(log) /\ \A i \in 1..Len(log') : log'[i] = log[i]
    BY <2>1, <2>2, LogStep DEF LogCut
  <2>4. /\ IsSequence(SubSeq(log, 1, Len(log')))
        /\ Len(SubSeq(log, 1, Len(log'))) = Len(log')
        /\ \A i \in 1..Len(log') : SubSeq(log, 1, Len(log'))[i] = log[i]
    BY <2>2, <2>3, PrefixFacts
  <2> QED
    BY <2>2, <2>3, <2>4, SameSequence
<1> QED
  BY <1>1, LocalInvariantHolds, PTL DEF Spec, BrokenLogIsFrozen

-----------------------------------------------------------------------------
(* The registry and the ledger *)

\* What a request's step publishes, and when.
LEMMA OwnPublication ==
  ASSUME LocalInvariant, NEW r \in Requests, RequestStep(r)
  PROVE  \/ published' = published
         \/ /\ published' = [published EXCEPT ![r] = Released(r)]
            /\ answer' = [answer EXCEPT ![r] = Released(r)]
            /\ Publish(r)
         \/ \E why \in Kinds \ {"none", "success", "conflict"} :
              /\ published' = [published EXCEPT ![r] = Refused(why)]
              /\ answer' = [answer EXCEPT ![r] = Refused(why)]
<1>1. CASE Enters(r)
  BY <1>1 DEF Enters, RejectConflict, JoinOwner, StartScoring, RefuseCapacity, Answer, registryVars,
     Kinds
<1>2. CASE ScoringRaises(r) \/ AbandonWorker(r) \/ AuditRefused(r) \/ AuditFails(r)
  BY <1>2 DEF ScoringRaises, AbandonWorker, AuditRefused, AuditFails, Fail, Answer, Kinds
<1>3. CASE WorkerFinishes(r) \/ BeginAudit(r) \/ Replay(r) \/ CancelWaiter(r)
  BY <1>3 DEF WorkerFinishes, BeginAudit, Replay, CancelWaiter, registryVars
<1>4. CASE Publish(r)
  BY <1>4 DEF Publish, Answer
<1> QED
  BY <1>1, <1>2, <1>3, <1>4 DEF RequestStep

\* A decision that is released was one: the append began with it.
LEMMA ResultsStay ==
  ASSUME LocalInvariant, RegistryKept, NEW r \in Requests, RequestStep(r), NEW q \in Requests,
         pc'[q] = "auditing"
  PROVE  result'[q] # None
<1>1. CASE pc[q] = "auditing"
  <2>1. result[q] # None /\ worker[q] = "finished"
    BY <1>1, RequestTypes DEF RegistryKept, HandlerInOrder
  <2>2. CASE q # r
    BY <2>1, <2>2, RequestFrame DEF OthersStay
  <2>3. CASE q = r
    <3>1. writer.at # "idle"
      BY <1>1 DEF LocalInvariant, WriterInOrder
    <3> QED
      BY <1>1, <2>1, <2>3, <3>1, LoopStep DEF BeginAudit, LoopFree, AuditFails, Publish, Fail, Answer,
         workVars
  <2> QED
    BY <2>2, <2>3
<1>2. CASE pc[q] # "auditing"
  <2>1. q = r
    BY <1>2, RequestFrame DEF OthersStay
  <2>2. BeginAudit(r)
    BY <1>2, <2>1, RequestTypes, LoopStep DEF AuditFails, Publish, Fail, Answer
  <2> QED
    BY <2>1, <2>2 DEF BeginAudit, workVars
<1> QED
  BY <1>1, <1>2

LEMMA RegistryKeeps ==
  ASSUME LocalInvariant, RegistryKept, [Next]_vars
  PROVE  RegistryKept'
<1> SUFFICES ASSUME NEW q \in Requests
             PROVE  /\ published'[q].kind # "conflict"
                    /\ pc'[q] = "auditing" => result'[q] # None
                    /\ published'[q].kind = "success" =>
                         /\ published'[q].decision # None
                         /\ ends' = 0 => entry'[key'[q]] = q
  BY DEF RegistryKept
<1>1. /\ published[q].kind # "conflict"
      /\ pc[q] = "auditing" => result[q] # None
      /\ published[q].kind = "success" =>
           /\ published[q].decision # None
           /\ ends = 0 => entry[key[q]] = q
  BY DEF RegistryKept
<1>2. CASE \E r \in Requests : RequestStep(r)
  <2>1. PICK r \in Requests : RequestStep(r)
    BY <1>2
  <2>2. pc'[q] = "auditing" => result'[q] # None
    BY <2>1, ResultsStay
  <2>3. CASE published'[q] = published[q]
    <3>1. published[q].kind = "success" => pc[q] = "done" /\ key[q] \in Keys
      BY RequestTypes DEF HandlerInOrder, Nothing
    <3>2. published[q].kind = "success" => key'[q] = key[q] /\ ends' = ends
      BY <2>1, <3>1, RequestFrame DEF OthersStay
    <3>3. published[q].kind = "success" /\ entry[key[q]] = q => entry'[key[q]] = q
      BY <2>1, <3>1, PublishedEntryStays
    <3> QED
      BY <1>1, <2>2, <2>3, <3>2, <3>3
  <2>4. CASE published'[q] # published[q]
    <3>1. q = r /\ published' # published
      BY <2>1, <2>4, RequestFrame DEF OthersStay
    <3>2. CASE \E why \in Kinds \ {"none", "success", "conflict"} :
                 published' = [published EXCEPT ![r] = Refused(why)]
      BY <2>2, <3>1, <3>2, RequestTypes DEF Refused
    <3>3. CASE published' = [published EXCEPT ![r] = Released(r)] /\ Publish(r)
      <4>1. published'[r] = Released(r) /\ key' = key /\ entry' = entry /\ pc[r] = "auditing"
        BY <3>3, RequestTypes DEF Publish, inputVars
      <4>2. Released(r).kind = "success" /\ Released(r).decision = result[r]
        BY DEF Released
      <4>3. entry[key[r]] = r
        BY <4>1, RequestTypes DEF HandlerInOrder
      <4> QED
        BY <1>1, <2>2, <3>1, <4>1, <4>2, <4>3
    <3> QED
      BY <2>1, <3>1, <3>2, <3>3, OwnPublication
  <2> QED
    BY <2>3, <2>4
<1>3. CASE EndProcess
  <2>1. ends' # 0 /\ published' = published /\ pc'[q] # "auditing"
    BY <1>3, LogTypes DEF EndProcess, Active
  <2> QED
    BY <1>1, <2>1
<1>4. CASE AuditProceeds \/ Start \/ StartRefused \/ Quiet \/ UNCHANGED vars
  <2>1. UNCHANGED <<ends, entry, published, key, pc, result>>
    BY <1>4 DEF AuditProceeds, Start, StartRefused, Quiet, vars, servingVars, processVars,
       registryVars, inputVars, workVars
  <2> QED
    BY <1>1, <2>1
<1> QED
  BY <1>2, <1>3, <1>4 DEF Next

\* What the ledger sees of a step that keeps entries, and publishes no decision
\* to an owner that holds one.
LEMMA BindingsStay ==
  ASSUME LocalInvariant, NEW k \in Keys, entry'[k] = entry[k],
         entry[k] \in Requests =>
           /\ digest'[entry[k]] = digest[entry[k]]
           /\ published'[entry[k]] = published[entry[k]]
  PROVE  Bound(k)' = Bound(k) /\ Decided(k)' = Decided(k)
BY RequestTypes DEF Bound, Decided

\* An entry belongs to a request that has its key and an input.
LEMMA EntryHolder ==
  ASSUME LocalInvariant, NEW k \in Keys, entry[k] # None
  PROVE  /\ entry[k] \in Requests /\ key[entry[k]] = k /\ pc[entry[k]] # "new"
         /\ digest[entry[k]] \in Digests
BY RequestTypes DEF LocalInvariant, EntriesOwned, HandlerInOrder

\* The requests that take no step are shown nothing new.
LEMMA OthersShown ==
  ASSUME LocalInvariant, NEW r \in Requests, RequestStep(r), NEW q \in Requests \ {r}
  PROVE  ShownTo(q)' = ShownTo(q)
BY RequestFrame DEF OthersStay, ShownTo

LEMMA ShowsNothing ==
  ASSUME NEW q \in Requests, answer[q].kind \notin {"success", "conflict"}
  PROVE  ShownTo(q) = Ledger!NotShown
BY DEF ShownTo, Ledger!NotShown

\* A conflict shows that the key is bound to another input.
LEMMA ConflictShown ==
  ASSUME LocalInvariant, NEW r \in Requests, NEW k \in Keys, NEW d \in Digests,
         RejectConflict(r, k, d), RequestStep(r)
  PROVE  Ledger!Next
<1>1. /\ pc[r] = "new" /\ entry' = entry /\ published' = published
      /\ key'[r] = k /\ digest'[r] = d /\ answer' = [answer EXCEPT ![r] = Refused("conflict")]
      /\ entry[k] # None /\ digest[entry[k]] # d
  BY RequestTypes DEF RejectConflict, Enter, Answer, registryVars
<1>2. ASSUME NEW j \in Keys PROVE Bound(j)' = Bound(j) /\ Decided(j)' = Decided(j)
  <2>1. entry[j] \in Requests => digest'[entry[j]] = digest[entry[j]]
    BY <1>1, EntryHolder, RequestTypes, RequestFrame DEF OthersStay
  <2> QED
    BY <1>1, <2>1, BindingsStay
<1>3. Bound(k) \notin {None, d}
  BY <1>1, EntryHolder, LocalAssumption DEF Bound
<1>4. ShownTo(r) = Ledger!NotShown
  <2>1. answer[r].kind = "none"
    BY <1>1, RequestTypes DEF HandlerInOrder, Nothing
  <2> QED
    BY <2>1, ShowsNothing
<1>5. ShownTo(r)' = Ledger!Shown(k, d, "conflict", None)
  <2>1. answer'[r] = Refused("conflict")
    BY <1>1, RequestTypes
  <2> QED
    BY <1>1, <2>1 DEF ShownTo, Refused, Ledger!Shown
<1>6. Ledger!Conflict(r, k, d)
  BY <1>2, <1>3, <1>4, <1>5, OthersShown DEF Ledger!Conflict
<1> QED
  BY <1>6 DEF Ledger!Next

\* The owner's entry binds the key to its input.
LEMMA StartBinds ==
  ASSUME LocalInvariant, NEW r \in Requests, NEW k \in Keys, NEW d \in Digests,
         StartScoring(r, k, d), RequestStep(r)
  PROVE  Ledger!Next
<1>1. /\ pc[r] = "new" /\ entry' = [entry EXCEPT ![k] = r] /\ published' = published
      /\ digest'[r] = d /\ answer' = answer /\ entry[k] = None
      /\ published[r] = Nothing /\ answer[r] = Nothing
  BY RequestTypes DEF StartScoring, Enter, HandlerInOrder
<1>2. ASSUME NEW j \in Keys, j # k PROVE Bound(j)' = Bound(j) /\ Decided(j)' = Decided(j)
  <2>1. entry[j] \in Requests => digest'[entry[j]] = digest[entry[j]]
    BY <1>1, EntryHolder, RequestTypes, RequestFrame DEF OthersStay
  <2>2. entry'[j] = entry[j]
    BY <1>1, <1>2, RequestTypes
  <2> QED
    BY <1>1, <2>1, <2>2, BindingsStay
<1>3. Bound(k) = None /\ Decided(k) = None
  BY <1>1 DEF Bound, Decided
<1>4. Bound(k)' = d /\ Decided(k)' = None
  BY <1>1, RequestTypes DEF Bound, Decided, Nothing
<1>5. ShownTo(r)' = ShownTo(r)
  BY <1>1 DEF ShownTo, Nothing
<1>6. Ledger!Bind(k, d)
  BY <1>2, <1>3, <1>4, <1>5, OthersShown DEF Ledger!Bind
<1> QED
  BY <1>6 DEF Ledger!Next

\* A failed owner gives its key back undecided.
LEMMA FailureReleases ==
  ASSUME LocalInvariant, NEW r \in Requests, RequestStep(r),
         NEW why \in Kinds \ {"none", "success", "conflict"}, Fail(r, why),
         pc[r] \in {"scoring", "auditing"}
  PROVE  Ledger!Next
<1>0. PICK k \in Keys : k = key[r]
  BY RequestTypes DEF HandlerInOrder, Publish
<1>1. /\ k = key[r] /\ entry[k] = r /\ digest[r] \in Digests /\ published[r] = Nothing
      /\ answer[r] = Nothing
  BY <1>0, RequestTypes DEF HandlerInOrder
<1>2. /\ entry' = [entry EXCEPT ![k] = None]
      /\ published' = [published EXCEPT ![r] = Refused(why)]
      /\ answer' = [answer EXCEPT ![r] = Refused(why)]
  BY <1>1, RequestTypes DEF Fail, Answer
<1>3. ASSUME NEW j \in Keys, j # k PROVE Bound(j)' = Bound(j) /\ Decided(j)' = Decided(j)
  <2>1. entry'[j] = entry[j] /\ entry[j] # r
    BY <1>1, <1>2, <1>3, RequestTypes, EntryHolder
  <2>2. entry[j] \in Requests =>
          digest'[entry[j]] = digest[entry[j]] /\ published'[entry[j]] = published[entry[j]]
    BY <2>1, RequestFrame DEF OthersStay
  <2> QED
    BY <2>1, <2>2, BindingsStay
<1>4. Bound(k) # None /\ Decided(k) = None
  BY <1>1, LocalAssumption DEF Bound, Decided, Nothing
<1>5. Bound(k)' = None /\ Decided(k)' = None
  BY <1>1, <1>2, RequestTypes DEF Bound, Decided
<1>6. ShownTo(r)' = ShownTo(r)
  <2>1. answer'[r] = Refused(why)
    BY <1>2, RequestTypes
  <2> QED
    BY <1>1, <2>1 DEF ShownTo, Nothing, Refused, Kinds
<1>7. Ledger!Release(k)
  BY <1>1, <1>3, <1>4, <1>5, <1>6, OthersShown DEF Ledger!Release
<1> QED
  BY <1>1, <1>7 DEF Ledger!Next

\* complete decides the key and shows the decision in one step.
LEMMA PublicationDecides ==
  ASSUME LocalInvariant, RegistryKept, NEW r \in Requests, Publish(r), RequestStep(r)
  PROVE  Ledger!Next
<1>0. PICK k \in Keys : k = key[r]
  BY RequestTypes DEF HandlerInOrder, Publish
<1>1. /\ k = key[r] /\ entry[k] = r /\ digest[r] \in Digests /\ published[r] = Nothing
      /\ answer[r] = Nothing /\ result[r] \in Decisions
  BY <1>0, RequestTypes DEF HandlerInOrder, Publish, RegistryKept
<1>2. /\ entry' = entry /\ key' = key /\ digest' = digest
      /\ published'[r] = Released(r) /\ answer'[r] = Released(r)
      /\ \A q \in Requests \ {r} : published'[q] = published[q]
  BY RequestTypes DEF Publish, Answer, inputVars
<1>3. Released(r).kind = "success" /\ Released(r).decision = result[r]
  BY DEF Released
<1>4. ASSUME NEW j \in Keys, j # k PROVE Bound(j)' = Bound(j) /\ Decided(j)' = Decided(j)
  <2>1. entry[j] # r
    BY <1>1, <1>4, RequestTypes, EntryHolder
  <2> QED
    BY <1>2, <2>1, BindingsStay
<1>5. Bound(k) = digest[r] /\ Decided(k) = None
  BY <1>1, RequestTypes DEF Bound, Decided, Nothing
<1>6. Bound(k)' = digest[r] /\ Decided(k)' = result[r]
  BY <1>1, <1>2, <1>3, RequestTypes DEF Bound, Decided
<1>7. ShownTo(r) = Ledger!NotShown
  BY <1>1, ShowsNothing DEF Nothing
<1>8. ShownTo(r)' = Ledger!Shown(k, digest[r], "decision", result[r])
  BY <1>1, <1>2, <1>3 DEF ShownTo, Ledger!Shown
<1>9. Ledger!DecideAndShow(r, k, digest[r], result[r])
  BY <1>1, <1>4, <1>5, <1>6, <1>7, <1>8, OthersShown DEF Ledger!DecideAndShow
<1> QED
  BY <1>1, <1>9 DEF Ledger!Next

\* replay shows what was decided under the key, to a caller of its input.
LEMMA ReplayShows ==
  ASSUME LocalInvariant, RegistryKept, NEW r \in Requests, Replay(r), RequestStep(r), ends = 0
  PROVE  Ledger!Next \/ \A q \in Requests : ShownTo(q)' = ShownTo(q)
<1> DEFINE o == owner[r]
           k == key[r]
<1>1. /\ o \in Requests /\ k \in Keys /\ digest[r] \in Digests /\ answer[r] = Nothing
      /\ key[o] = k /\ digest[o] = digest[r]
  BY RequestTypes DEF HandlerInOrder, Replay
<1>2. /\ entry' = entry /\ published' = published /\ key' = key /\ digest' = digest
      /\ answer'[r] = published[o]
  BY RequestTypes DEF Replay, Answer, registryVars, inputVars
<1>3. ShownTo(r) = Ledger!NotShown
  BY <1>1, ShowsNothing DEF Nothing
<1> HIDE DEF o, k
<1>4. CASE published[o].kind = "success"
  <2>1. entry[k] = o /\ published[o].decision # None
    BY <1>1, <1>4 DEF RegistryKept
  <2>2. Bound(k) = digest[r] /\ Decided(k) = published[o].decision
    BY <1>1, <1>4, <2>1, RequestTypes DEF Bound, Decided
  <2>3. \A j \in Keys : Bound(j)' = Bound(j) /\ Decided(j)' = Decided(j)
    BY <1>2 DEF Bound, Decided
  <2>4. ShownTo(r)' = Ledger!Shown(k, digest[r], "decision", published[o].decision)
    BY <1>2, <1>4 DEF ShownTo, Ledger!Shown, k
  <2>5. Ledger!Show(r, k, digest[r])
    BY <1>1, <1>3, <2>1, <2>2, <2>3, <2>4, OthersShown DEF Ledger!Show
  <2> QED
    BY <1>1, <2>5 DEF Ledger!Next
<1>5. CASE published[o].kind # "success"
  <2>1. answer'[r].kind \notin {"success", "conflict"}
    BY <1>1, <1>2, <1>5 DEF RegistryKept
  <2>2. ShownTo(r)' = ShownTo(r)
    BY <1>3, <2>1 DEF ShownTo, Ledger!NotShown
  <2> QED
    BY <2>2, OthersShown
<1> QED
  BY <1>4, <1>5

\* Steps that leave registry, inputs and answers alone change nothing there.
LEMMA RegistryStutters ==
  ASSUME \A k \in Keys : Bound(k)' = Bound(k) /\ Decided(k)' = Decided(k),
         \A q \in Requests : ShownTo(q)' = ShownTo(q)
  PROVE  UNCHANGED Ledger!vars
BY DEF Ledger!vars

\* A request that joins, is refused or gives up its own wait.
LEMMA QuietRequest ==
  ASSUME LocalInvariant, NEW r \in Requests, RequestStep(r), entry' = entry,
         \A q \in Requests : entry[key[q]] = q /\ key[q] \in Keys => published'[q] = published[q],
         \/ answer' = answer
         \/ answer[r] = Nothing /\ answer'[r].kind \notin {"success", "conflict"},
         answer' = answer /\ pc[r] # "new" => key'[r] = key[r] /\ digest'[r] = digest[r]
  PROVE  UNCHANGED Ledger!vars
<1>1. ASSUME NEW k \in Keys PROVE Bound(k)' = Bound(k) /\ Decided(k)' = Decided(k)
  <2>1. entry[k] \in Requests =>
          digest'[entry[k]] = digest[entry[k]] /\ published'[entry[k]] = published[entry[k]]
    BY EntryHolder, RequestTypes, RequestFrame DEF OthersStay
  <2> QED
    BY <2>1, BindingsStay
<1>2. ShownTo(r)' = ShownTo(r)
  <2>1. CASE answer'[r].kind \notin {"success", "conflict"} /\ answer[r] = Nothing
    BY <2>1 DEF ShownTo, Nothing
  <2>2. CASE answer' = answer
    <3>1. pc[r] = "new" => answer[r] = Nothing
      BY RequestTypes DEF HandlerInOrder
    <3> QED
      BY <2>2, <3>1 DEF ShownTo, Nothing
  <2> QED
    BY <2>1, <2>2
<1> QED
  BY <1>1, <1>2, OthersShown, RegistryStutters

\* Every step of a lifetime is a step of the ledger or none.
LEMMA RegistryStep ==
  ASSUME LocalInvariant, RegistryKept, MaxEnds = 0, ends = 0, [Next]_vars
  PROVE  [Ledger!Next]_Ledger!vars
<1>1. ASSUME NEW r \in Requests, RequestStep(r)
      PROVE  Ledger!Next \/ UNCHANGED Ledger!vars
  <2>1. CASE Enters(r)
    <3>1. PICK k \in Keys, d \in Digests :
            \/ RejectConflict(r, k, d) \/ JoinOwner(r, k, d)
            \/ StartScoring(r, k, d) \/ RefuseCapacity(r, k, d)
      BY <2>1 DEF Enters
    <3>2. pc[r] = "new" /\ answer[r] = Nothing
      BY <3>1, RequestTypes DEF RejectConflict, JoinOwner, StartScoring, RefuseCapacity, Enter,
         HandlerInOrder
    <3>3. CASE JoinOwner(r, k, d)
      <4>1. entry' = entry /\ published' = published /\ answer' = answer
        BY <3>3 DEF JoinOwner, registryVars
      <4> QED
        BY <1>1, <3>2, <4>1, QuietRequest
    <3>4. CASE RefuseCapacity(r, k, d)
      <4>1. /\ entry' = entry /\ published' = [published EXCEPT ![r] = Refused("capacity")]
            /\ answer' = [answer EXCEPT ![r] = Refused("capacity")]
        BY <3>4 DEF RefuseCapacity, Answer
      <4>2. answer'[r].kind \notin {"success", "conflict"} /\ answer' # answer
        BY <3>2, <4>1, RequestTypes DEF Refused, Nothing
      <4>3. \A q \in Requests : entry[key[q]] = q /\ key[q] \in Keys => published'[q] = published[q]
        BY <3>2, <4>1, EntryHolder, RequestTypes
      <4> QED
        BY <1>1, <3>2, <4>1, <4>2, <4>3, QuietRequest
    <3> QED
      BY <1>1, <3>1, <3>3, <3>4, ConflictShown, StartBinds
  <2>2. CASE WorkerFinishes(r) \/ BeginAudit(r)
    <3>1. entry' = entry /\ published' = published /\ answer' = answer /\ key' = key /\ digest' = digest
      BY <2>2 DEF WorkerFinishes, BeginAudit, registryVars, inputVars
    <3> QED
      BY <1>1, <3>1, QuietRequest
  <2>3. CASE ScoringRaises(r) \/ AbandonWorker(r) \/ AuditRefused(r) \/ AuditFails(r)
    <3>1. PICK why \in {"scoring_error", "timeout", "cancelled", "audit_unavailable"} : Fail(r, why)
      BY <2>3 DEF ScoringRaises, AbandonWorker, AuditRefused, AuditFails
    <3>2. pc[r] \in {"scoring", "auditing"} /\ why \in Kinds \ {"none", "success", "conflict"}
      BY <2>3 DEF ScoringRaises, AbandonWorker, AuditRefused, AuditFails, Kinds
    <3> QED
      BY <1>1, <3>1, <3>2, FailureReleases
  <2>4. CASE Publish(r)
    BY <1>1, <2>4, PublicationDecides
  <2>5. CASE Replay(r)
    <3>1. \A k \in Keys : Bound(k)' = Bound(k) /\ Decided(k)' = Decided(k)
      BY <2>5 DEF Replay, registryVars, inputVars, Bound, Decided
    <3> QED
      BY <1>1, <2>5, <3>1, ReplayShows, RegistryStutters
  <2>6. CASE CancelWaiter(r)
    <3>1. /\ entry' = entry /\ published' = published /\ answer[r] = Nothing /\ key' = key
          /\ digest' = digest /\ answer'[r] = Refused("cancelled")
      BY <2>6, RequestTypes DEF CancelWaiter, Answer, HandlerInOrder, registryVars, inputVars
    <3>2. answer'[r].kind \notin {"success", "conflict"}
      BY <3>1 DEF Refused
    <3> QED
      BY <1>1, <3>1, <3>2, QuietRequest
  <2> QED
    BY <1>1, <2>1, <2>2, <2>3, <2>4, <2>5, <2>6 DEF RequestStep
<1>2. CASE AuditProceeds \/ Start \/ StartRefused \/ Quiet \/ UNCHANGED vars
  <2>1. UNCHANGED <<entry, published, key, digest, answer>>
    BY <1>2 DEF AuditProceeds, Start, StartRefused, Quiet, vars, servingVars, registryVars, inputVars
  <2>2. \A k \in Keys : Bound(k)' = Bound(k) /\ Decided(k)' = Decided(k)
    BY <2>1 DEF Bound, Decided
  <2>3. \A q \in Requests : ShownTo(q)' = ShownTo(q)
    BY <2>1 DEF ShownTo
  <2> QED
    BY <2>2, <2>3, RegistryStutters
<1>3. ~EndProcess
  BY DEF EndProcess
<1> QED
  BY <1>1, <1>2, <1>3 DEF Next

\* For as long as the process lives the registry and the audited publication
\* implement the ledger: a key is bound to one input at a time, decided once,
\* and every caller who is shown a decision under it is shown that one.
THEOREM RegistryImplementsLedger ==
  ASSUME MaxEnds = 0
  PROVE  Spec => ImplementsLedger
<1>1. Init => RegistryKept /\ ends = 0
  BY DEF Init, RegistryKept, Nothing
<1>2. LocalInvariant /\ RegistryKept /\ ends = 0 /\ [Next]_vars => RegistryKept' /\ (ends = 0)'
  <2> SUFFICES ASSUME LocalInvariant, RegistryKept, ends = 0, [Next]_vars
               PROVE  RegistryKept' /\ ends' = 0
    OBVIOUS
  <2>1. ~EndProcess
    BY DEF EndProcess
  <2>2. ends' = ends
    BY <2>1, RequestFrame DEF Next, AuditProceeds, Start, StartRefused, Quiet, vars, servingVars,
       processVars
  <2> QED
    BY <2>2, RegistryKeeps
<1>3. Init => Ledger!Init
  <2> SUFFICES ASSUME Init PROVE Ledger!Init
    OBVIOUS
  <2>1. \A k \in Keys : Bound(k) = None /\ Decided(k) = None
    BY DEF Init, Bound, Decided
  <2>2. \A q \in Requests : ShownTo(q) = Ledger!NotShown
    BY DEF Init, Nothing, ShownTo, Ledger!NotShown
  <2> QED
    BY <2>1, <2>2 DEF Ledger!Init
<1>4. LocalInvariant /\ RegistryKept /\ ends = 0 /\ [Next]_vars => [Ledger!Next]_Ledger!vars
  BY RegistryStep
<1> QED
  BY <1>1, <1>2, <1>3, <1>4, LocalInvariantHolds, PTL DEF Spec, ImplementsLedger, Ledger!Spec

=============================================================================

---------------------------- MODULE ScaleHarness ----------------------------
(***************************************************************************)
(* One run of the local scale harness of the postgres-scale profile        *)
(* (scripts/run_p1_scale_benchmark.py, with the schedules and verdicts of  *)
(* src/operations/p1_scale_benchmark.py): it owns a container and a        *)
(* volume, drives one API cluster per repeat with a bounded number of      *)
(* requests outstanding, judges every repeat from the answers and from the *)
(* audit chain, and rewrites its evidence files after each one.            *)
(*                                                                         *)
(* Docker, the served API and the measurements are outside.  Docker may    *)
(* fail or hang at every command.  The API may misbehave: refuse, answer   *)
(* too late, score an identifier again, or answer with what belongs to     *)
(* another one.  It does not invent receipts: an answer that claims to be  *)
(* the original carries the receipt of an event appended for it.  A killed *)
(* harness stops where it stands, so that what holds at every state also   *)
(* holds of the files it leaves.                                           *)
(***************************************************************************)
EXTENDS Integers, Sequences, FiniteSets, FiniteSetsExt, SequencesExt, TLC

CONSTANTS
  WorkerCounts, ConcurrencyLevels, RepeatNumbers,  \* sequences: the full matrix
  SmokeCell,       \* the only cell of smoke mode
  Mix,             \* phase -> how many requests of each kind it has
  GrowthRequests,  \* requests of the audit-growth procedure
  Checkpoints,     \* after which of them the chain is verified
  Misbehaviours    \* bound: misbehaviours of the API in one run

ASSUME HarnessAssumption ==
  /\ GrowthRequests \in Checkpoints
  /\ Len(WorkerCounts) \in Nat /\ Len(ConcurrencyLevels) \in Nat /\ Len(RepeatNumbers) \in Nat
  /\ GrowthRequests \in Nat
  /\ \A phase \in {"warmup", "measured"} :
       /\ {Mix[phase].valid, Mix[phase].sources, Mix[phase].each, Mix[phase].malformed}
            \subseteq Nat
       /\ Mix[phase].sources <= Mix[phase].valid

VARIABLES
  mode,    \* of run_harness
  step,    \* where it stands
  trial,   \* the repeat under way
  client,  \* the workload under way
  server,  \* the API cluster, and events per identifier in its audit chain
  docker,  \* container and volume, and which of them the harness knows it made
  files    \* the evidence files

harnessVars == <<mode, step, trial, client, server, docker, files>>

Gates == {"opt_in", "protocol", "parent", "confirmed", "clean"}

Dimensions ==
  LET w == Len(WorkerCounts)  c == Len(ConcurrencyLevels)  r == Len(RepeatNumbers) IN
  IF mode = "smoke" THEN <<SmokeCell>>
  ELSE [i \in 1..(w * c * r) |->
          <<WorkerCounts[(i - 1) \div (c * r) + 1], ConcurrencyLevels[(((i - 1) \div r) % c) + 1],
            RepeatNumbers[((i - 1) % r) + 1]>>]

Growing == mode = "full" /\ trial.cell = Len(Dimensions) + 1

-----------------------------------------------------------------------------
(* Workloads.  The shuffle is any order: it is the order of submission. *)

Request(kind, phase, n, copy) ==
  [kind |-> kind, copy |-> copy,
   id |-> <<phase, IF kind = "malformed" THEN "invalid" ELSE "valid", n>>]

BuildWorkload(phase) ==
  IF phase = "growth" THEN {Request("valid", phase, n, 0) : n \in 1..GrowthRequests}
  ELSE {Request("valid", phase, n, 0) : n \in 1..Mix[phase].valid}
       \cup {Request("replay", phase, n, c) : n \in 1..Mix[phase].sources, c \in 1..Mix[phase].each}
       \cup {Request("malformed", phase, n, 0) : n \in 1..Mix[phase].malformed}

Phases == {"warmup", "measured", "growth"}

AllRequests == UNION {BuildWorkload(phase) : phase \in Phases}

Ids == {r.id : r \in AllRequests}

NoEvents == [id \in Ids |-> 0]

Total(events) == MapThenSumSet(LAMBDA id : events[id], Ids)

Idle == [unsent |-> {}, pending |-> {}, replies |-> <<>>]

Concurrency == IF Growing THEN 1 ELSE Dimensions[trial.cell][2]

\* Up to k requests are submitted; those of the growth procedure in order.
Refill(c, k) ==
  LET next == {S \in SUBSET c.unsent :
                 /\ Cardinality(S) = Min({k, Cardinality(c.unsent)})
                 /\ Growing => \A r \in S, q \in c.unsent \ S : r.id[3] < q.id[3]}
  IN  {[c EXCEPT !.unsent = @ \ S, !.pending = @ \cup S] : S \in next}

\* The first submissions of _run_bounded_requests.
StartWorkload(phase) ==
  client' \in Refill([Idle EXCEPT !.unsent = BuildWorkload(phase)], Concurrency)

Raise(kind) == trial' = [trial EXCEPT !.error = kind] /\ step' = "unwind"

-----------------------------------------------------------------------------
(* The API cluster *)

InFlight(r) == server.up /\ r \in client.pending /\ r \notin DOMAIN client.replies

Reply(status, shaped, replay, receipt, body) ==
  [status |-> status, shaped |-> shaped, replay |-> replay, receipt |-> receipt, body |-> body]

NoReceipt == <<>>

WithReply(replies, r, reply) ==
  [q \in DOMAIN replies \cup {r} |-> IF q = r THEN reply ELSE replies[q]]

Answers(r, reply) ==
  /\ client' = [client EXCEPT !.replies = WithReply(@, r, reply)]
  /\ UNCHANGED <<mode, step, trial, docker, files>>

Appends(id) == server' = [server EXCEPT !.events[id] = @ + 1]

Original(r) == Reply("ok", TRUE, FALSE, <<r.id, server.events[r.id] + 1>>, "same")
Replayed(r) == Reply("ok", TRUE, TRUE, <<r.id, 1>>, "same")

Serve(r) ==
  /\ InFlight(r)
  /\ \/ /\ r.kind # "malformed" /\ server.events[r.id] = 0
        /\ Appends(r.id) /\ Answers(r, Original(r))
     \/ /\ r.kind # "malformed" /\ server.events[r.id] > 0
        /\ UNCHANGED server /\ Answers(r, Replayed(r))
     \/ /\ r.kind = "malformed"
        /\ UNCHANGED server /\ Answers(r, Reply("invalid", TRUE, FALSE, NoReceipt, "same"))

\* What it answers when it goes wrong, with an event for the identifier or not.
Misanswers(r, appends) ==
  {Reply("refused", FALSE, FALSE, NoReceipt, "same"),
   Reply("timeout", FALSE, FALSE, NoReceipt, "same"),
   Reply("invalid", FALSE, FALSE, NoReceipt, "same"),
   Reply("ok", FALSE, FALSE, NoReceipt, "same")}
  \cup {Reply("ok", TRUE, TRUE, <<id, 1>>, body) :
          id \in {i \in Ids : server.events[i] > 0}, body \in {"same", "other"}}
  \cup (IF appends THEN {Original(r)} ELSE {})

Misbehave(r) ==
  /\ InFlight(r)
  /\ server.slips < Misbehaviours
  /\ \E appends \in BOOLEAN : \E reply \in Misanswers(r, appends) :
       /\ server' = [server EXCEPT !.slips = @ + 1,
                                   !.events[r.id] = IF appends THEN @ + 1 ELSE @]
       /\ Answers(r, reply)

-----------------------------------------------------------------------------
(* The client *)

ContractValid(r, reply) ==
  reply.shaped /\ reply.status = (IF r.kind = "malformed" THEN "invalid" ELSE "ok")

\* One future is collected and one request submitted in its place.
Collect(r) ==
  /\ step \in {"warmup", "measured"}
  /\ r \in client.pending /\ r \in DOMAIN client.replies
  /\ client' \in Refill([client EXCEPT !.pending = @ \ {r}], 1)
  /\ UNCHANGED <<mode, step, trial, server, docker, files>>

\* validate_response_groups: the evidence of every identifier is consistent,
\* and no two identifiers share a receipt.
ResponseGroupsHold ==
  LET successes == {r \in DOMAIN client.replies : client.replies[r].status = "ok"}
      group(id) == {r \in successes : r.id = id}
      evidence(r) == <<client.replies[r].receipt, client.replies[r].body>>
  IN  /\ \A id \in {r.id : r \in successes} :
           /\ Cardinality({r \in group(id) : ~client.replies[r].replay}) = 1
           /\ Cardinality({evidence(r) : r \in group(id)}) = 1
      /\ \A r, q \in successes : r.id # q.id => evidence(r)[1] # evidence(q)[1]

\* summarize_outcomes: as many outcomes as attempts, and each of them expected.
SummaryHolds(phase) ==
  /\ DOMAIN client.replies = BuildWorkload(phase)
  /\ \A r \in DOMAIN client.replies : ContractValid(r, client.replies[r])

WorkloadEnds ==
  /\ step \in {"warmup", "measured"}
  /\ client.unsent = {} /\ client.pending = {}
  /\ IF SummaryHolds(step) /\ ResponseGroupsHold
     THEN step' = (IF step = "warmup" THEN "between" ELSE "after") /\ UNCHANGED trial
     ELSE Raise("validation")
  /\ UNCHANGED <<mode, client, server, docker, files>>

\* _audit_state: the number of events, if the whole chain verifies.
AuditState ==
  /\ step \in {"before", "between", "after"}
  /\ \/ /\ trial' = [trial EXCEPT !.counts[step] = Total(server.events)]
        /\ CASE step = "before"  -> step' = "warmup" /\ StartWorkload("warmup")
             [] step = "between" -> step' = "measured" /\ StartWorkload("measured")
             [] step = "after"   -> step' = "unwind" /\ UNCHANGED client
     \/ Raise("other") /\ UNCHANGED client
  /\ UNCHANGED <<mode, server, docker, files>>

\* The audit-growth procedure: each request must be an original.
GrowthAnswered(r) ==
  /\ step = "growth"
  /\ r \in client.pending /\ r \in DOMAIN client.replies
  /\ LET reply == client.replies[r]
         n     == Cardinality(DOMAIN client.replies)
     IN  IF /\ ContractValid(r, reply) /\ ~reply.replay
            /\ n \in Checkpoints => Total(server.events) = n
         THEN /\ client' \in Refill([client EXCEPT !.pending = @ \ {r}], 1)
              /\ step' = (IF n = GrowthRequests THEN "unwind" ELSE "growth")
              /\ UNCHANGED trial
         ELSE Raise("other") /\ UNCHANGED client
  /\ UNCHANGED <<mode, server, docker, files>>

-----------------------------------------------------------------------------
(* The gates before anything is made, and docker *)

HarnessInit ==
  /\ mode \in {"smoke", "full"}
  /\ step = "start"
  /\ trial = [cell |-> 1, error |-> "none", status |-> "started",
              counts |-> [before |-> 0, between |-> 0, after |-> 0]]
  /\ client = Idle
  /\ server = [up |-> FALSE, events |-> NoEvents, slips |-> 0]
  /\ \E container, volume \in {"none", "foreign"} :
       docker = [container |-> container, volume |-> volume, knowsContainer |-> FALSE,
                 knowsVolume |-> FALSE, disobeyed |-> FALSE]
  /\ files = [status |-> "absent", json |-> <<>>, csv |-> <<>>, result |-> <<>>,
              resultCsv |-> <<>>, partial |-> FALSE]

\* Opt-in, protocol and parent hashes, confirmation and clean tree of full mode;
\* then the synthetic bundle.
RunHarness ==
  /\ step = "start"
  /\ \E passed \in SUBSET Gates :
       step' = IF {"opt_in", "protocol", "parent"} \subseteq passed
                  /\ (mode = "full" => {"confirmed", "clean"} \subseteq passed)
               THEN "provision" ELSE "over"
  /\ UNCHANGED <<mode, trial, client, server, docker, files>>

\* The port, docker, the digest of the image, and both names.
RequireNothingThere ==
  /\ step = "provision"
  /\ \E usable \in BOOLEAN :
       step' = IF usable /\ docker.container = "none" /\ docker.volume = "none"
               THEN "volume" ELSE "over"
  /\ UNCHANGED <<mode, trial, client, server, docker, files>>

\* Nothing cleans up when it fails: a command that hung may have made the volume.
CreateVolume ==
  /\ step = "volume"
  /\ \/ /\ step' = "run"
        /\ docker' = [docker EXCEPT !.volume = IF @ = "none" THEN "own" ELSE @,
                                    !.knowsVolume = TRUE]
     \/ step' = "over" /\ UNCHANGED docker
     \/ /\ step' = "over"
        /\ docker' = [docker EXCEPT !.volume = "own", !.disobeyed = TRUE]
  /\ UNCHANGED <<mode, trial, client, server, files>>

\* Faulty: a container that docker could not start is forgotten.
RunContainerOrForget ==
  /\ step = "run"
  /\ \/ /\ step' = "ready"
        /\ docker' = [docker EXCEPT !.container = "own", !.knowsContainer = TRUE]
     \/ /\ step' = "remove_container"
        /\ \E left \in {"none", "own"} : docker' = [docker EXCEPT !.container = left]
  /\ UNCHANGED <<mode, trial, client, server, files>>

\* docker run creates the container before it starts it: when it fails, the
\* label tells whether there is one.  When it hangs nothing is asked.
RunContainer ==
  /\ step = "run"
  /\ \/ /\ step' = "ready"
        /\ docker' = [docker EXCEPT !.container = "own", !.knowsContainer = TRUE]
     \/ /\ step' = "remove_container"
        /\ \E left \in {"none", "own"} :
             docker' = [docker EXCEPT !.container = left, !.knowsContainer = left = "own"]
     \/ /\ step' = "remove_container"
        /\ docker' = [docker EXCEPT !.container = "own", !.disobeyed = TRUE]
  /\ UNCHANGED <<mode, trial, client, server, files>>

\* Readiness, version, application role; the machine record of the evidence.
DatabaseReady ==
  /\ step = "ready"
  /\ step' \in {"json", "remove_container"}
  /\ UNCHANGED <<mode, trial, client, server, docker, files>>

\* cleanup ignores what docker says, and ends when docker hangs.
RemoveContainer ==
  /\ step = "remove_container"
  /\ IF ~docker.knowsContainer THEN step' = "remove_volume" /\ UNCHANGED docker
     ELSE \/ /\ step' = "remove_volume"
             /\ docker' = [docker EXCEPT !.container = "none", !.knowsContainer = FALSE]
          \/ /\ step' \in {"remove_volume", "over"}
             /\ docker' = [docker EXCEPT !.knowsContainer = step' = "over", !.disobeyed = TRUE]
  /\ UNCHANGED <<mode, trial, client, server, files>>

\* Docker keeps a volume that a container uses.  Whoever cleans up made one.
RemoveVolume ==
  /\ step = "remove_volume" /\ docker.knowsVolume
  /\ step' = "over"
  /\ docker' \in {[docker EXCEPT !.volume = IF docker.container = "none" THEN "none" ELSE @,
                                !.knowsVolume = FALSE],
                 [docker EXCEPT !.knowsVolume = FALSE, !.disobeyed = TRUE]}
  /\ UNCHANGED <<mode, trial, client, server, files>>

-----------------------------------------------------------------------------
(* One repeat *)

\* A schema of its own, outside the try of _run_repeat.
Migrate ==
  /\ step = "migrate"
  /\ \/ step' = "api" /\ server' = [server EXCEPT !.events = NoEvents]
     \/ step' = "remove_container" /\ UNCHANGED server
  /\ UNCHANGED <<mode, trial, client, docker, files>>

\* A cluster that is not ready in time, or has not its workers, is stopped.
StartCluster ==
  /\ step = "api"
  /\ \/ /\ server' = [server EXCEPT !.up = TRUE]
        /\ IF Growing THEN step' = "growth" /\ StartWorkload("growth")
                      ELSE step' = "before" /\ UNCHANGED client
        /\ UNCHANGED trial
     \/ Raise("other") /\ UNCHANGED <<server, client>>
  /\ UNCHANGED <<mode, docker, files>>

\* The sampler stops, and raises without samples whatever is being raised; the
\* cluster stops.
StopCluster ==
  /\ step = "unwind"
  /\ step' = "gates"
  /\ server' = [server EXCEPT !.up = FALSE]
  /\ \/ UNCHANGED trial
     \/ ~Growing /\ server.up /\ trial' = [trial EXCEPT !.error = "other"]
  /\ UNCHANGED <<mode, client, docker, files>>

\* Faulty: only the warm-up is reconciled.
WarmupReconciles == trial.counts.between - trial.counts.before = Mix["warmup"].valid

AuditReconciles ==
  /\ trial.counts.between - trial.counts.before = Mix["warmup"].valid
  /\ trial.counts.after - trial.counts.between = Mix["measured"].valid

\* Audit growth; the model metadata and the measured gates may reject as well.
CheckGates ==
  /\ step = "gates"
  /\ step' = "drop"
  /\ IF trial.error # "none" \/ Growing THEN UNCHANGED trial
     ELSE \/ AuditReconciles /\ UNCHANGED trial
          \/ trial' = [trial EXCEPT !.error = "validation"]
  /\ UNCHANGED <<mode, client, server, docker, files>>

\* In a finally: an error of its own replaces the one under way.
DropSchema ==
  /\ step = "drop"
  /\ \E error \in {trial.error, "other"} :
       LET goes == error = "none" /\ Growing IN
       /\ trial' = [trial EXCEPT !.error = error, !.cell = IF goes THEN @ + 1 ELSE @,
                                 !.status = IF error = "none" THEN "in_progress" ELSE "failed"]
       /\ step' = CASE error = "other"      -> "remove_container"
                    [] error = "validation" -> "json"
                    [] error = "none"       -> IF goes THEN "report" ELSE "json"
  /\ client' = Idle
  /\ UNCHANGED <<mode, server, docker, files>>

-----------------------------------------------------------------------------
(* The evidence files: each is replaced in one step *)

\* Faulty: a failure starts the record again.
RunsUnlessFailed ==
  IF trial.status = "in_progress" THEN SubSeq(Dimensions, 1, trial.cell)
  ELSE IF trial.status = "failed" THEN <<>>
  ELSE SubSeq(Dimensions, 1, Min({trial.cell - 1, Len(Dimensions)}))

\* The runs that the next flush writes.
RunsInHand ==
  IF trial.status = "in_progress" THEN SubSeq(Dimensions, 1, trial.cell)
  ELSE SubSeq(Dimensions, 1, Min({trial.cell - 1, Len(Dimensions)}))

WriteFails == step' = "remove_container" /\ UNCHANGED <<trial, files>>

FlushJson ==
  /\ step = "json"
  /\ \/ /\ files' = [files EXCEPT !.status = trial.status, !.json = RunsInHand]
        /\ step' = "csv" /\ UNCHANGED trial
     \/ WriteFails
  /\ UNCHANGED <<mode, client, server, docker>>

\* After the repeat: the next one, the growth procedure, or the report.
FlushCsv ==
  /\ step = "csv"
  /\ \/ /\ files' = [files EXCEPT !.csv = RunsInHand]
        /\ CASE trial.status = "started"     -> step' = "migrate" /\ UNCHANGED trial
             [] trial.status = "in_progress" ->
                  /\ trial' = [trial EXCEPT !.cell = @ + 1]
                  /\ step' = IF mode = "smoke" /\ trial.cell = Len(Dimensions)
                             THEN "report" ELSE "migrate"
             [] trial.status = "failed"      -> step' = "partial" /\ UNCHANGED trial
             [] trial.status = "completed"   -> step' = "result" /\ UNCHANGED trial
     \/ WriteFails
  /\ UNCHANGED <<mode, client, server, docker>>

WritePartial ==
  /\ step = "partial"
  /\ step' = "remove_container"
  /\ files' \in {[files EXCEPT !.partial = TRUE], files}
  /\ UNCHANGED <<mode, trial, client, server, docker>>

\* The report asks the database again, and full mode needs every repeat.
Summarise ==
  /\ step = "report"
  /\ \/ step' = "json" /\ trial' = [trial EXCEPT !.status = "completed"]
     \/ step' = "remove_container" /\ UNCHANGED trial
  /\ UNCHANGED <<mode, client, server, docker, files>>

WriteResult ==
  /\ step \in {"result", "result_csv"}
  /\ \/ /\ step = "result" /\ step' = "result_csv"
        /\ files' = [files EXCEPT !.result = RunsInHand] /\ UNCHANGED trial
     \/ /\ step = "result_csv" /\ step' = "remove_container"
        /\ files' = [files EXCEPT !.resultCsv = RunsInHand] /\ UNCHANGED trial
     \/ WriteFails
  /\ UNCHANGED <<mode, client, server, docker>>

HarnessNext ==
  \/ \E r \in client.pending : Serve(r) \/ Misbehave(r) \/ Collect(r) \/ GrowthAnswered(r)
  \/ WorkloadEnds \/ AuditState
  \/ RunHarness \/ RequireNothingThere \/ CreateVolume \/ RunContainer \/ DatabaseReady
  \/ RemoveContainer \/ RemoveVolume
  \/ Migrate \/ StartCluster \/ StopCluster \/ CheckGates \/ DropSchema
  \/ FlushJson \/ FlushCsv \/ WritePartial \/ Summarise \/ WriteResult

HarnessSpec == HarnessInit /\ [][HarnessNext]_harnessVars

HarnessOver == step = "over"

-----------------------------------------------------------------------------
(* Correctness *)

ScoredExactlyOnce(ids) == \A id \in ids : server.events[id] = 1

\* A repeat is accepted, and the growth procedure passed, only if the API kept
\* its promise although the harness sees answers and a count: every identifier
\* sent has one event, no other request has any, and every answer measured
\* carries the receipt of its identifier's event.
AcceptedMeansExactlyOnce ==
  step = "drop" /\ trial.error = "none" =>
    LET sent == UNION {BuildWorkload(phase) :
                         phase \in IF Growing THEN {"growth"} ELSE {"warmup", "measured"}}
    IN  /\ ScoredExactlyOnce({r.id : r \in {q \in sent : q.kind # "malformed"}})
        /\ \A r \in sent : r.kind = "malformed" => server.events[r.id] = 0
        /\ \A r \in DOMAIN client.replies :
             r.kind # "malformed" =>
               client.replies[r] = [client.replies[r] EXCEPT !.status = "ok", !.receipt = <<r.id, 1>>]

\* Whatever fails and wherever the harness is killed, no finished repeat is lost
\* again or reordered, the table is at most one repeat behind, a result is
\* written only for the whole matrix, once the progress file calls it complete,
\* and never beside a partial diagnostic.
EvidenceIsKept ==
  [][/\ IsPrefix(files.json, files'.json) /\ IsPrefix(files.csv, files'.csv)
     /\ IsPrefix(files'.csv, files'.json) /\ Len(files'.json) - Len(files'.csv) <= 1
     /\ IsPrefix(files'.json, Dimensions)
     /\ files'.result # <<>> => /\ files'.result = Dimensions
                               /\ files'.json = Dimensions /\ files'.csv = Dimensions
                               /\ files'.status = "completed"
                               /\ ~files'.partial
     /\ files.status \in {"failed", "completed"} => UNCHANGED <<files.status, files.json>>
    ]_harnessVars

\* The harness never goes on with a container or a volume it did not make, and
\* when it is over nothing it made is left, unless docker hung or refused.
OwnedIsReleased ==
  /\ docker.container = "foreign" => ~docker.knowsContainer
  /\ docker.volume = "foreign" => ~docker.knowsVolume
  /\ HarnessOver =>
       /\ ~server.up
       /\ docker.container = "own" \/ docker.volume = "own" => docker.disobeyed

(* Why it and EvidenceIsKept hold: what is true between any two steps.  The *)
(* conjunction is inductive (EvidenceProofs).                               *)

\* The steps of a repeat or of the growth procedure; the cluster may be up in the
\* second group.
Serving  == {"before", "warmup", "between", "measured", "after", "growth", "unwind"}
InRepeat == {"migrate", "api", "gates", "drop"} \cup Serving
Preparing == {"start", "provision", "volume", "run", "ready"}
Filing   == {"json", "csv", "partial", "report", "result", "result_csv"}
Stopped  == {"remove_container", "remove_volume", "over"}

HarnessShape ==
  /\ mode \in {"smoke", "full"}
  /\ step \in Preparing \cup InRepeat \cup Filing \cup Stopped
  /\ trial = [cell |-> trial.cell, error |-> trial.error, status |-> trial.status,
              counts |-> trial.counts]
  /\ trial.cell \in Nat \ {0}
  /\ trial.error \in {"none", "validation", "other"}
  /\ trial.status \in {"started", "in_progress", "failed", "completed"}
  /\ server = [up |-> server.up, events |-> server.events, slips |-> server.slips]
  /\ docker = [container |-> docker.container, volume |-> docker.volume,
               knowsContainer |-> docker.knowsContainer, knowsVolume |-> docker.knowsVolume,
               disobeyed |-> docker.disobeyed]
  /\ files = [status |-> files.status, json |-> files.json, csv |-> files.csv,
              result |-> files.result, resultCsv |-> files.resultCsv, partial |-> files.partial]

\* The harness knows what it made, or docker did not do as it was told.
KnowsWhatItMade ==
  /\ server.up => step \in Serving
  /\ docker.container \in {"none", "own", "foreign"} /\ docker.volume \in {"none", "own", "foreign"}
  /\ docker.container = "foreign" => ~docker.knowsContainer
  /\ docker.volume = "foreign" => ~docker.knowsVolume
  /\ step \in {"start", "provision"} => "own" \notin {docker.container, docker.volume}
  /\ step = "volume" => docker.container = "none" /\ docker.volume = "none"
  /\ step = "run" => docker.container = "none" /\ docker.volume = "own"
  /\ step \in {"ready", "remove_container", "remove_volume"} \cup InRepeat \cup Filing =>
       /\ docker.volume = "own" /\ docker.container # "foreign"
       /\ docker.container = "own" /\ ~docker.disobeyed =>
            docker.knowsContainer /\ step # "remove_volume"
  /\ step = "over" /\ ~docker.disobeyed => "own" \notin {docker.container, docker.volume}

\* How many repeats are over: the growth procedure is not one of them.
RepeatsOver == Min({trial.cell - 1, Len(Dimensions)})

MatrixOver == trial.cell > Len(Dimensions)

FirstRepeats(n) == SubSeq(Dimensions, 1, n)

TrialInOrder ==
  /\ step \in Preparing => trial.status = "started"
  /\ trial.status = "started" => trial.cell = 1
  /\ step \in InRepeat =>
       /\ trial.status \in {"started", "in_progress"}
       /\ trial.cell <= Len(Dimensions) + (IF mode = "full" THEN 1 ELSE 0)
  /\ step \in {"json", "csv"} /\ trial.status = "in_progress" => ~MatrixOver
  /\ step = "report" \/ trial.status = "completed" => MatrixOver
  /\ step = "partial" => trial.status = "failed"

\* Both files have the first repeats of the matrix, the table at most one fewer.
FilesInStep ==
  \E n, k \in 0..Len(Dimensions) :
    n \in {k, k + 1} /\ files.json = FirstRepeats(n) /\ files.csv = FirstRepeats(k)

\* How many repeats they have follows from where the harness stands.
FilesFollowTrial ==
  /\ step \in Preparing \cup InRepeat \cup {"json", "report"} =>
       /\ files.json = FirstRepeats(RepeatsOver) /\ files.csv = FirstRepeats(RepeatsOver)
       /\ files.status \notin {"failed", "completed"}
  /\ step = "csv" =>
       /\ files.json = RunsInHand /\ files.csv = FirstRepeats(RepeatsOver)
       /\ files.status = trial.status

\* A result is whole, and comes after the progress file and the table.
ResultComesLast ==
  /\ step \in {"result", "result_csv"} \/ files.result # <<>> =>
       /\ trial.status = "completed" /\ files.status = "completed"
       /\ files.json = Dimensions /\ files.csv = Dimensions
  /\ files.result \in {<<>>, Dimensions}
  /\ files.partial => trial.status = "failed" /\ step \in Stopped

FilesInOrder == TrialInOrder /\ FilesInStep /\ FilesFollowTrial /\ ResultComesLast

HarnessInvariant ==
  /\ HarnessShape
  /\ KnowsWhatItMade
  /\ FilesInOrder

(* Why AcceptedMeansExactlyOnce holds.  With KnowsWhatItMade inductive       *)
(* (EvidenceProofs): what the answers and the counts say while nothing has  *)
(* gone wrong.                                                              *)

\* There is a workload from its first submission until the schema is dropped.
WithClient == {"warmup", "between", "measured", "after", "growth", "unwind", "gates", "drop"}

ClientInOrder ==
  /\ client = [unsent |-> client.unsent, pending |-> client.pending, replies |-> client.replies]
  /\ client.unsent \cup client.pending \cup DOMAIN client.replies \subseteq AllRequests
  /\ client.unsent \cap (client.pending \cup DOMAIN client.replies) = {}
  /\ \A r \in DOMAIN client.replies :
       LET reply == client.replies[r] IN
       reply = Reply(reply.status, reply.shaped, reply.replay, reply.receipt, reply.body)
  /\ step \notin WithClient => client = Idle
  /\ server.events \in [Ids -> Nat]
  /\ trial.counts \in [{"before", "between", "after"} -> Nat]

\* An answer that claims to be the original has the receipt of an event.
OriginalsHaveEvents ==
  \A r \in DOMAIN client.replies :
    LET reply == client.replies[r] IN
    reply.status = "ok" /\ reply.shaped /\ ~reply.replay =>
      \E k \in 1..server.events[r.id] : reply.receipt = <<r.id, k>>

Scored(phase) ==
  \A r \in BuildWorkload(phase) : r.kind # "malformed" => server.events[r.id] >= 1

\* The client has no request under way, once it has judged its workload.
MeasuredInOrder ==
  /\ step \in {"before", "warmup", "between", "measured", "after"} => ~Growing
  /\ step \in {"api", "before"} => server.events = NoEvents
  /\ step \in {"between", "after", "unwind", "gates", "drop"} => client.pending = {}
  /\ ~Growing =>
       /\ step \in {"warmup", "between", "measured", "after", "unwind", "gates", "drop"} =>
            trial.counts.before = 0
       /\ step \in {"between", "measured", "after", "unwind", "gates", "drop"} => Scored("warmup")
       /\ step \in {"after", "unwind", "gates", "drop"} =>
            SummaryHolds("measured") /\ ResponseGroupsHold
       /\ step \in {"unwind", "gates", "drop"} => trial.counts.after = Total(server.events)
       /\ step = "drop" => AuditReconciles

\* One request at a time, and each that was collected was an original.
GrowthInOrder ==
  /\ step = "growth" =>
       /\ Growing
       /\ client.unsent \cup client.pending \cup DOMAIN client.replies \subseteq
            BuildWorkload("growth")
       /\ \A r, q \in client.pending : r = q
       /\ \A r \in DOMAIN client.replies \ client.pending :
            ContractValid(r, client.replies[r]) /\ ~client.replies[r].replay
  /\ step \in {"unwind", "gates", "drop"} /\ Growing =>
       /\ Total(server.events) = GrowthRequests
       /\ DOMAIN client.replies = BuildWorkload("growth")
       /\ \A r \in DOMAIN client.replies :
            ContractValid(r, client.replies[r]) /\ ~client.replies[r].replay

VerdictInvariant ==
  /\ ClientInOrder
  /\ OriginalsHaveEvents
  /\ trial.error = "none" => MeasuredInOrder /\ GrowthInOrder

=============================================================================

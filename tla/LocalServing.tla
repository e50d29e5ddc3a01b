---------------------------- MODULE LocalServing ----------------------------
(***************************************************************************)
(* The local-default profile: /v1/predict and /v1/predict/batch served by  *)
(* one process (api/main.py) with the in-memory idempotency registry, the  *)
(* admission gate, worker threads with a deadline, and the local audit log *)
(* (api/audit.py).                                                         *)
(*                                                                         *)
(* The event loop runs one step at a time from await to await.  Reserving, *)
(* admission and the start of the worker are one step, because none of the *)
(* awaits between them yields; audit append and publication are not        *)
(* interrupted by other requests either, only by an OSError or the end of  *)
(* the process.  A worker thread cannot be stopped: a request that times   *)
(* out or is cancelled leaves it running, and it keeps its slot.           *)
(***************************************************************************)
EXTENDS AuditLog, FiniteSets

CONSTANTS
  Keys,         \* digests of X-Request-ID values
  Digests,      \* canonical input digests (route and transactions)
  Decisions,    \* bounded results of scoring
  Requests,     \* HTTP requests; a client's retry is another request
  Size,         \* transactions, hence events, of an input
  Limit,        \* slots of the ConcurrencyGate
  MaxEnds,      \* bound: ends of the process in a behaviour
  None          \* no key, request or decision

ASSUME LocalAssumption ==
  /\ Size \in [Digests -> Nat \ {0}]
  /\ Limit \in Nat \ {0}
  /\ MaxEnds \in Nat
  /\ None \notin Keys \cup Digests \cup Decisions \cup Requests

VARIABLES
  process,     \* "down", "up" or "refused" (startup verification failed)
  ends,        \* ends of the process so far: tells its lifetimes apart
  entry,       \* registry: the owner of the entry under a key
  published,   \* result or error an owner has set on its entry
  inFlight,    \* the gate's counter
  key,         \* X-Request-ID of a request
  digest,      \* input of a request
  owner,       \* the request whose entry a request holds
  pc,          \* where the handler stands
  worker,      \* the worker thread a request has started
  result,      \* what that worker returned
  answer       \* what the caller was sent

registryVars == <<entry, published>>
inputVars    == <<key, digest>>
workVars     == <<worker, result, inFlight>>
processVars  == <<process, ends>>
servingVars  == <<processVars, registryVars, inputVars, owner, pc, workVars, answer>>
vars         == <<servingVars, auditVars>>

-----------------------------------------------------------------------------
Nothing == [kind |-> "none", decision |-> None, receipt |-> GenesisHash]

Refused(why) == [kind |-> why, decision |-> None, receipt |-> GenesisHash]

\* Only the single route returns a receipt, the hash of its only event.
Released(r) ==
  [kind |-> "success", decision |-> result[r],
   receipt |-> IF Size[digest[r]] = 1 THEN EventHash(writer.lines[1]) ELSE GenesisHash]

\* The loop is free unless an append holds it.
LoopFree == process = "up" /\ writer.at = "idle"

Active(r) == pc[r] \in {"waiting", "scoring", "auditing"}

Answer(r, a) ==
  /\ pc' = [pc EXCEPT ![r] = "done"]
  /\ answer' = [answer EXCEPT ![r] = a]

Enter(r, k, d) ==
  /\ LoopFree
  /\ pc[r] = "new"
  /\ key' = [key EXCEPT ![r] = k]
  /\ digest' = [digest EXCEPT ![r] = d]

\* Faulty: the entry of a failed owner stays in the registry, unpublished.
FailSilently(r, why) ==
  /\ Answer(r, Refused(why))
  /\ UNCHANGED <<published, entry>>

\* registry.fail, then the exception: the entry goes, its waiters get the error.
Fail(r, why) ==
  /\ Answer(r, Refused(why))
  /\ published' = [published EXCEPT ![r] = Refused(why)]
  /\ entry' = [entry EXCEPT ![key[r]] = IF @ = r THEN None ELSE @]

-----------------------------------------------------------------------------
Init ==
  /\ process = "up"
  /\ ends = 0
  /\ entry = [k \in Keys |-> None]
  /\ published = [r \in Requests |-> Nothing]
  /\ inFlight = 0
  /\ key = [r \in Requests |-> None]
  /\ digest = [r \in Requests |-> None]
  /\ owner = [r \in Requests |-> None]
  /\ pc = [r \in Requests |-> "new"]
  /\ worker = [r \in Requests |-> "none"]
  /\ result = [r \in Requests |-> None]
  /\ answer = [r \in Requests |-> Nothing]
  /\ AuditInit

\* reserve finds the id bound to another input.
RejectConflict(r, k, d) ==
  /\ Enter(r, k, d)
  /\ entry[k] # None
  /\ digest[entry[k]] # d
  /\ Answer(r, Refused("conflict"))
  /\ UNCHANGED <<processVars, registryVars, owner, workVars, auditVars>>

\* Faulty: the input is not compared.
JoinAnyInput(r, k, d) ==
  /\ Enter(r, k, d)
  /\ entry[k] # None
  /\ owner' = [owner EXCEPT ![r] = entry[k]]
  /\ pc' = [pc EXCEPT ![r] = "waiting"]
  /\ UNCHANGED <<processVars, registryVars, workVars, answer, auditVars>>

\* reserve finds an entry of the same input: replay waits for its owner.
JoinOwner(r, k, d) ==
  /\ Enter(r, k, d)
  /\ entry[k] # None
  /\ digest[entry[k]] = d
  /\ owner' = [owner EXCEPT ![r] = entry[k]]
  /\ pc' = [pc EXCEPT ![r] = "waiting"]
  /\ UNCHANGED <<processVars, registryVars, workVars, answer, auditVars>>

\* reserve makes the request the owner, and the gate admits its worker.
StartScoring(r, k, d) ==
  /\ Enter(r, k, d)
  /\ entry[k] = None
  /\ inFlight < Limit
  /\ entry' = [entry EXCEPT ![k] = r]
  /\ owner' = [owner EXCEPT ![r] = r]
  /\ inFlight' = inFlight + 1
  /\ worker' = [worker EXCEPT ![r] = "running"]
  /\ pc' = [pc EXCEPT ![r] = "scoring"]
  /\ UNCHANGED <<processVars, published, result, answer, auditVars>>

\* reserve makes the request the owner, the gate is full, and fail removes the
\* entry again, all in one step.
RefuseCapacity(r, k, d) ==
  /\ Enter(r, k, d)
  /\ entry[k] = None
  /\ inFlight >= Limit
  /\ owner' = [owner EXCEPT ![r] = r]
  /\ published' = [published EXCEPT ![r] = Refused("capacity")]
  /\ Answer(r, Refused("capacity"))
  /\ UNCHANGED <<processVars, entry, workVars, auditVars>>

\* The done callback of a worker: it alone gives the slot back.
WorkerFinishes(r) ==
  /\ LoopFree
  /\ worker[r] = "running"
  /\ worker' = [worker EXCEPT ![r] = "finished"]
  /\ result' \in {[result EXCEPT ![r] = v] : v \in Decisions \cup {None}}
  /\ inFlight' = IF inFlight > 0 THEN inFlight - 1 ELSE 0
  /\ UNCHANGED <<processVars, registryVars, inputVars, owner, pc, answer, auditVars>>

\* Scoring raised (score integrity, model unavailable, anything else).
ScoringRaises(r) ==
  /\ LoopFree
  /\ pc[r] = "scoring"
  /\ worker[r] = "finished"
  /\ result[r] = None
  /\ Fail(r, "scoring_error")
  /\ UNCHANGED <<processVars, inputVars, owner, workVars, auditVars>>

\* Faulty: the slot is given back when the request gives up.
AbandonAndRelease(r) ==
  /\ LoopFree
  /\ pc[r] = "scoring"
  /\ inFlight' = IF inFlight > 0 THEN inFlight - 1 ELSE 0
  /\ \E why \in {"timeout", "cancelled"} : Fail(r, why)
  /\ UNCHANGED <<processVars, inputVars, owner, worker, result, auditVars>>

\* The deadline passes or the request is cancelled, perhaps just after the
\* worker has finished; the shielded worker goes on.
AbandonWorker(r) ==
  /\ LoopFree
  /\ pc[r] = "scoring"
  /\ \E why \in {"timeout", "cancelled"} : Fail(r, why)
  /\ UNCHANGED <<processVars, inputVars, owner, workVars, auditVars>>

ScoredLines(r) ==
  LinesFor(r, key[r], digest[r], result[r], Size[digest[r]], ends)

\* The worker's result arrives and append_inference verifies the files.
BeginAudit(r) ==
  /\ LoopFree
  /\ pc[r] = "scoring"
  /\ worker[r] = "finished"
  /\ result[r] # None
  /\ BeginAppend(ScoredLines(r))
  /\ pc' = [pc EXCEPT ![r] = "auditing"]
  /\ UNCHANGED <<processVars, registryVars, inputVars, owner, workVars, answer>>

\* The files do not verify: nothing is written and nothing is released.
AuditRefused(r) ==
  /\ LoopFree
  /\ pc[r] = "scoring"
  /\ worker[r] = "finished"
  /\ result[r] # None
  /\ ~MayAppend
  /\ Fail(r, "audit_unavailable")
  /\ UNCHANGED <<processVars, inputVars, owner, workVars, auditVars>>

AuditProceeds ==
  /\ process = "up"
  /\ WriteLines \/ SyncLines \/ ReplaceAnchor
  /\ UNCHANGED servingVars

AuditFails(r) ==
  /\ process = "up"
  /\ pc[r] = "auditing"
  /\ WriteLinesFails \/ AppendFails
  /\ Fail(r, "audit_unavailable")
  /\ UNCHANGED <<processVars, inputVars, owner, workVars>>

\* append_inference returns; complete publishes with no await in between.
Publish(r) ==
  /\ process = "up"
  /\ pc[r] = "auditing"
  /\ EndAppend
  /\ published' = [published EXCEPT ![r] = Released(r)]
  /\ Answer(r, Released(r))
  /\ UNCHANGED <<processVars, entry, inputVars, owner, workVars>>

\* A waiter is woken by the entry it holds: its result or its error, even if
\* the key has another owner by now.
Replay(r) ==
  /\ LoopFree
  /\ pc[r] = "waiting"
  /\ published[owner[r]] # Nothing
  /\ Answer(r, published[owner[r]])
  /\ UNCHANGED <<processVars, registryVars, inputVars, owner, workVars, auditVars>>

CancelWaiter(r) ==
  /\ LoopFree
  /\ pc[r] = "waiting"
  /\ Answer(r, Refused("cancelled"))
  /\ UNCHANGED <<processVars, registryVars, inputVars, owner, workVars, auditVars>>

-----------------------------------------------------------------------------
\* The process ends: registry, gate, workers and requests are gone.
EndProcess ==
  /\ process = "up"
  /\ ends < MaxEnds
  /\ ends' = ends + 1
  /\ process' = "down"
  /\ entry' = [k \in Keys |-> None]
  /\ inFlight' = 0
  /\ worker' = [r \in Requests |-> IF worker[r] = "running" THEN "none" ELSE worker[r]]
  /\ pc' = [r \in Requests |-> IF Active(r) THEN "dead" ELSE pc[r]]
  /\ Killed \/ PowerLost
  /\ UNCHANGED <<published, inputVars, owner, result, answer>>

Start ==
  /\ process = "down"
  /\ process' = "up"
  /\ OpenLog
  /\ UNCHANGED <<ends, registryVars, inputVars, owner, pc, workVars, answer>>

StartRefused ==
  /\ process = "down"
  /\ ~Intact
  /\ process' = "refused"
  /\ UNCHANGED <<ends, registryVars, inputVars, owner, pc, workVars, answer, auditVars>>

\* Nothing is left to do, or the operator has to look at the log first.
Quiet ==
  /\ process = "refused" \/ \A r \in Requests : pc[r] \in {"done", "dead"}
  /\ UNCHANGED vars

Enters(r) ==
  \E k \in Keys, d \in Digests :
    \/ RejectConflict(r, k, d)
    \/ JoinOwner(r, k, d)
    \/ StartScoring(r, k, d)
    \/ RefuseCapacity(r, k, d)

RequestStep(r) ==
  \/ Enters(r)
  \/ WorkerFinishes(r)
  \/ ScoringRaises(r)
  \/ AbandonWorker(r)
  \/ BeginAudit(r)
  \/ AuditRefused(r)
  \/ AuditFails(r)
  \/ Publish(r)
  \/ Replay(r)
  \/ CancelWaiter(r)

Next ==
  \/ \E r \in Requests : RequestStep(r)
  \/ AuditProceeds
  \/ EndProcess
  \/ Start
  \/ StartRefused
  \/ Quiet

Spec == Init /\ [][Next]_vars

\* wait_for ends every owner's wait, the append is straight-line code, and the
\* loop wakes waiters of a set Event.  Workers need not finish, nobody need
\* cancel, and the process need not end.
Fairness ==
  /\ WF_vars(AuditProceeds)
  /\ \A r \in Requests :
       /\ WF_vars(AbandonWorker(r))
       /\ WF_vars(Publish(r) \/ AuditFails(r))
       /\ WF_vars(Replay(r))

FairSpec == Spec /\ Fairness

-----------------------------------------------------------------------------
(* Properties *)

Kinds == {"none", "success", "conflict", "capacity", "scoring_error", "timeout",
          "cancelled", "audit_unavailable"}

LocalTypeOK ==
  /\ process \in {"down", "up", "refused"}
  /\ ends \in Nat
  /\ entry \in [Keys -> Requests \cup {None}]
  /\ inFlight \in Nat
  /\ key \in [Requests -> Keys \cup {None}]
  /\ digest \in [Requests -> Digests \cup {None}]
  /\ owner \in [Requests -> Requests \cup {None}]
  /\ pc \in [Requests -> {"new", "waiting", "scoring", "auditing", "done", "dead"}]
  /\ worker \in [Requests -> {"none", "running", "finished"}]
  /\ result \in [Requests -> Decisions \cup {None}]
  /\ \A r \in Requests : answer[r].kind \in Kinds /\ published[r].kind \in Kinds
  /\ torn \in BOOLEAN
  /\ synced \in 0..Len(log)
  /\ writer.at \in {"idle", "open", "written", "synced", "replaced"}

\* fsync of the log comes before the anchor: no anchor, not even one a loss of
\* power brings back, counts an event that could still be lost.
AnchorNeverAhead ==
  \A a \in {anchor, anchorOnDisk} :
    /\ a.count <= synced
    /\ a = HeadOf(SubSeq(log, 1, a.count))

\* "No inference result was released": a caller who was sent a decision, first
\* hand or replayed, can point to the complete evidence of its own id and
\* input, on disk, whatever has happened to the process or the power since;
\* and no anchor will ever ask for more than is on disk.
ReleasedIsAudited ==
  /\ AnchorNeverAhead
  /\ \A r \in Requests :
       answer[r].kind = "success" =>
         \E first \in 1..synced :
           /\ first + Size[digest[r]] - 1 <= synced
           /\ \A i \in 1..Size[digest[r]] :
                LET e == log[first + i - 1] IN
                /\ e.request = owner[r]
                /\ e.index = i
                /\ e.key = key[r]
                /\ e.digest = digest[r]
                /\ e.decision = answer[r].decision
           /\ Size[digest[r]] = 1 => answer[r].receipt = EventHash(log[first])

\* A retry after a failed append, a timeout or a cancellation leaves no second
\* event of the same id and index in one lifetime of the process.  (After a
\* restart it may: the registry is in memory.)
OncePerLifetime ==
  \A i, j \in DOMAIN log :
    log[i].key = log[j].key /\ log[i].index = log[j].index /\ i # j =>
      log[i].life # log[j].life

\* The gate counts the threads that run, including those whose requests have
\* long been answered, and never admits more than its limit.
GateCountsWorkers ==
  /\ LocalTypeOK
  /\ inFlight = Cardinality({r \in Requests : worker[r] = "running"})
  /\ inFlight <= Limit

\* Evidence that fails verification is frozen: neither this process nor a later
\* one ever writes a line behind it, not even in the middle of an append.
BrokenLogIsFrozen ==
  [][~Intact => /\ Len(log') <= Len(log)
                /\ log' = SubSeq(log, 1, Len(log'))]_vars

\* The registry implements the ledger for as long as the process lives.
Bound(k) == IF entry[k] = None THEN None ELSE digest[entry[k]]

Decided(k) ==
  IF entry[k] = None \/ published[entry[k]].kind # "success" THEN None
  ELSE published[entry[k]].decision

ShownTo(r) ==
  IF answer[r].kind \notin {"success", "conflict"}
  THEN [key |-> None, digest |-> None, outcome |-> "nothing", decision |-> None]
  ELSE [key |-> key[r], digest |-> digest[r], decision |-> answer[r].decision,
        outcome |-> IF answer[r].kind = "success" THEN "decision" ELSE "conflict"]

Ledger == INSTANCE DecisionLedger WITH
  binding  <- [k \in Keys |-> Bound(k)],
  decision <- [k \in Keys |-> Decided(k)],
  shown    <- [r \in Requests |-> ShownTo(r)]

ImplementsLedger == Ledger!Spec

\* No request hangs: not the owner behind a stuck worker, and not the waiters,
\* who have no deadline of their own and depend on their owner's.
EveryRequestEnds ==
  \A r \in Requests : Active(r) ~> ~Active(r)

(* Why the safety properties hold: what is true of every state between two  *)
(* awaits and two system calls.  The conjunction is inductive               *)
(* (LocalServingProofs).                                                    *)

IsSequence(s) == s \in Seq({s[i] : i \in DOMAIN s})

\* What LocalTypeOK leaves open: functions have a value for every request, the
\* log and the writer's lines are sequences.
LocalShape ==
  /\ DOMAIN answer = Requests
  /\ DOMAIN published = Requests
  /\ IsSequence(log)
  /\ IsSequence(writer.lines)
  /\ writer = [at |-> writer.at, lines |-> writer.lines]
  /\ \A head \in {memory, anchor, anchorOnDisk} : head.count \in Nat

Running == {r \in Requests : worker[r] = "running"}

\* Only a worker that was started holds a slot, and it holds one.
SlotsCounted ==
  /\ IsFiniteSet(Running)
  /\ inFlight = Cardinality(Running)
  /\ inFlight <= Limit

\* A request has neither an answer nor a published result before its end, holds
\* the entry it scores for, and shares key and input with the owner it waits for.
HandlersInOrder ==
  \A r \in Requests :
    /\ pc[r] = "new" => worker[r] = "none" /\ owner[r] = None
    /\ pc[r] # "new" => key[r] \in Keys /\ digest[r] \in Digests
    /\ pc[r] # "done" => published[r] = Nothing /\ answer[r] = Nothing
    /\ pc[r] \in {"scoring", "auditing"} => owner[r] = r /\ entry[key[r]] = r
    /\ pc[r] = "waiting" => owner[r] # None
    /\ pc[r] = "auditing" => worker[r] = "finished"
    /\ Active(r) => process = "up"
    /\ owner[r] # None => /\ owner[owner[r]] = owner[r]
                          /\ key[owner[r]] = key[r]
                          /\ digest[owner[r]] = digest[r]
    /\ published[r].kind = "success" => owner[r] = r
    /\ answer[r].kind = "success" => owner[r] # None /\ published[owner[r]] = answer[r]

EntriesOwned ==
  \A k \in Keys : entry[k] # None => owner[entry[k]] = entry[k] /\ key[entry[k]] = k

\* The lines in the writer's hands are those of the request that is appending.
LinesOf(r) ==
  /\ Len(writer.lines) = Size[digest[r]]
  /\ \A i \in 1..Len(writer.lines) :
       LET e == writer.lines[i] IN
       /\ e.request = r
       /\ e.index = i
       /\ e.key = key[r]
       /\ e.digest = digest[r]
       /\ e.decision = result[r]
       /\ e.life = ends

\* How far an append has come: it starts from the head in memory and from files
\* that verify, and the anchor moves when everything before it is on disk.
WriterInOrder ==
  LET at == writer.at IN
  /\ at # "idle" => \E r \in Requests : pc[r] = "auditing"
  /\ \A r \in Requests : pc[r] = "auditing" => at # "idle" /\ LinesOf(r)
  /\ at = "open" => Intact /\ memory.count = Len(log)
  /\ at \in {"written", "synced", "replaced"} =>
       /\ Len(log) = memory.count + Len(writer.lines)
       /\ \A i \in 1..Len(writer.lines) : log[memory.count + i] = writer.lines[i]
  /\ at \in {"synced", "replaced"} => synced = Len(log)
  /\ at = "replaced" => anchor = HeadOf(log)

\* Every line of this lifetime that the head in memory covers was published
\* under an entry that is still there, so nobody scores for its key again; lines
\* of an append that failed are not covered, and no append follows them.
LinesAccounted ==
  \A i \in DOMAIN log :
    /\ log[i].life <= ends /\ log[i].life \in Nat
    /\ log[i].life = ends => process = "up"
    /\ log[i].life = ends /\ i <= memory.count =>
         /\ log[i].request \in Requests /\ log[i].key \in Keys
         /\ entry[log[i].key] = log[i].request
         /\ published[log[i].request].kind = "success"

\* The evidence of a published decision is on disk in full.
EvidenceOf(o) ==
  \E first \in 1..synced :
    /\ first + Size[digest[o]] - 1 <= synced
    /\ \A i \in 1..Size[digest[o]] :
         LET e == log[first + i - 1] IN
         /\ e.request = o
         /\ e.index = i
         /\ e.key = key[o]
         /\ e.digest = digest[o]
         /\ e.decision = published[o].decision
    /\ Size[digest[o]] = 1 => published[o].receipt = EventHash(log[first])

PublishedIsAudited ==
  \A o \in Requests : published[o].kind = "success" => EvidenceOf(o)

LocalInvariant ==
  /\ LocalTypeOK
  /\ LocalShape
  /\ SlotsCounted
  /\ HandlersInOrder
  /\ EntriesOwned
  /\ WriterInOrder
  /\ AnchorNeverAhead
  /\ LinesAccounted
  /\ OncePerLifetime
  /\ PublishedIsAudited

\* What else the ledger needs of one lifetime: the entry of a published decision
\* is never given back, and nobody publishes a conflict or an empty decision.
RegistryKept ==
  \A r \in Requests :
    /\ published[r].kind # "conflict"
    /\ pc[r] = "auditing" => result[r] # None
    /\ published[r].kind = "success" =>
         /\ published[r].decision # None
         /\ ends = 0 => entry[key[r]] = r

=============================================================================

----------------------------- MODULE ScaleStore -----------------------------
(***************************************************************************)
(* The postgres-scale profile: POST /v2/predict served by several API      *)
(* processes over one PostgreSQL schema (api/postgres_idempotency.py,      *)
(* api/postgres_audit.py).                                                 *)
(*                                                                         *)
(* A request reserves its key in a short transaction, scores outside the   *)
(* database, and completes in one transaction that locks the idempotency   *)
(* row, then the audit chain head, inserts one chained event, completes    *)
(* the row and advances the head.  Requests that find the key taken poll   *)
(* until a deadline.  Processes crash and restart; connections are lost    *)
(* with a COMMIT in flight; reservations expire; a starting process        *)
(* verifies the whole chain while others commit to it.                     *)
(*                                                                         *)
(* A committed PostgreSQL state is the variables row, head and events.     *)
(* Row locks are not a variable: a row is locked while a transaction that  *)
(* selected it FOR UPDATE is open (RowLocked, HeadLocked).                 *)
(***************************************************************************)
EXTENDS Naturals, Sequences, FiniteSets

CONSTANTS
  Keys,         \* HMAC key digests of X-Request-ID values
  Digests,      \* canonical request digests
  Decisions,    \* bounded responses a scoring run can produce
  Requests,     \* HTTP requests; a client's retry is another request
  Processes,    \* API processes, each with its own pool and completion gate
  TTL,          \* reservation_ttl in clock ticks
  MaxTime,      \* bound: the clock stops here
  MaxCrashes,   \* bound: process crashes in a behaviour
  None          \* an SQL NULL, or a value not chosen yet

ASSUME ScaleAssumption ==
  /\ TTL \in Nat \ {0}
  /\ MaxTime \in Nat
  /\ MaxCrashes \in Nat
  /\ None \notin Keys \cup Digests \cup Decisions \cup Processes

VARIABLES
  row,       \* secureswipe_idempotency: one row per key
  head,      \* audit_chain_heads: the row of the chain 'primary'
  events,    \* audit_events in commit order
  now,       \* the server's clock_timestamp()
  home,      \* process that handles a request
  key,       \* key digest of a request
  digest,    \* request digest of a request
  pc,        \* where execute_detailed stands for a request
  scored,    \* decision computed by the owner's scoring operation
  tx,        \* the request's completion transaction on the server
  staged,    \* the audit event that transaction has inserted
  answer,    \* the HTTP outcome (sent once pc is "done")
  scorers,   \* history: the requests that ran the scoring operation of a key
  phase,     \* life cycle of a process
  seen,      \* head row read by a starting process
  crashes    \* process crashes so far

dbVars      == <<row, head, events>>
requestVars == <<home, key, digest, pc, scored, answer, scorers>>
txVars      == <<tx, staged>>
processVars == <<phase, seen, crashes>>
vars        == <<dbVars, now, requestVars, txVars, processVars>>

-----------------------------------------------------------------------------
(* Rows, events and their hashes *)

GenesisHash == <<>>

AbsentRow == [state |-> "absent", digest |-> None, expires |-> 0,
              response |-> None, receipt |-> GenesisHash]

ReservedRow(d, e) == [state |-> "reserved", digest |-> d, expires |-> e,
                      response |-> None, receipt |-> GenesisHash]

FailedRow(w) == [state |-> "failed", digest |-> w.digest, expires |-> w.expires,
                 response |-> w.response, receipt |-> w.receipt]

CompletedRow(w, v, h) == [state |-> "completed", digest |-> w.digest,
                          expires |-> w.expires, response |-> v, receipt |-> h]

\* build_audit_event: a collision-free hash of everything the event binds.
Hash(e) == <<e.sequence, e.previous, e.key, e.digest, e.decision>>

HashAt(i) == IF i = 0 THEN GenesisHash ELSE Hash(events[i])

\* Faulty: the event is not linked to the head.
EventUnlinked(r) ==
  [sequence |-> head.sequence + 1, previous |-> GenesisHash,
   key |-> key[r], digest |-> digest[r], decision |-> scored[r]]

EventFor(r) ==
  [sequence |-> head.sequence + 1, previous |-> head.hash,
   key |-> key[r], digest |-> digest[r], decision |-> scored[r]]

NoEvent == [sequence |-> 0, previous |-> GenesisHash,
            key |-> None, digest |-> None, decision |-> None]

IsStale(k) == row[k].expires <= now

-----------------------------------------------------------------------------
(* Locks held by open transactions, and the per-process completion gate *)

Open(r) == tx[r] \in {"rowLocked", "staged"}

\* Faulty: SELECT without FOR UPDATE on the idempotency row.
RowNeverLocked(k) == FALSE

RowLocked(k) == \E q \in Requests : key[q] = k /\ Open(q)

\* Faulty: SELECT without FOR UPDATE on the chain head.
HeadNeverLocked == FALSE

HeadLocked == \E q \in Requests : tx[q] = "staged"

GateTaken(p) == \E q \in Requests : home[q] = p /\ pc[q] = "completing"

-----------------------------------------------------------------------------
(* Answers *)

Waiting == [kind |-> "none", decision |-> None, receipt |-> GenesisHash]

Refusal(why) == [kind |-> why, decision |-> None, receipt |-> GenesisHash]

Success(v, h) == [kind |-> "success", decision |-> v, receipt |-> h]

StoredAnswer(k) == Success(row[k].response, row[k].receipt)

Active(r) == pc[r] \notin {"new", "done", "dead"}

Finish(r, a) ==
  /\ pc' = [pc EXCEPT ![r] = "done"]
  /\ answer' = [answer EXCEPT ![r] = a]

\* The owner's exception handler: fail() runs before the error is returned.
FailWith(r, why) ==
  /\ pc' = [pc EXCEPT ![r] = "failing"]
  /\ answer' = [answer EXCEPT ![r] = Refusal(why)]

-----------------------------------------------------------------------------
Init ==
  /\ row = [k \in Keys |-> AbsentRow]
  /\ head = [sequence |-> 0, hash |-> GenesisHash]
  /\ events = <<>>
  /\ now = 0
  /\ home = [r \in Requests |-> None]
  /\ key = [r \in Requests |-> None]
  /\ digest = [r \in Requests |-> None]
  /\ pc = [r \in Requests |-> "new"]
  /\ scored = [r \in Requests |-> None]
  /\ tx = [r \in Requests |-> "none"]
  /\ staged = [r \in Requests |-> NoEvent]
  /\ answer = [r \in Requests |-> Waiting]
  /\ scorers = [k \in Keys |-> {}]
  /\ phase = [p \in Processes |-> "down"]
  /\ seen = [p \in Processes |-> [sequence |-> 0, hash |-> GenesisHash]]
  /\ crashes = 0

-----------------------------------------------------------------------------
(* execute_detailed, one action per step between two awaits *)

Arrive(r, p, k, d) ==
  /\ pc[r] = "new"
  /\ phase[p] = "up"
  /\ home' = [home EXCEPT ![r] = p]
  /\ key' = [key EXCEPT ![r] = k]
  /\ digest' = [digest EXCEPT ![r] = d]
  /\ pc' = [pc EXCEPT ![r] = "reserving"]
  /\ UNCHANGED <<dbVars, now, scored, answer, scorers, txVars, processVars>>

\* The INSERT ... ON CONFLICT DO NOTHING of reserve.
InsertReservation(r) ==
  row' = [row EXCEPT ![key[r]] = ReservedRow(digest[r], now + TTL)]

\* Faulty: an expired reservation is taken over.
ReclaimStale(r) ==
  /\ pc[r] = "reserving"
  /\ \/ row[key[r]].state = "absent"
     \/ row[key[r]].state = "reserved" /\ IsStale(key[r])
  /\ InsertReservation(r)
  /\ pc' = [pc EXCEPT ![r] = "scoring"]
  /\ scorers' = [scorers EXCEPT ![key[r]] = @ \cup {r}]
  /\ UNCHANGED <<head, events, now, home, key, digest, scored, answer, txVars,
                 processVars>>

\* reserve wins the insert: the request owns the key.
ReserveOwner(r) ==
  /\ pc[r] = "reserving"
  /\ row[key[r]].state = "absent"
  /\ InsertReservation(r)
  /\ pc' = [pc EXCEPT ![r] = "scoring"]
  /\ scorers' = [scorers EXCEPT ![key[r]] = @ \cup {r}]
  /\ UNCHANGED <<head, events, now, home, key, digest, scored, answer, txVars,
                 processVars>>

\* reserve committed on the server but the client lost the connection: the
\* caller gets StateStoreUnavailableError and nobody owns the row.
ReserveUnacknowledged(r) ==
  /\ pc[r] = "reserving"
  /\ row[key[r]].state = "absent"
  /\ InsertReservation(r)
  /\ Finish(r, Refusal("unavailable"))
  /\ UNCHANGED <<head, events, now, home, key, digest, scored, scorers, txVars,
                 processVars>>

\* Faulty: the stored digest is not compared.
ObservedAnyInput(r) ==
  LET k == key[r] IN
  IF row[k].state = "completed" THEN StoredAnswer(k)
  ELSE IF row[k].state = "failed" THEN Refusal("failed")
  ELSE IF IsStale(k) THEN Refusal("stale")
  ELSE Waiting

\* Faulty: an expired reservation is reported as a failed one.
ObservedExpiryAsFailure(r) ==
  LET k == key[r] IN
  IF row[k].digest # digest[r] THEN Refusal("conflict")
  ELSE IF row[k].state = "completed" THEN StoredAnswer(k)
  ELSE IF row[k].state = "failed" \/ IsStale(k) THEN Refusal("failed")
  ELSE Waiting

\* _from_row: what a request that did not insert the row makes of it.  While
\* the row is reserved the request keeps polling.
Observed(r) ==
  LET k == key[r] IN
  IF row[k].digest # digest[r] THEN Refusal("conflict")
  ELSE IF row[k].state = "completed" THEN StoredAnswer(k)
  ELSE IF row[k].state = "failed" THEN Refusal("failed")
  ELSE IF IsStale(k) THEN Refusal("stale")
  ELSE Waiting

\* The SELECT ... FOR SHARE of reserve waits for an open completion.
ReserveObserver(r) ==
  /\ pc[r] = "reserving"
  /\ row[key[r]].state # "absent"
  /\ ~RowLocked(key[r])
  /\ IF Observed(r) = Waiting
     THEN /\ pc' = [pc EXCEPT ![r] = "polling"]
          /\ UNCHANGED answer
     ELSE Finish(r, Observed(r))
  /\ UNCHANGED <<dbVars, now, home, key, digest, scored, scorers, txVars,
                 processVars>>

\* _read in wait_for_reservation: a plain SELECT, which no row lock delays.
Poll(r) ==
  /\ pc[r] = "polling"
  /\ Observed(r) # Waiting
  /\ Finish(r, Observed(r))
  /\ UNCHANGED <<dbVars, now, home, key, digest, scored, scorers, txVars,
                 processVars>>

\* Faulty: the wait has no deadline.
PollForever(r) == FALSE

PollDeadline(r) ==
  /\ pc[r] = "polling"
  /\ Finish(r, Refusal("in_progress"))
  /\ UNCHANGED <<dbVars, now, home, key, digest, scored, scorers, txVars,
                 processVars>>

\* A database error before the request owns anything (reserve, _read).
StoreError(r) ==
  /\ pc[r] \in {"reserving", "polling"}
  /\ Finish(r, Refusal("unavailable"))
  /\ UNCHANGED <<dbVars, now, home, key, digest, scored, scorers, txVars,
                 processVars>>

ScoreSucceeds(r, v) ==
  /\ pc[r] = "scoring"
  /\ scored' = [scored EXCEPT ![r] = v]
  /\ pc' = [pc EXCEPT ![r] = "queued"]
  /\ UNCHANGED <<dbVars, now, home, key, digest, answer, scorers, txVars,
                 processVars>>

\* Capacity, timeout, integrity failure or cancellation of the operation.
ScoreFails(r) ==
  /\ pc[r] = "scoring"
  /\ FailWith(r, "scoring_error")
  /\ UNCHANGED <<dbVars, now, home, key, digest, scored, scorers, txVars,
                 processVars>>

\* _completion_connection: the process-wide gate, then a pooled connection.
EnterGate(r) ==
  /\ pc[r] = "queued"
  /\ ~GateTaken(home[r])
  /\ pc' = [pc EXCEPT ![r] = "completing"]
  /\ UNCHANGED <<dbVars, now, home, key, digest, scored, answer, scorers, txVars,
                 processVars>>

\* The guard complete_reservation evaluates on the row it has locked.
MayComplete(r) ==
  /\ row[key[r]].digest = digest[r]
  /\ row[key[r]].state = "reserved"
  /\ ~IsStale(key[r])

LockRow(r) ==
  /\ pc[r] = "completing"
  /\ tx[r] = "none"
  /\ ~RowLocked(key[r])
  /\ IF MayComplete(r)
     THEN /\ tx' = [tx EXCEPT ![r] = "rowLocked"]
          /\ UNCHANGED <<pc, answer>>
     ELSE /\ FailWith(r, "stale")
          /\ UNCHANGED tx
  /\ UNCHANGED <<dbVars, now, home, key, digest, scored, scorers, staged,
                 processVars>>

\* From the head lock to the last UPDATE: nothing is visible before COMMIT.
StageCompletion(r) ==
  /\ pc[r] = "completing"
  /\ tx[r] = "rowLocked"
  /\ ~HeadLocked
  /\ staged' = [staged EXCEPT ![r] = EventFor(r)]
  /\ tx' = [tx EXCEPT ![r] = "staged"]
  /\ UNCHANGED <<dbVars, now, requestVars, processVars>>

\* The server applies COMMIT, whether or not the client is still there.
Commit(r) ==
  /\ tx[r] = "staged"
  /\ events' = Append(events, staged[r])
  /\ head' = [sequence |-> staged[r].sequence, hash |-> Hash(staged[r])]
  /\ row' = [row EXCEPT ![key[r]] =
               CompletedRow(@, staged[r].decision, Hash(staged[r]))]
  /\ tx' = [tx EXCEPT ![r] = "committed"]
  /\ UNCHANGED <<now, requestVars, staged, processVars>>

\* Faulty: the owner answers before COMMIT returned.
AcknowledgeEarly(r) ==
  /\ pc[r] = "completing"
  /\ tx[r] \in {"staged", "committed"}
  /\ Finish(r, Success(scored[r], Hash(staged[r])))
  /\ UNCHANGED <<dbVars, now, home, key, digest, scored, scorers, txVars,
                 processVars>>

\* The owner learns that COMMIT succeeded and answers.
Acknowledge(r) ==
  /\ pc[r] = "completing"
  /\ tx[r] = "committed"
  /\ Finish(r, Success(scored[r], Hash(staged[r])))
  /\ UNCHANGED <<dbVars, now, home, key, digest, scored, scorers, txVars,
                 processVars>>

\* Any exception in complete_reservation: a lost connection (its COMMIT may
\* still be applied), a pool timeout, a constraint violation, cancellation.
CompletionError(r) ==
  /\ pc[r] \in {"queued", "completing"}
  /\ FailWith(r, "unavailable")
  /\ UNCHANGED <<dbVars, now, home, key, digest, scored, scorers, txVars,
                 processVars>>

\* Faulty: only a client that is still there rolls back.
RollbackByClient(r) ==
  /\ Open(r)
  /\ pc[r] = "failing"
  /\ tx' = [tx EXCEPT ![r] = "none"]
  /\ staged' = [staged EXCEPT ![r] = NoEvent]
  /\ UNCHANGED <<dbVars, now, requestVars, processVars>>

\* The server rolls back a transaction its client has left.
Rollback(r) ==
  /\ Open(r)
  /\ pc[r] # "completing"
  /\ tx' = [tx EXCEPT ![r] = "none"]
  /\ staged' = [staged EXCEPT ![r] = NoEvent]
  /\ UNCHANGED <<dbVars, now, requestVars, processVars>>

\* Faulty: the UPDATE of fail has no state guard.
RecordFailureUnguarded(r) ==
  /\ pc[r] = "failing"
  /\ ~RowLocked(key[r])
  /\ row' = [row EXCEPT ![key[r]] = FailedRow(@)]
  /\ pc' = [pc EXCEPT ![r] = "done"]
  /\ UNCHANGED <<head, events, now, home, key, digest, scored, answer, scorers,
                 txVars, processVars>>

\* fail: UPDATE ... SET state = 'failed' WHERE state = 'reserved'.  The update
\* waits for an open completion of the same row.
RecordFailure(r) ==
  LET k == key[r] IN
  /\ pc[r] = "failing"
  /\ ~RowLocked(k)
  /\ row' = IF row[k].state = "reserved" /\ row[k].digest = digest[r]
            THEN [row EXCEPT ![k] = FailedRow(@)]
            ELSE row
  /\ pc' = [pc EXCEPT ![r] = "done"]
  /\ UNCHANGED <<head, events, now, home, key, digest, scored, answer, scorers,
                 txVars, processVars>>

\* execute_detailed swallows an error of fail: the row stays reserved.
FailureNotRecorded(r) ==
  /\ pc[r] = "failing"
  /\ pc' = [pc EXCEPT ![r] = "done"]
  /\ UNCHANGED <<dbVars, now, home, key, digest, scored, answer, scorers, txVars,
                 processVars>>

-----------------------------------------------------------------------------
(* Processes: open() with verify_audit_chain, and crashes *)

\* The verifier's first statement reads the head row.
OpenStore(p) ==
  /\ phase[p] \in {"down", "refused"}
  /\ phase' = [phase EXCEPT ![p] = "scanning"]
  /\ seen' = [seen EXCEPT ![p] = head]
  /\ UNCHANGED <<dbVars, now, requestVars, txVars, crashes>>

\* Contiguous sequence numbers and previous-hash links, from genesis.
ChainValid ==
  \A i \in DOMAIN events :
    /\ events[i].sequence = i
    /\ events[i].previous = HashAt(i - 1)

\* A later statement reads the events: another snapshot.
ScanEvents(p) ==
  /\ phase[p] = "scanning"
  /\ phase' = [phase EXCEPT ![p] =
        IF /\ ChainValid
           /\ seen[p].sequence = Len(events)
           /\ seen[p].hash = HashAt(Len(events))
        THEN "linking" ELSE "refused"]
  /\ UNCHANGED <<dbVars, now, requestVars, txVars, seen, crashes>>

\* The FULL JOIN of completed rows and events finds no inconsistent pair.
LinksConsistent ==
  /\ \A k \in Keys : row[k].state = "completed" =>
       \E i \in DOMAIN events : events[i].key = k /\ Hash(events[i]) = row[k].receipt
  /\ \A i \in DOMAIN events :
       LET r == row[events[i].key] IN
       /\ r.state = "completed"
       /\ r.receipt = Hash(events[i])
       /\ r.digest = events[i].digest
       /\ r.response = events[i].decision

CheckLinks(p) ==
  /\ phase[p] = "linking"
  /\ phase' = [phase EXCEPT ![p] = IF LinksConsistent THEN "up" ELSE "refused"]
  /\ UNCHANGED <<dbVars, now, requestVars, txVars, seen, crashes>>

\* A crash loses every request of the process; their transactions stay on the
\* server until it rolls them back or finishes their COMMIT.
Crash(p) ==
  /\ phase[p] = "up"
  /\ crashes < MaxCrashes
  /\ crashes' = crashes + 1
  /\ phase' = [phase EXCEPT ![p] = "down"]
  /\ pc' = [r \in Requests |->
              IF home[r] = p /\ Active(r) THEN "dead" ELSE pc[r]]
  /\ UNCHANGED <<dbVars, now, home, key, digest, scored, answer, scorers, txVars,
                 seen>>

Tick ==
  /\ now < MaxTime
  /\ now' = now + 1
  /\ UNCHANGED <<dbVars, requestVars, txVars, processVars>>

-----------------------------------------------------------------------------
\* Every request has ended and no transaction is open: a quiet store.
Quiet ==
  /\ \A r \in Requests : pc[r] \in {"done", "dead"} /\ ~Open(r)
  /\ UNCHANGED vars

RequestStep(r) ==
  \/ \E p \in Processes, k \in Keys, d \in Digests : Arrive(r, p, k, d)
  \/ ReserveOwner(r)
  \/ ReserveUnacknowledged(r)
  \/ ReserveObserver(r)
  \/ Poll(r)
  \/ PollDeadline(r)
  \/ StoreError(r)
  \/ \E v \in Decisions : ScoreSucceeds(r, v)
  \/ ScoreFails(r)
  \/ EnterGate(r)
  \/ LockRow(r)
  \/ StageCompletion(r)
  \/ Commit(r)
  \/ Acknowledge(r)
  \/ CompletionError(r)
  \/ Rollback(r)
  \/ RecordFailure(r)
  \/ FailureNotRecorded(r)

ProcessStep(p) == OpenStore(p) \/ ScanEvents(p) \/ CheckLinks(p) \/ Crash(p)

Next ==
  \/ \E r \in Requests : RequestStep(r)
  \/ \E p \in Processes : ProcessStep(p)
  \/ Tick
  \/ Quiet

Spec == Init /\ [][Next]_vars

\* What the event loop, the bounded scoring, the bounded wait and the server
\* keep doing for a request; errors, crashes and the clock need not happen.
Progress(r) ==
  \/ ReserveOwner(r)
  \/ ReserveObserver(r)
  \/ PollDeadline(r)
  \/ \E v \in Decisions : ScoreSucceeds(r, v)
  \/ EnterGate(r)
  \/ LockRow(r)
  \/ StageCompletion(r)
  \/ Acknowledge(r)
  \/ RecordFailure(r)

ServerProgress(r) == Commit(r) \/ Rollback(r)

Fairness ==
  \A r \in Requests : WF_vars(Progress(r)) /\ WF_vars(ServerProgress(r))

FairSpec == Spec /\ Fairness

-----------------------------------------------------------------------------
(* Properties *)

States == {"absent", "reserved", "completed", "failed"}
Points == {"new", "reserving", "polling", "scoring", "queued", "completing",
           "failing", "done", "dead"}
Kinds  == {"none", "success", "conflict", "stale", "failed", "in_progress",
           "unavailable", "scoring_error"}

EventsStored == {events[i] : i \in DOMAIN events}

\* Every value stays in the range the schema's CHECK constraints and the
\* handlers' result kinds give it (hashes are left unconstrained).
TypeOK ==
  /\ DOMAIN row = Keys
  /\ \A k \in Keys :
       /\ row[k] = [state |-> row[k].state, digest |-> row[k].digest,
                    expires |-> row[k].expires, response |-> row[k].response,
                    receipt |-> row[k].receipt]
       /\ row[k].state \in States
       /\ row[k].digest \in Digests \cup {None}
       /\ row[k].expires \in Nat
       /\ row[k].response \in Decisions \cup {None}
  /\ head = [sequence |-> head.sequence, hash |-> head.hash]
  /\ head.sequence \in Nat
  /\ events \in Seq(EventsStored)
  /\ now \in Nat
  /\ home \in [Requests -> Processes \cup {None}]
  /\ key \in [Requests -> Keys \cup {None}]
  /\ digest \in [Requests -> Digests \cup {None}]
  /\ pc \in [Requests -> Points]
  /\ scored \in [Requests -> Decisions \cup {None}]
  /\ tx \in [Requests -> {"none", "rowLocked", "staged", "committed"}]
  /\ DOMAIN staged = Requests
  /\ DOMAIN answer = Requests
  /\ \A r \in Requests :
       /\ answer[r].kind \in Kinds
       /\ staged[r].sequence \in Nat
       /\ staged[r].decision \in Decisions \cup {None}
       /\ pc[r] # "new" \/ tx[r] # "none" => key[r] \in Keys /\ digest[r] \in Digests
  /\ scorers \in [Keys -> SUBSET Requests]
  /\ phase \in [Processes -> {"down", "scanning", "linking", "up", "refused"}]
  /\ DOMAIN seen = Processes
  /\ crashes \in Nat

\* C1, C6, C8: the completion transaction leaves a completed row and its event
\* together or not at all, and no key ever has two events, whatever crashed,
\* expired or lost its connection in between.
CompletedIffAudited ==
  /\ LinksConsistent
  /\ \A i, j \in DOMAIN events : events[i].key = events[j].key => i = j

\* C6: completions of all processes form one gap-free, hash-linked sequence and
\* the head row always names its last event.
ChainContiguous ==
  /\ ChainValid
  /\ head = [sequence |-> Len(events), hash |-> HashAt(Len(events))]

\* C1, C3, C9: a decision that was released to a caller is the committed one of
\* the caller's own key and input, with the receipt of the original event.
AnswersAreDurable ==
  \A r \in Requests :
    LET stored == row[key[r]] IN
    pc[r] = "done" /\ answer[r].kind = "success" =>
      /\ stored.state = "completed"
      /\ stored.digest = digest[r]
      /\ answer[r] = Success(stored.response, stored.receipt)

\* C1, C2, C9: no key is scored twice, not by a retry, not after a crash of its
\* owner and not after its reservation expired.
ScoredOnce ==
  \A k \in Keys : \A q, r \in scorers[k] : q = r

\* A caller refused with a conflict did bring another input, and a caller told
\* that the reservation failed can rely on it: no completion follows.
RefusalsAreTruthful ==
  \A r \in Requests :
    pc[r] = "done" =>
      /\ answer[r].kind = "conflict" => row[key[r]].digest \notin {None, digest[r]}
      /\ answer[r].kind = "failed" => row[key[r]].state = "failed"

\* A key is bound to its first input for good, completed and failed rows are
\* never rewritten (a late fail() of an owner whose COMMIT was applied must not
\* touch the row), and the event table only grows.
RowsAreTerminal ==
  [][/\ \A k \in Keys :
          /\ row[k].state # "absent" => row'[k].digest = row[k].digest
          /\ row[k].state \in {"completed", "failed"} => row'[k] = row[k]
     /\ SubSeq(events', 1, Len(events)) = events]_dbVars

\* The startup verifier refuses a store only when somebody committed between
\* its statements; a chain nobody appends to always opens.
RefusedOnlyByConcurrentCommit ==
  \A p \in Processes : phase[p] = "refused" => seen[p].sequence < Len(events)

\* The store implements the abstract ledger: the digest of a row is the
\* binding, a completed row is the decision, a sent answer is what was shown.
ShownTo(r) ==
  IF pc[r] # "done" THEN [key |-> None, digest |-> None,
                          outcome |-> "nothing", decision |-> None]
  ELSE IF answer[r].kind = "success"
       THEN [key |-> key[r], digest |-> digest[r],
             outcome |-> "decision", decision |-> answer[r].decision]
  ELSE IF answer[r].kind = "conflict"
       THEN [key |-> key[r], digest |-> digest[r],
             outcome |-> "conflict", decision |-> None]
  ELSE [key |-> None, digest |-> None, outcome |-> "nothing", decision |-> None]

Ledger == INSTANCE DecisionLedger WITH
  binding  <- [k \in Keys |-> row[k].digest],
  decision <- [k \in Keys |-> row[k].response],
  shown    <- [r \in Requests |-> ShownTo(r)]

ImplementsLedger == Ledger!Spec

\* Every request that reached the store is answered, unless its process dies:
\* the gate, the row locks and the head lock are always let go again, and a
\* request behind a dead owner gives up at its deadline.
EveryRequestEnds ==
  \A r \in Requests : pc[r] = "reserving" ~> pc[r] \in {"done", "dead"}

\* No completion transaction holds its locks for ever, whoever left it.
LocksAreReleased == \A r \in Requests : Open(r) ~> ~Open(r)

(* Why they hold: what is true of every state between two awaits.  The      *)
(* conjunction is inductive (ScaleStoreProofs).                            *)

\* A request has a transaction only from its completion on, has scored by
\* then, and carries a success only once it is sent.
RequestsInOrder ==
  \A r \in Requests :
    /\ pc[r] \in {"new", "reserving", "polling", "scoring", "queued"} => tx[r] = "none"
    /\ pc[r] \in {"queued", "completing"} \/ tx[r] # "none" => scored[r] \in Decisions
    /\ answer[r].kind = "success" => pc[r] = "done"

\* The row lock and the head lock are exclusive; the locked row stays the one
\* MayComplete has seen, and the inserted event stays next in the chain.
LocksProtect ==
  /\ \A q, r \in Requests : Open(q) /\ Open(r) /\ key[q] = key[r] => q = r
  /\ \A q, r \in Requests : tx[q] = "staged" /\ tx[r] = "staged" => q = r
  /\ \A r \in Requests :
       /\ Open(r) => /\ row[key[r]].state = "reserved"
                     /\ row[key[r]].digest = digest[r]
       /\ tx[r] = "staged" => staged[r] = EventFor(r)
       /\ tx[r] = "committed" =>
            row[key[r]] = CompletedRow(row[key[r]], scored[r], Hash(staged[r]))
       /\ tx[r] = "committed" => row[key[r]].digest = digest[r]

\* A row has a digest from its insertion and a response from its completion;
\* a key nobody reserved was scored by nobody.
RowsWellFormed ==
  \A k \in Keys :
    /\ row[k].state = "absent" => row[k] = AbsentRow /\ scorers[k] = {}
    /\ row[k].state # "absent" => row[k].digest \in Digests
    /\ row[k].state = "completed" => row[k].response \in Decisions
    /\ row[k].state # "completed" => row[k].response = None

EventKeys == \A i \in DOMAIN events : events[i].key \in Keys

\* Together with the properties above, this is preserved by every step: locks
\* held across steps keep what was checked under them true until COMMIT.
StoreInvariant ==
  /\ TypeOK
  /\ RequestsInOrder
  /\ LocksProtect
  /\ RowsWellFormed
  /\ EventKeys
  /\ ChainContiguous
  /\ CompletedIffAudited
  /\ AnswersAreDurable
  /\ ScoredOnce

\* What a refusal rests on: an answer is chosen when the request ends or fails
\* (a conflict and a failed reservation only when it ends), a request polls a
\* row that is there, and the row it was refused for stays as it was seen.
AnswersFollowRows ==
  \A r \in Requests :
    LET stored == row[key[r]]
        why    == answer[r].kind
    IN
    /\ pc[r] \notin {"failing", "done", "dead"} => answer[r] = Waiting
    /\ pc[r] = "polling" => stored.state # "absent"
    /\ why \in {"conflict", "failed"} => pc[r] = "done"
    /\ why = "conflict" => stored.digest \notin {None, digest[r]}
    /\ why = "failed" => stored.state = "failed"

\* What a refused start rests on: the head row a verifier has read names an
\* event of the chain it scans, be it no longer the last one.
SnapshotsAreOld ==
  \A p \in Processes :
    /\ seen[p].sequence \in 0..Len(events)
    /\ seen[p].hash = HashAt(seen[p].sequence)

(* Two claims of the repository that the code does not keep *)

\* docs/ARCHITECTURE.md: "terminal stale/failed states".  A caller told that
\* the reservation is stale would never see it completed later.
StaleIsTerminal ==
  \A r \in Requests :
    pc[r] = "done" /\ answer[r].kind = "stale" => row[key[r]].state # "completed"

\* api/postgres_audit.py: the verifier's error means that the chain "or its
\* completion linkage is invalid".
RefusedOnlyIfBroken ==
  \A p \in Processes :
    phase[p] = "refused" => ~(ChainContiguous /\ CompletedIffAudited)

=============================================================================

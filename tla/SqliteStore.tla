----------------------------- MODULE SqliteStore -----------------------------
(***************************************************************************)
(* The local durable idempotency prototype (durable_idempotency.py): one   *)
(* SQLite row per key.  A caller reserves its key, scores, makes its audit *)
(* event durable and completes the row; on an exception it calls fail,     *)
(* and says truthfully whether the audit event is durable.                 *)
(*                                                                         *)
(* Every statement runs in autocommit mode and complete in one immediate   *)
(* transaction, so a step is one statement: reserve reads the row with one *)
(* and claims it with another.  A handle belongs to one thread of one      *)
(* process and runs one operation at a time; other handles, which the      *)
(* module's docstring calls unsupported and untested, may step in between. *)
(* Opening a handle recovers, whoever still runs, and a process may die    *)
(* between any two statements.                                             *)
(***************************************************************************)
EXTENDS Naturals, Sequences

CONSTANTS
  SqliteKeys,      \* SHA-256 of request ids
  SqliteInputs,    \* canonical input digests
  SqliteVerdicts,  \* ALLOWED_DECISIONS
  SqliteCallers,   \* calls; a retry is another call
  SqliteHandles,   \* connections, each opened once: a restart takes another
  NoValue          \* an SQL NULL, or a value not chosen yet

ASSUME SqliteAssumption ==
  NoValue \notin SqliteKeys \cup SqliteInputs \cup SqliteVerdicts \cup SqliteHandles

VARIABLES
  table,      \* one row per key
  trail,      \* durable audit events in the order they were written
  call,       \* the callers
  handle,     \* the connections
  contended   \* history: keys claimed again by two calls that both read FAILED

sqliteVars == <<table, trail, call, handle, contended>>

-----------------------------------------------------------------------------
Unreserved == [state |-> "none", input |-> NoValue, decision |-> NoValue]

Uncalled == [at |-> "idle", handle |-> NoValue, key |-> NoValue, input |-> NoValue,
             verdict |-> NoValue, audited |-> FALSE, answer |-> "none"]

\* Between the two statements of reserve.
Claiming(c) == call[c].at \in {"inserting", "reclaiming"}

\* With a reservation of its own.
Underway(c) == call[c].at \in {"scoring", "auditing", "completing", "failing"}

\* An operation of this handle may start: none is between two statements.
FreeHandle(h) == handle[h] = "open" /\ \A c \in SqliteCallers : Claiming(c) => call[c].handle # h

\* Statements that end the call with an answer.
EndsCall(c, kind, v) ==
  call' = [call EXCEPT ![c].at = "ended", ![c].answer = kind, ![c].verdict = v]

SqliteInit ==
  /\ table = [k \in SqliteKeys |-> Unreserved]
  /\ trail = <<>>
  /\ call = [c \in SqliteCallers |-> Uncalled]
  /\ handle = [h \in SqliteHandles |-> "closed"]
  /\ contended = {}

-----------------------------------------------------------------------------
(* reserve: the SELECT *)

\* Faulty: the stored digest is not compared.
ReadsAnyInput(k, i) ==
  IF table[k].state \in {"UNRESOLVED", "PENDING"} THEN "unresolved"
  ELSE IF table[k].state = "COMPLETED" THEN "replay"
  ELSE "claimable"

Reads(k, i) ==
  IF table[k].state # "none" /\ table[k].input # i THEN "conflict"
  ELSE IF table[k].state \in {"UNRESOLVED", "PENDING"} THEN "unresolved"
  ELSE IF table[k].state = "COMPLETED" THEN "replay"
  ELSE "claimable"

\* The stored decision, or an error.
ReserveAsReader(c, h, k, i) ==
  /\ call[c].at = "idle" /\ FreeHandle(h)
  /\ Reads(k, i) # "claimable"
  /\ call' = [call EXCEPT ![c] =
                [Uncalled EXCEPT
                   !.at = "ended", !.handle = h, !.key = k, !.input = i, !.answer = Reads(k, i),
                   !.verdict = IF Reads(k, i) = "replay" THEN table[k].decision
                                                         ELSE NoValue]]
  /\ UNCHANGED <<table, trail, handle, contended>>

\* No row, or that of a failed attempt: the claim is a statement of its own.
ReadsClaimable(c, h, k, i) ==
  /\ call[c].at = "idle" /\ FreeHandle(h)
  /\ Reads(k, i) = "claimable"
  /\ call' = [call EXCEPT ![c] =
                [Uncalled EXCEPT
                   !.at = IF table[k].state = "none" THEN "inserting" ELSE "reclaiming",
                   !.handle = h, !.key = k, !.input = i]]
  /\ UNCHANGED <<table, trail, handle, contended>>

-----------------------------------------------------------------------------
(* reserve: the claim *)

InsertRow(c) ==
  table' = [table EXCEPT ![call[c].key].state = "PENDING", ![call[c].key].input = call[c].input]

\* Faulty: INSERT OR REPLACE.
InsertsOrReplaces(c) ==
  /\ call[c].at = "inserting"
  /\ InsertRow(c)
  /\ call' = [call EXCEPT ![c].at = "scoring"]
  /\ UNCHANGED <<trail, handle, contended>>

\* The primary key keeps a row that came in between: IntegrityError.
Inserts(c) ==
  /\ call[c].at = "inserting"
  /\ \/ /\ table[call[c].key].state = "none"
        /\ InsertRow(c)
        /\ call' = [call EXCEPT ![c].at = "scoring"]
     \/ /\ table[call[c].key].state # "none"
        /\ EndsCall(c, "error", NoValue)
        /\ UNCHANGED table
  /\ UNCHANGED <<trail, handle, contended>>

\* UPDATE ... WHERE key: whatever state the row is in by now.
ReclaimRow(c) ==
  /\ table' = [table EXCEPT ![call[c].key].state = "PENDING"]
  /\ contended' = IF \E d \in SqliteCallers \ {c} :
                        call[d].at = "reclaiming" /\ call[d].key = call[c].key
                  THEN contended \cup {call[c].key} ELSE contended

Reclaims(c) ==
  /\ call[c].at = "reclaiming"
  /\ ReclaimRow(c)
  /\ call' = [call EXCEPT ![c].at = "scoring"]
  /\ UNCHANGED <<trail, handle>>

\* The claim raises, applied or not: nobody has the reservation.
ClaimRaises(c) ==
  /\ Claiming(c)
  /\ \/ UNCHANGED <<table, contended>>
     \/ /\ call[c].at = "inserting" /\ table[call[c].key].state = "none"
        /\ InsertRow(c)
        /\ UNCHANGED contended
     \/ call[c].at = "reclaiming" /\ ReclaimRow(c)
  /\ EndsCall(c, "error", NoValue)
  /\ UNCHANGED <<trail, handle>>

-----------------------------------------------------------------------------
(* The owner: score, make the audit event durable, complete *)

Scores(c, v) ==
  /\ call[c].at = "scoring"
  /\ call' = [call EXCEPT ![c].at = "auditing", ![c].verdict = v]
  /\ UNCHANGED <<table, trail, handle, contended>>

ScoringFails(c) ==
  /\ call[c].at = "scoring"
  /\ call' = [call EXCEPT ![c].at = "failing"]
  /\ UNCHANGED <<table, trail, handle, contended>>

\* The append returns, raises with the event written, or raises without it.
WritesEvent(c) ==
  /\ call[c].at = "auditing"
  /\ trail' = Append(trail, [key |-> call[c].key, input |-> call[c].input,
                             decision |-> call[c].verdict])
  /\ \E next \in {"completing", "failing"} :
       call' = [call EXCEPT ![c].audited = TRUE, ![c].at = next]
  /\ UNCHANGED <<table, handle, contended>>

EventFails(c) ==
  /\ call[c].at = "auditing"
  /\ call' = [call EXCEPT ![c].at = "failing"]
  /\ UNCHANGED <<table, trail, handle, contended>>

\* UPDATE ... WHERE key AND state = 'PENDING'; that no row matched is not
\* noticed.
CompleteRow(k, v) ==
  table' = IF table[k].state = "PENDING"
            THEN [table EXCEPT ![k].state = "COMPLETED", ![k].decision = v]
            ELSE table

Completes(c) ==
  /\ call[c].at = "completing" /\ FreeHandle(call[c].handle)
  /\ CompleteRow(call[c].key, call[c].verdict)
  /\ EndsCall(c, "decision", call[c].verdict)
  /\ UNCHANGED <<trail, handle, contended>>

\* The transaction fails and is rolled back, or COMMIT was applied and the
\* exception came after it (then ROLLBACK raises): the caller fails the row.
CompleteRaises(c) ==
  /\ call[c].at = "completing" /\ FreeHandle(call[c].handle)
  /\ \/ UNCHANGED table
     \/ CompleteRow(call[c].key, call[c].verdict)
  /\ call' = [call EXCEPT ![c].at = "failing"]
  /\ UNCHANGED <<trail, handle, contended>>

FailState(audited) == IF audited THEN "UNRESOLVED" ELSE "FAILED"

\* fail: whatever state the row is in.
FailsRow(c) ==
  /\ call[c].at = "failing" /\ FreeHandle(call[c].handle)
  /\ table' = [table EXCEPT ![call[c].key].state = FailState(call[c].audited)]
  /\ EndsCall(c, "error", NoValue)
  /\ UNCHANGED <<trail, handle, contended>>

FailRaises(c) ==
  /\ call[c].at = "failing" /\ FreeHandle(call[c].handle)
  /\ EndsCall(c, "error", NoValue)
  /\ UNCHANGED <<table, trail, handle, contended>>

-----------------------------------------------------------------------------
(* Handles *)

Recover ==
  table' = [k \in SqliteKeys |->
               IF table[k].state = "PENDING"
               THEN [table[k] EXCEPT !.state = "UNRESOLVED"] ELSE table[k]]

\* Another handle on the file, after a restart or beside the others.
OpensFile(h) ==
  /\ handle[h] = "closed"
  /\ handle' = [handle EXCEPT ![h] = "open"]
  /\ Recover
  /\ UNCHANGED <<trail, call, contended>>

\* The process of a handle dies, and its calls with it.
HandleDies(h) ==
  /\ handle[h] = "open"
  /\ handle' = [handle EXCEPT ![h] = "dead"]
  /\ call' = [c \in SqliteCallers |->
                IF (Claiming(c) \/ Underway(c)) /\ call[c].handle = h
                THEN [call[c] EXCEPT !.at = "ended", !.answer = "lost"] ELSE call[c]]
  /\ UNCHANGED <<table, trail, contended>>

SqliteStep(c) ==
  \/ \E h \in SqliteHandles, k \in SqliteKeys, i \in SqliteInputs :
       ReserveAsReader(c, h, k, i) \/ ReadsClaimable(c, h, k, i)
  \/ Inserts(c)
  \/ Reclaims(c)
  \/ ClaimRaises(c)
  \/ \E v \in SqliteVerdicts : Scores(c, v)
  \/ ScoringFails(c)
  \/ WritesEvent(c)
  \/ EventFails(c)
  \/ Completes(c)
  \/ CompleteRaises(c)
  \/ FailsRow(c)
  \/ FailRaises(c)

SqliteNext ==
  \/ \E c \in SqliteCallers : SqliteStep(c)
  \/ \E h \in SqliteHandles : OpensFile(h) \/ HandleDies(h)

SqliteSpec == SqliteInit /\ [][SqliteNext]_sqliteVars

\* Every handle is gone; unanswered calls can find none any more.
SqliteQuiet == \A h \in SqliteHandles : handle[h] = "dead"

-----------------------------------------------------------------------------
EventsOf(k) == {n \in DOMAIN trail : trail[n].key = k}

\* A key never gets a second audit event: not by a retry after an exception at
\* any step, not after a crash, not by two handles that insert it at once, not
\* when another handle recovers the file under a running owner and that owner's
\* fail comes late.  A completed row shows the decision of that event.  The one
\* way left: two handles read the same failed attempt and both claim it again.
OneEventPerKey ==
  \A k \in SqliteKeys \ contended :
    /\ \A m, n \in EventsOf(k) : m = n
    /\ table[k].state = "COMPLETED" =>
         \E n \in EventsOf(k) : trail[n].input = table[k].input
                                /\ trail[n].decision = table[k].decision

SqliteRows ==
  [state : {"none", "PENDING", "COMPLETED", "FAILED", "UNRESOLVED"},
   input : SqliteInputs \cup {NoValue}, decision : SqliteVerdicts \cup {NoValue}]

SqliteCalls ==
  [at : {"idle", "inserting", "reclaiming", "scoring", "auditing", "completing", "failing",
         "ended"},
   handle : SqliteHandles \cup {NoValue},
   key : SqliteKeys \cup {NoValue}, input : SqliteInputs \cup {NoValue},
   verdict : SqliteVerdicts \cup {NoValue}, audited : BOOLEAN,
   answer : {"none", "decision", "replay", "conflict", "unresolved", "error", "lost"}]

SqliteTypeOK ==
  /\ table \in [SqliteKeys -> SqliteRows]
  /\ trail \in Seq([key : SqliteKeys, input : SqliteInputs, decision : SqliteVerdicts])
  /\ call \in [SqliteCallers -> SqliteCalls]
  /\ handle \in [SqliteHandles -> {"closed", "open", "dead"}]
  /\ contended \in SUBSET SqliteKeys

\* What a call knows of its key whoever else works on it.
CallKnows(c) ==
  LET mine == table[call[c].key] IN
  /\ call[c].key \in SqliteKeys /\ call[c].input \in SqliteInputs
  /\ call[c].answer = "none"
  /\ Claiming(c) => ~call[c].audited
  /\ call[c].at # "inserting" => mine.state # "none" /\ mine.input = call[c].input
  /\ call[c].at \in {"scoring", "auditing"} => ~call[c].audited
  /\ call[c].at \in {"auditing", "completing"} => call[c].verdict \in SqliteVerdicts
  /\ call[c].at = "completing" => call[c].audited
  /\ call[c].audited =>
       \E n \in EventsOf(call[c].key) :
          trail[n].input = call[c].input /\ trail[n].decision = call[c].verdict

\* Why OneEventPerKey holds of a key that was never contended: it has one owner
\* under way at a time, only an owner that has not written its event can meet
\* it without one, and while it may be claimed it has none.
KeyIsExclusive(k) ==
  /\ \A c, d \in SqliteCallers :
       Underway(c) /\ Underway(d) /\ call[c].key = k /\ call[d].key = k => c = d
  /\ \A c \in SqliteCallers : Underway(c) /\ call[c].key = k =>
       /\ table[k].state # "FAILED"
       /\ call[c].at \in {"scoring", "auditing"} => table[k].state # "COMPLETED"
       /\ ~call[c].audited => EventsOf(k) = {}
  /\ \A c \in SqliteCallers : call[c].at = "reclaiming" /\ call[c].key = k =>
       table[k].state = "FAILED"
  /\ table[k].state \in {"none", "FAILED"} => EventsOf(k) = {}

OwnersExclude ==
  /\ \A c \in SqliteCallers : Claiming(c) \/ Underway(c) => CallKnows(c)
  /\ \A k \in SqliteKeys \ contended : KeyIsExclusive(k)

\* A key that was never contended has one event at most.
DecidedFor(k) ==
  IF EventsOf(k) = {} THEN NoValue ELSE trail[CHOOSE n \in EventsOf(k) : TRUE].decision

SqliteShown(c) ==
  CASE call[c].answer \in {"decision", "replay"} ->
         [key |-> call[c].key, digest |-> call[c].input,
          outcome |-> "decision", decision |-> call[c].verdict]
    [] call[c].answer = "conflict" ->
         [key |-> call[c].key, digest |-> call[c].input,
          outcome |-> "conflict", decision |-> NoValue]
    [] OTHER -> [key |-> NoValue, digest |-> NoValue,
                 outcome |-> "nothing", decision |-> NoValue]

SqliteLedger == INSTANCE DecisionLedger WITH
  Keys <- SqliteKeys, Digests <- SqliteInputs, Decisions <- SqliteVerdicts,
  Requests <- SqliteCallers, None <- NoValue,
  binding  <- [k \in SqliteKeys |-> table[k].input],
  decision <- [k \in SqliteKeys |-> DecidedFor(k)],
  shown    <- [c \in SqliteCallers |-> SqliteShown(c)]

\* A step of the prototype, and of no call on a key that was contended.
OnUncontended ==
  /\ sqliteVars' # sqliteVars
  /\ \A c \in SqliteCallers : call'[c] # call[c] => call'[c].key \notin contended'

\* The prototype implements the abstract ledger: the digest of a row binds the
\* key for good, the durable audit event decides it (the row may lose the
\* decision to a recovery, the event stays), an answer shows it.  Two claims of
\* one failed attempt at once forfeit the promise for the calls on that key.
SqliteImplementsLedger ==
  /\ SqliteLedger!Init
  /\ [][OnUncontended => [SqliteLedger!Next]_SqliteLedger!vars]_sqliteVars

=============================================================================

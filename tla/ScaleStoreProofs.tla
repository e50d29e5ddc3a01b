--------------------------- MODULE ScaleStoreProofs ---------------------------
(***************************************************************************)
(* The safety of ScaleStore for every value of its constants.              *)
(*                                                                         *)
(* StoreInvariant is inductive: one lemma per action shows that the action *)
(* keeps it (most actions leave the store alone, see StoreFrame; the work  *)
(* is in ReservationKeeps, RecordFailureStep and CommitStep), NextStep     *)
(* puts them together, and the theorems read the properties off it.        *)
(***************************************************************************)
EXTENDS ScaleStore, TLAPS

\* What the invariant says of the committed store alone.
StoredState ==
  RowsWellFormed /\ EventKeys /\ ChainContiguous /\ CompletedIffAudited /\ ScoredOnce

\* A step that writes neither the store nor the history of scorers keeps them.
LEMMA StoreFrame ==
  ASSUME StoredState, UNCHANGED <<dbVars, scorers>>
  PROVE  StoredState'
BY DEF StoredState, RowsWellFormed, EventKeys, ChainContiguous, CompletedIffAudited,
       ScoredOnce, dbVars, ChainValid, HashAt, LinksConsistent, Hash

\* _from_row never invents an answer: a success is the stored one of the
\* caller's own input.
LEMMA ObservedAnswer ==
  ASSUME NEW r \in Requests
  PROVE  /\ Observed(r).kind \in Kinds
         /\ Observed(r).kind = "success" =>
              /\ row[key[r]].state = "completed"
              /\ row[key[r]].digest = digest[r]
              /\ Observed(r) = Success(row[key[r]].response, row[key[r]].receipt)
<1> DEFINE stored == row[key[r]]
<1>1. CASE stored.digest # digest[r]
  BY <1>1 DEF Observed, Refusal, Kinds
<1>2. CASE stored.digest = digest[r] /\ stored.state = "completed"
  BY <1>2 DEF Observed, StoredAnswer, Success, Kinds
<1>3. CASE stored.digest = digest[r] /\ stored.state # "completed"
  BY <1>3 DEF Observed, Refusal, Waiting, Kinds
<1> QED
  BY <1>1, <1>2, <1>3

\* Entering execute_detailed only names the key and the input of a request.
LEMMA ArriveStep ==
  ASSUME StoreInvariant, NEW r \in Requests, NEW p \in Processes, NEW k \in Keys, NEW d \in Digests, Arrive(r, p, k, d)
  PROVE  StoreInvariant'
<1> USE DEF StoreInvariant
<1>1. UNCHANGED <<dbVars, scorers>>
  BY DEF Arrive, dbVars, requestVars
<1>2. TypeOK'
  BY DEF Arrive, TypeOK, States, Points, Kinds, Refusal, Success, Waiting, dbVars,
         requestVars, txVars, processVars, EventsStored
<1>3. RequestsInOrder'
  BY DEF Arrive, TypeOK, RequestsInOrder, Refusal, Success, Waiting, Open,
         requestVars, txVars
<1>4. LocksProtect'
  BY DEF Arrive, TypeOK, RequestsInOrder, LocksProtect, Open, EventFor, CompletedRow,
         dbVars, requestVars, txVars
<1>5. AnswersAreDurable'
  BY DEF Arrive, TypeOK, RequestsInOrder, LocksProtect, AnswersAreDurable, Refusal,
         Success, Waiting, CompletedRow, dbVars, requestVars, txVars
<1> QED
  BY <1>1, <1>2, <1>3, <1>4, <1>5, StoreFrame DEF StoredState

\* A request that finds the key taken reads the row and changes nothing stored.
LEMMA ReserveObserverStep ==
  ASSUME StoreInvariant, NEW r \in Requests, ReserveObserver(r)
  PROVE  StoreInvariant'
<1> USE DEF StoreInvariant
<1>1. UNCHANGED <<dbVars, scorers>>
  BY DEF ReserveObserver, dbVars, requestVars
<1>2. \/ answer' = answer /\ pc' = [pc EXCEPT ![r] = "polling"]
      \/ answer' = [answer EXCEPT ![r] = Observed(r)] /\ pc' = [pc EXCEPT ![r] = "done"]
  BY DEF ReserveObserver, Finish
<1>3. TypeOK'
  <2>1. /\ DOMAIN answer' = Requests
        /\ \A q \in Requests : answer'[q].kind \in Kinds
    BY <1>2, ObservedAnswer DEF TypeOK
  <2>2. pc' \in [Requests -> Points] /\ pc[r] # "new"
    BY <1>2 DEF ReserveObserver, TypeOK, Points
  <2>3. \A q \in Requests : pc'[q] # "new" => pc[q] # "new"
    BY <1>2, <2>2 DEF TypeOK
  <2> QED
    BY <2>1, <2>2, <2>3 DEF ReserveObserver, TypeOK, dbVars, txVars, processVars, EventsStored
<1>4. RequestsInOrder'
  BY <1>2, SMTT(30) DEF ReserveObserver, TypeOK, RequestsInOrder, txVars
<1>5. LocksProtect'
  BY DEF ReserveObserver, LocksProtect, Open, EventFor, CompletedRow, dbVars, txVars
<1>6. AnswersAreDurable'
  <2>1. UNCHANGED <<row, key, digest>>
    BY DEF ReserveObserver, dbVars
  <2>2. CASE answer' = answer /\ pc' = [pc EXCEPT ![r] = "polling"]
    BY <2>1, <2>2 DEF TypeOK, AnswersAreDurable
  <2>3. CASE /\ answer' = [answer EXCEPT ![r] = Observed(r)]
             /\ pc' = [pc EXCEPT ![r] = "done"]
    <3>1. \A q \in Requests :
            answer'[q] = IF q = r THEN Observed(r) ELSE answer[q]
      BY <2>3 DEF TypeOK
    <3>2. \A q \in Requests : q # r => pc'[q] = pc[q]
      BY <2>3 DEF TypeOK
    <3> QED
      BY <2>1, <3>1, <3>2, ObservedAnswer DEF AnswersAreDurable
  <2> QED
    BY <1>2, <2>2, <2>3
<1> QED
  BY <1>1, <1>3, <1>4, <1>5, <1>6, StoreFrame DEF StoredState

\* One successful read of wait_for_reservation changes nothing stored.
LEMMA PollStep ==
  ASSUME StoreInvariant, NEW r \in Requests, Poll(r)
  PROVE  StoreInvariant'
<1> USE DEF StoreInvariant
<1>1. UNCHANGED <<dbVars, scorers>>
  BY DEF Poll, dbVars, requestVars
<1>2. \/ answer' = answer /\ pc' = [pc EXCEPT ![r] = "polling"]
      \/ answer' = [answer EXCEPT ![r] = Observed(r)] /\ pc' = [pc EXCEPT ![r] = "done"]
  BY DEF Poll, Finish
<1>3. TypeOK'
  <2>1. /\ DOMAIN answer' = Requests
        /\ \A q \in Requests : answer'[q].kind \in Kinds
    BY <1>2, ObservedAnswer DEF TypeOK
  <2>2. pc' \in [Requests -> Points] /\ pc[r] # "new"
    BY <1>2 DEF Poll, TypeOK, Points
  <2>3. \A q \in Requests : pc'[q] # "new" => pc[q] # "new"
    BY <1>2, <2>2 DEF TypeOK
  <2> QED
    BY <2>1, <2>2, <2>3 DEF Poll, TypeOK, dbVars, txVars, processVars, EventsStored
<1>4. RequestsInOrder'
  BY <1>2 DEF Poll, TypeOK, RequestsInOrder, txVars
<1>5. LocksProtect'
  BY DEF Poll, LocksProtect, Open, EventFor, CompletedRow, dbVars, txVars
<1>6. AnswersAreDurable'
  <2>1. UNCHANGED <<row, key, digest>>
    BY DEF Poll, dbVars
  <2>2. CASE answer' = answer /\ pc' = [pc EXCEPT ![r] = "polling"]
    BY <2>1, <2>2 DEF TypeOK, AnswersAreDurable
  <2>3. CASE /\ answer' = [answer EXCEPT ![r] = Observed(r)]
             /\ pc' = [pc EXCEPT ![r] = "done"]
    <3>1. \A q \in Requests :
            answer'[q] = IF q = r THEN Observed(r) ELSE answer[q]
      BY <2>3 DEF TypeOK
    <3>2. \A q \in Requests : q # r => pc'[q] = pc[q]
      BY <2>3 DEF TypeOK
    <3> QED
      BY <2>1, <3>1, <3>2, ObservedAnswer DEF AnswersAreDurable
  <2> QED
    BY <1>2, <2>2, <2>3
<1> QED
  BY <1>1, <1>3, <1>4, <1>5, <1>6, StoreFrame DEF StoredState

\* The bounded wait ends in a refusal.
LEMMA PollDeadlineStep ==
  ASSUME StoreInvariant, NEW r \in Requests, PollDeadline(r)
  PROVE  StoreInvariant'
<1> USE DEF StoreInvariant
<1>1. UNCHANGED <<dbVars, scorers>>
  BY DEF PollDeadline, dbVars, requestVars
<1>2. TypeOK'
  BY DEF PollDeadline, Finish, TypeOK, States, Points, Kinds, Refusal, Success, Waiting, dbVars,
         requestVars, txVars, processVars, EventsStored
<1>3. RequestsInOrder'
  BY DEF PollDeadline, Finish, TypeOK, RequestsInOrder, Refusal, Success, Waiting, Open,
         requestVars, txVars
<1>4. LocksProtect'
  BY DEF PollDeadline, Finish, TypeOK, RequestsInOrder, LocksProtect, Open, EventFor, CompletedRow,
         dbVars, requestVars, txVars
<1>5. AnswersAreDurable'
  BY DEF PollDeadline, Finish, TypeOK, RequestsInOrder, LocksProtect, AnswersAreDurable, Refusal,
         Success, Waiting, CompletedRow, dbVars, requestVars, txVars
<1> QED
  BY <1>1, <1>2, <1>3, <1>4, <1>5, StoreFrame DEF StoredState

\* A database error before the request owns anything ends in a refusal.
LEMMA StoreErrorStep ==
  ASSUME StoreInvariant, NEW r \in Requests, StoreError(r)
  PROVE  StoreInvariant'
<1> USE DEF StoreInvariant
<1>1. UNCHANGED <<dbVars, scorers>>
  BY DEF StoreError, dbVars, requestVars
<1>2. TypeOK'
  BY DEF StoreError, Finish, TypeOK, States, Points, Kinds, Refusal, Success, Waiting, dbVars,
         requestVars, txVars, processVars, EventsStored
<1>3. RequestsInOrder'
  BY DEF StoreError, Finish, TypeOK, RequestsInOrder, Refusal, Success, Waiting, Open,
         requestVars, txVars
<1>4. LocksProtect'
  BY DEF StoreError, Finish, TypeOK, RequestsInOrder, LocksProtect, Open, EventFor, CompletedRow,
         dbVars, requestVars, txVars
<1>5. AnswersAreDurable'
  BY DEF StoreError, Finish, TypeOK, RequestsInOrder, LocksProtect, AnswersAreDurable, Refusal,
         Success, Waiting, CompletedRow, dbVars, requestVars, txVars
<1> QED
  BY <1>1, <1>2, <1>3, <1>4, <1>5, StoreFrame DEF StoredState

\* From here on the request holds a decision it may stage.
LEMMA ScoreSucceedsStep ==
  ASSUME StoreInvariant, NEW r \in Requests, NEW v \in Decisions, ScoreSucceeds(r, v)
  PROVE  StoreInvariant'
<1> USE DEF StoreInvariant
<1>1. UNCHANGED <<dbVars, scorers>>
  BY DEF ScoreSucceeds, dbVars, requestVars
<1>2. TypeOK'
  BY DEF ScoreSucceeds, TypeOK, States, Points, Kinds, Refusal, Success, Waiting, dbVars,
         requestVars, txVars, processVars, EventsStored
<1>3. RequestsInOrder'
  BY DEF ScoreSucceeds, TypeOK, RequestsInOrder, Refusal, Success, Waiting, Open,
         requestVars, txVars
<1>4. LocksProtect'
  BY DEF ScoreSucceeds, TypeOK, RequestsInOrder, LocksProtect, Open, EventFor, CompletedRow,
         dbVars, requestVars, txVars
<1>5. AnswersAreDurable'
  BY DEF ScoreSucceeds, TypeOK, RequestsInOrder, LocksProtect, AnswersAreDurable, Refusal,
         Success, Waiting, CompletedRow, dbVars, requestVars, txVars
<1> QED
  BY <1>1, <1>2, <1>3, <1>4, <1>5, StoreFrame DEF StoredState

\* A failed operation is only recorded by a later fail().
LEMMA ScoreFailsStep ==
  ASSUME StoreInvariant, NEW r \in Requests, ScoreFails(r)
  PROVE  StoreInvariant'
<1> USE DEF StoreInvariant
<1>1. UNCHANGED <<dbVars, scorers>>
  BY DEF ScoreFails, dbVars, requestVars
<1>2. TypeOK'
  BY DEF ScoreFails, FailWith, TypeOK, States, Points, Kinds, Refusal, Success, Waiting, dbVars,
         requestVars, txVars, processVars, EventsStored
<1>3. RequestsInOrder'
  BY DEF ScoreFails, FailWith, TypeOK, RequestsInOrder, Refusal, Success, Waiting, Open,
         requestVars, txVars
<1>4. LocksProtect'
  BY DEF ScoreFails, FailWith, TypeOK, RequestsInOrder, LocksProtect, Open, EventFor, CompletedRow,
         dbVars, requestVars, txVars
<1>5. AnswersAreDurable'
  BY DEF ScoreFails, FailWith, TypeOK, RequestsInOrder, LocksProtect, AnswersAreDurable, Refusal,
         Success, Waiting, CompletedRow, dbVars, requestVars, txVars
<1> QED
  BY <1>1, <1>2, <1>3, <1>4, <1>5, StoreFrame DEF StoredState

\* Taking the gate of the process locks nothing in the database.
LEMMA EnterGateStep ==
  ASSUME StoreInvariant, NEW r \in Requests, EnterGate(r)
  PROVE  StoreInvariant'
<1> USE DEF StoreInvariant
<1>1. UNCHANGED <<dbVars, scorers>>
  BY DEF EnterGate, dbVars, requestVars
<1>2. TypeOK'
  BY DEF EnterGate, TypeOK, States, Points, Kinds, Refusal, Success, Waiting, dbVars,
         requestVars, txVars, processVars, EventsStored
<1>3. RequestsInOrder'
  BY DEF EnterGate, TypeOK, RequestsInOrder, Refusal, Success, Waiting, Open,
         requestVars, txVars
<1>4. LocksProtect'
  BY DEF EnterGate, TypeOK, RequestsInOrder, LocksProtect, Open, EventFor, CompletedRow,
         dbVars, requestVars, txVars
<1>5. AnswersAreDurable'
  BY DEF EnterGate, TypeOK, RequestsInOrder, LocksProtect, AnswersAreDurable, Refusal,
         Success, Waiting, CompletedRow, dbVars, requestVars, txVars
<1> QED
  BY <1>1, <1>2, <1>3, <1>4, <1>5, StoreFrame DEF StoredState

\* The row lock is granted when no other transaction has it, and kept only if
\* the locked row is the caller's own live reservation.
LEMMA LockRowStep ==
  ASSUME StoreInvariant, NEW r \in Requests, LockRow(r)
  PROVE  StoreInvariant'
<1> USE DEF StoreInvariant
<1>1. UNCHANGED <<dbVars, scorers>>
  BY DEF LockRow, dbVars, requestVars
<1>2. TypeOK'
  <2>1. CASE MayComplete(r)
    BY <2>1, SMTT(30) DEF LockRow, TypeOK, dbVars, requestVars, txVars, processVars, EventsStored
  <2>2. CASE ~MayComplete(r)
    <3>1. /\ pc' = [pc EXCEPT ![r] = "failing"]
          /\ answer' = [answer EXCEPT ![r] = Refusal("stale")]
          /\ pc[r] = "completing"
          /\ UNCHANGED tx
      BY <2>2 DEF LockRow, FailWith
    <3> QED
      BY <3>1 DEF LockRow, Refusal, TypeOK, Points, Kinds, dbVars, processVars,
         EventsStored
  <2> QED
    BY <2>1, <2>2
<1>3. RequestsInOrder'
  BY SMTT(30) DEF LockRow, FailWith, Refusal, TypeOK, RequestsInOrder
<1>4. LocksProtect'
  <2>1. CASE MayComplete(r)
    <3>1. tx' = [tx EXCEPT ![r] = "rowLocked"]
      BY <2>1 DEF LockRow
    <3>2. \A q \in Requests : Open(q) => key[q] # key[r]
      BY DEF LockRow, RowLocked
    <3>3. UNCHANGED <<row, head, key, digest, scored, staged>>
      BY DEF LockRow, dbVars
    <3>4. row[key[r]].state = "reserved" /\ row[key[r]].digest = digest[r]
      BY <2>1 DEF MayComplete
    <3> QED
      BY <3>1, <3>2, <3>3, <3>4 DEF TypeOK, LocksProtect, Open, EventFor, CompletedRow, Hash
  <2>2. CASE ~MayComplete(r)
    BY <2>2 DEF LockRow, LocksProtect, Open, EventFor, CompletedRow, dbVars
  <2> QED
    BY <2>1, <2>2
<1>5. AnswersAreDurable'
  <2>1. UNCHANGED <<row, key, digest>>
    BY DEF LockRow, dbVars
  <2>2. ASSUME NEW q \in Requests, pc'[q] = "done", answer'[q].kind = "success"
        PROVE  pc[q] = "done" /\ answer'[q] = answer[q]
    BY <2>2 DEF LockRow, FailWith, Refusal, TypeOK
  <2> QED
    BY <2>1, <2>2 DEF AnswersAreDurable
<1> QED
  BY <1>1, <1>2, <1>3, <1>4, <1>5, StoreFrame DEF StoredState

\* The head lock makes the staged event the only candidate for the next place
\* in the chain.
LEMMA StageCompletionStep ==
  ASSUME StoreInvariant, NEW r \in Requests, StageCompletion(r)
  PROVE  StoreInvariant'
<1> USE DEF StoreInvariant
<1>1. UNCHANGED <<dbVars, scorers>>
  BY DEF StageCompletion, dbVars, requestVars
<1>2. TypeOK'
  BY DEF StageCompletion, EventFor, TypeOK, dbVars, requestVars, processVars, EventsStored
<1>3. RequestsInOrder'
  BY DEF StageCompletion, TypeOK, RequestsInOrder, requestVars
<1>4. LocksProtect'
  <2>1. /\ tx' = [tx EXCEPT ![r] = "staged"]
        /\ staged' = [staged EXCEPT ![r] = EventFor(r)]
        /\ tx[r] = "rowLocked"
        /\ UNCHANGED <<row, head, key, digest, scored>>
    BY DEF StageCompletion, dbVars, requestVars
  <2>2. \A q \in Requests : tx[q] # "staged"
    BY DEF StageCompletion, HeadLocked
  <2>3. \A q \in Requests : EventFor(q)' = EventFor(q)
    BY <2>1 DEF EventFor
  <2>4. \A q \in Requests : tx'[q] = IF q = r THEN "staged" ELSE tx[q]
    BY <2>1 DEF TypeOK
  <2>5. \A q \in Requests : staged'[q] = IF q = r THEN EventFor(r) ELSE staged[q]
    BY <2>1 DEF TypeOK
  <2>6. \A q \in Requests : Open(q)' <=> Open(q)
    BY <2>1, <2>4 DEF Open
  <2>7. \A q \in Requests : tx'[q] = "staged" => q = r
    BY <2>2, <2>4
  <2> QED
    BY <2>1, <2>3, <2>4, <2>5, <2>6, <2>7 DEF LocksProtect, Open
<1>5. AnswersAreDurable'
  BY DEF StageCompletion, AnswersAreDurable, dbVars, requestVars
<1> QED
  BY <1>1, <1>2, <1>3, <1>4, <1>5, StoreFrame DEF StoredState

\* What the owner sends is what its applied COMMIT stored.
LEMMA AcknowledgeStep ==
  ASSUME StoreInvariant, NEW r \in Requests, Acknowledge(r)
  PROVE  StoreInvariant'
<1> USE DEF StoreInvariant
<1>1. UNCHANGED <<dbVars, scorers>>
  BY DEF Acknowledge, dbVars, requestVars
<1>2. TypeOK'
  BY DEF Acknowledge, Finish, Success, TypeOK, Points, Kinds, dbVars, txVars,
     processVars, EventsStored
<1>3. RequestsInOrder'
  BY DEF Acknowledge, Finish, TypeOK, RequestsInOrder, txVars
<1>4. LocksProtect'
  BY DEF Acknowledge, LocksProtect, Open, EventFor, CompletedRow, dbVars, txVars
<1>5. AnswersAreDurable'
  <2>1. row[key[r]] = CompletedRow(row[key[r]], scored[r], Hash(staged[r]))
        /\ row[key[r]].digest = digest[r]
    BY DEF Acknowledge, LocksProtect
  <2>2. /\ row[key[r]].state = "completed"
        /\ row[key[r]].response = scored[r]
        /\ row[key[r]].receipt = Hash(staged[r])
    BY <2>1 DEF CompletedRow
  <2>3. /\ answer' = [answer EXCEPT ![r] = Success(scored[r], Hash(staged[r]))]
        /\ pc' = [pc EXCEPT ![r] = "done"]
        /\ UNCHANGED <<row, key, digest>>
    BY DEF Acknowledge, Finish, dbVars
  <2> QED
    BY <2>1, <2>2, <2>3 DEF TypeOK, AnswersAreDurable
<1> QED
  BY <1>1, <1>2, <1>3, <1>4, <1>5, StoreFrame DEF StoredState

\* An error of complete_reservation leaves its transaction to the server.
LEMMA CompletionErrorStep ==
  ASSUME StoreInvariant, NEW r \in Requests, CompletionError(r)
  PROVE  StoreInvariant'
<1> USE DEF StoreInvariant
<1>1. UNCHANGED <<dbVars, scorers>>
  BY DEF CompletionError, dbVars, requestVars
<1>2. TypeOK'
  BY DEF CompletionError, FailWith, TypeOK, States, Points, Kinds, Refusal, Success, Waiting, dbVars,
         requestVars, txVars, processVars, EventsStored
<1>3. RequestsInOrder'
  BY DEF CompletionError, FailWith, TypeOK, RequestsInOrder, Refusal, Success, Waiting, Open,
         requestVars, txVars
<1>4. LocksProtect'
  BY DEF CompletionError, FailWith, TypeOK, RequestsInOrder, LocksProtect, Open, EventFor, CompletedRow,
         dbVars, requestVars, txVars
<1>5. AnswersAreDurable'
  BY DEF CompletionError, FailWith, TypeOK, RequestsInOrder, LocksProtect, AnswersAreDurable, Refusal,
         Success, Waiting, CompletedRow, dbVars, requestVars, txVars
<1> QED
  BY <1>1, <1>2, <1>3, <1>4, <1>5, StoreFrame DEF StoredState

\* A rollback forgets the staged event and frees both locks.
LEMMA RollbackStep ==
  ASSUME StoreInvariant, NEW r \in Requests, Rollback(r)
  PROVE  StoreInvariant'
<1> USE DEF StoreInvariant
<1>1. UNCHANGED <<dbVars, scorers>>
  BY DEF Rollback, dbVars, requestVars
<1>2. TypeOK'
  BY DEF Rollback, NoEvent, TypeOK, States, Points, Kinds, Refusal, Success, Waiting, dbVars,
         requestVars, txVars, processVars, EventsStored
<1>3. RequestsInOrder'
  BY DEF Rollback, NoEvent, TypeOK, RequestsInOrder, Refusal, Success, Waiting, Open,
         requestVars, txVars
<1>4. LocksProtect'
  BY DEF Rollback, NoEvent, TypeOK, RequestsInOrder, LocksProtect, Open, EventFor, CompletedRow,
         dbVars, requestVars, txVars
<1>5. AnswersAreDurable'
  BY DEF Rollback, NoEvent, TypeOK, RequestsInOrder, LocksProtect, AnswersAreDurable, Refusal,
         Success, Waiting, CompletedRow, dbVars, requestVars, txVars
<1> QED
  BY <1>1, <1>2, <1>3, <1>4, <1>5, StoreFrame DEF StoredState

\* A swallowed error of fail() leaves the row as it was.
LEMMA FailureNotRecordedStep ==
  ASSUME StoreInvariant, NEW r \in Requests, FailureNotRecorded(r)
  PROVE  StoreInvariant'
<1> USE DEF StoreInvariant
<1>1. UNCHANGED <<dbVars, scorers>>
  BY DEF FailureNotRecorded, dbVars, requestVars
<1>2. TypeOK'
  BY DEF FailureNotRecorded, TypeOK, States, Points, Kinds, Refusal, Success, Waiting, dbVars,
         requestVars, txVars, processVars, EventsStored
<1>3. RequestsInOrder'
  BY DEF FailureNotRecorded, TypeOK, RequestsInOrder, Refusal, Success, Waiting, Open,
         requestVars, txVars
<1>4. LocksProtect'
  BY DEF FailureNotRecorded, TypeOK, RequestsInOrder, LocksProtect, Open, EventFor, CompletedRow,
         dbVars, requestVars, txVars
<1>5. AnswersAreDurable'
  BY DEF FailureNotRecorded, TypeOK, RequestsInOrder, LocksProtect, AnswersAreDurable, Refusal,
         Success, Waiting, CompletedRow, dbVars, requestVars, txVars
<1> QED
  BY <1>1, <1>2, <1>3, <1>4, <1>5, StoreFrame DEF StoredState

\* reserve adds one reserved row under a key that had none: nothing else of the
\* store moves, so the request may then go to scoring or end.
LEMMA ReservationFacts ==
  ASSUME StoreInvariant, NEW r \in Requests, pc[r] = "reserving",
         row[key[r]].state = "absent", InsertReservation(r)
  PROVE  /\ key[r] \in Keys /\ digest[r] \in Digests
         /\ \A k \in Keys : row'[k] = IF k = key[r]
                                      THEN ReservedRow(digest[r], now + TTL)
                                      ELSE row[k]
         /\ DOMAIN row' = Keys
         /\ now + TTL \in Nat
         /\ scorers[key[r]] = {}
         /\ \A i \in DOMAIN events : events[i].key # key[r]
         /\ \A q \in Requests : tx[q] # "none" => key[q] # key[r]
<1>1. key[r] \in Keys /\ digest[r] \in Digests
  BY DEF StoreInvariant, TypeOK
<1>2. now + TTL \in Nat
  BY ScaleAssumption DEF StoreInvariant, TypeOK
<1>3. /\ DOMAIN row' = Keys
      /\ \A k \in Keys : row'[k] = IF k = key[r]
                                   THEN ReservedRow(digest[r], now + TTL)
                                   ELSE row[k]
  BY <1>1 DEF InsertReservation, StoreInvariant, TypeOK
<1>4. scorers[key[r]] = {}
  BY <1>1 DEF StoreInvariant, RowsWellFormed
<1>5. \A i \in DOMAIN events : events[i].key # key[r]
  BY DEF StoreInvariant, CompletedIffAudited, LinksConsistent
<1>6. ASSUME NEW q \in Requests, tx[q] # "none", key[q] = key[r] PROVE FALSE
  <2>1. tx[q] \in {"none", "rowLocked", "staged", "committed"}
    BY DEF StoreInvariant, TypeOK
  <2>2. row[key[q]].state = "absent"
    BY <1>6
  <2>3. CASE Open(q)
    BY <2>2, <2>3 DEF StoreInvariant, LocksProtect
  <2>4. CASE tx[q] = "committed"
    <3>1. row[key[q]] = CompletedRow(row[key[q]], scored[q], Hash(staged[q]))
      BY <2>4 DEF StoreInvariant, LocksProtect
    <3>2. CompletedRow(row[key[q]], scored[q], Hash(staged[q])).state = "completed"
      BY DEF CompletedRow
    <3> QED
      BY <2>2, <3>1, <3>2
  <2> QED
    BY <1>6, <2>1, <2>3, <2>4 DEF Open
<1> QED
  BY <1>1, <1>2, <1>3, <1>4, <1>5, <1>6

\* What a new reservation preserves, whoever learns of it.
LEMMA ReservationKeeps ==
  ASSUME StoreInvariant, NEW r \in Requests, pc[r] = "reserving",
         row[key[r]].state = "absent", InsertReservation(r),
         UNCHANGED <<head, events, now, home, key, digest, scored, txVars,
                     processVars>>,
         scorers' \in [Keys -> SUBSET Requests],
         \A k \in Keys : scorers'[k] = scorers[k] \/ (k = key[r] /\ scorers'[k] = {r})
  PROVE  StoredState' /\ LocksProtect'
<1>0. /\ key[r] \in Keys /\ digest[r] \in Digests
      /\ \A k \in Keys : row'[k] = IF k = key[r]
                                   THEN ReservedRow(digest[r], now + TTL)
                                   ELSE row[k]
      /\ DOMAIN row' = Keys
      /\ now + TTL \in Nat
      /\ scorers[key[r]] = {}
      /\ \A i \in DOMAIN events : events[i].key # key[r]
      /\ \A q \in Requests : tx[q] # "none" => key[q] # key[r]
  BY ReservationFacts
<1>1. row'[key[r]].state = "reserved" /\ row'[key[r]].digest = digest[r]
      /\ row'[key[r]].response = None
  BY <1>0 DEF ReservedRow
<1>2. RowsWellFormed'
  BY <1>0, <1>1 DEF StoreInvariant, RowsWellFormed, AbsentRow
<1>3. EventKeys' /\ ChainContiguous'
  BY DEF StoreInvariant, EventKeys, ChainContiguous, ChainValid, HashAt, Hash
<1>4. CompletedIffAudited'
  <2>1. \A i \in DOMAIN events : events[i].key \in Keys /\ row'[events[i].key] = row[events[i].key]
    BY <1>0 DEF StoreInvariant, EventKeys
  <2>2. \A k \in Keys : row'[k].state = "completed" => row'[k] = row[k]
    BY <1>0, <1>1
  <2> QED
    BY <2>1, <2>2 DEF StoreInvariant, CompletedIffAudited, LinksConsistent, Hash
<1>5. ScoredOnce'
  BY <1>0 DEF StoreInvariant, ScoredOnce
<1>6. LocksProtect'
  <2>1. \A q \in Requests : tx[q] # "none" => row'[key[q]] = row[key[q]]
    <3>1. \A q \in Requests : tx[q] # "none" => key[q] \in Keys
      BY DEF StoreInvariant, TypeOK
    <3> QED
      BY <1>0, <3>1
  <2>2. UNCHANGED <<tx, staged, key, digest, scored, head>>
    BY DEF txVars
  <2> QED
    BY <2>1, <2>2 DEF StoreInvariant, LocksProtect, Open, EventFor, CompletedRow, Hash
<1> QED
  BY <1>2, <1>3, <1>4, <1>5, <1>6 DEF StoredState

\* A reservation rewrites no row a sent success refers to.
LEMMA ReservationAnswers ==
  ASSUME StoreInvariant, NEW r \in Requests, pc[r] = "reserving",
         row[key[r]].state = "absent", InsertReservation(r), UNCHANGED <<key, digest>>
  PROVE  \A q \in Requests :
           pc[q] = "done" /\ answer[q].kind = "success" =>
             /\ row'[key[q]].state = "completed"
             /\ row'[key[q]].digest = digest[q]
             /\ answer[q] = Success(row'[key[q]].response, row'[key[q]].receipt)
<1>1. \A q \in Requests : pc[q] = "done" /\ answer[q].kind = "success" =>
         key[q] # key[r] /\ key[q] \in Keys
  BY DEF StoreInvariant, AnswersAreDurable, TypeOK
<1> QED
  BY <1>1, ReservationFacts DEF StoreInvariant, AnswersAreDurable

\* Winning the insert makes the request the first and only scorer of the key.
LEMMA ReserveOwnerStep ==
  ASSUME StoreInvariant, NEW r \in Requests, ReserveOwner(r)
  PROVE  StoreInvariant'
<1>1. /\ pc[r] = "reserving"
      /\ row[key[r]].state = "absent"
      /\ InsertReservation(r)
      /\ pc' = [pc EXCEPT ![r] = "scoring"]
      /\ scorers' = [scorers EXCEPT ![key[r]] = @ \cup {r}]
      /\ UNCHANGED <<head, events, now, home, key, digest, scored, answer, txVars,
                     processVars>>
  BY DEF ReserveOwner
<1>2. /\ key[r] \in Keys /\ digest[r] \in Digests
      /\ \A k \in Keys : row'[k] = IF k = key[r]
                                   THEN ReservedRow(digest[r], now + TTL)
                                   ELSE row[k]
      /\ DOMAIN row' = Keys
      /\ now + TTL \in Nat
      /\ scorers[key[r]] = {}
  BY <1>1, ReservationFacts
<1>3. /\ scorers' \in [Keys -> SUBSET Requests]
      /\ \A k \in Keys : scorers'[k] = scorers[k] \/ (k = key[r] /\ scorers'[k] = {r})
  BY <1>1, <1>2 DEF StoreInvariant, TypeOK
<1>4. StoredState' /\ LocksProtect'
  BY <1>1, <1>3, ReservationKeeps
<1>5. pc' \in [Requests -> Points]
  BY <1>1 DEF StoreInvariant, TypeOK, Points
<1>6. TypeOK'
  BY <1>1, <1>2, <1>3, <1>5
     DEF StoreInvariant, TypeOK, ReservedRow, States, txVars, processVars, EventsStored
<1>7. RequestsInOrder'
  BY <1>1 DEF StoreInvariant, TypeOK, RequestsInOrder, txVars
<1>8. AnswersAreDurable'
  BY <1>1, ReservationAnswers DEF StoreInvariant, TypeOK, AnswersAreDurable
<1> QED
  BY <1>4, <1>6, <1>7, <1>8 DEF StoreInvariant, StoredState

\* An insert whose acknowledgement is lost leaves a reservation without owner.
LEMMA ReserveUnacknowledgedStep ==
  ASSUME StoreInvariant, NEW r \in Requests, ReserveUnacknowledged(r)
  PROVE  StoreInvariant'
<1>1. /\ pc[r] = "reserving"
      /\ row[key[r]].state = "absent"
      /\ InsertReservation(r)
      /\ pc' = [pc EXCEPT ![r] = "done"]
      /\ answer' = [answer EXCEPT ![r] = Refusal("unavailable")]
      /\ UNCHANGED <<head, events, now, home, key, digest, scored, scorers, txVars,
                     processVars>>
  BY DEF ReserveUnacknowledged, Finish
<1>2. /\ key[r] \in Keys /\ digest[r] \in Digests
      /\ \A k \in Keys : row'[k] = IF k = key[r]
                                   THEN ReservedRow(digest[r], now + TTL)
                                   ELSE row[k]
      /\ DOMAIN row' = Keys
      /\ now + TTL \in Nat
  BY <1>1, ReservationFacts
<1>3. /\ scorers' \in [Keys -> SUBSET Requests]
      /\ \A k \in Keys : scorers'[k] = scorers[k]
  BY <1>1 DEF StoreInvariant, TypeOK
<1>4. StoredState' /\ LocksProtect'
  BY <1>1, <1>3, ReservationKeeps
<1>5. /\ pc' \in [Requests -> Points]
      /\ DOMAIN answer' = Requests
      /\ \A q \in Requests : answer'[q].kind \in Kinds
  BY <1>1 DEF StoreInvariant, TypeOK, Points, Kinds, Refusal
<1>6. TypeOK'
  BY <1>1, <1>2, <1>3, <1>5
     DEF StoreInvariant, TypeOK, ReservedRow, States, txVars, processVars, EventsStored
<1>7. RequestsInOrder'
  BY <1>1 DEF StoreInvariant, TypeOK, RequestsInOrder, Refusal, txVars
<1>8. AnswersAreDurable'
  BY <1>1, ReservationAnswers DEF StoreInvariant, TypeOK, AnswersAreDurable, Refusal
<1> QED
  BY <1>4, <1>6, <1>7, <1>8 DEF StoreInvariant, StoredState

\* fail() rewrites at most one unlocked, reserved row.
LEMMA RecordFailureStep ==
  ASSUME StoreInvariant, NEW r \in Requests, RecordFailure(r)
  PROVE  StoreInvariant'
<1> DEFINE k == key[r]
<1> DEFINE writes == row[k].state = "reserved" /\ row[k].digest = digest[r]
<1>1. /\ pc[r] = "failing"
      /\ ~RowLocked(k)
      /\ row' = IF writes THEN [row EXCEPT ![k] = FailedRow(@)] ELSE row
      /\ pc' = [pc EXCEPT ![r] = "done"]
      /\ UNCHANGED <<head, events, now, home, key, digest, scored, answer, scorers,
                     txVars, processVars>>
  BY DEF RecordFailure
<1>2. k \in Keys
  BY <1>1 DEF StoreInvariant, TypeOK
<1>3. /\ DOMAIN row' = Keys
      /\ \A j \in Keys : row'[j] = IF j = k /\ writes THEN FailedRow(row[k]) ELSE row[j]
  BY <1>1, <1>2 DEF StoreInvariant, TypeOK
<1>4. writes => /\ row'[k].state = "failed"
                /\ row'[k].digest = row[k].digest
                /\ row'[k].expires = row[k].expires
                /\ row'[k].response = row[k].response
                /\ row'[k] = FailedRow(row[k])
  BY <1>2, <1>3 DEF FailedRow
<1>5. \A q \in Requests : tx[q] # "none" => key[q] \in Keys /\ row'[key[q]] = row[key[q]]
  <2>1. SUFFICES ASSUME NEW q \in Requests, tx[q] # "none", key[q] = k, writes
                 PROVE  FALSE
    BY <1>3 DEF StoreInvariant, TypeOK
  <2>2. CASE Open(q)
    BY <1>1, <2>1, <2>2 DEF RowLocked
  <2>3. CASE tx[q] = "committed"
    <3>1. row[k] = CompletedRow(row[k], scored[q], Hash(staged[q]))
      BY <2>1, <2>3 DEF StoreInvariant, LocksProtect
    <3>2. CompletedRow(row[k], scored[q], Hash(staged[q])).state = "completed"
      BY DEF CompletedRow
    <3> QED
      BY <2>1, <3>1, <3>2
  <2> QED
    BY <2>1, <2>2, <2>3 DEF StoreInvariant, TypeOK, Open
<1>6. \A j \in Keys : row[j].state = "completed" => row'[j] = row[j]
  BY <1>3
<1>7. TypeOK'
  <2>1. pc' \in [Requests -> Points]
    BY <1>1 DEF StoreInvariant, TypeOK, Points
  <2>2. \A j \in Keys :
           /\ row'[j] = [state |-> row'[j].state, digest |-> row'[j].digest,
                         expires |-> row'[j].expires, response |-> row'[j].response,
                         receipt |-> row'[j].receipt]
           /\ row'[j].state \in States
           /\ row'[j].digest \in Digests \cup {None}
           /\ row'[j].expires \in Nat
           /\ row'[j].response \in Decisions \cup {None}
    BY <1>2, <1>3, <1>4 DEF StoreInvariant, TypeOK, FailedRow, States
  <2>3. \A q \in Requests : pc'[q] # "new" => pc[q] # "new"
    BY <1>1 DEF StoreInvariant, TypeOK
  <2> QED
    BY <1>1, <1>3, <2>1, <2>2, <2>3
       DEF StoreInvariant, TypeOK, txVars, processVars, EventsStored
<1>8. RequestsInOrder'
  BY <1>1 DEF StoreInvariant, TypeOK, RequestsInOrder, txVars
<1>9. LocksProtect'
  BY <1>1, <1>5 DEF StoreInvariant, LocksProtect, Open, EventFor, CompletedRow, Hash, txVars
<1>10. RowsWellFormed'
  BY <1>1, <1>2, <1>3, <1>4 DEF StoreInvariant, RowsWellFormed
<1>11. EventKeys' /\ ChainContiguous' /\ ScoredOnce'
  BY <1>1 DEF StoreInvariant, EventKeys, ChainContiguous, ChainValid, HashAt, Hash,
              ScoredOnce
<1>12. CompletedIffAudited'
  <2>1. \A i \in DOMAIN events : events[i].key \in Keys /\ row'[events[i].key] = row[events[i].key]
    BY <1>6 DEF StoreInvariant, EventKeys, CompletedIffAudited, LinksConsistent
  <2>2. \A j \in Keys : row'[j].state = "completed" => row'[j] = row[j]
    BY <1>3, <1>4
  <2> QED
    BY <1>1, <2>1, <2>2 DEF StoreInvariant, CompletedIffAudited, LinksConsistent, Hash
<1>13. AnswersAreDurable'
  <2>1. \A q \in Requests : pc'[q] = "done" /\ answer[q].kind = "success" =>
           pc[q] = "done" /\ key[q] \in Keys
    BY <1>1 DEF StoreInvariant, TypeOK, RequestsInOrder
  <2> QED
    BY <1>1, <1>6, <2>1 DEF StoreInvariant, AnswersAreDurable
<1> QED
  BY <1>7, <1>8, <1>9, <1>10, <1>11, <1>12, <1>13 DEF StoreInvariant

\* What appending one element does to a sequence.
LEMMA AppendFacts ==
  ASSUME NEW s, NEW S, s \in Seq(S), NEW e
  PROVE  /\ Len(s) \in Nat
         /\ DOMAIN s = 1..Len(s)
         /\ Append(s, e) \in Seq({Append(s, e)[i] : i \in DOMAIN Append(s, e)})
         /\ Len(Append(s, e)) = Len(s) + 1
         /\ DOMAIN Append(s, e) = 1..(Len(s) + 1)
         /\ \A i \in 1..Len(s) : Append(s, e)[i] = s[i]
         /\ Append(s, e)[Len(s) + 1] = e
<1> DEFINE T == S \cup {e}
<1>1. s \in Seq(T) /\ e \in T
  OBVIOUS
<1>2. Append(s, e) \in Seq(T)
  BY <1>1
<1>3. Len(s) \in Nat /\ DOMAIN s = 1..Len(s)
  BY <1>1
<1>4. /\ Len(Append(s, e)) = Len(s) + 1
      /\ DOMAIN Append(s, e) = 1..(Len(s) + 1)
      /\ \A i \in 1..Len(s) : Append(s, e)[i] = s[i]
      /\ Append(s, e)[Len(s) + 1] = e
  BY <1>1, <1>2, <1>3
<1>5. Append(s, e) \in Seq({Append(s, e)[i] : i \in DOMAIN Append(s, e)})
  BY <1>2, <1>4
<1> QED
  BY <1>3, <1>4, <1>5

\* COMMIT appends the staged event, advances the head and completes the row: the
\* locks held since LockRow and StageCompletion make that event the next one.
LEMMA CommitFacts ==
  ASSUME StoreInvariant, NEW r \in Requests, Commit(r)
  PROVE  /\ key[r] \in Keys /\ digest[r] \in Digests /\ scored[r] \in Decisions
         /\ row[key[r]].state = "reserved" /\ row[key[r]].digest = digest[r]
         /\ head.sequence = Len(events) /\ head.hash = HashAt(Len(events))
         /\ staged[r] = [sequence |-> Len(events) + 1, previous |-> HashAt(Len(events)),
                         key |-> key[r], digest |-> digest[r], decision |-> scored[r]]
         /\ Len(events) \in Nat /\ DOMAIN events = 1..Len(events)
         /\ events' \in Seq(EventsStored') /\ Len(events') = Len(events) + 1
         /\ DOMAIN events' = 1..(Len(events) + 1)
         /\ \A i \in 1..Len(events) : events'[i] = events[i]
         /\ events'[Len(events) + 1] = staged[r]
         /\ DOMAIN row' = Keys
         /\ row'[key[r]] = CompletedRow(row[key[r]], scored[r], Hash(staged[r]))
         /\ \A k \in Keys : k # key[r] => row'[k] = row[k]
<1>1. tx[r] = "staged" /\ Open(r)
  BY DEF Commit, Open
<1>2. key[r] \in Keys /\ digest[r] \in Digests /\ scored[r] \in Decisions
  BY <1>1 DEF StoreInvariant, TypeOK, RequestsInOrder
<1>3. /\ row[key[r]].state = "reserved" /\ row[key[r]].digest = digest[r]
      /\ staged[r] = EventFor(r)
  BY <1>1 DEF StoreInvariant, LocksProtect
<1>4. head.sequence = Len(events) /\ head.hash = HashAt(Len(events))
  BY DEF StoreInvariant, ChainContiguous
<1>5. staged[r] = [sequence |-> Len(events) + 1, previous |-> HashAt(Len(events)),
                   key |-> key[r], digest |-> digest[r], decision |-> scored[r]]
  BY <1>3, <1>4 DEF EventFor
<1>6. events \in Seq(EventsStored)
  BY DEF StoreInvariant, TypeOK
<1>7. events' = Append(events, staged[r])
  BY DEF Commit
<1>8. /\ Len(events) \in Nat /\ DOMAIN events = 1..Len(events)
      /\ events' \in Seq(EventsStored') /\ Len(events') = Len(events) + 1
      /\ DOMAIN events' = 1..(Len(events) + 1)
      /\ \A i \in 1..Len(events) : events'[i] = events[i]
      /\ events'[Len(events) + 1] = staged[r]
  BY <1>6, <1>7, AppendFacts DEF EventsStored
<1>9. staged[r].decision = scored[r]
  BY <1>5
<1>10. /\ DOMAIN row' = Keys
       /\ row'[key[r]] = CompletedRow(row[key[r]], scored[r], Hash(staged[r]))
       /\ \A k \in Keys : k # key[r] => row'[k] = row[k]
  BY <1>2, <1>9 DEF Commit, StoreInvariant, TypeOK
<1> QED
  BY <1>2, <1>3, <1>4, <1>5, <1>8, <1>10

\* COMMIT keeps the chain linked, the pair of row and event complete and every
\* other transaction's locked row untouched.
LEMMA CommitStep ==
  ASSUME StoreInvariant, NEW r \in Requests, Commit(r)
  PROVE  StoreInvariant'
<1> DEFINE n == Len(events)
           e == staged[r]
<1>1. /\ key[r] \in Keys /\ digest[r] \in Digests /\ scored[r] \in Decisions
      /\ row[key[r]].state = "reserved" /\ row[key[r]].digest = digest[r]
      /\ e = [sequence |-> n + 1, previous |-> HashAt(n),
              key |-> key[r], digest |-> digest[r], decision |-> scored[r]]
      /\ n \in Nat /\ DOMAIN events = 1..n
      /\ events' \in Seq(EventsStored') /\ Len(events') = n + 1
      /\ DOMAIN events' = 1..(n + 1)
      /\ \A i \in 1..n : events'[i] = events[i]
      /\ events'[n + 1] = e
      /\ DOMAIN row' = Keys
      /\ row'[key[r]] = CompletedRow(row[key[r]], scored[r], Hash(e))
      /\ \A k \in Keys : k # key[r] => row'[k] = row[k]
  BY CommitFacts
<1>2. /\ head' = [sequence |-> n + 1, hash |-> Hash(e)]
      /\ tx[r] = "staged"
      /\ tx' = [tx EXCEPT ![r] = "committed"]
      /\ UNCHANGED <<now, home, key, digest, pc, scored, answer, scorers, staged,
                     phase, seen, crashes>>
  BY <1>1 DEF Commit, requestVars, processVars
<1>3. /\ row'[key[r]].state = "completed"
      /\ row'[key[r]].digest = digest[r]
      /\ row'[key[r]].expires = row[key[r]].expires
      /\ row'[key[r]].response = scored[r]
      /\ row'[key[r]].receipt = Hash(e)
  BY <1>1 DEF CompletedRow
<1>4. \A q \in Requests : q # r /\ tx[q] # "none" =>
         key[q] # key[r] /\ key[q] \in Keys /\ tx[q] # "staged"
  <2>1. \A q \in Requests : tx[q] # "none" => key[q] \in Keys
    BY DEF StoreInvariant, TypeOK
  <2>2. \A q \in Requests : q # r => tx[q] # "staged"
    BY <1>2 DEF StoreInvariant, LocksProtect
  <2>3. \A q \in Requests : q # r /\ Open(q) => key[q] # key[r]
    BY <1>2 DEF StoreInvariant, LocksProtect, Open
  <2>4. ASSUME NEW q \in Requests, tx[q] = "committed" PROVE key[q] # key[r]
    <3>1. row[key[q]] = CompletedRow(row[key[q]], scored[q], Hash(staged[q]))
      BY <2>4 DEF StoreInvariant, LocksProtect
    <3>2. CompletedRow(row[key[q]], scored[q], Hash(staged[q])).state = "completed"
      BY DEF CompletedRow
    <3> QED
      BY <1>1, <3>1, <3>2
  <2> QED
    BY <2>1, <2>2, <2>3, <2>4 DEF StoreInvariant, TypeOK, Open
<1>5. TypeOK'
  <2>1. \A k \in Keys :
           /\ row'[k] = [state |-> row'[k].state, digest |-> row'[k].digest,
                         expires |-> row'[k].expires, response |-> row'[k].response,
                         receipt |-> row'[k].receipt]
           /\ row'[k].state \in States
           /\ row'[k].digest \in Digests \cup {None}
           /\ row'[k].expires \in Nat
           /\ row'[k].response \in Decisions \cup {None}
    <3>1. ASSUME NEW k \in Keys, k # key[r]
          PROVE  /\ row'[k] = [state |-> row'[k].state, digest |-> row'[k].digest,
                               expires |-> row'[k].expires, response |-> row'[k].response,
                               receipt |-> row'[k].receipt]
                 /\ row'[k].state \in States
                 /\ row'[k].digest \in Digests \cup {None}
                 /\ row'[k].expires \in Nat
                 /\ row'[k].response \in Decisions \cup {None}
      BY <1>1, <3>1 DEF StoreInvariant, TypeOK
    <3>2. /\ row'[key[r]] = [state |-> row'[key[r]].state, digest |-> row'[key[r]].digest,
                             expires |-> row'[key[r]].expires,
                             response |-> row'[key[r]].response,
                             receipt |-> row'[key[r]].receipt]
          /\ row'[key[r]].state \in States
          /\ row'[key[r]].expires \in Nat
      BY <1>1, <1>3 DEF StoreInvariant, TypeOK, CompletedRow, States
    <3> QED
      BY <1>1, <1>3, <3>1, <3>2
  <2>2. tx' \in [Requests -> {"none", "rowLocked", "staged", "committed"}]
    BY <1>2 DEF StoreInvariant, TypeOK
  <2>3. \A q \in Requests : tx'[q] # "none" => tx[q] # "none"
    BY <1>2 DEF StoreInvariant, TypeOK
  <2>4. head' = [sequence |-> head'.sequence, hash |-> head'.hash] /\ head'.sequence \in Nat
    BY <1>1, <1>2
  <2> QED
    BY <1>1, <1>2, <2>1, <2>2, <2>3, <2>4 DEF StoreInvariant, TypeOK
<1>6. RequestsInOrder'
  BY <1>2 DEF StoreInvariant, TypeOK, RequestsInOrder
<1>7. LocksProtect'
  <2>1. \A q \in Requests : tx'[q] = IF q = r THEN "committed" ELSE tx[q]
    BY <1>2 DEF StoreInvariant, TypeOK
  <2>2. \A q \in Requests : Open(q)' <=> q # r /\ Open(q)
    BY <2>1 DEF Open
  <2>3. \A q \in Requests : tx'[q] # "staged"
    BY <1>4, <2>1 DEF StoreInvariant, TypeOK
  <2>4. \A q \in Requests : q # r /\ tx[q] # "none" => row'[key[q]] = row[key[q]]
    BY <1>1, <1>4
  <2>5. row'[key[r]] = CompletedRow(row'[key[r]], scored[r], Hash(staged[r]))
    BY <1>1 DEF CompletedRow
  <2>6. \A q \in Requests : tx'[q] = "committed" =>
           /\ row'[key[q]] = CompletedRow(row'[key[q]], scored[q], Hash(staged[q]))
           /\ row'[key[q]].digest = digest[q]
    BY <1>3, <2>1, <2>4, <2>5 DEF StoreInvariant, LocksProtect
  <2>7. \A q \in Requests : Open(q)' =>
           row'[key[q]].state = "reserved" /\ row'[key[q]].digest = digest[q]
    BY <2>2, <2>4 DEF StoreInvariant, LocksProtect, Open
  <2>8. \A p, q \in Requests : Open(p)' /\ Open(q)' /\ key[p] = key[q] => p = q
    BY <2>2 DEF StoreInvariant, LocksProtect
  <2>9. \A q \in Requests : Hash(staged[q])' = Hash(staged[q])
    BY <1>2 DEF Hash
  <2> QED
    BY <1>2, <2>3, <2>6, <2>7, <2>8, <2>9 DEF LocksProtect, CompletedRow
<1>8. RowsWellFormed'
  BY <1>1, <1>2, <1>3 DEF StoreInvariant, RowsWellFormed
<1>9. EventKeys'
  BY <1>1 DEF StoreInvariant, EventKeys
<1>10. ChainContiguous'
  <2>1. PICK m \in Nat : m = n
    BY <1>1
  <2>2. ASSUME NEW i \in 0..m PROVE HashAt(i)' = HashAt(i)
    BY <1>1, <2>1, <2>2, SMTT(30) DEF HashAt, Hash
  <2>3. \A i \in 1..m : events[i].sequence = i /\ events[i].previous = HashAt(i - 1)
    BY <1>1, <2>1 DEF StoreInvariant, ChainContiguous, ChainValid
  <2>4. e.sequence = m + 1 /\ e.previous = HashAt(m) /\ (m + 1) - 1 = m
    BY <1>1, <2>1
  <2>5. ASSUME NEW i \in 1..(m + 1)
        PROVE  events'[i].sequence = i /\ events'[i].previous = HashAt(i - 1)'
    <3>1. CASE i = m + 1
      BY <1>1, <2>1, <2>2, <2>4, <3>1
    <3>2. CASE i \in 1..m
      <4>1. i - 1 \in 0..m
        BY <2>1, <3>2
      <4>2. HashAt(i - 1)' = HashAt(i - 1)
        BY <2>2, <4>1
      <4> QED
        BY <1>1, <2>1, <2>3, <3>2, <4>2
    <3> QED
      BY <2>1, <3>1, <3>2
  <2>6. ChainValid'
    BY <1>1, <2>1, <2>5 DEF ChainValid
  <2>7. HashAt(m + 1)' = Hash(e)
    <3>1. HashAt(m + 1)' = Hash(events[m + 1])'
      BY <2>1 DEF HashAt
    <3> QED
      BY <1>1, <2>1, <3>1 DEF Hash
  <2> QED
    BY <1>1, <1>2, <2>1, <2>6, <2>7, SMTT(30) DEF ChainContiguous
<1>11. CompletedIffAudited'
  <2>1. \A i \in 1..n : events[i].key # key[r] /\ events[i].key \in Keys
    BY <1>1 DEF StoreInvariant, EventKeys, CompletedIffAudited, LinksConsistent
  <2>2. /\ e.key = key[r] /\ e.digest = digest[r] /\ e.decision = scored[r]
    BY <1>1
  <2>3. \A i, j \in DOMAIN events' : events'[i].key = events'[j].key => i = j
    BY <1>1, <2>1, <2>2 DEF StoreInvariant, CompletedIffAudited
  <2>4. \A i \in DOMAIN events' :
           /\ row'[events'[i].key].state = "completed"
           /\ row'[events'[i].key].receipt = Hash(events'[i])
           /\ row'[events'[i].key].digest = events'[i].digest
           /\ row'[events'[i].key].response = events'[i].decision
    BY <1>1, <1>3, <2>1, <2>2 DEF StoreInvariant, CompletedIffAudited, LinksConsistent
  <2>5. ASSUME NEW k \in Keys, row'[k].state = "completed"
        PROVE  \E i \in DOMAIN events' : events'[i].key = k /\ Hash(events'[i]) = row'[k].receipt
    <3>1. CASE k = key[r]
      BY <1>1, <1>3, <2>2, <3>1
    <3>2. CASE k # key[r]
      <4>1. PICK i \in 1..n : events[i].key = k /\ Hash(events[i]) = row[k].receipt
        BY <1>1, <2>5, <3>2 DEF StoreInvariant, CompletedIffAudited, LinksConsistent
      <4> QED
        BY <1>1, <3>2, <4>1
    <3> QED
      BY <3>1, <3>2
  <2>6. LinksConsistent'
    BY <2>4, <2>5 DEF LinksConsistent, Hash
  <2> QED
    BY <2>3, <2>6 DEF CompletedIffAudited
<1>12. AnswersAreDurable'
  <2>1. \A q \in Requests : pc[q] = "done" /\ answer[q].kind = "success" =>
           key[q] # key[r] /\ key[q] \in Keys
    BY <1>1 DEF StoreInvariant, AnswersAreDurable, TypeOK
  <2> QED
    BY <1>1, <1>2, <2>1 DEF StoreInvariant, AnswersAreDurable
<1>13. ScoredOnce'
  BY <1>2 DEF StoreInvariant, ScoredOnce
<1> QED
  BY <1>5, <1>6, <1>7, <1>8, <1>9, <1>10, <1>11, <1>12, <1>13 DEF StoreInvariant

\* The steps of starting and crashing processes leave the store alone.
LEMMA ProcessStepKeeps ==
  ASSUME StoreInvariant, NEW p \in Processes, ProcessStep(p)
  PROVE  StoreInvariant'
<1>1. UNCHANGED <<dbVars, now, home, key, digest, scored, answer, scorers, txVars>>
  BY DEF ProcessStep, OpenStore, ScanEvents, CheckLinks, Crash, requestVars
<1>2. /\ pc' \in [Requests -> Points]
      /\ \A q \in Requests : pc'[q] = pc[q] \/ (pc'[q] = "dead" /\ Active(q))
  <2>1. CASE Crash(p)
    BY <2>1 DEF Crash, StoreInvariant, TypeOK, Points
  <2>2. CASE ~Crash(p)
    BY <2>2 DEF ProcessStep, OpenStore, ScanEvents, CheckLinks, requestVars, StoreInvariant,
                TypeOK
  <2> QED
    BY <2>1, <2>2
<1>3. /\ phase' \in [Processes -> {"down", "scanning", "linking", "up", "refused"}]
      /\ DOMAIN seen' = Processes
      /\ crashes' \in Nat
  <2>1. TypeOK
    BY DEF StoreInvariant
  <2>2. CASE OpenStore(p)
    BY <2>1, <2>2 DEF OpenStore, TypeOK
  <2>3. CASE ScanEvents(p)
    BY <2>1, <2>3 DEF ScanEvents, TypeOK
  <2>4. CASE CheckLinks(p)
    BY <2>1, <2>4 DEF CheckLinks, TypeOK
  <2>5. CASE Crash(p)
    BY <2>1, <2>5 DEF Crash, TypeOK
  <2> QED
    BY <2>2, <2>3, <2>4, <2>5 DEF ProcessStep
<1>4. TypeOK'
  <2>1. \A q \in Requests : pc'[q] # "new" => pc[q] # "new"
    BY <1>2 DEF Active
  <2> QED
    BY <1>1, <1>2, <1>3, <2>1 DEF StoreInvariant, TypeOK, dbVars, txVars, EventsStored
<1>5. RequestsInOrder'
  BY <1>1, <1>2 DEF StoreInvariant, RequestsInOrder, Active, txVars
<1>6. LocksProtect'
  BY <1>1 DEF StoreInvariant, LocksProtect, Open, EventFor, CompletedRow, Hash, dbVars, txVars
<1>7. AnswersAreDurable'
  <2>1. \A q \in Requests : pc'[q] = "done" => pc[q] = "done"
    BY <1>2
  <2> QED
    BY <1>1, <2>1 DEF StoreInvariant, AnswersAreDurable, dbVars
<1>8. StoredState'
  BY <1>1, StoreFrame DEF StoreInvariant, StoredState
<1> QED
  BY <1>4, <1>5, <1>6, <1>7, <1>8 DEF StoreInvariant, StoredState

\* Nothing but IsStale depends on the clock.
LEMMA TickStep ==
  ASSUME StoreInvariant, Tick
  PROVE  StoreInvariant'
<1>1. UNCHANGED <<dbVars, requestVars, txVars, processVars>> /\ now' = now + 1
  BY DEF Tick
<1>2. TypeOK'
  BY <1>1 DEF StoreInvariant, TypeOK, dbVars, requestVars, txVars, processVars, EventsStored
<1>3. RequestsInOrder' /\ LocksProtect' /\ AnswersAreDurable'
  BY <1>1 DEF StoreInvariant, RequestsInOrder, LocksProtect, AnswersAreDurable, Open,
              EventFor, CompletedRow, Hash, dbVars, requestVars, txVars
<1>4. StoredState'
  BY <1>1, StoreFrame DEF StoreInvariant, StoredState, requestVars
<1> QED
  BY <1>2, <1>3, <1>4 DEF StoreInvariant, StoredState

\* A step that changes nothing.
LEMMA StutterStep ==
  ASSUME StoreInvariant, UNCHANGED vars
  PROVE  StoreInvariant'
<1>1. UNCHANGED <<dbVars, now, requestVars, txVars, processVars>>
  BY DEF vars
<1>2. TypeOK'
  BY <1>1 DEF StoreInvariant, TypeOK, dbVars, requestVars, txVars, processVars, EventsStored
<1>3. RequestsInOrder' /\ LocksProtect' /\ AnswersAreDurable'
  BY <1>1 DEF StoreInvariant, RequestsInOrder, LocksProtect, AnswersAreDurable, Open,
              EventFor, CompletedRow, Hash, dbVars, requestVars, txVars
<1>4. StoredState'
  BY <1>1, StoreFrame DEF StoreInvariant, StoredState, requestVars
<1> QED
  BY <1>2, <1>3, <1>4 DEF StoreInvariant, StoredState

\* A migrated, empty schema satisfies the invariant.
LEMMA InitStep == Init => StoreInvariant
<1> SUFFICES ASSUME Init PROVE StoreInvariant
  OBVIOUS
<1>1. events = <<>> /\ Len(events) = 0 /\ DOMAIN events = {} /\ events \in Seq(EventsStored)
  BY DEF Init
<1>2. TypeOK
  BY <1>1, ScaleAssumption
     DEF Init, TypeOK, AbsentRow, States, Points, Kinds, NoEvent, Waiting
<1>3. RequestsInOrder /\ LocksProtect
  BY DEF Init, RequestsInOrder, LocksProtect, Open, Waiting
<1>4. RowsWellFormed /\ EventKeys /\ ScoredOnce
  BY <1>1 DEF Init, RowsWellFormed, EventKeys, ScoredOnce, AbsentRow
<1>5. ChainContiguous /\ CompletedIffAudited
  BY <1>1 DEF Init, ChainContiguous, ChainValid, HashAt, CompletedIffAudited,
              LinksConsistent, AbsentRow
<1>6. AnswersAreDurable
  BY DEF Init, AnswersAreDurable
<1> QED
  BY <1>2, <1>3, <1>4, <1>5, <1>6 DEF StoreInvariant

\* Every step of the system preserves the invariant.
LEMMA NextStep ==
  ASSUME StoreInvariant, [Next]_vars
  PROVE  StoreInvariant'
<1>1. ASSUME NEW r \in Requests, RequestStep(r) PROVE StoreInvariant'
  <2>1. CASE \E p \in Processes, k \in Keys, d \in Digests : Arrive(r, p, k, d)
    BY <2>1, ArriveStep
  <2>2. CASE ReserveOwner(r) \/ ReserveUnacknowledged(r) \/ ReserveObserver(r)
    BY <2>2, ReserveOwnerStep, ReserveUnacknowledgedStep, ReserveObserverStep
  <2>3. CASE Poll(r) \/ PollDeadline(r) \/ StoreError(r)
    BY <2>3, PollStep, PollDeadlineStep, StoreErrorStep
  <2>4. CASE (\E v \in Decisions : ScoreSucceeds(r, v)) \/ ScoreFails(r) \/ EnterGate(r)
    BY <2>4, ScoreSucceedsStep, ScoreFailsStep, EnterGateStep
  <2>5. CASE LockRow(r) \/ StageCompletion(r) \/ Commit(r) \/ Acknowledge(r)
    BY <2>5, LockRowStep, StageCompletionStep, CommitStep, AcknowledgeStep
  <2>6. CASE CompletionError(r) \/ Rollback(r) \/ RecordFailure(r) \/ FailureNotRecorded(r)
    BY <2>6, CompletionErrorStep, RollbackStep, RecordFailureStep, FailureNotRecordedStep
  <2> QED
    BY <1>1, <2>1, <2>2, <2>3, <2>4, <2>5, <2>6 DEF RequestStep
<1>2. ASSUME NEW p \in Processes, ProcessStep(p) PROVE StoreInvariant'
  BY <1>2, ProcessStepKeeps
<1>3. CASE Tick
  BY <1>3, TickStep
<1>4. CASE Quiet \/ UNCHANGED vars
  BY <1>4, StutterStep DEF Quiet
<1> QED
  BY <1>1, <1>2, <1>3, <1>4 DEF Next

\* The invariant holds of every reachable state, for every number of keys,
\* requests and processes, every TTL and every schedule of crashes, lost
\* connections and expiries: the transactions of complete_reservation, fail and
\* reserve keep it together.
THEOREM StoreInvariantHolds == Spec => []StoreInvariant
<1>1. Init => StoreInvariant
  BY InitStep
<1>2. StoreInvariant /\ [Next]_vars => StoreInvariant'
  BY NextStep
<1> QED
  BY <1>1, <1>2, PTL DEF Spec

\* No handler leaves the ranges of the schema and of the result kinds.
THEOREM TypeCorrect == Spec => []TypeOK
<1>1. StoreInvariant => TypeOK
  BY DEF StoreInvariant
<1> QED
  BY <1>1, StoreInvariantHolds, PTL

\* The completion transaction is atomic and exclusive: rows are completed
\* exactly when their one audit event is in the chain.
THEOREM CompletionIsAudited == Spec => []CompletedIffAudited
<1>1. StoreInvariant => CompletedIffAudited
  BY DEF StoreInvariant
<1> QED
  BY <1>1, StoreInvariantHolds, PTL

\* The head lock serialises completions: the chain has no gap, no fork and no
\* head that names another event than the last.
THEOREM ChainIsContiguous == Spec => []ChainContiguous
<1>1. StoreInvariant => ChainContiguous
  BY DEF StoreInvariant
<1> QED
  BY <1>1, StoreInvariantHolds, PTL

\* A released decision is the stored one of the caller's key and input.
THEOREM ReleasedAnswersAreDurable == Spec => []AnswersAreDurable
<1>1. StoreInvariant => AnswersAreDurable
  BY DEF StoreInvariant
<1> QED
  BY <1>1, StoreInvariantHolds, PTL

\* No key is scored by two requests.
THEOREM KeysAreScoredOnce == Spec => []ScoredOnce
<1>1. StoreInvariant => ScoredOnce
  BY DEF StoreInvariant
<1> QED
  BY <1>1, StoreInvariantHolds, PTL

\* What one step can do to a row: insert it, fail it or complete it.
LEMMA RowStep ==
  ASSUME StoreInvariant, [Next]_vars, NEW k \in Keys, row[k].state # "absent"
  PROVE  /\ row'[k].digest = row[k].digest
         /\ row[k].state \in {"completed", "failed"} => row'[k] = row[k]
<1>1. ASSUME NEW r \in Requests, InsertReservation(r), row[key[r]].state = "absent"
      PROVE  row'[k] = row[k]
  BY <1>1 DEF InsertReservation, StoreInvariant, TypeOK
<1>2. ASSUME NEW r \in Requests, RecordFailure(r)
      PROVE  \/ row'[k] = row[k]
             \/ row[k].state = "reserved" /\ row'[k] = FailedRow(row[k])
  BY <1>2 DEF RecordFailure, StoreInvariant, TypeOK
<1>3. ASSUME NEW r \in Requests, Commit(r)
      PROVE  \/ row'[k] = row[k]
             \/ /\ row[k].state = "reserved"
                /\ row'[k] = CompletedRow(row[k], scored[r], Hash(staged[r]))
  BY <1>3, CommitFacts
<1>4. ASSUME NEW r \in Requests, RequestStep(r)
      PROVE  \/ row' = row
             \/ InsertReservation(r) /\ row[key[r]].state = "absent"
             \/ RecordFailure(r)
             \/ Commit(r)
  BY <1>4 DEF RequestStep, Arrive, ReserveOwner, ReserveUnacknowledged, ReserveObserver, Poll,
     PollDeadline, StoreError, ScoreSucceeds, ScoreFails, EnterGate, LockRow,
     StageCompletion, Acknowledge, CompletionError, Rollback, FailureNotRecorded, dbVars
<1>5. (\E p \in Processes : ProcessStep(p)) \/ Tick \/ Quiet \/ UNCHANGED vars => row' = row
  BY DEF ProcessStep, OpenStore, ScanEvents, CheckLinks, Crash, Tick, Quiet, vars, dbVars
<1>6. FailedRow(row[k]).digest = row[k].digest
  BY DEF FailedRow
<1>7. \A r \in Requests :
        CompletedRow(row[k], scored[r], Hash(staged[r])).digest = row[k].digest
  BY DEF CompletedRow
<1> QED
  BY <1>1, <1>2, <1>3, <1>4, <1>5, <1>6, <1>7 DEF Next

\* What one step can do to the event table: append one event.
LEMMA EventStep ==
  ASSUME StoreInvariant, [Next]_vars
  PROVE  SubSeq(events', 1, Len(events)) = events
<1>1. events \in Seq(EventsStored)
  BY DEF StoreInvariant, TypeOK
<1>2. CASE events' = events
  BY <1>1, <1>2
<1>3. ASSUME NEW r \in Requests, Commit(r)
      PROVE  SubSeq(events', 1, Len(events)) = events
  <2>1. /\ Len(events) \in Nat /\ DOMAIN events = 1..Len(events)
        /\ events' \in Seq(EventsStored') /\ Len(events') = Len(events) + 1
        /\ \A i \in 1..Len(events) : events'[i] = events[i]
    BY <1>3, CommitFacts
  <2> QED
    BY <1>1, <2>1
<1>4. events' = events \/ \E r \in Requests : Commit(r)
  BY DEF Next, RequestStep, Arrive, ReserveOwner, ReserveUnacknowledged, ReserveObserver,
     Poll, PollDeadline, StoreError, ScoreSucceeds, ScoreFails, EnterGate, LockRow,
     StageCompletion, Acknowledge, CompletionError, Rollback, RecordFailure,
     FailureNotRecorded, ProcessStep, OpenStore, ScanEvents, CheckLinks, Crash, Tick, Quiet,
     vars, dbVars
<1> QED
  BY <1>2, <1>3, <1>4

\* A late fail(), a retry or a second completion never rewrites a completed or
\* failed row, re-binds a key or touches a stored event.
THEOREM RowsStayTerminal == Spec => RowsAreTerminal
<1>1. StoreInvariant /\ [Next]_vars =>
        [/\ \A k \in Keys :
              /\ row[k].state # "absent" => row'[k].digest = row[k].digest
              /\ row[k].state \in {"completed", "failed"} => row'[k] = row[k]
         /\ SubSeq(events', 1, Len(events)) = events]_dbVars
  BY RowStep, EventStep
<1> QED
  BY <1>1, StoreInvariantHolds, PTL DEF Spec, RowsAreTerminal

\* What a step of one request leaves to the others.
LEMMA OthersKeep ==
  ASSUME StoreInvariant, NEW r \in Requests, RequestStep(r), NEW q \in Requests, q # r
  PROVE  /\ pc'[q] = pc[q] /\ answer'[q] = answer[q]
         /\ key'[q] = key[q] /\ digest'[q] = digest[q]
<1>1. TypeOK
  BY DEF StoreInvariant
<1>2. CASE \/ \E p \in Processes, k \in Keys, d \in Digests : Arrive(r, p, k, d)
           \/ ReserveOwner(r) \/ ReserveUnacknowledged(r) \/ ReserveObserver(r)
  BY <1>1, <1>2 DEF TypeOK, Arrive, ReserveOwner, ReserveUnacknowledged, ReserveObserver, Finish
<1>3. CASE Poll(r) \/ PollDeadline(r) \/ StoreError(r)
  BY <1>1, <1>3 DEF TypeOK, Poll, PollDeadline, StoreError, Finish
<1>4. CASE (\E v \in Decisions : ScoreSucceeds(r, v)) \/ ScoreFails(r) \/ EnterGate(r)
  BY <1>1, <1>4 DEF TypeOK, ScoreSucceeds, ScoreFails, EnterGate, FailWith
<1>5. CASE LockRow(r) \/ StageCompletion(r) \/ Commit(r) \/ Acknowledge(r)
  BY <1>1, <1>5 DEF TypeOK, LockRow, StageCompletion, Commit, Acknowledge, Finish, FailWith,
     requestVars
<1>6. CASE CompletionError(r) \/ Rollback(r) \/ RecordFailure(r) \/ FailureNotRecorded(r)
  BY <1>1, <1>6 DEF TypeOK, CompletionError, Rollback, RecordFailure, FailureNotRecorded, FailWith,
     requestVars
<1> QED
  BY <1>2, <1>3, <1>4, <1>5, <1>6 DEF RequestStep

\* The refusals a request is given without regard to the row.
PlainRefusals == {"unavailable", "in_progress", "stale", "scoring_error"}

\* How a request's own step moves it on: it goes ahead unanswered, finds a row
\* to wait for, is refused, is answered from the row, answers what it has
\* committed, or ends with the refusal it already had.
GoesAhead(r) ==
  /\ answer'[r] = answer[r]
  /\ \/ pc'[r] = pc[r]
     \/ pc[r] \notin {"failing", "done", "dead"} /\ pc'[r] \in {"scoring", "queued", "completing"}

StartsPolling(r) ==
  /\ answer'[r] = answer[r] /\ row'[key[r]] = row[key[r]] /\ row[key[r]].state # "absent"
  /\ pc[r] = "reserving" /\ pc'[r] = "polling"

IsRefused(r) ==
  /\ answer'[r] = Refusal(answer'[r].kind) /\ answer'[r].kind \in PlainRefusals
  /\ pc[r] \notin {"failing", "done", "dead"} /\ pc'[r] \in {"failing", "done"}

IsAnswered(r) ==
  /\ answer'[r] = Observed(r) /\ UNCHANGED row /\ row[key[r]].state # "absent"
  /\ pc[r] \in {"reserving", "polling"} /\ pc'[r] = "done"

Answers(r) ==
  /\ answer'[r] = Success(scored[r], Hash(staged[r])) /\ tx[r] = "committed" /\ UNCHANGED row
  /\ pc[r] = "completing" /\ pc'[r] = "done"

EndsRefused(r) == answer'[r] = answer[r] /\ pc[r] = "failing" /\ pc'[r] = "done"

LEMMA OwnStep ==
  ASSUME StoreInvariant, AnswersFollowRows, NEW r \in Requests, RequestStep(r),
         \A p \in Processes, k \in Keys, d \in Digests : ~Arrive(r, p, k, d)
  PROVE  /\ pc[r] # "new" \/ tx[r] # "none"
         /\ key'[r] = key[r] /\ digest'[r] = digest[r]
         /\ \/ GoesAhead(r) \/ StartsPolling(r) \/ IsRefused(r) \/ IsAnswered(r)
            \/ Answers(r) \/ EndsRefused(r)
<1>1. TypeOK
  BY DEF StoreInvariant
<1>2. CASE ReserveOwner(r) \/ ReserveUnacknowledged(r) \/ ReserveObserver(r)
  <2>1. CASE ReserveOwner(r)
    BY <1>1, <2>1 DEF TypeOK, ReserveOwner, GoesAhead
  <2>2. CASE ReserveUnacknowledged(r)
    BY <1>1, <2>2 DEF TypeOK, ReserveUnacknowledged, Finish, Refusal, IsRefused, PlainRefusals
  <2>3. CASE ReserveObserver(r)
    BY <1>1, <2>3 DEF TypeOK, ReserveObserver, Finish, StartsPolling, IsAnswered, dbVars
  <2> QED
    BY <1>2, <2>1, <2>2, <2>3
<1>3. CASE Poll(r) \/ PollDeadline(r) \/ StoreError(r)
  <2>1. CASE Poll(r)
    BY <1>1, <2>1 DEF TypeOK, Poll, Finish, IsAnswered, AnswersFollowRows, dbVars
  <2>2. CASE PollDeadline(r) \/ StoreError(r)
    BY <1>1, <2>2 DEF TypeOK, PollDeadline, StoreError, Finish, Refusal, IsRefused, PlainRefusals
  <2> QED
    BY <1>3, <2>1, <2>2
<1>4. CASE (\E v \in Decisions : ScoreSucceeds(r, v)) \/ EnterGate(r)
  BY <1>1, <1>4 DEF TypeOK, ScoreSucceeds, EnterGate, GoesAhead
<1>5. CASE ScoreFails(r) \/ CompletionError(r)
  BY <1>1, <1>5 DEF TypeOK, ScoreFails, CompletionError, FailWith, Refusal, IsRefused, PlainRefusals
<1>6. CASE LockRow(r)
  BY <1>1, <1>6 DEF TypeOK, LockRow, FailWith, Refusal, GoesAhead, IsRefused, PlainRefusals
<1>7. CASE StageCompletion(r) \/ Commit(r) \/ Rollback(r)
  <2>1. pc[r] # "new" \/ tx[r] # "none"
    BY <1>7 DEF StageCompletion, Commit, Rollback, Open
  <2> QED
    BY <1>7, <2>1 DEF StageCompletion, Commit, Rollback, requestVars, GoesAhead
<1>8. CASE Acknowledge(r)
  BY <1>1, <1>8 DEF TypeOK, Acknowledge, Finish, Answers, dbVars
<1>9. CASE RecordFailure(r) \/ FailureNotRecorded(r)
  BY <1>1, <1>9 DEF TypeOK, RecordFailure, FailureNotRecorded, EndsRefused
<1> QED
  BY <1>2, <1>3, <1>4, <1>5, <1>6, <1>7, <1>8, <1>9 DEF RequestStep

\* What processes, the clock and stuttering leave to a request: only a crash
\* reaches it, and only while it is being handled.
LEMMA BackgroundKeeps ==
  ASSUME StoreInvariant, NEW q \in Requests,
         (\E p \in Processes : ProcessStep(p)) \/ Tick \/ Quiet \/ UNCHANGED vars
  PROVE  /\ UNCHANGED <<row, key, digest, answer>>
         /\ pc'[q] = pc[q] \/ (pc'[q] = "dead" /\ Active(q))
<1>1. ASSUME NEW p \in Processes, Crash(p)
      PROVE  /\ UNCHANGED <<row, key, digest, answer>>
             /\ pc'[q] = pc[q] \/ (pc'[q] = "dead" /\ Active(q))
  BY <1>1 DEF Crash, dbVars
<1>2. ASSUME NEW p \in Processes, OpenStore(p) \/ ScanEvents(p) \/ CheckLinks(p)
      PROVE  UNCHANGED <<row, key, digest, answer, pc>>
  BY <1>2 DEF OpenStore, ScanEvents, CheckLinks, dbVars, requestVars
<1>3. CASE Tick \/ Quiet \/ UNCHANGED vars
  <2>1. UNCHANGED <<dbVars, requestVars>>
    BY <1>3 DEF Tick, Quiet, vars
  <2> QED
    BY <2>1 DEF dbVars, requestVars
<1> QED
  BY <1>1, <1>2, <1>3 DEF ProcessStep

\* A row that was inserted is never deleted.
LEMMA RowsStayInserted ==
  ASSUME StoreInvariant, StoreInvariant', [Next]_vars, NEW k \in Keys, row[k].state # "absent"
  PROVE  row'[k].state # "absent"
<1>1. row'[k].digest = row[k].digest /\ row[k].digest \in Digests
  BY RowStep DEF StoreInvariant, RowsWellFormed
<1>2. row'[k].state = "absent" => row'[k].digest = None
  BY DEF StoreInvariant, RowsWellFormed, AbsentRow
<1> QED
  BY <1>1, <1>2, ScaleAssumption

\* What was concluded from a row stays true of it.
LEMMA RefusalsKeep ==
  ASSUME StoreInvariant, StoreInvariant', AnswersFollowRows, [Next]_vars, NEW q \in Requests,
         pc[q] # "new", key'[q] = key[q], digest'[q] = digest[q]
  PROVE  LET k == key[q] IN
         /\ row[k].state # "absent" => row'[k].state # "absent"
         /\ row[k].digest \notin {None, digest[q]} => row'[k].digest \notin {None, digest'[q]}
         /\ row[k].state = "failed" => row'[k].state = "failed"
<1>1. key[q] \in Keys
  BY DEF StoreInvariant, TypeOK
<1>2. row[key[q]].state = "absent" => row[key[q]].digest = None
  BY <1>1 DEF StoreInvariant, RowsWellFormed, AbsentRow
<1>3. row[key[q]].state # "absent" => row'[key[q]].digest = row[key[q]].digest
  BY <1>1, RowStep
<1>4. row[key[q]].state = "failed" => row'[key[q]] = row[key[q]]
  BY <1>1, RowStep
<1>5. row[key[q]].state # "absent" => row'[key[q]].state # "absent"
  BY <1>1, RowsStayInserted
<1> QED
  BY <1>2, <1>3, <1>4, <1>5

\* A conflict or a failed reservation is answered only from the stored row.
LEMMA ObservedRefusal ==
  ASSUME StoreInvariant, NEW r \in Requests, key[r] \in Keys, row[key[r]].state # "absent"
  PROVE  /\ Observed(r).kind = "conflict" => row[key[r]].digest \notin {None, digest[r]}
         /\ Observed(r).kind = "failed" => row[key[r]].state = "failed"
<1> DEFINE stored == row[key[r]]
<1>1. stored.digest # None
  BY ScaleAssumption DEF StoreInvariant, RowsWellFormed
<1>2. CASE stored.digest # digest[r]
  BY <1>1, <1>2 DEF Observed, Refusal
<1>3. CASE stored.digest = digest[r] /\ stored.state = "completed"
  BY <1>3 DEF Observed, StoredAnswer, Success
<1>4. CASE stored.digest = digest[r] /\ stored.state # "completed"
  BY <1>4 DEF Observed, Refusal, Waiting
<1> QED
  BY <1>2, <1>3, <1>4

\* Every step keeps what refusals rest on.
LEMMA AnswersKeep ==
  ASSUME StoreInvariant, StoreInvariant', AnswersFollowRows, [Next]_vars
  PROVE  AnswersFollowRows'
<1> DEFINE Follows(q) ==
      /\ pc[q] \notin {"failing", "done", "dead"} => answer[q] = Waiting
      /\ pc[q] = "polling" => row[key[q]].state # "absent"
      /\ answer[q].kind \in {"conflict", "failed"} => pc[q] = "done"
      /\ answer[q].kind = "conflict" => row[key[q]].digest \notin {None, digest[q]}
      /\ answer[q].kind = "failed" => row[key[q]].state = "failed"
<1>1. \A q \in Requests : Follows(q)
  BY DEF AnswersFollowRows
<1>2. ASSUME NEW q \in Requests, answer'[q] = answer[q],
             pc'[q] = pc[q] \/ (pc'[q] = "dead" /\ Active(q)),
             key'[q] = key[q], digest'[q] = digest[q]
      PROVE  Follows(q)'
  <2>1. CASE pc[q] = "new"
    BY <1>1, <1>2, <2>1 DEF Active, Waiting
  <2>2. CASE pc[q] # "new"
    BY <1>1, <1>2, <2>2, RefusalsKeep DEF Active
  <2> QED
    BY <2>1, <2>2
<1>3. ASSUME NEW r \in Requests, RequestStep(r), NEW q \in Requests
      PROVE  Follows(q)'
  <2>1. CASE q # r
    <3>1. /\ pc'[q] = pc[q] /\ answer'[q] = answer[q]
          /\ key'[q] = key[q] /\ digest'[q] = digest[q]
      BY <1>3, <2>1, OthersKeep
    <3> HIDE DEF Follows
    <3> QED
      BY <1>2, <3>1
  <2>2. CASE q = r /\ \E p \in Processes, k \in Keys, d \in Digests : Arrive(r, p, k, d)
    <3>1. pc[r] = "new" /\ pc'[r] = "reserving" /\ answer'[r] = answer[r]
      BY <2>2 DEF Arrive, StoreInvariant, TypeOK
    <3> QED
      BY <1>1, <2>2, <3>1 DEF Waiting
  <2>3. CASE q = r /\ \A p \in Processes, k \in Keys, d \in Digests : ~Arrive(r, p, k, d)
    <3>1. /\ pc[r] # "new" \/ tx[r] # "none"
          /\ key'[r] = key[r] /\ digest'[r] = digest[r]
      BY <1>3, <2>3, OwnStep
    <3>2. pc[r] # "new"
      BY <3>1 DEF StoreInvariant, RequestsInOrder
    <3>3. key[r] \in Keys
      BY <3>2 DEF StoreInvariant, TypeOK
    <3>4. CASE GoesAhead(r)
      <4>1. CASE pc'[r] = pc[r]
        <5>1. answer'[r] = answer[r]
          BY <3>4 DEF GoesAhead
        <5> HIDE DEF Follows
        <5> QED
          BY <1>2, <2>3, <3>1, <4>1, <5>1
      <4>2. CASE pc'[r] # pc[r]
        BY <1>1, <2>3, <3>4, <4>2 DEF GoesAhead, Waiting
      <4> QED
        BY <4>1, <4>2
    <3>5. CASE StartsPolling(r)
      BY <1>1, <2>3, <3>1, <3>5 DEF StartsPolling, Waiting
    <3>6. CASE IsRefused(r)
      BY <2>3, <3>6 DEF IsRefused, PlainRefusals
    <3>7. CASE IsAnswered(r)
      BY <2>3, <3>1, <3>3, <3>7, ObservedRefusal DEF IsAnswered
    <3>8. CASE Answers(r)
      BY <2>3, <3>8 DEF Answers, Success
    <3>9. CASE EndsRefused(r)
      BY <1>1, <2>3, <3>9 DEF EndsRefused
    <3> QED
      BY <1>3, <2>3, <3>4, <3>5, <3>6, <3>7, <3>8, <3>9, OwnStep
  <2> QED
    BY <2>1, <2>2, <2>3
<1>4. ASSUME (\E p \in Processes : ProcessStep(p)) \/ Tick \/ Quiet \/ UNCHANGED vars,
             NEW q \in Requests
      PROVE  Follows(q)'
  BY <1>2, <1>4, BackgroundKeeps
<1>5. \A q \in Requests : Follows(q)'
  BY <1>3, <1>4 DEF Next
<1> QED
  BY <1>5 DEF AnswersFollowRows

\* The same invariant with what the answers rest on is inductive as well.
LEMMA AnswersFollow == Spec => [](StoreInvariant /\ AnswersFollowRows)
<1>1. Init => StoreInvariant /\ AnswersFollowRows
  <2>1. Init => AnswersFollowRows
    BY DEF Init, AnswersFollowRows, Waiting
  <2> QED
    BY <2>1, InitStep
<1>2. (StoreInvariant /\ AnswersFollowRows) /\ [Next]_vars => (StoreInvariant /\ AnswersFollowRows)'
  BY NextStep, AnswersKeep
<1> QED
  BY <1>1, <1>2, PTL DEF Spec

\* A caller refused with a conflict did bring another input than the bound one,
\* and a caller told of a failed reservation can rely on it for good, whatever
\* is committed, retried or lost after the answer.
THEOREM RefusalsStayTruthful == Spec => []RefusalsAreTruthful
<1>1. StoreInvariant /\ AnswersFollowRows => RefusalsAreTruthful
  BY DEF AnswersFollowRows, RefusalsAreTruthful
<1> QED
  BY <1>1, AnswersFollow, PTL

\* An event keeps its hash while the chain grows behind it.
LEMMA HashesStay ==
  ASSUME StoreInvariant, [Next]_vars
  PROVE  /\ Len(events) \in Nat /\ Len(events') \in Nat /\ Len(events) <= Len(events')
         /\ \A i \in 0..Len(events) : HashAt(i)' = HashAt(i)
<1>1. events \in Seq(EventsStored) /\ Len(events) \in Nat
  BY DEF StoreInvariant, TypeOK
<1>2. CASE events' = events
  BY <1>1, <1>2 DEF HashAt, Hash
<1>3. ASSUME NEW r \in Requests, Commit(r)
      PROVE  /\ Len(events') = Len(events) + 1
             /\ \A i \in 0..Len(events) : HashAt(i)' = HashAt(i)
  <2>1. /\ Len(events') = Len(events) + 1
        /\ \A i \in 1..Len(events) : events'[i] = events[i]
    BY <1>3, CommitFacts
  <2> QED
    BY <1>1, <2>1 DEF HashAt, Hash
<1>4. events' = events \/ \E r \in Requests : Commit(r)
  BY DEF Next, RequestStep, Arrive, ReserveOwner, ReserveUnacknowledged, ReserveObserver,
     Poll, PollDeadline, StoreError, ScoreSucceeds, ScoreFails, EnterGate, LockRow,
     StageCompletion, Acknowledge, CompletionError, Rollback, RecordFailure,
     FailureNotRecorded, ProcessStep, OpenStore, ScanEvents, CheckLinks, Crash, Tick, Quiet,
     vars, dbVars
<1> QED
  BY <1>1, <1>2, <1>3, <1>4

\* Who writes the head row a verifier works from: only its own first statement.
LEMMA SeenStep ==
  ASSUME StoreInvariant, [Next]_vars, NEW p \in Processes
  PROVE  seen'[p] = seen[p] \/ (seen'[p] = head /\ UNCHANGED events)
<1>1. CASE \E r \in Requests : RequestStep(r)
  BY <1>1 DEF RequestStep, Arrive, ReserveOwner, ReserveUnacknowledged, ReserveObserver,
     Poll, PollDeadline, StoreError, ScoreSucceeds, ScoreFails, EnterGate, LockRow,
     StageCompletion, Commit, Acknowledge, CompletionError, Rollback, RecordFailure,
     FailureNotRecorded, processVars
<1>2. ASSUME NEW o \in Processes, ProcessStep(o)
      PROVE  seen'[p] = seen[p] \/ (seen'[p] = head /\ UNCHANGED events)
  BY <1>2 DEF ProcessStep, OpenStore, ScanEvents, CheckLinks, Crash, dbVars, StoreInvariant, TypeOK
<1>3. CASE Tick \/ Quiet \/ UNCHANGED vars
  BY <1>3 DEF Tick, Quiet, vars, processVars
<1> QED
  BY <1>1, <1>2, <1>3 DEF Next

\* The head a verifier has read stays the head of some prefix of the chain.
LEMMA SnapshotsKeep ==
  ASSUME StoreInvariant, SnapshotsAreOld, [Next]_vars
  PROVE  SnapshotsAreOld'
<1> SUFFICES ASSUME NEW p \in Processes
             PROVE  (/\ seen[p].sequence \in 0..Len(events)
                     /\ seen[p].hash = HashAt(seen[p].sequence))'
  BY DEF SnapshotsAreOld
<1>1. /\ Len(events) \in Nat /\ Len(events') \in Nat /\ Len(events) <= Len(events')
      /\ \A i \in 0..Len(events) : HashAt(i)' = HashAt(i)
  BY HashesStay
<1>2. CASE seen'[p] = seen[p]
  <2>1. PICK i \in 0..Len(events) : i = seen[p].sequence /\ seen[p].hash = HashAt(i)
    BY DEF SnapshotsAreOld
  <2>2. i \in 0..Len(events') /\ HashAt(i)' = HashAt(i)
    BY <1>1, <2>1
  <2> QED
    BY <1>2, <2>1, <2>2 DEF HashAt
<1>3. CASE seen'[p] = head /\ UNCHANGED events
  <2>1. head.sequence = Len(events) /\ head.hash = HashAt(Len(events))
    BY DEF StoreInvariant, ChainContiguous
  <2> QED
    BY <1>1, <1>3, <2>1 DEF HashAt, Hash
<1> QED
  BY <1>2, <1>3, SeenStep

\* A verifier that refuses has been overtaken: the chain it scans is valid and
\* its own head is in it, so only a longer chain can differ from that head.
LEMMA OvertakenKeep ==
  ASSUME StoreInvariant, SnapshotsAreOld, RefusedOnlyByConcurrentCommit, [Next]_vars
  PROVE  RefusedOnlyByConcurrentCommit'
<1> SUFFICES ASSUME NEW p \in Processes, phase'[p] = "refused"
             PROVE  seen'[p].sequence < Len(events')
  BY DEF RefusedOnlyByConcurrentCommit
<1>1. /\ Len(events) \in Nat /\ Len(events') \in Nat /\ Len(events) <= Len(events')
      /\ seen[p].sequence \in 0..Len(events) /\ seen[p].hash = HashAt(seen[p].sequence)
  BY HashesStay DEF SnapshotsAreOld
<1>2. CASE phase[p] = "refused" /\ seen'[p] = seen[p]
  BY <1>1, <1>2 DEF RefusedOnlyByConcurrentCommit
<1>3. CASE ScanEvents(p)
  <2>1. ChainValid
    BY DEF StoreInvariant, ChainContiguous
  <2>2. phase'[p] = IF ChainValid /\ seen[p].sequence = Len(events)
                         /\ seen[p].hash = HashAt(Len(events))
                    THEN "linking" ELSE "refused"
    BY <1>3 DEF ScanEvents, StoreInvariant, TypeOK
  <2>3. seen[p].sequence # Len(events)
    BY <1>1, <2>1, <2>2
  <2> QED
    BY <1>1, <1>3, <2>3 DEF ScanEvents
<1>4. CASE CheckLinks(p)
  <2>1. LinksConsistent
    BY DEF StoreInvariant, CompletedIffAudited
  <2> QED
    BY <1>4, <2>1 DEF CheckLinks, StoreInvariant, TypeOK
<1>5. ScanEvents(p) \/ CheckLinks(p) \/ (phase[p] = "refused" /\ seen'[p] = seen[p])
  <2>1. CASE \E r \in Requests : RequestStep(r)
    BY <2>1 DEF RequestStep, Arrive, ReserveOwner, ReserveUnacknowledged, ReserveObserver,
       Poll, PollDeadline, StoreError, ScoreSucceeds, ScoreFails, EnterGate, LockRow,
       StageCompletion, Commit, Acknowledge, CompletionError, Rollback, RecordFailure,
       FailureNotRecorded, processVars
  <2>2. ASSUME NEW o \in Processes, ProcessStep(o), ~ScanEvents(p), ~CheckLinks(p)
        PROVE  phase[p] = "refused" /\ seen'[p] = seen[p]
    BY <2>2 DEF ProcessStep, OpenStore, ScanEvents, CheckLinks, Crash, StoreInvariant, TypeOK
  <2>3. CASE Tick \/ Quiet \/ UNCHANGED vars
    BY <2>3 DEF Tick, Quiet, vars, processVars
  <2> QED
    BY <2>1, <2>2, <2>3 DEF Next
<1> QED
  BY <1>2, <1>3, <1>4, <1>5

\* A starting process is refused only when a completion was committed between
\* its statements: a chain nobody appends to always opens.
THEOREM StartsAreRefusedByCommits == Spec => []RefusedOnlyByConcurrentCommit
<1> DEFINE Overtaken == StoreInvariant /\ SnapshotsAreOld /\ RefusedOnlyByConcurrentCommit
<1>1. Init => Overtaken
  <2>1. Init => SnapshotsAreOld
    <3> SUFFICES ASSUME Init PROVE SnapshotsAreOld
      OBVIOUS
    <3>1. Len(events) \in Nat
      BY DEF Init
    <3> QED
      BY <3>1 DEF Init, SnapshotsAreOld, HashAt
  <2>2. Init => RefusedOnlyByConcurrentCommit
    BY DEF Init, RefusedOnlyByConcurrentCommit
  <2> QED
    BY <2>1, <2>2, InitStep
<1>2. Overtaken /\ [Next]_vars => Overtaken'
  BY NextStep, SnapshotsKeep, OvertakenKeep
<1>3. Overtaken => RefusedOnlyByConcurrentCommit
  OBVIOUS
<1> QED
  BY <1>1, <1>2, <1>3, PTL DEF Spec

\* A step that keeps every digest, every response and every sent answer is
\* invisible in the ledger.
LEMMA LedgerStutters ==
  ASSUME \A k \in Keys : row'[k].digest = row[k].digest /\ row'[k].response = row[k].response,
         \A q \in Requests : ShownTo(q)' = ShownTo(q)
  PROVE  UNCHANGED Ledger!vars
BY DEF Ledger!vars

\* A request is shown something only when it ends with a success or a conflict.
LEMMA ShownNothing ==
  ASSUME NEW q \in Requests,
         pc[q] # "done" \/ answer[q].kind \notin {"success", "conflict"}
  PROVE  ShownTo(q) = Ledger!NotShown
BY DEF ShownTo, Ledger!NotShown

\* What a request was shown does not depend on the others' steps.
LEMMA ShownKeeps ==
  ASSUME NEW q \in Requests, key'[q] = key[q], digest'[q] = digest[q], answer'[q] = answer[q],
         pc'[q] = pc[q] \/ (pc'[q] = "dead" /\ Active(q))
  PROVE  ShownTo(q)' = ShownTo(q)
<1>1. CASE pc'[q] = pc[q]
  BY <1>1 DEF ShownTo
<1>2. CASE pc'[q] = "dead" /\ Active(q)
  BY <1>2 DEF ShownTo, Active
<1> QED
  BY <1>1, <1>2

\* An insertion binds the key to the request's input.
LEMMA InsertionBinds ==
  ASSUME StoreInvariant, NEW r \in Requests, pc[r] = "reserving",
         row[key[r]].state = "absent", InsertReservation(r),
         \A q \in Requests : ShownTo(q)' = ShownTo(q)
  PROVE  Ledger!Next
<1>1. /\ key[r] \in Keys /\ digest[r] \in Digests
      /\ \A k \in Keys : row'[k] = IF k = key[r] THEN ReservedRow(digest[r], now + TTL) ELSE row[k]
  BY ReservationFacts
<1>2. row[key[r]].digest = None /\ row[key[r]].response = None
  BY <1>1 DEF StoreInvariant, RowsWellFormed, AbsentRow
<1>3. \A k \in Keys : /\ row'[k].digest = IF k = key[r] THEN digest[r] ELSE row[k].digest
                      /\ row'[k].response = row[k].response
  BY <1>1, <1>2 DEF ReservedRow
<1>4. PICK k \in Keys, d \in Digests : k = key[r] /\ d = digest[r]
  BY <1>1
<1>5. Ledger!Bind(k, d)
  BY <1>1, <1>2, <1>3, <1>4 DEF Ledger!Bind
<1> QED
  BY <1>5 DEF Ledger!Next

\* The committed completion decides the key.
LEMMA CommitDecides ==
  ASSUME StoreInvariant, NEW r \in Requests, Commit(r),
         \A q \in Requests : ShownTo(q)' = ShownTo(q)
  PROVE  Ledger!Next
<1>1. /\ key[r] \in Keys /\ digest[r] \in Digests /\ scored[r] \in Decisions
      /\ row[key[r]].state = "reserved" /\ row[key[r]].digest = digest[r]
      /\ row'[key[r]] = CompletedRow(row[key[r]], scored[r], Hash(staged[r]))
      /\ \A k \in Keys : k # key[r] => row'[k] = row[k]
  BY CommitFacts
<1>2. row[key[r]].response = None /\ row[key[r]].digest # None
  BY <1>1, ScaleAssumption DEF StoreInvariant, RowsWellFormed
<1>3. \A k \in Keys : /\ row'[k].digest = row[k].digest
                      /\ row'[k].response = IF k = key[r] THEN scored[r] ELSE row[k].response
  BY <1>1 DEF CompletedRow
<1>4. PICK k \in Keys, v \in Decisions : k = key[r] /\ v = scored[r]
  BY <1>1
<1>5. Ledger!Decide(k, v)
  BY <1>1, <1>2, <1>3, <1>4 DEF Ledger!Decide
<1> QED
  BY <1>5 DEF Ledger!Next

\* A caller that is answered with the stored decision is shown that of its key.
LEMMA SuccessShows ==
  ASSUME StoreInvariant, NEW r \in Requests, UNCHANGED row, key[r] \in Keys, digest[r] \in Digests,
         pc[r] # "done", pc'[r] = "done", key'[r] = key[r], digest'[r] = digest[r],
         row[key[r]].state = "completed", row[key[r]].digest = digest[r],
         answer'[r].kind = "success", answer'[r].decision = row[key[r]].response,
         \A q \in Requests : q # r => ShownTo(q)' = ShownTo(q)
  PROVE  Ledger!Next
<1>1. row[key[r]].response # None
  BY ScaleAssumption DEF StoreInvariant, RowsWellFormed
<1>2. ShownTo(r) = Ledger!NotShown
  BY ShownNothing
<1>3. ShownTo(r)' = Ledger!Shown(key[r], digest[r], "decision", row[key[r]].response)
  BY DEF ShownTo, Ledger!Shown
<1>4. [q \in Requests |-> ShownTo(q)]' =
        [[q \in Requests |-> ShownTo(q)] EXCEPT
           ![r] = Ledger!Shown(key[r], digest[r], "decision", row[key[r]].response)]
  BY <1>3
<1>5. Ledger!Show(r, key[r], digest[r])
  BY <1>1, <1>2, <1>4 DEF Ledger!Show
<1> QED
  BY <1>5 DEF Ledger!Next

\* A caller that brought another input is shown a conflict.
LEMMA ConflictShows ==
  ASSUME StoreInvariant, NEW r \in Requests, UNCHANGED row, key[r] \in Keys, digest[r] \in Digests,
         pc[r] # "done", pc'[r] = "done", key'[r] = key[r], digest'[r] = digest[r],
         row[key[r]].digest \notin {None, digest[r]}, answer'[r].kind = "conflict",
         \A q \in Requests : q # r => ShownTo(q)' = ShownTo(q)
  PROVE  Ledger!Next
<1>1. ShownTo(r) = Ledger!NotShown
  BY ShownNothing
<1>2. ShownTo(r)' = Ledger!Shown(key[r], digest[r], "conflict", None)
  BY DEF ShownTo, Ledger!Shown
<1>3. [q \in Requests |-> ShownTo(q)]' =
        [[q \in Requests |-> ShownTo(q)] EXCEPT
           ![r] = Ledger!Shown(key[r], digest[r], "conflict", None)]
  BY <1>2
<1>4. Ledger!Conflict(r, key[r], digest[r])
  BY <1>1, <1>3 DEF Ledger!Conflict
<1> QED
  BY <1>4 DEF Ledger!Next

\* A request's own step shows it something only as it ends, and then the
\* decision or the conflict of its row.
LEMMA OwnStepShows ==
  ASSUME StoreInvariant, AnswersFollowRows, NEW r \in Requests, RequestStep(r),
         \A p \in Processes, k \in Keys, d \in Digests : ~Arrive(r, p, k, d)
  PROVE  \/ ShownTo(r)' = ShownTo(r)
         \/ UNCHANGED row /\ Ledger!Next
<1>1. /\ key'[r] = key[r] /\ digest'[r] = digest[r]
      /\ pc[r] # "new" \/ tx[r] # "none"
      /\ \/ GoesAhead(r) \/ StartsPolling(r) \/ IsRefused(r) \/ IsAnswered(r)
         \/ Answers(r) \/ EndsRefused(r)
  BY OwnStep
<1>2. key[r] \in Keys /\ digest[r] \in Digests
  BY <1>1 DEF StoreInvariant, TypeOK
<1>3. \A q \in Requests : q # r => ShownTo(q)' = ShownTo(q)
  BY OthersKeep, ShownKeeps
<1>4. CASE GoesAhead(r)
  BY <1>1, <1>4 DEF GoesAhead, ShownTo
<1>5. CASE StartsPolling(r) \/ IsRefused(r)
  BY <1>5 DEF StartsPolling, IsRefused, PlainRefusals, ShownTo
<1>6. CASE EndsRefused(r)
  <2>1. answer[r].kind \notin {"success", "conflict"}
    BY <1>6 DEF EndsRefused, AnswersFollowRows, StoreInvariant, RequestsInOrder
  <2> QED
    BY <1>6, <2>1 DEF EndsRefused, ShownTo
<1>7. CASE IsAnswered(r)
  <2>0. UNCHANGED row /\ pc[r] # "done" /\ pc'[r] = "done" /\ answer'[r] = Observed(r)
    BY <1>7 DEF IsAnswered
  <2>1. CASE Observed(r).kind = "success"
    <3>1. /\ row[key[r]].state = "completed" /\ row[key[r]].digest = digest[r]
          /\ Observed(r).decision = row[key[r]].response
      BY <2>1, ObservedAnswer DEF Success
    <3> QED
      BY <1>1, <1>2, <1>3, <2>0, <2>1, <3>1, SuccessShows
  <2>2. CASE Observed(r).kind = "conflict"
    <3>1. row[key[r]].digest \notin {None, digest[r]}
      BY <1>2, <1>7, <2>2, ObservedRefusal DEF IsAnswered
    <3> QED
      BY <1>1, <1>2, <1>3, <2>0, <2>2, <3>1, ConflictShows
  <2>3. CASE Observed(r).kind \notin {"success", "conflict"}
    BY <2>0, <2>3 DEF ShownTo
  <2> QED
    BY <2>1, <2>2, <2>3
<1>8. CASE Answers(r)
  <2>1. /\ UNCHANGED row /\ pc[r] # "done" /\ pc'[r] = "done"
        /\ answer'[r] = Success(scored[r], Hash(staged[r])) /\ tx[r] = "committed"
    BY <1>8 DEF Answers
  <2>2. /\ row[key[r]] = CompletedRow(row[key[r]], scored[r], Hash(staged[r]))
        /\ row[key[r]].digest = digest[r]
    BY <2>1 DEF StoreInvariant, LocksProtect
  <2>3. row[key[r]].state = "completed" /\ row[key[r]].response = scored[r]
    BY <2>2 DEF CompletedRow
  <2>4. answer'[r].kind = "success" /\ answer'[r].decision = scored[r]
    BY <2>1 DEF Success
  <2> QED
    BY <1>1, <1>2, <1>3, <2>1, <2>2, <2>3, <2>4, SuccessShows
<1> QED
  BY <1>1, <1>4, <1>5, <1>6, <1>7, <1>8

\* What a step can do to the rows, told apart by what the ledger sees.
LEMMA RowsOrLedger ==
  ASSUME StoreInvariant, NEW r \in Requests, RequestStep(r),
         \A q \in Requests : ShownTo(q)' = ShownTo(q)
  PROVE  \/ \A k \in Keys : row'[k].digest = row[k].digest /\ row'[k].response = row[k].response
         \/ Ledger!Next
<1>1. CASE Commit(r)
  BY <1>1, CommitDecides
<1>2. CASE ReserveOwner(r) \/ ReserveUnacknowledged(r)
  BY <1>2, InsertionBinds DEF ReserveOwner, ReserveUnacknowledged
<1>3. CASE RecordFailure(r)
  BY <1>3 DEF RecordFailure, FailedRow, StoreInvariant, TypeOK
<1>4. CASE row' = row
  BY <1>4
<1>5. Commit(r) \/ ReserveOwner(r) \/ ReserveUnacknowledged(r) \/ RecordFailure(r) \/ row' = row
  BY DEF RequestStep, Arrive, ReserveObserver, Poll, PollDeadline, StoreError, ScoreSucceeds,
     ScoreFails, EnterGate, LockRow, StageCompletion, Acknowledge, CompletionError, Rollback,
     FailureNotRecorded, dbVars
<1> QED
  BY <1>1, <1>2, <1>3, <1>4, <1>5

\* Every step of the store is a step of the ledger or none.
LEMMA LedgerStep ==
  ASSUME StoreInvariant, AnswersFollowRows, [Next]_vars
  PROVE  [Ledger!Next]_Ledger!vars
<1>1. ASSUME NEW r \in Requests, RequestStep(r)
      PROVE  Ledger!Next \/ UNCHANGED Ledger!vars
  <2>1. \A q \in Requests : q # r => ShownTo(q)' = ShownTo(q)
    BY <1>1, OthersKeep, ShownKeeps
  <2>2. CASE ShownTo(r)' = ShownTo(r)
    <3>1. \A q \in Requests : ShownTo(q)' = ShownTo(q)
      BY <2>1, <2>2
    <3> QED
      BY <1>1, <3>1, RowsOrLedger, LedgerStutters
  <2>3. CASE \E p \in Processes, k \in Keys, d \in Digests : Arrive(r, p, k, d)
    <3>1. pc[r] # "done" /\ pc'[r] # "done"
      BY <2>3 DEF Arrive, StoreInvariant, TypeOK
    <3> QED
      BY <2>2, <3>1 DEF ShownTo
  <2>4. CASE \A p \in Processes, k \in Keys, d \in Digests : ~Arrive(r, p, k, d)
    BY <1>1, <2>2, <2>4, OwnStepShows
  <2> QED
    BY <2>3, <2>4
<1>2. CASE (\E p \in Processes : ProcessStep(p)) \/ Tick \/ Quiet \/ UNCHANGED vars
  <2>1. \A q \in Requests : ShownTo(q)' = ShownTo(q)
    BY <1>2, BackgroundKeeps, ShownKeeps
  <2>2. UNCHANGED row
    BY <1>2 DEF ProcessStep, OpenStore, ScanEvents, CheckLinks, Crash, Tick, Quiet, vars, dbVars
  <2> QED
    BY <2>1, <2>2, LedgerStutters
<1> QED
  BY <1>1, <1>2 DEF Next

\* The store implements the abstract ledger, whatever crashes, expires, is lost
\* or arrives twice: a key is bound once, decided once, and every caller who is
\* shown a decision under it is shown that one.
THEOREM StoreImplementsLedger == Spec => ImplementsLedger
<1>1. Init => Ledger!Init
  <2> SUFFICES ASSUME Init PROVE Ledger!Init
    OBVIOUS
  <2>1. \A k \in Keys : row[k].digest = None /\ row[k].response = None
    BY DEF Init, AbsentRow
  <2>2. \A q \in Requests : ShownTo(q) = Ledger!NotShown
    BY DEF Init, ShownTo, Ledger!NotShown
  <2> QED
    BY <2>1, <2>2 DEF Ledger!Init
<1>2. StoreInvariant /\ AnswersFollowRows /\ [Next]_vars => [Ledger!Next]_Ledger!vars
  BY LedgerStep
<1> QED
  BY <1>1, <1>2, AnswersFollow, PTL DEF Spec, ImplementsLedger, Ledger!Spec

=============================================================================

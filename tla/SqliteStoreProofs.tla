-------------------------- MODULE SqliteStoreProofs --------------------------
(***************************************************************************)
(* The safety of SqliteStore for any keys, callers and handles, and the    *)
(* refinement of the abstract ledger.  SqliteInvariant is inductive: until *)
(* two handles claim the same failed attempt at once, a key has one owner  *)
(* under way, so what that owner knows of the row and of the audit trail   *)
(* stays true between its statements, whatever other handles do.           *)
(***************************************************************************)
EXTENDS SqliteStore, SequenceTheorems, TLAPS

SqliteInvariant == SqliteTypeOK /\ OwnersExclude /\ OneEventPerKey

\* What OneEventPerKey says of one key.
OneEvent(k) ==
  /\ \A m, n \in EventsOf(k) : m = n
  /\ table[k].state = "COMPLETED" =>
       \E n \in EventsOf(k) : trail[n].input = table[k].input
                              /\ trail[n].decision = table[k].decision

\* A step leaves the row and the events of a key alone.
KeyStays(j) ==
  /\ table'[j] = table[j] /\ EventsOf(j)' = EventsOf(j)
  /\ \A n \in EventsOf(j) : trail'[n] = trail[n]

\* A step keeps the events of a key, and the input of a row that is there.
KeyGrows(k) ==
  /\ \A n \in EventsOf(k) : n \in EventsOf(k)' /\ trail'[n] = trail[n]
  /\ table[k].state # "none" => table'[k].state # "none" /\ table'[k].input = table[k].input

\* The events of a key depend on the sequence of events alone.
LEMMA EventsFrame ==
  ASSUME UNCHANGED trail
  PROVE  \A k : EventsOf(k)' = EventsOf(k)
BY DEF EventsOf

\* Appending an event adds its position to the events of its key.
LEMMA EventsAfterAppend ==
  ASSUME NEW S, trail \in Seq(S), NEW e \in S, trail' = Append(trail, e)
  PROVE  /\ trail' \in Seq(S)
         /\ \A n \in DOMAIN trail : trail'[n] = trail[n]
         /\ trail'[Len(trail) + 1] = e
         /\ DOMAIN trail' = DOMAIN trail \cup {Len(trail) + 1}
         /\ Len(trail) + 1 \notin DOMAIN trail
<1> DEFINE t == trail'
<1>1. t = Append(trail, e)
  OBVIOUS
<1> HIDE DEF t
<1>2. t \in Seq(S) /\ Len(t) = Len(trail) + 1 /\ t[Len(trail) + 1] = e
      /\ \A n \in 1..Len(trail) : t[n] = trail[n]
  BY <1>1, AppendProperties
<1>3. Len(trail) \in Nat /\ DOMAIN trail = 1..Len(trail) /\ DOMAIN t = 1..(Len(trail) + 1)
  BY <1>2
<1> QED
  BY <1>2, <1>3 DEF t

\* What a call knows stays true while it waits and its key only grows.
LEMMA CallFrame ==
  ASSUME NEW c, CallKnows(c), Claiming(c) \/ Underway(c), call'[c] = call[c],
         KeyGrows(call[c].key)
  PROVE  CallKnows(c)'
<1> DEFINE k == call[c].key
<1>1. call'[c].key = k /\ Claiming(c)' = Claiming(c)
  BY DEF Claiming
<1>2. call[c].audited =>
        \E n \in EventsOf(k)' : trail'[n].input = call[c].input /\ trail'[n].decision = call[c].verdict
  BY DEF CallKnows, KeyGrows
<1>3. call[c].at # "inserting" => table'[k].state # "none" /\ table'[k].input = call[c].input
  BY DEF CallKnows, KeyGrows
<1> HIDE DEF k
<1> QED
  BY <1>1, <1>2, <1>3 DEF CallKnows, k

\* A key that a step leaves alone, with the calls that work on it, stays exclusive.
LEMMA KeyFrame ==
  ASSUME NEW j, KeyIsExclusive(j), OneEvent(j), KeyStays(j),
         \A d \in SqliteCallers : call'[d].key = j /\ (Underway(d)' \/ call'[d].at = "reclaiming")
                                    => call'[d] = call[d]
  PROVE  KeyIsExclusive(j)' /\ OneEvent(j)'
<1>1. \A d \in SqliteCallers : Underway(d)' /\ call'[d].key = j => Underway(d) /\ call'[d] = call[d]
  BY DEF Underway
<1>2. /\ table'[j] = table[j] /\ EventsOf(j)' = EventsOf(j)
      /\ \A n \in EventsOf(j) : trail'[n] = trail[n]
  BY DEF KeyStays
<1>3. KeyIsExclusive(j)'
  BY <1>1, <1>2 DEF KeyIsExclusive
<1>4. OneEvent(j)'
  BY <1>2 DEF OneEvent
<1> QED
  BY <1>3, <1>4

\* The invariant, key by key and call by call.
LEMMA InvariantIs ==
  SqliteInvariant <=>
    /\ SqliteTypeOK
    /\ \A c \in SqliteCallers : Claiming(c) \/ Underway(c) => CallKnows(c)
    /\ \A k \in SqliteKeys \ contended : KeyIsExclusive(k) /\ OneEvent(k)
BY DEF SqliteInvariant, OwnersExclude, OneEventPerKey, OneEvent

\* A step of one call on one key keeps the invariant when the call knows its key
\* afterwards and the key, unless it is contended by now, is exclusive.
LEMMA CallStep ==
  ASSUME SqliteInvariant, SqliteTypeOK', NEW c \in SqliteCallers, NEW k \in SqliteKeys,
         call'[c].key = k,
         \A d \in SqliteCallers \ {c} : call'[d] = call[d],
         \A j \in SqliteKeys \ {k} : KeyStays(j),
         KeyGrows(k),
         contended' = contended \/ contended' = contended \cup {k},
         Claiming(c)' \/ Underway(c)' => CallKnows(c)',
         k \notin contended' => KeyIsExclusive(k)' /\ OneEvent(k)'
  PROVE  SqliteInvariant'
<1>1. ASSUME NEW d \in SqliteCallers, Claiming(d)' \/ Underway(d)'
      PROVE  CallKnows(d)'
  <2>1. CASE d = c
    BY <1>1, <2>1
  <2>2. CASE d # c
    <3>1. call'[d] = call[d] /\ (Claiming(d) \/ Underway(d))
      BY <1>1, <2>2 DEF Claiming, Underway
    <3>2. CallKnows(d) /\ call[d].key \in SqliteKeys
      BY <3>1, InvariantIs DEF CallKnows
    <3>3. KeyGrows(call[d].key)
      <4>1. CASE call[d].key = k
        BY <4>1
      <4>2. CASE call[d].key # k
        <5>1. KeyStays(call[d].key)
          BY <3>2, <4>2
        <5> QED
          BY <5>1 DEF KeyStays, KeyGrows
      <4> QED
        BY <4>1, <4>2
    <3> QED
      BY <3>1, <3>2, <3>3, CallFrame
  <2> QED
    BY <2>1, <2>2
<1>2. ASSUME NEW j \in SqliteKeys, j \notin contended'
      PROVE  KeyIsExclusive(j)' /\ OneEvent(j)'
  <2>1. CASE j = k
    BY <1>2, <2>1
  <2>2. CASE j # k
    <3>1. KeyIsExclusive(j) /\ OneEvent(j) /\ KeyStays(j)
      BY <1>2, <2>2, InvariantIs
    <3>2. \A d \in SqliteCallers : call'[d].key = j => call'[d] = call[d]
      BY <2>2
    <3> QED
      BY <3>1, <3>2, KeyFrame
  <2> QED
    BY <2>1, <2>2
<1>3. OwnersExclude' /\ OneEventPerKey'
  BY <1>1, <1>2 DEF OwnersExclude, OneEventPerKey, OneEvent
<1> QED
  BY <1>3 DEF SqliteInvariant

\* A call ends, or a claim is read, without a change of the file.
LEMMA QuietStep ==
  ASSUME SqliteInvariant, SqliteTypeOK', NEW c \in SqliteCallers, NEW k \in SqliteKeys,
         UNCHANGED <<table, trail, contended>>, call'[c].key = k,
         \A d \in SqliteCallers \ {c} : call'[d] = call[d],
         ~Underway(c)', Claiming(c)' => CallKnows(c)',
         call'[c].at = "reclaiming" => table[k].state = "FAILED"
  PROVE  SqliteInvariant'
<1>1. \A j : KeyStays(j)
  BY EventsFrame DEF KeyStays
<1>2. KeyGrows(k)
  BY <1>1 DEF KeyStays, KeyGrows
<1>3. ASSUME k \notin contended'
      PROVE  KeyIsExclusive(k)' /\ OneEvent(k)'
  <2>1. KeyIsExclusive(k) /\ OneEvent(k) /\ KeyStays(k)
    BY <1>1, <1>3, InvariantIs
  <2>2. /\ table'[k] = table[k] /\ EventsOf(k)' = EventsOf(k)
        /\ \A n \in EventsOf(k) : trail'[n] = trail[n]
    BY <2>1 DEF KeyStays
  <2>3. \A d \in SqliteCallers : Underway(d)' => d # c /\ Underway(d) /\ call'[d] = call[d]
    BY DEF Underway
  <2>4. \A d \in SqliteCallers : call'[d].at = "reclaiming" /\ call'[d].key = k
          => table[k].state = "FAILED"
    BY <2>1 DEF KeyIsExclusive
  <2>5. KeyIsExclusive(k)'
    BY <2>1, <2>2, <2>3, <2>4 DEF KeyIsExclusive
  <2>6. OneEvent(k)'
    BY <2>1, <2>2 DEF OneEvent
  <2> QED
    BY <2>5, <2>6
<1> QED
  BY <1>1, <1>2, <1>3, CallStep

\* An answer ends the call and keeps the type of the calls.
LEMMA AnswerEnds ==
  ASSUME SqliteTypeOK, NEW c \in SqliteCallers, NEW kind \in {"decision", "error"},
         NEW v \in SqliteVerdicts \cup {NoValue}, EndsCall(c, kind, v)
  PROVE  /\ call' \in [SqliteCallers -> SqliteCalls]
         /\ call'[c] = [call[c] EXCEPT !.at = "ended", !.answer = kind, !.verdict = v]
         /\ call'[c].at = "ended" /\ call'[c].key = call[c].key /\ call'[c].input = call[c].input
         /\ call'[c].answer = kind /\ call'[c].verdict = v
         /\ ~Underway(c)' /\ ~Claiming(c)'
         /\ \A d \in SqliteCallers \ {c} : call'[d] = call[d]
<1>1. call \in [SqliteCallers -> SqliteCalls] /\ call[c] \in SqliteCalls
  BY DEF SqliteTypeOK
<1>2. call'[c] = [call[c] EXCEPT !.at = "ended", !.answer = kind, !.verdict = v]
      /\ \A d \in SqliteCallers \ {c} : call'[d] = call[d]
  BY <1>1 DEF EndsCall
<1>3. call'[c] \in SqliteCalls
  BY <1>1, <1>2 DEF SqliteCalls
<1>4. call' \in [SqliteCallers -> SqliteCalls]
  BY <1>1, <1>3 DEF EndsCall
<1>5. /\ call'[c].at = "ended" /\ call'[c].key = call[c].key /\ call'[c].input = call[c].input
      /\ call'[c].answer = kind /\ call'[c].verdict = v
  BY <1>1, <1>2 DEF SqliteCalls
<1> QED
  BY <1>2, <1>4, <1>5 DEF Underway, Claiming

\* The SELECT answers at once, or finds a row that may be claimed.
LEMMA ReadsKeeps ==
  ASSUME SqliteInvariant, NEW c \in SqliteCallers, NEW h \in SqliteHandles,
         NEW k \in SqliteKeys, NEW i \in SqliteInputs,
         ReserveAsReader(c, h, k, i) \/ ReadsClaimable(c, h, k, i)
  PROVE  SqliteInvariant'
<1>1. table[k] \in SqliteRows /\ call \in [SqliteCallers -> SqliteCalls] /\ SqliteTypeOK
  BY DEF SqliteInvariant, SqliteTypeOK
<1>2. UNCHANGED <<table, trail, handle, contended>>
  BY DEF ReserveAsReader, ReadsClaimable
<1>3. CASE ReserveAsReader(c, h, k, i)
  <2> DEFINE v == IF Reads(k, i) = "replay" THEN table[k].decision ELSE NoValue
             e == [Uncalled EXCEPT !.at = "ended", !.handle = h, !.key = k, !.input = i,
                                   !.answer = Reads(k, i), !.verdict = v]
  <2>1. Reads(k, i) \in {"replay", "conflict", "unresolved", "claimable"}
    BY DEF Reads
  <2>2. e \in SqliteCalls /\ e.at = "ended" /\ e.key = k
    BY <1>1, <1>3, <2>1 DEF ReserveAsReader, Uncalled, SqliteCalls, SqliteRows
  <2>3. call' = [call EXCEPT ![c] = e]
    BY <1>3 DEF ReserveAsReader
  <2> HIDE DEF e, v
  <2>4. /\ call'[c] = e /\ (\A d \in SqliteCallers \ {c} : call'[d] = call[d])
        /\ call' \in [SqliteCallers -> SqliteCalls]
    BY <1>1, <2>2, <2>3
  <2>5. SqliteTypeOK'
    BY <1>1, <1>2, <2>4 DEF SqliteTypeOK
  <2>6. ~Underway(c)' /\ ~Claiming(c)'
    BY <2>2, <2>4 DEF Underway, Claiming
  <2> QED
    BY <1>2, <2>2, <2>4, <2>5, <2>6, QuietStep DEF Claiming
<1>4. CASE ReadsClaimable(c, h, k, i)
  <2>1. PICK p : p = IF table[k].state = "none" THEN "inserting" ELSE "reclaiming"
    OBVIOUS
  <2> DEFINE e == [Uncalled EXCEPT !.at = p, !.handle = h, !.key = k, !.input = i]
  <2>2. /\ e \in SqliteCalls /\ e.at = p /\ e.key = k /\ e.input = i /\ e.answer = "none"
        /\ ~e.audited
    BY <2>1 DEF Uncalled, SqliteCalls
  <2>3. call' = [call EXCEPT ![c] = e]
    BY <1>4, <2>1 DEF ReadsClaimable
  <2> HIDE DEF e
  <2>4. /\ call'[c] = e /\ (\A d \in SqliteCallers \ {c} : call'[d] = call[d])
        /\ call' \in [SqliteCallers -> SqliteCalls]
    BY <1>1, <2>2, <2>3
  <2>5. SqliteTypeOK'
    BY <1>1, <1>2, <2>4 DEF SqliteTypeOK
  <2>6. p = "reclaiming" => table[k].state = "FAILED" /\ table[k].input = i
    BY <1>1, <1>4, <2>1 DEF ReadsClaimable, Reads, SqliteRows
  <2>7. CallKnows(c)' /\ ~Underway(c)'
    BY <1>2, <2>1, <2>2, <2>4, <2>6 DEF CallKnows, Underway
  <2> QED
    BY <1>2, <2>2, <2>4, <2>5, <2>6, <2>7, QuietStep
<1> QED
  BY <1>3, <1>4

\* A claim that is answered with an error leaves the file alone.
LEMMA ErrorKeeps ==
  ASSUME SqliteInvariant, NEW c \in SqliteCallers, Claiming(c) \/ Underway(c),
         UNCHANGED <<table, trail, handle, contended>>, EndsCall(c, "error", NoValue)
  PROVE  SqliteInvariant'
<1>1. SqliteTypeOK /\ CallKnows(c)
  BY InvariantIs
<1>2. call[c].key \in SqliteKeys
  BY <1>1 DEF CallKnows
<1>3. /\ call' \in [SqliteCallers -> SqliteCalls]
      /\ call'[c].at = "ended" /\ call'[c].key = call[c].key
      /\ ~Underway(c)' /\ ~Claiming(c)'
      /\ \A d \in SqliteCallers \ {c} : call'[d] = call[d]
  BY <1>1, AnswerEnds
<1>4. SqliteTypeOK'
  BY <1>1, <1>3 DEF SqliteTypeOK
<1> QED
  BY <1>2, <1>3, <1>4, QuietStep

\* An INSERT finds no row: nobody owned the key, and it has no event.
LEMMA InsertKeeps ==
  ASSUME SqliteInvariant, NEW c \in SqliteCallers, call[c].at = "inserting",
         table[call[c].key].state = "none", InsertRow(c), UNCHANGED <<trail, handle, contended>>,
         \/ call' = [call EXCEPT ![c].at = "scoring"]
         \/ EndsCall(c, "error", NoValue)
  PROVE  SqliteInvariant'
<1>0. PICK k, i : k = call[c].key /\ i = call[c].input
  OBVIOUS
<1>1. SqliteTypeOK /\ CallKnows(c) /\ k \in SqliteKeys /\ i \in SqliteInputs
      /\ ~call[c].audited /\ call[c].answer = "none"
  BY <1>0, InvariantIs DEF Claiming, CallKnows
<1>2. /\ table' = [table EXCEPT ![k].state = "PENDING", ![k].input = i]
      /\ table \in [SqliteKeys -> SqliteRows] /\ call \in [SqliteCallers -> SqliteCalls]
  BY <1>0, <1>1 DEF InsertRow, SqliteTypeOK
<1>3. /\ table' \in [SqliteKeys -> SqliteRows]
      /\ table'[k].state = "PENDING" /\ table'[k].input = i
      /\ \A j \in SqliteKeys \ {k} : table'[j] = table[j]
  BY <1>1, <1>2 DEF SqliteRows
<1>4. /\ call' \in [SqliteCallers -> SqliteCalls] /\ call'[c].key = k /\ call'[c].input = i
      /\ \A d \in SqliteCallers \ {c} : call'[d] = call[d]
      /\ \/ /\ call'[c].at = "scoring" /\ ~call'[c].audited /\ call'[c].answer = "none"
         \/ call'[c].at = "ended"
  <2>1. CASE EndsCall(c, "error", NoValue)
    BY <1>0, <1>1, <2>1, AnswerEnds
  <2>2. CASE call' = [call EXCEPT ![c].at = "scoring"]
    <3>1. call'[c] = [call[c] EXCEPT !.at = "scoring"] /\ call[c] \in SqliteCalls
      BY <1>2, <2>2
    <3>2. /\ call'[c] \in SqliteCalls /\ call'[c].at = "scoring" /\ call'[c].key = k /\ call'[c].input = i
          /\ call'[c].audited = call[c].audited /\ call'[c].answer = call[c].answer
      BY <1>0, <3>1 DEF SqliteCalls
    <3>3. call' \in [SqliteCallers -> SqliteCalls]
      BY <1>2, <2>2, <3>1, <3>2
    <3>4. \A d \in SqliteCallers \ {c} : call'[d] = call[d]
      BY <1>2, <2>2
    <3> QED
      BY <1>1, <3>2, <3>3, <3>4
  <2> QED
    BY <2>1, <2>2
<1>5. SqliteTypeOK'
  BY <1>1, <1>3, <1>4 DEF SqliteTypeOK
<1>6. \A j \in SqliteKeys \ {k} : KeyStays(j)
  BY <1>3, EventsFrame DEF KeyStays
<1>7. KeyGrows(k) /\ \A j : EventsOf(j)' = EventsOf(j)
  BY <1>0, EventsFrame DEF KeyGrows
<1>8. Claiming(c)' \/ Underway(c)' => CallKnows(c)'
  BY <1>1, <1>3, <1>4 DEF CallKnows, Claiming, Underway
<1>9. ASSUME k \notin contended'
      PROVE  KeyIsExclusive(k)' /\ OneEvent(k)'
  <2>1. KeyIsExclusive(k) /\ OneEvent(k) /\ table[k].state = "none"
    BY <1>0, <1>1, <1>9, InvariantIs
  <2>2. EventsOf(k)' = {}
    BY <1>7, <2>1 DEF KeyIsExclusive
  <2>3. \A d \in SqliteCallers \ {c} :
          ~(Underway(d)' /\ call'[d].key = k) /\ ~(call'[d].at = "reclaiming" /\ call'[d].key = k)
    <3> SUFFICES ASSUME NEW d \in SqliteCallers \ {c}, Underway(d)' \/ call'[d].at = "reclaiming",
                        call'[d].key = k
                 PROVE  FALSE
      OBVIOUS
    <3>1. call'[d] = call[d] /\ (Claiming(d) \/ Underway(d)) /\ call[d].at # "inserting"
      BY <1>4 DEF Claiming, Underway
    <3>2. CallKnows(d)
      BY <3>1, InvariantIs
    <3> QED
      BY <2>1, <3>1, <3>2 DEF CallKnows
  <2>4. KeyIsExclusive(k)'
    BY <1>3, <1>4, <2>2, <2>3 DEF KeyIsExclusive, Underway
  <2> QED
    BY <1>3, <2>2, <2>4 DEF OneEvent
<1>10. contended' = contended
  OBVIOUS
<1> QED
  BY <1>1, <1>4, <1>5, <1>6, <1>7, <1>8, <1>9, <1>10, CallStep

\* An UPDATE of a failed row: another call that read the same row is still waiting
\* to claim it, or nobody owned the key, and it has no event.
LEMMA ReclaimKeeps ==
  ASSUME SqliteInvariant, NEW c \in SqliteCallers, call[c].at = "reclaiming",
         ReclaimRow(c), UNCHANGED <<trail, handle>>,
         \/ call' = [call EXCEPT ![c].at = "scoring"]
         \/ EndsCall(c, "error", NoValue)
  PROVE  SqliteInvariant'
<1>0. PICK k, i : k = call[c].key /\ i = call[c].input
  OBVIOUS
<1>1. /\ SqliteTypeOK /\ CallKnows(c) /\ k \in SqliteKeys /\ i \in SqliteInputs
      /\ ~call[c].audited /\ call[c].answer = "none"
      /\ table[k].state # "none" /\ table[k].input = i
  BY <1>0, InvariantIs DEF Claiming, CallKnows
<1>2. /\ table' = [table EXCEPT ![k].state = "PENDING"]
      /\ table \in [SqliteKeys -> SqliteRows] /\ call \in [SqliteCallers -> SqliteCalls]
  BY <1>0, <1>1 DEF ReclaimRow, SqliteTypeOK
<1>3. /\ table' \in [SqliteKeys -> SqliteRows]
      /\ table'[k].state = "PENDING" /\ table'[k].input = i
      /\ \A j \in SqliteKeys \ {k} : table'[j] = table[j]
  BY <1>1, <1>2 DEF SqliteRows
<1>4. /\ call' \in [SqliteCallers -> SqliteCalls] /\ call'[c].key = k /\ call'[c].input = i
      /\ \A d \in SqliteCallers \ {c} : call'[d] = call[d]
      /\ \/ /\ call'[c].at = "scoring" /\ ~call'[c].audited /\ call'[c].answer = "none"
         \/ call'[c].at = "ended"
  <2>1. CASE EndsCall(c, "error", NoValue)
    BY <1>0, <1>1, <2>1, AnswerEnds
  <2>2. CASE call' = [call EXCEPT ![c].at = "scoring"]
    <3>1. call'[c] = [call[c] EXCEPT !.at = "scoring"] /\ call[c] \in SqliteCalls
      BY <1>2, <2>2
    <3>2. /\ call'[c] \in SqliteCalls /\ call'[c].at = "scoring" /\ call'[c].key = k /\ call'[c].input = i
          /\ call'[c].audited = call[c].audited /\ call'[c].answer = call[c].answer
      BY <1>0, <3>1 DEF SqliteCalls
    <3>3. call' \in [SqliteCallers -> SqliteCalls]
      BY <1>2, <2>2, <3>1, <3>2
    <3>4. \A d \in SqliteCallers \ {c} : call'[d] = call[d]
      BY <1>2, <2>2
    <3> QED
      BY <1>1, <3>2, <3>3, <3>4
  <2> QED
    BY <2>1, <2>2
<1>5. contended' = contended \/ contended' = contended \cup {k}
  BY <1>0 DEF ReclaimRow
<1>6. SqliteTypeOK'
  BY <1>1, <1>3, <1>4, <1>5 DEF SqliteTypeOK
<1>7. \A j \in SqliteKeys \ {k} : KeyStays(j)
  BY <1>3, EventsFrame DEF KeyStays
<1>8. KeyGrows(k) /\ \A j : EventsOf(j)' = EventsOf(j)
  BY <1>1, <1>3, EventsFrame DEF KeyGrows
<1>9. Claiming(c)' \/ Underway(c)' => CallKnows(c)'
  BY <1>1, <1>3, <1>4 DEF CallKnows, Claiming, Underway
<1>10. ASSUME k \notin contended'
       PROVE  KeyIsExclusive(k)' /\ OneEvent(k)'
  <2>1. KeyIsExclusive(k) /\ OneEvent(k)
    BY <1>1, <1>5, <1>10, InvariantIs
  <2>2. table[k].state = "FAILED"
    BY <1>0, <2>1 DEF KeyIsExclusive
  <2>3. EventsOf(k)' = {}
    BY <1>8, <2>1, <2>2 DEF KeyIsExclusive
  <2>4. \A d \in SqliteCallers \ {c} : ~(call[d].at = "reclaiming" /\ call[d].key = k)
    BY <1>0, <1>10 DEF ReclaimRow
  <2>5. \A d \in SqliteCallers \ {c} : ~(Underway(d) /\ call[d].key = k)
    BY <2>1, <2>2 DEF KeyIsExclusive
  <2>6. KeyIsExclusive(k)'
    BY <1>3, <1>4, <2>3, <2>4, <2>5 DEF KeyIsExclusive, Underway
  <2> QED
    BY <1>3, <2>3, <2>6 DEF OneEvent
<1> QED
  BY <1>1, <1>4, <1>5, <1>6, <1>7, <1>8, <1>9, <1>10, CallStep

\* The claim takes the key, is refused, or raises.
LEMMA ClaimKeeps ==
  ASSUME SqliteInvariant, NEW c \in SqliteCallers, Inserts(c) \/ Reclaims(c) \/ ClaimRaises(c)
  PROVE  SqliteInvariant'
<1>1. CASE Inserts(c)
  BY <1>1, InsertKeeps, ErrorKeeps DEF Inserts, Claiming
<1>2. CASE Reclaims(c)
  BY <1>2, ReclaimKeeps DEF Reclaims
<1>3. CASE ClaimRaises(c)
  BY <1>3, InsertKeeps, ReclaimKeeps, ErrorKeeps DEF ClaimRaises
<1> QED
  BY <1>1, <1>2, <1>3

\* The owner of a key that was never contended is alone with it.
LEMMA OwnerAlone ==
  ASSUME SqliteInvariant, NEW c \in SqliteCallers, Underway(c), NEW k, k = call[c].key
  PROVE  /\ SqliteTypeOK /\ CallKnows(c) /\ k \in SqliteKeys
         /\ k \notin contended =>
              /\ KeyIsExclusive(k) /\ OneEvent(k) /\ table[k].state # "FAILED"
              /\ \A d \in SqliteCallers \ {c} :
                   ~(Underway(d) /\ call[d].key = k) /\ ~(call[d].at = "reclaiming" /\ call[d].key = k)
<1>1. SqliteTypeOK /\ CallKnows(c) /\ k \in SqliteKeys
  BY InvariantIs DEF CallKnows
<1>2. ASSUME k \notin contended
      PROVE  KeyIsExclusive(k) /\ OneEvent(k)
  BY <1>1, <1>2, InvariantIs
<1> QED
  BY <1>1, <1>2 DEF KeyIsExclusive

\* A step of an owner on the row or on the trail of its key.
LEMMA OwnerStep ==
  ASSUME SqliteInvariant, SqliteTypeOK', NEW c \in SqliteCallers, Underway(c),
         NEW k, k = call[c].key, call'[c].key = k, UNCHANGED contended,
         \A d \in SqliteCallers \ {c} : call'[d] = call[d],
         \A j \in SqliteKeys \ {k} : KeyStays(j),
         KeyGrows(k),
         ~Claiming(c)', Underway(c)' => CallKnows(c)',
         k \notin contended =>
           /\ OneEvent(k)'
           /\ Underway(c)' =>
                /\ table'[k].state # "FAILED"
                /\ call'[c].at \in {"scoring", "auditing"} => table'[k].state # "COMPLETED"
                /\ ~call'[c].audited => EventsOf(k)' = {}
           /\ table'[k].state \in {"none", "FAILED"} => EventsOf(k)' = {}
  PROVE  SqliteInvariant'
<1>1. k \in SqliteKeys
  BY OwnerAlone
<1>2. ASSUME k \notin contended'
      PROVE  KeyIsExclusive(k)' /\ OneEvent(k)'
  <2>1. \A d \in SqliteCallers \ {c} :
          ~(Underway(d)' /\ call'[d].key = k) /\ ~(call'[d].at = "reclaiming" /\ call'[d].key = k)
    BY <1>2, OwnerAlone DEF Underway
  <2>2. call'[c].at # "reclaiming"
    BY DEF Claiming
  <2>3. KeyIsExclusive(k)'
    BY <1>2, <2>1, <2>2 DEF KeyIsExclusive
  <2> QED
    BY <1>2, <2>3
<1>3. contended' = contended \/ contended' = contended \cup {k}
  OBVIOUS
<1> QED
  BY <1>1, <1>2, <1>3, CallStep

\* The owner goes on, or gives up, without a statement on the file.
LEMMA OwnerMoves ==
  ASSUME SqliteInvariant, NEW c \in SqliteCallers, Underway(c),
         UNCHANGED <<table, trail, handle, contended>>,
         NEW next \in {"auditing", "failing"}, NEW v \in SqliteVerdicts \cup {NoValue},
         call' = [call EXCEPT ![c] = [call[c] EXCEPT !.at = next, !.verdict = v]],
         next = "auditing" => call[c].at = "scoring" /\ v \in SqliteVerdicts,
         next = "failing" => v = call[c].verdict
  PROVE  SqliteInvariant'
<1>0. PICK k : k = call[c].key
  OBVIOUS
<1>1. SqliteTypeOK /\ CallKnows(c) /\ k \in SqliteKeys
  BY <1>0, OwnerAlone
<1>2. call \in [SqliteCallers -> SqliteCalls]
  BY <1>1 DEF SqliteTypeOK
<1>3. [call[c] EXCEPT !.at = next, !.verdict = v] \in SqliteCalls
  BY <1>2 DEF SqliteCalls
<1>4. SqliteTypeOK'
  BY <1>1, <1>2, <1>3 DEF SqliteTypeOK
<1>5. /\ call'[c].at = next /\ call'[c].verdict = v /\ call'[c].key = k
      /\ call'[c].input = call[c].input /\ call'[c].audited = call[c].audited
      /\ call'[c].answer = call[c].answer
      /\ \A d \in SqliteCallers \ {c} : call'[d] = call[d]
  BY <1>0, <1>2 DEF SqliteCalls
<1>6. (\A j : KeyStays(j)) /\ KeyGrows(k) /\ \A j : EventsOf(j)' = EventsOf(j)
  BY EventsFrame DEF KeyStays, KeyGrows
<1>7. CallKnows(c)' /\ ~Claiming(c)'
  <2>1. CASE next = "auditing"
    BY <1>0, <1>1, <1>5, <1>6, <2>1 DEF CallKnows, Claiming
  <2>2. CASE next = "failing"
    BY <1>0, <1>1, <1>5, <1>6, <2>2 DEF CallKnows, Claiming, Underway
  <2> QED
    BY <2>1, <2>2
<1>8. ASSUME k \notin contended
      PROVE  /\ OneEvent(k)'
             /\ table'[k].state # "FAILED"
             /\ next = "auditing" => table'[k].state # "COMPLETED"
             /\ ~call'[c].audited => EventsOf(k)' = {}
             /\ table'[k].state \in {"none", "FAILED"} => EventsOf(k)' = {}
  <2>1. KeyIsExclusive(k) /\ OneEvent(k)
    BY <1>0, <1>8, OwnerAlone
  <2>2. OneEvent(k)'
    BY <1>6, <2>1 DEF OneEvent
  <2>3. /\ table[k].state # "FAILED"
        /\ next = "auditing" => table[k].state # "COMPLETED"
        /\ ~call[c].audited => EventsOf(k) = {}
        /\ table[k].state \in {"none", "FAILED"} => EventsOf(k) = {}
    BY <1>0, <2>1 DEF KeyIsExclusive
  <2> QED
    BY <1>5, <1>6, <2>2, <2>3
<1> QED
  BY <1>0, <1>4, <1>5, <1>6, <1>7, <1>8, OwnerStep

\* The audit event becomes durable: the first of its key unless it was contended.
LEMMA WritesEventKeeps ==
  ASSUME SqliteInvariant, NEW c \in SqliteCallers, WritesEvent(c)
  PROVE  SqliteInvariant'
<1>0. PICK k : k = call[c].key
  OBVIOUS
<1> DEFINE e == [key |-> call[c].key, input |-> call[c].input, decision |-> call[c].verdict]
<1>1. PICK next \in {"completing", "failing"} :
        call' = [call EXCEPT ![c].audited = TRUE, ![c].at = next]
  BY DEF WritesEvent
<1>2. Underway(c) /\ call[c].at = "auditing" /\ UNCHANGED <<table, handle, contended>>
  BY DEF WritesEvent, Underway
<1>3. /\ SqliteTypeOK /\ CallKnows(c) /\ k \in SqliteKeys /\ call[c].input \in SqliteInputs
      /\ call[c].verdict \in SqliteVerdicts /\ ~call[c].audited /\ call[c].answer = "none"
      /\ table[k].state # "none" /\ table[k].input = call[c].input
  BY <1>0, <1>2, OwnerAlone DEF CallKnows
<1>4. /\ trail' \in Seq([key : SqliteKeys, input : SqliteInputs, decision : SqliteVerdicts])
      /\ \A n \in DOMAIN trail : trail'[n] = trail[n]
      /\ trail'[Len(trail) + 1] = e
      /\ DOMAIN trail' = DOMAIN trail \cup {Len(trail) + 1}
      /\ Len(trail) + 1 \notin DOMAIN trail
  <2>1. e \in [key : SqliteKeys, input : SqliteInputs, decision : SqliteVerdicts]
    BY <1>0, <1>3
  <2> HIDE DEF e
  <2>2. trail' = Append(trail, e)
    BY DEF WritesEvent, e
  <2> QED
    BY <1>3, <2>1, <2>2, EventsAfterAppend DEF SqliteTypeOK
<1>5. \A j \in SqliteKeys \ {k} : KeyStays(j)
  BY <1>0, <1>2, <1>4 DEF EventsOf, KeyStays
<1>6. /\ Len(trail) + 1 \in EventsOf(k)'
      /\ \A n \in EventsOf(k)' : n \in EventsOf(k) \/ n = Len(trail) + 1
      /\ KeyGrows(k)
  BY <1>0, <1>2, <1>4 DEF EventsOf, KeyGrows
<1>7. /\ call'[c].at = next /\ call'[c].verdict = call[c].verdict /\ call'[c].key = k
      /\ call'[c].input = call[c].input /\ call'[c].audited /\ call'[c].answer = "none"
      /\ \A d \in SqliteCallers \ {c} : call'[d] = call[d]
  BY <1>0, <1>1, <1>3 DEF SqliteTypeOK, SqliteCalls
<1>8. SqliteTypeOK'
  <2>1. call[c] \in SqliteCalls
    BY <1>3 DEF SqliteTypeOK
  <2>2. [[call[c] EXCEPT !.audited = TRUE] EXCEPT !.at = next] \in SqliteCalls
    BY <2>1 DEF SqliteCalls
  <2>3. call' = [call EXCEPT ![c] = [[call[c] EXCEPT !.audited = TRUE] EXCEPT !.at = next]]
    BY <1>1, <1>3 DEF SqliteTypeOK
  <2>4. call' \in [SqliteCallers -> SqliteCalls]
    BY <1>3, <2>2, <2>3 DEF SqliteTypeOK
  <2> QED
    BY <1>2, <1>3, <1>4, <2>4 DEF SqliteTypeOK
<1>9. CallKnows(c)' /\ ~Claiming(c)'
  BY <1>2, <1>3, <1>4, <1>6, <1>7 DEF CallKnows, Claiming
<1>10. ASSUME k \notin contended
       PROVE  /\ OneEvent(k)' /\ table'[k].state \notin {"none", "FAILED"}
  <2>1. /\ EventsOf(k) = {} /\ table[k].state # "FAILED" /\ table[k].state # "COMPLETED"
    BY <1>0, <1>2, <1>3, <1>10, OwnerAlone DEF KeyIsExclusive
  <2> QED
    BY <1>2, <1>3, <1>6, <2>1 DEF OneEvent
<1> HIDE DEF e
<1>11. contended' = contended
  BY <1>2
<1> QED
  BY <1>0, <1>2, <1>5, <1>6, <1>7, <1>8, <1>9, <1>10, <1>11, OwnerStep

\* A statement of an owner on the row of its key.
LEMMA RowStatement ==
  ASSUME SqliteInvariant, NEW c \in SqliteCallers, Underway(c), NEW k, k = call[c].key,
         UNCHANGED <<trail, contended>>, SqliteTypeOK', call'[c].key = k,
         \A d \in SqliteCallers \ {c} : call'[d] = call[d],
         \A j \in SqliteKeys \ {k} : table'[j] = table[j],
         table'[k].input = table[k].input, table'[k].state # "none",
         table'[k].state = "FAILED" => table[k].state = "FAILED" \/ ~call[c].audited,
         table'[k].state = "COMPLETED" =>
            \/ table[k].state = "COMPLETED" /\ table'[k].decision = table[k].decision
            \/ call[c].audited /\ table'[k].decision = call[c].verdict,
         ~Claiming(c)',
         Underway(c)' => /\ call'[c] = [call[c] EXCEPT !.at = "failing"] /\ call[c].audited
                         /\ table'[k].state = "FAILED" => table[k].state = "FAILED"
  PROVE  SqliteInvariant'
<1>1. \A j : EventsOf(j)' = EventsOf(j)
  BY EventsFrame
<1>2. SqliteTypeOK /\ CallKnows(c) /\ k \in SqliteKeys
  BY OwnerAlone
<1>3. table[k].input = call[c].input /\ table[k].state # "none" /\
      (call[c].audited =>
        \E n \in EventsOf(k) : trail[n].input = call[c].input /\ trail[n].decision = call[c].verdict)
  BY <1>2 DEF CallKnows, Underway
<1>4. (\A j \in SqliteKeys \ {k} : KeyStays(j)) /\ KeyGrows(k)
  BY <1>1 DEF KeyStays, KeyGrows
<1>5. ASSUME Underway(c)'
      PROVE  CallKnows(c)' /\ call'[c].audited
  <2>1. /\ call'[c].at = "failing" /\ call'[c].audited = call[c].audited /\ call[c].audited
        /\ call'[c].verdict = call[c].verdict /\ call'[c].input = call[c].input
        /\ call'[c].answer = call[c].answer
    BY <1>2, <1>5 DEF SqliteTypeOK, SqliteCalls
  <2>2. call[c].answer = "none" /\ call[c].input \in SqliteInputs
    BY <1>2 DEF CallKnows
  <2> QED
    BY <1>1, <1>2, <1>3, <2>1, <2>2 DEF CallKnows, Claiming
<1>6. ASSUME k \notin contended
      PROVE  /\ OneEvent(k)'
             /\ table'[k].state = "FAILED" => ~call[c].audited /\ EventsOf(k)' = {}
  <2>1. KeyIsExclusive(k) /\ OneEvent(k) /\ table[k].state # "FAILED"
    BY <1>6, OwnerAlone
  <2>2. ASSUME table'[k].state = "COMPLETED"
        PROVE  \E n \in EventsOf(k) : trail[n].input = table'[k].input
                                      /\ trail[n].decision = table'[k].decision
    <3>1. CASE table[k].state = "COMPLETED" /\ table'[k].decision = table[k].decision
      BY <2>1, <3>1 DEF OneEvent
    <3>2. CASE call[c].audited /\ table'[k].decision = call[c].verdict
      BY <1>3, <3>2
    <3> QED
      BY <2>2, <3>1, <3>2
  <2>3. OneEvent(k)'
    BY <1>1, <2>1, <2>2 DEF OneEvent
  <2>4. ~call[c].audited => EventsOf(k) = {}
    BY <2>1 DEF KeyIsExclusive
  <2> QED
    BY <1>1, <2>1, <2>3, <2>4
<1>7. ASSUME Underway(c)'
      PROVE  call'[c].at = "failing"
  BY <1>2, <1>7 DEF SqliteTypeOK, SqliteCalls
<1>8. ASSUME k \notin contended
      PROVE  /\ OneEvent(k)'
             /\ Underway(c)' =>
                  /\ table'[k].state # "FAILED"
                  /\ call'[c].at \in {"scoring", "auditing"} => table'[k].state # "COMPLETED"
                  /\ ~call'[c].audited => EventsOf(k)' = {}
             /\ table'[k].state \in {"none", "FAILED"} => EventsOf(k)' = {}
  BY <1>5, <1>6, <1>7, <1>8
<1>9. Underway(c)' => CallKnows(c)'
  BY <1>5
<1>10. contended' = contended
  OBVIOUS
<1> QED
  BY <1>4, <1>8, <1>9, <1>10, OwnerStep

\* complete() makes the row of a key with a durable event complete.
LEMMA CompletesKeeps ==
  ASSUME SqliteInvariant, NEW c \in SqliteCallers, Completes(c) \/ CompleteRaises(c)
  PROVE  SqliteInvariant'
<1>0. PICK k : k = call[c].key
  OBVIOUS
<1>1. /\ Underway(c) /\ call[c].at = "completing" /\ UNCHANGED <<trail, handle, contended>>
      /\ UNCHANGED table \/ CompleteRow(k, call[c].verdict)
  BY <1>0 DEF Completes, CompleteRaises, Underway
<1>2. /\ CallKnows(c) /\ k \in SqliteKeys /\ call[c].audited /\ call[c].verdict \in SqliteVerdicts
      /\ table[k].state # "none" /\ SqliteTypeOK
  BY <1>0, <1>1, OwnerAlone DEF CallKnows
<1>3. \/ call' = [call EXCEPT ![c].at = "failing"]
      \/ call' = [call EXCEPT ![c].at = "ended", ![c].answer = "decision",
                              ![c].verdict = call[c].verdict]
  BY DEF Completes, CompleteRaises, EndsCall
<1>4. /\ \A d \in SqliteCallers \ {c} : call'[d] = call[d]
      /\ call'[c].key = k /\ ~Claiming(c)'
      /\ Underway(c)' => call'[c] = [call[c] EXCEPT !.at = "failing"]
  BY <1>0, <1>2, <1>3 DEF SqliteTypeOK, SqliteCalls, Underway, Claiming
<1>5. /\ \A j \in SqliteKeys \ {k} : table'[j] = table[j]
      /\ table'[k].input = table[k].input /\ table'[k].state # "none"
      /\ table'[k].state = "FAILED" => table[k].state = "FAILED"
      /\ table'[k].state = "COMPLETED" =>
            \/ table[k].state = "COMPLETED" /\ table'[k].decision = table[k].decision
            \/ table'[k].decision = call[c].verdict
  BY <1>1, <1>2 DEF CompleteRow, SqliteTypeOK, SqliteRows, SqliteCalls
<1>6. SqliteTypeOK'
  <2>1. table' \in [SqliteKeys -> SqliteRows]
    <3>1. table \in [SqliteKeys -> SqliteRows] /\ table[k] \in SqliteRows
      BY <1>2 DEF SqliteTypeOK
    <3>2. [[table[k] EXCEPT !.state = "COMPLETED"] EXCEPT !.decision = call[c].verdict] \in SqliteRows
      BY <1>2, <3>1 DEF SqliteRows
    <3>3. \/ table' = table
          \/ table' = [table EXCEPT ![k] =
                          [[table[k] EXCEPT !.state = "COMPLETED"] EXCEPT !.decision = call[c].verdict]]
      BY <1>1, <1>2, <3>1 DEF CompleteRow
    <3> QED
      BY <1>2, <3>1, <3>2, <3>3
  <2>2. call' \in [SqliteCallers -> SqliteCalls]
    <3>1. call \in [SqliteCallers -> SqliteCalls] /\ call[c] \in SqliteCalls
      BY <1>2 DEF SqliteTypeOK
    <3>2. CASE call' = [call EXCEPT ![c].at = "failing"]
      BY <3>1, <3>2 DEF SqliteCalls
    <3>3. CASE call' = [call EXCEPT ![c].at = "ended", ![c].answer = "decision",
                                    ![c].verdict = call[c].verdict]
      <4>1. call[c].verdict \in SqliteVerdicts \cup {NoValue}
        BY <3>1 DEF SqliteCalls
      <4>2. [[[call[c] EXCEPT !.at = "ended"] EXCEPT !.answer = "decision"]
               EXCEPT !.verdict = call[c].verdict] \in SqliteCalls
        BY <3>1, <4>1 DEF SqliteCalls
      <4>3. call' = [call EXCEPT ![c] = [[[call[c] EXCEPT !.at = "ended"]
                       EXCEPT !.answer = "decision"] EXCEPT !.verdict = call[c].verdict]]
        BY <3>1, <3>3
      <4> QED
        BY <3>1, <4>2, <4>3
    <3> QED
      BY <1>3, <3>2, <3>3
  <2> QED
    BY <1>1, <1>2, <2>1, <2>2 DEF SqliteTypeOK
<1> QED
  BY <1>0, <1>1, <1>2, <1>4, <1>5, <1>6, RowStatement

\* fail() makes a key free only when its owner wrote no event for it.
LEMMA FailsKeeps ==
  ASSUME SqliteInvariant, NEW c \in SqliteCallers, FailsRow(c) \/ FailRaises(c)
  PROVE  SqliteInvariant'
<1>0. PICK k : k = call[c].key
  OBVIOUS
<1>1. /\ Underway(c) /\ call[c].at = "failing" /\ UNCHANGED <<trail, handle, contended>>
      /\ EndsCall(c, "error", NoValue)
      /\ \/ UNCHANGED table
         \/ table' = [table EXCEPT ![k].state = FailState(call[c].audited)]
  BY <1>0 DEF FailsRow, FailRaises, Underway
<1>2. /\ CallKnows(c) /\ k \in SqliteKeys /\ table[k].state # "none" /\ SqliteTypeOK
  BY <1>0, <1>1, OwnerAlone DEF CallKnows
<1>3. /\ \A d \in SqliteCallers \ {c} : call'[d] = call[d]
      /\ ~Underway(c)' /\ ~Claiming(c)' /\ call'[c].key = k
      /\ call' \in [SqliteCallers -> SqliteCalls]
  BY <1>0, <1>1, <1>2, AnswerEnds
<1>4. /\ \A j \in SqliteKeys \ {k} : table'[j] = table[j]
      /\ table'[k].input = table[k].input /\ table'[k].decision = table[k].decision
      /\ table'[k].state # "none"
      /\ table'[k].state = "FAILED" => table[k].state = "FAILED" \/ ~call[c].audited
      /\ table'[k].state = "COMPLETED" => table[k].state = "COMPLETED"
  BY <1>1, <1>2 DEF FailState, SqliteTypeOK, SqliteRows, SqliteCalls
<1>5. SqliteTypeOK'
  <2>1. FailState(call[c].audited) \in {"UNRESOLVED", "FAILED"}
    BY DEF FailState
  <2>2. table' \in [SqliteKeys -> SqliteRows]
    BY <1>1, <1>2, <2>1 DEF SqliteTypeOK, SqliteRows
  <2> QED
    BY <1>1, <1>2, <1>3, <2>2 DEF SqliteTypeOK
<1>6. UNCHANGED <<trail, contended>>
  BY <1>1
<1> QED
  BY <1>0, <1>1, <1>2, <1>3, <1>4, <1>5, <1>6, RowStatement

\* What opening a handle changes, row by row.
LEMMA Opened ==
  ASSUME SqliteTypeOK, NEW h \in SqliteHandles, OpensFile(h)
  PROVE  /\ SqliteTypeOK' /\ UNCHANGED <<trail, call, contended>>
         /\ \A k \in SqliteKeys :
              /\ table'[k].input = table[k].input /\ table'[k].decision = table[k].decision
              /\ table'[k].state =
                   IF table[k].state = "PENDING" THEN "UNRESOLVED" ELSE table[k].state
<1>1. table \in [SqliteKeys -> SqliteRows] /\ Recover
  BY DEF SqliteTypeOK, OpensFile
<1>2. \A k \in SqliteKeys :
        /\ table'[k].input = table[k].input /\ table'[k].decision = table[k].decision
        /\ table'[k].state = IF table[k].state = "PENDING" THEN "UNRESOLVED" ELSE table[k].state
        /\ table'[k] \in SqliteRows
  BY <1>1 DEF Recover, SqliteRows
<1>3. table' \in [SqliteKeys -> SqliteRows]
  BY <1>1, <1>2 DEF Recover
<1> QED
  BY <1>2, <1>3 DEF OpensFile, SqliteTypeOK

\* Opening a handle turns reservations unresolved, whoever holds them.
LEMMA OpensKeeps ==
  ASSUME SqliteInvariant, NEW h \in SqliteHandles, OpensFile(h)
  PROVE  SqliteInvariant'
<1>1. SqliteTypeOK' /\ UNCHANGED <<trail, call, contended>>
  BY InvariantIs, Opened
<1>2. \A k \in SqliteKeys :
        /\ table'[k].input = table[k].input /\ table'[k].decision = table[k].decision
        /\ table'[k].state = IF table[k].state = "PENDING" THEN "UNRESOLVED" ELSE table[k].state
  BY InvariantIs, Opened
<1>3. \A k : EventsOf(k)' = EventsOf(k)
  BY <1>1, EventsFrame
<1>4. ASSUME NEW c \in SqliteCallers, Claiming(c)' \/ Underway(c)'
      PROVE  CallKnows(c)'
  <2>1. CallKnows(c) /\ (Claiming(c) \/ Underway(c)) /\ call[c].key \in SqliteKeys
    BY <1>1, <1>4, InvariantIs DEF CallKnows, Claiming, Underway
  <2>2. KeyGrows(call[c].key)
    BY <1>1, <1>2, <1>3, <2>1 DEF KeyGrows
  <2> QED
    BY <1>1, <2>1, <2>2, CallFrame
<1>5. ASSUME NEW k \in SqliteKeys, k \notin contended'
      PROVE  KeyIsExclusive(k)' /\ OneEvent(k)'
  <2>1. KeyIsExclusive(k) /\ OneEvent(k)
    BY <1>1, <1>5, InvariantIs
  <2>2. EventsOf(k)' = EventsOf(k) /\ table'[k].input = table[k].input
        /\ table'[k].decision = table[k].decision
        /\ (table'[k].state = "COMPLETED" <=> table[k].state = "COMPLETED")
        /\ (table'[k].state = "FAILED" <=> table[k].state = "FAILED")
        /\ (table'[k].state = "none" <=> table[k].state = "none")
    BY <1>2, <1>3
  <2>3. KeyIsExclusive(k)'
    BY <1>1, <2>1, <2>2 DEF KeyIsExclusive, Underway
  <2>4. OneEvent(k)'
    BY <1>1, <2>1, <2>2 DEF OneEvent
  <2> QED
    BY <2>3, <2>4
<1>6. OwnersExclude' /\ OneEventPerKey'
  BY <1>4, <1>5 DEF OwnersExclude, OneEventPerKey, OneEvent
<1> QED
  BY <1>1, <1>6 DEF SqliteInvariant

\* What the death of a process changes, call by call.
LEMMA Died ==
  ASSUME SqliteTypeOK, NEW h \in SqliteHandles, HandleDies(h)
  PROVE  /\ SqliteTypeOK' /\ UNCHANGED <<table, trail, contended>>
         /\ \A d \in SqliteCallers :
              \/ call'[d] = call[d]
              \/ /\ Claiming(d) \/ Underway(d)
                 /\ call'[d].at = "ended" /\ call'[d].answer = "lost"
<1>1. \A d \in SqliteCallers : call[d] \in SqliteCalls
  BY DEF SqliteTypeOK
<1>2. call' = [c \in SqliteCallers |->
                IF (Claiming(c) \/ Underway(c)) /\ call[c].handle = h
                THEN [call[c] EXCEPT !.at = "ended", !.answer = "lost"] ELSE call[c]]
  BY DEF HandleDies
<1>3. ASSUME NEW d \in SqliteCallers
      PROVE  /\ [call[d] EXCEPT !.at = "ended", !.answer = "lost"] \in SqliteCalls
             /\ [call[d] EXCEPT !.at = "ended", !.answer = "lost"].at = "ended"
             /\ [call[d] EXCEPT !.at = "ended", !.answer = "lost"].answer = "lost"
  BY <1>1, <1>3 DEF SqliteCalls
<1>4. ASSUME NEW d \in SqliteCallers
      PROVE  /\ call'[d] \in SqliteCalls
             /\ \/ call'[d] = call[d]
                \/ /\ Claiming(d) \/ Underway(d)
                   /\ call'[d].at = "ended" /\ call'[d].answer = "lost"
  <2>1. call'[d] = IF (Claiming(d) \/ Underway(d)) /\ call[d].handle = h
                   THEN [call[d] EXCEPT !.at = "ended", !.answer = "lost"] ELSE call[d]
    BY <1>2
  <2> QED
    BY <1>1, <1>3, <2>1
<1>5. call' \in [SqliteCallers -> SqliteCalls]
  BY <1>2, <1>4
<1> QED
  BY <1>4, <1>5 DEF HandleDies, SqliteTypeOK

\* A process that dies leaves rows and events as they are.
LEMMA DiesKeeps ==
  ASSUME SqliteInvariant, NEW h \in SqliteHandles, HandleDies(h)
  PROVE  SqliteInvariant'
<1>1. /\ SqliteTypeOK' /\ UNCHANGED <<table, trail, contended>>
      /\ \A d \in SqliteCallers : Claiming(d)' \/ Underway(d)' => call'[d] = call[d]
  <2>1. /\ SqliteTypeOK' /\ UNCHANGED <<table, trail, contended>>
        /\ \A d \in SqliteCallers : call'[d] = call[d] \/ call'[d].at = "ended"
    BY InvariantIs, Died
  <2> QED
    BY <2>1 DEF Claiming, Underway
<1>2. (\A j : KeyStays(j)) /\ \A j : KeyGrows(j)
  BY <1>1, EventsFrame DEF KeyStays, KeyGrows
<1>3. ASSUME NEW d \in SqliteCallers, Claiming(d)' \/ Underway(d)'
      PROVE  CallKnows(d)'
  <2>1. call'[d] = call[d] /\ (Claiming(d) \/ Underway(d))
    BY <1>1, <1>3 DEF Claiming, Underway
  <2>2. CallKnows(d)
    BY <2>1, InvariantIs
  <2> QED
    BY <1>2, <2>1, <2>2, CallFrame
<1>4. ASSUME NEW k \in SqliteKeys, k \notin contended'
      PROVE  KeyIsExclusive(k)' /\ OneEvent(k)'
  <2>1. KeyIsExclusive(k) /\ OneEvent(k) /\ KeyStays(k)
    BY <1>1, <1>2, <1>4, InvariantIs
  <2>2. \A d \in SqliteCallers : call'[d].at = "reclaiming" => call'[d] = call[d]
    BY <1>1 DEF Claiming
  <2> QED
    BY <1>1, <2>1, <2>2, KeyFrame
<1>5. OwnersExclude' /\ OneEventPerKey'
  BY <1>3, <1>4 DEF OwnersExclude, OneEventPerKey, OneEvent
<1> QED
  BY <1>1, <1>5 DEF SqliteInvariant

\* The invariant holds of an empty file that nobody has opened.
LEMMA SqliteStart == SqliteInit => SqliteInvariant
<1> SUFFICES ASSUME SqliteInit PROVE SqliteInvariant
  OBVIOUS
<1> USE DEF SqliteInit, Unreserved, Uncalled
<1>1. SqliteTypeOK
  BY DEF SqliteRows, SqliteCalls, SqliteTypeOK
<1>2. DOMAIN trail = {} /\ \A k : EventsOf(k) = {}
  BY DEF EventsOf
<1>3. OwnersExclude /\ OneEventPerKey
  BY <1>2 DEF OwnersExclude, KeyIsExclusive, Claiming, Underway, OneEventPerKey
<1> QED
  BY <1>1, <1>3 DEF SqliteInvariant

\* Every step of the store and of its callers keeps the invariant.
LEMMA SqliteKeeps ==
  ASSUME SqliteInvariant, [SqliteNext]_sqliteVars
  PROVE  SqliteInvariant'
<1>0. SqliteTypeOK
  BY InvariantIs
<1>1. CASE UNCHANGED sqliteVars
  <2>1. UNCHANGED <<table, trail, call, handle, contended>>
    BY <1>1 DEF sqliteVars
  <2>2. \A k : EventsOf(k)' = EventsOf(k)
    BY <2>1, EventsFrame
  <2> QED
    BY <2>1, <2>2 DEF SqliteInvariant, SqliteTypeOK, OwnersExclude, KeyIsExclusive, CallKnows, Claiming,
       Underway, OneEventPerKey
<1>2. ASSUME NEW c \in SqliteCallers, SqliteStep(c)
      PROVE  SqliteInvariant'
  <2>1. ASSUME NEW v \in SqliteVerdicts, Scores(c, v)
        PROVE  SqliteInvariant'
    <3>1. Underway(c) /\ call' = [call EXCEPT ![c] = [call[c] EXCEPT !.at = "auditing", !.verdict = v]]
      BY <1>0, <2>1 DEF Scores, Underway, SqliteTypeOK, SqliteCalls
    <3> QED
      BY <2>1, <3>1, OwnerMoves DEF Scores
  <2>2. CASE ScoringFails(c) \/ EventFails(c)
    <3>1. /\ Underway(c) /\ call[c].verdict \in SqliteVerdicts \cup {NoValue}
          /\ call' = [call EXCEPT ![c] = [call[c] EXCEPT !.at = "failing", !.verdict = call[c].verdict]]
      BY <1>0, <2>2 DEF ScoringFails, EventFails, Underway, SqliteTypeOK, SqliteCalls
    <3> QED
      BY <2>2, <3>1, OwnerMoves DEF ScoringFails, EventFails
  <2> QED
    BY <1>2, <2>1, <2>2, ReadsKeeps, ClaimKeeps, WritesEventKeeps, CompletesKeeps, FailsKeeps
       DEF SqliteStep
<1> QED
  BY <1>1, <1>2, OpensKeeps, DiesKeeps DEF SqliteNext

\* In every reachable state of any number of handles, a key that was not claimed
\* twice at once has one owner at most, and its row, its owner and its durable
\* events agree, across every death, restart and statement of reserve, complete
\* and fail.
THEOREM SqliteIsInvariant == SqliteSpec => []SqliteInvariant
BY SqliteStart, SqliteKeeps, PTL DEF SqliteSpec

\* No key that was not claimed twice at once gets a second audit event, and its
\* completed row shows the decision of the one it has.
THEOREM OneEventPerKeyTheorem == SqliteSpec => []OneEventPerKey
<1>1. SqliteInvariant => OneEventPerKey
  BY DEF SqliteInvariant
<1> QED
  BY <1>1, SqliteIsInvariant, PTL

-----------------------------------------------------------------------------
(* The refinement *)

\* A row is there as soon as its key is bound, and only who is done was answered.
BoundAndAnswered ==
  /\ \A k \in SqliteKeys : table[k].state = "none" <=> table[k].input = NoValue
  /\ \A c \in SqliteCallers : call[c].at # "ended" => call[c].answer = "none"

\* An answer of no decision to one call keeps BoundAndAnswered, and so does a claim.
LEMMA BoundKeeps ==
  ASSUME SqliteInvariant, BoundAndAnswered, [SqliteNext]_sqliteVars
  PROVE  BoundAndAnswered'
<1>1. /\ table \in [SqliteKeys -> SqliteRows] /\ call \in [SqliteCallers -> SqliteCalls]
      /\ NoValue \notin SqliteInputs /\ SqliteTypeOK
  BY SqliteAssumption DEF SqliteInvariant, SqliteTypeOK
<1>2. CASE UNCHANGED sqliteVars
  BY <1>2 DEF sqliteVars, BoundAndAnswered
<1>3. ASSUME NEW c \in SqliteCallers, NEW h \in SqliteHandles, NEW k \in SqliteKeys,
             NEW i \in SqliteInputs, ReserveAsReader(c, h, k, i) \/ ReadsClaimable(c, h, k, i)
      PROVE  BoundAndAnswered'
  <2>1. UNCHANGED table /\ \A d \in SqliteCallers \ {c} : call'[d] = call[d]
    BY <1>1, <1>3 DEF ReserveAsReader, ReadsClaimable
  <2>2. call'[c].at = "ended" \/ call'[c].answer = "none"
    BY <1>1, <1>3 DEF ReserveAsReader, ReadsClaimable, Uncalled
  <2> QED
    BY <2>1, <2>2 DEF BoundAndAnswered
<1>4. ASSUME NEW c \in SqliteCallers, Inserts(c) \/ Reclaims(c) \/ ClaimRaises(c)
      PROVE  BoundAndAnswered'
  <2>1. CallKnows(c) /\ Claiming(c)
    BY <1>4, InvariantIs DEF Claiming, Inserts, Reclaims, ClaimRaises
  <2>2. /\ call[c].key \in SqliteKeys /\ call[c].input \in SqliteInputs
        /\ call[c].at = "reclaiming" => table[call[c].key].state # "none"
    BY <2>1 DEF CallKnows
  <2>3. \/ UNCHANGED table \/ InsertRow(c)
        \/ call[c].at = "reclaiming" /\ table' = [table EXCEPT ![call[c].key].state = "PENDING"]
    BY <1>4 DEF Inserts, Reclaims, ClaimRaises, ReclaimRow
  <2>4. \A j \in SqliteKeys : table'[j].state = "none" <=> table'[j].input = NoValue
    <3>1. CASE UNCHANGED table
      BY <3>1 DEF BoundAndAnswered
    <3>2. CASE InsertRow(c)
      BY <1>1, <2>2, <3>2 DEF InsertRow, BoundAndAnswered, SqliteRows
    <3>3. CASE call[c].at = "reclaiming" /\ table' = [table EXCEPT ![call[c].key].state = "PENDING"]
      BY <1>1, <2>2, <3>3 DEF BoundAndAnswered, SqliteRows
    <3> QED
      BY <2>3, <3>1, <3>2, <3>3
  <2>5. \A d \in SqliteCallers : call'[d].at # "ended" => call'[d].answer = "none"
    <3>1. call[c].answer = "none"
      BY <2>1 DEF Claiming, BoundAndAnswered
    <3>2. \/ call' = [call EXCEPT ![c].at = "scoring"] \/ EndsCall(c, "error", NoValue)
      BY <1>4 DEF Inserts, Reclaims, ClaimRaises
    <3>3. CASE call' = [call EXCEPT ![c].at = "scoring"]
      BY <1>1, <3>1, <3>3 DEF BoundAndAnswered, SqliteCalls
    <3>4. CASE EndsCall(c, "error", NoValue)
      BY <1>1, <3>4, AnswerEnds DEF BoundAndAnswered
    <3> QED
      BY <3>2, <3>3, <3>4
  <2> QED
    BY <2>4, <2>5 DEF BoundAndAnswered
<1>5. ASSUME NEW c \in SqliteCallers, NEW v \in SqliteVerdicts, Scores(c, v)
      PROVE  BoundAndAnswered'
  BY <1>1, <1>5 DEF Scores, BoundAndAnswered, SqliteCalls
<1>6. ASSUME NEW c \in SqliteCallers, ScoringFails(c) \/ EventFails(c) \/ WritesEvent(c)
      PROVE  BoundAndAnswered'
  BY <1>1, <1>6 DEF ScoringFails, EventFails, WritesEvent, BoundAndAnswered, SqliteCalls
<1>7. ASSUME NEW c \in SqliteCallers, Completes(c) \/ CompleteRaises(c)
      PROVE  BoundAndAnswered'
  <2>1. \A k \in SqliteKeys : table'[k].state = "none" <=> table'[k].input = NoValue
    BY <1>1, <1>7 DEF Completes, CompleteRaises, CompleteRow, BoundAndAnswered, SqliteRows
  <2>2. \A d \in SqliteCallers : call'[d].at # "ended" => call'[d].answer = "none"
    BY <1>1, <1>7 DEF Completes, CompleteRaises, EndsCall, BoundAndAnswered, SqliteCalls
  <2> QED
    BY <2>1, <2>2 DEF BoundAndAnswered
<1>8. ASSUME NEW c \in SqliteCallers, FailsRow(c) \/ FailRaises(c)
      PROVE  BoundAndAnswered'
  <2>0. Underway(c)
    BY <1>8 DEF FailsRow, FailRaises, Underway
  <2>1. table[call[c].key].state # "none" /\ call[c].key \in SqliteKeys
    BY <2>0, OwnerAlone DEF CallKnows, Underway
  <2>2. \A k \in SqliteKeys : table'[k].state = "none" <=> table'[k].input = NoValue
    BY <1>1, <1>8, <2>1 DEF FailsRow, FailRaises, FailState, BoundAndAnswered, SqliteRows
  <2>3. \A d \in SqliteCallers : call'[d].at # "ended" => call'[d].answer = "none"
    BY <1>1, <1>8 DEF FailsRow, FailRaises, EndsCall, BoundAndAnswered, SqliteCalls
  <2> QED
    BY <2>2, <2>3 DEF BoundAndAnswered
<1>9. ASSUME NEW h \in SqliteHandles, OpensFile(h)
      PROVE  BoundAndAnswered'
  BY <1>1, <1>9, Opened DEF BoundAndAnswered
<1>10. ASSUME NEW h \in SqliteHandles, HandleDies(h)
       PROVE  BoundAndAnswered'
  BY <1>1, <1>10, Died DEF BoundAndAnswered
<1> QED
  BY <1>2, <1>3, <1>4, <1>5, <1>6, <1>7, <1>8, <1>9, <1>10 DEF SqliteNext, SqliteStep

\* The one event of a key decides it.
LEMMA DecidedIs ==
  ASSUME NEW k, OneEvent(k), NEW n \in EventsOf(k)
  PROVE  DecidedFor(k) = trail[n].decision
<1>1. EventsOf(k) = {n}
  BY DEF OneEvent
<1>2. (CHOOSE x \in EventsOf(k) : TRUE) = n
  BY <1>1
<1> QED
  BY <1>1, <1>2 DEF DecidedFor

\* The decision of a key depends on its events alone.
LEMMA DecidedFrame ==
  ASSUME NEW k, KeyStays(k)
  PROVE  DecidedFor(k)' = DecidedFor(k)
<1>1. EventsOf(k)' = EventsOf(k) /\ \A n \in EventsOf(k) : trail'[n] = trail[n]
  BY DEF KeyStays
<1>2. CASE EventsOf(k) = {}
  BY <1>1, <1>2 DEF DecidedFor
<1>3. CASE EventsOf(k) # {}
  <2>1. PICK n : n = CHOOSE x \in EventsOf(k) : TRUE
    OBVIOUS
  <2>2. n \in EventsOf(k)
    BY <1>3, <2>1
  <2>3. (CHOOSE x \in EventsOf(k)' : TRUE) = n
    BY <1>1, <2>1
  <2> QED
    BY <1>1, <1>3, <2>1, <2>2, <2>3 DEF DecidedFor
<1> QED
  BY <1>2, <1>3

\* The same trail decides the same.
LEMMA TrailDecides ==
  ASSUME UNCHANGED trail
  PROVE  \A k : DecidedFor(k)' = DecidedFor(k)
BY DEF DecidedFor, EventsOf

\* A step that leaves what the ledger sees alone.
LEMMA LedgerStutters ==
  ASSUME \A k \in SqliteKeys : table'[k].input = table[k].input,
         UNCHANGED trail,
         \A c \in SqliteCallers : SqliteShown(c)' = SqliteShown(c)
  PROVE  UNCHANGED SqliteLedger!vars
<1>1. \A k : DecidedFor(k)' = DecidedFor(k)
  BY TrailDecides
<1> QED
  BY <1>1 DEF SqliteLedger!vars

\* A caller that was not answered, or with an error, shows nothing.
LEMMA ShownNothing ==
  ASSUME NEW c \in SqliteCallers, call[c].answer \notin {"decision", "replay", "conflict"}
  PROVE  SqliteShown(c) = SqliteLedger!NotShown
BY DEF SqliteShown, SqliteLedger!NotShown

\* Insertion binds a key to its input; any other claim takes what is bound.
LEMMA ClaimBinds ==
  ASSUME SqliteInvariant, BoundAndAnswered, NEW c \in SqliteCallers,
         Inserts(c) \/ Reclaims(c) \/ ClaimRaises(c)
  PROVE  SqliteLedger!Next \/ UNCHANGED SqliteLedger!vars
<1>0. PICK k, i : k = call[c].key /\ i = call[c].input
  OBVIOUS
<1>1. CallKnows(c) /\ Claiming(c) /\ SqliteTypeOK
  BY InvariantIs DEF Claiming, Inserts, Reclaims, ClaimRaises
<1>2. /\ k \in SqliteKeys /\ i \in SqliteInputs
      /\ table \in [SqliteKeys -> SqliteRows] /\ call \in [SqliteCallers -> SqliteCalls]
      /\ UNCHANGED trail
  BY <1>0, <1>1 DEF CallKnows, SqliteTypeOK, Inserts, Reclaims, ClaimRaises
<1>3. \A d \in SqliteCallers : SqliteShown(d)' = SqliteShown(d)
  <2>1. call[c].answer = "none"
    BY <1>1 DEF Claiming, BoundAndAnswered
  <2>2. \/ call' = [call EXCEPT ![c].at = "scoring"] \/ EndsCall(c, "error", NoValue)
    BY DEF Inserts, Reclaims, ClaimRaises
  <2>3. call'[c].answer \in {"none", "error"} /\ \A d \in SqliteCallers \ {c} : call'[d] = call[d]
    <3>1. CASE call' = [call EXCEPT ![c].at = "scoring"]
      BY <1>2, <2>1, <3>1 DEF SqliteCalls
    <3>2. CASE EndsCall(c, "error", NoValue)
      BY <1>1, <3>2, AnswerEnds
    <3> QED
      BY <2>2, <3>1, <3>2
  <2> QED
    BY <2>1, <2>3 DEF SqliteShown
<1>4. \A j : DecidedFor(j)' = DecidedFor(j)
  BY <1>2, TrailDecides
<1>5. CASE table[k].state = "none" /\ InsertRow(c)
  <2>1. table'[k].input = i /\ \A j \in SqliteKeys \ {k} : table'[j].input = table[j].input
    BY <1>0, <1>2, <1>5 DEF InsertRow, SqliteRows
  <2>2. table[k].input = NoValue
    BY <1>2, <1>5 DEF BoundAndAnswered
  <2>3. [j \in SqliteKeys |-> table[j].input]' =
          [[j \in SqliteKeys |-> table[j].input] EXCEPT ![k] = i]
    BY <2>1
  <2>4. SqliteLedger!Bind(k, i)
    BY <1>2, <1>3, <1>4, <2>2, <2>3 DEF SqliteLedger!Bind
  <2> QED
    BY <1>2, <2>4 DEF SqliteLedger!Next
<1>6. CASE UNCHANGED table \/ table' = [table EXCEPT ![k].state = "PENDING"]
  <2>1. \A j \in SqliteKeys : table'[j].input = table[j].input
    BY <1>2, <1>6 DEF SqliteRows
  <2> QED
    BY <1>2, <1>3, <2>1, LedgerStutters
<1> QED
  BY <1>0, <1>5, <1>6 DEF Inserts, Reclaims, ClaimRaises, ReclaimRow

\* An answer that shows the decision of a key under the input it is bound to.
LEMMA AnswerShows ==
  ASSUME BoundAndAnswered, NEW c \in SqliteCallers, NEW k \in SqliteKeys,
         NEW i \in SqliteInputs, NEW v \in SqliteVerdicts, UNCHANGED trail,
         \A j \in SqliteKeys : table'[j].input = table[j].input,
         \A d \in SqliteCallers \ {c} : call'[d] = call[d],
         call[c].at # "ended", call'[c].answer \in {"decision", "replay"},
         call'[c].key = k, call'[c].input = i, call'[c].verdict = v,
         table[k].input = i, DecidedFor(k) = v
  PROVE  SqliteLedger!Next
<1>1. SqliteShown(c) = SqliteLedger!NotShown
  BY ShownNothing DEF BoundAndAnswered
<1>2. SqliteShown(c)' = SqliteLedger!Shown(k, i, "decision", v)
  BY DEF SqliteShown, SqliteLedger!Shown
<1>3. \A d \in SqliteCallers \ {c} : SqliteShown(d)' = SqliteShown(d)
  BY DEF SqliteShown
<1>4. [d \in SqliteCallers |-> SqliteShown(d)]' =
        [[d \in SqliteCallers |-> SqliteShown(d)] EXCEPT ![c] = SqliteLedger!Shown(k, i, "decision", v)]
  BY <1>2, <1>3
<1>5. \A j : DecidedFor(j)' = DecidedFor(j)
  BY TrailDecides
<1>6. v # NoValue
  BY SqliteAssumption
<1>7. SqliteLedger!Show(c, k, i)
  BY <1>1, <1>4, <1>5, <1>6 DEF SqliteLedger!Show
<1> QED
  BY <1>7 DEF SqliteLedger!Next

\* A reader is shown the decision of a completed row under its own input, or nothing.
LEMMA ReaderShows ==
  ASSUME SqliteInvariant, BoundAndAnswered, NEW c \in SqliteCallers, NEW h \in SqliteHandles,
         NEW k \in SqliteKeys, NEW i \in SqliteInputs, ReserveAsReader(c, h, k, i),
         k \notin contended
  PROVE  SqliteLedger!Next \/ UNCHANGED SqliteLedger!vars
<1>1. /\ call[c].at = "idle" /\ Reads(k, i) # "claimable"
      /\ UNCHANGED <<table, trail, handle, contended>>
      /\ call'[c] = [Uncalled EXCEPT
                       !.at = "ended", !.handle = h, !.key = k, !.input = i, !.answer = Reads(k, i),
                       !.verdict = IF Reads(k, i) = "replay" THEN table[k].decision ELSE NoValue]
      /\ \A d \in SqliteCallers \ {c} : call'[d] = call[d]
  BY DEF ReserveAsReader, SqliteInvariant, SqliteTypeOK
<1>2. /\ call'[c].key = k /\ call'[c].input = i /\ call'[c].answer = Reads(k, i)
      /\ call'[c].verdict = IF Reads(k, i) = "replay" THEN table[k].decision ELSE NoValue
  BY <1>1 DEF Uncalled
<1>3. CASE Reads(k, i) = "replay"
  <2>0. OneEvent(k)
    BY InvariantIs
  <2>1. table[k].state = "COMPLETED" /\ table[k].input = i
    BY <1>3 DEF Reads
  <2>2. PICK n \in EventsOf(k) : trail[n].decision = table[k].decision
    BY <2>0, <2>1 DEF OneEvent
  <2>3. DecidedFor(k) = table[k].decision
    BY <2>0, <2>2, DecidedIs
  <2>4. trail[n].decision \in SqliteVerdicts
    <3> DEFINE S == [key : SqliteKeys, input : SqliteInputs, decision : SqliteVerdicts]
    <3>1. trail \in Seq(S)
      BY DEF SqliteInvariant, SqliteTypeOK
    <3>2. n \in 1..Len(trail)
      BY <2>2, <3>1 DEF EventsOf
    <3>3. trail[n] \in S
      BY <3>1, <3>2, ElementOfSeq
    <3> QED
      BY <3>3
  <2>5. PICK v \in SqliteVerdicts : v = table[k].decision
    BY <2>2, <2>4
  <2>6. /\ call'[c].answer \in {"decision", "replay"} /\ call[c].at # "ended"
        /\ \A j \in SqliteKeys : table'[j].input = table[j].input
        /\ call'[c].verdict = v /\ DecidedFor(k) = v /\ UNCHANGED trail
    BY <1>1, <1>2, <1>3, <2>3, <2>5
  <2>7. /\ \A d \in SqliteCallers \ {c} : call'[d] = call[d]
        /\ call'[c].key = k /\ call'[c].input = i
    BY <1>1, <1>2
  <2>8. SqliteLedger!Next
    BY <2>1, <2>6, <2>7, AnswerShows
  <2> QED
    BY <2>8
<1>4. \A d \in SqliteCallers \ {c} : SqliteShown(d)' = SqliteShown(d)
  BY <1>1 DEF SqliteShown
<1>5. SqliteShown(c) = SqliteLedger!NotShown
  BY <1>1, ShownNothing DEF BoundAndAnswered
<1>6. CASE Reads(k, i) = "conflict"
  <2>1. table[k].input \notin {NoValue, i}
    BY <1>6 DEF Reads, BoundAndAnswered
  <2>2. SqliteShown(c)' = SqliteLedger!Shown(k, i, "conflict", NoValue)
    BY <1>2, <1>6 DEF SqliteShown, SqliteLedger!Shown
  <2>3. [d \in SqliteCallers |-> SqliteShown(d)]' =
          [[d \in SqliteCallers |-> SqliteShown(d)]
             EXCEPT ![c] = SqliteLedger!Shown(k, i, "conflict", NoValue)]
    BY <1>4, <2>2
  <2>4. \A j : DecidedFor(j)' = DecidedFor(j)
    BY <1>1, TrailDecides
  <2>5. SqliteLedger!Conflict(c, k, i)
    BY <1>1, <1>5, <2>1, <2>3, <2>4 DEF SqliteLedger!Conflict
  <2> QED
    BY <2>5 DEF SqliteLedger!Next
<1>7. CASE Reads(k, i) = "unresolved"
  <2>1. SqliteShown(c)' = SqliteShown(c)
    BY <1>2, <1>5, <1>7 DEF SqliteShown, SqliteLedger!NotShown
  <2> QED
    BY <1>1, <1>4, <2>1, LedgerStutters
<1> QED
  BY <1>1, <1>3, <1>6, <1>7 DEF Reads

\* The durable audit event decides its key.
LEMMA WritingDecides ==
  ASSUME SqliteInvariant, BoundAndAnswered, NEW c \in SqliteCallers,
         WritesEvent(c), call[c].key \notin contended
  PROVE  SqliteLedger!Next
<1>0. PICK k : k = call[c].key
  OBVIOUS
<1>1. /\ Underway(c) /\ call[c].at = "auditing" /\ UNCHANGED <<table, handle, contended>>
      /\ trail' = Append(trail, [key |-> k, input |-> call[c].input, decision |-> call[c].verdict])
  BY <1>0 DEF WritesEvent, Underway
<1>2. /\ k \in SqliteKeys /\ call[c].input \in SqliteInputs /\ call[c].verdict \in SqliteVerdicts
      /\ EventsOf(k) = {} /\ table[k].input # NoValue
  <2>1. CallKnows(c) /\ k \in SqliteKeys /\ KeyIsExclusive(k)
    BY <1>0, <1>1, OwnerAlone
  <2>2. /\ call[c].input \in SqliteInputs /\ call[c].verdict \in SqliteVerdicts
        /\ ~call[c].audited /\ table[k].input = call[c].input
    BY <1>0, <1>1, <2>1 DEF CallKnows
  <2>3. EventsOf(k) = {}
    BY <1>0, <1>1, <2>1, <2>2 DEF KeyIsExclusive
  <2> QED
    BY <2>1, <2>2, <2>3, SqliteAssumption
<1> DEFINE e == [key |-> k, input |-> call[c].input, decision |-> call[c].verdict]
<1>3. e \in [key : SqliteKeys, input : SqliteInputs, decision : SqliteVerdicts] /\ trail' = Append(trail, e)
      /\ e.key = k /\ e.decision = call[c].verdict
  BY <1>1, <1>2
<1> HIDE DEF e
<1>4. /\ \A n \in DOMAIN trail : trail'[n] = trail[n]
      /\ trail'[Len(trail) + 1] = e
      /\ DOMAIN trail' = DOMAIN trail \cup {Len(trail) + 1}
      /\ Len(trail) + 1 \notin DOMAIN trail
  BY <1>3, EventsAfterAppend DEF SqliteInvariant, SqliteTypeOK
<1>5. PICK m : m = Len(trail) + 1
  OBVIOUS
<1>6. EventsOf(k)' = {m}
  BY <1>2, <1>3, <1>4, <1>5 DEF EventsOf
<1>7. DecidedFor(k)' = call[c].verdict
  <2>1. (CHOOSE x \in EventsOf(k)' : TRUE) = m
    BY <1>6
  <2> QED
    BY <1>3, <1>4, <1>5, <1>6, <2>1 DEF DecidedFor
<1>8. DecidedFor(k) = NoValue
  BY <1>2 DEF DecidedFor
<1>9. \A j \in SqliteKeys \ {k} : DecidedFor(j)' = DecidedFor(j)
  <2> SUFFICES ASSUME NEW j \in SqliteKeys \ {k}
               PROVE  DecidedFor(j)' = DecidedFor(j)
    OBVIOUS
  <2>1. KeyStays(j)
    BY <1>1, <1>3, <1>4 DEF EventsOf, KeyStays
  <2> QED
    BY <2>1, DecidedFrame
<1>10. \A d \in SqliteCallers : SqliteShown(d)' = SqliteShown(d)
  <2>1. \A d \in SqliteCallers \ {c} : call'[d] = call[d]
    BY DEF WritesEvent, SqliteInvariant, SqliteTypeOK
  <2>2. call'[c].answer = call[c].answer /\ call[c].answer = "none"
    BY <1>1 DEF WritesEvent, BoundAndAnswered, SqliteInvariant, SqliteTypeOK, SqliteCalls
  <2> QED
    BY <2>1, <2>2 DEF SqliteShown
<1>11. [j \in SqliteKeys |-> DecidedFor(j)]' =
         [[j \in SqliteKeys |-> DecidedFor(j)] EXCEPT ![k] = call[c].verdict]
  BY <1>7, <1>9
<1>12. SqliteLedger!Decide(k, call[c].verdict)
  BY <1>1, <1>2, <1>8, <1>10, <1>11 DEF SqliteLedger!Decide
<1> QED
  BY <1>2, <1>12 DEF SqliteLedger!Next

\* A completion shows the decision that its audit event made.
LEMMA CompletionShows ==
  ASSUME SqliteInvariant, BoundAndAnswered, NEW c \in SqliteCallers, Completes(c),
         call[c].key \notin contended
  PROVE  SqliteLedger!Next
<1>0. PICK k, i, v : k = call[c].key /\ i = call[c].input /\ v = call[c].verdict
  OBVIOUS
<1>1. Underway(c) /\ call[c].at = "completing" /\ CompleteRow(k, v) /\ UNCHANGED trail
  BY <1>0 DEF Completes, Underway
<1>2. /\ CallKnows(c) /\ k \in SqliteKeys /\ OneEvent(k) /\ SqliteTypeOK
  BY <1>0, <1>1, OwnerAlone
<1>3. /\ i \in SqliteInputs /\ v \in SqliteVerdicts /\ table[k].input = i
      /\ \E n \in EventsOf(k) : trail[n].decision = v
  BY <1>0, <1>1, <1>2 DEF CallKnows
<1>4. \A j \in SqliteKeys : table'[j].input = table[j].input
  BY <1>1, <1>2 DEF CompleteRow, SqliteTypeOK, SqliteRows
<1>5. DecidedFor(k) = v
  BY <1>2, <1>3, DecidedIs
<1>6. /\ call'[c].answer \in {"decision", "replay"} /\ call'[c].key = k /\ call'[c].input = i
      /\ call'[c].verdict = v /\ call[c].at # "ended"
      /\ \A d \in SqliteCallers \ {c} : call'[d] = call[d]
  BY <1>0, <1>2, <1>3, AnswerEnds DEF Completes
<1> QED
  BY <1>1, <1>2, <1>3, <1>4, <1>5, <1>6, AnswerShows

\* Every other step of a caller shows nothing and binds nothing.
LEMMA OwnersStutter ==
  ASSUME SqliteInvariant, BoundAndAnswered, NEW c \in SqliteCallers,
         \/ \E v \in SqliteVerdicts : Scores(c, v)
         \/ ScoringFails(c) \/ EventFails(c) \/ CompleteRaises(c)
         \/ FailsRow(c) \/ FailRaises(c)
  PROVE  UNCHANGED SqliteLedger!vars
<1>1. table \in [SqliteKeys -> SqliteRows] /\ call \in [SqliteCallers -> SqliteCalls]
  BY DEF SqliteInvariant, SqliteTypeOK
<1>2. call[c].at # "ended" /\ UNCHANGED trail /\ \A d \in SqliteCallers \ {c} : call'[d] = call[d]
  BY <1>1 DEF Scores, ScoringFails, EventFails, CompleteRaises, FailsRow, FailRaises, EndsCall
<1>3. call[c].answer = "none" /\ call'[c].answer \in {"none", "error"}
  BY <1>1, <1>2 DEF Scores, ScoringFails, EventFails, CompleteRaises, FailsRow, FailRaises, EndsCall,
     BoundAndAnswered, SqliteCalls
<1>4. \A d \in SqliteCallers : SqliteShown(d)' = SqliteShown(d)
  BY <1>2, <1>3 DEF SqliteShown
<1>5. \A k \in SqliteKeys : table'[k].input = table[k].input
  BY <1>1 DEF Scores, ScoringFails, EventFails, CompleteRaises, CompleteRow, FailsRow, FailRaises,
     SqliteRows
<1> QED
  BY <1>2, <1>4, <1>5, LedgerStutters

\* A SELECT that finds a claimable row shows nothing.
LEMMA ClaimableStutters ==
  ASSUME SqliteInvariant, BoundAndAnswered, NEW c \in SqliteCallers, NEW h \in SqliteHandles,
         NEW k \in SqliteKeys, NEW i \in SqliteInputs, ReadsClaimable(c, h, k, i)
  PROVE  UNCHANGED SqliteLedger!vars
<1>1. /\ UNCHANGED <<table, trail>> /\ call'[c].answer = "none" /\ call[c].at = "idle"
      /\ \A d \in SqliteCallers \ {c} : call'[d] = call[d]
  BY DEF ReadsClaimable, Uncalled, SqliteInvariant, SqliteTypeOK
<1>2. \A d \in SqliteCallers : SqliteShown(d)' = SqliteShown(d)
  BY <1>1 DEF SqliteShown, BoundAndAnswered
<1> QED
  BY <1>1, <1>2, LedgerStutters

\* A handle that opens, and a process that dies, show nothing.
LEMMA HandlesStutter ==
  ASSUME SqliteInvariant, BoundAndAnswered, NEW h \in SqliteHandles, OpensFile(h) \/ HandleDies(h)
  PROVE  UNCHANGED SqliteLedger!vars
<1>1. UNCHANGED trail /\ \A k \in SqliteKeys : table'[k].input = table[k].input
  BY InvariantIs, Opened, Died
<1>2. ASSUME NEW d \in SqliteCallers
      PROVE  SqliteShown(d)' = SqliteShown(d)
  <2>1. CASE call'[d] = call[d]
    BY <2>1 DEF SqliteShown
  <2>2. CASE (Claiming(d) \/ Underway(d)) /\ call'[d].answer = "lost"
    <3>1. call[d].answer = "none"
      BY <2>2 DEF Claiming, Underway, BoundAndAnswered
    <3> QED
      BY <2>2, <3>1 DEF SqliteShown
  <2> QED
    BY <2>1, <2>2, InvariantIs, Opened, Died
<1> QED
  BY <1>1, <1>2, LedgerStutters

\* Every step of a caller changes its call, so it is one on an uncontended key.
LEMMA StepIsOn ==
  ASSUME SqliteInvariant, NEW c \in SqliteCallers, OnUncontended
  PROVE  /\ \A h \in SqliteHandles, k \in SqliteKeys, i \in SqliteInputs :
              ReserveAsReader(c, h, k, i) => k \notin contended
         /\ WritesEvent(c) \/ Completes(c) => call[c].key \notin contended
<1>1. call \in [SqliteCallers -> SqliteCalls] /\ SqliteTypeOK
  BY DEF SqliteInvariant, SqliteTypeOK
<1>2. ASSUME NEW h \in SqliteHandles, NEW k \in SqliteKeys, NEW i \in SqliteInputs,
             ReserveAsReader(c, h, k, i)
      PROVE  k \notin contended
  <2>1. call'[c].at = "ended" /\ call'[c].key = k /\ call[c].at = "idle" /\ contended' = contended
    BY <1>1, <1>2 DEF ReserveAsReader, Uncalled
  <2> QED
    BY <2>1 DEF OnUncontended
<1>3. ASSUME WritesEvent(c) \/ Completes(c)
      PROVE  call[c].key \notin contended
  <2>1. call'[c].at # call[c].at /\ call'[c].key = call[c].key /\ contended' = contended
    BY <1>1, <1>3 DEF WritesEvent, Completes, EndsCall, SqliteCalls
  <2> QED
    BY <2>1 DEF OnUncontended
<1> QED
  BY <1>2, <1>3

\* Every step on an uncontended key maps to a step of the ledger or to a stutter.
LEMMA LedgerStep ==
  ASSUME SqliteInvariant, BoundAndAnswered, [SqliteNext]_sqliteVars, OnUncontended
  PROVE  [SqliteLedger!Next]_SqliteLedger!vars
<1>1. CASE UNCHANGED sqliteVars
  BY <1>1, LedgerStutters DEF sqliteVars, SqliteShown
<1>2. ASSUME NEW c \in SqliteCallers, SqliteStep(c)
      PROVE  SqliteLedger!Next \/ UNCHANGED SqliteLedger!vars
  <2>1. ASSUME NEW h \in SqliteHandles, NEW k \in SqliteKeys, NEW i \in SqliteInputs,
               ReserveAsReader(c, h, k, i) \/ ReadsClaimable(c, h, k, i)
        PROVE  SqliteLedger!Next \/ UNCHANGED SqliteLedger!vars
    BY <2>1, StepIsOn, ReaderShows, ClaimableStutters
  <2>2. CASE Inserts(c) \/ Reclaims(c) \/ ClaimRaises(c)
    BY <2>2, ClaimBinds
  <2>3. CASE WritesEvent(c)
    BY <2>3, StepIsOn, WritingDecides
  <2>4. CASE Completes(c)
    BY <2>4, StepIsOn, CompletionShows
  <2>5. CASE \/ \E v \in SqliteVerdicts : Scores(c, v)
             \/ ScoringFails(c) \/ EventFails(c) \/ CompleteRaises(c)
             \/ FailsRow(c) \/ FailRaises(c)
    BY <2>5, OwnersStutter
  <2> QED
    BY <1>2, <2>1, <2>2, <2>3, <2>4, <2>5 DEF SqliteStep
<1> QED
  BY <1>1, <1>2, HandlesStutter DEF SqliteNext

\* The empty file maps to the empty ledger.
LEMMA LedgerStart == SqliteInit => SqliteLedger!Init
<1> SUFFICES ASSUME SqliteInit PROVE SqliteLedger!Init
  OBVIOUS
<1>0. trail = <<>> /\ DOMAIN trail = {}
  BY DEF SqliteInit
<1>1. \A k \in SqliteKeys : table[k].input = NoValue /\ DecidedFor(k) = NoValue
  <2> TAKE k \in SqliteKeys
  <2>1. table[k].input = NoValue
    BY DEF SqliteInit, Unreserved
  <2>2. EventsOf(k) = {}
    BY <1>0 DEF EventsOf
  <2> QED
    BY <2>1, <2>2 DEF DecidedFor
<1>2. \A c \in SqliteCallers : SqliteShown(c) = SqliteLedger!NotShown
  BY DEF SqliteInit, Uncalled, SqliteShown, SqliteLedger!NotShown
<1> QED
  BY <1>1, <1>2 DEF SqliteLedger!Init

\* The prototype implements the abstract ledger on every key that was not claimed
\* twice at once: the key is bound to one input for good, decided once, and every
\* answer shows that decision.
THEOREM SqliteImplementsLedgerTheorem == SqliteSpec => SqliteImplementsLedger
<1>1. SqliteInit => SqliteInvariant /\ BoundAndAnswered
  <2>1. SqliteInit => BoundAndAnswered
    BY SqliteAssumption DEF SqliteInit, Unreserved, Uncalled, BoundAndAnswered
  <2> QED
    BY <2>1, SqliteStart
<1>2. SqliteInvariant /\ BoundAndAnswered /\ [SqliteNext]_sqliteVars
        => SqliteInvariant' /\ BoundAndAnswered'
  BY SqliteKeeps, BoundKeeps
<1>3. SqliteInvariant /\ BoundAndAnswered /\ [SqliteNext]_sqliteVars
        => (OnUncontended => [SqliteLedger!Next]_SqliteLedger!vars)
  BY LedgerStep
<1> QED
  BY <1>1, <1>2, <1>3, LedgerStart, PTL DEF SqliteSpec, SqliteImplementsLedger

=============================================================================

--------------------------- MODULE ComponentProofs ---------------------------
(***************************************************************************)
(* The safety, for every value of the constants, of four components that   *)
(* share no state: OrderIntegrity, SchemaMigrations, RequestIngress and    *)
(* EventStore.                                                             *)
(***************************************************************************)
EXTENDS OrderIntegrity, SchemaMigrations, RequestIngress, EventStore, FiniteSums

-----------------------------------------------------------------------------
(* OrderIntegrity: LedgerConsistent is inductive with the two properties.  A *)
(* quote is eligible once because the ledger knows the quotes it verified,   *)
(* and a verified amount is exact because a quote keeps the digest of its    *)
(* cart whatever else is altered.                                            *)

OrderInvariant == LedgerConsistent /\ OneEligiblePerQuote /\ VerifiedIsExact

\* The only way to a verified outcome: an unsettled quote, within its validity,
\* under its version, with the digest of its cart and the amount it asks for.
LEMMA JudgeVerifies ==
  ASSUME NEW q, NEW quote, NEW amount, NEW same, NEW moment,
         Judge(q, quote, amount, same, moment).outcome = Verified
  PROVE  /\ prices # NoTable /\ q \notin settled
         /\ ~(moment < quote.from) /\ ~(moment > quote.until)
         /\ quote.version = version
         /\ CartDigest(quote.lines) = quote.digest
         /\ amount = AmountOf(quote.lines, prices)
BY DEF Judge, IsSettled, SameLines, Says, Verified, Mismatch, Closed, Invalid

\* Carts of one digest cost the same.
LEMMA DigestPrices ==
  ASSUME NEW lines, NEW others, NEW table, CartDigest(lines) = CartDigest(others)
  PROVE  AmountOf(lines, table) = AmountOf(others, table)
BY DEF CartDigest, AmountOf

\* A step that leaves the ledger alone.
LEMMA LedgerFrame ==
  ASSUME UNCHANGED <<outcomes, settled, captured>>
  PROVE  \A q : VerifiedEvents(q)' = VerifiedEvents(q)
BY DEF VerifiedEvents

\* A quote is issued once, before anything is verified against it.
LEMMA IssueKeeps ==
  ASSUME OrderInvariant, NEW q \in QuoteIds, NEW cart \in Carts, NEW moment \in Times,
         IssueQuote(q, cart, moment)
  PROVE  OrderInvariant'
<1> USE DEF OrderInvariant
<1>1. /\ quotes[q] = NoQuote /\ ~quotes[q].issued /\ moment \in Nat
      /\ UNCHANGED <<prices, version, outcomes, settled, captured>>
  BY OrderAssumption DEF IssueQuote, NoQuote
<1>2. /\ quotes' = [quotes EXCEPT ![q] =
                      [issued |-> TRUE, digest |-> CartDigest(cart), version |-> version,
                       expected |-> AmountOf(cart, prices), lines |-> cart,
                       from |-> moment, until |-> moment + Validity]]
      /\ asked' = [x \in DOMAIN asked \cup {q} |->
                     IF x = q THEN [cart |-> cart, version |-> version, at |-> moment]
                     ELSE asked[x]]
  BY DEF IssueQuote
<1>3. \A x : VerifiedEvents(x)' = VerifiedEvents(x)
  BY <1>1, LedgerFrame
<1>4. VerifiedEvents(q) = {} /\ q \notin settled
  BY <1>1 DEF LedgerConsistent
<1>5. LedgerConsistent'
  <2>1. DOMAIN quotes' = QuoteIds
        /\ DOMAIN captured' = {e \in DOMAIN outcomes' : outcomes'[e].outcome = Verified}
    BY <1>1, <1>2 DEF LedgerConsistent
  <2>2. ASSUME NEW x \in QuoteIds
        PROVE  /\ x \in settled' <=> VerifiedEvents(x)' # {}
               /\ x \in settled' => quotes'[x].issued
    BY <1>1, <1>2, <1>3, <1>4 DEF LedgerConsistent
  <2>3. ASSUME NEW x \in QuoteIds, quotes'[x].issued
        PROVE  /\ x \in DOMAIN asked'
               /\ DOMAIN quotes'[x] =
                    {"issued", "digest", "version", "expected", "lines", "from", "until"}
               /\ quotes'[x].digest = CartDigest(asked'[x].cart)
               /\ quotes'[x].version = asked'[x].version
               /\ quotes'[x].from = asked'[x].at
               /\ quotes'[x].until = asked'[x].at + Validity
               /\ asked'[x].at \in Nat
    <3>1. CASE x = q
      BY <1>1, <1>2, <3>1 DEF LedgerConsistent
    <3>2. CASE x # q
      BY <1>2, <2>3, <3>2 DEF LedgerConsistent
    <3> QED
      BY <3>1, <3>2
  <2> QED
    BY <2>1, <2>2, <2>3 DEF LedgerConsistent
<1>6. OneEligiblePerQuote'
  BY <1>3 DEF OneEligiblePerQuote
<1>7. VerifiedIsExact'
  BY <1>1, <1>2, <1>3, <1>4 DEF VerifiedIsExact, LedgerConsistent, AmountOf
<1> QED
  BY <1>5, <1>6, <1>7

\* Altering a quote touches neither its digest nor the ledger.
LEMMA AlterKeeps ==
  ASSUME OrderInvariant, NEW q \in QuoteIds, NEW cart, NEW amount, AlterQuote(q, cart, amount)
  PROVE  OrderInvariant'
<1> USE DEF OrderInvariant
<1>1. /\ quotes[q].issued /\ UNCHANGED <<prices, version, outcomes, settled, asked, captured>>
      /\ quotes' = [quotes EXCEPT ![q].lines = cart, ![q].expected = amount]
  BY DEF AlterQuote
<1>2. \A x : VerifiedEvents(x)' = VerifiedEvents(x)
  BY <1>1, LedgerFrame
<1>3. DOMAIN quotes' = QuoteIds /\ \A x \in QuoteIds \ {q} : quotes'[x] = quotes[x]
  BY <1>1 DEF LedgerConsistent
<1>4. /\ DOMAIN quotes'[q] = DOMAIN quotes[q] /\ quotes'[q].issued
      /\ quotes'[q].digest = quotes[q].digest /\ quotes'[q].version = quotes[q].version
      /\ quotes'[q].from = quotes[q].from /\ quotes'[q].until = quotes[q].until
  BY <1>1 DEF LedgerConsistent
<1>5. LedgerConsistent'
  BY <1>1, <1>2, <1>3, <1>4 DEF LedgerConsistent
<1>6. OneEligiblePerQuote' /\ VerifiedIsExact'
  BY <1>1, <1>2 DEF OneEligiblePerQuote, VerifiedIsExact
<1> QED
  BY <1>5, <1>6

\* A new catalog touches neither the quotes nor the ledger.
LEMMA ChangeKeeps ==
  ASSUME OrderInvariant, NEW table, NEW v, ChangeCatalog(table, v)
  PROVE  OrderInvariant'
<1>1. UNCHANGED <<quotes, outcomes, settled, asked, captured>>
  BY DEF ChangeCatalog
<1>2. \A x : VerifiedEvents(x)' = VerifiedEvents(x)
  BY <1>1, LedgerFrame
<1> QED
  BY <1>1, <1>2 DEF OrderInvariant, LedgerConsistent, OneEligiblePerQuote, VerifiedIsExact

\* A new event with any outcome but a verified one.
LEMMA RefusalKeeps ==
  ASSUME OrderInvariant, NEW e, e \notin DOMAIN outcomes, NEW q, NEW said, NEW amount, NEW moment,
         RecordOutcome(e, q, said, amount, moment), said.outcome # Verified,
         UNCHANGED <<prices, version, quotes, asked>>
  PROVE  OrderInvariant'
<1> USE DEF OrderInvariant
<1>1. /\ outcomes' = [x \in DOMAIN outcomes \cup {e} |->
                        IF x = e THEN [outcome |-> said.outcome, reason |-> said.reason,
                                       quote |-> q]
                        ELSE outcomes[x]]
      /\ UNCHANGED <<settled, captured>>
  BY DEF RecordOutcome
<1>2. /\ DOMAIN outcomes' = DOMAIN outcomes \cup {e} /\ outcomes'[e].outcome # Verified
      /\ \A x \in DOMAIN outcomes : outcomes'[x] = outcomes[x]
  BY <1>1
<1>3. \A x : VerifiedEvents(x)' = VerifiedEvents(x)
  BY <1>2 DEF VerifiedEvents
<1>4. DOMAIN captured' = {x \in DOMAIN outcomes' : outcomes'[x].outcome = Verified}
  BY <1>1, <1>2 DEF LedgerConsistent
<1>5. LedgerConsistent'
  BY <1>1, <1>3, <1>4 DEF LedgerConsistent
<1>6. OneEligiblePerQuote' /\ VerifiedIsExact'
  BY <1>1, <1>3 DEF OneEligiblePerQuote, VerifiedIsExact
<1> QED
  BY <1>5, <1>6

\* A new event that is verified: the first of its quote, and exact.
LEMMA VerificationKeeps ==
  ASSUME OrderInvariant, NEW e, NEW q \in QuoteIds, NEW amount, NEW same, NEW moment \in Times,
         ConfirmIssued(e, q, amount, same, moment),
         Judge(q, quotes[q], amount, same, moment).outcome = Verified
  PROVE  OrderInvariant'
<1> USE DEF OrderInvariant
<1> DEFINE said == Judge(q, quotes[q], amount, same, moment)
<1>1. /\ e \notin DOMAIN outcomes /\ quotes[q].issued /\ UNCHANGED <<prices, version, quotes, asked>>
      /\ settled' = settled \cup {q}
  BY DEF ConfirmIssued, RecordOutcome
<1>2. /\ DOMAIN outcomes' = DOMAIN outcomes \cup {e}
      /\ outcomes'[e].outcome = Verified /\ outcomes'[e].quote = q
      /\ \A x \in DOMAIN outcomes : outcomes'[x] = outcomes[x]
  <2> HIDE DEF said
  <2>1. outcomes' = [x \in DOMAIN outcomes \cup {e} |->
                      IF x = e THEN [outcome |-> said.outcome, reason |-> said.reason,
                                     quote |-> q]
                      ELSE outcomes[x]]
    BY DEF ConfirmIssued, RecordOutcome, said
  <2>2. said.outcome = Verified
    BY DEF said
  <2> QED
    BY <1>1, <2>1, <2>2
<1>3. /\ DOMAIN captured' = DOMAIN captured \cup {e}
      /\ captured'[e] = [amount |-> amount, at |-> moment, prices |-> prices, version |-> version]
      /\ \A x \in DOMAIN captured : x # e => captured'[x] = captured[x]
  BY DEF ConfirmIssued, RecordOutcome
<1>4. /\ prices # NoTable /\ q \notin settled
      /\ ~(moment < quotes[q].from) /\ ~(moment > quotes[q].until)
      /\ quotes[q].version = version
      /\ CartDigest(quotes[q].lines) = quotes[q].digest
      /\ amount = AmountOf(quotes[q].lines, prices)
  BY JudgeVerifies
<1>5. VerifiedEvents(q) = {} /\ VerifiedEvents(q)' = {e}
      /\ \A x \in QuoteIds \ {q} : VerifiedEvents(x)' = VerifiedEvents(x)
  <2>1. VerifiedEvents(q) = {}
    BY <1>4 DEF LedgerConsistent
  <2> QED
    BY <1>1, <1>2, <2>1 DEF VerifiedEvents
<1>6. LedgerConsistent'
  <2>1. DOMAIN captured' = {x \in DOMAIN outcomes' : outcomes'[x].outcome = Verified}
    BY <1>1, <1>2, <1>3 DEF LedgerConsistent
  <2> QED
    BY <1>1, <1>5, <2>1 DEF LedgerConsistent
<1>7. OneEligiblePerQuote'
  BY <1>5 DEF OneEligiblePerQuote
<1>8. VerifiedIsExact'
  <2>1. /\ quotes[q].digest = CartDigest(asked[q].cart) /\ quotes[q].version = asked[q].version
        /\ quotes[q].from = asked[q].at /\ quotes[q].until = asked[q].at + Validity
        /\ asked[q].at \in Nat /\ moment \in Nat /\ Validity \in Nat
    BY <1>1, OrderAssumption DEF LedgerConsistent
  <2>2. amount = AmountOf(asked[q].cart, prices)
    BY <1>4, <2>1, DigestPrices
  <2>3. moment \in asked[q].at..(asked[q].at + Validity)
    BY <1>4, <2>1
  <2>4. \A x \in QuoteIds \ {q} : \A y \in VerifiedEvents(x) : captured'[y] = captured[y]
    BY <1>1, <1>3 DEF VerifiedEvents, LedgerConsistent
  <2> SUFFICES ASSUME NEW x \in QuoteIds, NEW y \in VerifiedEvents(x)'
               PROVE  /\ captured'[y].prices # NoTable
                      /\ captured'[y].amount = AmountOf(asked[x].cart, captured'[y].prices)
                      /\ captured'[y].version = asked[x].version
                      /\ captured'[y].at \in asked[x].at..(asked[x].at + Validity)
    BY <1>1 DEF VerifiedIsExact
  <2>5. CASE x = q
    BY <1>3, <1>4, <1>5, <2>1, <2>2, <2>3, <2>5
  <2>6. CASE x # q
    BY <1>5, <2>4, <2>6 DEF VerifiedIsExact
  <2> QED
    BY <2>5, <2>6
<1> QED
  BY <1>6, <1>7, <1>8

\* Every step of a session, of the merchant and of the verifier keeps the invariant.
LEMMA OrderStep ==
  ASSUME OrderInvariant, [OrderNext]_orderVars
  PROVE  OrderInvariant'
<1>1. CASE UNCHANGED orderVars
  <2>1. \A x : VerifiedEvents(x)' = VerifiedEvents(x)
    BY <1>1, LedgerFrame DEF orderVars
  <2> QED
    BY <1>1, <2>1 DEF orderVars, OrderInvariant, LedgerConsistent, OneEligiblePerQuote, VerifiedIsExact
<1>2. ASSUME NEW e \in EventIds, NEW q \in QuoteIds, NEW amount \in Amounts, NEW same \in BOOLEAN,
             NEW moment \in Times, ConfirmIssued(e, q, amount, same, moment)
      PROVE  OrderInvariant'
  <2>1. CASE Judge(q, quotes[q], amount, same, moment).outcome = Verified
    BY <1>2, <2>1, VerificationKeeps
  <2>2. CASE Judge(q, quotes[q], amount, same, moment).outcome # Verified
    BY <1>2, <2>2, RefusalKeeps DEF ConfirmIssued
  <2> QED
    BY <2>1, <2>2
<1>3. ASSUME NEW e \in EventIds, NEW amount \in Amounts, ConfirmUnknown(e, amount)
      PROVE  OrderInvariant'
  <2>1. Says(Mismatch, "unknown_quote").outcome # Verified
    BY DEF Says, Mismatch, Verified
  <2> QED
    BY <1>3, <2>1, RefusalKeeps DEF ConfirmUnknown
<1> QED
  BY <1>1, <1>2, <1>3, IssueKeeps, AlterKeeps, ChangeKeeps DEF OrderNext

\* The invariant holds before the first quote.
LEMMA OrderStart == OrderInit => OrderInvariant
BY DEF OrderInit, OrderInvariant, LedgerConsistent, OneEligiblePerQuote, VerifiedIsExact,
   VerifiedEvents, NoQuote

\* In every reachable state the ledger of outcomes is consistent with the quotes that
\* were issued: issue_quote, record_outcome and verify_confirmation keep it.
THEOREM OrderIsInvariant == OrderSpec => []OrderInvariant
BY OrderStart, OrderStep, PTL DEF OrderSpec

\* However many confirmations come for a quote, one is eligible at most.
THEOREM OneEligiblePerQuoteTheorem == OrderSpec => []OneEligiblePerQuote
<1>1. OrderInvariant => OneEligiblePerQuote
  BY DEF OrderInvariant
<1> QED
  BY <1>1, OrderIsInvariant, PTL

\* A verified amount is the catalog's price for the cart that was quoted.
THEOREM VerifiedIsExactTheorem == OrderSpec => []VerifiedIsExact
<1>1. OrderInvariant => VerifiedIsExact
  BY DEF OrderInvariant
<1> QED
  BY <1>1, OrderIsInvariant, PTL

-----------------------------------------------------------------------------
(* SchemaMigrations: PlanInvariant is inductive.  The lock admits one operator *)
(* to its look at the history and to what it does on the strength of it.       *)

PlanInvariant == LockGuardsPlan /\ HistoryMatchesSchema /\ CurrentStaysTrue

\* A sequence with one element appended keeps what it had.
LEMMA Extended ==
  ASSUME NEW S, NEW s \in Seq(S), NEW x \in S, NEW t, t = Append(s, x)
  PROVE  /\ t \in Seq(S) /\ Len(t) = Len(s) + 1
         /\ \A i \in DOMAIN s : t[i] = s[i]
         /\ t[Len(s) + 1] = x
<1>1. DOMAIN s = 1..Len(s)
  OBVIOUS
<1>2. t \in Seq(S) /\ Len(t) = Len(s) + 1 /\ t[Len(s) + 1] = x
  BY AppendProperties
<1>3. \A i \in 1..Len(s) : t[i] = s[i]
  BY AppendProperties
<1> QED
  BY <1>1, <1>2, <1>3

\* A release is numbered 1, 2, ... and made of files.
LEMMA ReleaseFacts ==
  ASSUME NEW o \in Operators
  PROVE  /\ Releases[o] \in Seq(Files)
         /\ Len(Releases[o]) \in Nat /\ Len(Releases[o]) > 0
         /\ \A i \in 1..Len(Releases[o]) : Releases[o][i] \in Files /\ Releases[o][i].version = i
BY MigrationAssumption

\* The next file of a plan that is not through extends the history by one row
\* that carries the next version; what was recorded stays where it is.
LEMMA TakesExtends ==
  ASSUME PlanInvariant, NEW o \in Operators, at[o] = "committing", Takes(o)
  PROVE  /\ history' \in Seq(Files) /\ history' = schema'
         /\ Len(history') = Len(history) + 1
         /\ \A i \in DOMAIN history : history'[i] = history[i]
         /\ Len(history') <= Len(Releases[o])
         /\ \A i \in DOMAIN history' : history'[i] = Releases[o][i] /\ history'[i].version = i
<1> USE DEF PlanInvariant
<1>1. history \in Seq(Files) /\ Len(history) \in Nat /\ done[o] = Len(history)
  BY DEF LockGuardsPlan
<1>2. done[o] < Len(Releases[o])
  BY <1>1, ReleaseFacts DEF LockGuardsPlan, Covered
<1>3. NextFile(o) \in Files /\ NextFile(o) = Releases[o][Len(history) + 1]
      /\ NextFile(o).version = Len(history) + 1
  BY <1>1, <1>2, ReleaseFacts DEF NextFile
<1>4. history' = Append(history, NextFile(o)) /\ history' = schema'
  BY DEF Takes, HistoryMatchesSchema
<1>5. /\ history' \in Seq(Files) /\ Len(history') = Len(history) + 1
      /\ \A i \in DOMAIN history : history'[i] = history[i]
      /\ history'[Len(history) + 1] = NextFile(o)
  <2> DEFINE t == history'
  <2>1. t = Append(history, NextFile(o)) /\ NextFile(o) \in Files /\ history \in Seq(Files)
    BY <1>1, <1>3, <1>4
  <2> HIDE DEF t
  <2>2. /\ t \in Seq(Files) /\ Len(t) = Len(history) + 1
        /\ \A i \in DOMAIN history : t[i] = history[i]
        /\ t[Len(history) + 1] = NextFile(o)
    BY <2>1, Extended
  <2> QED
    BY <2>2 DEF t
<1>6. \A i \in DOMAIN history : history[i] = Releases[o][i] /\ history[i].version = i
  BY DEF LockGuardsPlan, ValidHistory, HistoryMatchesSchema
<1>7. \A i \in DOMAIN history' : i \in DOMAIN history \/ i = Len(history) + 1
  BY <1>1, <1>5
<1>8. \A i \in DOMAIN history' : history'[i] = Releases[o][i] /\ history'[i].version = i
  BY <1>3, <1>5, <1>6, <1>7
<1> QED
  BY <1>1, <1>2, <1>4, <1>5, <1>8, ReleaseFacts

\* A step of an operator that is not under way with the history, and leaves
\* the history alone, keeps the invariant.
LEMMA ElsewhereKeeps ==
  ASSUME PlanInvariant, NEW o \in Operators, NEW next \in {"locked", "reading", "bootstrapping", "required", "failed", "lost"},
         To(o, next), UNCHANGED <<history, schema, granted>>, tabled' \in BOOLEAN,
         done' \in [Operators -> Nat], \A x \in Operators \ {o} : done'[x] = done[x],
         \/ next \in UnderLock /\ lock' = o /\ lock \in {o, Nobody} /\ gone' = gone /\ o \notin gone
         \/ next \notin UnderLock /\ gone' = gone \ {o}
            /\ \/ lock' = Nobody /\ lock = o
               \/ lock' = lock /\ lock # o
  PROVE  PlanInvariant'
<1> USE DEF PlanInvariant
<1>1. at' = [at EXCEPT ![o] = next] /\ at \in [Operators -> UnderLock \cup {"start", "current", "required", "failed", "lost"}]
  BY DEF To, LockGuardsPlan
<1>2. LockGuardsPlan'
  BY <1>1, MigrationAssumption DEF LockGuardsPlan, UnderLock, ValidHistory, Covered
<1>3. HistoryMatchesSchema'
  BY DEF HistoryMatchesSchema
<1>4. CurrentStaysTrue'
  BY <1>1 DEF CurrentStaysTrue
<1> QED
  BY <1>2, <1>3, <1>4

\* A migration that was committed, by its operator or by the server after the
\* operator was gone.
LEMMA TakesKeeps ==
  ASSUME PlanInvariant, NEW o \in Operators, at[o] = "committing", Takes(o),
         UNCHANGED <<tabled, granted>>,
         \/ /\ UNCHANGED <<lock, gone>>
            /\ done' = [done EXCEPT ![o] = @ + 1]
            /\ To(o, IF Covered(done[o] + 1, o) THEN "granting" ELSE "applying")
         \/ UNCHANGED done /\ Leaves(o, "lost") /\ gone' = gone \ {o}
  PROVE  PlanInvariant'
<1> USE DEF PlanInvariant
<1>1. /\ history' \in Seq(Files) /\ history' = schema'
      /\ Len(history') = Len(history) + 1
      /\ \A i \in DOMAIN history : history'[i] = history[i]
      /\ Len(history') <= Len(Releases[o])
      /\ \A i \in DOMAIN history' : history'[i] = Releases[o][i] /\ history'[i].version = i
  BY TakesExtends
<1>2. lock = o /\ \A x \in Operators \ {o} : at[x] \notin UnderLock
  BY DEF LockGuardsPlan, UnderLock
<1>3. history \in Seq(Files) /\ Len(history) \in Nat /\ done[o] = Len(history)
  BY DEF LockGuardsPlan
<1>4. \A x \in Operators \ {o} : at'[x] = at[x]
  BY DEF To, Leaves, LockGuardsPlan
<1>5. LockGuardsPlan'
  <2>1. CASE /\ UNCHANGED <<lock, gone>>
             /\ done' = [done EXCEPT ![o] = @ + 1]
             /\ To(o, IF Covered(done[o] + 1, o) THEN "granting" ELSE "applying")
    <3>1. done' \in [Operators -> Nat] /\ done'[o] = Len(history')
      BY <1>1, <1>3, <2>1 DEF LockGuardsPlan
    <3>2. at' \in [Operators -> UnderLock \cup {"start", "current", "required", "failed", "lost"}]
          /\ at'[o] = IF Covered(done'[o], o) THEN "granting" ELSE "applying"
      BY <1>1, <1>3, <2>1, <3>1 DEF LockGuardsPlan, To, UnderLock
    <3>3. ValidHistory(o)'
      BY <1>1 DEF ValidHistory
    <3>4. \A x \in Operators \ {o} : at'[x] \notin UnderLock /\ lock' # x
      BY <1>2, <1>4, <2>1
    <3>5. at'[o] \in UnderLock /\ at'[o] # "committing"
      BY <3>2 DEF UnderLock
    <3>6. \A x \in Operators : at'[x] \in UnderLock <=> lock' = x
      BY <1>2, <2>1, <3>4, <3>5
    <3>7. \A x \in gone' : x = o
      BY <1>2, <2>1 DEF LockGuardsPlan
    <3> QED
      BY <1>1, <1>2, <2>1, <3>1, <3>2, <3>3, <3>4, <3>5, <3>6, <3>7
      DEF LockGuardsPlan, UnderLock
  <2>2. CASE UNCHANGED done /\ Leaves(o, "lost") /\ gone' = gone \ {o}
    <3>1. at' \in [Operators -> UnderLock \cup {"start", "current", "required", "failed", "lost"}]
          /\ at'[o] = "lost"
      BY <2>2 DEF LockGuardsPlan, Leaves, To, UnderLock
    <3>2. \A x \in Operators : at'[x] \notin UnderLock
      BY <1>2, <1>4, <3>1 DEF UnderLock
    <3>3. lock' = Nobody
      BY <2>2 DEF Leaves
    <3>4. gone' = {}
      BY <1>2, <2>2 DEF LockGuardsPlan
    <3> QED
      BY <1>1, <2>2, <3>1, <3>2, <3>3, <3>4, MigrationAssumption DEF LockGuardsPlan, UnderLock
  <2> QED
    BY <2>1, <2>2
<1>6. HistoryMatchesSchema'
  BY <1>1 DEF HistoryMatchesSchema
<1>7. CurrentStaysTrue'
  <2> SUFFICES ASSUME NEW x \in Operators, at'[x] = "current"
               PROVE  /\ Len(Releases[x]) <= Len(history')
                      /\ \A i \in DOMAIN Releases[x] : history'[i] = Releases[x][i]
                      /\ x \in WithRole => granted'
    BY DEF CurrentStaysTrue
  <2>1. at[x] = "current"
    BY <1>4 DEF To, Leaves, LockGuardsPlan
  <2>2. Len(Releases[x]) \in Nat /\ DOMAIN Releases[x] = 1..Len(Releases[x])
        /\ DOMAIN history = 1..Len(history)
    BY <1>3, ReleaseFacts
  <2>3. Len(Releases[x]) <= Len(history)
    BY <2>1 DEF CurrentStaysTrue
  <2>4. \A i \in DOMAIN Releases[x] : i \in DOMAIN history /\ history[i] = Releases[x][i]
    BY <1>3, <2>1, <2>2, <2>3 DEF CurrentStaysTrue
  <2> QED
    BY <1>1, <1>3, <2>1, <2>2, <2>3, <2>4 DEF CurrentStaysTrue
<1> QED
  BY <1>5, <1>6, <1>7

\* The look at the history.
LEMMA ValidatesKeeps ==
  ASSUME PlanInvariant, NEW o \in Operators \ gone, ValidatesHistory(o)
  PROVE  PlanInvariant'
<1> USE DEF PlanInvariant
<1>1. at[o] = "reading" /\ lock = o /\ at[o] \in UnderLock
      /\ done' \in [Operators -> Nat] /\ done'[o] = Len(history)
      /\ (\A x \in Operators \ {o} : done'[x] = done[x])
      /\ UNCHANGED <<tabled, history, schema, granted, gone>>
  BY DEF ValidatesHistory, LockGuardsPlan, UnderLock
<1>2. CASE Leaves(o, "failed") \/ Leaves(o, "required")
  BY <1>1, <1>2, ElsewhereKeeps DEF Leaves, UnderLock, LockGuardsPlan
<1>3. CASE /\ ValidHistory(o) /\ UNCHANGED lock
           /\ \/ Covered(Len(history), o) /\ To(o, "granting")
              \/ ~Covered(Len(history), o) /\ To(o, "applying")
  <2>1. LockGuardsPlan'
    <3>1. /\ at'[o] \in {"granting", "applying"} /\ lock' = o
          /\ at' \in [Operators -> UnderLock \cup {"start", "current", "required", "failed", "lost"}]
          /\ \A x \in Operators \ {o} : at'[x] = at[x]
      BY <1>1, <1>3 DEF LockGuardsPlan, To, UnderLock
    <3>2. /\ at'[o] = "applying" => ~Covered(done'[o], o)
          /\ at'[o] = "granting" => Covered(done'[o], o)
      BY <1>1, <1>3, <3>1 DEF LockGuardsPlan, To, Covered
    <3>3. \A x \in Operators \ {o} : at[x] \notin UnderLock /\ x \notin gone
      BY <1>1 DEF LockGuardsPlan
    <3>4. ValidHistory(o)' /\ o \notin gone
      BY <1>1, <1>3 DEF ValidHistory
    <3> QED
      BY <1>1, <3>1, <3>2, <3>3, <3>4 DEF LockGuardsPlan, UnderLock
  <2>2. HistoryMatchesSchema' /\ CurrentStaysTrue'
    BY <1>1, <1>3 DEF LockGuardsPlan, HistoryMatchesSchema, CurrentStaysTrue, To
  <2> QED
    BY <2>1, <2>2
<1> QED
  BY <1>2, <1>3 DEF ValidatesHistory

\* Granting is the last look: the history is the whole release then.
LEMMA GrantsKeeps ==
  ASSUME PlanInvariant, NEW o \in Operators \ gone, Grants(o)
  PROVE  PlanInvariant'
<1> USE DEF PlanInvariant
<1>1. at[o] = "granting" /\ lock = o /\ at' = [at EXCEPT ![o] = "current"] /\ lock' = Nobody
      /\ UNCHANGED <<done, tabled, history, schema, gone>> /\ granted' = (granted \/ o \in WithRole)
  BY DEF Grants, Leaves, To, LockGuardsPlan, UnderLock
<1>2. LockGuardsPlan'
  BY <1>1, MigrationAssumption DEF LockGuardsPlan, UnderLock, ValidHistory, Covered
<1>3. HistoryMatchesSchema'
  BY <1>1 DEF HistoryMatchesSchema
<1>4. CurrentStaysTrue'
  <2>1. \A x \in Operators : at'[x] = "current" => x = o \/ at[x] = "current"
    BY <1>1 DEF LockGuardsPlan
  <2>2. /\ Len(Releases[o]) <= Len(history)
        /\ \A i \in DOMAIN Releases[o] : history[i] = Releases[o][i]
    <3>1. ValidHistory(o) /\ Covered(Len(history), o) /\ history \in Seq(Files)
      BY <1>1 DEF LockGuardsPlan
    <3>2. Len(history) = Len(Releases[o]) /\ DOMAIN history = DOMAIN Releases[o]
      BY <3>1, ReleaseFacts DEF ValidHistory, Covered
    <3> QED
      BY <3>1, <3>2, ReleaseFacts DEF ValidHistory
  <2> QED
    BY <1>1, <2>1, <2>2 DEF CurrentStaysTrue
<1> QED
  BY <1>2, <1>3, <1>4

\* The server ends the session of an operator that vanished.
LEMMA SessionEndsKeeps ==
  ASSUME PlanInvariant, NEW o \in gone, SessionEnds(o)
  PROVE  PlanInvariant'
<1> USE DEF PlanInvariant
<1>1. o \in Operators /\ at[o] \in UnderLock /\ lock = o /\ UNCHANGED done /\ gone' = gone \ {o}
      /\ Leaves(o, "lost") /\ done \in [Operators -> Nat] /\ tabled \in BOOLEAN
  BY DEF SessionEnds, LockGuardsPlan
<1>2. CASE UNCHANGED <<history, schema, granted>> /\ tabled' \in BOOLEAN
  BY <1>1, <1>2, ElsewhereKeeps DEF Leaves, UnderLock
<1>3. CASE at[o] = "committing" /\ Takes(o) /\ UNCHANGED <<tabled, granted>>
  BY <1>1, <1>3, TakesKeeps
<1>4. CASE granted' = (granted \/ o \in WithRole) /\ UNCHANGED <<tabled, history, schema>>
  <2>1. at' = [at EXCEPT ![o] = "lost"] /\ lock' = Nobody
    BY <1>1 DEF Leaves, To
  <2>2. LockGuardsPlan'
    BY <1>1, <1>4, <2>1, MigrationAssumption DEF LockGuardsPlan, UnderLock, ValidHistory, Covered
  <2>3. HistoryMatchesSchema' /\ CurrentStaysTrue'
    BY <1>1, <1>4, <2>1 DEF LockGuardsPlan, HistoryMatchesSchema, CurrentStaysTrue
  <2> QED
    BY <2>2, <2>3
<1> QED
  BY <1>1, <1>2, <1>3, <1>4 DEF SessionEnds, TakesEffect

\* The invariant holds of an empty database before any operator connects.
LEMMA PlanInit == MigrationsInit => PlanInvariant
<1> SUFFICES ASSUME MigrationsInit PROVE PlanInvariant
  OBVIOUS
<1> USE DEF MigrationsInit
<1>1. history \in Seq(Files) /\ DOMAIN history = {} /\ history = schema
  OBVIOUS
<1>2. \A o \in Operators : at[o] = "start"
  OBVIOUS
<1>3. LockGuardsPlan
  BY <1>1, <1>2, MigrationAssumption DEF LockGuardsPlan, UnderLock
<1>4. HistoryMatchesSchema /\ CurrentStaysTrue
  BY <1>1, <1>2 DEF HistoryMatchesSchema, CurrentStaysTrue
<1> QED
  BY <1>3, <1>4 DEF PlanInvariant

\* Every step of an operator, and of the server on its behalf, keeps the invariant.
LEMMA PlanStep ==
  ASSUME PlanInvariant, [MigrationsNext]_migrationVars
  PROVE  PlanInvariant'
<1>1. CASE UNCHANGED migrationVars
  BY <1>1 DEF migrationVars, PlanInvariant, LockGuardsPlan, HistoryMatchesSchema, CurrentStaysTrue,
     ValidHistory, Covered
<1>2. ASSUME NEW o \in Operators \ gone, MigrationStep(o)
      PROVE  PlanInvariant'
  <2>1. done \in [Operators -> Nat] /\ tabled \in BOOLEAN
        /\ (at[o] \in UnderLock <=> lock = o) /\ Nobody # o
    BY MigrationAssumption DEF PlanInvariant, LockGuardsPlan
  <2>2. CASE LockSchema(o)
    BY <2>1, <2>2, ElsewhereKeeps DEF LockSchema, UnderLock
  <2>3. CASE NeverConnects(o)
    BY <1>2, <2>1, <2>3, ElsewhereKeeps DEF NeverConnects, UnderLock
  <2>4. CASE RefusesRole(o)
    BY <1>2, <2>1, <2>4, ElsewhereKeeps DEF RefusesRole, Leaves, UnderLock
  <2>5. CASE FindsHistory(o)
    BY <1>2, <2>1, <2>5, ElsewhereKeeps DEF FindsHistory, Leaves, UnderLock
  <2>6. CASE BootstrapHistory(o)
    BY <1>2, <2>1, <2>6, ElsewhereKeeps DEF BootstrapHistory, UnderLock
  <2>7. CASE ValidatesHistory(o)
    BY <2>7, ValidatesKeeps
  <2>8. CASE Executes(o)
    BY <1>2, <2>8 DEF Executes, To, PlanInvariant, LockGuardsPlan, HistoryMatchesSchema,
       CurrentStaysTrue, UnderLock, ValidHistory, Covered
  <2>9. CASE Commits(o)
    BY <2>9, TakesKeeps DEF Commits
  <2>10. CASE Grants(o)
    BY <2>10, GrantsKeeps
  <2>11. CASE Errs(o)
    BY <1>2, <2>1, <2>11, ElsewhereKeeps DEF Errs, Leaves, UnderLock
  <2>12. CASE Vanishes(o)
    BY <1>2, <2>12 DEF Vanishes, PlanInvariant, LockGuardsPlan, HistoryMatchesSchema,
       CurrentStaysTrue, ValidHistory, Covered
  <2> QED
    BY <1>2, <2>2, <2>3, <2>4, <2>5, <2>6, <2>7, <2>8, <2>9, <2>10, <2>11, <2>12 DEF MigrationStep
<1> QED
  BY <1>1, <1>2, SessionEndsKeeps DEF MigrationsNext

\* PlanInvariant holds in every reachable state.
THEOREM PlanIsInvariant == MigrationsSpec => []PlanInvariant
BY PlanInit, PlanStep, PTL DEF MigrationsSpec

\* The history table tells the truth about the schema, whichever releases took
\* part in migrating it and wherever their operators died.
THEOREM HistoryMatchesSchemaTheorem == MigrationsSpec => []HistoryMatchesSchema
<1>1. PlanInvariant => HistoryMatchesSchema
  BY DEF PlanInvariant
<1> QED
  BY <1>1, PlanIsInvariant, PTL

\* What an operator was told of its own release stays true.
THEOREM CurrentStaysTrueTheorem == MigrationsSpec => []CurrentStaysTrue
<1>1. PlanInvariant => CurrentStaysTrue
  BY DEF PlanInvariant
<1> QED
  BY <1>1, PlanIsInvariant, PTL

-----------------------------------------------------------------------------
(* RequestIngress: the invariant says where the messages of a body are until *)
(* the request ends, and under which name.  That a body over the limit is    *)
(* refused, and no other, and that what waits for the route only becomes     *)
(* less as it reads, are sums over sequences (FiniteSums).                   *)

IngressFields == {"stage", "header", "id", "sent", "kept", "seen", "answer", "counted"}

RequestShape ==
  /\ DOMAIN request = IngressFields
  /\ request.stage \in {"sent", "buffering", "routed", "ended"}
  /\ request.sent \in Seq(Nat) /\ request.kept \in Seq(Nat) /\ request.seen \in Seq(Nat)

BodyIsKept ==
  /\ request.stage \in {"sent", "buffering"} => request.seen = <<>> /\ request.kept = request.sent
  /\ request.stage = "routed" => request.seen \o request.kept = request.sent
  /\ request.stage # "ended" =>
       /\ BodySize(request.sent) <= MaxBytes /\ BodySize(request.kept) <= MaxBytes
       /\ request.counted = <<>>

NameOf(header) ==
  IF header # <<>> /\ Head(header) \in ValidIds THEN Head(header) ELSE FreshId

NameIsKept == request.stage # "sent" => request.id = NameOf(request.header)

IngressInvariant == RequestShape /\ BodyIsKept /\ NameIsKept /\ RequestsAreAccountedFor

LEMMA BodySizes ==
  /\ BodySize(<<>>) = 0
  /\ \A chunks \in Seq(Nat) : BodySize(chunks) \in Nat
  /\ \A chunks \in Seq(Nat) :
       chunks # <<>> => BodySize(chunks) = Head(chunks) + BodySize(Tail(chunks))
<1>1. \A chunks : BodySize(chunks) = Summed(chunks)
  BY FoldSeqSums DEF BodySize
<1>2. BodySize(<<>>) = 0
  BY <1>1, SummedOfNone
<1> QED
  BY <1>1, <1>2, SummedIsANumber, SummedFromTheHead

LEMMA TailIsSmaller ==
  ASSUME NEW chunks \in Seq(Nat), chunks # <<>>, BodySize(chunks) <= MaxBytes
  PROVE  BodySize(Tail(chunks)) <= MaxBytes
<1>1. Head(chunks) \in Nat /\ Tail(chunks) \in Seq(Nat)
  BY HeadTailProperties
<1>2. BodySize(chunks) = Head(chunks) + BodySize(Tail(chunks)) /\ BodySize(Tail(chunks)) \in Nat
  BY <1>1, BodySizes
<1>3. MaxBytes \in Nat
  BY IngressAssumption
<1> QED
  BY <1>1, <1>2, <1>3

LEMMA FrontOfAppend ==
  ASSUME NEW chunks \in Seq(Nat), NEW bytes \in Nat
  PROVE  /\ Append(chunks, bytes) \in Seq(Nat)
         /\ Front(Append(chunks, bytes)) = chunks
<1> DEFINE more == Append(chunks, bytes)
<1>1. /\ more \in Seq(Nat) /\ Len(more) = Len(chunks) + 1
      /\ \A i \in 1..Len(chunks) : more[i] = chunks[i]
  BY AppendProperties
<1> HIDE DEF more
<1>2. SubSeq(more, 1, Len(more) - 1) = chunks
  BY <1>1
<1> QED
  BY <1>1, <1>2 DEF Front, more

\* What a request that ends gets, by whichever way.
Ends(status, code) ==
  /\ DOMAIN request' = IngressFields /\ request'.stage = "ended"
  /\ request'.header = request.header /\ request'.id = request.id
  /\ request'.seen = request.seen
  /\ request'.answer.status = status /\ request'.answer.code = code
  /\ request'.answer.body = request.id
  /\ request'.answer.header = IF code = "Exception" THEN {} ELSE {request.id}
  /\ request'.counted = <<status>>

LEMMA AnsweredEnds ==
  ASSUME NEW r, DOMAIN r = IngressFields, r.header = request.header, r.id = request.id,
         r.seen = request.seen, r.counted = <<>>, NEW status, NEW code, code # "Exception",
         request' = Answered(r, status, code)
  PROVE  Ends(status, code) /\ request'.sent = r.sent /\ request'.kept = r.kept
BY DEF Answered, Ends, IngressFields

LEMMA UnhandledEnds ==
  ASSUME NEW r, DOMAIN r = IngressFields, r.header = request.header, r.id = request.id,
         r.seen = request.seen, r.counted = <<>>,
         request' = Unhandled(r)
  PROVE  Ends(500, "Exception") /\ request'.sent = r.sent /\ request'.kept = r.kept
BY DEF Unhandled, Ends, IngressFields

\* A request may end once the account of its body is right.
LEMMA EndKeeps ==
  ASSUME IngressInvariant, request.stage # "sent", NEW status, NEW code, Ends(status, code),
         request'.sent \in Seq(Nat), request'.kept \in Seq(Nat),
         BodySize(request'.kept) <= MaxBytes \/ BodySize(Front(request'.kept)) <= MaxBytes,
         status = 413 <=> BodySize(request'.sent) > MaxBytes,
         status = 200 => request.seen = request'.sent,
         status = 409 <=> code = "IdempotencyConflictError"
  PROVE  IngressInvariant'
<1>1. RequestShape'
  BY DEF IngressInvariant, RequestShape, Ends
<1>2. BodyIsKept'
  BY DEF Ends, BodyIsKept
<1>3. NameIsKept'
  BY DEF IngressInvariant, NameIsKept, Ends
<1>4. RequestsAreAccountedFor'
  <2>1. request.id = NameOf(request.header)
    BY DEF IngressInvariant, NameIsKept
  <2> QED
    BY <2>1 DEF RequestsAreAccountedFor, Ends, NameOf
<1> QED
  BY <1>1, <1>2, <1>3, <1>4 DEF IngressInvariant

\* Every class that a route may raise has one answer of its own.
LEMMA HandlersTell ==
  ASSUME NEW class \in Raised, HandlerOf(class) # "Exception"
  PROVE  LET status == Handlers[HandlerOf(class)]
             code   == CodeOf(class)
         IN  /\ code # "Exception" /\ status \notin {200, 413}
             /\ status = 409 <=> code = "IdempotencyConflictError"
<1> DEFINE Listed ==
      {"RequestValidationError", "ModelUnavailableError", "PredictionIntegrityError",
       "PredictionTimeoutError", "CapacityExceededError", "IdempotencyConflictError",
       "DurableIdempotencyConflictError", "DurableIdempotencyError",
       "BoundedResponseIntegrityError", "AuditUnavailableError", "ScaleProfileUnavailableError",
       "ScaleProfileRequiresV2Error", "HTTPException"}
<1> DEFINE Family ==
      {"StateStoreUnavailableError", "DurableIdempotencyConflictError",
       "ReservationInProgressError", "StaleReservationError", "FailedReservationError",
       "StoredResponseIntegrityError"}
<1>1. DOMAIN Handlers = Listed /\ DOMAIN Parent = Family
  BY DEF Handlers, Parent
<1>2. \A c \in Family : Parent[c] = "DurableIdempotencyError"
  BY DEF Parent
<1>3. \A c \in Listed :
        /\ Handlers[c] \notin {200, 413}
        /\ Handlers[c] = 409 <=> c \in {"IdempotencyConflictError", "DurableIdempotencyConflictError"}
  BY DEF Handlers
<1>4. CASE class \in Listed
  <2>1. HandlerOf(class) = class
    BY <1>1, <1>4 DEF HandlerOf
  <2> QED
    BY <1>3, <1>4, <2>1 DEF CodeOf
<1>5. CASE class \in Family \ Listed
  <2>1. HandlerOf(class) = "DurableIdempotencyError" /\ CodeOf(class) = class
    BY <1>1, <1>2, <1>5 DEF HandlerOf, CodeOf
  <2> QED
    BY <1>3, <1>5, <2>1
<1>6. CASE class \notin Listed /\ class \notin Family
  BY <1>1, <1>6 DEF HandlerOf
<1> QED
  BY <1>4, <1>5, <1>6

LEMMA NameKeeps ==
  ASSUME IngressInvariant, NEW header, NEW posts \in BOOLEAN, NameRequest(header, posts)
  PROVE  IngressInvariant'
<1>1. /\ DOMAIN request' = IngressFields
      /\ request'.stage = IF posts THEN "buffering" ELSE "routed"
      /\ request'.header = header /\ request'.id = NameOf(header)
      /\ request'.sent = request.sent /\ request'.kept = request.kept
      /\ request'.seen = request.seen /\ request'.counted = request.counted
  BY DEF NameRequest, NameOf, IngressInvariant, RequestShape, IngressFields
<1>2. /\ request.seen = <<>> /\ request.kept = request.sent /\ request.sent \in Seq(Nat)
      /\ BodySize(request.sent) <= MaxBytes
      /\ BodySize(request.kept) <= MaxBytes /\ request.counted = <<>>
  BY DEF NameRequest, IngressInvariant, RequestShape, BodyIsKept
<1>3. request.seen \o request.sent = request.sent
  BY <1>2, ConcatEmptySeq
<1>4. RequestShape'
  BY <1>1 DEF IngressInvariant, RequestShape
<1>5. BodyIsKept'
  BY <1>1, <1>2, <1>3 DEF BodyIsKept
<1>6. NameIsKept'
  BY <1>1 DEF NameIsKept
<1>7. RequestsAreAccountedFor'
  BY <1>1, <1>2, <1>3 DEF RequestsAreAccountedFor
<1> QED
  BY <1>4, <1>5, <1>6, <1>7 DEF IngressInvariant

LEMMA BufferKeeps ==
  ASSUME IngressInvariant, NEW bytes \in Nat, NEW more \in BOOLEAN, Buffer(bytes, more)
  PROVE  IngressInvariant'
<1> DEFINE chunks == Append(request.sent, bytes)
           r == [request EXCEPT !.sent = chunks, !.kept = chunks]
<1>1. /\ request.stage = "buffering"
      /\ request.seen = <<>> /\ request.counted = <<>> /\ request.kept = request.sent
      /\ request.sent \in Seq(Nat) /\ BodySize(request.sent) <= MaxBytes
      /\ DOMAIN request = IngressFields
  BY DEF Buffer, IngressInvariant, RequestShape, BodyIsKept
<1>2. chunks \in Seq(Nat) /\ Front(chunks) = request.sent
  BY <1>1, FrontOfAppend
<1>3. BodySize(chunks) \in Nat /\ MaxBytes \in Nat
  BY <1>2, BodySizes, IngressAssumption
<1>4. CASE ~WithinLimit(chunks)
  <2>1. request' = Answered(r, 413, "request_too_large")
    BY <1>4 DEF Buffer
  <2>2. /\ DOMAIN r = IngressFields /\ r.header = request.header /\ r.id = request.id
        /\ r.seen = request.seen /\ r.counted = <<>> /\ r.sent = chunks /\ r.kept = chunks
    BY <1>1 DEF IngressFields
  <2> HIDE DEF chunks, r
  <2>3. /\ Ends(413, "request_too_large")
        /\ request'.sent = chunks /\ request'.kept = chunks
    BY <2>1, <2>2, AnsweredEnds
  <2>4. BodySize(chunks) > MaxBytes
    BY <1>3, <1>4 DEF WithinLimit
  <2> QED
    BY <1>1, <1>2, <2>3, <2>4, EndKeeps
<1>5. CASE WithinLimit(chunks)
  <2>1. request' = [request EXCEPT !.sent = chunks, !.kept = chunks,
                      !.stage = IF more THEN "buffering" ELSE "routed"]
    BY <1>5 DEF Buffer
  <2> HIDE DEF chunks
  <2>2. /\ DOMAIN request' = IngressFields
        /\ request'.stage \in {"buffering", "routed"}
        /\ request'.sent = chunks /\ request'.kept = chunks
        /\ request'.header = request.header /\ request'.id = request.id
        /\ request'.seen = request.seen /\ request'.counted = request.counted
    BY <1>1, <2>1 DEF IngressFields
  <2>3. request.seen \o chunks = chunks
    BY <1>1, <1>2, ConcatEmptySeq
  <2>4. BodySize(chunks) <= MaxBytes
    BY <1>5 DEF WithinLimit
  <2>5. RequestShape'
    BY <1>1, <1>2, <2>2 DEF IngressInvariant, RequestShape
  <2>6. BodyIsKept'
    BY <1>1, <2>2, <2>3, <2>4 DEF BodyIsKept
  <2>7. NameIsKept'
    BY <1>1, <2>2 DEF IngressInvariant, NameIsKept
  <2>8. RequestsAreAccountedFor'
    BY <2>2, <2>3, <2>4 DEF RequestsAreAccountedFor
  <2> QED
    BY <2>5, <2>6, <2>7, <2>8 DEF IngressInvariant
<1> QED
  BY <1>4, <1>5

LEMMA DisconnectKeeps ==
  ASSUME IngressInvariant, Disconnect
  PROVE  IngressInvariant'
<1>1. /\ request.stage = "buffering" /\ request.counted = <<>>
      /\ request.sent \in Seq(Nat) /\ request.kept \in Seq(Nat)
      /\ BodySize(request.sent) <= MaxBytes /\ BodySize(request.kept) <= MaxBytes
      /\ DOMAIN request = IngressFields /\ request' = Unhandled(request)
  BY DEF Disconnect, IngressInvariant, RequestShape, BodyIsKept
<1>2. Ends(500, "Exception") /\ request'.sent = request.sent /\ request'.kept = request.kept
  BY <1>1, UnhandledEnds
<1>3. ~(BodySize(request.sent) > MaxBytes)
  BY <1>1, BodySizes, IngressAssumption
<1> QED
  BY <1>1, <1>2, <1>3, EndKeeps

\* What is read and what waits are together what was sent.
LEMMA ReadMovesOne ==
  ASSUME NEW seen \in Seq(Nat), NEW kept \in Seq(Nat), kept # <<>>
  PROVE  /\ Tail(kept) \in Seq(Nat) /\ Append(seen, Head(kept)) \in Seq(Nat)
         /\ Append(seen, Head(kept)) \o Tail(kept) = seen \o kept
<1>1. Head(kept) \in Nat /\ Tail(kept) \in Seq(Nat)
  BY HeadTailProperties
<1>2. Append(seen, Head(kept)) = seen \o <<Head(kept)>>
  BY <1>1, AppendIsConcat
<1>3. Append(seen, Head(kept)) \in Seq(Nat)
  BY <1>1, AppendProperties
<1>4. <<Head(kept)>> \in Seq(Nat)
  BY <1>1
<1>5. <<Head(kept)>> \o Tail(kept) = kept
  OBVIOUS
<1>6. (seen \o <<Head(kept)>>) \o Tail(kept) = seen \o (<<Head(kept)>> \o Tail(kept))
  BY <1>1, <1>4, ConcatAssociative, SMTT(30)
<1> QED
  BY <1>1, <1>2, <1>3, <1>5, <1>6

LEMMA ReadKeeps ==
  ASSUME IngressInvariant, ReadBody
  PROVE  IngressInvariant'
<1> DEFINE kept == request.kept
           seen == request.seen
           rest == Tail(kept)
           next == Append(seen, Head(kept))
<1>1. /\ request.stage = "routed" /\ request.counted = <<>>
      /\ kept # <<>> /\ kept \in Seq(Nat) /\ seen \in Seq(Nat)
      /\ request.sent \in Seq(Nat) /\ seen \o kept = request.sent
      /\ BodySize(request.sent) <= MaxBytes /\ BodySize(kept) <= MaxBytes
      /\ DOMAIN request = IngressFields
  BY DEF ReadBody, IngressInvariant, RequestShape, BodyIsKept
<1>2. request' = [request EXCEPT !.seen = next, !.kept = rest]
  BY DEF ReadBody
<1>3. /\ rest \in Seq(Nat) /\ next \in Seq(Nat) /\ next \o rest = seen \o kept
      /\ BodySize(rest) <= MaxBytes
  BY <1>1, ReadMovesOne, TailIsSmaller
<1> HIDE DEF kept, seen, rest, next
<1>4. /\ DOMAIN request' = IngressFields /\ request'.stage = request.stage
      /\ request'.sent = request.sent /\ request'.kept = rest /\ request'.seen = next
      /\ request'.header = request.header /\ request'.id = request.id
      /\ request'.counted = request.counted
  BY <1>1, <1>2 DEF IngressFields
<1>5. RequestShape'
  BY <1>1, <1>3, <1>4 DEF RequestShape
<1>6. BodyIsKept'
  BY <1>1, <1>3, <1>4 DEF BodyIsKept
<1>7. NameIsKept'
  BY <1>1, <1>4 DEF IngressInvariant, NameIsKept
<1>8. RequestsAreAccountedFor'
  BY <1>1, <1>3, <1>4 DEF RequestsAreAccountedFor
<1> QED
  BY <1>5, <1>6, <1>7, <1>8 DEF IngressInvariant

\* A route that has its body ends the request.
LEMMA RouteKeeps ==
  ASSUME IngressInvariant, RouteAnswers \/ \E class \in Raised : RouteRaises(class)
  PROVE  IngressInvariant'
<1>1. /\ request.stage = "routed" /\ request.counted = <<>> /\ request.kept = <<>>
      /\ request.sent \in Seq(Nat) /\ request.kept \in Seq(Nat) /\ request.seen \in Seq(Nat)
      /\ request.seen \o request.kept = request.sent
      /\ BodySize(request.sent) <= MaxBytes /\ BodySize(request.kept) <= MaxBytes
      /\ DOMAIN request = IngressFields
  BY DEF RouteAnswers, RouteRaises, IngressInvariant, RequestShape, BodyIsKept
<1>2. request.seen = request.sent
  BY <1>1, ConcatEmptySeq
<1>3. ~(BodySize(request.sent) > MaxBytes)
  BY <1>1, BodySizes, IngressAssumption
<1>4. ASSUME NEW status, NEW code, Ends(status, code),
             request'.sent = request.sent, request'.kept = request.kept, status # 413,
             status = 409 <=> code = "IdempotencyConflictError"
      PROVE  IngressInvariant'
  BY <1>1, <1>2, <1>3, <1>4, EndKeeps
<1>5. CASE RouteAnswers
  <2>1. request' = Answered(request, 200, "none")
    BY <1>5 DEF RouteAnswers
  <2>2. Ends(200, "none") /\ request'.sent = request.sent /\ request'.kept = request.kept
    BY <1>1, <2>1, AnsweredEnds
  <2> QED
    BY <1>4, <2>2
<1>6. ASSUME NEW class \in Raised, RouteRaises(class)
      PROVE  IngressInvariant'
  <2> DEFINE status == Handlers[HandlerOf(class)]
             code == CodeOf(class)
  <2>1. CASE HandlerOf(class) = "Exception"
    <3>1. request' = Unhandled(request)
      BY <1>6, <2>1 DEF RouteRaises
    <3>2. Ends(500, "Exception") /\ request'.sent = request.sent /\ request'.kept = request.kept
      BY <1>1, <3>1, UnhandledEnds
    <3> QED
      BY <1>4, <3>2
  <2>2. CASE HandlerOf(class) # "Exception"
    <3>1. request' = Answered(request, status, code)
      BY <1>6, <2>2 DEF RouteRaises
    <3>2. /\ code # "Exception" /\ status # 413
          /\ status = 409 <=> code = "IdempotencyConflictError"
      BY <2>2, HandlersTell
    <3> HIDE DEF status, code
    <3>3. Ends(status, code) /\ request'.sent = request.sent /\ request'.kept = request.kept
      BY <1>1, <3>1, <3>2, AnsweredEnds
    <3> QED
      BY <1>4, <3>2, <3>3
  <2> QED
    BY <2>1, <2>2
<1> QED
  BY <1>5, <1>6

LEMMA IngressStart == IngressInit => IngressInvariant
<1> SUFFICES ASSUME IngressInit PROVE IngressInvariant
  OBVIOUS
<1>1. /\ DOMAIN request = IngressFields /\ request.stage = "sent"
      /\ request.sent = <<>> /\ request.kept = <<>> /\ request.seen = <<>>
      /\ request.counted = <<>>
  BY DEF IngressInit, IngressFields
<1>2. BodySize(<<>>) <= MaxBytes
  BY BodySizes, IngressAssumption
<1>3. RequestShape
  BY <1>1 DEF RequestShape
<1>4. BodyIsKept
  BY <1>1, <1>2 DEF BodyIsKept
<1>5. NameIsKept
  BY <1>1 DEF NameIsKept
<1>6. RequestsAreAccountedFor
  BY <1>1, <1>2 DEF RequestsAreAccountedFor
<1> QED
  BY <1>3, <1>4, <1>5, <1>6 DEF IngressInvariant

LEMMA IngressStep == IngressInvariant /\ [IngressNext]_request => IngressInvariant'
<1> SUFFICES ASSUME IngressInvariant, [IngressNext]_request PROVE IngressInvariant'
  OBVIOUS
<1>1. ASSUME NEW header \in Headers, NEW posts \in BOOLEAN, NameRequest(header, posts)
      PROVE  IngressInvariant'
  BY <1>1, NameKeeps
<1>2. ASSUME NEW bytes \in 0..(MaxBytes + 1), NEW more \in BOOLEAN, Buffer(bytes, more)
      PROVE  IngressInvariant'
  <2>1. bytes \in Nat
    BY IngressAssumption
  <2> QED
    BY <1>2, <2>1, BufferKeeps
<1>3. CASE Disconnect
  BY <1>3, DisconnectKeeps
<1>4. CASE ReadBody
  BY <1>4, ReadKeeps
<1>5. CASE RouteAnswers \/ \E class \in Raised : RouteRaises(class)
  BY <1>5, RouteKeeps
<1>6. CASE UNCHANGED request
  <2>1. RequestShape' /\ BodyIsKept' /\ NameIsKept'
    BY <1>6 DEF IngressInvariant, RequestShape, BodyIsKept, NameIsKept
  <2>2. RequestsAreAccountedFor'
    <3>1. request' = request /\ RequestsAreAccountedFor
      BY <1>6 DEF IngressInvariant
    <3>2. (BodySize(request.kept) <= MaxBytes \/ BodySize(Front(request.kept)) <= MaxBytes)'
      BY ONLY <3>1, Zenon DEF RequestsAreAccountedFor
    <3>3. (request.stage = "routed" =>
             request.seen \o request.kept = request.sent /\ BodySize(request.sent) <= MaxBytes)'
      BY ONLY <3>1, Zenon DEF RequestsAreAccountedFor
    <3>4. CASE request.stage = "ended"
      BY ONLY <3>1, <3>2, <3>3, <3>4, Zenon DEF RequestsAreAccountedFor
    <3>5. CASE request.stage # "ended"
      BY ONLY <3>1, <3>2, <3>3, <3>5, Zenon DEF RequestsAreAccountedFor
    <3> QED
      BY <3>4, <3>5
  <2> QED
    BY <2>1, <2>2 DEF IngressInvariant
<1> QED
  BY <1>1, <1>2, <1>3, <1>4, <1>5, <1>6 DEF IngressNext

\* However a body is cut, whoever goes away and whatever a route raises: the
\* route sees the whole body or does not run, only a body over the limit is
\* refused for its size, and the request that ended is counted once, with the
\* status of its answer, under its name.
THEOREM RequestsStayAccounted == IngressSpec => []RequestsAreAccountedFor
<1>1. IngressSpec => []IngressInvariant
  BY IngressStart, IngressStep, PTL DEF IngressSpec
<1>2. IngressInvariant => RequestsAreAccountedFor
  BY DEF IngressInvariant
<1> QED
  BY <1>1, <1>2, PTL

-----------------------------------------------------------------------------
(* EventStore: what the features of an event say depends on the events of the *)
(* day before it only.                                                        *)

LEMMA WindowsAreInTheLookBack ==
  ASSUME NEW S, NEW e, e.time \in Nat, \A x \in S : x.time \in Nat, NEW span \in {Minute, Hour, Day}
  PROVE  Window(S, e.time, span) = Window(LookBack(S, e), e.time, span)
<1>1. \A x \in S : e.time - span <= x.time => e.time - Day <= x.time
  BY DEF Minute, Hour, Day
<1> QED
  BY <1>1 DEF Window, LookBack

LEMMA EvidenceOfTheLookBack ==
  ASSUME NEW S, NEW T, NEW e, e.time \in Nat, \A x \in S \cup T : x.time \in Nat,
         LookBack(S, e) = LookBack(T, e)
  PROVE  Evidence(S, e) = Evidence(T, e)
<1>1. Window(S, e.time, Hour) = Window(T, e.time, Hour)
  BY WindowsAreInTheLookBack
<1>2. VelocityCounts(S, e) = VelocityCounts(T, e)
  BY DEF VelocityCounts
<1>3. VelocitySignals(S, e) = VelocitySignals(T, e)
  BY <1>2 DEF VelocitySignals
<1>4. RetryGroup(S, e) = RetryGroup(T, e) /\ AccountFailures(S, e) = AccountFailures(T, e)
  BY <1>1 DEF RetryGroup, AccountFailures
<1>5. RetrySignals(S, e) = RetrySignals(T, e)
  BY <1>4 DEF RetrySignals
<1>6. /\ \A field : IsNew(S, field, e) = IsNew(T, field, e)
      /\ \A field : FanOut(S, field, e) = FanOut(T, field, e)
  BY DEF IsNew, FanOut
<1>7. /\ DeviceSignals(S, e) = DeviceSignals(T, e)
      /\ AddressSignals(S, e) = AddressSignals(T, e)
      /\ PaymentMethodSignals(S, e) = PaymentMethodSignals(T, e)
      /\ GeographySignals(S, e) = GeographySignals(T, e)
  BY <1>6 DEF DeviceSignals, AddressSignals, PaymentMethodSignals, GeographySignals
<1>8. MerchantSignals(S, e) = MerchantSignals(T, e)
  BY <1>6 DEF MerchantSignals
<1>9. Baseline(S, e) = Baseline(T, e)
  BY DEF Baseline
<1>10. AmountSignals(S, e) = AmountSignals(T, e)
  BY <1>9 DEF AmountSignals
<1> QED
  BY <1>2, <1>3, <1>4, <1>5, <1>6, <1>7, <1>8, <1>9, <1>10 DEF Evidence

-----------------------------------------------------------------------------
(* EventStore: the invariant says what is held, against all that ever arrived. *)

Streams == {Stream(scenario, start, draw) : scenario \in Replayed, start \in Instants, draw \in Draws}

AllEvents == FreeEvents \cup UNION {{stream[i] : i \in DOMAIN stream} : stream \in Streams}

\* How the n-th arrival compares with those before it.
OrderingOf(n) ==
  IF \E j \in 1..(n - 1) : arrivals[j].time > arrivals[n].time THEN "late" ELSE "in_order"

EventsShape ==
  /\ clock \in Nat /\ clock \in Instants /\ watermark \in Int
  /\ arrivals \in Seq(AllEvents)
  /\ DOMAIN feed = {"scenario", "events"} /\ feed.events \in Seq(AllEvents)

\* A record stands for the last arrival of its id, and bears its ordering.
HeldIsLast ==
  \A r \in held :
    /\ r.at \in 1..Len(arrivals) /\ arrivals[r.at] = r.event
    /\ \A j \in 1..Len(arrivals) : arrivals[j].id = r.event.id => j <= r.at
    /\ r.ordering = OrderingOf(r.at)
    /\ r.event \notin dropped

\* What is not held was dropped for the capacity or is older than the retention.
NothingElseIsGone ==
  \A j \in 1..Len(arrivals) :
    \/ arrivals[j] \in dropped
    \/ \E r \in held : r.event = arrivals[j]
    \/ arrivals[j].time < clock - Retention

WatermarkIsHighest ==
  /\ \A j \in 1..Len(arrivals) : arrivals[j].time <= watermark
  /\ watermark # -1 => \E j \in 1..Len(arrivals) : arrivals[j].time = watermark

ResultIsHeld ==
  JustRecorded => \E r \in held : r.event = result.event /\ r.ordering = result.ordering

EventsInvariant ==
  EventsShape /\ HeldIsLast /\ NothingElseIsGone /\ WatermarkIsHighest /\ ResultIsHeld

\* What a scenario holds fixed is never the time of an event.
LEMMA TimeStays ==
  ASSUME NEW id, NEW time, NEW token, NEW amount, NEW fixed, NEW outcome
  PROVE  LET e == Ordinary(id, time, token, amount) IN
         /\ e.time = time
         /\ [e EXCEPT !.account = 0].time = time
         /\ [e EXCEPT !.address = 0].time = time
         /\ [e EXCEPT !.country = "US", !.vpn = TRUE].time = time
         /\ [e EXCEPT !.account = 0, !.device = 0, !.method = 0, !.group = "retry",
                      !.outcome = outcome].time = time
         /\ [e EXCEPT !.merchant = 0, !.outcome = outcome].time = time
<1> DEFINE e == Ordinary(id, time, token, amount)
<1>1. e.time = time /\ "time" \in DOMAIN e
  BY DEF Ordinary
<1> HIDE DEF e
<1>2. [e EXCEPT !.account = 0].time = time
  BY <1>1
<1>3. [e EXCEPT !.address = 0].time = time
  BY <1>1
<1>4. [e EXCEPT !.country = "US", !.vpn = TRUE].time = time
  BY <1>1
<1>5. [e EXCEPT !.account = 0, !.device = 0, !.method = 0, !.group = "retry",
                !.outcome = outcome].time = time
  BY <1>1
<1>6. [e EXCEPT !.merchant = 0, !.outcome = outcome].time = time
  BY <1>1
<1> QED
  BY <1>1, <1>2, <1>3, <1>4, <1>5, <1>6 DEF e

LEMMA FunctionIsASequence ==
  ASSUME NEW S, NEW n \in Nat, NEW f \in [1..n -> S]
  PROVE  f \in Seq(S) /\ Len(f) = n
<1>1. f \in Seq(S)
  BY SeqDef
<1>2. DOMAIN f = 1..n
  OBVIOUS
<1>3. DOMAIN f = 1..Len(f) /\ Len(f) \in Nat
  BY <1>1, LenProperties
<1> QED
  BY <1>1, <1>2, <1>3

\* A generated stream is a sequence of events with a time of their own.
IsStream(stream, n) ==
  /\ DOMAIN stream = 1..n /\ stream = [i \in 1..n |-> stream[i]]
  /\ \A i \in 1..n : stream[i].time \in Nat

LEMMA StreamsHaveTimes ==
  ASSUME NEW scenario \in Scenarios, NEW start \in Nat, NEW draw
  PROVE  \E n \in Nat :
           /\ Stream(scenario, start, draw) \in
                [1..n -> {Stream(scenario, start, draw)[i] : i \in 1..n}]
           /\ \A i \in 1..n : Stream(scenario, start, draw)[i].time \in Nat
<1>1. IsStream(Normal(start, draw), 3)
  <2> DEFINE e(i) == Ordinary(<<"normal", i>>, start + 30 * (i - 1), draw[i], 300)
  <2>1. Normal(start, draw) = [i \in 1..3 |-> e(i)]
    BY DEF Normal
  <2>2. \A i \in 1..3 : e(i).time \in Nat
    BY TimeStays
  <2> HIDE DEF e
  <2> QED
    BY <2>1, <2>2 DEF IsStream
<1>2. IsStream(DeviceBurst(start, draw), 6)
  <2> DEFINE e(i) == [Ordinary(<<"burst", i>>, start + 10 * (i - 1), draw[i], 300)
                       EXCEPT !.account = 0]
  <2>1. DeviceBurst(start, draw) = [i \in 1..6 |-> e(i)]
    BY DEF DeviceBurst
  <2>2. \A i \in 1..6 : e(i).time \in Nat
    BY TimeStays
  <2> HIDE DEF e
  <2> QED
    BY <2>1, <2>2 DEF IsStream
<1>3. IsStream(AddressFanOut(start, draw), 5)
  <2> DEFINE e(i) == [Ordinary(<<"fan_out", i>>, start + 5 * (i - 1), draw[i], 300)
                       EXCEPT !.address = 0]
  <2>1. AddressFanOut(start, draw) = [i \in 1..5 |-> e(i)]
    BY DEF AddressFanOut
  <2>2. \A i \in 1..5 : e(i).time \in Nat
    BY TimeStays
  <2> HIDE DEF e
  <2> QED
    BY <2>1, <2>2 DEF IsStream
<1>4. IsStream(VpnMismatch(start, draw), 4)
  <2> DEFINE e(i) == [Ordinary(<<"vpn", i>>, start + 30 * (i - 1), draw[i], 300)
                       EXCEPT !.country = "US", !.vpn = TRUE]
  <2>1. VpnMismatch(start, draw) = [i \in 1..4 |-> e(i)]
    BY DEF VpnMismatch
  <2>2. \A i \in 1..4 : e(i).time \in Nat
    BY TimeStays
  <2> HIDE DEF e
  <2> QED
    BY <2>1, <2>2 DEF IsStream
<1>5. IsStream(RetryStorm(start, draw), 5)
  <2> DEFINE e(i) == [Ordinary(<<"storm", i>>, start + 5 * (i - 1), draw[i], 300)
                       EXCEPT !.account = 0, !.device = 0, !.method = 0, !.group = "retry",
                              !.outcome = IF i = 5 THEN "success" ELSE "declined"]
  <2>1. RetryStorm(start, draw) = [i \in 1..5 |-> e(i)]
    BY DEF RetryStorm
  <2>2. \A i \in 1..5 : e(i).time \in Nat
    BY TimeStays
  <2> HIDE DEF e
  <2> QED
    BY <2>1, <2>2 DEF IsStream
<1>6. IsStream(UnusualAmount(start, draw), 4)
  <2> DEFINE modest(i) == IF draw[i] = 1 THEN 150 ELSE 450
             spike == (5 * (modest(1) + modest(2) + modest(3))) \div 3
             e(i) == [Ordinary(<<"unusual", i>>, start + 600 * (i - 1), draw[i],
                               IF i = 4 THEN spike ELSE modest(i))
                        EXCEPT !.account = 0]
  <2>1. UnusualAmount(start, draw) = [i \in 1..4 |-> e(i)]
    BY DEF UnusualAmount
  <2> HIDE DEF modest, spike
  <2>2. \A i \in 1..4 : e(i).time \in Nat
    BY TimeStays
  <2> HIDE DEF e
  <2> QED
    BY <2>1, <2>2 DEF IsStream
<1>7. IsStream(MerchantDeviation(start, draw), 7)
  <2> DEFINE e(i) == [Ordinary(<<"merchant", i>>, start + 60 * (i - 1), draw[i], 300)
                       EXCEPT !.merchant = 0,
                              !.outcome = IF i <= 5 THEN "declined" ELSE "success"]
  <2>1. MerchantDeviation(start, draw) = [i \in 1..7 |-> e(i)]
    BY DEF MerchantDeviation
  <2>2. \A i \in 1..7 : e(i).time \in Nat
    BY TimeStays
  <2> HIDE DEF e
  <2> QED
    BY <2>1, <2>2 DEF IsStream
<1>8. IsStream(DuplicateStream(start, draw), 4)
  <2> DEFINE base == [i \in 1..3 |-> Ordinary(<<"duplicate", i>>, start + 20 * (i - 1), draw[i], 300)]
             S == {base[1], base[2], base[3]}
  <2>1. base \in [1..3 -> S] /\ \A i \in 1..3 : base[i].time \in Nat
    BY TimeStays
  <2>2. DuplicateStream(start, draw) = Append(base, base[1])
    BY DEF DuplicateStream
  <2> HIDE DEF base, S
  <2>3. base \in Seq(S) /\ Len(base) = 3
    BY <2>1, FunctionIsASequence
  <2>4. base[1] \in S
    BY <2>1
  <2> DEFINE x == base[1]
             stream == Append(base, x)
  <2> HIDE DEF x
  <2>5. /\ stream \in Seq(S) /\ Len(stream) = 4
        /\ \A i \in 1..3 : stream[i] = base[i]
        /\ stream[4] = base[1]
    <3>1. x \in S
      BY <2>4 DEF x
    <3>2. stream = Append(base, x)
      OBVIOUS
    <3> HIDE DEF stream
    <3>3. /\ stream \in Seq(S) /\ Len(stream) = Len(base) + 1
          /\ \A i \in DOMAIN base : stream[i] = base[i]
          /\ stream[Len(base) + 1] = x
      BY <2>3, <3>1, <3>2, Extended
    <3>4. DOMAIN base = 1..3
      BY <2>1
    <3> QED
      BY <2>3, <3>3, <3>4 DEF x
  <2> HIDE DEF stream
  <2>6. DOMAIN stream = 1..4 /\ stream = [i \in 1..4 |-> stream[i]]
    BY <2>5
  <2>7. \A i \in 1..4 : i \in 1..3 \/ i = 4
    OBVIOUS
  <2>8. \A i \in 1..4 : stream[i].time \in Nat
    BY <2>1, <2>5, <2>7
  <2> QED
    BY <2>2, <2>6, <2>8 DEF stream, x, IsStream
<1>9. IsStream(OutOfOrder(start, draw), 4)
  <2> DEFINE e(i) == Ordinary(<<"out_of_order", i>>, start + <<0, 120, 30, 150>>[i], draw[i], 300)
  <2>1. OutOfOrder(start, draw) = [i \in 1..4 |-> e(i)]
    BY DEF OutOfOrder
  <2>2. \A i \in 1..4 : e(i).time \in Nat
    BY TimeStays
  <2> HIDE DEF e
  <2> QED
    BY <2>1, <2>2 DEF IsStream
<1> DEFINE stream == Stream(scenario, start, draw)
<1>10. \E n \in {3, 4, 5, 6, 7} : IsStream(stream, n)
  BY <1>1, <1>2, <1>3, <1>4, <1>5, <1>6, <1>7, <1>8, <1>9 DEF Stream, Scenarios
<1> HIDE DEF stream
<1>11. PICK n \in {3, 4, 5, 6, 7} : IsStream(stream, n)
  BY <1>10
<1>12. n \in Nat /\ stream \in [1..n -> {stream[i] : i \in 1..n}] /\ \A i \in 1..n : stream[i].time \in Nat
  BY <1>11 DEF IsStream
<1> QED
  BY <1>12 DEF stream

LEMMA StreamsAreOfEvents ==
  ASSUME NEW scenario \in Replayed, NEW start \in Instants, NEW draw \in Draws
  PROVE  /\ Stream(scenario, start, draw) \in Seq(AllEvents)
         /\ \A i \in DOMAIN Stream(scenario, start, draw) :
              Stream(scenario, start, draw)[i].time \in Nat
<1> DEFINE stream == Stream(scenario, start, draw)
           S == {stream[i] : i \in DOMAIN stream}
<1>1. stream \in Streams
  BY DEF Streams
<1>2. scenario \in Scenarios /\ start \in Nat
  BY EventStoreAssumption
<1>3. PICK n \in Nat : /\ stream \in [1..n -> {stream[i] : i \in 1..n}]
                       /\ \A i \in 1..n : stream[i].time \in Nat
  BY <1>2, StreamsHaveTimes
<1> HIDE DEF stream
<1>4. DOMAIN stream = 1..n
  BY <1>3
<1>5. \A i \in 1..n : stream[i] \in AllEvents
  BY <1>1, <1>4 DEF AllEvents
<1>6. stream \in [1..n -> AllEvents]
  BY <1>3, <1>5
<1>7. stream \in Seq(AllEvents)
  BY <1>6, FunctionIsASequence
<1> QED
  BY <1>3, <1>4, <1>7 DEF stream

LEMMA EventsHaveTimes ==
  ASSUME NEW e \in AllEvents
  PROVE  e.time \in Nat
<1>1. CASE e \in FreeEvents
  BY <1>1, EventStoreAssumption
<1>2. ASSUME NEW stream \in Streams, NEW i \in DOMAIN stream, e = stream[i]
      PROVE  e.time \in Nat
  <2>1. PICK scenario \in Replayed, start \in Instants, draw \in Draws :
          stream = Stream(scenario, start, draw)
    BY DEF Streams
  <2> QED
    BY <1>2, <2>1, StreamsAreOfEvents
<1> QED
  BY <1>1, <1>2 DEF AllEvents

\* After the eviction the store lacks what was dropped and what is too old only.
LEMMA EvictionLeaves ==
  ASSUME EventsInvariant
  PROVE  /\ AfterEviction \subseteq held
         /\ \A j \in 1..Len(arrivals) :
              \/ arrivals[j] \in dropped
              \/ \E r \in AfterEviction : r.event = arrivals[j]
              \/ arrivals[j].time < clock - Retention
<1>1. AfterEviction \subseteq held
  BY DEF AfterEviction
<1>2. ASSUME NEW j \in 1..Len(arrivals), NEW r \in held, r.event = arrivals[j]
      PROVE  r \in AfterEviction \/ arrivals[j].time < clock - Retention
  <2>1. arrivals[j] \in AllEvents
    BY DEF EventsInvariant, EventsShape
  <2>2. arrivals[j].time \in Nat /\ clock \in Nat /\ Retention \in Nat
    BY <2>1, EventsHaveTimes, EventStoreAssumption DEF EventsInvariant, EventsShape
  <2> QED
    BY <1>2, <2>2 DEF AfterEviction, KeptByRetention
<1> QED
  BY <1>1, <1>2 DEF EventsInvariant, NothingElseIsGone

\* An event that is recorded as new: it is held from then on, under the ordering
\* that the watermark gives it, and who goes for it is the oldest.
LEMMA NewKeeps ==
  ASSUME EventsInvariant, NEW e \in AllEvents, RecordNew(e, AfterEviction), clock' = clock,
         DOMAIN feed' = {"scenario", "events"}, feed'.events \in Seq(AllEvents)
  PROVE  EventsInvariant'
<1>0. PICK n : n = Len(arrivals) + 1
  OBVIOUS
<1> DEFINE kept == AfterEviction
           new  == [event |-> e, ordering |-> Ordering(e), at |-> n]
           all  == kept \cup {new}
           out  == Overflow(all)
<1>1. /\ Existing(kept, e) = {} /\ held' = all \ out
      /\ watermark' = IF e.time > watermark THEN e.time ELSE watermark
      /\ result' = [status |-> "new", ordering |-> Ordering(e), event |-> e]
      /\ arrivals' = Append(arrivals, e)
      /\ dropped' = (dropped \ {e}) \cup {r.event : r \in out}
  BY <1>0 DEF RecordNew
<1>2. new.event = e /\ new.ordering = Ordering(e) /\ new.at = n
  OBVIOUS
<1>3. /\ clock \in Nat /\ clock \in Instants /\ watermark \in Int
      /\ arrivals \in Seq(AllEvents) /\ Len(arrivals) \in Nat /\ n = Len(arrivals) + 1
      /\ DOMAIN arrivals = 1..Len(arrivals)
      /\ \A j \in 1..Len(arrivals) : arrivals[j] \in AllEvents
  BY <1>0 DEF EventsInvariant, EventsShape
<1>4. /\ e.time \in Nat /\ \A j \in 1..Len(arrivals) : arrivals[j].time \in Nat
  BY <1>3, EventsHaveTimes
<1>5. /\ arrivals' \in Seq(AllEvents) /\ Len(arrivals') = n
      /\ \A j \in 1..Len(arrivals) : arrivals'[j] = arrivals[j]
      /\ arrivals'[n] = e
  BY <1>1, <1>3, Extended
<1>6. /\ \A r \in kept : r \in held
      /\ \A j \in 1..Len(arrivals) :
           \/ arrivals[j] \in dropped
           \/ \E r \in kept : r.event = arrivals[j]
           \/ arrivals[j].time < clock - Retention
  BY EvictionLeaves
<1>7. \A r \in kept : r.event.id # e.id
  BY <1>1 DEF Existing
<1> HIDE DEF kept
<1>8. \A r \in kept : r.at \in 1..Len(arrivals) /\ arrivals[r.at] = r.event
                      /\ r.ordering = OrderingOf(r.at) /\ r.event \notin dropped
                      /\ \A j \in 1..Len(arrivals) : arrivals[j].id = r.event.id => j <= r.at
  BY <1>6 DEF EventsInvariant, HeldIsLast
\* The newest is never the one that goes.
<1>9. new \notin out
  <2>1. {q \in all : q.at >= new.at} = {new}
    <3>1. \A r \in kept : ~(r.at >= n)
      BY <1>3, <1>8
    <3>2. n >= n
      BY <1>3
    <3> HIDE DEF new
    <3> QED
      BY <1>2, <3>1, <3>2
  <2> DEFINE newer == {q \in all : q.at >= new.at}
  <2> HIDE DEF new, all
  <2>2. Cardinality({new}) = 1
    BY FS_Singleton
  <2>3. 1 <= MaxEvents /\ MaxEvents \in Nat
    BY EventStoreAssumption
  <2>4. Cardinality(newer) = 1
    BY <2>1, <2>2
  <2>5. new \in out => Cardinality(newer) > MaxEvents
    BY DEF Overflow
  <2> HIDE DEF newer
  <2> QED
    BY <2>3, <2>4, <2>5
\* No record of a dropped event is left.
<1>10. \A r \in all \ out, q \in out : r.event # q.event
  <2> SUFFICES ASSUME NEW r \in all, NEW q \in all, q \in out, r.event = q.event
               PROVE  r \in out
    BY DEF Overflow
  <2>1. CASE r = new \/ q = new
    <3>1. r = new /\ q = new
      BY <1>2, <1>7, <2>1
    <3> QED
      BY <3>1, <1>9
  <2>2. CASE r \in kept /\ q \in kept
    <3>1. r.at = q.at
      BY <1>3, <1>8, <2>2
    <3> QED
      BY <3>1 DEF Overflow
  <2> QED
    BY <2>1, <2>2
<1> HIDE DEF new, out
<1>11. new \in held' /\ \A r \in held' : r \in all /\ r \notin out
  BY <1>1, <1>9
<1>12. \A j \in 1..n : j \in 1..Len(arrivals) \/ j = n
  BY <1>3
\* Earlier orderings stay, and the watermark gives the new one.
<1>13. \A j \in 1..Len(arrivals) : OrderingOf(j)' = OrderingOf(j)
  <2> TAKE j \in 1..Len(arrivals)
  <2>1. \A i \in 1..(j - 1) : i \in 1..Len(arrivals)
    BY <1>3
  <2>2. \A i \in 1..(j - 1) : arrivals'[i] = arrivals[i]
    BY <1>5, <2>1
  <2>3. arrivals'[j] = arrivals[j]
    BY <1>5
  <2> QED
    BY <2>2, <2>3 DEF OrderingOf
<1>14. OrderingOf(n)' = Ordering(e)
  <2>1. n - 1 = Len(arrivals)
    BY <1>3
  <2>2. OrderingOf(n)' = IF \E j \in 1..Len(arrivals) : arrivals[j].time > e.time
                         THEN "late" ELSE "in_order"
    <3> QED
      BY <1>5, <2>1 DEF OrderingOf
  <2>3. e.time < watermark <=> \E j \in 1..Len(arrivals) : arrivals[j].time > e.time
    <3>1. /\ \A j \in 1..Len(arrivals) : arrivals[j].time <= watermark
          /\ watermark # -1 => \E j \in 1..Len(arrivals) : arrivals[j].time = watermark
      BY DEF EventsInvariant, WatermarkIsHighest
    <3> QED
      BY <1>3, <1>4, <3>1
  <2> QED
    BY <2>2, <2>3 DEF Ordering
<1>15. EventsShape'
  BY <1>1, <1>3, <1>4, <1>5 DEF EventsShape
<1>16. HeldIsLast'
  <2> SUFFICES ASSUME NEW r \in held'
               PROVE  /\ r.at \in 1..Len(arrivals') /\ arrivals'[r.at] = r.event
                      /\ \A j \in 1..Len(arrivals') : arrivals'[j].id = r.event.id => j <= r.at
                      /\ r.ordering = OrderingOf(r.at)'
                      /\ r.event \notin dropped'
    BY DEF HeldIsLast
  <2>1. CASE r = new
    <3>1. r.at = n /\ r.event = e /\ r.ordering = Ordering(e)
      BY <1>2, <2>1
    <3>2. r.event \notin dropped'
      BY <1>1, <1>10, <1>11, <3>1
    <3>3. n \in 1..n /\ \A j \in 1..n : j <= n
      BY <1>3
    <3> QED
      BY <1>5, <1>14, <3>1, <3>2, <3>3
  <2>2. CASE r \in kept
    <3>1. r.at \in 1..Len(arrivals) /\ arrivals[r.at] = r.event
          /\ r.ordering = OrderingOf(r.at) /\ r.event \notin dropped
          /\ \A j \in 1..Len(arrivals) : arrivals[j].id = r.event.id => j <= r.at
      BY <1>8, <2>2
    <3>2. r.event \notin dropped'
      BY <1>1, <1>10, <1>11, <3>1
    <3>3. r.at \in 1..n
      BY <1>3, <3>1
    <3>4. \A j \in 1..n : arrivals'[j].id = r.event.id => j <= r.at
      BY <1>5, <1>7, <1>12, <2>2, <3>1
    <3> QED
      BY <1>5, <1>13, <3>1, <3>2, <3>3, <3>4
  <2> QED
    BY <1>11, <2>1, <2>2
<1>17. NothingElseIsGone'
  <2> SUFFICES ASSUME NEW j \in 1..n
               PROVE  \/ arrivals'[j] \in dropped'
                      \/ \E r \in held' : r.event = arrivals'[j]
                      \/ arrivals'[j].time < clock' - Retention
    BY <1>5 DEF NothingElseIsGone
  <2>1. CASE arrivals'[j] = e
    BY <1>2, <1>11, <2>1
  <2>2. CASE j \in 1..Len(arrivals) /\ arrivals'[j] # e
    <3>1. arrivals'[j] = arrivals[j]
      BY <1>5, <2>2
    <3>2. CASE arrivals[j] \in dropped
      BY <1>1, <2>2, <3>1, <3>2
    <3>3. ASSUME NEW r \in kept, r.event = arrivals[j]
          PROVE  arrivals'[j] \in dropped' \/ r \in held'
      BY <1>1, <3>1, <3>3
    <3>4. CASE arrivals[j].time < clock - Retention
      BY <3>1, <3>4
    <3> QED
      BY <1>6, <2>2, <3>1, <3>2, <3>3, <3>4
  <2> QED
    BY <1>5, <1>12, <2>1, <2>2
<1>18. WatermarkIsHighest'
  <2>1. /\ \A j \in 1..Len(arrivals) : arrivals[j].time <= watermark
        /\ watermark # -1 => \E j \in 1..Len(arrivals) : arrivals[j].time = watermark
    BY DEF EventsInvariant, WatermarkIsHighest
  <2>2. \A j \in 1..n : arrivals'[j].time <= watermark'
    <3>1. \A j \in 1..Len(arrivals) : arrivals'[j].time <= watermark'
      BY <1>1, <1>3, <1>4, <1>5, <2>1
    <3>2. arrivals'[n].time <= watermark'
      BY <1>1, <1>3, <1>4, <1>5
    <3> QED
      BY <1>12, <3>1, <3>2
  <2>3. watermark' # -1 => \E j \in 1..n : arrivals'[j].time = watermark'
    <3>1. CASE e.time > watermark
      <4>1. arrivals'[n].time = watermark' /\ n \in 1..n
        BY <1>1, <1>3, <1>5, <3>1
      <4> QED
        BY <4>1
    <3>2. CASE ~(e.time > watermark)
      <4>1. watermark' = watermark /\ \A j \in 1..Len(arrivals) : j \in 1..n
        BY <1>1, <1>3, <3>2
      <4> QED
        BY <1>5, <2>1, <4>1
    <3> QED
      BY <3>1, <3>2
  <2> QED
    BY <1>5, <2>2, <2>3 DEF WatermarkIsHighest
<1>19. ResultIsHeld'
  <2>1. result'.event = e /\ result'.ordering = Ordering(e)
    BY <1>1
  <2> QED
    BY <1>2, <1>11, <2>1 DEF ResultIsHeld
<1> QED
  BY <1>15, <1>16, <1>17, <1>18, <1>19 DEF EventsInvariant

\* An event that is not new leaves the store as the eviction left it.
LEMMA OldKeeps ==
  ASSUME EventsInvariant, held' = AfterEviction, UNCHANGED <<clock, watermark, arrivals, dropped>>,
         DOMAIN feed' = {"scenario", "events"}, feed'.events \in Seq(AllEvents),
         JustRecorded' => \E r \in held' : r.event = result'.event /\ r.ordering = result'.ordering
  PROVE  EventsInvariant'
<1>1. /\ \A r \in held' : r \in held
      /\ \A j \in 1..Len(arrivals) :
           \/ arrivals[j] \in dropped
           \/ \E r \in held' : r.event = arrivals[j]
           \/ arrivals[j].time < clock - Retention
  BY EvictionLeaves
<1>2. EventsShape'
  BY DEF EventsInvariant, EventsShape
<1>3. \A j : OrderingOf(j)' = OrderingOf(j)
  BY DEF OrderingOf
<1>4. HeldIsLast'
  BY <1>1, <1>3 DEF EventsInvariant, HeldIsLast
<1>5. NothingElseIsGone'
  BY <1>1 DEF NothingElseIsGone
<1>6. WatermarkIsHighest'
  BY DEF EventsInvariant, WatermarkIsHighest
<1> QED
  BY <1>2, <1>4, <1>5, <1>6 DEF EventsInvariant, ResultIsHeld

LEMMA RecordKeeps ==
  ASSUME EventsInvariant, NEW e \in AllEvents, Record(e), clock' = clock,
         DOMAIN feed' = {"scenario", "events"}, feed'.events \in Seq(AllEvents)
  PROVE  EventsInvariant'
<1>1. CASE RecordNew(e, AfterEviction)
  BY <1>1, NewKeeps
<1>2. CASE RecordDuplicate(e, AfterEviction)
  <2>1. PICK first \in Existing(AfterEviction, e) :
          /\ first.event = e
          /\ result' = [status |-> "duplicate", ordering |-> StoredOrdering(first, e), event |-> e]
    BY <1>2 DEF RecordDuplicate
  <2>2. first \in AfterEviction /\ result'.event = e /\ result'.ordering = first.ordering
    BY <2>1 DEF Existing, StoredOrdering
  <2>3. held' = AfterEviction /\ UNCHANGED <<watermark, arrivals, dropped>>
    BY <1>2 DEF RecordDuplicate
  <2> QED
    BY <2>1, <2>2, <2>3, OldKeeps
<1>3. CASE RecordConflict(e, AfterEviction)
  <2>1. held' = AfterEviction /\ UNCHANGED <<watermark, arrivals, dropped>>
    BY <1>3 DEF RecordConflict
  <2>2. result'.status = "conflict"
    BY <1>3 DEF RecordConflict
  <2>3. ~JustRecorded'
    BY <2>2 DEF JustRecorded
  <2> QED
    BY <2>1, <2>3, OldKeeps
<1> QED
  BY <1>1, <1>2, <1>3 DEF Record

\* A step that records nothing: the clock may advance, a stream may be there.
LEMMA IdleKeeps ==
  ASSUME EventsInvariant, UNCHANGED <<held, watermark, arrivals, dropped>>,
         clock' \in Instants, clock' >= clock, result' = result \/ result' = NoResult,
         DOMAIN feed' = {"scenario", "events"}, feed'.events \in Seq(AllEvents)
  PROVE  EventsInvariant'
<1>1. clock \in Nat /\ clock' \in Nat /\ Retention \in Nat
  BY EventStoreAssumption DEF EventsInvariant, EventsShape
<1>2. EventsShape'
  BY <1>1 DEF EventsInvariant, EventsShape
<1>3. \A j : OrderingOf(j)' = OrderingOf(j)
  BY DEF OrderingOf
<1>4. HeldIsLast'
  BY <1>3 DEF EventsInvariant, HeldIsLast
<1>5. NothingElseIsGone'
  <2>1. \A j \in 1..Len(arrivals) : arrivals[j].time \in Nat
    BY EventsHaveTimes DEF EventsInvariant, EventsShape
  <2>2. \A j \in 1..Len(arrivals) :
          arrivals[j].time < clock - Retention => arrivals[j].time < clock' - Retention
    BY <1>1, <2>1
  <2> QED
    BY <2>2 DEF EventsInvariant, NothingElseIsGone
<1>6. WatermarkIsHighest'
  BY DEF EventsInvariant, WatermarkIsHighest
<1>7. ResultIsHeld'
  <2>1. CASE result' = result
    BY <2>1 DEF EventsInvariant, ResultIsHeld, JustRecorded
  <2>2. CASE result' = NoResult
    BY <2>2 DEF ResultIsHeld, JustRecorded, NoResult
  <2> QED
    BY <2>1, <2>2
<1> QED
  BY <1>2, <1>4, <1>5, <1>6, <1>7 DEF EventsInvariant

\* A store without a record.
LEMMA EmptyHolds ==
  ASSUME clock \in Instants, held = {}, watermark = -1, arrivals = <<>>, result = NoResult, feed = NoFeed
  PROVE  EventsInvariant
<1>1. clock \in Nat
  BY EventStoreAssumption
<1>2. arrivals \in Seq(AllEvents) /\ Len(arrivals) = 0
  OBVIOUS
<1>3. DOMAIN feed = {"scenario", "events"} /\ feed.events \in Seq(AllEvents)
  BY DEF NoFeed
<1>4. EventsShape
  BY <1>1, <1>2, <1>3 DEF EventsShape
<1>5. HeldIsLast
  BY DEF HeldIsLast
<1>6. NothingElseIsGone /\ WatermarkIsHighest
  BY <1>2 DEF NothingElseIsGone, WatermarkIsHighest
<1>7. ResultIsHeld
  BY DEF ResultIsHeld, JustRecorded, NoResult
<1> QED
  BY <1>4, <1>5, <1>6, <1>7 DEF EventsInvariant

LEMMA EventsStart == EventsInit => EventsInvariant
BY EmptyHolds, EventStoreAssumption DEF EventsInit

LEMMA EventsStep == EventsInvariant /\ [EventsNext]_eventVars => EventsInvariant'
<1> SUFFICES ASSUME EventsInvariant, [EventsNext]_eventVars PROVE EventsInvariant'
  OBVIOUS
<1>0. /\ clock \in Nat /\ clock \in Instants
      /\ DOMAIN feed = {"scenario", "events"} /\ feed.events \in Seq(AllEvents)
  BY DEF EventsInvariant, EventsShape
<1>1. ASSUME NEW e \in FreeEvents, Submit(e)
      PROVE  EventsInvariant'
  <2>1. e \in AllEvents /\ Record(e) /\ clock' = clock /\ feed' = feed
    BY <1>1 DEF Submit, AllEvents
  <2> QED
    BY <1>0, <2>1, RecordKeeps
<1>2. ASSUME NEW scenario \in Replayed, NEW draw \in Draws, Generate(scenario, draw)
      PROVE  EventsInvariant'
  <2> DEFINE stream == Stream(scenario, clock, draw)
  <2>1. stream \in Seq(AllEvents)
    BY <1>0, StreamsAreOfEvents
  <2>2. feed' = [scenario |-> scenario, events |-> stream]
        /\ UNCHANGED <<clock, held, watermark, result, arrivals, dropped>>
    BY <1>2 DEF Generate
  <2> HIDE DEF stream
  <2>3. DOMAIN feed' = {"scenario", "events"} /\ feed'.events \in Seq(AllEvents)
    BY <2>1, <2>2
  <2> QED
    BY <1>0, <2>2, <2>3, IdleKeeps
<1>3. CASE Replay
  <2>1. feed.events # <<>> /\ Record(Head(feed.events)) /\ clock' = clock
        /\ feed' = [feed EXCEPT !.events = Tail(feed.events)]
    BY <1>3 DEF Replay
  <2>2. Head(feed.events) \in AllEvents /\ Tail(feed.events) \in Seq(AllEvents)
    BY <1>0, <2>1, HeadTailProperties
  <2>3. DOMAIN feed' = {"scenario", "events"} /\ feed'.events \in Seq(AllEvents)
    BY <1>0, <2>1, <2>2
  <2> QED
    BY <2>1, <2>2, <2>3, RecordKeeps
<1>4. ASSUME NEW t \in Instants, AdvanceClock(t)
      PROVE  EventsInvariant'
  <2>1. t \in Nat
    BY EventStoreAssumption
  <2>2. clock' = t /\ t > clock /\ result' = NoResult /\ feed' = feed
        /\ UNCHANGED <<held, watermark, arrivals, dropped>>
    BY <1>4 DEF AdvanceClock
  <2> QED
    BY <1>0, <2>1, <2>2, IdleKeeps
<1>5. CASE Reset
  <2>1. /\ clock' \in Instants /\ held' = {} /\ watermark' = -1 /\ arrivals' = <<>>
        /\ result' = NoResult /\ feed' = NoFeed
    BY <1>0, <1>5 DEF Reset
  <2>2. (clock \in Instants /\ held = {} /\ watermark = -1 /\ arrivals = <<>> /\ result = NoResult
           /\ feed = NoFeed)'
    BY <2>1 DEF NoResult, NoFeed
  <2>3. (clock \in Instants /\ held = {} /\ watermark = -1 /\ arrivals = <<>> /\ result = NoResult
           /\ feed = NoFeed => EventsInvariant)'
    BY EmptyHolds, PTL
  <2> QED
    BY <2>2, <2>3
<1>6. CASE UNCHANGED eventVars
  <2>1. UNCHANGED <<clock, held, watermark, result, feed, arrivals, dropped>>
    BY <1>6 DEF eventVars
  <2> QED
    BY <1>0, <2>1, IdleKeeps
<1> QED
  BY <1>1, <1>2, <1>3, <1>4, <1>5, <1>6 DEF EventsNext

-----------------------------------------------------------------------------
(* EventStore: what it reports *)

LEMMA OrderingIsRight ==
  ASSUME EventsInvariant
  PROVE  OrderingIsOfFirstArrival
<1> SUFFICES ASSUME JustRecorded PROVE OrderingIsOfFirstArrival
  BY DEF OrderingIsOfFirstArrival
<1>1. PICK r \in held : r.event = result.event /\ r.ordering = result.ordering
  BY DEF EventsInvariant, ResultIsHeld
<1>2. /\ r.at \in 1..Len(arrivals) /\ arrivals[r.at] = r.event
      /\ \A j \in 1..Len(arrivals) : arrivals[j].id = r.event.id => j <= r.at
      /\ r.ordering = OrderingOf(r.at)
  BY DEF EventsInvariant, HeldIsLast
<1>3. DOMAIN arrivals = 1..Len(arrivals) /\ Len(arrivals) \in Nat
  BY DEF EventsInvariant, EventsShape
<1> DEFINE IsLast(i) == /\ arrivals[i] = result.event
                        /\ \A j \in DOMAIN arrivals : arrivals[j] = result.event => j <= i
           last == CHOOSE i \in DOMAIN arrivals : IsLast(i)
<1>4. r.at \in DOMAIN arrivals /\ IsLast(r.at)
  BY <1>1, <1>2, <1>3
<1>5. last \in DOMAIN arrivals /\ IsLast(last)
  BY <1>4
<1>6. last = r.at
  <2> HIDE DEF last
  <2>1. last <= r.at /\ r.at <= last
    BY <1>4, <1>5
  <2> QED
    BY <1>3, <1>4, <1>5, <2>1
<1>7. result.ordering = IF \E j \in 1..(last - 1) : arrivals[j].time > result.event.time
                        THEN "late" ELSE "in_order"
  <2> HIDE DEF last
  <2> QED
    BY <1>1, <1>2, <1>6 DEF OrderingOf
<1> QED
  BY <1>7 DEF OrderingIsOfFirstArrival

LEMMA FeaturesAreRight ==
  ASSUME EventsInvariant, Retention >= Day
  PROVE  FreshFeaturesExact
<1> SUFFICES ASSUME JustRecorded, result.event.time >= clock
             PROVE  Evidence(HeldEvents, result.event) = Evidence(History, result.event)
  BY DEF FreshFeaturesExact
<1> DEFINE e == result.event
<1>1. \A r \in held : r.at \in 1..Len(arrivals) /\ arrivals[r.at] = r.event /\ r.event \notin dropped
  BY DEF EventsInvariant, HeldIsLast
<1>2. /\ DOMAIN arrivals = 1..Len(arrivals)
      /\ \A j \in 1..Len(arrivals) : arrivals[j].time \in Nat
  BY EventsHaveTimes DEF EventsInvariant, EventsShape
<1>3. clock \in Nat /\ Retention \in Nat /\ Day \in Nat
  BY EventStoreAssumption DEF EventsInvariant, EventsShape, Day
<1>4. \A x : x \in HeldEvents => x \in History
  BY <1>1, <1>2 DEF HeldEvents, History, ToSet
<1>5. \A x \in History : \E j \in 1..Len(arrivals) : x = arrivals[j] /\ x \notin dropped
  BY <1>2 DEF History, ToSet
<1>6. \A x \in History : x.time \in Nat
  BY <1>2, <1>5
<1>7. e \in HeldEvents
  BY DEF EventsInvariant, ResultIsHeld, HeldEvents
<1>8. e.time \in Nat
  BY <1>4, <1>6, <1>7
<1>9. \A x \in History : x \in HeldEvents \/ x.time < clock - Retention
  <2> SUFFICES ASSUME NEW x \in History PROVE x \in HeldEvents \/ x.time < clock - Retention
    OBVIOUS
  <2>1. PICK j \in 1..Len(arrivals) : x = arrivals[j] /\ x \notin dropped
    BY <1>5
  <2> QED
    BY <2>1 DEF EventsInvariant, NothingElseIsGone, HeldEvents
<1> HIDE DEF e
<1>10. LookBack(HeldEvents, e) = LookBack(History, e)
  <2>1. \A x \in History : e.time - Day <= x.time => x \in HeldEvents
    <3> SUFFICES ASSUME NEW x \in History, e.time - Day <= x.time, x.time < clock - Retention
                 PROVE  FALSE
      BY <1>9
    <3>1. e.time >= clock
      BY DEF e
    <3> QED
      BY <1>3, <1>6, <1>8, <3>1
  <2> QED
    BY <1>4, <2>1 DEF LookBack, Window
<1> QED
  BY <1>4, <1>6, <1>8, <1>10, EvidenceOfTheLookBack DEF e

\* With a retention no shorter than the longest window (as is the default), and
\* for any events, order of arrival, capacity and clock: what the store reports
\* of an event that is not behind the clock is what its whole history says, and
\* the ordering it reports is that of the event's first arrival.
THEOREM ReportsAreExact ==
  ASSUME Retention >= Day
  PROVE  EventsSpec => []ReportedIsExact
<1>1. EventsSpec => []EventsInvariant
  BY EventsStart, EventsStep, PTL DEF EventsSpec
<1>2. EventsInvariant => ReportedIsExact
  BY OrderingIsRight, FeaturesAreRight DEF ReportedIsExact
<1> QED
  BY <1>1, <1>2, PTL

-----------------------------------------------------------------------------
(* EventStore: what a replayed scenario shows.  A replay invariant ties the store to the stream
   it is fed with: the arrivals are the first events of the stream, all of them are held, and
   the rest is to come. *)

Fields == {"id", "time", "account", "device", "method", "merchant", "address", "ip", "amount",
           "outcome", "home", "country", "match", "vpn", "group"}

\* An ordinary event, and what stays of it in a scenario that holds fields fixed.
LEMMA OrdinaryFields ==
  ASSUME NEW id, NEW time, NEW token, NEW amount, NEW outcome
  PROVE  LET e == Ordinary(id, time, token, amount)
             burst == [e EXCEPT !.account = 0]
             fan == [e EXCEPT !.address = 0]
             away == [e EXCEPT !.country = "US", !.vpn = TRUE]
             storm == [e EXCEPT !.account = 0, !.device = 0, !.method = 0, !.group = "retry",
                                !.outcome = outcome]
             sold == [e EXCEPT !.merchant = 0, !.outcome = outcome]
         IN
         /\ e.id = id /\ e.time = time
         /\ burst.id = id /\ burst.time = time /\ burst.account = 0 /\ burst.amount = amount
         /\ fan.id = id /\ fan.time = time /\ fan.address = 0
         /\ away.id = id /\ away.time = time /\ away.country = "US" /\ away.home = "IN"
         /\ away.vpn = TRUE
         /\ storm.id = id /\ storm.time = time /\ storm.account = 0 /\ storm.group = "retry"
         /\ storm.outcome = outcome
         /\ sold.id = id /\ sold.time = time /\ sold.merchant = 0 /\ sold.outcome = outcome
<1> DEFINE e == Ordinary(id, time, token, amount)
           burst == [e EXCEPT !.account = 0]
           fan == [e EXCEPT !.address = 0]
           away == [e EXCEPT !.country = "US", !.vpn = TRUE]
           storm == [e EXCEPT !.account = 0, !.device = 0, !.method = 0, !.group = "retry",
                              !.outcome = outcome]
           sold == [e EXCEPT !.merchant = 0, !.outcome = outcome]
<1>1. e.id = id /\ e.time = time /\ e.amount = amount /\ e.home = "IN" /\ DOMAIN e = Fields
  BY DEF Ordinary, Fields
<1> HIDE DEF e
<1>2. burst.id = id /\ burst.time = time /\ burst.account = 0 /\ burst.amount = amount
  BY <1>1 DEF Fields
<1>3. fan.id = id /\ fan.time = time /\ fan.address = 0
  BY <1>1 DEF Fields
<1>4. away.id = id /\ away.time = time /\ away.country = "US" /\ away.home = "IN"
  BY <1>1 DEF Fields
<1>5. away.vpn = TRUE
  <2>1. "vpn" \in DOMAIN [e EXCEPT !.country = "US"]
    BY <1>1 DEF Fields
  <2> DEFINE abroad == [e EXCEPT !.country = "US"]
             yes == TRUE
  <2>2. away = [abroad EXCEPT !.vpn = yes]
    OBVIOUS
  <2> HIDE DEF abroad, yes
  <2>3. [abroad EXCEPT !.vpn = yes].vpn = yes
    BY <2>1 DEF abroad
  <2> QED
    BY <2>2, <2>3, Zenon DEF yes
<1>6. /\ storm.id = id /\ storm.time = time /\ storm.account = 0 /\ storm.group = "retry"
      /\ storm.outcome = outcome
  BY <1>1 DEF Fields
<1>7. sold.id = id /\ sold.time = time /\ sold.merchant = 0 /\ sold.outcome = outcome
  BY <1>1 DEF Fields
<1> HIDE DEF burst, fan, away, storm, sold
<1>8. /\ e.id = id /\ e.time = time
      /\ burst.id = id /\ burst.time = time /\ burst.account = 0 /\ burst.amount = amount
      /\ fan.id = id /\ fan.time = time /\ fan.address = 0
      /\ away.id = id /\ away.time = time /\ away.country = "US" /\ away.home = "IN"
      /\ away.vpn = TRUE
      /\ storm.id = id /\ storm.time = time /\ storm.account = 0 /\ storm.group = "retry"
      /\ storm.outcome = outcome
      /\ sold.id = id /\ sold.time = time /\ sold.merchant = 0 /\ sold.outcome = outcome
  BY <1>1, <1>2, <1>3, <1>4, <1>5, <1>6, <1>7, Zenon
<1> QED
  BY <1>8, Zenon DEF e, burst, fan, away, storm, sold

\* A stream of n events, each with an identifier of its own and none before the start.
Numbered(stream, n, start) ==
  /\ DOMAIN stream = 1..n
  /\ \A i \in 1..n : /\ stream[i].time \in Nat /\ start <= stream[i].time
                     /\ stream[i].id[2] = i

\* The last events of the scenarios, in time.
Timed(stream, n, gap, start) ==
  \A i \in 1..n : stream[i].time = start + gap * (i - 1)

\* What each generator makes: how many events, when, and what they share.
LEMMA NormalIs ==
  ASSUME NEW start \in Nat, NEW draw
  PROVE  Numbered(Normal(start, draw), 3, start)
<1> DEFINE e(i) == Ordinary(<<"normal", i>>, start + 30 * (i - 1), draw[i], 300)
<1>1. Normal(start, draw) = [i \in 1..3 |-> e(i)]
  BY DEF Normal
<1>2. \A i \in 1..3 : e(i).time = start + 30 * (i - 1) /\ e(i).id = <<"normal", i>>
  BY OrdinaryFields
<1> HIDE DEF e
<1> QED
  BY <1>1, <1>2 DEF Numbered

LEMMA BurstIs ==
  ASSUME NEW start \in Nat, NEW draw
  PROVE  LET s == DeviceBurst(start, draw) IN
         Numbered(s, 6, start) /\ Timed(s, 6, 10, start) /\ \A i \in 1..6 : s[i].account = 0
<1> DEFINE e(i) == [Ordinary(<<"burst", i>>, start + 10 * (i - 1), draw[i], 300) EXCEPT !.account = 0]
<1>1. DeviceBurst(start, draw) = [i \in 1..6 |-> e(i)]
  BY DEF DeviceBurst
<1>2. \A i \in 1..6 : e(i).time = start + 10 * (i - 1) /\ e(i).id = <<"burst", i>> /\ e(i).account = 0
  BY OrdinaryFields
<1> HIDE DEF e
<1> QED
  BY <1>1, <1>2 DEF Numbered, Timed

LEMMA FanOutIs ==
  ASSUME NEW start \in Nat, NEW draw
  PROVE  LET s == AddressFanOut(start, draw) IN
         Numbered(s, 5, start) /\ Timed(s, 5, 5, start) /\ \A i \in 1..5 : s[i].address = 0
<1> DEFINE e(i) == [Ordinary(<<"fan_out", i>>, start + 5 * (i - 1), draw[i], 300) EXCEPT !.address = 0]
<1>1. AddressFanOut(start, draw) = [i \in 1..5 |-> e(i)]
  BY DEF AddressFanOut
<1>2. \A i \in 1..5 : e(i).time = start + 5 * (i - 1) /\ e(i).id = <<"fan_out", i>> /\ e(i).address = 0
  BY OrdinaryFields
<1> HIDE DEF e
<1> QED
  BY <1>1, <1>2 DEF Numbered, Timed

LEMMA VpnIs ==
  ASSUME NEW start \in Nat, NEW draw
  PROVE  LET s == VpnMismatch(start, draw) IN
         Numbered(s, 4, start)
         /\ \A i \in 1..4 : s[i].home = "IN" /\ s[i].country = "US" /\ s[i].vpn = TRUE
<1> DEFINE e(i) == [Ordinary(<<"vpn", i>>, start + 30 * (i - 1), draw[i], 300)
                     EXCEPT !.country = "US", !.vpn = TRUE]
           s == VpnMismatch(start, draw)
<1>1. s = [i \in 1..4 |-> e(i)]
  BY DEF VpnMismatch
<1>2. \A i \in 1..4 : e(i).time = start + 30 * (i - 1) /\ e(i).id = <<"vpn", i>>
                      /\ e(i).home = "IN" /\ e(i).country = "US"
  BY OrdinaryFields
<1>3. \A i : e(i).vpn = TRUE
  <2> TAKE i
  <2>1. PICK id : id = <<"vpn", i>>
    OBVIOUS
  <2>2. PICK time : time = start + 30 * (i - 1)
    OBVIOUS
  <2>3. PICK token : token = draw[i]
    OBVIOUS
  <2>4. PICK amount : amount = 300
    OBVIOUS
  <2>5. [Ordinary(id, time, token, amount) EXCEPT !.country = "US", !.vpn = TRUE].vpn = TRUE
    BY OrdinaryFields
  <2> QED
    BY <2>1, <2>2, <2>3, <2>4, <2>5, Zenon
<1> HIDE DEF e
<1>4. Numbered(s, 4, start) /\ \A i \in 1..4 : s[i].home = "IN" /\ s[i].country = "US"
  BY <1>1, <1>2 DEF Numbered
<1>5. \A i \in 1..4 : s[i] = e(i)
  BY <1>1
<1> HIDE DEF s
<1>6. \A i \in 1..4 : s[i].vpn = TRUE
  BY <1>3, <1>5, Zenon
<1> QED
  BY <1>4, <1>6, Zenon DEF s

LEMMA StormIs ==
  ASSUME NEW start \in Nat, NEW draw
  PROVE  LET s == RetryStorm(start, draw) IN
         Numbered(s, 5, start) /\ Timed(s, 5, 5, start)
         /\ \A i \in 1..5 : /\ s[i].account = 0 /\ s[i].group = "retry"
                            /\ s[i].outcome = IF i = 5 THEN "success" ELSE "declined"
<1> DEFINE said(i) == IF i = 5 THEN "success" ELSE "declined"
           e(i) == [Ordinary(<<"storm", i>>, start + 5 * (i - 1), draw[i], 300)
                     EXCEPT !.account = 0, !.device = 0, !.method = 0, !.group = "retry",
                            !.outcome = said(i)]
<1>1. RetryStorm(start, draw) = [i \in 1..5 |-> e(i)]
  BY DEF RetryStorm
<1> HIDE DEF said
<1>2. \A i \in 1..5 : /\ e(i).time = start + 5 * (i - 1) /\ e(i).id = <<"storm", i>>
                      /\ e(i).account = 0 /\ e(i).group = "retry" /\ e(i).outcome = said(i)
  BY OrdinaryFields
<1> HIDE DEF e
<1> QED
  BY <1>1, <1>2 DEF Numbered, Timed, said

LEMMA UnusualIs ==
  ASSUME NEW start \in Nat, NEW draw
  PROVE  LET s == UnusualAmount(start, draw) IN
         /\ Numbered(s, 4, start) /\ Timed(s, 4, 600, start) /\ \A i \in 1..4 : s[i].account = 0
         /\ \A i \in 1..3 : s[i].amount \in {150, 450}
         /\ s[4].amount = (5 * (s[1].amount + s[2].amount + s[3].amount)) \div 3
<1> DEFINE modest(i) == IF draw[i] = 1 THEN 150 ELSE 450
           spike == (5 * (modest(1) + modest(2) + modest(3))) \div 3
           amount(i) == IF i = 4 THEN spike ELSE modest(i)
           e(i) == [Ordinary(<<"unusual", i>>, start + 600 * (i - 1), draw[i], amount(i))
                     EXCEPT !.account = 0]
<1>1. UnusualAmount(start, draw) = [i \in 1..4 |-> e(i)]
  BY DEF UnusualAmount
<1>2. \A i \in 1..3 : amount(i) = modest(i) /\ modest(i) \in {150, 450}
  OBVIOUS
<1>3. amount(4) = spike
  OBVIOUS
<1> HIDE DEF amount, modest
<1>4. \A i \in 1..4 : /\ e(i).time = start + 600 * (i - 1) /\ e(i).id = <<"unusual", i>>
                      /\ e(i).account = 0 /\ e(i).amount = amount(i)
  BY OrdinaryFields
<1> HIDE DEF e
<1> DEFINE s == UnusualAmount(start, draw)
<1>5. Numbered(s, 4, start) /\ Timed(s, 4, 600, start) /\ \A i \in 1..4 : s[i].account = 0
  BY <1>1, <1>4 DEF Numbered, Timed
<1>6. \A i \in 1..4 : s[i].amount = amount(i)
  BY <1>1, <1>4
<1> HIDE DEF s
<1>7. \A i \in 1..3 : i \in 1..4 /\ s[i].amount = modest(i)
  BY <1>2, <1>6
<1>8. s[4].amount = (5 * (s[1].amount + s[2].amount + s[3].amount)) \div 3
  <2>1. s[1].amount = modest(1) /\ s[2].amount = modest(2) /\ s[3].amount = modest(3)
    BY <1>7
  <2>2. s[4].amount = spike
    BY <1>3, <1>6
  <2> QED
    BY <2>1, <2>2, Zenon
<1> QED
  BY <1>2, <1>5, <1>7, <1>8 DEF s

LEMMA MerchantIs ==
  ASSUME NEW start \in Nat, NEW draw
  PROVE  LET s == MerchantDeviation(start, draw) IN
         Numbered(s, 7, start) /\ Timed(s, 7, 60, start)
         /\ \A i \in 1..7 : /\ s[i].merchant = 0
                            /\ s[i].outcome = IF i <= 5 THEN "declined" ELSE "success"
<1> DEFINE said(i) == IF i <= 5 THEN "declined" ELSE "success"
           e(i) == [Ordinary(<<"merchant", i>>, start + 60 * (i - 1), draw[i], 300)
                     EXCEPT !.merchant = 0, !.outcome = said(i)]
<1>1. MerchantDeviation(start, draw) = [i \in 1..7 |-> e(i)]
  BY DEF MerchantDeviation
<1> HIDE DEF said
<1>2. \A i \in 1..7 : /\ e(i).time = start + 60 * (i - 1) /\ e(i).id = <<"merchant", i>>
                      /\ e(i).merchant = 0 /\ e(i).outcome = said(i)
  BY OrdinaryFields
<1> HIDE DEF e
<1> QED
  BY <1>1, <1>2 DEF Numbered, Timed, said

LEMMA OutOfOrderIs ==
  ASSUME NEW start \in Nat, NEW draw
  PROVE  LET s == OutOfOrder(start, draw) IN
         /\ Numbered(s, 4, start)
         /\ s[1].time = start /\ s[2].time = start + 120 /\ s[3].time = start + 30
         /\ s[4].time = start + 150
<1> DEFINE late == <<0, 120, 30, 150>>
           e(i) == Ordinary(<<"out_of_order", i>>, start + late[i], draw[i], 300)
<1>1. OutOfOrder(start, draw) = [i \in 1..4 |-> e(i)]
  BY DEF OutOfOrder
<1>2. late[1] = 0 /\ late[2] = 120 /\ late[3] = 30 /\ late[4] = 150
  OBVIOUS
<1> HIDE DEF late
<1>3. \A i \in 1..4 : e(i).time = start + late[i] /\ e(i).id = <<"out_of_order", i>>
  BY OrdinaryFields
<1> HIDE DEF e
<1> DEFINE s == OutOfOrder(start, draw)
<1>4. \A i \in 1..4 : s[i].time = start + late[i] /\ s[i].id = <<"out_of_order", i>>
  BY <1>1, <1>3
<1>5. DOMAIN s = 1..4
  BY <1>1
<1> HIDE DEF s
<1>6. /\ s[1].time = start /\ s[2].time = start + 120 /\ s[3].time = start + 30
      /\ s[4].time = start + 150
  BY <1>2, <1>4
<1>7. \A i \in 1..4 : i = 1 \/ i = 2 \/ i = 3 \/ i = 4
  OBVIOUS
<1>8. \A i \in 1..4 : /\ s[i].time \in Nat /\ start <= s[i].time
  BY <1>6, <1>7
<1>9. Numbered(s, 4, start)
  BY <1>4, <1>5, <1>8 DEF Numbered
<1> QED
  BY <1>6, <1>9 DEF s

LEMMA DuplicateIs ==
  ASSUME NEW start \in Nat, NEW draw
  PROVE  LET s == DuplicateStream(start, draw) IN
         /\ DOMAIN s = 1..4 /\ s[4] = s[1]
         /\ \A i \in 1..3 : s[i].time \in Nat /\ start <= s[i].time /\ s[i].id[2] = i
<1> DEFINE e(i) == Ordinary(<<"duplicate", i>>, start + 20 * (i - 1), draw[i], 300)
           base == [i \in 1..3 |-> e(i)]
           S == {base[1], base[2], base[3]}
<1>1. \A i \in 1..3 : e(i).time = start + 20 * (i - 1) /\ e(i).id = <<"duplicate", i>>
  BY OrdinaryFields
<1>2. DuplicateStream(start, draw) = Append(base, base[1])
  BY DEF DuplicateStream
<1> HIDE DEF e
<1>3. base \in [1..3 -> S] /\ DOMAIN base = 1..3 /\ \A i \in 1..3 : base[i] = e(i)
  OBVIOUS
<1> HIDE DEF base, S
<1>4. base \in Seq(S) /\ Len(base) = 3
  BY <1>3, FunctionIsASequence
<1> DEFINE x == base[1]
           s == Append(base, x)
<1>5. x \in S
  BY <1>3
<1> HIDE DEF x
<1>6. s = Append(base, x)
  OBVIOUS
<1> HIDE DEF s
<1>7. /\ s \in Seq(S) /\ Len(s) = Len(base) + 1
      /\ \A i \in DOMAIN base : s[i] = base[i]
      /\ s[Len(base) + 1] = x
  BY <1>4, <1>5, <1>6, Extended
<1>8. DOMAIN s = 1..4 /\ s[4] = s[1]
  BY <1>3, <1>4, <1>7 DEF x
<1>10. \A i \in 1..3 : s[i].time \in Nat /\ start <= s[i].time /\ s[i].id[2] = i
  BY <1>1, <1>3, <1>7
<1> QED
  BY <1>2, <1>8, <1>10 DEF s, x

\* What a stream of a scenario is, for the store.
Drawn(scenario, s, n, start) ==
  IF scenario = "duplicate"
  THEN /\ n = 4 /\ DOMAIN s = 1..4 /\ s[4] = s[1]
       /\ \A i \in 1..3 : s[i].time \in Nat /\ start <= s[i].time /\ s[i].id[2] = i
  ELSE Numbered(s, n, start)

\* Every scenario has a stream of one to seven events that the store can take in order.
LEMMA StreamsAreDrawn ==
  ASSUME NEW scenario \in Scenarios, NEW start \in Nat, NEW draw
  PROVE  \E n \in 1..7 : Drawn(scenario, Stream(scenario, start, draw), n, start)
<1> DEFINE s == Stream(scenario, start, draw)
           Is(name, n) == scenario = name /\ Numbered(s, n, start)
<1>0. "duplicate" # "normal_baseline"
  OBVIOUS
<1>1. CASE scenario = "normal_baseline"
  <2>1. Numbered(s, 3, start)
    BY <1>1, NormalIs DEF Stream
  <2> QED
    BY <1>1, <2>1 DEF Drawn
<1>2. CASE scenario = "new_device_burst"
  <2>1. Numbered(s, 6, start)
    BY <1>2, BurstIs DEF Stream
  <2> QED
    BY <1>2, <2>1 DEF Drawn
<1>3. CASE scenario = "address_fan_out"
  <2>1. Numbered(s, 5, start)
    BY <1>3, FanOutIs DEF Stream
  <2> QED
    BY <1>3, <2>1 DEF Drawn
<1>4. CASE scenario = "vpn_geography_mismatch"
  <2>1. Numbered(s, 4, start)
    BY <1>4, VpnIs DEF Stream
  <2> QED
    BY <1>4, <2>1 DEF Drawn
<1>5. CASE scenario = "retry_storm"
  <2>1. Numbered(s, 5, start)
    BY <1>5, StormIs DEF Stream
  <2> QED
    BY <1>5, <2>1 DEF Drawn
<1>6. CASE scenario = "unusual_amount"
  <2>1. Numbered(s, 4, start)
    BY <1>6, UnusualIs DEF Stream
  <2> QED
    BY <1>6, <2>1 DEF Drawn
<1>7. CASE scenario = "merchant_deviation"
  <2>1. Numbered(s, 7, start)
    BY <1>7, MerchantIs DEF Stream
  <2> QED
    BY <1>7, <2>1 DEF Drawn
<1>8. CASE scenario = "duplicate"
  <2>1. s = DuplicateStream(start, draw)
    BY <1>8 DEF Stream
  <2>2. /\ DOMAIN s = 1..4 /\ s[4] = s[1]
        /\ \A i \in 1..3 : s[i].time \in Nat /\ start <= s[i].time /\ s[i].id[2] = i
    BY <2>1, DuplicateIs
  <2> HIDE DEF s
  <2>3. Drawn(scenario, s, 4, start)
    BY <1>8, <2>2 DEF Drawn
  <2> QED
    BY <2>3 DEF s
<1>9. CASE scenario = "out_of_order"
  <2>1. Numbered(s, 4, start)
    BY <1>9, OutOfOrderIs DEF Stream
  <2> QED
    BY <1>9, <2>1 DEF Drawn
<1> QED
  BY <1>1, <1>2, <1>3, <1>4, <1>5, <1>6, <1>7, <1>8, <1>9 DEF Scenarios

\* The store has taken the first events of the stream, and the rest is to come.
Follows(s, n) ==
  /\ Len(arrivals) + Len(feed.events) = n
  /\ \A i \in 1..Len(arrivals) : arrivals[i] = s[i]
  /\ \A i \in 1..Len(feed.events) : feed.events[i] = s[Len(arrivals) + i]
  /\ HeldEvents = ToSet(arrivals)
  /\ feed.scenario = "duplicate" => Len(arrivals) <= 3
  /\ arrivals # <<>> => result.status = "new" /\ result.event = arrivals[Len(arrivals)]

Repeated == feed.scenario = "duplicate" /\ feed.events = <<>> /\ result.status = "duplicate"

\* Every record is of an arrival of its own, and a stream is taken from its start.
ReplayInvariant ==
  /\ IsFiniteSet(held) /\ Cardinality(held) <= Len(arrivals)
  /\ feed.scenario = "none" => feed.events = <<>>
  /\ feed.scenario # "none" =>
       /\ feed.scenario \in Scenarios
       /\ Repeated \/ \E draw \in Draws, n \in 1..7 :
            LET s == Stream(feed.scenario, clock, draw) IN
            Drawn(feed.scenario, s, n, clock) /\ Follows(s, n)

\* An event of a stream comes first, or it is the one that is repeated.
ComesNext(scenario, s, n, start, k) ==
  /\ \A i \in 1..n : s[i].time \in Nat /\ start <= s[i].time
  /\ \/ \A i \in 1..k : s[i].id # s[k + 1].id
     \/ /\ scenario = "duplicate" /\ n = 4 /\ k = 3 /\ s[k + 1] = s[1]
        /\ \A i \in 1..k : s[i].id = s[k + 1].id => s[i] = s[k + 1]

\* The next event of a stream has an identifier that none before it had, but for the repeated one.
LEMMA EventsOfAStream ==
  ASSUME NEW scenario, NEW s, NEW n \in 1..7, NEW start, Drawn(scenario, s, n, start),
         NEW k \in Nat, k + 1 \in 1..n
  PROVE  ComesNext(scenario, s, n, start, k)
<1> SUFFICES /\ \A i \in 1..n : s[i].time \in Nat /\ start <= s[i].time
             /\ \/ \A i \in 1..k : s[i].id # s[k + 1].id
                \/ /\ scenario = "duplicate" /\ n = 4 /\ k = 3 /\ s[k + 1] = s[1]
                   /\ \A i \in 1..k : s[i].id = s[k + 1].id => s[i] = s[k + 1]
  BY DEF ComesNext
<1>1. CASE scenario # "duplicate"
  <2>1. \A i \in 1..n : s[i].time \in Nat /\ start <= s[i].time /\ s[i].id[2] = i
    BY <1>1 DEF Drawn, Numbered
  <2>2. \A i \in 1..k : i \in 1..n /\ i # k + 1
    OBVIOUS
  <2>3. \A i \in 1..k : s[i].id # s[k + 1].id
    BY <2>1, <2>2
  <2> QED
    BY <2>1, <2>3
<1>2. CASE scenario = "duplicate"
  <2>1. /\ n = 4 /\ s[4] = s[1]
        /\ \A i \in 1..3 : s[i].time \in Nat /\ start <= s[i].time /\ s[i].id[2] = i
    BY <1>2 DEF Drawn
  <2>2. \A i \in 1..n : i \in 1..3 \/ i = 4
    BY <2>1
  <2>3. \A i \in 1..n : s[i].time \in Nat /\ start <= s[i].time
    BY <2>1, <2>2
  <2>4. CASE k = 3
    <3>1. s[k + 1] = s[1] /\ s[1].id[2] = 1
      BY <2>1, <2>4
    <3>2. \A i \in 1..k : s[i].id = s[k + 1].id => i = 1
      BY <2>1, <2>4, <3>1
    <3> QED
      BY <1>2, <2>1, <2>3, <2>4, <3>1, <3>2
  <2>5. CASE k # 3
    <3>1. \A i \in 1..k : i \in 1..3 /\ i # k + 1
      BY <2>1, <2>5
    <3>2. k + 1 \in 1..3
      BY <2>1, <2>5
    <3>3. \A i \in 1..k : s[i].id # s[k + 1].id
      BY <2>1, <3>1, <3>2
    <3> QED
      BY <2>3, <3>3
  <2> QED
    BY <2>4, <2>5
<1> QED
  BY <1>1, <1>2

\* Recording keeps fewer records than there were arrivals.
LEMMA RecordsAreBounded ==
  ASSUME EventsInvariant, IsFiniteSet(held), Cardinality(held) <= Len(arrivals), NEW e \in AllEvents
  PROVE  /\ RecordNew(e, AfterEviction) =>
              IsFiniteSet(held') /\ Cardinality(held') <= Len(arrivals')
         /\ RecordDuplicate(e, AfterEviction) \/ RecordConflict(e, AfterEviction) =>
              IsFiniteSet(held') /\ Cardinality(held') <= Len(arrivals')
<1>1. Len(arrivals) \in Nat /\ arrivals \in Seq(AllEvents)
  BY DEF EventsInvariant, EventsShape
<1>2. IsFiniteSet(AfterEviction) /\ Cardinality(AfterEviction) <= Len(arrivals)
      /\ Cardinality(AfterEviction) \in Nat
  <2>1. AfterEviction \subseteq held
    BY DEF AfterEviction
  <2>2. IsFiniteSet(AfterEviction) /\ Cardinality(AfterEviction) <= Cardinality(held)
    BY <2>1, FS_Subset
  <2>3. Cardinality(AfterEviction) \in Nat /\ Cardinality(held) \in Nat
    BY <2>2, FS_CardinalityType
  <2> QED
    BY <1>1, <2>2, <2>3
<1>3. ASSUME RecordNew(e, AfterEviction)
      PROVE  IsFiniteSet(held') /\ Cardinality(held') <= Len(arrivals')
  <2> DEFINE kept == AfterEviction
             new == [event |-> e, ordering |-> Ordering(e), at |-> Len(arrivals) + 1]
             all == kept \cup {new}
  <2>1. held' = all \ Overflow(all) /\ arrivals' = Append(arrivals, e)
    BY <1>3 DEF RecordNew
  <2>2. Len(arrivals') = Len(arrivals) + 1
    BY <1>1, <2>1
  <2> HIDE DEF new, kept
  <2>3. IsFiniteSet(all) /\ Cardinality(all) <= Len(arrivals) + 1 /\ Cardinality(all) \in Nat
    <3>1. IsFiniteSet(all)
          /\ Cardinality(all) = (IF new \in kept THEN Cardinality(kept) ELSE Cardinality(kept) + 1)
      BY <1>2, FS_AddElement DEF kept
    <3> QED
      BY <1>1, <1>2, <3>1 DEF kept
  <2> HIDE DEF all
  <2>4. held' \subseteq all
    BY <2>1
  <2>5. IsFiniteSet(held') /\ Cardinality(held') <= Cardinality(all)
    BY <2>3, <2>4, FS_Subset
  <2>6. Cardinality(held') \in Nat
    BY <2>5, FS_CardinalityType
  <2> QED
    BY <1>1, <2>2, <2>3, <2>5, <2>6
<1>4. ASSUME RecordDuplicate(e, AfterEviction) \/ RecordConflict(e, AfterEviction)
      PROVE  IsFiniteSet(held') /\ Cardinality(held') <= Len(arrivals')
  <2>1. held' = AfterEviction /\ arrivals' = arrivals
    BY <1>4 DEF RecordDuplicate, RecordConflict
  <2> QED
    BY <1>2, <2>1
<1> QED
  BY <1>3, <1>4

\* The next event of a stream.
LEMMA ReplayFollows ==
  ASSUME MaxEvents >= 7, EventsInvariant, IsFiniteSet(held), Cardinality(held) <= Len(arrivals),
         NEW s, NEW n \in 1..7, Drawn(feed.scenario, s, n, clock), Follows(s, n), Replay
  PROVE  Repeated' \/ Follows(s, n)'
<1> DEFINE e == Head(feed.events)
           k == Len(arrivals)
           m == Len(feed.events)
<1>1. /\ clock \in Nat /\ arrivals \in Seq(AllEvents) /\ k \in Nat /\ DOMAIN arrivals = 1..k
      /\ feed.events \in Seq(AllEvents) /\ m \in Nat /\ DOMAIN feed = {"scenario", "events"}
  BY DEF EventsInvariant, EventsShape
<1>2. /\ feed.events # <<>> /\ Record(e) /\ feed' = [feed EXCEPT !.events = Tail(feed.events)]
      /\ clock' = clock
  BY DEF Replay
<1>3. e \in AllEvents /\ m >= 1 /\ e = feed.events[1]
  BY <1>1, <1>2, HeadTailProperties
<1>4. /\ feed'.scenario = feed.scenario /\ feed'.events = Tail(feed.events)
      /\ Len(feed'.events) = m - 1
      /\ \A i \in 1..(m - 1) : feed'.events[i] = feed.events[i + 1]
  <2>1. feed'.scenario = feed.scenario /\ feed'.events = Tail(feed.events)
    BY <1>1, <1>2
  <2>2. /\ Len(Tail(feed.events)) = m - 1
        /\ \A i \in 1..(m - 1) : Tail(feed.events)[i] = feed.events[i + 1]
    BY <1>1, <1>2, HeadTailProperties
  <2> QED
    BY <2>1, <2>2
<1>5. /\ k + m = n
      /\ \A i \in 1..k : arrivals[i] = s[i]
      /\ \A i \in 1..m : feed.events[i] = s[k + i]
      /\ HeldEvents = ToSet(arrivals)
      /\ feed.scenario = "duplicate" => k <= 3
  BY DEF Follows
<1>6. e = s[k + 1] /\ k + 1 \in 1..n
  BY <1>1, <1>3, <1>5
<1>7. /\ \A i \in 1..n : s[i].time \in Nat /\ clock <= s[i].time
      /\ \/ \A i \in 1..k : s[i].id # e.id
         \/ /\ feed.scenario = "duplicate" /\ n = 4 /\ k = 3 /\ e = s[1]
            /\ \A i \in 1..k : s[i].id = e.id => s[i] = e
  <2> HIDE DEF e, k, m
  <2>1. /\ \A i \in 1..n : s[i].time \in Nat /\ clock <= s[i].time
        /\ \/ \A i \in 1..k : s[i].id # s[k + 1].id
           \/ /\ feed.scenario = "duplicate" /\ n = 4 /\ k = 3 /\ s[k + 1] = s[1]
              /\ \A i \in 1..k : s[i].id = s[k + 1].id => s[i] = s[k + 1]
    <3>1. ComesNext(feed.scenario, s, n, clock, k)
      BY <1>1, <1>6, EventsOfAStream
    <3> QED
      BY <3>1 DEF ComesNext
  <2> QED
    BY <1>6, <2>1
<1>8. \A r \in held : r.at \in 1..k /\ r.event = s[r.at]
  <2>1. \A r \in held : r.at \in 1..k /\ r.event = arrivals[r.at]
    BY DEF EventsInvariant, HeldIsLast
  <2> QED
    BY <1>5, <2>1
\* Nothing is too old.
<1>9. AfterEviction = held
  <2>1. Retention \in Nat
    BY EventStoreAssumption
  <2>2. \A i \in 1..k : i \in 1..n
    BY <1>1, <1>5
  <2>3. \A r \in held : r.event.time \in Nat /\ clock <= r.event.time
    BY <1>7, <1>8, <2>2
  <2>4. \A r \in held : r.event.time >= clock - Retention
    BY <1>1, <2>1, <2>3
  <2> QED
    BY <2>4 DEF AfterEviction, KeptByRetention
<1> HIDE DEF e, k, m
<1>10. CASE RecordNew(e, AfterEviction)
  <2> DEFINE new == [event |-> e, ordering |-> Ordering(e), at |-> Len(arrivals) + 1]
             all == held \cup {new}
  <2>1. /\ Existing(held, e) = {} /\ held' = all \ Overflow(all) /\ arrivals' = Append(arrivals, e)
        /\ result'.status = "new" /\ result'.event = e
    BY <1>9, <1>10 DEF RecordNew
  <2>2. new.event = e
    OBVIOUS
  <2> HIDE DEF new
  \* There is room for the whole stream.
  <2>3. Overflow(all) = {}
    <3>1. Cardinality(held) \in Nat
      BY FS_CardinalityType
    <3>2. IsFiniteSet(all)
          /\ Cardinality(all) = (IF new \in held THEN Cardinality(held) ELSE Cardinality(held) + 1)
      BY FS_AddElement
    <3>3. Cardinality(all) \in Nat /\ Cardinality(all) <= 7
      BY <1>1, <1>5, <1>6, <3>1, <3>2 DEF k
    <3>4. MaxEvents \in Nat
      BY EventStoreAssumption
    <3> HIDE DEF all
    <3>5. ASSUME NEW r \in all PROVE ~(Cardinality({q \in all : q.at >= r.at}) > MaxEvents)
      <4> DEFINE part == {q \in all : q.at >= r.at}
      <4>1. part \subseteq all
        OBVIOUS
      <4> HIDE DEF part
      <4>2. IsFiniteSet(part) /\ Cardinality(part) <= Cardinality(all)
        BY <3>2, <4>1, FS_Subset
      <4>3. Cardinality(part) \in Nat
        BY <4>2, FS_CardinalityType
      <4>4. ~(Cardinality(part) > MaxEvents)
        BY <3>3, <3>4, <4>2, <4>3
      <4> QED
        BY <4>4 DEF part
    <3> QED
      BY <3>5 DEF Overflow
  <2>4. held' = all
    BY <2>1, <2>3
  <2>5. /\ Len(arrivals') = k + 1 /\ DOMAIN arrivals' = 1..(k + 1)
        /\ \A i \in 1..k : arrivals'[i] = arrivals[i]
        /\ arrivals'[k + 1] = e
    BY <1>1, <1>3, <2>1 DEF k
  <2>6. \A i \in 1..(k + 1) : i \in 1..k \/ i = k + 1
    BY <1>1
  <2>7. HeldEvents' = ToSet(arrivals')
    <3>1. HeldEvents' = {r.event : r \in all}
      BY <2>4 DEF HeldEvents
    <3>2. {r.event : r \in all} = HeldEvents \cup {e}
      BY <2>2 DEF HeldEvents
    <3>3. ToSet(arrivals) = {arrivals[i] : i \in 1..k}
      BY <1>1 DEF ToSet
    <3>4. ToSet(arrivals') = {arrivals'[i] : i \in 1..(k + 1)}
      BY <2>5 DEF ToSet
    <3>5. ToSet(arrivals') = ToSet(arrivals) \cup {e}
      <4>1. \A i \in 1..k : i \in 1..(k + 1)
        BY <1>1
      <4>2. k + 1 \in 1..(k + 1)
        BY <1>1
      <4> QED
        BY <2>5, <2>6, <3>3, <3>4, <4>1, <4>2
    <3> QED
      BY <1>5, <3>1, <3>2, <3>5
  <2>8. \A i \in 1..Len(arrivals') : arrivals'[i] = s[i]
    BY <1>5, <1>6, <2>5, <2>6
  <2>9. \A i \in 1..Len(feed'.events) : feed'.events[i] = s[Len(arrivals') + i]
    <3> SUFFICES ASSUME NEW i \in 1..(m - 1) PROVE feed'.events[i] = s[(k + 1) + i]
      BY <1>4, <2>5
    <3>1. i + 1 \in 1..m /\ k + (i + 1) = (k + 1) + i
      BY <1>1
    <3>2. feed'.events[i] = feed.events[i + 1]
      BY <1>4
    <3>3. feed.events[i + 1] = s[k + (i + 1)]
      BY <1>5, <3>1
    <3> QED
      BY <3>1, <3>2, <3>3
  <2>10. Len(arrivals') + Len(feed'.events) = n
    <3>1. k \in Nat /\ m \in Nat /\ k + m = n /\ Len(arrivals') = k + 1 /\ Len(feed'.events) = m - 1
      BY <1>1, <1>4, <1>5, <2>5, Zenon DEF k, m
    <3>2. (k + 1) + (m - 1) = k + m
      BY ONLY <3>1
    <3> QED
      BY <3>1, <3>2
  <2>11. feed'.scenario = "duplicate" => Len(arrivals') <= 3
    <3> SUFFICES ASSUME feed.scenario = "duplicate", k = 3 PROVE FALSE
      BY <1>1, <1>4, <1>5, <2>5
    <3>1. n = 4 /\ s[4] = s[1]
      BY DEF Drawn
    <3>2. e = arrivals[1] /\ arrivals[1] \in ToSet(arrivals)
      BY <1>1, <1>5, <1>6, <3>1 DEF ToSet
    <3>3. PICK r \in held : r.event = e
      BY <1>5, <3>2 DEF HeldEvents
    <3> QED
      BY <2>1, <3>3 DEF Existing
  <2>12. result'.event = arrivals'[Len(arrivals')]
    BY <2>1, <2>5
  <2> QED
    BY <2>1, <2>7, <2>8, <2>9, <2>10, <2>11, <2>12 DEF Follows
<1>11. CASE RecordDuplicate(e, AfterEviction) \/ RecordConflict(e, AfterEviction)
  <2>1. PICK first \in held : first.event.id = e.id /\ (RecordDuplicate(e, held) \/ first.event # e)
    <3>1. CASE RecordDuplicate(e, AfterEviction)
      BY <1>9, <3>1 DEF RecordDuplicate, Existing
    <3>2. CASE RecordConflict(e, AfterEviction)
      BY <1>9, <3>2 DEF RecordConflict, Existing
    <3> QED
      BY <1>11, <3>1, <3>2
  <2>2. first.at \in 1..k /\ first.event = s[first.at]
    BY <1>8
  <2>3. /\ feed.scenario = "duplicate" /\ n = 4 /\ k = 3
        /\ \A i \in 1..k : s[i].id = e.id => s[i] = e
    BY <1>7, <2>1, <2>2
  <2>4. RecordDuplicate(e, held)
    BY <2>1, <2>2, <2>3
  <2>5. result'.status = "duplicate"
    BY <2>4 DEF RecordDuplicate
  <2>6. feed'.events = <<>>
    <3>1. m = 1
      BY <1>1, <1>5, <2>3
    <3>2. Tail(feed.events) \in Seq(AllEvents) /\ Len(Tail(feed.events)) = 0
      BY <1>1, <1>2, <1>4, <3>1, HeadTailProperties
    <3> QED
      BY <1>4, <3>2
  <2> QED
    BY <1>4, <2>3, <2>5, <2>6 DEF Repeated
<1> QED
  BY <1>2, <1>10, <1>11 DEF Record

\* The replay invariant holds before anything is generated.
LEMMA ReplayStart == EventsInit => ReplayInvariant
<1> SUFFICES ASSUME EventsInit PROVE ReplayInvariant
  OBVIOUS
<1>1. held = {} /\ arrivals = <<>> /\ feed = NoFeed
  BY DEF EventsInit
<1>2. IsFiniteSet(held) /\ Cardinality(held) = 0
  BY <1>1, FS_EmptySet
<1>3. Len(arrivals) = 0
  BY <1>1
<1> QED
  BY <1>1, <1>2, <1>3 DEF ReplayInvariant, NoFeed

\* Before the first event of a stream nothing is held.
LEMMA GenerateFollows ==
  ASSUME EventsInvariant, IsFiniteSet(held), Cardinality(held) <= Len(arrivals),
         NEW scenario \in Replayed, NEW draw \in Draws, Generate(scenario, draw)
  PROVE  ReplayInvariant'
<1> DEFINE s == Stream(scenario, clock, draw)
<1>1. /\ clock \in Nat /\ clock \in Instants /\ scenario \in Scenarios
      /\ \A name : feed'.scenario = name <=> scenario = name
  BY EventStoreAssumption DEF EventsInvariant, EventsShape, Generate
<1>2. /\ arrivals = <<>> /\ feed'.scenario = scenario /\ feed'.events = s
      /\ UNCHANGED <<clock, held, watermark, result, arrivals, dropped>>
  BY DEF Generate
<1>3. PICK n \in 1..7 : Drawn(scenario, s, n, clock)
  BY <1>1, StreamsAreDrawn
<1>4. s \in Seq(AllEvents)
  BY <1>1, StreamsAreOfEvents
<1>5. held = {}
  <2>1. \A r \in held : r.at \in 1..Len(arrivals)
    BY DEF EventsInvariant, HeldIsLast
  <2>2. Len(arrivals) = 0
    BY <1>2
  <2> QED
    BY <2>1, <2>2
<1>6. scenario # "none"
  BY <1>1 DEF Scenarios
<1>7. Stream(feed'.scenario, clock', draw) = s
  BY <1>2
<1> HIDE DEF s
<1>8. DOMAIN s = 1..n
  BY <1>3 DEF Drawn, Numbered
<1>9. Len(s) = n
  <2>1. DOMAIN s = 1..Len(s) /\ Len(s) \in Nat
    BY <1>4
  <2>2. \A a, b \in Nat : 1..a = 1..b => a = b
    <3> TAKE a, b \in Nat
    <3>1. Cardinality(1..a) = a /\ Cardinality(1..b) = b
      BY FS_Interval
    <3> QED
      BY <3>1
  <2>3. n \in Nat
    OBVIOUS
  <2> QED
    BY <1>8, <2>1, <2>2, <2>3
<1>10. PICK stream : stream = s
  OBVIOUS
<1>11. Follows(stream, n)'
  <2>1. arrivals' = <<>> /\ feed'.events = stream /\ Len(arrivals') = 0
    BY <1>2, <1>10
  <2>2. HeldEvents' = {} /\ ToSet(arrivals') = {}
    BY <1>2, <1>5, <2>1 DEF HeldEvents, ToSet
  <2>3. Len(arrivals') + Len(feed'.events) = n
    BY <1>9, <1>10, <2>1
  <2>4. \A i \in 1..Len(feed'.events) : feed'.events[i] = stream[Len(arrivals') + i]
    BY <1>9, <1>10, <2>1
  <2> QED
    BY <2>1, <2>2, <2>3, <2>4 DEF Follows
<1>12. (Drawn(feed.scenario, Stream(feed.scenario, clock, draw), n, clock)
          /\ Follows(Stream(feed.scenario, clock, draw), n))'
  <2>1. Drawn(scenario, s, n, clock)
    BY <1>3 DEF s
  <2>2. Drawn(feed'.scenario, Stream(feed'.scenario, clock', draw), n, clock')
    BY <1>2, <1>7, <2>1, Zenon
  <2>3. Stream(feed'.scenario, clock', draw) = stream
    BY <1>7, <1>10
  <2> QED
    BY <1>11, <2>2, <2>3, Zenon
<1>13. IsFiniteSet(held') /\ Cardinality(held') <= Len(arrivals')
  BY <1>2
<1>14. feed'.scenario # "none" /\ feed'.scenario \in Scenarios
  BY <1>1, <1>2, <1>6
<1>15. (Repeated \/ \E d \in Draws, k \in 1..7 :
          LET t == Stream(feed.scenario, clock, d) IN
          Drawn(feed.scenario, t, k, clock) /\ Follows(t, k))'
  BY <1>12, Zenon
<1> QED
  BY <1>13, <1>14, <1>15, Zenon DEF ReplayInvariant

\* Every step keeps it: a replayed event is the next of the stream, and nothing is evicted or
\* pushed out, since the stream begins at the clock and fits.
LEMMA ReplayStep ==
  ASSUME MaxEvents >= 7
  PROVE  EventsInvariant /\ ReplayInvariant /\ [EventsNext]_eventVars => ReplayInvariant'
<1> SUFFICES ASSUME EventsInvariant, ReplayInvariant, [EventsNext]_eventVars PROVE ReplayInvariant'
  OBVIOUS
<1>0. /\ IsFiniteSet(held) /\ Cardinality(held) <= Len(arrivals)
      /\ feed.scenario = "none" => feed.events = <<>>
      /\ DOMAIN feed = {"scenario", "events"} /\ feed.events \in Seq(AllEvents)
      /\ NoFeed.scenario = "none" /\ NoFeed.events = <<>>
  BY DEF ReplayInvariant, EventsInvariant, EventsShape, NoFeed
<1>1. ASSUME NEW e \in FreeEvents, Submit(e)
      PROVE  ReplayInvariant'
  <2>1. e \in AllEvents /\ Record(e) /\ feed' = feed /\ feed = NoFeed
    BY <1>1 DEF Submit, AllEvents
  <2>2. IsFiniteSet(held') /\ Cardinality(held') <= Len(arrivals')
    BY <1>0, <2>1, RecordsAreBounded DEF Record
  <2> QED
    BY <1>0, <2>1, <2>2 DEF ReplayInvariant
<1>2. ASSUME NEW scenario \in Replayed, NEW draw \in Draws, Generate(scenario, draw)
      PROVE  ReplayInvariant'
  BY <1>0, <1>2, GenerateFollows
<1>3. CASE Replay
  <2>1. feed.events # <<>> /\ Record(Head(feed.events)) /\ clock' = clock
        /\ feed' = [feed EXCEPT !.events = Tail(feed.events)]
    BY <1>3 DEF Replay
  <2>2. feed.scenario # "none" /\ feed'.scenario = feed.scenario /\ ~Repeated
    BY <1>0, <2>1 DEF Repeated
  <2>3. PICK draw \in Draws, n \in 1..7 :
          /\ Drawn(feed.scenario, Stream(feed.scenario, clock, draw), n, clock)
          /\ Follows(Stream(feed.scenario, clock, draw), n)
    BY <2>2 DEF ReplayInvariant
  <2> DEFINE s == Stream(feed.scenario, clock, draw)
  <2>4. Drawn(feed.scenario, s, n, clock) /\ Follows(s, n)
    BY <2>3
  <2>5. Stream(feed'.scenario, clock', draw) = s
    BY <2>1, <2>2
  <2> HIDE DEF s
  <2>6. PICK stream : stream = s
    OBVIOUS
  <2>7. Repeated' \/ Follows(stream, n)'
    BY <1>0, <1>3, <2>4, <2>6, ReplayFollows
  <2>8. Drawn(feed'.scenario, s, n, clock')
    BY <2>1, <2>2, <2>4, Zenon
  <2>9. Repeated' \/ (Drawn(feed'.scenario, Stream(feed'.scenario, clock', draw), n, clock')
                      /\ Follows(Stream(feed.scenario, clock, draw), n)')
    <3> QED
      BY <2>5, <2>6, <2>7, <2>8, Zenon
  <2>10. IsFiniteSet(held') /\ Cardinality(held') <= Len(arrivals')
    <3>1. Head(feed.events) \in AllEvents
      BY <1>0, <2>1, HeadTailProperties
    <3> QED
      BY <1>0, <2>1, <3>1, RecordsAreBounded DEF Record
  <2>11. feed'.scenario # "none" /\ feed'.scenario \in Scenarios
    BY <2>2 DEF ReplayInvariant
  <2> QED
    BY <2>9, <2>10, <2>11, Zenon DEF ReplayInvariant
<1>4. ASSUME NEW t \in Instants, AdvanceClock(t)
      PROVE  ReplayInvariant'
  <2>1. feed = NoFeed /\ feed' = feed /\ held' = held /\ arrivals' = arrivals
    BY <1>4 DEF AdvanceClock
  <2> QED
    BY <1>0, <2>1 DEF ReplayInvariant
<1>5. CASE Reset
  <2>1. held' = {} /\ arrivals' = <<>> /\ feed' = NoFeed
    BY <1>5 DEF Reset
  <2>2. IsFiniteSet(held') /\ Cardinality(held') = 0 /\ Len(arrivals') = 0
    BY <2>1, FS_EmptySet
  <2> QED
    BY <1>0, <2>1, <2>2 DEF ReplayInvariant
<1>6. CASE UNCHANGED eventVars
  BY <1>6 DEF eventVars, ReplayInvariant, Repeated, Follows, HeldEvents
<1> QED
  BY <1>1, <1>2, <1>3, <1>4, <1>5, <1>6 DEF EventsNext

\* The sum of the amounts is a sum of numbers.
AmountsOver(S) ==
  CHOOSE iter : iter = [s \in SUBSET S |->
    IF s = {} THEN 0 ELSE Pick(s).amount + iter[s \ {Pick(s)}]]

LEMMA TotalIsASum ==
  ASSUME NEW S, IsFiniteSet(S), \A x \in S : x.amount \in Nat
  PROVE  TotalAmount(S) = Sums([x \in S |-> x.amount], S)[S]
<1> DEFINE f == [x \in S |-> x.amount]
           Solves(iter) == iter = [s \in SUBSET S |->
              IF s = {} THEN 0 ELSE Pick(s).amount + iter[s \ {Pick(s)}]]
<1>1. TotalAmount(S) = AmountsOver(S)[S]
  BY DEF TotalAmount, FoldSet, MapThenFoldSet, AmountsOver, Pick
<1>2. \A s \in SUBSET S : s # {} => Pick(s) \in s /\ f[Pick(s)] = Pick(s).amount
  <2> TAKE s \in SUBSET S
  <2>1. s # {} => Pick(s) \in s
    BY DEF Pick
  <2> QED
    BY <2>1
<1>3. f \in [S -> Nat]
  OBVIOUS
<1> HIDE DEF f
<1>4. Solves(Sums(f, S))
  <2> DEFINE iter == Sums(f, S)
  <2>1. iter = [s \in SUBSET S |-> IF s = {} THEN 0 ELSE f[Pick(s)] + iter[s \ {Pick(s)}]]
    BY SumsExist DEF SumsOver
  <2> HIDE DEF iter
  <2>2. \A s \in SUBSET S : (IF s = {} THEN 0 ELSE f[Pick(s)] + iter[s \ {Pick(s)}]) =
                            (IF s = {} THEN 0 ELSE Pick(s).amount + iter[s \ {Pick(s)}])
    BY <1>2
  <2>3. [s \in SUBSET S |-> IF s = {} THEN 0 ELSE f[Pick(s)] + iter[s \ {Pick(s)}]] =
        [s \in SUBSET S |-> IF s = {} THEN 0 ELSE Pick(s).amount + iter[s \ {Pick(s)}]]
    BY <2>2
  <2>4. Solves(iter)
    BY <2>1, <2>3
  <2> QED
    BY <2>4 DEF iter
<1>5. Solves(AmountsOver(S))
  <2>1. \E iter : Solves(iter)
    BY <1>4
  <2> QED
    BY <2>1, Zenon DEF AmountsOver
<1> DEFINE total == AmountsOver(S)
<1> HIDE DEF total
<1>6. \A s \in SUBSET S : total[s] = IF s = {} THEN 0 ELSE Pick(s).amount + total[s \ {Pick(s)}]
  <2> TAKE s \in SUBSET S
  <2>1. total = [t \in SUBSET S |-> IF t = {} THEN 0 ELSE Pick(t).amount + total[t \ {Pick(t)}]]
    BY <1>5, Zenon DEF total
  <2> DEFINE value(t) == IF t = {} THEN 0 ELSE Pick(t).amount + total[t \ {Pick(t)}]
  <2> HIDE DEF value
  <2>2. total = [t \in SUBSET S |-> value(t)]
    BY <2>1, Zenon DEF value
  <2>3. [t \in SUBSET S |-> value(t)][s] = value(s)
    OBVIOUS
  <2>4. total[s] = value(s)
    BY <2>2, <2>3, Zenon
  <2> QED
    BY <2>4 DEF value
<1> DEFINE T == {s \in SUBSET S : total[s] = Sums(f, S)[s]}
<1>7. {} \in T
  <2>1. Sums(f, S)[{}] = 0
    BY <1>3, SumsAreNumbers
  <2>2. {} \in SUBSET S /\ total[{}] = 0
    BY <1>6
  <2> QED
    BY <2>1, <2>2
<1>8. ASSUME NEW s \in SUBSET S, s # {}, \A x \in s : s \ {x} \in T
      PROVE  s \in T
  <2>1. Pick(s) \in s /\ f[Pick(s)] = Pick(s).amount
    BY <1>2, <1>8
  <2>2. total[s \ {Pick(s)}] = Sums(f, S)[s \ {Pick(s)}]
    BY <1>8, <2>1
  <2>3. Sums(f, S)[s] = f[Pick(s)] + Sums(f, S)[s \ {Pick(s)}]
    BY <1>8, SumsRecur
  <2>4. total[s] = Pick(s).amount + total[s \ {Pick(s)}]
    BY <1>6, <1>8
  <2> QED
    BY <2>1, <2>2, <2>3, <2>4
<1>9. \A s \in SUBSET S : s \in T
  <2> HIDE DEF T
  <2> QED
    BY <1>7, <1>8, SubsetInduction
<1>10. total[S] = Sums(f, S)[S]
  BY <1>9
<1> QED
  BY <1>1, <1>10 DEF total, f

\* The fold over three events adds up their amounts.
LEMMA TotalOfThree ==
  ASSUME NEW a, NEW b, NEW c, a # b, a # c, b # c,
         a.amount \in Nat, b.amount \in Nat, c.amount \in Nat
  PROVE  TotalAmount({a, b, c}) = a.amount + b.amount + c.amount
<1> DEFINE S == {a, b, c}
           f == [x \in S |-> x.amount]
<1>1. IsFiniteSet(S)
  <2>1. IsFiniteSet({a})
    BY FS_Singleton
  <2>2. IsFiniteSet({a} \cup {b})
    BY <2>1, FS_AddElement
  <2>3. IsFiniteSet(({a} \cup {b}) \cup {c})
    BY <2>2, FS_AddElement
  <2>4. S = ({a} \cup {b}) \cup {c}
    OBVIOUS
  <2> QED
    BY <2>3, <2>4, Zenon
<1>2. \A x \in S : x.amount \in Nat
  OBVIOUS
<1>3. f \in [S -> Nat] /\ f[a] = a.amount /\ f[b] = b.amount /\ f[c] = c.amount
  BY <1>2
<1>4. TotalAmount(S) = Sums(f, S)[S]
  BY <1>1, <1>2, TotalIsASum
<1>5. /\ S \in SUBSET S /\ a \in S /\ S \ {a} = {b, c}
      /\ {b, c} \in SUBSET S /\ b \in {b, c} /\ {b, c} \ {b} = {c}
      /\ {c} \in SUBSET S /\ c \in {c} /\ {c} \ {c} = {}
  OBVIOUS
<1> HIDE DEF S, f
<1>6. Sums(f, S)[S] = f[a] + Sums(f, S)[S \ {a}]
  BY <1>1, <1>3, <1>5, SumsApart
<1>7. Sums(f, S)[{b, c}] = f[b] + Sums(f, S)[{b, c} \ {b}]
  BY <1>1, <1>3, <1>5, SumsApart
<1>8. Sums(f, S)[{c}] = f[c] + Sums(f, S)[{c} \ {c}]
  BY <1>1, <1>3, <1>5, SumsApart
<1>9. Sums(f, S)[{}] = 0
  BY <1>1, <1>3, SumsAreNumbers
<1>10. Sums(f, S)[S] = a.amount + (b.amount + (c.amount + 0))
  BY <1>3, <1>5, <1>6, <1>7, <1>8, <1>9
<1> QED
  BY <1>4, <1>10 DEF S

\* The first m events of a numbered stream are m events.
Counted(s, m) == \A i \in 1..m : s[i].id[2] = i

FirstOf(s, m) == {s[i] : i \in 1..m}

LEMMA EventsApart ==
  ASSUME NEW s, NEW m \in Nat, Counted(s, m)
  PROVE  Cardinality(FirstOf(s, m)) = m
<1> DEFINE T == {s[i] : i \in 1..m}
           g == [i \in 1..m |-> s[i]]
<1>1. IsFiniteSet(1..m) /\ Cardinality(1..m) = m
  BY FS_Interval
<1>2. g \in [1..m -> T] /\ \A t \in T : \E i \in 1..m : g[i] = t
  OBVIOUS
<1>3. \A i, j \in 1..m : g[i] = g[j] => i = j
  BY DEF Counted
<1> HIDE DEF g, T
<1> DEFINE I == 1..m
<1>4. IsFiniteSet(I) /\ g \in [I -> T] /\ (\A t \in T : \E i \in I : g[i] = t)
      /\ \A i, j \in I : g[i] = g[j] => i = j
  BY <1>1, <1>2, <1>3
<1> HIDE DEF I
<1>5. /\ IsFiniteSet(T)
      /\ (\A i, j \in I : g[i] = g[j] => i = j) => Cardinality(T) = Cardinality(I)
  BY <1>4, ImageIsFinite, Zenon
<1>6. IsFiniteSet(T) /\ Cardinality(T) = m
  BY <1>1, <1>4, <1>5 DEF I
<1> QED
  BY <1>6 DEF T, FirstOf

\* What raises a flag is a signal.
LEMMA FlagsAreRaised ==
  ASSUME NEW S, NEW e
  PROVE  /\ \A reason : reason \in Flag(reason, TRUE)
         /\ \A reason : reason \in RetrySignals(S, e) \cup DeviceSignals(S, e)
                          \cup AddressSignals(S, e) \cup GeographySignals(S, e)
                          \cup MerchantSignals(S, e) \cup AmountSignals(S, e) =>
              reason \in Evidence(S, e).signals
<1>1. \A reason : reason \in Flag(reason, TRUE)
  BY DEF Flag
<1>2. Evidence(S, e).signals = RetrySignals(S, e) \cup DeviceSignals(S, e) \cup AddressSignals(S, e)
                \cup PaymentMethodSignals(S, e) \cup GeographySignals(S, e)
                \cup MerchantSignals(S, e) \cup AmountSignals(S, e)
  BY DEF Evidence
<1> QED
  BY <1>1, <1>2

\* Events of one window.
LEMMA InTheWindow ==
  ASSUME NEW S, NEW e, \A x \in S : e.time - Hour <= x.time /\ x.time <= e.time,
         e.time \in Nat, \A x \in S : x.time \in Nat
  PROVE  Window(S, e.time, Hour) = S /\ LookBack(S, e) = S
<1>1. \A x \in S : e.time - Day <= x.time
  BY DEF Hour, Day
<1> QED
  BY <1>1 DEF Window, LookBack

\* The last device of a burst is new if no earlier token repeats it.
LEMMA BurstShows ==
  ASSUME NEW start \in Nat, NEW draw, NEW s, s = DeviceBurst(start, draw),
         \A i \in 1..5 : s[i].device # s[6].device
  PROVE  "device_new_to_account" \in Evidence({s[i] : i \in 1..6}, s[6]).signals
<1> DEFINE S == {s[i] : i \in 1..6}
           e == s[6]
<1>1. \A i \in 1..6 : i \in 1..5 \/ i = 6
  OBVIOUS
<1>2. \A x \in S : x.device = e.device => x = e
  BY <1>1
<1> HIDE DEF S, e
<1>3. Others(SameIn(LookBack(S, e), "device", e), e) = {}
  BY <1>2 DEF Others, SameIn, LookBack, Window
<1>4. IsNew(S, "device", e)
  BY <1>3 DEF IsNew
<1>5. "device_new_to_account" \in DeviceSignals(S, e)
  BY <1>4 DEF DeviceSignals, Flag
<1>6. "device_new_to_account" \in Evidence(S, e).signals
  BY <1>5, FlagsAreRaised
<1> QED
  BY <1>6 DEF S, e

\* Five events at one address within an hour fan out to their accounts.
LEMMA FanOutShows ==
  ASSUME NEW start \in Nat, NEW draw, NEW s, s = AddressFanOut(start, draw),
         Cardinality(Accounts({s[i] : i \in 1..5})) > 3
  PROVE  "address_fan_out_high" \in Evidence({s[i] : i \in 1..5}, s[5]).signals
<1> DEFINE S == {s[i] : i \in 1..5}
           e == s[5]
<1>1. /\ \A i \in 1..5 : /\ s[i].time = start + 5 * (i - 1) /\ s[i].time \in Nat
                         /\ s[i].address = 0
  BY FanOutIs DEF Timed, Numbered
<1>2. e.time = start + 20 /\ e.time \in Nat /\ e.address = 0
  BY <1>1
<1>3. \A x \in S : /\ e.time - Hour <= x.time /\ x.time <= e.time /\ x.time \in Nat
                   /\ x.address = e.address
  BY <1>1, <1>2 DEF Hour
<1>4. Cardinality(Accounts(S)) > 3
  OBVIOUS
<1> HIDE DEF S, e
<1>5. LookBack(S, e) = S
  BY <1>2, <1>3, InTheWindow
<1>6. SameIn(S, "address", e) = S
  BY <1>3 DEF SameIn
<1>7. FanOut(S, "address", e) > FanOutThreshold
  BY <1>4, <1>5, <1>6 DEF FanOut, FanOutThreshold
<1>8. "address_fan_out_high" \in AddressSignals(S, e)
  BY <1>7 DEF AddressSignals, Flag
<1>9. "address_fan_out_high" \in Evidence(S, e).signals
  BY <1>8, FlagsAreRaised
<1> QED
  BY <1>9 DEF S, e

\* A foreign address behind a VPN is seen without any history.
LEMMA VpnShows ==
  ASSUME NEW start \in Nat, NEW draw, NEW s, s = VpnMismatch(start, draw), NEW S
  PROVE  {"geography_country_mismatch", "geography_vpn_or_proxy"} \subseteq Evidence(S, s[4]).signals
<1> DEFINE e == s[4]
<1>0. 4 \in 1..4
  OBVIOUS
<1>1. e.home = "IN" /\ e.country = "US" /\ e.vpn = TRUE
  BY <1>0, VpnIs, Zenon
<1>2. e.vpn = TRUE
  BY <1>1
<1> HIDE DEF e
<1>3. e.home # e.country
  BY <1>1
<1>4. {"geography_country_mismatch", "geography_vpn_or_proxy"} \subseteq GeographySignals(S, e)
  <2>1. "geography_country_mismatch" \in Flag("geography_country_mismatch", e.home # e.country)
    BY <1>3 DEF Flag
  <2>2. "geography_vpn_or_proxy" \in Flag("geography_vpn_or_proxy", e.vpn)
    BY <1>2, FlagsAreRaised, Zenon
  <2> QED
    BY <2>1, <2>2, Zenon DEF GeographySignals
<1>5. \A reason \in GeographySignals(S, e) : reason \in Evidence(S, e).signals
  BY FlagsAreRaised
<1> QED
  BY <1>4, <1>5 DEF e

\* Four declined attempts and a success make a retry group of five with four failures.
LEMMA StormShows ==
  ASSUME NEW start \in Nat, NEW draw, NEW s, s = RetryStorm(start, draw)
  PROVE  {"retry_group_size_high", "retry_account_failure_count_high"} \subseteq
           Evidence({s[i] : i \in 1..5}, s[5]).signals
<1> DEFINE S == {s[i] : i \in 1..5}
           F == {s[i] : i \in 1..4}
           e == s[5]
<1>1. \A i \in 1..5 : /\ s[i].time = start + 5 * (i - 1) /\ s[i].time \in Nat
                      /\ s[i].account = 0 /\ s[i].group = "retry" /\ s[i].id[2] = i
                      /\ s[i].outcome = IF i = 5 THEN "success" ELSE "declined"
  BY StormIs DEF Timed, Numbered
<1>2. e.time = start + 20 /\ e.time \in Nat /\ e.account = 0 /\ e.group = "retry" /\ e.outcome = "success"
  BY <1>1
<1>3. \A x \in S : /\ e.time - Hour <= x.time /\ x.time <= e.time /\ x.time \in Nat
                   /\ x.account = e.account /\ x.group = e.group
  BY <1>1, <1>2 DEF Hour
<1>4. Cardinality(S) = 5 /\ Cardinality(F) = 4
  <2>1. \A i \in 1..5 : s[i].id[2] = i
    BY <1>1
  <2>2. \A i \in 1..4 : s[i].id[2] = i
    BY <2>1
  <2>3. PICK m \in Nat : m = 5
    OBVIOUS
  <2>4. PICK k \in Nat : k = 4
    OBVIOUS
  <2>5. Counted(s, m) /\ Counted(s, k)
    BY <2>1, <2>2, <2>3, <2>4, SMT DEF Counted
  <2>6. Cardinality(FirstOf(s, m)) = m /\ Cardinality(FirstOf(s, k)) = k
    BY <2>5, EventsApart
  <2> QED
    BY <2>3, <2>4, <2>6, Zenon DEF FirstOf
<1>5. F = {x \in S : x.outcome \in FailedOutcomes}
  <2>1. \A i \in 1..5 : i \in 1..4 \/ i = 5
    OBVIOUS
  <2>2. \A i \in 1..4 : s[i] \in S /\ s[i].outcome = "declined"
    BY <1>1
  <2>3. \A x \in S : x \in F \/ x = e
    BY <2>1
  <2>4. \A x \in F : x \in S /\ x.outcome = "declined"
    BY <2>2
  <2> HIDE DEF S, F, e
  <2> QED
    BY <1>2, <2>3, <2>4 DEF FailedOutcomes
<1> HIDE DEF S, F, e
<1>6. Window(S, e.time, Hour) = S
  BY <1>2, <1>3, InTheWindow
<1>7. RetryGroup(S, e) = S
  BY <1>2, <1>3, <1>6 DEF RetryGroup
<1>8. SameIn(S, "account", e) = S
  BY <1>3 DEF SameIn
<1>9. AccountFailures(S, e) = F
  BY <1>5, <1>6, <1>8 DEF AccountFailures
<1>10. {"retry_group_size_high", "retry_account_failure_count_high"} \subseteq RetrySignals(S, e)
  BY <1>4, <1>7, <1>9 DEF RetrySignals, Flag
<1>11. \A reason \in RetrySignals(S, e) : reason \in Evidence(S, e).signals
  BY FlagsAreRaised
<1> QED
  BY <1>10, <1>11 DEF S, e

\* Five of seven payments to one merchant fail.
LEMMA MerchantShows ==
  ASSUME NEW start \in Nat, NEW draw, NEW s, s = MerchantDeviation(start, draw)
  PROVE  "merchant_failure_rate_high" \in Evidence({s[i] : i \in 1..7}, s[7]).signals
<1> DEFINE S == {s[i] : i \in 1..7}
           F == {s[i] : i \in 1..5}
           e == s[7]
<1>1. \A i \in 1..7 : /\ s[i].time = start + 60 * (i - 1) /\ s[i].time \in Nat
                      /\ s[i].merchant = 0 /\ s[i].id[2] = i
                      /\ s[i].outcome = IF i <= 5 THEN "declined" ELSE "success"
  BY MerchantIs DEF Timed, Numbered
<1>2. e.time = start + 360 /\ e.time \in Nat /\ e.merchant = 0
  BY <1>1
<1>3. \A x \in S : /\ e.time - Hour <= x.time /\ x.time <= e.time /\ x.time \in Nat
                   /\ x.merchant = e.merchant
  BY <1>1, <1>2 DEF Hour
<1>4. Cardinality(S) = 7 /\ Cardinality(F) = 5
  <2>1. \A i \in 1..7 : s[i].id[2] = i
    BY <1>1
  <2>2. \A i \in 1..5 : s[i].id[2] = i
    BY <2>1
  <2>3. PICK m \in Nat : m = 7
    OBVIOUS
  <2>4. PICK k \in Nat : k = 5
    OBVIOUS
  <2>5. Counted(s, m) /\ Counted(s, k)
    BY <2>1, <2>2, <2>3, <2>4, SMT DEF Counted
  <2>6. Cardinality(FirstOf(s, m)) = m /\ Cardinality(FirstOf(s, k)) = k
    BY <2>5, EventsApart
  <2> QED
    BY <2>3, <2>4, <2>6, Zenon DEF FirstOf
<1>5. F = {x \in S : x.outcome \in FailedOutcomes}
  <2>1. \A i \in 1..7 : i \in 1..5 \/ s[i].outcome = "success"
    BY <1>1
  <2>2. \A i \in 1..5 : s[i] \in S /\ s[i].outcome = "declined"
    BY <1>1
  <2>3. \A x \in S : x \in F \/ x.outcome = "success"
    BY <2>1
  <2>4. \A x \in F : x \in S /\ x.outcome = "declined"
    BY <2>2
  <2> HIDE DEF S, F, e
  <2> QED
    BY <2>3, <2>4 DEF FailedOutcomes
<1> HIDE DEF S, F, e
<1>6. LookBack(S, e) = S
  BY <1>2, <1>3, InTheWindow
<1>7. SameIn(S, "merchant", e) = S
  BY <1>3 DEF SameIn
<1>8. "merchant_failure_rate_high" \in MerchantSignals(S, e)
  <2>1. Cardinality(S) >= 5 /\ 2 * Cardinality({x \in S : x.outcome \in FailedOutcomes}) > Cardinality(S)
    BY <1>4, <1>5
  <2>2. Flag("merchant_failure_rate_high",
             Cardinality(S) >= 5 /\ 2 * Cardinality({x \in S : x.outcome \in FailedOutcomes}) > Cardinality(S))
          \subseteq MerchantSignals(S, e)
    BY <1>6, <1>7 DEF MerchantSignals
  <2> QED
    BY <2>1, <2>2 DEF Flag
<1>9. "merchant_failure_rate_high" \in Evidence(S, e).signals
  BY <1>8, FlagsAreRaised
<1> QED
  BY <1>9 DEF S, e

\* Five times the mean of three amounts is more than three times that mean.
LEMMA UnusualShows ==
  ASSUME NEW start \in Nat, NEW draw, NEW s, s = UnusualAmount(start, draw)
  PROVE  "amount_unusual_deviation_high" \in Evidence({s[i] : i \in 1..4}, s[4]).signals
<1> DEFINE S == {s[i] : i \in 1..4}
           B == {s[1], s[2], s[3]}
           e == s[4]
<1>1. /\ \A i \in 1..4 : /\ s[i].time = start + 600 * (i - 1) /\ s[i].time \in Nat
                         /\ s[i].account = 0 /\ s[i].id[2] = i
      /\ \A i \in 1..3 : s[i].amount \in {150, 450}
      /\ s[4].amount = (5 * (s[1].amount + s[2].amount + s[3].amount)) \div 3
  BY UnusualIs DEF Timed, Numbered
<1>2. e.time = start + 1800 /\ e.time \in Nat /\ e.account = 0 /\ e.id[2] = 4
  BY <1>1
<1>3. \A x \in S : /\ e.time - Hour <= x.time /\ x.time <= e.time /\ x.time \in Nat
                   /\ x.account = e.account
  BY <1>1, <1>2 DEF Hour
<1>4. /\ s[1].amount \in {150, 450} /\ s[2].amount \in {150, 450} /\ s[3].amount \in {150, 450}
      /\ s[1].id[2] = 1 /\ s[2].id[2] = 2 /\ s[3].id[2] = 3
  BY <1>1
<1>5. s[1] # s[2] /\ s[1] # s[3] /\ s[2] # s[3]
  BY <1>4
<1> DEFINE total == s[1].amount + s[2].amount + s[3].amount
<1>6. TotalAmount(B) = total /\ total \in {450, 750, 1050, 1350}
  <2>1. s[1].amount \in Nat /\ s[2].amount \in Nat /\ s[3].amount \in Nat
    BY <1>4
  <2>2. TotalAmount(B) = total
    BY <1>5, <2>1, TotalOfThree
  <2>3. total \in {450, 750, 1050, 1350}
    BY <1>4
  <2> QED
    BY <2>2, <2>3
<1>7. Cardinality(B) = 3
  <2>1. \A i \in 1..3 : s[i].id[2] = i
    BY <1>1
  <2>2. PICK m \in Nat : m = 3
    OBVIOUS
  <2>9. Counted(s, m)
    BY <2>1, <2>2, SMT DEF Counted
  <2>3. Cardinality(FirstOf(s, m)) = m
    BY <2>9, EventsApart
  <2>4. {s[i] : i \in 1..3} = B
    <3>1. \A i \in 1..3 : i = 1 \/ i = 2 \/ i = 3
      OBVIOUS
    <3>2. 1 \in 1..3 /\ 2 \in 1..3 /\ 3 \in 1..3
      OBVIOUS
    <3> QED
      BY <3>1, <3>2
  <2> QED
    BY <2>2, <2>3, <2>4, Zenon DEF FirstOf
<1>8. B = {x \in S : x.id # e.id}
  <2>1. \A x \in S : x \in B \/ x = e
    <3>1. \A i \in 1..4 : i = 1 \/ i = 2 \/ i = 3 \/ i = 4
      OBVIOUS
    <3> QED
      BY <3>1
  <2>2. \A x \in B : x \in S /\ x.id[2] # 4
    <3>1. 1 \in 1..4 /\ 2 \in 1..4 /\ 3 \in 1..4
      OBVIOUS
    <3>2. s[1] \in S /\ s[2] \in S /\ s[3] \in S
      BY <3>1
    <3> QED
      BY <1>4, <3>2
  <2> HIDE DEF S, B, e
  <2>3. \A x \in B : x.id # e.id
    BY <1>2, <2>2
  <2> QED
    BY <2>1, <2>2, <2>3
<1>9. e.amount = (5 * total) \div 3
  BY <1>1
<1> HIDE DEF S, B, e, total
<1>10. LookBack(S, e) = S
  BY <1>2, <1>3, InTheWindow
<1>11. Baseline(S, e) = B
  BY <1>3, <1>8, <1>10 DEF Baseline, Others
<1>12. B # {}
  BY <1>7, FS_EmptySet
<1>13. e.amount * 3 > 3 * total
  <2>1. e.amount \in {750, 1250, 1750, 2250} /\ e.amount * 3 = 5 * total
    BY <1>6, <1>9
  <2> QED
    BY <1>6, <2>1
<1>14. "amount_unusual_deviation_high" \in AmountSignals(S, e)
  <2>1. Flag("amount_unusual_deviation_high", B # {} /\ e.amount * Cardinality(B) > 3 * TotalAmount(B))
          = AmountSignals(S, e)
    BY <1>11 DEF AmountSignals
  <2> QED
    BY <1>6, <1>7, <1>12, <1>13, <2>1 DEF Flag
<1>15. "amount_unusual_deviation_high" \in Evidence(S, e).signals
  BY <1>14, FlagsAreRaised
<1> QED
  BY <1>15 DEF S, e

\* A numbered stream has one length.
LEMMA NumberedOnce ==
  ASSUME NEW s, NEW start, NEW a \in Nat, NEW b \in Nat, Numbered(s, a, start), Numbered(s, b, start)
  PROVE  a = b
<1>1. 1..a = 1..b
  BY DEF Numbered
<1>2. Cardinality(1..a) = a /\ Cardinality(1..b) = b
  BY FS_Interval
<1> QED
  BY <1>1, <1>2

\* What the store is at the end of a stream of new events.
Taken(s, n) ==
  /\ Len(arrivals) = n /\ \A i \in 1..n : arrivals[i] = s[i]
  /\ HeldEvents = {s[i] : i \in 1..n}
  /\ result.event = s[n]

\* When nothing is left to come, the store holds the stream.
LEMMA StreamIsTaken ==
  ASSUME EventsInvariant, NEW s, NEW n \in 1..7, feed.events = <<>>, Follows(s, n)
  PROVE  Taken(s, n)
<1>1. arrivals \in Seq(AllEvents) /\ Len(arrivals) \in Nat /\ DOMAIN arrivals = 1..Len(arrivals)
  BY DEF EventsInvariant, EventsShape
<1>2. Len(arrivals) = n
  BY <1>1 DEF Follows
<1>3. \A i \in 1..n : arrivals[i] = s[i]
  BY <1>2 DEF Follows
<1>4. arrivals # <<>>
  BY <1>2
<1>5. result.event = s[n]
  BY <1>2, <1>3, <1>4 DEF Follows
<1>6. HeldEvents = {arrivals[i] : i \in 1..n}
  BY <1>1, <1>2 DEF Follows, ToSet
<1>7. {arrivals[i] : i \in 1..n} = {s[i] : i \in 1..n}
  BY <1>3
<1> QED
  BY <1>2, <1>3, <1>5, <1>6, <1>7, Zenon DEF Taken

\* The third event of the scenario is behind the second, and no other is behind any.
LEMMA OneIsLate ==
  ASSUME EventsInvariant, NEW s, NEW start \in Nat, NEW draw, s = OutOfOrder(start, draw),
         Taken(s, 4)
  PROVE  {r.event.id[2] : r \in {q \in held : q.ordering = "late"}} = {3}
<1>1. /\ s[1].time = start /\ s[2].time = start + 120 /\ s[3].time = start + 30
      /\ s[4].time = start + 150
      /\ \A i \in 1..4 : s[i].id[2] = i
  BY OutOfOrderIs DEF Numbered
<1>2. /\ Len(arrivals) = 4 /\ \A i \in 1..4 : arrivals[i] = s[i]
      /\ HeldEvents = {s[i] : i \in 1..4}
  BY DEF Taken
<1>3. arrivals[1] = s[1] /\ arrivals[2] = s[2] /\ arrivals[3] = s[3] /\ arrivals[4] = s[4]
  BY <1>2
<1>4. /\ OrderingOf(1) = "in_order" /\ OrderingOf(2) = "in_order"
      /\ OrderingOf(3) = "late" /\ OrderingOf(4) = "in_order"
  <2>1. OrderingOf(1) = "in_order"
    <3>1. ~ \E j \in 1..(1 - 1) : TRUE
      OBVIOUS
    <3> QED
      BY <3>1 DEF OrderingOf
  <2>2. OrderingOf(2) = "in_order"
    <3>1. \A j \in 1..(2 - 1) : j = 1
      OBVIOUS
    <3>2. ~ \E j \in 1..(2 - 1) : arrivals[j].time > arrivals[2].time
      BY <1>1, <1>3, <3>1
    <3> QED
      BY <3>2 DEF OrderingOf
  <2>3. OrderingOf(3) = "late"
    <3>1. 2 \in 1..(3 - 1)
      OBVIOUS
    <3>2. arrivals[2].time > arrivals[3].time
      BY <1>1, <1>3
    <3> QED
      BY <3>1, <3>2 DEF OrderingOf
  <2>4. OrderingOf(4) = "in_order"
    <3>1. \A j \in 1..(4 - 1) : j = 1 \/ j = 2 \/ j = 3
      OBVIOUS
    <3>2. ~ \E j \in 1..(4 - 1) : arrivals[j].time > arrivals[4].time
      BY <1>1, <1>3, <3>1
    <3> QED
      BY <3>2 DEF OrderingOf
  <2> QED
    BY <2>1, <2>2, <2>3, <2>4
<1>5. \A r \in held : /\ r.at \in 1..4 /\ r.event = s[r.at] /\ r.ordering = OrderingOf(r.at)
  BY <1>2 DEF EventsInvariant, HeldIsLast
<1>6. \A i \in 1..4 : i = 1 \/ i = 2 \/ i = 3 \/ i = 4
  OBVIOUS
<1>7. \A r \in held : r.event.id[2] = r.at /\ (r.ordering = "late" <=> r.at = 3)
  <2> TAKE r \in held
  <2>1. r.at \in 1..4 /\ r.event = s[r.at] /\ r.ordering = OrderingOf(r.at)
    BY <1>5
  <2>2. r.event.id[2] = r.at
    BY <1>1, <2>1
  <2>3. r.at = 1 \/ r.at = 2 \/ r.at = 3 \/ r.at = 4
    BY <1>6, <2>1
  <2>4. r.ordering = "late" <=> r.at = 3
    BY <1>4, <2>1, <2>3
  <2> QED
    BY <2>2, <2>4
<1>8. PICK late \in held : late.event = s[3]
  <2>1. s[3] \in HeldEvents
    BY <1>2
  <2> QED
    BY <2>1 DEF HeldEvents
<1>9. late.event.id[2] = 3
  BY <1>1, <1>8
<1>10. late \in {q \in held : q.ordering = "late"}
  BY <1>7, <1>8, <1>9
<1>11. \A r \in {q \in held : q.ordering = "late"} : r.event.id[2] = 3
  BY <1>7
<1> QED
  BY <1>9, <1>10, <1>11

\* What a scenario has shown when its stream has been taken.
Shown(scenario) ==
  /\ DrawsSuffice => Promised(scenario) \subseteq Evidence(HeldEvents, result.event).signals
  /\ scenario = "out_of_order" =>
       {r.event.id[2] : r \in {q \in held : q.ordering = "late"}} = {3}

\* Scenario by scenario, what was taken shows its pattern.
LEMMA TakenIsShown ==
  ASSUME EventsInvariant, NEW scenario \in Scenarios, scenario = feed.scenario,
         scenario # "duplicate", NEW draw, NEW n \in 1..7, NEW s,
         s = Stream(scenario, clock, draw), Numbered(s, n, clock), Taken(s, n)
  PROVE  Shown(scenario)
<1>1. clock \in Nat /\ n \in Nat
  BY DEF EventsInvariant, EventsShape
<1>2. PICK start \in Nat : start = clock
  BY <1>1
<1>3. PICK S : S = HeldEvents
  OBVIOUS
<1>4. PICK e : e = result.event
  OBVIOUS
<1>5. SUFFICES /\ DrawsSuffice => Promised(scenario) \subseteq Evidence(S, e).signals
               /\ scenario = "out_of_order" =>
                    {r.event.id[2] : r \in {q \in held : q.ordering = "late"}} = {3}
  BY <1>3, <1>4, Zenon DEF Shown
<1>6. /\ Len(arrivals) = n /\ \A i \in 1..n : arrivals[i] = s[i]
      /\ S = {s[i] : i \in 1..n} /\ e = s[n]
  BY <1>3, <1>4, Zenon DEF Taken
<1>7. Numbered(s, n, start) /\ s = Stream(scenario, start, draw)
  BY <1>2, Zenon
<1>10. CASE scenario = "new_device_burst"
  <2>1. s = DeviceBurst(start, draw)
    BY <1>7, <1>10 DEF Stream
  <2>2. Numbered(s, 6, start)
    BY <2>1, BurstIs
  <2>3. n = 6
    BY <1>1, <1>7, <2>2, NumberedOnce
  <2>4. S = {s[i] : i \in 1..6} /\ e = s[6]
    BY <1>6, <2>3, Zenon
  <2>5. Promised(scenario) = {"device_new_to_account"}
    BY <1>10 DEF Promised
  <2>6. ASSUME DrawsSuffice PROVE "device_new_to_account" \in Evidence(S, e).signals
    <3>1. \A i \in 1..(Len(arrivals) - 1) : arrivals[i].device # result.event.device
      BY <1>10, <2>6 DEF DrawsSuffice
    <3>2. \A i \in 1..5 : i \in 1..(Len(arrivals) - 1) /\ arrivals[i] = s[i]
      BY <1>6, <2>3
    <3>3. \A i \in 1..5 : s[i].device # s[6].device
      BY <1>4, <2>4, <3>1, <3>2
    <3>4. "device_new_to_account" \in Evidence({s[i] : i \in 1..6}, s[6]).signals
      BY <2>1, <3>3, BurstShows
    <3> QED
      BY <2>4, <3>4, Zenon
  <2>7. scenario # "out_of_order"
    BY <1>10
  <2> QED
    BY <2>5, <2>6, <2>7, Zenon
<1>11. CASE scenario = "address_fan_out"
  <2>1. s = AddressFanOut(start, draw)
    BY <1>7, <1>11 DEF Stream
  <2>2. Numbered(s, 5, start)
    BY <2>1, FanOutIs
  <2>3. n = 5
    BY <1>1, <1>7, <2>2, NumberedOnce
  <2>4. S = {s[i] : i \in 1..5} /\ e = s[5]
    BY <1>6, <2>3, Zenon
  <2>5. Promised(scenario) = {"address_fan_out_high"}
    BY <1>11 DEF Promised
  <2>6. ASSUME DrawsSuffice PROVE "address_fan_out_high" \in Evidence(S, e).signals
    <3>1. Cardinality(Accounts(HeldEvents)) > 3
      BY <1>11, <2>6 DEF DrawsSuffice
    <3>2. Cardinality(Accounts({s[i] : i \in 1..5})) > 3
      BY <1>3, <2>4, <3>1, Zenon
    <3>4. "address_fan_out_high" \in Evidence({s[i] : i \in 1..5}, s[5]).signals
      BY <2>1, <3>2, FanOutShows
    <3> QED
      BY <2>4, <3>4, Zenon
  <2>7. scenario # "out_of_order"
    BY <1>11
  <2> QED
    BY <2>5, <2>6, <2>7, Zenon
<1>12. CASE scenario = "vpn_geography_mismatch"
  <2>1. s = VpnMismatch(start, draw)
    BY <1>7, <1>12 DEF Stream
  <2>2. Numbered(s, 4, start)
    BY <2>1, VpnIs
  <2>3. n = 4
    BY <1>1, <1>7, <2>2, NumberedOnce
  <2>4. S = {s[i] : i \in 1..4} /\ e = s[4]
    BY <1>6, <2>3, Zenon
  <2>5. Promised(scenario) = {"geography_country_mismatch", "geography_vpn_or_proxy"}
    BY <1>12 DEF Promised
  <2>6. {"geography_country_mismatch", "geography_vpn_or_proxy"} \subseteq Evidence(S, e).signals
    <3>1. {"geography_country_mismatch", "geography_vpn_or_proxy"} \subseteq Evidence(S, s[4]).signals
      BY <2>1, VpnShows
    <3> QED
      BY <2>4, <3>1, Zenon
  <2>7. scenario # "out_of_order"
    BY <1>12
  <2> QED
    BY <2>5, <2>6, <2>7, Zenon
<1>13. CASE scenario = "retry_storm"
  <2>1. s = RetryStorm(start, draw)
    BY <1>7, <1>13 DEF Stream
  <2>2. Numbered(s, 5, start)
    BY <2>1, StormIs
  <2>3. n = 5
    BY <1>1, <1>7, <2>2, NumberedOnce
  <2>4. S = {s[i] : i \in 1..5} /\ e = s[5]
    BY <1>6, <2>3, Zenon
  <2>5. Promised(scenario) = {"retry_group_size_high", "retry_account_failure_count_high"}
    BY <1>13 DEF Promised
  <2>6. {"retry_group_size_high", "retry_account_failure_count_high"} \subseteq Evidence(S, e).signals
    <3>1. {"retry_group_size_high", "retry_account_failure_count_high"} \subseteq Evidence({s[i] : i \in 1..5}, s[5]).signals
      BY <2>1, StormShows
    <3> QED
      BY <2>4, <3>1, Zenon
  <2>7. scenario # "out_of_order"
    BY <1>13
  <2> QED
    BY <2>5, <2>6, <2>7, Zenon
<1>14. CASE scenario = "unusual_amount"
  <2>1. s = UnusualAmount(start, draw)
    BY <1>7, <1>14 DEF Stream
  <2>2. Numbered(s, 4, start)
    <3>1. Numbered(UnusualAmount(start, draw), 4, start)
      BY UnusualIs, Zenon
    <3> QED
      BY <2>1, <3>1
  <2>3. n = 4
    BY <1>1, <1>7, <2>2, NumberedOnce
  <2>4. S = {s[i] : i \in 1..4} /\ e = s[4]
    BY <1>6, <2>3, Zenon
  <2>5. Promised(scenario) = {"amount_unusual_deviation_high"}
    BY <1>14 DEF Promised
  <2>6. "amount_unusual_deviation_high" \in Evidence(S, e).signals
    <3>1. "amount_unusual_deviation_high" \in Evidence({s[i] : i \in 1..4}, s[4]).signals
      BY <2>1, UnusualShows
    <3> QED
      BY <2>4, <3>1, Zenon
  <2>7. scenario # "out_of_order"
    BY <1>14
  <2> QED
    BY <2>5, <2>6, <2>7, Zenon
<1>15. CASE scenario = "merchant_deviation"
  <2>1. s = MerchantDeviation(start, draw)
    BY <1>7, <1>15 DEF Stream
  <2>2. Numbered(s, 7, start)
    BY <2>1, MerchantIs
  <2>3. n = 7
    BY <1>1, <1>7, <2>2, NumberedOnce
  <2>4. S = {s[i] : i \in 1..7} /\ e = s[7]
    BY <1>6, <2>3, Zenon
  <2>5. Promised(scenario) = {"merchant_failure_rate_high"}
    BY <1>15 DEF Promised
  <2>6. "merchant_failure_rate_high" \in Evidence(S, e).signals
    <3>1. "merchant_failure_rate_high" \in Evidence({s[i] : i \in 1..7}, s[7]).signals
      BY <2>1, MerchantShows
    <3> QED
      BY <2>4, <3>1, Zenon
  <2>7. scenario # "out_of_order"
    BY <1>15
  <2> QED
    BY <2>5, <2>6, <2>7, Zenon
<1>16. CASE scenario = "normal_baseline"
  <2>1. Promised(scenario) = {} /\ scenario # "out_of_order"
    BY <1>16 DEF Promised
  <2> QED
    BY <2>1, Zenon
<1>17. CASE scenario = "out_of_order"
  <2>1. s = OutOfOrder(start, draw)
    BY <1>7, <1>17 DEF Stream
  <2>2. Numbered(s, 4, start)
    BY <2>1, OutOfOrderIs
  <2>3. n = 4
    BY <1>1, <1>7, <2>2, NumberedOnce
  <2>4. Taken(s, 4)
    BY <2>3, Zenon
  <2>5. {r.event.id[2] : r \in {q \in held : q.ordering = "late"}} = {3}
    BY <2>1, <2>4, OneIsLate
  <2>6. Promised(scenario) = {}
    BY <1>17 DEF Promised
  <2> QED
    BY <2>5, <2>6, Zenon
<1> QED
  BY <1>10, <1>11, <1>12, <1>13, <1>14, <1>15, <1>16, <1>17, Zenon DEF Scenarios

\* The replay invariant implies the property.
LEMMA PatternsAreShown == EventsInvariant /\ ReplayInvariant => ScenariosShowTheirPattern
<1> SUFFICES ASSUME EventsInvariant, ReplayInvariant, feed.scenario # "none", feed.events = <<>>
             PROVE  /\ DrawsSuffice => Promised(feed.scenario) \subseteq
                                         Evidence(HeldEvents, result.event).signals
                    /\ feed.scenario = "duplicate" => result.status = "duplicate"
                    /\ feed.scenario = "out_of_order" =>
                         {r.event.id[2] : r \in {q \in held : q.ordering = "late"}} = {3}
  BY DEF ScenariosShowTheirPattern
<1>1. feed.scenario \in Scenarios
  BY DEF ReplayInvariant
<1>2. CASE Repeated
  <2>1. feed.scenario = "duplicate" /\ result.status = "duplicate"
    BY <1>2 DEF Repeated
  <2>2. Promised(feed.scenario) = {} /\ feed.scenario # "out_of_order"
    BY <2>1 DEF Promised
  <2> QED
    BY <2>1, <2>2, Zenon
<1>3. CASE ~Repeated
  <2>1. PICK draw \in Draws, n \in 1..7 :
           /\ Drawn(feed.scenario, Stream(feed.scenario, clock, draw), n, clock)
           /\ Follows(Stream(feed.scenario, clock, draw), n)
    BY <1>3, Zenon DEF ReplayInvariant
  <2>2. PICK s : s = Stream(feed.scenario, clock, draw)
    OBVIOUS
  <2>3. PICK scenario \in Scenarios : scenario = feed.scenario
    BY <1>1
  <2>4. /\ Drawn(scenario, s, n, clock) /\ Follows(s, n)
        /\ s = Stream(scenario, clock, draw)
    BY <2>1, <2>2, <2>3, Zenon
  <2>5. Len(arrivals) = n
    <3>1. Len(arrivals) \in Nat
      BY DEF EventsInvariant, EventsShape
    <3> QED
      BY <2>4, <3>1 DEF Follows
  <2>6. scenario # "duplicate"
    BY <2>3, <2>4, <2>5 DEF Drawn, Follows
  <2>7. Numbered(s, n, clock)
    BY <2>4, <2>6, Zenon DEF Drawn
  <2>8. Taken(s, n)
    BY <2>4, StreamIsTaken
  <2>9. Shown(scenario)
    BY <2>3, <2>4, <2>6, <2>7, <2>8, TakenIsShown
  <2> QED
    BY <2>3, <2>6, <2>9, Zenon DEF Shown
<1> QED
  BY <1>2, <1>3

\* Whatever tokens are drawn and at whatever instant of the clock a scenario is
\* generated, once its stream has been replayed the store's features raise the
\* signals it is there to show (unless the drawn tokens collide), the repeated
\* event of "duplicate" is a duplicate, and exactly the third event of
\* "out_of_order" is late.  The capacity has to hold the longest stream, of seven
\* events; DEFAULT_MAX_EVENTS is 100_000.
THEOREM ScenariosAlwaysShow ==
  ASSUME MaxEvents >= 7
  PROVE  EventsSpec => []ScenariosShowTheirPattern
<1>1. EventsInit => EventsInvariant /\ ReplayInvariant
  BY EventsStart, ReplayStart
<1>2. EventsInvariant /\ ReplayInvariant /\ [EventsNext]_eventVars
        => (EventsInvariant /\ ReplayInvariant)'
  BY EventsStep, ReplayStep
<1>3. EventsInvariant /\ ReplayInvariant => ScenariosShowTheirPattern
  BY PatternsAreShown
<1> QED
  BY <1>1, <1>2, <1>3, PTL DEF EventsSpec

=============================================================================

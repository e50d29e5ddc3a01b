--------------------------- MODULE OrderIntegrity ---------------------------
(***************************************************************************)
(* The order-integrity reference (src/order_integrity): a server quotes a  *)
(* cart from its trusted catalog, and confirmations of a captured amount   *)
(* are verified against the quote.  Confirmations come in any order, more  *)
(* than once and for any quote; quotes are altered after they were issued; *)
(* prices and catalog versions change in between.                          *)
(*                                                                         *)
(* A cart is a sequence of lines; a digest of a cart is its merged form,   *)
(* which the SHA-256 of the code stands for.                               *)
(***************************************************************************)
EXTENDS Integers, Sequences, FiniteSets, FiniteSetsExt

CONSTANTS
  Carts,        \* client payloads: sequences of [sku, quantity]
  Tables,       \* trusted catalogs: functions from SKUs to prices
  Versions,     \* catalog versions
  QuoteIds,     \* quote ids
  EventIds,     \* confirmation event ids
  Amounts,      \* captured amounts
  Times,        \* sequence numbers
  Validity,     \* validity_sequences
  MaxQuantity,  \* MAX_QUANTITY_PER_LINE
  MaxLines,     \* MAX_LINES_PER_CART
  MaxTotal      \* MAX_TOTAL_MINOR

ASSUME OrderAssumption ==
  /\ Amounts \subseteq Int /\ Times \subseteq Nat
  /\ {Validity, MaxQuantity, MaxLines, MaxTotal} \subseteq Nat
  /\ \A cart \in Carts : \A i \in DOMAIN cart : cart[i].quantity \in Int

VARIABLES
  prices,    \* the trusted catalog handed to the verifier
  version,   \* active_catalog_version
  quotes,    \* issued quotes, as they are now
  outcomes,  \* ConfirmationLedger._events
  settled,   \* ConfirmationLedger._settled_quotes
  asked,     \* history: the cart a quote was issued for, when, and the version
  captured   \* history: what a verified event was judged by

orderVars == <<prices, version, quotes, outcomes, settled, asked, captured>>

-----------------------------------------------------------------------------
(* Carts *)

SkusOf(lines) == {lines[i].sku : i \in DOMAIN lines}

QuantityOf(lines, sku) ==
  MapThenSumSet(LAMBDA i : lines[i].quantity, {i \in DOMAIN lines : lines[i].sku = sku})

\* canonical_cart: quantities merged per SKU.
Merged(lines) == [sku \in SkusOf(lines) |-> QuantityOf(lines, sku)]

CartDigest(lines) == Merged(lines)

\* parse_client_lines: the bound on quantities holds for the merged cart.
ParseAccepts(lines) ==
  /\ Len(lines) \in 1..MaxLines
  /\ \A i \in DOMAIN lines : lines[i].quantity \in 1..MaxQuantity
  /\ \A sku \in SkusOf(lines) : Merged(lines)[sku] <= MaxQuantity

PriceOf(cart, table) == MapThenSumSet(LAMBDA sku : table[sku] * cart[sku], DOMAIN cart)

AmountOf(lines, table) == PriceOf(Merged(lines), table)

\* reconstruct_amount_minor raises unless every line is priced and in bounds.
Reconstructible(lines, table) ==
  /\ SkusOf(lines) \subseteq DOMAIN table
  /\ \A sku \in SkusOf(lines) :
       table[sku] >= 0 /\ Merged(lines)[sku] \in 1..MaxQuantity
  /\ AmountOf(lines, table) <= MaxTotal

-----------------------------------------------------------------------------
(* Quotes *)

NoQuote   == [issued |-> FALSE]
NoTable   == [unavailable |-> TRUE]
Malformed == -1  \* a captured amount that is not an integer

OrderInit ==
  /\ prices = CHOOSE t \in Tables : TRUE
  /\ version = CHOOSE v \in Versions : TRUE
  /\ quotes = [q \in QuoteIds |-> NoQuote]
  /\ outcomes = [e \in {} |-> "none"]
  /\ settled = {}
  /\ asked = [q \in {} |-> "none"]
  /\ captured = [e \in {} |-> "none"]

\* parse_client_lines and build_quote.
IssueQuote(q, cart, at) ==
  /\ quotes[q] = NoQuote
  /\ prices # NoTable
  /\ ParseAccepts(cart)
  /\ Reconstructible(cart, prices)
  /\ quotes' = [quotes EXCEPT ![q] =
                  [issued |-> TRUE, digest |-> CartDigest(cart), version |-> version,
                   expected |-> AmountOf(cart, prices), lines |-> cart,
                   from |-> at, until |-> at + Validity]]
  /\ asked' = [x \in DOMAIN asked \cup {q} |->
                 IF x = q THEN [cart |-> cart, version |-> version, at |-> at]
                 ELSE asked[x]]
  /\ UNCHANGED <<prices, version, outcomes, settled, captured>>

\* Whoever holds a quote presents it with other lines, another amount or both.
AlterQuote(q, cart, amount) ==
  /\ quotes[q].issued
  /\ quotes' = [quotes EXCEPT ![q].lines = cart, ![q].expected = amount]
  /\ UNCHANGED <<prices, version, outcomes, settled, asked, captured>>

\* Prices change with or without a new version, or cannot be read.
ChangeCatalog(table, v) ==
  /\ prices' = table
  /\ version' = v
  /\ UNCHANGED <<quotes, outcomes, settled, asked, captured>>

-----------------------------------------------------------------------------
(* Confirmations *)

Verified == "integrity_verified_for_downstream_handling"
Mismatch == "integrity_mismatch_review_required"
Closed   == "integrity_unavailable_fail_closed"
Invalid  == "integrity_invalid_request"

Says(outcome, reason) == [outcome |-> outcome, reason |-> reason]

\* ConfirmationLedger.record
RecordOutcome(e, q, said, amount, at) ==
  /\ outcomes' = [x \in DOMAIN outcomes \cup {e} |->
                    IF x = e THEN [outcome |-> said.outcome, reason |-> said.reason,
                                   quote |-> q]
                    ELSE outcomes[x]]
  /\ IF said.outcome = Verified
     THEN /\ settled' = settled \cup {q}
          /\ captured' = [x \in DOMAIN captured \cup {e} |->
                            IF x = e THEN [amount |-> amount, at |-> at, prices |-> prices,
                                           version |-> version]
                            ELSE captured[x]]
     ELSE UNCHANGED <<settled, captured>>

\* Faulty: only the event id is looked up, never its quote.
NeverSettled(q) == FALSE

IsSettled(q) == q \in settled

\* Faulty: the quote is taken for unaltered when its total still adds up.
SameTotal(quote) == AmountOf(quote.lines, prices) = quote.expected

\* The lines presented are those the quote was issued for.
SameLines(quote) == CartDigest(quote.lines) = quote.digest

\* The checks of verify_confirmation for an issued quote, in their order.
Judge(q, quote, amount, sameCurrency, at) ==
  IF prices = NoTable THEN Says(Closed, "trusted_catalog_unavailable")
  ELSE IF IsSettled(q) THEN Says(Mismatch, "quote_already_settled")
  ELSE IF at < quote.from THEN Says(Mismatch, "out_of_order_confirmation")
  ELSE IF at > quote.until THEN Says(Mismatch, "expired_quote")
  ELSE IF quote.version # version THEN Says(Mismatch, "stale_catalog_version")
  ELSE IF ~sameCurrency THEN Says(Mismatch, "currency_mismatch")
  ELSE IF amount = Malformed THEN Says(Invalid, "captured_amount_not_integer_minor_units")
  ELSE IF ~Reconstructible(quote.lines, prices) THEN Says(Closed, "reconstruction_failed")
  ELSE IF ~SameLines(quote)
       THEN Says(Mismatch, "quote_mutated_after_issue")
  ELSE IF AmountOf(quote.lines, prices) # quote.expected
       THEN Says(Mismatch, "catalog_amount_changed")
  ELSE IF amount # quote.expected THEN Says(Mismatch, "amount_mismatch")
  ELSE Says(Verified, "expected_quoted_and_captured_amounts_match")

\* An event id that was seen is answered from the ledger: no step.
ConfirmIssued(e, q, amount, sameCurrency, at) ==
  /\ e \notin DOMAIN outcomes
  /\ quotes[q].issued
  /\ RecordOutcome(e, q, Judge(q, quotes[q], amount, sameCurrency, at),
                   amount, at)
  /\ UNCHANGED <<prices, version, quotes, asked>>

ConfirmUnknown(e, amount) ==
  /\ e \notin DOMAIN outcomes
  /\ RecordOutcome(e, "none", Says(Mismatch, "unknown_quote"), amount, 0)
  /\ UNCHANGED <<prices, version, quotes, asked>>

OrderNext ==
  \/ \E q \in QuoteIds, cart \in Carts, at \in Times : IssueQuote(q, cart, at)
  \/ \E q \in QuoteIds, cart \in Carts, amount \in Amounts : AlterQuote(q, cart, amount)
  \/ \E table \in Tables \cup {NoTable}, v \in Versions : ChangeCatalog(table, v)
  \/ \E e \in EventIds, q \in QuoteIds, amount \in Amounts, same \in BOOLEAN, at \in Times :
       ConfirmIssued(e, q, amount, same, at)
  \/ \E e \in EventIds, amount \in Amounts : ConfirmUnknown(e, amount)

OrderSpec == OrderInit /\ [][OrderNext]_orderVars

-----------------------------------------------------------------------------
VerifiedEvents(q) ==
  {e \in DOMAIN outcomes : outcomes[e].outcome = Verified /\ outcomes[e].quote = q}

\* Of all confirmations of one quote, however many event ids it comes under
\* and whatever happens to the quote and the catalog in between, at most one is
\* eligible for fulfilment.
OneEligiblePerQuote ==
  \A q \in QuoteIds : \A e, f \in VerifiedEvents(q) : e = f

\* A verified amount is what the trusted catalog of that moment asks for the
\* cart the client sent when the quote was issued, under the version it was
\* issued for and within its validity: no altered line, altered total, change
\* of price or transient failure gets another amount through, even where
\* another cart happens to cost the same.
VerifiedIsExact ==
  \A q \in QuoteIds : \A e \in VerifiedEvents(q) :
    LET was == captured[e] IN
    /\ was.prices # NoTable
    /\ was.amount = AmountOf(asked[q].cart, was.prices)
    /\ was.version = asked[q].version
    /\ was.at \in asked[q].at..(asked[q].at + Validity)

\* Why they hold: the ledger knows every verified quote, and a quote carries
\* the digest of the cart it was issued for.
LedgerConsistent ==
  /\ DOMAIN quotes = QuoteIds
  /\ DOMAIN captured = {e \in DOMAIN outcomes : outcomes[e].outcome = Verified}
  /\ \A q \in QuoteIds :
       /\ q \in settled <=> VerifiedEvents(q) # {}
       /\ q \in settled => quotes[q].issued
       /\ quotes[q].issued =>
            /\ q \in DOMAIN asked
            /\ DOMAIN quotes[q] =
                 {"issued", "digest", "version", "expected", "lines", "from", "until"}
            /\ quotes[q].digest = CartDigest(asked[q].cart)
            /\ quotes[q].version = asked[q].version
            /\ quotes[q].from = asked[q].at
            /\ quotes[q].until = asked[q].at + Validity
            /\ asked[q].at \in Nat

=============================================================================

-------------------------- MODULE SyntheticSignals --------------------------
(***************************************************************************)
(* The windows, the features and the scenarios of the synthetic real-time  *)
(* layer (src/synthetic_realtime).  An event is a record; its entities are *)
(* opaque tokens; instants are seconds.  A feature family is what it adds  *)
(* to an event's evidence: named values, and the reason codes it triggers. *)
(*                                                                         *)
(* Amounts are integers in a unit in which the mean of a scenario's        *)
(* baseline is exact.                                                      *)
(***************************************************************************)
EXTENDS Integers, Sequences, FiniteSets, FiniteSetsExt

Minute == 60
Hour   == 3600
Day    == 86400

\* Events of S in the closed interval [end - span, end].
Window(S, end, span) == {e \in S : end - span <= e.time /\ e.time <= end}

\* events_in_range over the longest look-back of any feature.
LookBack(S, e) == Window(S, e.time, Day)

SameIn(S, field, e) == {x \in S : x[field] = e[field]}

Accounts(S) == {x.account : x \in S}

\* Earlier or later, but not the event itself.
Others(S, e) == {x \in S : x.account = e.account /\ x.id # e.id}

FailedOutcomes == {"declined", "failed"}

Flag(reason, raised) == IF raised THEN {reason} ELSE {}

-----------------------------------------------------------------------------
(* compute_velocity_features *)

CountThreshold(span) ==
  CASE span = Minute -> 3 [] span = Hour -> 10 [] span = Day -> 50

VelocityCounts(S, e) ==
  [field \in {"account", "device", "method", "merchant"} |->
     [span \in {Minute, Hour, Day} |->
        Cardinality(Window(SameIn(LookBack(S, e), field, e), e.time, span))]]

VelocitySignals(S, e) ==
  LET n == VelocityCounts(S, e) IN
  {burst \in (DOMAIN n) \X {Minute, Hour, Day} :
     n[burst[1]][burst[2]] > CountThreshold(burst[2])}

-----------------------------------------------------------------------------
(* compute_retry_features *)

RetryGroup(S, e) ==
  IF e.group = "none" THEN {}
  ELSE {x \in Window(S, e.time, Hour) : x.group = e.group}

AccountFailures(S, e) ==
  {x \in SameIn(Window(S, e.time, Hour), "account", e) : x.outcome \in FailedOutcomes}

RetrySignals(S, e) ==
  Flag("retry_group_size_high", Cardinality(RetryGroup(S, e)) > 3)
  \cup Flag("retry_account_failure_count_high", Cardinality(AccountFailures(S, e)) > 3)

-----------------------------------------------------------------------------
(* Newness and fan-out of a device, an address, a payment method, an IP *)

IsNew(S, field, e) == Others(SameIn(LookBack(S, e), field, e), e) = {}

FanOut(S, field, e) == Cardinality(Accounts(SameIn(LookBack(S, e), field, e)))

FanOutThreshold == 3

DeviceSignals(S, e) ==
  Flag("device_new_to_account", IsNew(S, "device", e))
  \cup Flag("device_fan_out_high", FanOut(S, "device", e) > FanOutThreshold)

AddressSignals(S, e) ==
  Flag("address_new_to_account", IsNew(S, "address", e))
  \cup Flag("address_fan_out_high", FanOut(S, "address", e) > FanOutThreshold)
  \cup Flag("address_billing_shipping_mismatch", ~e.match)

PaymentMethodSignals(S, e) ==
  Flag("payment_method_new_to_account", IsNew(S, "method", e))
  \cup Flag("payment_method_fan_out_high", FanOut(S, "method", e) > FanOutThreshold)

GeographySignals(S, e) ==
  Flag("geography_country_mismatch", e.home # e.country)
  \cup Flag("geography_vpn_or_proxy", e.vpn)
  \cup Flag("geography_ip_fan_out_high", FanOut(S, "ip", e) > FanOutThreshold)

-----------------------------------------------------------------------------
(* compute_merchant_features: a failure rate above one half, once there are
   five transactions *)

MerchantSignals(S, e) ==
  LET here   == SameIn(LookBack(S, e), "merchant", e)
      failed == {x \in here : x.outcome \in FailedOutcomes}
  IN  Flag("merchant_new_to_account", IsNew(S, "merchant", e))
      \cup Flag("merchant_failure_rate_high",
                Cardinality(here) >= 5 /\ 2 * Cardinality(failed) > Cardinality(here))

-----------------------------------------------------------------------------
(* compute_amount_features: more than three times the mean of the account *)

Baseline(S, e) == Others(LookBack(S, e), e)

TotalAmount(S) == FoldSet(LAMBDA x, sum : x.amount + sum, 0, S)

AmountSignals(S, e) ==
  LET prior == Baseline(S, e) IN
  Flag("amount_unusual_deviation_high",
       prior # {} /\ e.amount * Cardinality(prior) > 3 * TotalAmount(prior))

-----------------------------------------------------------------------------
\* Everything the features of e say, over the events S.
Evidence(S, e) ==
  [velocity |-> VelocityCounts(S, e),
   bursts   |-> VelocitySignals(S, e),
   failures |-> Cardinality(AccountFailures(S, e)),
   fanOut   |-> [field \in {"device", "address", "method", "ip"} |-> FanOut(S, field, e)],
   baseline |-> <<Cardinality(Baseline(S, e)), TotalAmount(Baseline(S, e))>>,
   signals  |-> RetrySignals(S, e) \cup DeviceSignals(S, e) \cup AddressSignals(S, e)
                \cup PaymentMethodSignals(S, e) \cup GeographySignals(S, e)
                \cup MerchantSignals(S, e) \cup AmountSignals(S, e)]

-----------------------------------------------------------------------------
(* The scenarios: draw[i] stands for the tokens a generator draws at random
   for its event i; what a scenario holds fixed is the token 0 *)

Ordinary(id, time, draw, amount) ==
  [id |-> id, time |-> time, account |-> draw, device |-> draw, method |-> draw,
   merchant |-> draw, address |-> draw, ip |-> draw, amount |-> amount,
   outcome |-> "success", home |-> "IN", country |-> "IN", match |-> TRUE,
   vpn |-> FALSE, group |-> "none"]

Normal(start, draw) ==
  [i \in 1..3 |-> Ordinary(<<"normal", i>>, start + 30 * (i - 1), draw[i], 300)]

DeviceBurst(start, draw) ==
  [i \in 1..6 |-> [Ordinary(<<"burst", i>>, start + 10 * (i - 1), draw[i], 300)
                     EXCEPT !.account = 0]]

AddressFanOut(start, draw) ==
  [i \in 1..5 |-> [Ordinary(<<"fan_out", i>>, start + 5 * (i - 1), draw[i], 300)
                     EXCEPT !.address = 0]]

VpnMismatch(start, draw) ==
  [i \in 1..4 |-> [Ordinary(<<"vpn", i>>, start + 30 * (i - 1), draw[i], 300)
                     EXCEPT !.country = "US", !.vpn = TRUE]]

\* Faulty: one event less, and the last one still succeeds.
ShortRetryStorm(start, draw) ==
  [i \in 1..4 |-> [Ordinary(<<"storm", i>>, start + 5 * (i - 1), draw[i], 300)
                     EXCEPT !.account = 0, !.device = 0, !.method = 0, !.group = "retry",
                            !.outcome = IF i = 4 THEN "success" ELSE "declined"]]

\* Declined until the last attempt.
RetryStorm(start, draw) ==
  [i \in 1..5 |-> [Ordinary(<<"storm", i>>, start + 5 * (i - 1), draw[i], 300)
                     EXCEPT !.account = 0, !.device = 0, !.method = 0, !.group = "retry",
                            !.outcome = IF i = 5 THEN "success" ELSE "declined"]]

\* Three modest amounts, then five times their mean.
UnusualAmount(start, draw) ==
  LET modest(i) == IF draw[i] = 1 THEN 150 ELSE 450
      spike == (5 * (modest(1) + modest(2) + modest(3))) \div 3
  IN  [i \in 1..4 |-> [Ordinary(<<"unusual", i>>, start + 600 * (i - 1), draw[i],
                                IF i = 4 THEN spike ELSE modest(i))
                         EXCEPT !.account = 0]]

MerchantDeviation(start, draw) ==
  [i \in 1..7 |-> [Ordinary(<<"merchant", i>>, start + 60 * (i - 1), draw[i], 300)
                     EXCEPT !.merchant = 0,
                            !.outcome = IF i <= 5 THEN "declined" ELSE "success"]]

DuplicateStream(start, draw) ==
  LET base == [i \in 1..3 |-> Ordinary(<<"duplicate", i>>, start + 20 * (i - 1), draw[i], 300)]
  IN  Append(base, base[1])

OutOfOrder(start, draw) ==
  [i \in 1..4 |-> Ordinary(<<"out_of_order", i>>, start + <<0, 120, 30, 150>>[i],
                           draw[i], 300)]

\* generate_events: a stream of the scenario's own size.
Stream(scenario, start, draw) ==
  CASE scenario = "normal_baseline"        -> Normal(start, draw)
    [] scenario = "new_device_burst"       -> DeviceBurst(start, draw)
    [] scenario = "address_fan_out"        -> AddressFanOut(start, draw)
    [] scenario = "vpn_geography_mismatch" -> VpnMismatch(start, draw)
    [] scenario = "retry_storm"            -> RetryStorm(start, draw)
    [] scenario = "unusual_amount"         -> UnusualAmount(start, draw)
    [] scenario = "merchant_deviation"     -> MerchantDeviation(start, draw)
    [] scenario = "duplicate"              -> DuplicateStream(start, draw)
    [] scenario = "out_of_order"           -> OutOfOrder(start, draw)

Scenarios == {"normal_baseline", "new_device_burst", "address_fan_out",
              "vpn_geography_mismatch", "retry_storm", "unusual_amount",
              "merchant_deviation", "duplicate", "out_of_order"}

=============================================================================

----------------------------- MODULE EventStore -----------------------------
(***************************************************************************)
(* The synthetic event store (synthetic_realtime/store.py): an ordered     *)
(* in-memory history with a retention by the clock, a capacity, a          *)
(* watermark and idempotent recording; and the features that read it back. *)
(* It is fed with events in any order, at any time of a clock that only    *)
(* advances, or with a generated scenario.                                 *)
(***************************************************************************)
EXTENDS SyntheticSignals, SequencesExt

CONSTANTS
  FreeEvents,   \* events submitted in any order
  Replayed,     \* scenarios that are replayed
  Draws,        \* random draws: functions from 1..7 to tokens
  Instants,     \* what the clock may read
  Retention,    \* retention, in seconds
  MaxEvents,    \* capacity
  MaxArrivals   \* bound: free events accepted as new

ASSUME EventStoreAssumption ==
  /\ Retention \in Nat \ {0}
  /\ MaxEvents \in Nat \ {0}
  /\ MaxArrivals \in Nat
  /\ 0 \in Instants /\ Instants \subseteq Nat
  /\ Replayed \subseteq Scenarios
  /\ \A e \in FreeEvents : e.time \in Nat

VARIABLES
  clock,      \* FixedClock.current
  held,       \* the OrderedDict: stored records, each with its place among the arrivals
  watermark,  \* highest event time recorded, -1 for none
  result,     \* outcome of the last record
  feed,       \* the rest of the scenario being replayed
  arrivals,   \* history: events accepted as new since the last reset
  dropped     \* history: events the capacity pushed out

eventVars == <<clock, held, watermark, result, feed, arrivals, dropped>>

NoResult == [status |-> "none"]
NoFeed   == [scenario |-> "none", events |-> <<>>]

EventsInit ==
  /\ clock = 0
  /\ held = {}
  /\ watermark = -1
  /\ result = NoResult
  /\ feed = NoFeed
  /\ arrivals = <<>>
  /\ dropped = {}

HeldEvents == {r.event : r \in held}

-----------------------------------------------------------------------------
\* Faulty: the edge of the retention is cut off too.
KeepsInside(r) == r.event.time > clock - Retention

KeptByRetention(r) == r.event.time >= clock - Retention

\* evict_expired, which comes first in every record.
AfterEviction == {r \in held : KeptByRetention(r)}

Ordering(e) == IF e.time < watermark THEN "late" ELSE "in_order"

\* The stored record of an event id, if it is still held.
Existing(records, e) == {r \in records : r.event.id = e.id}

\* _enforce_capacity pops the first inserted until no more than the newest are left.
Overflow(records) ==
  {r \in records : Cardinality({q \in records : q.at >= r.at}) > MaxEvents}

RecordNew(e, kept) ==
  LET new == [event |-> e, ordering |-> Ordering(e), at |-> Len(arrivals) + 1]
      all == kept \cup {new}
      out == Overflow(all)
  IN  /\ Existing(kept, e) = {}
      /\ held' = all \ out
      /\ watermark' = IF e.time > watermark THEN e.time ELSE watermark
      /\ result' = [status |-> "new", ordering |-> Ordering(e), event |-> e]
      /\ arrivals' = Append(arrivals, e)
      /\ dropped' = (dropped \ {e}) \cup {r.event : r \in out}

StoredOrdering(first, e) == first.ordering

RecordDuplicate(e, kept) ==
  /\ \E first \in Existing(kept, e) :
       /\ first.event = e
       /\ result' = [status |-> "duplicate", ordering |-> StoredOrdering(first, e),
                     event |-> e]
  /\ held' = kept
  /\ UNCHANGED <<watermark, arrivals, dropped>>

\* DuplicateEventConflictError; the eviction has happened.
RecordConflict(e, kept) ==
  /\ \E first \in Existing(kept, e) : first.event # e
  /\ result' = [status |-> "conflict", event |-> e]
  /\ held' = kept
  /\ UNCHANGED <<watermark, arrivals, dropped>>

Record(e) ==
  \/ RecordNew(e, AfterEviction)
  \/ RecordDuplicate(e, AfterEviction)
  \/ RecordConflict(e, AfterEviction)

Submit(e) ==
  /\ feed = NoFeed
  /\ Len(arrivals) < MaxArrivals
  /\ Record(e)
  /\ UNCHANGED <<clock, feed>>

\* A demonstration generates a stream at the clock and replays it in order.
Generate(scenario, draw) ==
  /\ feed = NoFeed
  /\ arrivals = <<>>
  /\ feed' = [scenario |-> scenario, events |-> Stream(scenario, clock, draw)]
  /\ UNCHANGED <<clock, held, watermark, result, arrivals, dropped>>

Replay ==
  /\ feed.events # <<>>
  /\ Record(Head(feed.events))
  /\ feed' = [feed EXCEPT !.events = Tail(@)]
  /\ UNCHANGED clock

AdvanceClock(t) ==
  /\ feed = NoFeed
  /\ t > clock
  /\ clock' = t
  /\ result' = NoResult
  /\ UNCHANGED <<held, watermark, feed, arrivals, dropped>>

Reset ==
  /\ held' = {}
  /\ watermark' = -1
  /\ arrivals' = <<>>
  /\ dropped' = {}
  /\ result' = NoResult
  /\ feed' = NoFeed
  /\ UNCHANGED clock

EventsNext ==
  \/ \E e \in FreeEvents : Submit(e)
  \/ \E scenario \in Replayed, draw \in Draws : Generate(scenario, draw)
  \/ Replay
  \/ \E t \in Instants : AdvanceClock(t)
  \/ Reset

EventsSpec == EventsInit /\ [][EventsNext]_eventVars

-----------------------------------------------------------------------------
JustRecorded == result.status \in {"new", "duplicate"}

History == ToSet(arrivals) \ dropped

\* For an event that is not behind the clock, no feature loses anything to the
\* retention: every count, fan-out, baseline and signal over what is held is
\* the one over all that was ever recorded, but for what the capacity dropped.
FreshFeaturesExact ==
  JustRecorded /\ result.event.time >= clock =>
    Evidence(HeldEvents, result.event) = Evidence(History, result.event)

\* The ordering reported for an event is what it was when it arrived: late if
\* and only if something of a later time had arrived by then, even if that is
\* evicted by now; a duplicate replays it whatever arrived in between.
OrderingIsOfFirstArrival ==
  JustRecorded =>
    LET last == CHOOSE i \in DOMAIN arrivals :
                  /\ arrivals[i] = result.event
                  /\ \A j \in DOMAIN arrivals : arrivals[j] = result.event => j <= i
    IN  result.ordering =
          IF \E j \in 1..(last - 1) : arrivals[j].time > result.event.time
          THEN "late" ELSE "in_order"

\* What is reported of an event that was recorded is exact, its features and
\* its ordering, whatever retention, capacity, a late arrival or a duplicate did
\* to the store in between.
ReportedIsExact == FreshFeaturesExact /\ OrderingIsOfFirstArrival

Promised(scenario) ==
  CASE scenario = "new_device_burst"       -> {"device_new_to_account"}
    [] scenario = "address_fan_out"        -> {"address_fan_out_high"}
    [] scenario = "vpn_geography_mismatch" -> {"geography_country_mismatch",
                                               "geography_vpn_or_proxy"}
    [] scenario = "retry_storm"            -> {"retry_group_size_high",
                                               "retry_account_failure_count_high"}
    [] scenario = "unusual_amount"         -> {"amount_unusual_deviation_high"}
    [] scenario = "merchant_deviation"     -> {"merchant_failure_rate_high"}
    [] OTHER                               -> {}

\* Drawn tokens may collide: then a burst repeats a device, and a fan-out has
\* too few accounts.
DrawsSuffice ==
  CASE feed.scenario = "new_device_burst" ->
         \A i \in 1..(Len(arrivals) - 1) : arrivals[i].device # result.event.device
    [] feed.scenario = "address_fan_out" -> Cardinality(Accounts(HeldEvents)) > 3
    [] OTHER -> TRUE

\* At the end of its stream, a scenario has triggered the signals it is there
\* to show, and the two ordering scenarios their classification; whatever the
\* random tokens, as long as they do not collide.
ScenariosShowTheirPattern ==
  feed.scenario # "none" /\ feed.events = <<>> =>
    /\ DrawsSuffice => Promised(feed.scenario) \subseteq
                         Evidence(HeldEvents, result.event).signals
    /\ feed.scenario = "duplicate" => result.status = "duplicate"
    /\ feed.scenario = "out_of_order" =>
         {r.event.id[2] : r \in {q \in held : q.ordering = "late"}} = {3}

\* store.py: the retention "Matches the longest canonical feature window (24h)
\* so windows.py can always find whatever look-back range it needs still
\* present in the store".
WindowsFindTheirLookBack ==
  JustRecorded => LookBack(HeldEvents, result.event) = LookBack(History, result.event)

=============================================================================

--------------------------- MODULE DecisionLedger ---------------------------
(***************************************************************************)
(* What SecureSwipe promises about one idempotency key, whichever state    *)
(* backend serves it: a key is bound to one canonical input, that input is *)
(* decided at most once, and every caller who is shown a decision under    *)
(* the key is shown that one.  A caller that brings another input to a     *)
(* bound key is shown a conflict and nothing else.                         *)
(*                                                                         *)
(* The module says nothing about how: reservations, processes, locks,      *)
(* crashes and audit chains belong to the modules that implement it        *)
(* (ScaleStore for postgres-scale, LocalServing for local-default, and     *)
(* SqliteStore for the SQLite prototype).                                  *)
(***************************************************************************)
CONSTANTS
  Keys,        \* idempotency keys (one per X-Request-ID)
  Digests,     \* canonical request digests
  Decisions,   \* bounded results a scoring run can produce
  Requests,    \* HTTP requests, each answered at most once
  None         \* absence of a key, a digest or a decision

VARIABLES
  binding,     \* binding[k]: the input digest k stands for
  decision,    \* decision[k]: what was decided for k
  shown        \* shown[r]: what request r was answered with

vars == <<binding, decision, shown>>

NotShown == [key |-> None, digest |-> None, outcome |-> "nothing", decision |-> None]

Shown(k, d, o, v) == [key |-> k, digest |-> d, outcome |-> o, decision |-> v]

LedgerTypeOK ==
  /\ binding \in [Keys -> Digests \cup {None}]
  /\ decision \in [Keys -> Decisions \cup {None}]
  /\ DOMAIN shown = Requests

Init ==
  /\ binding = [k \in Keys |-> None]
  /\ decision = [k \in Keys |-> None]
  /\ shown = [r \in Requests |-> NotShown]

Bind(k, d) ==
  /\ binding[k] = None
  /\ binding' = [binding EXCEPT ![k] = d]
  /\ UNCHANGED <<decision, shown>>

\* Only an undecided key may be given back (the local registry does, the
\* durable store never does).
Release(k) ==
  /\ binding[k] # None
  /\ decision[k] = None
  /\ binding' = [binding EXCEPT ![k] = None]
  /\ UNCHANGED <<decision, shown>>

Decide(k, v) ==
  /\ binding[k] # None
  /\ decision[k] = None
  /\ decision' = [decision EXCEPT ![k] = v]
  /\ UNCHANGED <<binding, shown>>

Show(r, k, d) ==
  /\ shown[r] = NotShown
  /\ binding[k] = d
  /\ decision[k] # None
  /\ shown' = [shown EXCEPT ![r] = Shown(k, d, "decision", decision[k])]
  /\ UNCHANGED <<binding, decision>>

DecideAndShow(r, k, d, v) ==
  /\ shown[r] = NotShown
  /\ binding[k] = d
  /\ decision[k] = None
  /\ decision' = [decision EXCEPT ![k] = v]
  /\ shown' = [shown EXCEPT ![r] = Shown(k, d, "decision", v)]
  /\ UNCHANGED binding

Conflict(r, k, d) ==
  /\ shown[r] = NotShown
  /\ binding[k] \notin {None, d}
  /\ shown' = [shown EXCEPT ![r] = Shown(k, d, "conflict", None)]
  /\ UNCHANGED <<binding, decision>>

Next ==
  \E k \in Keys :
    \/ Release(k)
    \/ \E v \in Decisions : Decide(k, v)
    \/ \E d \in Digests :
         \/ Bind(k, d)
         \/ \E r \in Requests :
              \/ Show(r, k, d)
              \/ Conflict(r, k, d)
              \/ \E v \in Decisions : DecideAndShow(r, k, d, v)

Spec == Init /\ [][Next]_vars

=============================================================================

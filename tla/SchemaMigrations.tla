-------------------------- MODULE SchemaMigrations --------------------------
(***************************************************************************)
(* manage_postgres_migrations.py and run_migrations: operators of several  *)
(* releases check or apply the migrations of one PostgreSQL schema under a *)
(* session advisory lock.  A migration is one transaction: its statement   *)
(* and its row in the history.  Operators die or lose their connection at  *)
(* any step; the server then ends the session, after a COMMIT that was on  *)
(* its way took effect or not, and only then lets go of the lock.          *)
(***************************************************************************)
EXTENDS Naturals, Sequences

CONSTANTS
  Operators,    \* invocations of the script
  Releases,      \* the migration files an operator has: [version, checksum]
  Applies,      \* operators that run with --apply, the others with --check
  WithRole,     \* operators that name an application role
  Nobody        \* the advisory lock is free

Files == UNION {{Releases[o][i] : i \in DOMAIN Releases[o]} : o \in Operators}

ASSUME MigrationAssumption ==
  /\ Applies \subseteq WithRole /\ WithRole \subseteq Operators   \* --apply needs a role
  /\ Nobody \notin Operators
  /\ \A o \in Operators :
       /\ Releases[o] \in Seq(Files) /\ Releases[o] # <<>>
       /\ \A i \in DOMAIN Releases[o] : Releases[o][i].version = i

VARIABLES
  at,        \* where an operator stands in run_migrations
  done,      \* migrations that an operator takes for applied
  lock,      \* holder of the advisory lock
  tabled,    \* the history table exists
  history,   \* its rows
  schema,    \* history: statements the server has executed for good
  granted,   \* the application role has its privileges
  gone       \* operators that vanished and whose session the server still has

migrationVars == <<at, done, lock, tabled, history, schema, granted, gone>>

MigrationsInit ==
  /\ at = [o \in Operators |-> "start"]
  /\ done = [o \in Operators |-> 0]
  /\ lock = Nobody
  /\ tabled = FALSE
  /\ history = <<>>
  /\ schema = <<>>
  /\ granted = FALSE
  /\ gone = {}

-----------------------------------------------------------------------------
UnderLock == {"locked", "bootstrapping", "reading", "applying", "committing", "granting"}

To(o, next) == at' = [at EXCEPT ![o] = next]

\* The end of run_migrations, whatever it is, unlocks and closes.
Leaves(o, result) ==
  /\ To(o, result)
  /\ lock' = Nobody

LockSchema(o) ==
  /\ at[o] = "start"
  /\ lock = Nobody
  /\ lock' = o
  /\ To(o, "locked")
  /\ UNCHANGED <<done, tabled, history, schema, granted, gone>>

\* The database cannot be reached, or the files are not numbered 1, 2, ...
NeverConnects(o) ==
  /\ at[o] = "start"
  /\ To(o, "failed")
  /\ UNCHANGED <<done, lock, tabled, history, schema, granted, gone>>

\* _validate_role_separation refuses the role.
RefusesRole(o) ==
  /\ at[o] = "locked"
  /\ o \in WithRole
  /\ Leaves(o, "failed")
  /\ UNCHANGED <<done, tabled, history, schema, granted, gone>>

FindsHistory(o) ==
  /\ at[o] = "locked"
  /\ \/ tabled /\ To(o, "reading") /\ UNCHANGED lock
     \/ ~tabled /\ o \in Applies /\ To(o, "bootstrapping") /\ UNCHANGED lock
     \/ ~tabled /\ o \notin Applies /\ Leaves(o, "required")
  /\ UNCHANGED <<done, tabled, history, schema, granted, gone>>

BootstrapHistory(o) ==
  /\ at[o] = "bootstrapping"
  /\ tabled' = TRUE
  /\ To(o, "reading")
  /\ UNCHANGED <<done, lock, history, schema, granted, gone>>

\* Faulty: versions are compared, checksums are not.
SameVersions(o) ==
  /\ Len(history) <= Len(Releases[o])
  /\ \A i \in DOMAIN history : history[i].version = Releases[o][i].version

\* _validate_history: what is recorded is the beginning of this release.
ValidHistory(o) ==
  /\ Len(history) <= Len(Releases[o])
  /\ \A i \in DOMAIN history : history[i] = Releases[o][i]

\* migrations[len(recorded):] is empty.
Covered(n, o) == n >= Len(Releases[o])

ValidatesHistory(o) ==
  /\ at[o] = "reading"
  /\ IF ~ValidHistory(o) THEN Leaves(o, "failed")
     ELSE IF Covered(Len(history), o) THEN To(o, "granting") /\ UNCHANGED lock
     ELSE IF o \in Applies THEN To(o, "applying") /\ UNCHANGED lock
     ELSE Leaves(o, "required")
  /\ done' = [done EXCEPT ![o] = Len(history)]
  /\ UNCHANGED <<tabled, history, schema, granted, gone>>

NextFile(o) == Releases[o][done[o] + 1]

\* Inside the transaction: the statement, then the INSERT of its row, which
\* fails for a version that is recorded.
Executes(o) ==
  /\ at[o] = "applying"
  /\ \A i \in DOMAIN history : history[i].version # NextFile(o).version
  /\ To(o, "committing")
  /\ UNCHANGED <<done, lock, tabled, history, schema, granted, gone>>

\* Faulty: the statement runs outside the transaction of its row.
TakesHalf(o) ==
  /\ schema' = Append(schema, NextFile(o))
  /\ UNCHANGED history

Takes(o) ==
  /\ schema' = Append(schema, NextFile(o))
  /\ history' = Append(history, NextFile(o))

Commits(o) ==
  /\ at[o] = "committing"
  /\ Takes(o)
  /\ done' = [done EXCEPT ![o] = @ + 1]
  /\ To(o, IF Covered(done[o] + 1, o) THEN "granting" ELSE "applying")
  /\ UNCHANGED <<lock, tabled, granted, gone>>

\* The statements of _grant_application_privileges are one transaction.  They
\* run with --check too, when a role is named.
Grants(o) ==
  /\ at[o] = "granting"
  /\ granted' = (granted \/ o \in WithRole)
  /\ Leaves(o, "current")
  /\ UNCHANGED <<done, tabled, history, schema, gone>>

\* A statement fails, or the role inherits a forbidden privilege: the open
\* transaction is rolled back.
Errs(o) ==
  /\ at[o] \in UnderLock
  /\ Leaves(o, "failed")
  /\ UNCHANGED <<done, tabled, history, schema, granted, gone>>

\* The operator dies or its connection breaks, possibly during a COMMIT.
Vanishes(o) ==
  /\ at[o] \in UnderLock
  /\ gone' = gone \cup {o}
  /\ UNCHANGED <<at, done, lock, tabled, history, schema, granted>>

\* A transaction whose COMMIT was on its way takes effect.
TakesEffect(o) ==
  CASE at[o] = "committing" -> Takes(o) /\ UNCHANGED <<tabled, granted>>
    [] at[o] = "bootstrapping" -> tabled' = TRUE /\ UNCHANGED <<history, schema, granted>>
    [] at[o] = "granting" -> /\ granted' = (granted \/ o \in WithRole)
                             /\ UNCHANGED <<tabled, history, schema>>
    [] OTHER -> UNCHANGED <<tabled, history, schema, granted>>

SessionEnds(o) ==
  /\ o \in gone
  /\ TakesEffect(o) \/ UNCHANGED <<tabled, history, schema, granted>>
  /\ gone' = gone \ {o}
  /\ Leaves(o, "lost")
  /\ UNCHANGED done

MigrationStep(o) ==
  \/ LockSchema(o) \/ NeverConnects(o) \/ RefusesRole(o)
  \/ FindsHistory(o) \/ BootstrapHistory(o) \/ ValidatesHistory(o)
  \/ Executes(o) \/ Commits(o) \/ Grants(o)
  \/ Errs(o) \/ Vanishes(o)

MigrationsNext ==
  \/ \E o \in Operators \ gone : MigrationStep(o)
  \/ \E o \in gone : SessionEnds(o)

MigrationsSpec == MigrationsInit /\ [][MigrationsNext]_migrationVars

MigrationsOver ==
  \A o \in Operators : at[o] \in {"current", "required", "failed", "lost"}

-----------------------------------------------------------------------------
\* The history table tells the truth: every statement was executed once, in the
\* order of the versions, and is recorded under the checksum it had; whichever
\* releases took part and wherever their operators died.
HistoryMatchesSchema ==
  /\ history = schema
  /\ \A i \in DOMAIN history : history[i].version = i

\* What a successful check or apply said stays true whatever other releases do
\* later: the schema begins with the migrations of that release, byte for byte,
\* and the named role has its privileges.
CurrentStaysTrue ==
  \A o \in Operators :
    at[o] = "current" =>
      /\ Len(Releases[o]) <= Len(history)
      /\ \A i \in DOMAIN Releases[o] : history[i] = Releases[o][i]
      /\ o \in WithRole => granted

\* Why they hold: only the holder of the lock is between its look at the
\* history and its last commit.
LockGuardsPlan ==
  /\ history \in Seq(Files) /\ tabled \in BOOLEAN /\ granted \in BOOLEAN
  /\ at \in [Operators -> UnderLock \cup {"start", "current", "required", "failed", "lost"}]
  /\ done \in [Operators -> Nat]
  /\ lock \in Operators \cup {Nobody}
  /\ gone \subseteq Operators
  /\ \A o \in Operators :
       /\ at[o] \in UnderLock <=> lock = o
       /\ o \in gone => at[o] \in UnderLock
       /\ at[o] \in {"applying", "committing", "granting"} =>
            ValidHistory(o) /\ done[o] = Len(history)
       /\ at[o] \in {"applying", "committing"} => ~Covered(done[o], o)
       /\ at[o] = "granting" => Covered(done[o], o)

=============================================================================

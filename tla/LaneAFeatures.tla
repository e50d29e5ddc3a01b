---------------------------- MODULE LaneAFeatures ----------------------------
(***************************************************************************)
(* The features of Lane A: which columns may be one (feature_contract.py,  *)
(* serving_schema.py, variants.py), and the three builders that make rows  *)
(* of them: the locked schema of v1 (feature_builder.py), the superset     *)
(* file of v2, and the frame of the final runner, which no file carries.   *)
(*                                                                         *)
(* A column is its family and its number.  A cell is what its text is to   *)
(* the builders and to pandas; surrounding space is stripped first.        *)
(***************************************************************************)
EXTENDS Integers, Sequences, SequencesExt, FiniteSets, Subframes

CONSTANT Sources   \* sources: sequences of rows, ascending TransactionID

VARIABLE source   \* the source that is read

-----------------------------------------------------------------------------
(* feature_contract.py *)

Column(name) == <<name, 0>>

Columns(family, n) == {<<family, i>> : i \in 1..n}

NeverFeatures == {Column("isFraud"), Column("TransactionID"), Column("TransactionDT")}

Snapshot ==
  {Column("TransactionAmt"), Column("ProductCD"), Column("P_emaildomain"),
   Column("R_emaildomain"), Column("DeviceType"), Column("DeviceInfo")}
    \cup Columns("card", 6) \cup Columns("addr", 2) \cup Columns("M", 9)

BenchmarkOnly ==
  Columns("dist", 2) \cup Columns("C", 14) \cup Columns("D", 15) \cup Columns("V", 339)
    \cup Columns("id_", 38)

FeatureRules ==
  [c \in NeverFeatures \cup Snapshot \cup BenchmarkOnly |->
     [eligibility |-> IF c \in Snapshot THEN "candidate_snapshot"
                      ELSE IF c \in BenchmarkOnly THEN "benchmark_only" ELSE "prohibited",
      requiresProof |-> c \in BenchmarkOnly]]

ServingEligible ==
  {c \in DOMAIN FeatureRules :
     FeatureRules[c].eligibility = "candidate_snapshot" /\ ~FeatureRules[c].requiresProof}

ValidSelection(columns) ==
  IsInjective(columns) /\ Range(columns) \subseteq ServingEligible

-----------------------------------------------------------------------------
(* serving_schema.py *)

Presence == Column("identity_record_present")

IdentitySourced == {Column("DeviceType"), Column("DeviceInfo")}

ServingCore ==
  <<Column("TransactionAmt"), Column("ProductCD"), <<"card", 1>>, <<"card", 2>>, <<"card", 3>>,
    <<"card", 4>>, <<"card", 5>>, <<"card", 6>>, <<"addr", 1>>, <<"addr", 2>>,
    Column("P_emaildomain"), Column("DeviceType"), Presence>>

NumericColumns ==
  {Column("TransactionAmt"), <<"card", 1>>, <<"card", 2>>, <<"card", 3>>, <<"card", 5>>,
   <<"addr", 1>>, <<"addr", 2>>}

CoreSources ==
  Subframe(ServingCore, {i \in DOMAIN ServingCore : ServingCore[i] # Presence})

\* Whatever the lists of names and prefixes say first.
IsForbidden(c) == c \notin Range(ServingCore)

SchemaIsLocked ==
  /\ Len(ServingCore) = 13 /\ IsInjective(ServingCore)
  /\ \A c \in Range(CoreSources) : c \in ServingEligible /\ ~IsForbidden(c)

-----------------------------------------------------------------------------
(* variants.py *)

PermanentlyProhibited(c) ==
  \/ c \in NeverFeatures
  \/ c[1] \in {"C", "D", "V", "dist", "id_"} /\ c[2] > 0

MatchFlags == [i \in 1..9 |-> <<"M", i>>]

ExtraColumns ==
  [A |-> <<>>, B |-> <<Column("R_emaildomain")>>, C |-> MatchFlags,
   D |-> <<Column("R_emaildomain")>> \o MatchFlags,
   E |-> <<Column("R_emaildomain")>> \o MatchFlags \o <<Column("DeviceInfo")>>]

VariantColumns(v) == CoreSources \o ExtraColumns[v] \o <<Presence>>

InputCounts == [A |-> 13, B |-> 14, C |-> 22, D |-> 23, E |-> 24]

ValidVariant(v) ==
  /\ IsInjective(VariantColumns(v)) /\ Len(VariantColumns(v)) = InputCounts[v]
  /\ \A c \in Range(VariantColumns(v)) \ {Presence} :
       ~PermanentlyProhibited(c) /\ c \in ServingEligible

Superset == Range(VariantColumns("E"))

TransactionSourced == Superset \ (IdentitySourced \cup {Presence})

-----------------------------------------------------------------------------
(* Cells *)

NoCell == [is |-> "none"]                 \* no identity record
Blank == [is |-> "blank"]                 \* one of MISSING_TOKENS
ReservedText == [is |-> "reserved"]       \* the text of the reserved token
PrefixedText == [is |-> "prefixed"]       \* that text behind the escape prefix
NullLike == [is |-> "null"]               \* only pandas takes it for missing: NULL, n/a
Text(s) == [is |-> "text", of |-> s]
Number(n, s) == [is |-> "number", value |-> n, of |-> s]   \* s: how it is written

MissingToken == [is |-> "missing"]
Null == [is |-> "nothing"]
Refused == [is |-> "refused"]             \* FeatureBuildError

\* Faulty: text behind the escape prefix is taken as it is.
EscapeUnguarded(cell, policy) ==
  CASE cell.is \in {"none", "blank"} -> MissingToken
    [] cell.is = "reserved" -> IF policy = "escape" THEN PrefixedText ELSE Refused
    [] OTHER -> cell

NormaliseCategorical(cell, policy) ==
  CASE cell.is \in {"none", "blank"} -> MissingToken
    [] cell.is = "reserved" -> IF policy = "escape" THEN PrefixedText ELSE Refused
    [] cell.is = "prefixed" -> Refused
    [] OTHER -> cell

NormaliseNumeric(column, cell) ==
  CASE cell.is \in {"none", "blank"} -> Null
    [] cell.is = "number" ->
         IF column = Column("TransactionAmt") /\ cell.value < 0 THEN Refused
         ELSE [is |-> "float", value |-> cell.value]
    [] OTHER -> Refused

Normalise(column, cell, policy) ==
  IF column \in NumericColumns THEN NormaliseNumeric(column, cell)
  ELSE NormaliseCategorical(cell, policy)

\* The kinds of cells a source has.
IsCell(cell) ==
  /\ cell.is \in {"none", "blank", "reserved", "prefixed", "null", "text", "number"}
  /\ cell.is = "reserved" => cell = ReservedText

ASSUME SourceAssumption ==
  \A table \in Sources :
    /\ table \in Seq(Range(table))
    /\ \A row \in Range(table) :
         /\ {"role", "present", "cells", "identity"} \subseteq DOMAIN row
         /\ \A c \in TransactionSourced : IsCell(row.cells[c])
         /\ row.present => \A c \in IdentitySourced : IsCell(row.identity[c])

PresenceFlag(present) == [is |-> "bool", value |-> present]

-----------------------------------------------------------------------------
(* The builders *)

\* A DeviceType on the side of the transaction is ignored.
BuildRow(row, policy) ==
  [c \in Range(ServingCore) |->
     IF c = Presence THEN PresenceFlag(row.present)
     ELSE Normalise(c,
            IF c \notin IdentitySourced THEN row.cells[c]
            ELSE IF row.present THEN row.identity[c] ELSE NoCell, policy)]

\* lane_a_materialise_variant_superset.py, with the default policy.
SupersetRow(row) ==
  [c \in Superset |->
     CASE c = Presence -> PresenceFlag(row.present)
       [] c \in IdentitySourced ->
            NormaliseCategorical(IF row.present THEN row.identity[c] ELSE NoCell, "reject")
       [] OTHER -> Normalise(c, row.cells[c], "reject")]

Refuses(built) == \E c \in DOMAIN built : built[c] = Refused

RowsOfRole(table, role) ==
  Subframe(table, {i \in DOMAIN table : table[i].role = role})

\* One refused cell refuses the role: no matrix.
Built(rows) == IF \E i \in DOMAIN rows : Refuses(rows[i]) THEN <<>> ELSE rows

\* Of a row of another role only the identifier is looked at.
CoreMatrix(table, role) ==
  LET rows == RowsOfRole(table, role)
  IN  Built([i \in DOMAIN rows |-> BuildRow(rows[i], "reject")])

SupersetMatrix(table, role) ==
  LET rows == RowsOfRole(table, role)
  IN  Built([i \in DOMAIN rows |-> SupersetRow(rows[i])])

\* build_features: the same loop over the rows of final_test.
FinalFrame(table) ==
  LET frame == SupersetMatrix(table, "final_test") IN
  [i \in DOMAIN frame |-> [c \in Range(VariantColumns("E")) |-> frame[i][c]]]

\* pandas.read_csv of what csv.writer wrote: a column whose every text is a
\* number becomes one of numbers, and a null-like text is missing.
ReadColumn(matrix, c) ==
  LET cells == {matrix[i][c] : i \in DOMAIN matrix}
      numbers == \A x \in cells : x.is \in {"number", "float", "null", "nothing"}
  IN  [i \in DOMAIN matrix |->
         LET x == matrix[i][c] IN
         IF x.is = "null" THEN Null
         ELSE IF numbers /\ x.is = "number" THEN [is |-> "float", value |-> x.value]
         ELSE x]

ReadMatrix(matrix) ==
  LET columns == DOMAIN matrix[1]
      read == [c \in columns |-> ReadColumn(matrix, c)]
  IN  [i \in DOMAIN matrix |-> [c \in columns |-> read[c][i]]]

-----------------------------------------------------------------------------
FeaturesInit == source = <<>>

FeaturesNext == source = <<>> /\ source' \in Sources

FeaturesSpec == FeaturesInit /\ [][FeaturesNext]_source

FeaturesOver == source # <<>>

-----------------------------------------------------------------------------
\* Three files say which columns may be served, each in its own way: they agree
\* on every column of the source.
ContractsAgree ==
  /\ SchemaIsLocked /\ ValidSelection(CoreSources)
  /\ \A v \in DOMAIN ExtraColumns : ValidVariant(v)
  /\ \A c \in DOMAIN FeatureRules :
       /\ c \in Superset <=> c \in ServingEligible
       /\ PermanentlyProhibited(c) <=> c \notin ServingEligible

\* What a cell says: that there is nothing, a number, or a text.
Meaning(row, c) ==
  LET cell == IF c \notin IdentitySourced THEN row.cells[c]
              ELSE IF row.present THEN row.identity[c] ELSE NoCell
  IN  IF cell.is \in {"none", "blank"} THEN Null
      ELSE IF c \in NumericColumns THEN [is |-> "float", value |-> cell.value]
      ELSE cell

\* No text that only pandas takes for missing, and no categorical column that
\* is all numbers.
ReadsAsWritten(matrix) ==
  \A c \in DOMAIN matrix[1] \ NumericColumns :
    /\ \A i \in DOMAIN matrix : matrix[i][c].is # "null"
    /\ \E i \in DOMAIN matrix : matrix[i][c].is # "number"

\* No two rows that say different things get the same features, under either
\* policy, not even where data holds the text of a reserved token, and rows that
\* say the same do; the two generations of builders agree on the columns they
\* share; and a file reads as the frame that the final runner, which writes none,
\* would have scored for the same rows, but for null-like and all-number columns.
FeaturesAreFaithful ==
  /\ ContractsAgree
  /\ \A policy \in {"reject", "escape"}, i, j \in DOMAIN source :
       LET one == BuildRow(source[i], policy)
           two == BuildRow(source[j], policy)
       IN  ~Refuses(one) /\ ~Refuses(two) =>
             \A c \in Range(CoreSources) :
               one[c] = two[c] <=> Meaning(source[i], c) = Meaning(source[j], c)
  /\ \A role \in {row.role : row \in Range(source)} :
       LET core   == CoreMatrix(source, role)
           matrix == SupersetMatrix(source, role)
           asFinal == [i \in DOMAIN source |->
                         [source[i] EXCEPT !.role = IF @ = role THEN "final_test" ELSE "other"]]
       IN  matrix # <<>> =>
             /\ core = [i \in DOMAIN matrix |->
                          [c \in Range(ServingCore) |-> matrix[i][c]]]
             /\ ReadsAsWritten(matrix) => ReadMatrix(matrix) = FinalFrame(asFinal)

=============================================================================

--------------------------- MODULE TestQuarantine ---------------------------
(***************************************************************************)
(* The way of the historical test rows into the quarantine and of the      *)
(* quarantine into training (historical_quarantine.py): a candidate anchor *)
(* is derived from the two retained test files, somebody approves it, the  *)
(* manifest with the row hashes is written, and the two trainers load both *)
(* and train without these rows.  Meanwhile the test files are replaced,   *)
(* another anchor is approved and the manifest is replaced or removed.     *)
(*                                                                         *)
(* A file of features is a sequence of vectors, one of labels a sequence   *)
(* of 0 and 1, or OtherColumns: of other columns or types.  A digest is what  *)
(* was digested, a row hash the row.  A file is hashed and read in one     *)
(* step: _stable_file_identity refuses one that changes meanwhile.         *)
(***************************************************************************)
EXTENDS DataRoles

CONSTANTS
  XContents, YContents, \* contents of the retained X_test and y_test
  OtherColumns,
  TestTotal, TestFraud, \* HISTORICAL_TEST_ROWS, HISTORICAL_TEST_FRAUD
  TrainingFrames,       \* what is trained on
  Recipe,               \* of the reference: its anchor and its sources
  Missing,              \* no file, no approval, nothing read yet
  MaxDisturbances       \* bound: files replaced, anchors approved, manifests edited

ASSUME TrainingAssumption ==
  \A frame \in TrainingFrames : Len(frame) \in Nat /\ DOMAIN frame = 1..Len(frame)

VARIABLES
  retained,  \* the two test files
  anchor,    \* the anchor file: Missing while in its bootstrap state
  hashList,  \* the manifest file
  deriver,   \* a call that reads the test files
  trainer,   \* a call that trains
  past       \* history: candidates, approved and disturbed anchors, disturbances

quarantineVars == <<retained, anchor, hashList, deriver, trainer, past>>

NoDeriver == [purpose |-> "none", anchor |-> Missing, seen |-> <<>>, since |-> 0]
NoTrainer == [at |-> "idle", purpose |-> "none", frame |-> <<>>, anchor |-> Missing,
              manifest |-> Missing]

QuarantineInit ==
  /\ retained \in [x : XContents, y : YContents]
  /\ anchor = Missing
  /\ hashList = Missing
  /\ deriver = NoDeriver
  /\ trainer = NoTrainer
  /\ past = [candidates |-> {}, approved |-> {}, disturbed |-> {}, replaced |-> 0, others |-> 0]

-----------------------------------------------------------------------------
(* Payloads *)

\* The canonical columns, float64 features and an int64 class.
ExactTypes(content) == content # OtherColumns

Canonical(x, y) == ExactTypes(x) /\ ExactTypes(y) /\ Len(x) = Len(y)

TestFrame(x, y) ==
  [i \in DOMAIN x |-> [time |-> x[i].time, others |-> x[i].others, label |-> y[i]]]

Payload(sources, frame) ==
  [sources |-> sources, rows |-> Occurrences(frame), says |-> Declared(frame)]

CanonicalCounts(says) == says.rows = TestTotal /\ says.fraud = TestFraud

AnchorOf(payload) == [sources |-> payload.sources, says |-> payload.says]

\* The manifest by itself: counts and checksum are those of its hashes, but
\* which hashes are of frauds it cannot say.
ValidPayload(payload) ==
  /\ payload.says.content = payload.rows
  /\ payload.says.rows = MapThenSumSet(LAMBDA row : payload.rows[row], DOMAIN payload.rows)
  /\ payload.says.duplicates = payload.says.rows - Cardinality(DOMAIN payload.rows)
  /\ payload.says.fraud \in 0..payload.says.rows

\* The manifest against the anchor, which has the counts and the digests.
MatchesAnchor(payload, approved) == AnchorOf(payload) = approved

\* _read_json_bytes: a regular file with a JSON object.
Present(file) == file # Missing

\* load_historical_quarantine_anchor
AnchorLoads(file) == Present(file) /\ CanonicalCounts(file.says)

-----------------------------------------------------------------------------
(* Reading the test files *)

\* Hashed, read, and hashed again.
LooksAt == <<"x", "y", "x", "y", "x", "y">>

\* Faulty: nobody looks at the files again after they were read.
HashedBefore(seen) == TRUE

SameBeforeAndAfter(seen) == SubSeq(seen, 1, 2) = SubSeq(seen, 5, 6)

\* The writer first has a free name, then an approved anchor.
StartsDeriving(purpose) ==
  /\ deriver = NoDeriver
  /\ purpose = "manifest" => hashList = Missing /\ AnchorLoads(anchor)
  /\ deriver' = [purpose |-> purpose, seen |-> <<>>, since |-> past.replaced,
                 anchor |-> IF purpose = "manifest" THEN anchor ELSE Missing]
  /\ UNCHANGED <<retained, anchor, hashList, trainer, past>>

LooksAtFile ==
  /\ deriver # NoDeriver
  /\ Len(deriver.seen) < Len(LooksAt)
  /\ deriver' = [deriver EXCEPT !.seen = Append(@, retained[LooksAt[Len(@) + 1]])]
  /\ UNCHANGED <<retained, anchor, hashList, trainer, past>>

SplitRead ==
  /\ Len(deriver.seen) = Len(LooksAt)
  /\ SameBeforeAndAfter(deriver.seen)
  /\ Canonical(deriver.seen[3], deriver.seen[4])

PayloadRead ==
  Payload([x |-> deriver.seen[1], y |-> deriver.seen[2]],
          TestFrame(deriver.seen[3], deriver.seen[4]))

\* Printed for review, with nothing written.
PrintsCandidate ==
  /\ deriver.purpose = "candidate"
  /\ SplitRead
  /\ CanonicalCounts(PayloadRead.says)
  /\ deriver' = NoDeriver
  /\ LET candidate == AnchorOf(PayloadRead) IN
     past' = [past EXCEPT
                !.candidates = @ \cup {candidate},
                !.disturbed = IF past.replaced >= deriver.since + 2 THEN @ \cup {candidate}
                                                                     ELSE @]
  /\ UNCHANGED <<retained, anchor, hashList, trainer>>

\* Linked into place, if the name is still free.
WritesManifest ==
  /\ deriver.purpose = "manifest"
  /\ SplitRead
  /\ MatchesAnchor(PayloadRead, deriver.anchor)
  /\ hashList = Missing
  /\ hashList' = PayloadRead
  /\ deriver' = NoDeriver
  /\ UNCHANGED <<retained, anchor, trainer, past>>

\* One of the checks raises.
GivesUpDeriving ==
  /\ Len(deriver.seen) = Len(LooksAt)
  /\ \/ ~SplitRead
     \/ SplitRead /\ deriver.purpose = "candidate" /\ ~CanonicalCounts(PayloadRead.says)
     \/ /\ SplitRead
        /\ deriver.purpose = "manifest"
        /\ ~MatchesAnchor(PayloadRead, deriver.anchor) \/ hashList # Missing
  /\ deriver' = NoDeriver
  /\ UNCHANGED <<retained, anchor, hashList, trainer, past>>

-----------------------------------------------------------------------------
(* Training: "development" is run_development_training, "reference" is
   create_historical_reference_demo_bundle *)

TrainerMoves(changes) ==
  /\ trainer' = changes
  /\ UNCHANGED <<retained, anchor, hashList, deriver, past>>

LoadsAnchor(purpose, frame) ==
  /\ trainer.at = "idle"
  /\ AnchorLoads(anchor)
  /\ TrainerMoves([at |-> "anchored", purpose |-> purpose, frame |-> frame, anchor |-> anchor,
                   manifest |-> Missing])

\* require_no_historical_test_overlap raises; _filter_quarantine leaves rows out.
Outside(frame, payload) ==
  Subframe(frame, {i \in DOMAIN frame : frame[i] \notin DOMAIN payload.rows})

\* The bytes that are parsed are those whose digest the recipe has.
SourcesMatch(frame) == frame = Recipe.sources

InRecipe(payload) ==
  /\ trainer.anchor = Recipe.anchor
  /\ payload.says = Recipe.anchor.says

Admits(payload) ==
  /\ ValidPayload(payload)
  /\ MatchesAnchor(payload, trainer.anchor)
  /\ CASE trainer.purpose = "development" -> Outside(trainer.frame, payload) = trainer.frame
       [] trainer.purpose = "reference"   -> InRecipe(payload) /\ SourcesMatch(trainer.frame)

LoadsManifest ==
  /\ trainer.at = "anchored"
  /\ TrainerMoves(
       IF Present(hashList) /\ Admits(hashList)
       THEN [trainer EXCEPT
               !.at = IF trainer.purpose = "reference" THEN "loaded" ELSE "training",
               !.manifest = hashList, !.frame = Outside(@, hashList)]
       ELSE [trainer EXCEPT !.at = "refused"])

StillThere(file, loaded, next) ==
  TrainerMoves([trainer EXCEPT !.at = IF file = loaded THEN next ELSE "refused"])

\* _verified_quarantine_file
RetainsManifest ==
  /\ trainer.at = "loaded"
  /\ StillThere(hashList, trainer.manifest, "training")

\* reverify_historical_quarantine_identity; the reference, whose recipe has the
\* digest of the anchor, asks for the manifest alone.
ReverifiesManifest ==
  /\ trainer.at = "training"
  /\ StillThere(hashList, trainer.manifest,
                IF trainer.purpose = "reference" THEN "published" ELSE "reverified")

ReverifiesAnchor ==
  /\ trainer.at = "reverified"
  /\ StillThere(anchor, trainer.anchor, "published")

\* historical_quarantine_input_records, in the manifest of the run or of the bundle.
InputRecords == [anchor |-> trainer.anchor, manifest |-> trainer.manifest]

-----------------------------------------------------------------------------
(* What others do to the files *)

MayDisturb == past.replaced + past.others < MaxDisturbances

Replaces(file, content) ==
  /\ MayDisturb
  /\ content # retained[file]
  /\ retained' = [retained EXCEPT ![file] = content]
  /\ past' = [past EXCEPT !.replaced = @ + 1]
  /\ UNCHANGED <<anchor, hashList, deriver, trainer>>

Approves(candidate) ==
  /\ MayDisturb
  /\ candidate # anchor
  /\ anchor' = candidate
  /\ past' = [past EXCEPT !.others = @ + 1, !.approved = @ \cup {candidate}]
  /\ UNCHANGED <<retained, hashList, deriver, trainer>>

\* The manifest is removed, loses a row, or has the rows of other files.
Edits(result) ==
  /\ MayDisturb
  /\ hashList # Missing
  /\ hashList' = result
  /\ past' = [past EXCEPT !.others = @ + 1]
  /\ UNCHANGED <<retained, anchor, deriver, trainer>>

Edited ==
  {Missing}
    \cup {[hashList EXCEPT !.rows = [row \in DOMAIN hashList.rows \ {lost} |-> @[row]]] :
            lost \in DOMAIN hashList.rows}
    \cup {Payload(hashList.sources, TestFrame(c[1], c[2])) :
            c \in {p \in XContents \X YContents : Canonical(p[1], p[2])}}

QuarantineNext ==
  \/ \E purpose \in {"candidate", "manifest"} : StartsDeriving(purpose)
  \/ LooksAtFile \/ PrintsCandidate \/ WritesManifest \/ GivesUpDeriving
  \/ \E purpose \in {"development", "reference"}, frame \in TrainingFrames :
       LoadsAnchor(purpose, frame)
  \/ LoadsManifest \/ RetainsManifest \/ ReverifiesManifest \/ ReverifiesAnchor
  \/ \E content \in XContents : Replaces("x", content)
  \/ \E content \in YContents : Replaces("y", content)
  \/ \E candidate \in past.candidates : Approves(candidate)
  \/ hashList # Missing /\ \E result \in Edited \ {hashList} : Edits(result)

QuarantineSpec == QuarantineInit /\ [][QuarantineNext]_quarantineVars

-----------------------------------------------------------------------------
\* What an anchor says is true of the files it names.
NamesWhatItHas(a) == a.says = Declared(TestFrame(a.sources.x, a.sources.y))

\* A training run that publishes names an anchor that was approved, and no row it
\* trained on is a row of the test files that the anchor names, whatever was
\* replaced, approved anew or edited between the reads; an anchor names the rows
\* and the files as they were together, unless two replacements, the second of
\* which undid the first, fell into the one read.
NoModelSawTestRows ==
  /\ \A a \in past.approved \ past.disturbed : NamesWhatItHas(a)
  /\ trainer.at = "published" =>
       /\ InputRecords.anchor \in past.approved
       /\ InputRecords.manifest.rows = InputRecords.anchor.says.content
       /\ ToSet(trainer.frame) \cap DOMAIN InputRecords.anchor.says.content = {}
       /\ trainer.purpose = "reference" => InputRecords.anchor = Recipe.anchor

(* Why it holds: what is true between any two steps.  The conjunction is    *)
(* inductive (ArtifactProofs).                                              *)

QuarantineShape ==
  /\ retained \in [x : XContents, y : YContents]
  /\ deriver = [purpose |-> deriver.purpose, anchor |-> deriver.anchor,
                seen |-> deriver.seen, since |-> deriver.since]
  /\ Len(deriver.seen) \in 0..Len(LooksAt)
  /\ deriver.seen = [i \in 1..Len(deriver.seen) |-> deriver.seen[i]]
  /\ deriver.since \in Nat
  /\ past = [candidates |-> past.candidates, approved |-> past.approved,
             disturbed |-> past.disturbed, replaced |-> past.replaced, others |-> past.others]
  /\ past.replaced \in Nat
  /\ deriver.since <= past.replaced
  /\ trainer = [at |-> trainer.at, purpose |-> trainer.purpose, frame |-> trainer.frame,
                anchor |-> trainer.anchor, manifest |-> trainer.manifest]

\* What was seen of a file is what it holds; after one replacement, what it held
\* before comes first.
SeenInOrder ==
  LET seen   == deriver.seen
      now(i) == retained[LooksAt[i]]
  IN
  /\ past.replaced = deriver.since => \A i \in DOMAIN seen : seen[i] = now(i)
  /\ past.replaced = deriver.since + 1 =>
       \A i, j \in DOMAIN seen :
         i <= j /\ LooksAt[i] = LooksAt[j] =>
           /\ seen[i] = now(i) => seen[j] = now(j)
           /\ seen[i] # now(i) /\ seen[j] # now(j) => seen[i] = seen[j]

\* An anchor was approved, one that is approved was a candidate, and a candidate
\* tells the truth unless two replacements fell into its derivation.
AnchorsTellTheTruth ==
  /\ \A a \in past.candidates \ past.disturbed : NamesWhatItHas(a)
  /\ past.approved \subseteq past.candidates
  /\ anchor # Missing => anchor \in past.approved

\* A trainer holds an approved anchor, then a manifest that has the rows of this
\* anchor, and no more of its frame than these rows leave.
TrainersHoldTheirAnchor ==
  /\ trainer.at \notin {"idle", "refused"} => trainer.anchor \in past.approved
  /\ trainer.at = "anchored" =>
       trainer.frame \in TrainingFrames /\ trainer.purpose \in {"development", "reference"}
  /\ trainer.at \in {"loaded", "training", "reverified", "published"} =>
       /\ trainer.manifest.rows = trainer.anchor.says.content
       /\ ToSet(trainer.frame) \cap DOMAIN trainer.manifest.rows = {}
       /\ trainer.purpose = "reference" => trainer.anchor = Recipe.anchor

QuarantineInvariant ==
  /\ QuarantineShape
  /\ SeenInOrder
  /\ AnchorsTellTheTruth
  /\ TrainersHoldTheirAnchor

=============================================================================

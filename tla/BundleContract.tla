--------------------------- MODULE BundleContract ---------------------------
(***************************************************************************)
(* What a model bundle declares about itself, and the two validators that  *)
(* read it (artifacts/bundle.py): ModelBundle.validate, over objects, and  *)
(* the validation of a manifest, over what was written.  A SHA-256 is the  *)
(* value it was computed from; percentages are integers.                   *)
(***************************************************************************)
EXTENDS Naturals, Sequences, FiniteSets

CONSTANTS
  Anchor,     \* the approved quarantine anchor
  Evidence0,  \* the reference evidence the policy tracks
  Nothing     \* an optional field that is null

Roles == {"model_fit", "calibrator_fit", "threshold_selection", "evaluation"}

Claims == {"tainted", "eligible", "metrics", "evaluated"}

\* bundle_v3_producer_policies.json, as far as the validators look.
Policies ==
  [historical  |-> [category |-> "historical_reference_demo", claims |-> {"tainted"},
                    roles |-> {"model_fit"}, fixed |-> 53, bindsScore |-> FALSE],
   development |-> [category |-> "development_evidence", claims |-> {"eligible", "evaluated"},
                    roles |-> Roles, fixed |-> Nothing, bindsScore |-> TRUE],
   synthetic   |-> [category |-> "synthetic_demo", claims |-> {},
                    roles |-> {"model_fit"}, fixed |-> 53, bindsScore |-> FALSE]]

\* _producer_policy refuses any other name.
Tracked(policy) == policy \in DOMAIN Policies

\* What a policy says a bundle is for; a policy's checksum is the policy.
IntendedUse(policy) ==
  [policy |-> policy, policySha |-> Policies[policy], category |-> Policies[policy].category,
   claims |-> [c \in Claims |-> c \in Policies[policy].claims]]

\* The columns in their order, as far as the two groups of the preprocessor tell
\* them apart.
Schema == <<"Time", "V1", "Amount">>

-----------------------------------------------------------------------------
(* The parsers of the declared records *)

ValidIntendedUse(use) ==
  /\ use.category \in {Policies[policy].category : policy \in DOMAIN Policies}
  /\ use.claims \in [Claims -> BOOLEAN]

ValidThresholdSaid(said) == said.value \in Nat /\ said.calibrated \in BOOLEAN

ValidCounts(c) ==
  /\ c.rows > 0
  /\ c.rows = c.legitimate + c.fraud
  /\ c.duplicates <= c.rows

DeclaredRoles(roles) == {role \in Roles : roles[role] # Nothing}

ValidRoles(roles) ==
  /\ roles["model_fit"] # Nothing
  /\ \A role \in DeclaredRoles(roles) : ValidCounts(roles[role])

ValidQuarantine(q) == q.anchor = Anchor /\ q.overlap = 0

\* Every row of the two sources is in the pool, was quarantined or was a
\* duplicate.
ValidReference(r) ==
  /\ ValidQuarantine(r.quarantine)
  /\ r.conflicts = 0
  /\ r.crossSplit <= r.duplicates
  /\ r.pool.rows > 0
  /\ r.pool.rows = r.pool.legitimate + r.pool.fraud
  /\ r.trainRows + r.valRows = r.pool.rows + r.quarantined + r.duplicates

ValidTraining(t) ==
  /\ ValidRoles(t.roles)
  /\ t.rolesSha = t.roles
  /\ t.quarantine # Nothing => ValidQuarantine(t.quarantine)

\* Metadata as the producers build it from a policy: training_provenance_metadata
\* and its neighbours, whose results went through the parsers.
Training(policy, roles, quarantine) ==
  [policy |-> policy, roles |-> roles, rolesSha |-> roles, quarantine |-> quarantine]

ThresholdSaid(policy, value, calibrated) == [value |-> value, calibrated |-> calibrated]

-----------------------------------------------------------------------------
(* The bindings both validators check *)

BindsPolicy(b) ==
  LET policy == Policies[b.use.policy] IN
  /\ Tracked(b.use.policy)
  /\ b.training.policy = b.use.policy
  /\ b.use = IntendedUse(b.use.policy)
  /\ b.said.value = b.threshold
  /\ policy.fixed # Nothing => b.threshold = policy.fixed
  /\ b.said.calibrated = (policy.bindsScore /\ b.score = "calibrated_probability")
  /\ DeclaredRoles(b.training.roles) = policy.roles
  /\ b.use.category = "synthetic_demo" <=> b.training.quarantine = Nothing

\* The digest of the reference evidence leaves the recipe out, which has a digest
\* of its own.
EvidenceOf(r) == [field \in DOMAIN r \ {"recipe"} |-> r[field]]

BindsReference(b) ==
  IF b.use.category # "historical_reference_demo" THEN b.reference = Nothing
  ELSE /\ b.reference # Nothing
       /\ b.training.quarantine # Nothing
       /\ b.reference.quarantine = b.training.quarantine
       /\ b.reference.recipe = Evidence0.recipe
       /\ EvidenceOf(b.reference) = EvidenceOf(Evidence0)
       /\ b.training.roles["model_fit"] = b.reference.pool

\* _validate_component_feature_identities: the model was fitted on the columns
\* the preprocessor gives, in that order.
ComponentsAgree(c) ==
  /\ c.takes = Schema
  /\ Len(c.gives) = Len(Schema)
  /\ \A i, j \in DOMAIN c.gives : c.gives[i] = c.gives[j] => i = j
  /\ c.fits = c.gives

\* positive_class_index: the score of a fraud is the second column.
TellsClasses(c) == c.classes = <<0, 1>>

BindsScore(b) == b.calibrator <=> b.score = "calibrated_probability"

\* ModelBundle.validate: the counts and the checksum of the roles are the
\* parsers' business.
ValidBundle(b) ==
  /\ b.features = Schema
  /\ b.threshold \in 0..100
  /\ BindsScore(b)
  /\ BindsPolicy(b)
  /\ b.fingerprint = b.training.rolesSha
  /\ b.use.category = "historical_reference_demo" => ~b.calibrator
  /\ BindsReference(b)
  /\ ComponentsAgree(b.components)
  /\ TellsClasses(b.components)

Parts(b) == {"preprocessor", "model"} \cup (IF b.calibrator THEN {"calibrator"} ELSE {})

\* _golden_probe: the scores of one fixed transaction.  A score is what computes
\* it; the canonical frame is the same for all.
GoldenProbe(b) ==
  [raw |-> b.components, decision |-> <<b.components, b.score>>,
   calibrated |-> IF b.calibrator THEN b.components ELSE Nothing]

\* verify_bundle_golden_probe
ProbeAgrees(actual, expected) ==
  /\ actual.raw = expected.raw /\ actual.decision = expected.decision
  /\ actual.calibrated = Nothing <=> expected.calibrated = Nothing
  /\ actual.calibrated = expected.calibrated

\* What save_model_bundle writes about b; the digests are of what it serialised.
Manifest(b, runtime) ==
  [bundle |-> b, artifacts |-> Parts(b), runtime |-> runtime, probe |-> GoldenProbe(b)]

ValidManifest(m, runtime) ==
  LET b == m.bundle IN
  /\ b.features = Schema
  /\ b.threshold \in 0..100
  /\ ValidIntendedUse(b.use) /\ ValidThresholdSaid(b.said)
  /\ ValidTraining(b.training)
  /\ b.reference # Nothing => ValidReference(b.reference)
  /\ BindsPolicy(b)
  /\ b.fingerprint = b.training.rolesSha
  /\ BindsReference(b)
  /\ m.artifacts = {"preprocessor", "model"}
                     \cup (IF b.score = "calibrated_probability" THEN {"calibrator"} ELSE {})
  /\ b.use.category = "historical_reference_demo" => b.score = "raw_score"
  /\ m.runtime = runtime

=============================================================================

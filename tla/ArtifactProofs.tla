--------------------------- MODULE ArtifactProofs ---------------------------
(***************************************************************************)
(* What holds of the offline tools for every value of the constants.       *)
(* Of the files they leave for one another: published bundles and          *)
(* quarantine manifests (ArtifactPublication), the way from the test rows  *)
(* to training (TestQuarantine), the private directory of Lane A           *)
(* (LaneAPipeline).  And of what they compute from their rows: partitions, *)
(* capacities, thresholds, calibration errors and the choice of a model    *)
(* (LaneASelection), the columns and cells of features and the files they  *)
(* go through (LaneAFeatures), the roles of training rows, forward folds,  *)
(* the pool of the reference and what both producers declare (DataRoles).  *)
(***************************************************************************)
EXTENDS ArtifactPublication, TestQuarantine, LaneAPipeline, LaneASelection, LaneAFeatures, DataRoles,
        FiniteSums

-----------------------------------------------------------------------------
(* ArtifactPublication: publishers *)

\* What a publisher publishes never changes.
LEMMA ContentStays ==
  ASSUME [PublicationNext]_publicationVars
  PROVE  content' = content
BY DEF PublicationNext, PublisherStep, LoaderStep, Opens, Unlinks, Damage, Writes, FinishesTree,
   Verifies, Places, Confirms, Returns, SyncFails, Fails, FindsPathReplaced, RemovesTree, Dies,
   OpensBundle, ReadsManifest, ReadsPart, Serves, LosePower, publicationVars

LEMMA KindsOfContent ==
  ASSUME NEW p \in Publishers
  PROVE  KindOf(p) \in Kinds
BY DEF KindOf, Kinds

\* Hence its kind, its files and the verdict of a loader do not change either.
LEMMA FilesStay ==
  ASSUME content' = content, NEW p
  PROVE  KindOf(p)' = KindOf(p) /\ FilesOf(p)' = FilesOf(p) /\ Loads(p)' = Loads(p)
BY DEF KindOf, FilesOf, PartsInOrder, Loads

\* The stages of a publisher, and the names and trees it may touch on the way.
LEMMA PublisherMoves ==
  ASSUME PublicationInvariant, NEW p \in Publishers, PublisherStep(p)
  PROVE  /\ stage' \in [Publishers -> {"start", "writing", "written", "verified", "placed",
                                       "confirmed", "discarding", "withdrawing"} \cup Ended]
         /\ \A q \in Publishers \ {p} : stage'[q] = stage[q] /\ tree'[q] = tree[q]
         /\ parent' # "lost" => parent # "lost"
<1>1. stage \in [Publishers -> {"start", "writing", "written", "verified", "placed",
                                "confirmed", "discarding", "withdrawing"} \cup Ended]
      /\ DOMAIN tree = Publishers
  BY DEF PublicationInvariant, PublicationShape
<1>2. CASE Opens(p)
  BY <1>1, <1>2 DEF Opens, MovesTo, OpenedParent, Ended
<1>3. CASE \E file \in FilesOf(p) : Unlinks(p, file) \/ Damage(p, file)
  BY <1>1, <1>3 DEF Unlinks, Damage
<1>4. CASE Writes(p)
  BY <1>1, <1>4 DEF Writes
<1>5. CASE FinishesTree(p)
  BY <1>1, <1>5 DEF FinishesTree, MovesTo
<1>6. CASE Verifies(p) \/ Places(p) \/ Confirms(p) \/ Returns(p)
  BY <1>1, <1>6 DEF Verifies, Places, Confirms, Returns, MovesTo, Ended
<1>7. CASE SyncFails(p) \/ Fails(p) \/ FindsPathReplaced(p) \/ RemovesTree(p) \/ Dies(p)
  BY <1>1, <1>7 DEF SyncFails, Fails, FindsPathReplaced, RemovesTree, Dies, MovesTo, Ended
<1> QED
  BY <1>2, <1>3, <1>4, <1>5, <1>6, <1>7 DEF PublisherStep

\* The names change when a publisher takes a free one or gives its own back.
LEMMA NameMoves ==
  ASSUME PublicationInvariant, NEW p \in Publishers, PublisherStep(p)
  PROVE  /\ \/ entry' = entry
            \/ /\ entry[KindOf(p)] = Nobody0 /\ entry' = [entry EXCEPT ![KindOf(p)] = p]
               /\ stage'[p] = "placed"
            \/ /\ entry[KindOf(p)] = p /\ entry' = [entry EXCEPT ![KindOf(p)] = Nobody0]
               /\ stage'[p] = "raised"
         /\ \/ synced' = synced
            \/ /\ entry[KindOf(p)] = p /\ synced' = [synced EXCEPT ![KindOf(p)] = p]
               /\ entry' = entry /\ stage'[p] = "returned"
         /\ stage'[p] \in {"placed", "confirmed", "withdrawing", "returned"} =>
              \/ stage[p] = "verified" /\ entry'[KindOf(p)] = p /\ stage'[p] = "placed"
              \/ stage[p] = "confirmed" /\ entry[KindOf(p)] = p /\ entry' = entry
                   /\ stage'[p] = "returned" /\ synced'[KindOf(p)] = p
              \/ stage[p] \in {"placed", "confirmed", "withdrawing"} /\ entry' = entry
                   /\ stage'[p] \in {"confirmed", "withdrawing"}
              \/ stage[p] = stage'[p] /\ entry' = entry /\ synced' = synced
<1> DEFINE k == KindOf(p)
<1>1. /\ k \in Kinds /\ stage \in [Publishers -> {"start", "writing", "written", "verified", "placed",
                                   "confirmed", "discarding", "withdrawing"} \cup Ended]
      /\ entry \in [Kinds -> Publishers \cup {Nobody0}]
      /\ synced \in [Kinds -> Publishers \cup {Nobody0}]
      /\ stage[p] \in {"placed", "confirmed", "withdrawing"} => entry[k] = p
  BY KindsOfContent DEF PublicationInvariant, PublicationShape, NamesHeld
<1> HIDE DEF k
<1>2. CASE Opens(p)
  BY <1>1, <1>2 DEF Opens, MovesTo, Ended
<1>3. CASE \E file \in FilesOf(p) : Unlinks(p, file) \/ Damage(p, file)
  BY <1>1, <1>3 DEF Unlinks, Damage
<1>4. CASE Writes(p) \/ FinishesTree(p)
  BY <1>1, <1>4 DEF Writes, FinishesTree, MovesTo
<1>5. CASE Verifies(p) \/ Fails(p) \/ Dies(p)
  BY <1>1, <1>5 DEF Verifies, Fails, Dies, MovesTo
<1>6. CASE Confirms(p) \/ SyncFails(p) \/ FindsPathReplaced(p)
  BY <1>1, <1>6 DEF Confirms, SyncFails, FindsPathReplaced, MovesTo
<1>7. CASE Places(p)
  BY <1>1, <1>7 DEF Places, FreeName, MovesTo, k
<1>8. CASE Returns(p)
  BY <1>1, <1>8 DEF Returns, MovesTo, k
<1>9. CASE RemovesTree(p)
  BY <1>1, <1>9 DEF RemovesTree, MovesTo, k
<1> QED
  BY <1>2, <1>3, <1>4, <1>5, <1>6, <1>7, <1>8, <1>9 DEF PublisherStep, k

LEMMA PublicationStarts ==
  PublicationInit => PublicationInvariant
<1> SUFFICES ASSUME PublicationInit
             PROVE  PublicationInvariant
  OBVIOUS
<1>1. /\ entry = [k \in Kinds |-> Nobody0] /\ synced = [k \in Kinds |-> Nobody0]
      /\ tree = [p \in Publishers |-> NoTree] /\ stage = [p \in Publishers |-> "start"]
      /\ loader = [l \in Loaders |-> NoLoader]
  BY DEF PublicationInit
<1>2. PublicationShape
  BY <1>1 DEF PublicationShape, NoTree, NoLoader
<1>3. NamesHeld
  BY <1>1, KindsOfContent DEF NamesHeld
<1>4. TreesWhole
  BY <1>1 DEF TreesWhole
<1>5. \A l \in Loaders : loader[l].at = "idle" /\ loader[l].bytes = {}
  BY <1>1 DEF NoLoader
<1>6. LoadersInOrder
  BY <1>5 DEF LoadersInOrder
<1> QED
  BY <1>2, <1>3, <1>4, <1>6 DEF PublicationInvariant

\* Whoever holds a name keeps it through the step of another publisher.
LEMMA NamesStayHeld ==
  ASSUME PublicationInvariant, NEW q \in Publishers, PublisherStep(q)
  PROVE  NamesHeld'
<1>1. content' = content
  BY ContentStays DEF PublicationNext
<1>2. \A p : KindOf(p)' = KindOf(p)
  BY <1>1, FilesStay
<1>3. /\ entry \in [Kinds -> Publishers \cup {Nobody0}]
      /\ synced \in [Kinds -> Publishers \cup {Nobody0}]
      /\ NamesHeld
      /\ Nobody0 \notin Publishers
  BY PublicationAssumption DEF PublicationInvariant, PublicationShape
<1>4. \A p \in Publishers : KindOf(p) \in Kinds
  BY KindsOfContent
<1>5. ASSUME NEW k \in Kinds, NEW p \in {entry'[k], synced'[k]}, p # Nobody0
      PROVE  KindOf(p)' = k
  BY <1>2, <1>3, <1>4, <1>5, NameMoves DEF NamesHeld
<1>6. ASSUME NEW p \in Publishers, p # q
      PROVE  /\ stage'[p] \in {"placed", "confirmed", "withdrawing"} => entry'[KindOf(p)] = p
             /\ stage'[p] = "returned" /\ parent' # "lost" =>
                  entry'[KindOf(p)] = p /\ synced'[KindOf(p)] = p
  <2>1. stage'[p] = stage[p] /\ (parent' # "lost" => parent # "lost")
    BY <1>6, PublisherMoves
  <2>2. entry[KindOf(p)] = p => entry'[KindOf(p)] = p
    BY <1>3, <1>4, <1>6, NameMoves
  <2>3. entry[KindOf(p)] = p /\ synced[KindOf(p)] = p => synced'[KindOf(p)] = p
    BY <1>3, <1>4, <1>6, NameMoves
  <2> QED
    BY <1>3, <2>1, <2>2, <2>3 DEF NamesHeld
<1>7. /\ stage'[q] \in {"placed", "confirmed", "withdrawing"} => entry'[KindOf(q)] = q
      /\ stage'[q] = "returned" /\ parent' # "lost" =>
           entry'[KindOf(q)] = q /\ synced'[KindOf(q)] = q
  <2>1. parent' # "lost" => parent # "lost"
    BY PublisherMoves
  <2> QED
    BY <1>3, <2>1, NameMoves DEF NamesHeld
<1>8. \A p \in Publishers :
        /\ stage'[p] \in {"placed", "confirmed", "withdrawing"} => entry'[KindOf(p)'] = p
        /\ stage'[p] = "returned" /\ parent' # "lost" =>
             entry'[KindOf(p)'] = p /\ synced'[KindOf(p)'] = p
  BY <1>2, <1>6, <1>7
<1> QED
  BY <1>5, <1>8 DEF NamesHeld

\* From the moment it is written until its publisher discards it, a tree stays as
\* it is.
LEMMA TreesStayWhole ==
  ASSUME PublicationInvariant, NEW q \in Publishers, PublisherStep(q)
  PROVE  TreesWhole'
<1> DEFINE held    == {"written", "verified", "placed", "confirmed", "returned"}
           checked == {"verified", "placed", "confirmed", "returned"}
           whole(t) == t.there = FilesOf(q) /\ t.durable = FilesOf(q)
<1>1. content' = content
  BY ContentStays DEF PublicationNext
<1>2. \A p : FilesOf(p)' = FilesOf(p) /\ Loads(p)' = Loads(p)
  BY <1>1, FilesStay
<1>3. /\ DOMAIN tree = Publishers /\ TreesWhole
      /\ stage \in [Publishers -> {"start", "writing", "written", "verified", "placed",
                                   "confirmed", "discarding", "withdrawing"} \cup Ended]
      /\ tree[q] = [there |-> tree[q].there, durable |-> tree[q].durable,
                    damaged |-> tree[q].damaged]
  BY DEF PublicationInvariant, PublicationShape
<1>4. /\ stage[q] \in held => whole(tree[q])
      /\ stage[q] \in checked => Loads(q)
  BY <1>3 DEF TreesWhole
<1>5. /\ stage'[q] \in held => whole(tree'[q])
      /\ stage'[q] \in checked => Loads(q)
  <2> HIDE DEF whole
  <2>1. CASE Opens(q)
    BY <1>3, <1>4, <2>1 DEF Opens, MovesTo
  <2>2. CASE \E file \in FilesOf(q) : Unlinks(q, file)
    BY <1>3, <1>4, <2>2 DEF Unlinks
  <2>3. CASE \E file \in FilesOf(q) : Damage(q, file)
    <3>1. tree'[q].there = tree[q].there /\ tree'[q].durable = tree[q].durable
      BY <1>3, <2>3 DEF Damage
    <3> QED
      BY <1>4, <2>3, <3>1 DEF Damage, whole
  <2>4. CASE Writes(q)
    BY <1>3, <1>4, <2>4 DEF Writes
  <2>5. CASE FinishesTree(q)
    <3>1. tree'[q].there = tree[q].there /\ tree'[q].durable = tree[q].there
      BY <1>3, <2>5 DEF FinishesTree
    <3> QED
      BY <1>3, <2>5, <3>1 DEF FinishesTree, MovesTo, whole
  <2>6. CASE Verifies(q) \/ Fails(q) \/ Dies(q)
    BY <1>3, <1>4, <2>6 DEF Verifies, Fails, Dies, MovesTo
  <2>7. CASE Places(q) \/ Confirms(q) \/ Returns(q)
    BY <1>3, <1>4, <2>7 DEF Places, Confirms, Returns, MovesTo
  <2>8. CASE SyncFails(q) \/ FindsPathReplaced(q) \/ RemovesTree(q)
    BY <1>3, <1>4, <2>8 DEF SyncFails, FindsPathReplaced, RemovesTree, MovesTo
  <2> QED
    BY <2>1, <2>2, <2>3, <2>4, <2>5, <2>6, <2>7, <2>8 DEF PublisherStep
<1>6. ASSUME NEW p \in Publishers, p # q
      PROVE  /\ stage'[p] \in held =>
                  tree'[p].there = FilesOf(p) /\ tree'[p].durable = FilesOf(p)
             /\ stage'[p] \in checked => Loads(p)
  BY <1>3, <1>6, PublisherMoves DEF TreesWhole
<1>7. \A p \in Publishers :
        /\ stage'[p] \in held => tree'[p].there = FilesOf(p)' /\ tree'[p].durable = FilesOf(p)'
        /\ stage'[p] \in checked => Loads(p)'
  BY <1>2, <1>5, <1>6
<1> QED
  BY <1>7 DEF TreesWhole

LEMMA ShapeStays ==
  ASSUME PublicationInvariant, NEW q \in Publishers, PublisherStep(q)
  PROVE  PublicationShape'
<1>1. PublicationShape
  BY DEF PublicationInvariant
<1>2. /\ entry' \in [Kinds -> Publishers \cup {Nobody0}]
      /\ synced' \in [Kinds -> Publishers \cup {Nobody0}]
  <2>1. KindOf(q) \in Kinds
    BY KindsOfContent
  <2> QED
    BY <1>1, <2>1, NameMoves DEF PublicationShape
<1>3. stage' \in [Publishers -> {"start", "writing", "written", "verified", "placed", "confirmed",
                                 "discarding", "withdrawing"} \cup Ended]
  BY PublisherMoves
<1>4. \/ tree' = tree
      \/ \E t : tree' = [tree EXCEPT ![q].there = t]
      \/ \E t : tree' = [tree EXCEPT ![q].durable = t]
      \/ \E t : tree' = [tree EXCEPT ![q].damaged = t]
  BY DEF PublisherStep, Opens, Unlinks, Damage, Writes, FinishesTree, Verifies, Places, Confirms,
     Returns, SyncFails, Fails, FindsPathReplaced, RemovesTree, Dies
<1>5. /\ DOMAIN tree' = Publishers
      /\ \A p \in Publishers :
           tree'[p] = [there |-> tree'[p].there, durable |-> tree'[p].durable,
                       damaged |-> tree'[p].damaged]
  <2>1. /\ DOMAIN tree = Publishers
        /\ \A p \in Publishers :
             tree[p] = [there |-> tree[p].there, durable |-> tree[p].durable,
                        damaged |-> tree[p].damaged]
    BY <1>1 DEF PublicationShape
  <2>2. DOMAIN tree' = Publishers /\ \A p \in Publishers \ {q} : tree'[p] = tree[p]
    BY <1>4, <2>1
  <2>3. tree'[q] = [there |-> tree'[q].there, durable |-> tree'[q].durable,
                    damaged |-> tree'[q].damaged]
    BY <1>4, <2>1
  <2> QED
    BY <2>1, <2>2, <2>3
<1>6. loader' = loader
  BY DEF PublisherStep, Opens, Unlinks, Damage, Writes, FinishesTree, Verifies, Places, Confirms,
     Returns, SyncFails, Fails, FindsPathReplaced, RemovesTree, Dies
<1>7. /\ DOMAIN loader' = Loaders
      /\ \A l \in Loaders : loader'[l] = [at |-> loader'[l].at, tree |-> loader'[l].tree,
                                          bytes |-> loader'[l].bytes]
  BY <1>1, <1>6 DEF PublicationShape
<1> QED
  BY <1>2, <1>3, <1>5, <1>7 DEF PublicationShape, Ended

\* No publisher disturbs what a loader has read.
LEMMA LoadersUndisturbed ==
  ASSUME LoadersInOrder, content' = content, loader' = loader
  PROVE  LoadersInOrder'
BY DEF LoadersInOrder, KindOf, HasRead

-----------------------------------------------------------------------------
(* ArtifactPublication: loaders and the loss of power *)

\* The next part of a bundle, while one is left, is one of its parts.
LEMMA NextPartIsAPart ==
  ASSUME NEW p, KindOf(p) = "bundle",
         NEW S, S \subseteq Parts(content[p]), S # Parts(content[p])
  PROVE  NextOf(PartsInOrder(p), S) \in Parts(content[p])
<1> DEFINE parts   == PartsInOrder(p)
           next(i) == parts[i] \notin S /\ \A j \in 1..(i - 1) : parts[j] \in S
<1>1. CASE content[p].calibrator
  <2>1. parts = <<"preprocessor", "model", "calibrator">>
    BY <1>1 DEF PartsInOrder
  <2>2. Parts(content[p]) = {"preprocessor", "model", "calibrator"}
    BY <1>1 DEF Parts
  <2>3. /\ DOMAIN parts = 1..3
        /\ parts[1] = "preprocessor" /\ parts[2] = "model" /\ parts[3] = "calibrator"
    BY <2>1
  <2> HIDE DEF parts
  <2>4. \E i \in DOMAIN parts : next(i)
    <3>1. CASE "preprocessor" \notin S
      <4>1. next(1)
        BY <2>3, <3>1
      <4> QED
        BY <2>3, <4>1
    <3>2. CASE "preprocessor" \in S /\ "model" \notin S
      <4>1. next(2)
        BY <2>3, <3>2
      <4> QED
        BY <2>3, <4>1
    <3>3. CASE "preprocessor" \in S /\ "model" \in S
      <4>1. "calibrator" \notin S
        BY <2>2, <3>3
      <4>2. next(3)
        BY <2>3, <3>3, <4>1
      <4> QED
        BY <2>3, <4>2
    <3> QED
      BY <3>1, <3>2, <3>3
  <2>5. (CHOOSE i \in DOMAIN parts : next(i)) \in 1..3
    BY <2>3, <2>4
  <2>6. NextOf(parts, S) = parts[CHOOSE i \in DOMAIN parts : next(i)]
    BY DEF NextOf
  <2>7. \A i \in 1..3 : parts[i] \in Parts(content[p])
    BY <2>2, <2>3
  <2>8. NextOf(parts, S) \in Parts(content[p])
    BY <2>5, <2>6, <2>7
  <2> QED
    BY <2>8 DEF parts
<1>2. CASE ~content[p].calibrator
  <2>1. parts = <<"preprocessor", "model">>
    BY <1>2 DEF PartsInOrder
  <2>2. Parts(content[p]) = {"preprocessor", "model"}
    BY <1>2 DEF Parts
  <2>3. DOMAIN parts = 1..2 /\ parts[1] = "preprocessor" /\ parts[2] = "model"
    BY <2>1
  <2> HIDE DEF parts
  <2>4. \E i \in DOMAIN parts : next(i)
    <3>1. CASE "preprocessor" \notin S
      <4>1. next(1)
        BY <2>3, <3>1
      <4> QED
        BY <2>3, <4>1
    <3>2. CASE "preprocessor" \in S
      <4>1. "model" \notin S
        BY <2>2, <3>2
      <4>2. next(2)
        BY <2>3, <3>2, <4>1
      <4> QED
        BY <2>3, <4>2
    <3> QED
      BY <3>1, <3>2
  <2>5. (CHOOSE i \in DOMAIN parts : next(i)) \in 1..2
    BY <2>3, <2>4
  <2>6. NextOf(parts, S) = parts[CHOOSE i \in DOMAIN parts : next(i)]
    BY DEF NextOf
  <2>7. \A i \in 1..2 : parts[i] \in Parts(content[p])
    BY <2>2, <2>3
  <2>8. NextOf(parts, S) \in Parts(content[p])
    BY <2>5, <2>6, <2>7
  <2> QED
    BY <2>8 DEF parts
<1> QED
  BY <1>1, <1>2

\* A loader reads what is undamaged, and serves when nothing is left to read.
LEMMA LoadersStayInOrder ==
  ASSUME PublicationInvariant, NEW l \in Loaders, LoaderStep(l)
  PROVE  PublicationInvariant'
<1>1. /\ PublicationShape /\ NamesHeld /\ TreesWhole /\ LoadersInOrder
      /\ UNCHANGED <<parent, entry, synced, tree, stage, content>>
  BY DEF PublicationInvariant, LoaderStep, OpensBundle, ReadsManifest, ReadsPart, Serves
<1>2. NamesHeld' /\ TreesWhole'
  <2>1. NamesHeld'
    BY <1>1 DEF NamesHeld, KindOf
  <2>2. TreesWhole'
    BY <1>1 DEF TreesWhole, FilesOf, PartsInOrder, KindOf, Loads
  <2> QED
    BY <2>1, <2>2
<1>3. /\ DOMAIN loader = Loaders
      /\ \A m \in Loaders : loader[m] = [at |-> loader[m].at, tree |-> loader[m].tree,
                                         bytes |-> loader[m].bytes]
      /\ entry \in [Kinds -> Publishers \cup {Nobody0}]
  BY <1>1 DEF PublicationShape
<1>4. \/ \E at : loader' = [loader EXCEPT ![l].at = at]
      \/ \E at, p : loader' = [loader EXCEPT ![l].at = at, ![l].tree = p]
      \/ \E bytes : loader' = [loader EXCEPT ![l].bytes = bytes]
  BY DEF LoaderStep, OpensBundle, ReadsManifest, ReadsPart, Serves
<1>5. PublicationShape'
  <2>1. /\ DOMAIN loader' = Loaders
        /\ \A m \in Loaders \ {l} : loader'[m] = loader[m]
        /\ loader'[l] = [at |-> loader'[l].at, tree |-> loader'[l].tree,
                         bytes |-> loader'[l].bytes]
    BY <1>3, <1>4
  <2> QED
    BY <1>1, <1>3, <2>1 DEF PublicationShape, Ended
<1> DEFINE Orderly(x) ==
      LET b == content[x.tree]
          read == {r.file : r \in x.bytes}
      IN
      /\ x.at \in {"idle", "opened"} => x.bytes = {}
      /\ x.at \in {"opened", "reading", "serving"} =>
           x.tree \in Publishers /\ KindOf(x.tree) = "bundle"
      /\ x.at \in {"reading", "serving"} =>
           /\ ValidManifest(Manifest(b, Runtime), Runtime)
           /\ x.bytes \subseteq {[file |-> file, damaged |-> FALSE] : file \in Parts(b)}
      /\ x.at = "serving" => read = Parts(b) /\ ValidBundle(b)
<1>6. \A m \in Loaders : Orderly(loader[m])
  BY <1>1 DEF LoadersInOrder, HasRead
<1>7. Orderly(loader'[l])
  <2>1. CASE OpensBundle(l)
    <3>1. CASE entry["bundle"] = Nobody0
      <4>1. loader'[l].at = "failed"
        BY <1>3, <2>1, <3>1 DEF OpensBundle
      <4> QED
        BY <4>1
    <3>2. CASE entry["bundle"] # Nobody0
      <4>1. /\ loader'[l].at = "opened" /\ loader'[l].tree = entry["bundle"]
            /\ loader'[l].bytes = loader[l].bytes /\ loader[l].at = "idle"
        BY <1>3, <2>1, <3>2 DEF OpensBundle
      <4>2. entry["bundle"] \in Publishers /\ KindOf(entry["bundle"]) = "bundle"
        BY <1>1, <1>3, <3>2 DEF NamesHeld, Kinds
      <4>3. loader[l].bytes = {}
        BY <1>6, <4>1
      <4> QED
        BY <4>1, <4>2, <4>3
    <3> QED
      BY <3>1, <3>2
  <2>2. CASE ReadsManifest(l)
    <3>1. CASE loader' = [loader EXCEPT ![l].at = "failed"]
      <4>1. loader'[l].at = "failed"
        BY <1>3, <3>1
      <4> QED
        BY <4>1
    <3>2. CASE Loads(loader[l].tree) /\ loader' = [loader EXCEPT ![l].at = "reading"]
      <4>1. /\ loader'[l].at = "reading" /\ loader'[l].tree = loader[l].tree
            /\ loader'[l].bytes = loader[l].bytes /\ loader[l].at = "opened"
        BY <1>3, <2>2, <3>2 DEF ReadsManifest
      <4>2. /\ loader[l].tree \in Publishers /\ KindOf(loader[l].tree) = "bundle"
            /\ loader[l].bytes = {}
        BY <1>6, <4>1
      <4>3. ValidManifest(Manifest(content[loader[l].tree], Runtime), Runtime)
        BY <3>2, <4>2 DEF Loads
      <4> QED
        BY <4>1, <4>2, <4>3
    <3> QED
      BY <2>2, <3>1, <3>2 DEF ReadsManifest
  <2>3. CASE ReadsPart(l)
    <3> DEFINE p == loader[l].tree
               file == NextOf(PartsInOrder(p), HasRead(l))
    <3>1. /\ loader[l].at = "reading" /\ HasRead(l) # Parts(content[p])
          /\ KindOf(p) = "bundle" /\ p \in Publishers
          /\ ValidManifest(Manifest(content[p], Runtime), Runtime)
          /\ loader[l].bytes \subseteq {[file |-> f, damaged |-> FALSE] : f \in Parts(content[p])}
      BY <1>6, <2>3 DEF ReadsPart
    <3>2. HasRead(l) \subseteq Parts(content[p])
      BY <3>1 DEF HasRead
    <3>3. file \in Parts(content[p])
      BY <3>1, <3>2, NextPartIsAPart
    <3>4. \/ loader' = [loader EXCEPT ![l].at = "failed"]
          \/ /\ file \notin tree[p].damaged
             /\ loader' = [loader EXCEPT ![l].bytes =
                             @ \cup {[file |-> file, damaged |-> file \in tree[p].damaged]}]
      BY <2>3 DEF ReadsPart, MatchesDigest
    <3> HIDE DEF file
    <3>5. CASE loader' = [loader EXCEPT ![l].at = "failed"]
      <4>1. loader'[l].at = "failed"
        BY <1>3, <3>5
      <4> QED
        BY <4>1
    <3>6. CASE /\ file \notin tree[p].damaged
               /\ loader' = [loader EXCEPT ![l].bytes =
                               @ \cup {[file |-> file, damaged |-> file \in tree[p].damaged]}]
      <4>1. /\ loader'[l].at = "reading" /\ loader'[l].tree = p
            /\ loader'[l].bytes =
                 loader[l].bytes \cup {[file |-> file, damaged |-> file \in tree[p].damaged]}
        BY <1>3, <3>1, <3>6
      <4>2. (file \in tree[p].damaged) = FALSE
        BY <3>6
      <4>3. loader'[l].bytes \subseteq
              {[file |-> f, damaged |-> FALSE] : f \in Parts(content[p])}
        BY <3>1, <3>3, <4>1, <4>2
      <4> QED
        BY <3>1, <4>1, <4>3
    <3> QED
      BY <3>4, <3>5, <3>6
  <2>4. CASE Serves(l)
    <3> DEFINE b == content[loader[l].tree]
    <3>1. /\ loader[l].at = "reading" /\ HasRead(l) = Parts(b)
          /\ \/ loader' = [loader EXCEPT ![l].at = "failed"]
             \/ ValidBundle(b) /\ loader' = [loader EXCEPT ![l].at = "serving"]
      BY <2>4 DEF Serves
    <3>2. CASE loader' = [loader EXCEPT ![l].at = "failed"]
      <4>1. loader'[l].at = "failed"
        BY <1>3, <3>2
      <4> QED
        BY <4>1
    <3>3. CASE ValidBundle(b) /\ loader' = [loader EXCEPT ![l].at = "serving"]
      <4>1. /\ loader'[l].at = "serving" /\ loader'[l].tree = loader[l].tree
            /\ loader'[l].bytes = loader[l].bytes
        BY <1>3, <3>3
      <4>2. {r.file : r \in loader[l].bytes} = Parts(b)
        BY <3>1 DEF HasRead
      <4> QED
        BY <1>6, <3>1, <3>3, <4>1, <4>2
    <3> QED
      BY <3>1, <3>2, <3>3
  <2> QED
    BY <2>1, <2>2, <2>3, <2>4 DEF LoaderStep
<1>8. \A m \in Loaders \ {l} : loader'[m] = loader[m]
  BY <1>3, <1>4
<1>9. \A m \in Loaders : Orderly(loader'[m])
  BY <1>6, <1>7, <1>8
<1>10. LoadersInOrder'
  BY <1>1, <1>9 DEF LoadersInOrder, HasRead, KindOf
<1> QED
  BY <1>2, <1>5, <1>10 DEF PublicationInvariant

\* A loss of power undoes what was not synced, and a process with it.
LEMMA PublicationSurvivesPower ==
  ASSUME PublicationInvariant, LosePower
  PROVE  PublicationInvariant'
<1>1. /\ PublicationShape /\ NamesHeld /\ TreesWhole /\ LoadersInOrder
      /\ content' = content
      /\ synced' = entry'
  BY DEF PublicationInvariant, LosePower
<1>2. \A p : /\ KindOf(p)' = KindOf(p) /\ FilesOf(p)' = FilesOf(p)
             /\ Loads(p)' = Loads(p)
  BY <1>1, FilesStay
<1>3. /\ stage' = [p \in Publishers |-> IF stage[p] \in Ended THEN stage[p] ELSE "dead"]
      /\ entry' \in [Kinds -> Publishers \cup {Nobody0}]
      /\ \A k \in Kinds : entry'[k] \in {entry[k], synced[k], Nobody0}
      /\ parent' # "lost" =>
           parent # "lost" /\ \A k \in Kinds : entry'[k] \in {entry[k], synced[k]}
  BY DEF LosePower
<1>4. NamesHeld'
  <2>1. \A p \in Publishers : KindOf(p) \in Kinds
    BY KindsOfContent
  <2>2. \A k \in Kinds : \A p \in {entry'[k], synced'[k]} : p # Nobody0 => KindOf(p)' = k
    BY <1>1, <1>2, <1>3 DEF NamesHeld
  <2>3. \A p \in Publishers :
          /\ stage'[p] \notin {"placed", "confirmed", "withdrawing"}
          /\ stage'[p] = "returned" => stage[p] = "returned"
    BY <1>3 DEF Ended
  <2>4. ASSUME NEW p \in Publishers, stage'[p] = "returned", parent' # "lost"
        PROVE  entry'[KindOf(p)] = p /\ synced'[KindOf(p)] = p
    <3>1. entry[KindOf(p)] = p /\ synced[KindOf(p)] = p
      BY <1>1, <1>3, <2>3, <2>4 DEF NamesHeld
    <3> QED
      BY <1>1, <1>3, <2>1, <2>4, <3>1
  <2>5. \A p \in Publishers :
          stage'[p] = "returned" /\ parent' # "lost" =>
            entry'[KindOf(p)'] = p /\ synced'[KindOf(p)'] = p
    BY <1>2, <2>4
  <2> QED
    BY <2>2, <2>3, <2>5 DEF NamesHeld
<1>5. /\ DOMAIN tree' = Publishers
      /\ \A p \in Publishers : tree'[p] \in Survives(p)
  BY DEF LosePower
<1>6. ASSUME NEW p \in Publishers
      PROVE  /\ tree'[p] = [there |-> tree'[p].there, durable |-> tree'[p].durable,
                            damaged |-> tree'[p].damaged]
             /\ tree[p].there = tree[p].durable =>
                  tree'[p].there = tree[p].there /\ tree'[p].durable = tree[p].durable
  <2>1. tree[p] = [there |-> tree[p].there, durable |-> tree[p].durable,
                   damaged |-> tree[p].damaged]
    BY <1>1 DEF PublicationShape
  <2>2. CASE tree'[p] = tree[p]
    BY <2>1, <2>2
  <2>3. CASE \E some \in SUBSET ((tree[p].there \ tree[p].durable)
                                   \cup (tree[p].durable \ tree[p].there)) :
               tree'[p] = [tree[p] EXCEPT
                 !.there = (tree[p].there \cap tree[p].durable) \cup some,
                 !.durable = (tree[p].there \cap tree[p].durable) \cup some]
    <3>1. PICK some \in SUBSET ((tree[p].there \ tree[p].durable)
                                  \cup (tree[p].durable \ tree[p].there)) :
            tree'[p] = [tree[p] EXCEPT
              !.there = (tree[p].there \cap tree[p].durable) \cup some,
              !.durable = (tree[p].there \cap tree[p].durable) \cup some]
      BY <2>3
    <3>2. tree'[p] = [there |-> (tree[p].there \cap tree[p].durable) \cup some,
                      durable |-> (tree[p].there \cap tree[p].durable) \cup some,
                      damaged |-> tree[p].damaged]
      BY <2>1, <3>1
    <3>3. tree[p].there = tree[p].durable =>
            (tree[p].there \cap tree[p].durable) \cup some = tree[p].there
      BY <3>1
    <3> QED
      BY <3>2, <3>3
  <2>4. tree'[p] = tree[p]
        \/ \E some \in SUBSET ((tree[p].there \ tree[p].durable)
                                 \cup (tree[p].durable \ tree[p].there)) :
             tree'[p] = [tree[p] EXCEPT
               !.there = (tree[p].there \cap tree[p].durable) \cup some,
               !.durable = (tree[p].there \cap tree[p].durable) \cup some]
    <3> DEFINE loose == (tree[p].there \ tree[p].durable) \cup (tree[p].durable \ tree[p].there)
               firm  == tree[p].there \cap tree[p].durable
               left(kept) == [tree[p] EXCEPT !.there = kept, !.durable = kept]
    <3>1. tree'[p] \in {tree[p]} \cup {left(kept) : kept \in {firm \cup some : some \in SUBSET loose}}
      BY <1>5 DEF Survives
    <3>2. CASE tree'[p] \in {left(kept) : kept \in {firm \cup some : some \in SUBSET loose}}
      <4> HIDE DEF left, firm, loose
      <4>1. \E some \in SUBSET loose : tree'[p] = left(firm \cup some)
        BY <3>2
      <4> QED
        BY <4>1 DEF left, firm, loose
    <3> QED
      BY <3>1, <3>2
  <2> QED
    BY <2>2, <2>3, <2>4
<1>7. TreesWhole'
  <2>1. \A p \in Publishers :
          /\ stage'[p] \notin {"written", "verified", "placed", "confirmed"}
          /\ stage'[p] = "returned" => stage[p] = "returned"
    BY <1>3 DEF Ended
  <2>2. \A p \in Publishers :
          stage'[p] = "returned" =>
            tree'[p].there = FilesOf(p) /\ tree'[p].durable = FilesOf(p) /\ Loads(p)
    BY <1>1, <1>6, <2>1 DEF TreesWhole
  <2> QED
    BY <1>2, <2>1, <2>2 DEF TreesWhole
<1>8. /\ DOMAIN loader = Loaders
      /\ \A l \in Loaders : loader[l] = [at |-> loader[l].at, tree |-> loader[l].tree,
                                         bytes |-> loader[l].bytes]
      /\ loader' = [l \in Loaders |->
                      IF loader[l].at = "serving" THEN loader[l]
                      ELSE [loader[l] EXCEPT !.at = "failed"]]
  BY <1>1 DEF PublicationShape, LosePower
<1>9. LoadersInOrder'
  <2>1. \A l \in Loaders : \/ loader'[l] = loader[l] /\ loader[l].at = "serving"
                           \/ loader'[l].at = "failed"
    BY <1>8
  <2>2. ASSUME NEW l \in Loaders
        PROVE  LET b == content[loader'[l].tree] IN
               /\ loader'[l].at \in {"idle", "opened"} => loader'[l].bytes = {}
               /\ loader'[l].at \in {"opened", "reading", "serving"} =>
                    loader'[l].tree \in Publishers /\ KindOf(loader'[l].tree) = "bundle"
               /\ loader'[l].at \in {"reading", "serving"} =>
                    /\ ValidManifest(Manifest(b, Runtime), Runtime)
                    /\ loader'[l].bytes \subseteq
                         {[file |-> file, damaged |-> FALSE] : file \in Parts(b)}
               /\ loader'[l].at = "serving" =>
                    {read.file : read \in loader'[l].bytes} = Parts(b) /\ ValidBundle(b)
    <3>1. CASE loader'[l].at = "failed"
      BY <3>1
    <3>2. CASE loader'[l] = loader[l]
      BY <1>1, <3>2 DEF LoadersInOrder, HasRead
    <3> QED
      BY <2>1, <3>1, <3>2
  <2> QED
    BY <1>1, <2>2 DEF LoadersInOrder, HasRead, KindOf
<1>10. PublicationShape'
  <2>1. stage' \in [Publishers -> {"start", "writing", "written", "verified", "placed",
                                   "confirmed", "discarding", "withdrawing"} \cup Ended]
    BY <1>3 DEF Ended
  <2>2. /\ DOMAIN loader' = Loaders
        /\ \A l \in Loaders : loader'[l] = [at |-> loader'[l].at, tree |-> loader'[l].tree,
                                            bytes |-> loader'[l].bytes]
    BY <1>8
  <2> QED
    BY <1>1, <1>3, <1>5, <1>6, <2>1, <2>2 DEF PublicationShape, Ended
<1> QED
  BY <1>4, <1>7, <1>9, <1>10 DEF PublicationInvariant

LEMMA PublicationStays ==
  ASSUME PublicationInvariant, [PublicationNext]_publicationVars
  PROVE  PublicationInvariant'
<1>1. CASE UNCHANGED publicationVars
  BY <1>1 DEF publicationVars, PublicationInvariant, PublicationShape, NamesHeld, TreesWhole,
     LoadersInOrder, KindOf, FilesOf, PartsInOrder, Loads, HasRead
<1>2. ASSUME NEW q \in Publishers, PublisherStep(q)
      PROVE  PublicationInvariant'
  <2>1. content' = content
    BY ContentStays
  <2>2. loader' = loader
    BY <1>2 DEF PublisherStep, Opens, Unlinks, Damage, Writes, FinishesTree, Verifies, Places,
       Confirms, Returns, SyncFails, Fails, FindsPathReplaced, RemovesTree, Dies
  <2>3. LoadersInOrder'
    BY <2>1, <2>2, LoadersUndisturbed DEF PublicationInvariant
  <2> QED
    BY <1>2, <2>3, NamesStayHeld, TreesStayWhole, ShapeStays DEF PublicationInvariant
<1> QED
  BY <1>1, <1>2, LoadersStayInOrder, PublicationSurvivesPower DEF PublicationNext

LEMMA PublicationHolds ==
  PublicationSpec => []PublicationInvariant
<1>1. PublicationInvariant /\ [PublicationNext]_publicationVars => PublicationInvariant'
  BY PublicationStays
<1> QED
  BY <1>1, PublicationStarts, PTL DEF PublicationSpec

\* Whatever publishers, withdrawals, deaths and losses of power come after it, a
\* publication that returned has its name, and a whole tree that a loader takes;
\* but for the directory of the name, if the publication made it
\* (save_model_bundle, write_historical_quarantine_manifest).
THEOREM PublishedStays ==
  PublicationSpec => []ReturnedStays
<1>1. PublicationInvariant => ReturnedStays
  BY DEF PublicationInvariant, NamesHeld, TreesWhole, ReturnedStays
<1> QED
  BY <1>1, PublicationHolds, PTL

\* A loader that serves read every part of one saved bundle, undamaged, and none
\* else (load_model_bundle).
THEOREM LoadedIsWhole ==
  PublicationSpec => []ServedIsWhole
<1>1. ASSUME PublicationInvariant, NEW l \in Loaders, loader[l].at = "serving"
      PROVE  LET b == content[loader[l].tree] IN
             /\ loader[l].bytes = {[file |-> file, damaged |-> FALSE] : file \in Parts(b)}
             /\ ValidManifest(Manifest(b, Runtime), Runtime) /\ ValidBundle(b)
  <2> DEFINE b == content[loader[l].tree]
  <2>1. /\ ValidManifest(Manifest(b, Runtime), Runtime) /\ ValidBundle(b)
        /\ loader[l].bytes \subseteq {[file |-> file, damaged |-> FALSE] : file \in Parts(b)}
        /\ HasRead(l) = Parts(b)
    BY <1>1 DEF PublicationInvariant, LoadersInOrder
  <2>2. ASSUME NEW file \in Parts(b)
        PROVE  [file |-> file, damaged |-> FALSE] \in loader[l].bytes
    <3>1. PICK read \in loader[l].bytes : read.file = file
      BY <2>1 DEF HasRead
    <3>2. PICK f \in Parts(b) : read = [file |-> f, damaged |-> FALSE]
      BY <2>1
    <3> QED
      BY <3>1, <3>2
  <2> QED
    BY <2>1, <2>2
<1>2. PublicationInvariant => ServedIsWhole
  BY <1>1 DEF ServedIsWhole
<1> QED
  BY <1>2, PublicationHolds, PTL

-----------------------------------------------------------------------------
(* LaneAPipeline *)

LEMMA RowsOfAreRows ==
  ASSUME NEW a \in Assignments, NEW role
  PROVE  RowsOf(a, role) \in SUBSET Rows
BY DEF RowsOf, Rows

LEMMA LaneStarts ==
  LaneInit => LaneInvariant
<1> SUFFICES ASSUME LaneInit
             PROVE  LaneInvariant
  OBVIOUS
<1>1. /\ protocol \in DOMAIN Winners /\ assignment \in Maybe(Assignments)
      /\ report = Absent /\ pins = Absent /\ manifest = Absent
      /\ final = [stage |-> "idle", loaded |-> Absent, scores |-> Absent, labels |-> Absent]
  BY DEF LaneInit, Maybe
<1>2. /\ files \in [LaneRoles -> [features : Maybe(Assignments), labels : Maybe(Assignments)]]
      /\ files["final_test"] = [features |-> Absent, labels |-> Absent]
  <2>1. files = [role \in LaneRoles |-> [features |-> Absent, labels |-> Absent]]
    BY DEF LaneInit
  <2>2. "final_test" \in LaneRoles
    BY DEF LaneRoles
  <2> QED
    BY <2>1, <2>2 DEF Maybe
<1>3. final.stage = "idle" /\ final.scores = Absent /\ final.labels = Absent
  BY <1>1
<1>4. LaneShape
  BY <1>1, <1>2 DEF LaneShape
<1>5. ReportIsTruthful /\ PinsBelongTogether /\ FinalFollowsPins
  BY <1>1, <1>3 DEF ReportIsTruthful, PinsBelongTogether, FinalFollowsPins
<1> QED
  BY <1>4, <1>5 DEF LaneInvariant

\* What an experiment fits is made from the sources of its files.
LEMMA FittedFromFiles ==
  ASSUME LaneShape,
         \A role \in {r \in LaneRoles : RolePermitted(r)} : Loadable(role),
         NEW choice \in Winners[protocol]
  PROVE  /\ Fitted(choice) \in Pipelines
         /\ FittedCalibrator(choice) \in Calibrators
         /\ FittedCalibrator(choice).pipeline = Fitted(choice)
         /\ {files[r].features : r \in LaneRoles} \ {Absent} \in SUBSET Assignments
         /\ PipelineMadeFrom(Fitted(choice), {files[r].features : r \in LaneRoles} \ {Absent})
         /\ CalibratorMadeFrom(FittedCalibrator(choice), Fitted(choice),
                               {files[r].features : r \in LaneRoles} \ {Absent})
<1> DEFINE sources == {files[r].features : r \in LaneRoles} \ {Absent}
<1>1. files \in [LaneRoles -> [features : Maybe(Assignments), labels : Maybe(Assignments)]]
      /\ protocol \in DOMAIN Winners
  BY DEF LaneShape
<1>2. \A r \in LaneRoles \ {"final_test"} :
        files[r].features \in Assignments /\ files[r].features \in sources
  <2>1. \A r \in LaneRoles \ {"final_test"} : files[r].features # Absent
    BY DEF Loadable, RolePermitted
  <2>2. \A r \in LaneRoles : files[r].features \in Maybe(Assignments)
    BY <1>1
  <2> QED
    BY <2>1, <2>2 DEF Maybe
<1>3. \A r \in LaneRoles \ {"final_test"} : LoadedRows(r) \in SUBSET Rows
  BY <1>2, RowsOfAreRows DEF LoadedRows
<1>4. /\ LoadedRows("training") \in SUBSET Rows
      /\ LoadedRows("validation_threshold") \in SUBSET Rows
      /\ LoadedRows("calibration_fit") \in SUBSET Rows
      /\ LoadedRows("calibration_eval") \in SUBSET Rows
  BY <1>3 DEF LaneRoles
<1>5. choice \in UNION {Winners[p] : p \in DOMAIN Winners}
  BY <1>1
<1>6. Fitted(choice) \in Pipelines
  BY <1>4, <1>5 DEF Fitted, Pipelines
<1>7. FittedCalibrator(choice) \in Calibrators
  BY <1>4, <1>6 DEF FittedCalibrator, Calibrators
<1>8. sources \in SUBSET Assignments
  BY <1>1 DEF Maybe
<1>9. /\ PipelineMadeFrom(Fitted(choice), sources)
      /\ CalibratorMadeFrom(FittedCalibrator(choice), Fitted(choice), sources)
  <2>1. /\ files["training"].features \in sources
        /\ files["validation_threshold"].features \in sources
        /\ files["calibration_fit"].features \in sources
        /\ files["calibration_eval"].features \in sources
    BY <1>2 DEF LaneRoles
  <2> HIDE DEF sources
  <2> QED
    BY <2>1 DEF PipelineMadeFrom, CalibratorMadeFrom, Fitted, FittedCalibrator, LoadedRows
<1> QED
  BY <1>6, <1>7, <1>8, <1>9 DEF FittedCalibrator

LEMMA LaneStays ==
  ASSUME LaneInvariant, [LaneNext]_laneVars
  PROVE  LaneInvariant'
<1>1. LaneShape /\ ReportIsTruthful /\ PinsBelongTogether /\ FinalFollowsPins
  BY DEF LaneInvariant
<1>2. CASE UNCHANGED laneVars
  BY <1>1, <1>2 DEF laneVars, LaneInvariant, LaneShape, ReportIsTruthful, PinsBelongTogether,
     FinalFollowsPins
<1>3. CASE \E a \in Assignments : FreezePartition(a)
  <2>1. /\ assignment' \in Maybe(Assignments)
        /\ UNCHANGED <<protocol, files, artifacts, report, pins, manifest, final>>
    BY <1>3 DEF FreezePartition, Maybe
  <2> QED
    BY <1>1, <2>1 DEF LaneInvariant, LaneShape, ReportIsTruthful, PinsBelongTogether,
       FinalFollowsPins
\* Only permitted roles get files, and these are of the assignment.
<1>4. CASE \/ \E role \in LaneRoles, labelled \in BOOLEAN : Materialise(role, labelled)
           \/ BuildTrainingFeatures
  <2>1. UNCHANGED <<protocol, assignment, artifacts, report, pins, manifest, final>>
    BY <1>4 DEF Materialise, BuildTrainingFeatures
  <2>2. /\ files' \in [LaneRoles -> [features : Maybe(Assignments),
                                     labels : Maybe(Assignments)]]
        /\ files'["final_test"] = files["final_test"]
    <3>1. /\ files \in [LaneRoles -> [features : Maybe(Assignments),
                                      labels : Maybe(Assignments)]]
          /\ assignment \in Maybe(Assignments)
      BY <1>1 DEF LaneShape
    <3>2. CASE BuildTrainingFeatures
      BY <3>1, <3>2 DEF BuildTrainingFeatures, LaneRoles
    <3>3. ASSUME NEW role \in LaneRoles, NEW labelled \in BOOLEAN, Materialise(role, labelled)
          PROVE  /\ files' \in [LaneRoles -> [features : Maybe(Assignments),
                                              labels : Maybe(Assignments)]]
                 /\ files'["final_test"] = files["final_test"]
      <4>1. role # "final_test"
        BY <3>3 DEF Materialise, RolePermitted
      <4>2. \E labels \in Maybe(Assignments) :
              files' = [files EXCEPT ![role] = [features |-> assignment, labels |-> labels]]
        BY <3>1, <3>3 DEF Materialise
      <4> QED
        BY <3>1, <4>1, <4>2
    <3> QED
      BY <1>4, <3>2, <3>3
  <2> QED
    BY <1>1, <2>1, <2>2 DEF LaneInvariant, LaneShape, ReportIsTruthful, PinsBelongTogether,
       FinalFollowsPins
<1>5. ASSUME NEW choice \in Winners[protocol], NEW calibrated \in BOOLEAN, NEW dumps \in 1..3,
             Experiment(choice, calibrated, dumps)
      PROVE  LaneInvariant'
  <2>1. /\ UNCHANGED <<protocol, assignment, files, pins, manifest, final>>
        /\ \A role \in {r \in LaneRoles : RolePermitted(r)} : Loadable(role)
        /\ \/ report' = report
           \/ report' = [pipeline   |-> Fitted(choice),
                         calibrator |-> IF calibrated THEN FittedCalibrator(choice) ELSE Absent,
                         sources    |-> {files[r].features : r \in LaneRoles} \ {Absent}]
    BY <1>5 DEF Experiment
  <2>2. CASE report' = report
    BY <1>1, <2>1, <2>2 DEF LaneInvariant, LaneShape, ReportIsTruthful, PinsBelongTogether,
       FinalFollowsPins
  <2>3. CASE report' = [pipeline   |-> Fitted(choice),
                        calibrator |-> IF calibrated THEN FittedCalibrator(choice) ELSE Absent,
                        sources    |-> {files[r].features : r \in LaneRoles} \ {Absent}]
    <3> DEFINE sources == {files[r].features : r \in LaneRoles} \ {Absent}
    <3>1. /\ report'.pipeline = Fitted(choice) /\ report'.sources = sources
          /\ report'.calibrator \in {FittedCalibrator(choice), Absent}
          /\ report' = [pipeline |-> report'.pipeline, calibrator |-> report'.calibrator,
                        sources |-> report'.sources]
      BY <2>3
    <3>2. /\ Fitted(choice) \in Pipelines
          /\ FittedCalibrator(choice) \in Calibrators
          /\ sources \in SUBSET Assignments
          /\ PipelineMadeFrom(Fitted(choice), sources)
          /\ CalibratorMadeFrom(FittedCalibrator(choice), Fitted(choice), sources)
      BY <1>1, <2>1, FittedFromFiles
    <3> HIDE DEF sources
    <3>3. report' \in [pipeline : Pipelines, calibrator : Maybe(Calibrators),
                       sources : SUBSET Assignments]
      BY <3>1, <3>2 DEF Maybe
    <3>4. ReportIsTruthful'
      BY <3>1, <3>2 DEF ReportIsTruthful, PipelineMadeFrom, CalibratorMadeFrom
    <3>5. LaneShape'
      BY <1>1, <2>1, <3>3 DEF LaneShape
    <3> QED
      BY <1>1, <2>1, <3>4, <3>5 DEF LaneInvariant, PinsBelongTogether, FinalFollowsPins
  <2> QED
    BY <2>1, <2>2, <2>3
\* The committed objects are those of a report, whatever partition is named beside.
<1>6. ASSUME NEW a \in Assignments, CommitFreeze(a)
      PROVE  LaneInvariant'
  <2>1. /\ pins = Absent /\ report # Absent /\ report.calibrator # Absent
        /\ pins' = [pipeline |-> report.pipeline, calibrator |-> report.calibrator,
                    assignment |-> a, sources |-> report.sources]
        /\ UNCHANGED <<protocol, assignment, files, artifacts, report, manifest, final>>
    BY <1>6 DEF CommitFreeze
  <2>2. report \in [pipeline : Pipelines, calibrator : Maybe(Calibrators),
                    sources : SUBSET Assignments]
    BY <1>1, <2>1 DEF LaneShape
  <2>3. /\ PipelineMadeFrom(report.pipeline, report.sources)
        /\ CalibratorMadeFrom(report.calibrator, report.pipeline, report.sources)
    BY <1>1, <2>1 DEF ReportIsTruthful
  <2>4. /\ report.pipeline \in Pipelines /\ report.calibrator \in Calibrators
        /\ report.sources \in SUBSET Assignments
    BY <2>1, <2>2 DEF Maybe
  <2>5. /\ pins'.pipeline = report.pipeline /\ pins'.calibrator = report.calibrator
        /\ pins'.assignment = a /\ pins'.sources = report.sources
        /\ pins' \in [pipeline : Pipelines, calibrator : Calibrators, assignment : Assignments,
                      sources : SUBSET Assignments]
    BY <2>1, <2>4
  <2>6. final.stage = "idle" /\ final.scores = Absent /\ manifest = Absent
    BY <1>1, <2>1 DEF FinalFollowsPins, PinsBelongTogether
  <2>7. PinsBelongTogether'
    BY <2>1, <2>3, <2>5, <2>6 DEF PinsBelongTogether, PipelineMadeFrom, CalibratorMadeFrom
  <2> QED
    BY <1>1, <2>1, <2>5, <2>6, <2>7 DEF LaneInvariant, LaneShape, ReportIsTruthful,
       FinalFollowsPins
<1>7. CASE BuildAuthorization
  <2>1. pins # Absent /\ UNCHANGED <<protocol, assignment, files, artifacts, report, pins, final>>
    BY <1>7 DEF BuildAuthorization
  <2> QED
    BY <1>1, <2>1 DEF LaneInvariant, LaneShape, ReportIsTruthful, PinsBelongTogether,
       FinalFollowsPins
<1>8. ASSUME UNCHANGED <<protocol, assignment, files, artifacts, report, pins, manifest, commands>>,
             FinalFollowsPins',
             final' = [stage |-> final'.stage, loaded |-> final'.loaded,
                       scores |-> final'.scores, labels |-> final'.labels]
      PROVE  LaneInvariant'
  BY <1>1, <1>8 DEF LaneInvariant, LaneShape, ReportIsTruthful, PinsBelongTogether
<1>9. final = [stage |-> final.stage, loaded |-> final.loaded, scores |-> final.scores,
               labels |-> final.labels]
  BY <1>1 DEF LaneShape
<1>10. CASE StartFinal
  <2>1. /\ final' = [stage |-> "started",
                     loaded |-> [pipeline |-> artifacts.pipelines["E"],
                                 calibrator |-> artifacts.calibrator],
                     scores |-> final.scores, labels |-> final.labels]
        /\ final.stage = "idle" /\ manifest # Absent
        /\ artifacts.pipelines["E"] = pins.pipeline /\ artifacts.calibrator = pins.calibrator
        /\ UNCHANGED <<protocol, assignment, files, artifacts, report, pins, manifest, commands>>
    BY <1>9, <1>10 DEF StartFinal, ManifestPresent, ArtifactsArePinned
  <2>2. pins # Absent /\ final.scores = Absent /\ final.labels = Absent
    BY <1>1, <2>1 DEF PinsBelongTogether, FinalFollowsPins
  <2>3. FinalFollowsPins'
    BY <2>1, <2>2 DEF FinalFollowsPins
  <2> QED
    BY <1>8, <2>1, <2>3
<1>11. CASE SealScores
  <2> DEFINE scores == [rows |-> FinalIds, by |-> final.loaded]
  <2>1. /\ final' = [stage |-> "scored", loaded |-> final.loaded, scores |-> scores,
                     labels |-> final.labels]
        /\ final.stage = "started" /\ assignment = pins.assignment
        /\ UNCHANGED <<protocol, assignment, files, artifacts, report, pins, manifest, commands>>
    BY <1>9, <1>11 DEF SealScores, AssignmentIsPinned
  <2>2. /\ pins # Absent
        /\ final.loaded = [pipeline |-> pins.pipeline, calibrator |-> pins.calibrator]
        /\ pins \in [pipeline : Pipelines, calibrator : Calibrators, assignment : Assignments,
                     sources : SUBSET Assignments]
    BY <1>1, <2>1 DEF FinalFollowsPins, LaneShape
  <2>3. FinalIds = RowsOf(pins.assignment, "final_test") /\ FinalIds \in SUBSET Rows
    BY <2>1, <2>2, RowsOfAreRows DEF FinalIds
  <2>4. scores # Absent
    <3>1. scores \in FinalScores
      BY <2>2, <2>3 DEF FinalScores, Loaded
    <3> QED
      BY <3>1, AbsenceAssumption
  <2> HIDE DEF scores
  <2>5. scores = [rows |-> RowsOf(pins.assignment, "final_test"), by |-> final.loaded]
    BY <2>3 DEF scores
  <2>6. FinalFollowsPins'
    BY <2>1, <2>2, <2>4, <2>5 DEF FinalFollowsPins, RowsOf
  <2> QED
    BY <1>8, <2>1, <2>6
<1>12. CASE OpenLabels \/ FailFinal
  <2>1. /\ UNCHANGED <<protocol, assignment, files, artifacts, report, pins, manifest, commands>>
        /\ \/ /\ final.stage = "scored"
              /\ final' = [stage |-> "sealed", loaded |-> final.loaded, scores |-> final.scores,
                           labels |-> final.scores.rows]
           \/ /\ final.stage # "idle"
              /\ final' = [stage |-> "failed", loaded |-> final.loaded, scores |-> final.scores,
                           labels |-> final.labels]
    BY <1>9, <1>12 DEF OpenLabels, FailFinal
  <2>2. /\ pins # Absent
        /\ final.loaded = [pipeline |-> pins.pipeline, calibrator |-> pins.calibrator]
        /\ final.stage = "scored" => final.scores # Absent
        /\ final.labels # Absent => final.scores # Absent
        /\ final.scores # Absent =>
             final.scores = [rows |-> RowsOf(pins.assignment, "final_test"), by |-> final.loaded]
    BY <1>1, <2>1 DEF FinalFollowsPins
  <2>3. /\ final'.stage \in {"sealed", "failed"} /\ final'.loaded = final.loaded
        /\ final'.scores = final.scores
        /\ final'.labels # Absent => final.stage = "scored" \/ final.labels # Absent
    BY <2>1
  <2>4. FinalFollowsPins'
    BY <2>1, <2>2, <2>3 DEF FinalFollowsPins, RowsOf
  <2>5. final' = [stage |-> final'.stage, loaded |-> final'.loaded,
                  scores |-> final'.scores, labels |-> final'.labels]
    BY <2>1
  <2> QED
    BY <1>8, <2>1, <2>4, <2>5
<1> QED
  BY <1>2, <1>3, <1>4, <1>5, <1>6, <1>7, <1>10, <1>11, <1>12 DEF LaneNext

\* The rows that the final evaluation scores were held out of everything that
\* made the pipeline and its calibrator, unless a file of the reported run came
\* from another partition than the committed one: through every order of freezing,
\* materialising, experimenting, committing and authorizing, interrupted or not
\* (lane_a_run_final_evaluation.py and the scripts before it).
THEOREM FinalScoresAreHeldOutTheorem ==
  LaneSpec => []FinalScoresAreHeldOut
<1>1. ASSUME LaneInvariant, final.scores # Absent
      PROVE  LET by   == final.scores.by
                 held == RowsOf(pins.assignment, "final_test")
             IN  /\ final.scores.rows = held
                 /\ by.calibrator.pipeline = by.pipeline
                 /\ \A row \in held \cap RowsUsed(by) :
                      \E a \in pins.sources \ {pins.assignment} : a[row] # "final_test"
  <2>1. /\ pins # Absent
        /\ final.scores.rows = RowsOf(pins.assignment, "final_test")
        /\ final.scores.by.pipeline = pins.pipeline
        /\ final.scores.by.calibrator = pins.calibrator
    BY <1>1 DEF LaneInvariant, FinalFollowsPins
  <2>2. /\ PipelineMadeFrom(pins.pipeline, pins.sources)
        /\ CalibratorMadeFrom(pins.calibrator, pins.pipeline, pins.sources)
    BY <1>1, <2>1 DEF LaneInvariant, PinsBelongTogether
  <2>3. \A row \in RowsUsed(final.scores.by) :
          \E a \in pins.sources : a[row] # "final_test"
    BY <2>1, <2>2 DEF PipelineMadeFrom, CalibratorMadeFrom, RowsUsed, RowsOf
  <2>4. \A row \in RowsOf(pins.assignment, "final_test") : pins.assignment[row] = "final_test"
    BY DEF RowsOf
  <2>5. pins.calibrator.pipeline = pins.pipeline
    BY <2>2 DEF CalibratorMadeFrom
  <2> QED
    BY <2>1, <2>3, <2>4, <2>5
<1>2. LaneInvariant => FinalScoresAreHeldOut
  BY <1>1 DEF FinalScoresAreHeldOut, LaneInvariant, LaneShape, FinalFollowsPins
<1>3. LaneInvariant /\ [LaneNext]_laneVars => LaneInvariant'
  BY LaneStays
<1> QED
  BY <1>2, <1>3, LaneStarts, PTL DEF LaneSpec

-----------------------------------------------------------------------------
(* TestQuarantine: rows that are left out, files that are read twice *)

\* A subframe has rows of the chosen places only: the ranks of n places are the
\* numbers up to n.
LEMMA SubframeRows ==
  ASSUME NEW frame, NEW indices \in SUBSET Int, IsFiniteSet(indices),
         NEW k \in DOMAIN Subframe(frame, indices)
  PROVE  \E i \in indices : Subframe(frame, indices)[k] = frame[i]
<1> DEFINE n       == Cardinality(indices)
           upto(i) == {j \in indices : j <= i}
           rank    == [i \in indices |-> Cardinality(upto(i))]
<1>1. n \in Nat
  BY FS_CardinalityType
<1>2. ASSUME NEW i \in indices
      PROVE  IsFiniteSet(upto(i)) /\ Cardinality(upto(i)) \in 1..n
  <2>1. upto(i) \subseteq indices
    OBVIOUS
  <2>2. IsFiniteSet(upto(i)) /\ Cardinality(upto(i)) <= n
    BY <2>1, FS_Subset
  <2>3. upto(i) # {} /\ Cardinality(upto(i)) \in Nat
    BY <2>2, FS_CardinalityType
  <2>4. Cardinality(upto(i)) # 0
    BY <2>2, <2>3, FS_EmptySet
  <2> QED
    BY <1>1, <2>2, <2>3, <2>4
<1>3. ASSUME NEW i \in indices, NEW j \in indices, i < j
      PROVE  rank[i] # rank[j]
  <2>1. i \in Int /\ j \in Int /\ \A x \in indices : x \in Int
    OBVIOUS
  <2>2. /\ \A x \in indices : x <= i => x <= j
        /\ j <= j /\ ~(j <= i)
    BY <1>3, <2>1
  <2>3. upto(i) \subseteq upto(j) /\ j \in upto(j) /\ j \notin upto(i)
    BY <2>2
  <2>4. Cardinality(upto(i)) = Cardinality(upto(j)) => upto(i) = upto(j)
    BY <1>2, <2>3, FS_Subset
  <2> QED
    BY <2>3, <2>4
<1>4. rank \in Injection(indices, 1..n)
  <2>1. rank \in [indices -> 1..n]
    BY <1>2
  <2>2. \A i, j \in indices : rank[i] = rank[j] => i = j
    BY <1>3
  <2> QED
    BY <2>1, <2>2 DEF Injection, IsInjective
<1>5. IsFiniteSet(1..n) /\ Cardinality(1..n) = n
  BY <1>1, FS_Interval
<1>6. rank \in Surjection(indices, 1..n)
  BY <1>4, <1>5, FS_Injection
<1>7. k \in 1..n
  BY DEF Subframe
<1>8. \E i \in indices : Cardinality(upto(i)) = k
  BY <1>6, <1>7 DEF Surjection
<1>9. (CHOOSE i \in indices : Cardinality(upto(i)) = k) \in indices
  BY <1>8
<1>10. Subframe(frame, indices)[k] = frame[CHOOSE i \in indices : Cardinality(upto(i)) = k]
  BY <1>7 DEF Subframe
<1> QED
  BY <1>9, <1>10

\* Hence what is outside the quarantine shares no row with it.
LEMMA OutsideIsOutside ==
  ASSUME NEW frame, Len(frame) \in Nat, DOMAIN frame = 1..Len(frame), NEW payload
  PROVE  ToSet(Outside(frame, payload)) \cap DOMAIN payload.rows = {}
<1> DEFINE kept == {i \in DOMAIN frame : frame[i] \notin DOMAIN payload.rows}
<1>1. kept \in SUBSET Int /\ IsFiniteSet(kept)
  <2>1. IsFiniteSet(1..Len(frame)) /\ kept \subseteq 1..Len(frame)
    BY FS_Interval
  <2> QED
    BY <2>1, FS_Subset
<1>2. Outside(frame, payload) = Subframe(frame, kept)
  BY DEF Outside
<1> HIDE DEF kept
<1>3. \A k \in DOMAIN Subframe(frame, kept) :
        \E i \in kept : Subframe(frame, kept)[k] = frame[i]
  BY <1>1, SubframeRows
<1>4. \A i \in kept : frame[i] \notin DOMAIN payload.rows
  BY DEF kept
<1> QED
  BY <1>2, <1>3, <1>4 DEF ToSet

-----------------------------------------------------------------------------
(* TestQuarantine: what is seen of the test files, and what is said of them *)

LEMMA LooksInTurn ==
  /\ Len(LooksAt) = 6
  /\ LooksAt[1] = "x" /\ LooksAt[2] = "y" /\ LooksAt[3] = "x"
  /\ LooksAt[4] = "y" /\ LooksAt[5] = "x" /\ LooksAt[6] = "y"
  /\ \A i \in 1..6 : LooksAt[i] \in {"x", "y"}
BY DEF LooksAt

\* Files that hash the same before and after a read were read as hashed, unless
\* they were replaced twice meanwhile.
LEMMA ReadAsHashed ==
  ASSUME QuarantineShape, SeenInOrder, SplitRead,
         past.replaced < deriver.since + 2
  PROVE  deriver.seen[3] = deriver.seen[1] /\ deriver.seen[4] = deriver.seen[2]
<1> DEFINE seen == deriver.seen
           now(i) == retained[LooksAt[i]]
<1>1. /\ Len(seen) = 6 /\ seen = [i \in 1..6 |-> seen[i]]
      /\ deriver.since \in Nat /\ past.replaced \in Nat /\ deriver.since <= past.replaced
  BY LooksInTurn DEF SplitRead, QuarantineShape
<1>2. seen[1] = seen[5] /\ seen[2] = seen[6]
  <2>1. SubSeq(seen, 1, 2) = SubSeq(seen, 5, 6)
    BY DEF SplitRead, SameBeforeAndAfter
  <2>2. seen \in Seq({seen[i] : i \in 1..6})
    BY <1>1
  <2>3. SubSeq(seen, 1, 2)[1] = seen[1] /\ SubSeq(seen, 1, 2)[2] = seen[2]
    BY <1>1, <2>2
  <2>4. SubSeq(seen, 5, 6)[1] = seen[5] /\ SubSeq(seen, 5, 6)[2] = seen[6]
    BY <1>1, <2>2
  <2> QED
    BY <2>1, <2>3, <2>4
<1>3. DOMAIN seen = 1..6
  BY <1>1
<1>4. CASE past.replaced = deriver.since
  <2>1. \A i \in 1..6 : seen[i] = now(i)
    BY <1>3, <1>4 DEF SeenInOrder
  <2>2. /\ seen[1] = retained["x"] /\ seen[3] = retained["x"]
        /\ seen[2] = retained["y"] /\ seen[4] = retained["y"]
    BY <2>1, LooksInTurn
  <2> QED
    BY <2>2
<1>5. CASE past.replaced = deriver.since + 1
  <2>1. \A i, j \in 1..6 :
          i <= j /\ LooksAt[i] = LooksAt[j] =>
            /\ seen[i] = now(i) => seen[j] = now(j)
            /\ seen[i] # now(i) /\ seen[j] # now(j) => seen[i] = seen[j]
    BY <1>3, <1>5 DEF SeenInOrder
  <2> HIDE DEF seen
  <2>2. seen[3] = seen[1]
    <3>1. /\ seen[1] = retained["x"] => seen[3] = retained["x"]
          /\ seen[3] = retained["x"] => seen[5] = retained["x"]
          /\ seen[1] # retained["x"] /\ seen[3] # retained["x"] => seen[1] = seen[3]
      BY <2>1, LooksInTurn
    <3> QED
      BY <1>2, <3>1
  <2>3. seen[4] = seen[2]
    <3>1. /\ seen[2] = retained["y"] => seen[4] = retained["y"]
          /\ seen[4] = retained["y"] => seen[6] = retained["y"]
          /\ seen[2] # retained["y"] /\ seen[4] # retained["y"] => seen[2] = seen[4]
      BY <2>1, LooksInTurn
    <3> QED
      BY <1>2, <3>1
  <2> QED
    BY <2>2, <2>3 DEF seen
<1> QED
  BY <1>1, <1>4, <1>5

LEMMA QuarantineStarts ==
  QuarantineInit => QuarantineInvariant
<1> SUFFICES ASSUME QuarantineInit
             PROVE  QuarantineInvariant
  OBVIOUS
<1>1. /\ retained \in [x : XContents, y : YContents] /\ anchor = Missing
      /\ deriver.seen = <<>> /\ deriver.since = 0 /\ trainer.at = "idle"
      /\ past.candidates = {} /\ past.approved = {} /\ past.replaced = 0
  BY DEF QuarantineInit, NoDeriver, NoTrainer
<1>2. QuarantineShape
  <2>1. Len(deriver.seen) = 0 /\ deriver.seen = [i \in 1..0 |-> deriver.seen[i]]
    BY <1>1
  <2>2. /\ deriver = [purpose |-> deriver.purpose, anchor |-> deriver.anchor,
                      seen |-> deriver.seen, since |-> deriver.since]
        /\ trainer = [at |-> trainer.at, purpose |-> trainer.purpose, frame |-> trainer.frame,
                      anchor |-> trainer.anchor, manifest |-> trainer.manifest]
        /\ past = [candidates |-> past.candidates, approved |-> past.approved,
                   disturbed |-> past.disturbed, replaced |-> past.replaced,
                   others |-> past.others]
    BY DEF QuarantineInit, NoDeriver, NoTrainer
  <2> QED
    BY <1>1, <2>1, <2>2, LooksInTurn DEF QuarantineShape
<1>3. SeenInOrder
  <2>1. DOMAIN deriver.seen = {}
    BY <1>1
  <2> QED
    BY <2>1 DEF SeenInOrder
<1>4. AnchorsTellTheTruth /\ TrainersHoldTheirAnchor
  BY <1>1 DEF AnchorsTellTheTruth, TrainersHoldTheirAnchor
<1> QED
  BY <1>2, <1>3, <1>4 DEF QuarantineInvariant

\* A call that has looked at nothing has seen nothing out of order.
LEMMA NothingSeen ==
  ASSUME deriver'.seen = <<>>
  PROVE  /\ SeenInOrder'
         /\ Len(deriver'.seen) \in 0..Len(LooksAt)
         /\ deriver'.seen = [i \in 1..Len(deriver'.seen) |-> deriver'.seen[i]]
<1>1. DOMAIN deriver'.seen = {} /\ Len(deriver'.seen) = 0
  OBVIOUS
<1>2. SeenInOrder'
  BY <1>1 DEF SeenInOrder
<1>3. deriver'.seen = [i \in 1..Len(deriver'.seen) |-> deriver'.seen[i]]
  BY <1>1
<1> QED
  BY <1>1, <1>2, <1>3, LooksInTurn

\* One more look, at a file as it is now.
LEMMA LookStaysInOrder ==
  ASSUME QuarantineInvariant, LooksAtFile
  PROVE  QuarantineInvariant'
<1> DEFINE seen == deriver.seen
           n == Len(seen)
<1>1. /\ QuarantineShape /\ SeenInOrder /\ AnchorsTellTheTruth /\ TrainersHoldTheirAnchor
      /\ UNCHANGED <<retained, anchor, hashList, trainer, past>>
      /\ n < 6 /\ n \in Nat /\ seen = [i \in 1..n |-> seen[i]]
      /\ deriver' = [deriver EXCEPT !.seen = Append(seen, retained[LooksAt[n + 1]])]
      /\ deriver = [purpose |-> deriver.purpose, anchor |-> deriver.anchor,
                    seen |-> deriver.seen, since |-> deriver.since]
  BY LooksInTurn DEF QuarantineInvariant, QuarantineShape, LooksAtFile
<1> DEFINE look == retained[LooksAt[n + 1]]
<1>2. deriver' = [purpose |-> deriver.purpose, anchor |-> deriver.anchor,
                  seen |-> Append(seen, look), since |-> deriver.since]
  BY <1>1
<1>3. deriver'.since = deriver.since /\ deriver'.seen = Append(seen, look)
  BY <1>2
<1>4. /\ Len(deriver'.seen) = n + 1
      /\ DOMAIN deriver'.seen = 1..(n + 1)
      /\ \A i \in 1..n : deriver'.seen[i] = seen[i]
      /\ deriver'.seen[n + 1] = look
      /\ deriver'.seen = [i \in 1..(n + 1) |-> deriver'.seen[i]]
  <2>1. seen \in Seq({seen[i] : i \in 1..n})
    BY <1>1
  <2> HIDE DEF look
  <2>2. PICK S : seen \in Seq(S) /\ look \in S
    <3> DEFINE S == {seen[i] : i \in 1..n} \cup {look}
    <3>1. seen \in Seq(S) /\ look \in S
      BY <1>1
    <3> HIDE DEF S
    <3> QED
      BY <3>1
  <2>3. deriver'.seen \in Seq(S)
    BY <1>3, <2>2
  <2> QED
    BY <1>1, <1>3, <2>2, <2>3
<1>5. QuarantineShape'
  <2>1. Len(deriver'.seen) \in 0..Len(LooksAt)
    BY <1>1, <1>4, LooksInTurn
  <2>2. deriver'.seen = [i \in 1..Len(deriver'.seen) |-> deriver'.seen[i]]
    BY <1>4
  <2>3. deriver' = [purpose |-> deriver'.purpose, anchor |-> deriver'.anchor,
                    seen |-> deriver'.seen, since |-> deriver'.since]
    BY <1>2
  <2> QED
    BY <1>1, <1>3, <2>1, <2>2, <2>3 DEF QuarantineShape
<1>6. SeenInOrder'
  <2> DEFINE now(i) == retained[LooksAt[i]]
             seen1 == deriver'.seen
  <2>1. DOMAIN seen = 1..n /\ DOMAIN seen1 = 1..(n + 1)
    BY <1>1, <1>4
  <2>2. seen1[n + 1] = now(n + 1) /\ \A i \in 1..n : seen1[i] = seen[i]
    BY <1>4
  <2> HIDE DEF seen, seen1, now, n
  <2>3. \A i \in 1..(n + 1) : i \in 1..n \/ i = n + 1
    BY <1>1
  <2>4. past.replaced = deriver.since => \A i \in 1..(n + 1) : seen1[i] = now(i)
    <3>1. past.replaced = deriver.since => \A i \in 1..n : seen[i] = now(i)
      BY <1>1, <2>1 DEF SeenInOrder, seen, now
    <3> QED
      BY <2>2, <2>3, <3>1
  <2>5. past.replaced = deriver.since + 1 =>
          \A i, j \in 1..(n + 1) :
            i <= j /\ LooksAt[i] = LooksAt[j] =>
              /\ seen1[i] = now(i) => seen1[j] = now(j)
              /\ seen1[i] # now(i) /\ seen1[j] # now(j) => seen1[i] = seen1[j]
    <3>1. past.replaced = deriver.since + 1 =>
            \A i, j \in 1..n :
              i <= j /\ LooksAt[i] = LooksAt[j] =>
                /\ seen[i] = now(i) => seen[j] = now(j)
                /\ seen[i] # now(i) /\ seen[j] # now(j) => seen[i] = seen[j]
      BY <1>1, <2>1 DEF SeenInOrder, seen, now
    <3>2. ASSUME past.replaced = deriver.since + 1,
                 NEW i \in 1..(n + 1), NEW j \in 1..(n + 1), i <= j, LooksAt[i] = LooksAt[j]
          PROVE  /\ seen1[i] = now(i) => seen1[j] = now(j)
                 /\ seen1[i] # now(i) /\ seen1[j] # now(j) => seen1[i] = seen1[j]
      <4>1. CASE j = n + 1
        BY <2>2, <4>1
      <4>2. CASE j \in 1..n
        <5>1. i \in 1..n
          BY <1>1, <3>2, <4>2
        <5> QED
          BY <2>2, <3>1, <3>2, <4>2, <5>1
      <4> QED
        BY <2>3, <4>1, <4>2
    <3> QED
      BY <3>2
  <2>6. /\ retained' = retained /\ past' = past /\ deriver'.since = deriver.since
    BY <1>1, <1>3
  <2> QED
    BY <2>1, <2>4, <2>5, <2>6 DEF SeenInOrder, seen1, now
<1>7. AnchorsTellTheTruth' /\ TrainersHoldTheirAnchor'
  BY <1>1 DEF AnchorsTellTheTruth, TrainersHoldTheirAnchor
<1> QED
  BY <1>5, <1>6, <1>7 DEF QuarantineInvariant

\* One replacement makes what was seen of this file the old content; a second
\* may make it anything.
LEMMA ReplacementStaysInOrder ==
  ASSUME QuarantineInvariant, NEW file \in {"x", "y"},
         NEW new \in IF file = "x" THEN XContents ELSE YContents,
         Replaces(file, new)
  PROVE  QuarantineInvariant'
<1> DEFINE seen == deriver.seen
<1>1. /\ QuarantineShape /\ SeenInOrder /\ AnchorsTellTheTruth /\ TrainersHoldTheirAnchor
      /\ UNCHANGED <<anchor, hashList, deriver, trainer>>
      /\ new # retained[file]
      /\ retained' = [retained EXCEPT ![file] = new]
      /\ retained \in [x : XContents, y : YContents]
      /\ past' = [past EXCEPT !.replaced = @ + 1]
      /\ past = [candidates |-> past.candidates, approved |-> past.approved,
                 disturbed |-> past.disturbed, replaced |-> past.replaced,
                 others |-> past.others]
      /\ past.replaced \in Nat /\ deriver.since \in Nat /\ deriver.since <= past.replaced
  BY DEF QuarantineInvariant, QuarantineShape, Replaces
<1>2. past' = [candidates |-> past.candidates, approved |-> past.approved,
               disturbed |-> past.disturbed, replaced |-> past.replaced + 1,
               others |-> past.others]
  BY <1>1
<1>3. /\ past'.replaced = past.replaced + 1 /\ past'.candidates = past.candidates
      /\ past'.approved = past.approved /\ past'.disturbed = past.disturbed
      /\ past' = [candidates |-> past'.candidates, approved |-> past'.approved,
                  disturbed |-> past'.disturbed, replaced |-> past'.replaced,
                  others |-> past'.others]
  BY <1>2
<1>4. /\ retained' \in [x : XContents, y : YContents]
      /\ retained'[file] # retained[file]
      /\ \A f \in {"x", "y"} \ {file} : retained'[f] = retained[f]
  BY <1>1
<1>5. QuarantineShape'
  BY <1>1, <1>3, <1>4 DEF QuarantineShape
<1>6. SeenInOrder'
  <2>1. past'.replaced # deriver.since
    BY <1>1, <1>3
  <2>2. ASSUME past'.replaced = deriver.since + 1,
               NEW i \in DOMAIN seen, NEW j \in DOMAIN seen, LooksAt[i] = LooksAt[j]
        PROVE  /\ seen[i] = retained'[LooksAt[i]] => seen[j] = retained'[LooksAt[j]]
               /\ seen[i] # retained'[LooksAt[i]] /\ seen[j] # retained'[LooksAt[j]] =>
                    seen[i] = seen[j]
    <3>1. past.replaced = deriver.since
      BY <1>1, <1>3, <2>2
    <3>2. seen[i] = retained[LooksAt[i]] /\ seen[j] = retained[LooksAt[j]]
      BY <1>1, <2>2, <3>1 DEF SeenInOrder
    <3> QED
      BY <2>2, <3>2
  <2> QED
    BY <1>1, <2>1, <2>2 DEF SeenInOrder
<1>7. AnchorsTellTheTruth' /\ TrainersHoldTheirAnchor'
  BY <1>1, <1>3 DEF AnchorsTellTheTruth, TrainersHoldTheirAnchor
<1> QED
  BY <1>5, <1>6, <1>7 DEF QuarantineInvariant

\* A call starts with nothing seen, and ends with its candidate, its manifest or
\* nothing.
LEMMA DerivingKeepsInvariant ==
  ASSUME QuarantineInvariant,
         \/ \E purpose \in {"candidate", "manifest"} : StartsDeriving(purpose)
         \/ PrintsCandidate \/ WritesManifest \/ GivesUpDeriving
  PROVE  QuarantineInvariant'
<1>1. /\ QuarantineShape /\ SeenInOrder /\ AnchorsTellTheTruth /\ TrainersHoldTheirAnchor
      /\ UNCHANGED <<retained, anchor, trainer>>
  BY DEF QuarantineInvariant, StartsDeriving, PrintsCandidate, WritesManifest, GivesUpDeriving
<1>2. /\ past.replaced \in Nat
      /\ past = [candidates |-> past.candidates, approved |-> past.approved,
                 disturbed |-> past.disturbed, replaced |-> past.replaced,
                 others |-> past.others]
  BY <1>1 DEF QuarantineShape
<1>3. /\ deriver'.seen = <<>> /\ deriver'.since \in {0, past.replaced}
      /\ deriver' = [purpose |-> deriver'.purpose, anchor |-> deriver'.anchor,
                     seen |-> deriver'.seen, since |-> deriver'.since]
  <2>1. \/ deriver' = NoDeriver
        \/ \E purpose \in {"candidate", "manifest"} :
             deriver' = [purpose |-> purpose, seen |-> <<>>, since |-> past.replaced,
                         anchor |-> IF purpose = "manifest" THEN anchor ELSE Missing]
    BY DEF StartsDeriving, PrintsCandidate, WritesManifest, GivesUpDeriving
  <2>2. CASE deriver' = NoDeriver
    BY <2>2 DEF NoDeriver
  <2>3. CASE \E purpose \in {"candidate", "manifest"} :
               deriver' = [purpose |-> purpose, seen |-> <<>>, since |-> past.replaced,
                           anchor |-> IF purpose = "manifest" THEN anchor ELSE Missing]
    BY <2>3
  <2> QED
    BY <2>1, <2>2, <2>3
<1>4. /\ past' = [candidates |-> past'.candidates, approved |-> past.approved,
                  disturbed |-> past'.disturbed, replaced |-> past.replaced,
                  others |-> past.others]
      /\ \A a \in past'.candidates \ past'.disturbed : NamesWhatItHas(a)
      /\ past.candidates \subseteq past'.candidates
  <2>1. CASE past' = past
    BY <1>1, <1>2, <2>1 DEF AnchorsTellTheTruth
  <2>2. CASE PrintsCandidate
    <3> DEFINE candidate == AnchorOf(PayloadRead)
               disturbed == IF past.replaced >= deriver.since + 2
                            THEN past.disturbed \cup {candidate} ELSE past.disturbed
    <3>1. SplitRead /\ past' = [past EXCEPT !.candidates = @ \cup {candidate},
                                            !.disturbed = disturbed]
      BY <2>2 DEF PrintsCandidate
    <3>2. candidate \in disturbed \/ NamesWhatItHas(candidate)
      <4>1. CASE past.replaced >= deriver.since + 2
        BY <4>1
      <4>2. CASE past.replaced < deriver.since + 2
        <5>1. deriver.seen[3] = deriver.seen[1] /\ deriver.seen[4] = deriver.seen[2]
          BY <1>1, <3>1, <4>2, ReadAsHashed
        <5>2. /\ candidate.sources = [x |-> deriver.seen[1], y |-> deriver.seen[2]]
              /\ candidate.says = Declared(TestFrame(deriver.seen[3], deriver.seen[4]))
          BY DEF AnchorOf, PayloadRead, Payload
        <5>3. candidate.sources.x = deriver.seen[1] /\ candidate.sources.y = deriver.seen[2]
          BY <5>2
        <5> QED
          BY <5>1, <5>2, <5>3 DEF NamesWhatItHas
      <4>3. deriver.since \in Nat
        BY <1>1 DEF QuarantineShape
      <4> QED
        BY <1>2, <4>1, <4>2, <4>3
    <3>3. past.disturbed \subseteq disturbed
      OBVIOUS
    <3> HIDE DEF candidate, disturbed
    <3>4. past' = [candidates |-> past.candidates \cup {candidate}, approved |-> past.approved,
                   disturbed |-> disturbed, replaced |-> past.replaced, others |-> past.others]
      BY <1>2, <3>1
    <3>5. past'.candidates = past.candidates \cup {candidate} /\ past'.disturbed = disturbed
      BY <3>4
    <3> QED
      BY <1>1, <3>2, <3>3, <3>4, <3>5 DEF AnchorsTellTheTruth
  <2> QED
    BY <2>1, <2>2 DEF StartsDeriving, WritesManifest, GivesUpDeriving
<1>5. past'.approved = past.approved /\ past'.replaced = past.replaced
  BY <1>4
<1>6. QuarantineShape'
  BY <1>1, <1>2, <1>3, <1>4, <1>5, NothingSeen DEF QuarantineShape
<1>7. AnchorsTellTheTruth'
  BY <1>1, <1>4, <1>5 DEF AnchorsTellTheTruth
<1>8. TrainersHoldTheirAnchor'
  BY <1>1, <1>5 DEF TrainersHoldTheirAnchor
<1> QED
  BY <1>3, <1>6, <1>7, <1>8, NothingSeen DEF QuarantineInvariant

\* An approval makes a candidate the anchor; an edit of the manifest changes
\* nothing that anybody holds.
LEMMA ApprovalsKeepInvariant ==
  ASSUME QuarantineInvariant,
         \/ \E candidate \in past.candidates : Approves(candidate)
         \/ \E result : Edits(result)
  PROVE  QuarantineInvariant'
<1>1. /\ QuarantineShape /\ SeenInOrder /\ AnchorsTellTheTruth /\ TrainersHoldTheirAnchor
      /\ UNCHANGED <<retained, deriver, trainer>>
  BY DEF QuarantineInvariant, Approves, Edits
<1>2. past = [candidates |-> past.candidates, approved |-> past.approved,
              disturbed |-> past.disturbed, replaced |-> past.replaced, others |-> past.others]
  BY <1>1 DEF QuarantineShape
<1>3. /\ past'.candidates = past.candidates /\ past'.disturbed = past.disturbed
      /\ past'.replaced = past.replaced
      /\ past.approved \subseteq past'.approved /\ past'.approved \subseteq past.candidates
      /\ anchor' # Missing => anchor' \in past'.approved
      /\ past' = [candidates |-> past'.candidates, approved |-> past'.approved,
                  disturbed |-> past'.disturbed, replaced |-> past'.replaced,
                  others |-> past'.others]
  <2>1. CASE \E candidate \in past.candidates : Approves(candidate)
    <3>1. PICK candidate \in past.candidates : Approves(candidate)
      BY <2>1
    <3>2. /\ anchor' = candidate
          /\ past' = [candidates |-> past.candidates,
                      approved |-> past.approved \cup {candidate},
                      disturbed |-> past.disturbed, replaced |-> past.replaced,
                      others |-> past.others + 1]
      BY <1>2, <3>1 DEF Approves
    <3>3. /\ past'.approved = past.approved \cup {candidate}
          /\ past'.candidates = past.candidates /\ past'.disturbed = past.disturbed
          /\ past'.replaced = past.replaced /\ past'.others = past.others + 1
      BY <3>2
    <3> QED
      BY <1>1, <3>2, <3>3 DEF AnchorsTellTheTruth
  <2>2. CASE \E result : Edits(result)
    <3>1. /\ anchor' = anchor
          /\ past' = [candidates |-> past.candidates, approved |-> past.approved,
                      disturbed |-> past.disturbed, replaced |-> past.replaced,
                      others |-> past.others + 1]
      BY <1>2, <2>2 DEF Edits
    <3>2. /\ past'.approved = past.approved /\ past'.candidates = past.candidates
          /\ past'.disturbed = past.disturbed
          /\ past'.replaced = past.replaced /\ past'.others = past.others + 1
      BY <3>1
    <3> QED
      BY <1>1, <3>1, <3>2 DEF AnchorsTellTheTruth
  <2> QED
    BY <2>1, <2>2
<1>4. QuarantineShape'
  BY <1>1, <1>3 DEF QuarantineShape
<1>5. SeenInOrder'
  BY <1>1, <1>3 DEF SeenInOrder
<1>6. AnchorsTellTheTruth'
  BY <1>1, <1>3 DEF AnchorsTellTheTruth
<1>7. TrainersHoldTheirAnchor'
  BY <1>1, <1>3 DEF TrainersHoldTheirAnchor
<1> QED
  BY <1>4, <1>5, <1>6, <1>7 DEF QuarantineInvariant

\* A trainer that goes on has an approved anchor, whose rows are those of its
\* manifest, and which left none of them in its frame.
LEMMA TrainingKeepsInvariant ==
  ASSUME QuarantineInvariant,
         \/ \E purpose \in {"development", "reference"}, frame \in TrainingFrames :
              LoadsAnchor(purpose, frame)
         \/ LoadsManifest \/ RetainsManifest \/ ReverifiesManifest \/ ReverifiesAnchor
  PROVE  QuarantineInvariant'
<1>1. /\ QuarantineShape /\ SeenInOrder /\ AnchorsTellTheTruth /\ TrainersHoldTheirAnchor
      /\ UNCHANGED <<retained, anchor, hashList, deriver, past>>
  BY DEF QuarantineInvariant, LoadsAnchor, LoadsManifest, RetainsManifest, ReverifiesManifest,
     ReverifiesAnchor, StillThere, TrainerMoves
<1>2. trainer = [at |-> trainer.at, purpose |-> trainer.purpose, frame |-> trainer.frame,
                 anchor |-> trainer.anchor, manifest |-> trainer.manifest]
  BY <1>1 DEF QuarantineShape
<1> DEFINE Shaped(t) == t = [at |-> t.at, purpose |-> t.purpose, frame |-> t.frame,
                             anchor |-> t.anchor, manifest |-> t.manifest]
           Holds(t) ==
             /\ t.at \notin {"idle", "refused"} => t.anchor \in past.approved
             /\ t.at = "anchored" =>
                  t.frame \in TrainingFrames /\ t.purpose \in {"development", "reference"}
             /\ t.at \in {"loaded", "training", "reverified", "published"} =>
                  /\ t.manifest.rows = t.anchor.says.content
                  /\ ToSet(t.frame) \cap DOMAIN t.manifest.rows = {}
                  /\ t.purpose = "reference" => t.anchor = Recipe.anchor
<1>3. Holds(trainer)
  BY <1>1 DEF TrainersHoldTheirAnchor
<1>4. Shaped(trainer') /\ Holds(trainer')
  <2>1. CASE \E purpose \in {"development", "reference"}, frame \in TrainingFrames :
               LoadsAnchor(purpose, frame)
    <3>1. PICK purpose \in {"development", "reference"}, frame \in TrainingFrames :
            LoadsAnchor(purpose, frame)
      BY <2>1
    <3>2. /\ trainer' = [at |-> "anchored", purpose |-> purpose, frame |-> frame,
                         anchor |-> anchor, manifest |-> Missing]
          /\ anchor \in past.approved
      BY <1>1, <3>1 DEF LoadsAnchor, TrainerMoves, AnchorLoads, Present, AnchorsTellTheTruth
    <3>3. /\ trainer'.at = "anchored" /\ trainer'.purpose = purpose /\ trainer'.frame = frame
          /\ trainer'.anchor = anchor /\ Shaped(trainer')
      BY <3>2
    <3> QED
      BY <3>2, <3>3
  <2>2. CASE \E next \in {"training", "reverified", "published", "refused"} :
               /\ trainer' = [trainer EXCEPT !.at = next]
               /\ trainer.at \in {"loaded", "training", "reverified"}
    <3>1. PICK next \in {"training", "reverified", "published", "refused"} :
            /\ trainer' = [trainer EXCEPT !.at = next]
            /\ trainer.at \in {"loaded", "training", "reverified"}
      BY <2>2
    <3>2. /\ trainer'.at = next /\ trainer'.purpose = trainer.purpose
          /\ trainer'.frame = trainer.frame /\ trainer'.anchor = trainer.anchor
          /\ trainer'.manifest = trainer.manifest /\ Shaped(trainer')
      BY <1>2, <3>1
    <3> QED
      BY <1>3, <3>1, <3>2
  <2>3. CASE RetainsManifest \/ ReverifiesManifest \/ ReverifiesAnchor
    <3>1. \E next \in {"training", "reverified", "published", "refused"} :
            /\ trainer' = [trainer EXCEPT !.at = next]
            /\ trainer.at \in {"loaded", "training", "reverified"}
      BY <2>3 DEF RetainsManifest, ReverifiesManifest, ReverifiesAnchor, StillThere, TrainerMoves
    <3> QED
      BY <2>2, <3>1
  <2>4. CASE LoadsManifest /\ trainer' = [trainer EXCEPT !.at = "refused"]
    <3>1. trainer'.at = "refused" /\ Shaped(trainer')
      BY <1>2, <2>4
    <3> QED
      BY <3>1
  <2>5. CASE /\ LoadsManifest /\ Admits(hashList)
             /\ trainer' = [trainer EXCEPT
                  !.at = IF trainer.purpose = "reference" THEN "loaded" ELSE "training",
                  !.manifest = hashList, !.frame = Outside(trainer.frame, hashList)]
    <3>1. trainer.at = "anchored"
      BY <2>5 DEF LoadsManifest
    <3>2. /\ trainer.anchor \in past.approved /\ trainer.frame \in TrainingFrames
          /\ trainer.purpose \in {"development", "reference"}
      BY <1>3, <3>1
    <3>3. ToSet(Outside(trainer.frame, hashList)) \cap DOMAIN hashList.rows = {}
      BY <3>2, OutsideIsOutside, TrainingAssumption
    <3>4. hashList.rows = trainer.anchor.says.content
      <4>1. hashList.says.content = hashList.rows
        BY <2>5 DEF Admits, ValidPayload
      <4>2. trainer.anchor = [sources |-> hashList.sources, says |-> hashList.says]
        BY <2>5 DEF Admits, MatchesAnchor, AnchorOf
      <4>3. trainer.anchor.says = hashList.says
        BY <4>2
      <4> QED
        BY <4>1, <4>3
    <3>5. trainer.purpose = "reference" => trainer.anchor = Recipe.anchor
      BY <2>5 DEF Admits, InRecipe
    <3>6. /\ trainer'.at \in {"loaded", "training"} /\ trainer'.purpose = trainer.purpose
          /\ trainer'.frame = Outside(trainer.frame, hashList)
          /\ trainer'.anchor = trainer.anchor /\ trainer'.manifest = hashList
          /\ Shaped(trainer')
      BY <1>2, <2>5
    <3> QED
      BY <3>2, <3>3, <3>4, <3>5, <3>6
  <2>6. LoadsManifest =>
          \/ trainer' = [trainer EXCEPT !.at = "refused"]
          \/ /\ Admits(hashList)
             /\ trainer' = [trainer EXCEPT
                  !.at = IF trainer.purpose = "reference" THEN "loaded" ELSE "training",
                  !.manifest = hashList, !.frame = Outside(trainer.frame, hashList)]
    BY DEF LoadsManifest, TrainerMoves
  <2> QED
    BY <2>1, <2>3, <2>4, <2>5, <2>6
<1>5. QuarantineShape'
  BY <1>1, <1>4 DEF QuarantineShape
<1>6. SeenInOrder' /\ AnchorsTellTheTruth'
  BY <1>1 DEF SeenInOrder, AnchorsTellTheTruth
<1>7. TrainersHoldTheirAnchor'
  BY <1>1, <1>4 DEF TrainersHoldTheirAnchor
<1> QED
  BY <1>5, <1>6, <1>7 DEF QuarantineInvariant

LEMMA QuarantineStays ==
  ASSUME QuarantineInvariant, [QuarantineNext]_quarantineVars
  PROVE  QuarantineInvariant'
<1>1. CASE UNCHANGED quarantineVars
  BY <1>1 DEF quarantineVars, QuarantineInvariant, QuarantineShape, SeenInOrder,
     AnchorsTellTheTruth, TrainersHoldTheirAnchor
<1>2. CASE \/ \E new \in XContents : Replaces("x", new)
           \/ \E new \in YContents : Replaces("y", new)
  <2>1. ASSUME NEW new \in XContents, Replaces("x", new)
        PROVE  QuarantineInvariant'
    BY <2>1, ReplacementStaysInOrder
  <2>2. ASSUME NEW new \in YContents, Replaces("y", new)
        PROVE  QuarantineInvariant'
    BY <2>2, ReplacementStaysInOrder
  <2> QED
    BY <1>2, <2>1, <2>2
<1>3. CASE \/ \E candidate \in past.candidates : Approves(candidate)
           \/ \E result : Edits(result)
  BY <1>3, ApprovalsKeepInvariant
<1>4. (hashList # Missing /\ \E result \in Edited \ {hashList} : Edits(result))
        => \E result : Edits(result)
  OBVIOUS
<1>5. CASE LooksAtFile
  BY <1>5, LookStaysInOrder
<1>6. CASE \/ \E purpose \in {"candidate", "manifest"} : StartsDeriving(purpose)
           \/ PrintsCandidate \/ WritesManifest \/ GivesUpDeriving
  BY <1>6, DerivingKeepsInvariant
<1>7. CASE \/ \E purpose \in {"development", "reference"}, frame \in TrainingFrames :
                LoadsAnchor(purpose, frame)
           \/ LoadsManifest \/ RetainsManifest \/ ReverifiesManifest \/ ReverifiesAnchor
  BY <1>7, TrainingKeepsInvariant
<1> QED
  BY <1>1, <1>2, <1>3, <1>4, <1>5, <1>6, <1>7 DEF QuarantineNext

\* However the test files, the approved anchor and the manifest change between
\* the reads: what an approved anchor says is true of the files that it names,
\* and no published training saw a row that its anchor names
\* (build_historical_quarantine_anchor_candidate, load_historical_quarantine_manifest,
\* reverify_historical_quarantine_identity).
THEOREM TestRowsStayUnseen ==
  QuarantineSpec => []NoModelSawTestRows
<1>1. QuarantineInvariant => NoModelSawTestRows
  <2> SUFFICES ASSUME QuarantineInvariant
               PROVE  NoModelSawTestRows
    OBVIOUS
  <2>1. \A a \in past.approved \ past.disturbed : NamesWhatItHas(a)
    BY DEF QuarantineInvariant, AnchorsTellTheTruth
  <2>2. trainer.at = "published" =>
          /\ trainer.anchor \in past.approved
          /\ trainer.manifest.rows = trainer.anchor.says.content
          /\ ToSet(trainer.frame) \cap DOMAIN trainer.anchor.says.content = {}
          /\ trainer.purpose = "reference" => trainer.anchor = Recipe.anchor
    <3>1. TrainersHoldTheirAnchor
      BY DEF QuarantineInvariant
    <3> QED
      BY <3>1 DEF TrainersHoldTheirAnchor
  <2>3. InputRecords.anchor = trainer.anchor /\ InputRecords.manifest = trainer.manifest
    BY DEF InputRecords
  <2> QED
    BY <2>1, <2>2, <2>3 DEF NoModelSawTestRows
<1>2. QuarantineInvariant /\ [QuarantineNext]_quarantineVars => QuarantineInvariant'
  BY QuarantineStays
<1> QED
  BY <1>1, <1>2, QuarantineStarts, PTL DEF QuarantineSpec

-----------------------------------------------------------------------------
(* LaneASelection: partitions *)

CumulatedIs(counts, sum) ==
  sum = [n \in 0..Len(counts) |-> IF n = 0 THEN 0 ELSE sum[n - 1] + counts[n]]

\* np.cumsum as the sum over the first places.
LEMMA CumulatedExists ==
  ASSUME NEW counts \in Seq(Nat)
  PROVE  CumulatedIs(counts, Cumulated(counts))
<1> DEFINE S == 1..Len(counts)
           g == [n \in 0..Len(counts) |-> Sums(counts, S)[1..n]]
<1>1. Len(counts) \in Nat /\ counts \in [S -> Nat] /\ IsFiniteSet(S)
  BY IntervalIsFinite
<1>2. Sums(counts, S)[{}] = 0
  BY <1>1, SumsAreNumbers
<1>3. \A n \in S : Sums(counts, S)[1..n] = counts[n] + Sums(counts, S)[1..(n - 1)]
  <2> TAKE n \in S
  <2>1. 1..n \in SUBSET S /\ n \in 1..n /\ (1..n) \ {n} = 1..(n - 1)
    BY <1>1
  <2> HIDE DEF S
  <2>2. \A u \in SUBSET S : \A y \in u : Sums(counts, S)[u] = counts[y] + Sums(counts, S)[u \ {y}]
    BY <1>1, SumsApart
  <2> QED
    BY <2>1, <2>2
<1>4. \A n \in S : Sums(counts, S)[1..(n - 1)] \in Nat /\ counts[n] \in Nat
  <2> TAKE n \in S
  <2>1. 1..(n - 1) \in SUBSET S
    BY <1>1
  <2> HIDE DEF S
  <2> QED
    BY <1>1, <2>1, SumsAreNumbers
<1>5. \A n \in 0..Len(counts) : g[n] = IF n = 0 THEN 0 ELSE g[n - 1] + counts[n]
  <2> TAKE n \in 0..Len(counts)
  <2>1. CASE n = 0
    <3>1. 1..0 = {}
      OBVIOUS
    <3> QED
      BY <1>2, <2>1, <3>1
  <2>2. CASE n # 0
    <3>1. n \in S /\ n - 1 \in 0..Len(counts)
      BY <1>1, <2>2
    <3>2. g[n] = Sums(counts, S)[1..n] /\ g[n - 1] = Sums(counts, S)[1..(n - 1)]
      BY <3>1
    <3> HIDE DEF g, S
    <3> QED
      BY <1>3, <1>4, <2>2, <3>1, <3>2
  <2> QED
    BY <2>1, <2>2
<1>6. CumulatedIs(counts, g)
  <2>1. g = [n \in 0..Len(counts) |-> g[n]]
    OBVIOUS
  <2> HIDE DEF g
  <2>2. g = [n \in 0..Len(counts) |-> IF n = 0 THEN 0 ELSE g[n - 1] + counts[n]]
    BY <1>5, <2>1
  <2> QED
    BY <2>2 DEF CumulatedIs
<1>7. Cumulated(counts) = CHOOSE sum : CumulatedIs(counts, sum)
  BY DEF Cumulated, CumulatedIs
<1> HIDE DEF g
<1> QED
  BY <1>6, <1>7

\* The sums up to a place, as numbers.
LEMMA CumulatedFacts ==
  ASSUME NEW counts \in Seq(Nat)
  PROVE  /\ Cumulated(counts)[0] = 0
         /\ \A n \in 1..Len(counts) :
              Cumulated(counts)[n] = Cumulated(counts)[n - 1] + counts[n]
         /\ \A n \in 0..Len(counts) : Cumulated(counts)[n] \in Nat
<1> DEFINE sum == Cumulated(counts)
           T == {n \in Nat : n <= Len(counts) => sum[n] \in Nat}
<1>1. \A n \in 0..Len(counts) : sum[n] = IF n = 0 THEN 0 ELSE sum[n - 1] + counts[n]
  <2>1. CumulatedIs(counts, sum)
    BY CumulatedExists
  <2> HIDE DEF sum
  <2>2. \A h, i : h = i => \A n : h[n] = i[n]
    OBVIOUS
  <2>3. \A n \in 0..Len(counts) :
          sum[n] = [k \in 0..Len(counts) |-> IF k = 0 THEN 0 ELSE sum[k - 1] + counts[k]][n]
    BY <2>1, <2>2, Zenon DEF CumulatedIs
  <2> QED
    BY <2>3
<1> HIDE DEF sum
<1>2. Len(counts) \in Nat
  OBVIOUS
<1>3. \A n \in 1..Len(counts) : counts[n] \in Nat
  OBVIOUS
<1>4. 0 \in T
  BY <1>1, <1>2
<1>5. ASSUME NEW n \in Nat, n \in T PROVE n + 1 \in T
  <2>1. CASE n + 1 <= Len(counts)
    <3>1. n + 1 \in 0..Len(counts) /\ n + 1 \in 1..Len(counts) /\ n + 1 # 0 /\ (n + 1) - 1 = n
      BY <1>2, <2>1
    <3>2. sum[n + 1] = sum[n] + counts[n + 1]
      BY <1>1, <3>1
    <3>3. sum[n] \in Nat /\ counts[n + 1] \in Nat
      BY <1>2, <1>3, <1>5, <2>1, <3>1
    <3> QED
      BY <3>2, <3>3
  <2>2. CASE ~(n + 1 <= Len(counts))
    BY <2>2
  <2> QED
    BY <2>1, <2>2
<1> HIDE DEF T
<1>6. \A n \in Nat : n \in T
  BY <1>4, <1>5, NaturalInduction
<1>7. \A n \in 0..Len(counts) : sum[n] \in Nat
  BY <1>2, <1>6 DEF T
<1>8. sum[0] = 0 /\ \A n \in 1..Len(counts) : sum[n] = sum[n - 1] + counts[n]
  BY <1>1, <1>2
<1> QED
  BY <1>7, <1>8 DEF sum

\* Between two places the sum grows by what lies between them.
LEMMA CumulatedGrows ==
  ASSUME NEW counts \in Seq(Nat \ {0}), NEW a \in 0..Len(counts), NEW b \in 0..Len(counts), a < b
  PROVE  Cumulated(counts)[a] < Cumulated(counts)[b]
<1> DEFINE sum == Cumulated(counts)
           T == {n \in Nat : a < n /\ n <= Len(counts) => sum[a] < sum[n]}
<1>0. counts \in Seq(Nat) /\ Len(counts) \in Nat /\ \A n \in 1..Len(counts) : counts[n] \in Nat \ {0}
  OBVIOUS
<1>1. /\ \A n \in 1..Len(counts) : sum[n] = sum[n - 1] + counts[n]
      /\ \A n \in 0..Len(counts) : sum[n] \in Nat
  BY <1>0, CumulatedFacts
<1> HIDE DEF sum
<1>2. 0 \in T
  OBVIOUS
<1>3. ASSUME NEW n \in Nat, n \in T PROVE n + 1 \in T
  <2> SUFFICES ASSUME a < n + 1, n + 1 <= Len(counts) PROVE sum[a] < sum[n + 1]
    OBVIOUS
  <2>1. n + 1 \in 1..Len(counts) /\ n \in 0..Len(counts) /\ (n + 1) - 1 = n
    BY <1>0
  <2>2. sum[n + 1] = sum[n] + counts[n + 1] /\ counts[n + 1] \in Nat \ {0} /\ sum[n] \in Nat
    BY <1>0, <1>1, <2>1
  <2>3. a = n \/ sum[a] < sum[n]
    BY <1>0, <1>3
  <2> QED
    BY <1>1, <2>2, <2>3, SMTT(30)
<1> HIDE DEF T
<1>4. b \in T
  <2>1. \A n \in Nat : n \in T
    BY <1>2, <1>3, NaturalInduction
  <2> QED
    BY <1>0, <2>1
<1> QED
  BY <1>0, <1>4 DEF T, sum

\* What lies between two places, summed as a set of them.
LEMMA SumBetween ==
  ASSUME NEW counts \in Seq(Nat \ {0}), NEW a \in 0..Len(counts), NEW b \in a..Len(counts)
  PROVE  MapThenSumSet(LAMBDA t : counts[t], (a + 1)..b)
           = Cumulated(counts)[b] - Cumulated(counts)[a]
<1> DEFINE S == 1..Len(counts)
           sum == Cumulated(counts)
           part == Sums(counts, S)
           T == {n \in Nat : a <= n /\ n <= Len(counts) => part[(a + 1)..n] = sum[n] - sum[a]}
<1>0. counts \in Seq(Nat) /\ Len(counts) \in Nat /\ counts \in [S -> Nat] /\ IsFiniteSet(S)
  BY IntervalIsFinite
<1>1. /\ \A n \in S : sum[n] = sum[n - 1] + counts[n]
      /\ \A n \in 0..Len(counts) : sum[n] \in Nat
  BY <1>0, CumulatedFacts
<1>2. part[{}] = 0 /\ \A u \in SUBSET S : \A y \in u : part[u] = counts[y] + part[u \ {y}]
  BY <1>0, SumsApart, SumsAreNumbers
<1> HIDE DEF sum, part
<1>3. 0 \in T
  <2> SUFFICES ASSUME a <= 0 PROVE part[(a + 1)..0] = sum[0] - sum[a]
    OBVIOUS
  <2>1. a = 0 /\ (a + 1)..0 = {} /\ sum[0] \in Nat
    BY <1>0, <1>1
  <2> QED
    BY <1>2, <2>1
<1>4. ASSUME NEW n \in Nat, n \in T PROVE n + 1 \in T
  <2> SUFFICES ASSUME a <= n + 1, n + 1 <= Len(counts)
               PROVE  part[(a + 1)..(n + 1)] = sum[n + 1] - sum[a]
    OBVIOUS
  <2>1. CASE a = n + 1
    <3>1. (a + 1)..(n + 1) = {} /\ sum[a] \in Nat
      BY <1>0, <1>1, <2>1
    <3> QED
      BY <1>2, <2>1, <3>1
  <2>2. CASE a # n + 1
    <3>1. n + 1 \in S /\ n \in 0..Len(counts) /\ (n + 1) - 1 = n /\ a <= n /\ n <= Len(counts)
      BY <1>0, <2>2
    <3>2. /\ (a + 1)..(n + 1) \in SUBSET S /\ n + 1 \in (a + 1)..(n + 1)
          /\ ((a + 1)..(n + 1)) \ {n + 1} = (a + 1)..n
      BY <1>0, <3>1
    <3>3. part[(a + 1)..(n + 1)] = counts[n + 1] + part[(a + 1)..n]
      <4> DEFINE u == (a + 1)..(n + 1)
                 w == (a + 1)..n
      <4>1. u \in SUBSET S /\ n + 1 \in u /\ u \ {n + 1} = w
        BY <3>2
      <4> HIDE DEF S, u, w
      <4>2. part[u] = counts[n + 1] + part[w]
        BY <1>2, <4>1
      <4> QED
        BY <4>2 DEF u, w
    <3> HIDE DEF S
    <3>4. part[(a + 1)..n] = sum[n] - sum[a]
      BY <1>4, <3>1
    <3>5. sum[n + 1] = sum[n] + counts[n + 1] /\ sum[n] \in Nat /\ sum[a] \in Nat
            /\ counts[n + 1] \in Nat
      BY <1>0, <1>1, <3>1
    <3> QED
      BY <3>3, <3>4, <3>5
  <2> QED
    BY <2>1, <2>2
<1> HIDE DEF T
<1>5. b \in T /\ b \in Nat
  <2>1. \A n \in Nat : n \in T
    BY <1>3, <1>4, NaturalInduction
  <2> QED
    BY <1>0, <2>1
<1>6. part[(a + 1)..b] = sum[b] - sum[a]
  BY <1>0, <1>5 DEF T
<1> DEFINE R == (a + 1)..b
<1>7. R \in SUBSET S
  BY <1>0
<1> HIDE DEF R, S
<1>8. MapThenSumSet(LAMBDA t : counts[t], R) = Sums(counts, R)[R]
  BY SumsDef
<1>9. Sums(counts, R)[R] = part[R]
  BY <1>0, <1>7, SumsWithin DEF part
<1> QED
  BY <1>6, <1>8, <1>9 DEF R, sum

\* What SMT needs to know of the products of the deviations.
LEMMA ProductsAreIntegers == \A m, n \in Int : m * n \in Int /\ m - n \in Int
OBVIOUS

\* The deviation of a cut from its target is a natural number.
LEMMA DeviationIsANumber ==
  ASSUME NEW counts \in Seq(Nat), NEW i \in 0..Len(counts), NEW role \in 1..5
  PROVE  Deviation(counts, i, role) \in Nat
<1>1. Cumulated(counts)[i] \in Int /\ Total(counts) \in Int
  BY CumulatedFacts DEF Total
<1>2. Cumulated(Target)[role] \in Int
  <2>1. Target \in Seq(Nat) /\ Len(Target) = 5
    BY DEF Target
  <2>2. \A n \in 0..Len(Target) : Cumulated(Target)[n] \in Nat
    <3> DEFINE s == Target
    <3>1. s \in Seq(Nat)
      BY <2>1
    <3> HIDE DEF s
    <3>2. \A n \in 0..Len(s) : Cumulated(s)[n] \in Nat
      BY <3>1, CumulatedFacts
    <3> QED
      BY <3>2 DEF s
  <2> QED
    BY <2>1, <2>2
<1>3. 100 * Cumulated(counts)[i] - Cumulated(Target)[role] * Total(counts) \in Int
  BY <1>1, <1>2, ProductsAreIntegers
<1> QED
  BY <1>3 DEF Deviation, Magnitude

\* A cut is found wherever there is room.
LEMMA BestCutHasRoom ==
  ASSUME NEW counts \in Seq(Nat), NEW previous \in Nat, NEW role \in 1..5,
         previous + 1 <= Len(counts) - (5 - role)
  PROVE  BestCut(counts, previous, role) \in Room(counts, previous, role)
<1> DEFINE room == Room(counts, previous, role)
           off == [i \in room |-> Deviation(counts, i, role)]
           values == {off[i] : i \in room}
           best == {i \in DOMAIN off : \A j \in DOMAIN off : off[i] <= off[j]}
<1>1. room \subseteq 0..Len(counts) /\ room \subseteq Nat /\ previous + 1 \in room
  BY DEF Room
<1>2. \A i \in room : off[i] \in Nat
  BY <1>1, DeviationIsANumber
<1>3. PICK v \in values : \A w \in values : v <= w
  <2>1. values \subseteq Nat /\ values # {}
    BY <1>1, <1>2
  <2> HIDE DEF values
  <2> QED
    BY <2>1, LeastNumber
<1>4. DOMAIN off = room
  OBVIOUS
<1>5. best # {}
  <2>1. PICK i \in room : v = off[i]
    BY <1>3
  <2>2. \A j \in room : off[i] <= off[j]
    BY <1>3, <2>1
  <2> HIDE DEF off, room
  <2> QED
    BY <1>4, <2>1, <2>2
<1>6. best \subseteq room
  BY <1>4
<1>7. BestCut(counts, previous, role) = Min(best)
  BY DEF BestCut
<1> HIDE DEF best
<1>8. Min(best) \in best
  <2>1. best \subseteq Nat
    BY <1>1, <1>6
  <2> QED
    BY <1>5, <2>1, MinIsLeast
<1> QED
  BY <1>6, <1>7, <1>8

CutsFor(counts, cut) ==
  cut = [role \in 0..5 |->
           IF role = 0 THEN 0
           ELSE IF role = 5 THEN Len(counts)
           ELSE BestCut(counts, cut[role - 1], role)]

Cuts(counts) == CHOOSE cut : CutsFor(counts, cut)

\* The three cuts of a partition, chosen one after the other, exist.
LEMMA CutsExist ==
  ASSUME NEW counts
  PROVE  CutsFor(counts, Cuts(counts))
<1> DEFINE one == BestCut(counts, 0, 1)
           two == BestCut(counts, one, 2)
           three == BestCut(counts, two, 3)
           four == BestCut(counts, three, 4)
           cut == [role \in 0..5 |->
                     IF role = 0 THEN 0 ELSE IF role = 5 THEN Len(counts)
                     ELSE IF role = 1 THEN one ELSE IF role = 2 THEN two
                     ELSE IF role = 3 THEN three ELSE four]
<1>1. /\ cut[0] = 0 /\ cut[1] = one /\ cut[2] = two /\ cut[3] = three /\ cut[4] = four
      /\ cut[5] = Len(counts) /\ cut = [role \in 0..5 |-> cut[role]]
  <2> HIDE DEF one, two, three, four
  <2> QED
    OBVIOUS
<1> HIDE DEF cut
<1>2. /\ cut[1] = BestCut(counts, cut[0], 1) /\ cut[2] = BestCut(counts, cut[1], 2)
      /\ cut[3] = BestCut(counts, cut[2], 3) /\ cut[4] = BestCut(counts, cut[3], 4)
  BY <1>1
<1>3. \A role \in 0..5 :
        cut[role] = IF role = 0 THEN 0
                    ELSE IF role = 5 THEN Len(counts)
                    ELSE BestCut(counts, cut[role - 1], role)
  <2> TAKE role \in 0..5
  <2>1. role \in {0, 1, 2, 3, 4, 5}
    OBVIOUS
  <2> QED
    BY <1>1, <1>2, <2>1
<1>4. CutsFor(counts, cut)
  <2>1. cut = [role \in 0..5 |-> IF role = 0 THEN 0
                                 ELSE IF role = 5 THEN Len(counts)
                                 ELSE BestCut(counts, cut[role - 1], role)]
    BY <1>1, <1>3
  <2> QED
    BY <2>1 DEF CutsFor
<1> QED
  BY <1>4 DEF Cuts

\* The five cuts are in order: each lies behind the one before it and leaves
\* room for those that follow.
LEMMA CutsInOrder ==
  ASSUME NEW counts \in Seq(Nat), Len(counts) >= 5
  PROVE  LET cut == Cuts(counts) IN
         /\ cut[0] = 0 /\ cut[5] = Len(counts)
         /\ \A role \in 1..5 : /\ cut[role] \in Nat /\ cut[role - 1] \in Nat
                               /\ cut[role - 1] < cut[role] /\ cut[role] <= Len(counts)
<1> DEFINE cut == Cuts(counts)
<1>0. Len(counts) \in Nat
  OBVIOUS
<1>1. \A role \in 0..5 : cut[role] = IF role = 0 THEN 0
                                     ELSE IF role = 5 THEN Len(counts)
                                     ELSE BestCut(counts, cut[role - 1], role)
  <2>1. CutsFor(counts, cut)
    BY CutsExist
  <2> HIDE DEF cut
  <2>2. \A h, i : h = i => \A n : h[n] = i[n]
    OBVIOUS
  <2>3. \A role \in 0..5 :
          cut[role] = [r \in 0..5 |-> IF r = 0 THEN 0
                                      ELSE IF r = 5 THEN Len(counts)
                                      ELSE BestCut(counts, cut[r - 1], r)][role]
    BY <2>1, Zenon DEF CutsFor
  <2> QED
    BY <2>3
<1> HIDE DEF cut
<1>2. cut[0] = 0 /\ cut[5] = Len(counts)
  BY <1>1
<1>3. /\ cut[1] = BestCut(counts, cut[0], 1) /\ cut[2] = BestCut(counts, cut[1], 2)
      /\ cut[3] = BestCut(counts, cut[2], 3) /\ cut[4] = BestCut(counts, cut[3], 4)
  BY <1>1
<1>4. cut[1] \in Nat /\ cut[0] < cut[1] /\ cut[1] <= Len(counts) - 4
  BY <1>0, <1>2, <1>3, BestCutHasRoom, SMTT(30) DEF Room
<1>5. cut[2] \in Nat /\ cut[1] < cut[2] /\ cut[2] <= Len(counts) - 3
  BY <1>0, <1>3, <1>4, BestCutHasRoom, SMTT(30) DEF Room
<1>6. cut[3] \in Nat /\ cut[2] < cut[3] /\ cut[3] <= Len(counts) - 2
  BY <1>0, <1>3, <1>5, BestCutHasRoom, SMTT(30) DEF Room
<1>7. cut[4] \in Nat /\ cut[3] < cut[4] /\ cut[4] <= Len(counts) - 1
  BY <1>0, <1>3, <1>6, BestCutHasRoom, SMTT(30) DEF Room
<1>8. ASSUME NEW role \in 1..5
      PROVE  /\ cut[role] \in Nat /\ cut[role - 1] \in Nat
             /\ cut[role - 1] < cut[role] /\ cut[role] <= Len(counts)
  <2>1. role \in {1, 2, 3, 4, 5}
    OBVIOUS
  <2>2. CASE role = 1
    BY <1>0, <1>2, <1>4, <2>2
  <2>3. CASE role = 2
    BY <1>0, <1>4, <1>5, <2>3
  <2>4. CASE role = 3
    BY <1>0, <1>5, <1>6, <2>4
  <2>5. CASE role = 4
    BY <1>0, <1>6, <1>7, <2>5
  <2>6. CASE role = 5
    BY <1>0, <1>2, <1>7, <2>6
  <2> QED
    BY <2>1, <2>2, <2>3, <2>4, <2>5, <2>6
<1> QED
  BY <1>2, <1>8 DEF cut

\* The fold of PartitionBoundaries leaves them.
LEMMA BoundariesAreCuts ==
  ASSUME NEW counts
  PROVE  Boundaries(counts) =
           [role \in 1..5 |->
              [upper |-> Cuts(counts)[role],
               rows |-> Cumulated(counts)[Cuts(counts)[role]]
                          - Cumulated(counts)[Cuts(counts)[role - 1]]]]
BY DEF Boundaries, Cuts, CutsFor

\* Cuts further apart stay in order.
LEMMA CutsAscend ==
  ASSUME NEW counts \in Seq(Nat), Len(counts) >= 5, NEW r \in 0..5, NEW s \in 0..5, r < s
  PROVE  Cuts(counts)[r] < Cuts(counts)[s]
<1> DEFINE cut == Cuts(counts)
           T == {n \in Nat : r < n /\ n <= 5 => cut[r] < cut[n]}
<1>1. \A role \in 1..5 : cut[role] \in Nat /\ cut[role - 1] \in Nat /\ cut[role - 1] < cut[role]
  BY CutsInOrder
<1>2. cut[r] \in Nat
  <2>1. r + 1 \in 1..5 /\ (r + 1) - 1 = r
    OBVIOUS
  <2> HIDE DEF cut
  <2> QED
    BY <1>1, <2>1
<1> HIDE DEF cut
<1>3. 0 \in T
  OBVIOUS
<1>4. ASSUME NEW n \in Nat, n \in T PROVE n + 1 \in T
  <2> SUFFICES ASSUME r < n + 1, n + 1 <= 5 PROVE cut[r] < cut[n + 1]
    OBVIOUS
  <2>1. n + 1 \in 1..5 /\ (n + 1) - 1 = n
    OBVIOUS
  <2>2. cut[n + 1] \in Nat /\ cut[n] \in Nat /\ cut[n] < cut[n + 1]
    BY <1>1, <2>1
  <2>3. r = n \/ cut[r] < cut[n]
    BY <1>4
  <2> QED
    BY <1>2, <2>2, <2>3
<1> HIDE DEF T
<1>5. \A n \in Nat : n \in T
  BY <1>3, <1>4, NaturalInduction
<1>6. s \in T
  BY <1>5
<1> QED
  BY <1>6 DEF T, cut

\* A timestamp has the role between whose cuts it lies.
LEMMA RoleBetweenCuts ==
  ASSUME NEW counts \in Seq(Nat), Len(counts) >= 5, NEW t \in 1..Len(counts)
  PROVE  LET role == RoleForTimestamp(t, Boundaries(counts)) IN
         role \in 1..5 /\ Cuts(counts)[role - 1] < t /\ t <= Cuts(counts)[role]
<1> DEFINE cut == Cuts(counts)
           bounds == Boundaries(counts)
           S == {role \in 1..5 : t <= bounds[role].upper}
           role == Min(S)
<1>1. \A r \in 1..5 : bounds[r].upper = cut[r]
  BY BoundariesAreCuts
<1>2. /\ cut[0] = 0 /\ cut[5] = Len(counts) /\ Len(counts) \in Nat
      /\ \A r \in 1..5 : cut[r] \in Nat /\ cut[r - 1] \in Nat
  BY CutsInOrder
<1> HIDE DEF cut, bounds
<1>3. 5 \in S /\ S \subseteq Nat
  <2>1. t <= Len(counts) /\ S \subseteq 1..5
    OBVIOUS
  <2>2. 5 \in 1..5 /\ bounds[5].upper = Len(counts)
    BY <1>1, <1>2, SMTT(30)
  <2> QED
    BY <2>1, <2>2
<1>4. role \in S /\ \A r \in S : role <= r
  <2> HIDE DEF S
  <2> QED
    BY <1>3, MinIsLeast
<1>5. role \in 1..5 /\ t <= cut[role]
  BY <1>1, <1>4
<1>6. cut[role - 1] < t
  <2> HIDE DEF role
  <2>1. CASE role = 1
    BY <1>2, <2>1
  <2>2. CASE role # 1
    <3>1. role - 1 \in 1..5 /\ ~(role <= role - 1)
      BY <1>5, <2>2
    <3>2. ~(t <= bounds[role - 1].upper)
      BY <1>4, <3>1
    <3>3. cut[role - 1] \in Nat /\ bounds[role - 1].upper = cut[role - 1]
      BY <1>1, <1>2, <3>1
    <3> QED
      BY <3>2, <3>3
  <2> QED
    BY <2>1, <2>2
<1> QED
  BY <1>5, <1>6 DEF RoleForTimestamp, cut, bounds

\* And no other.
LEMMA RoleIsBetween ==
  ASSUME NEW counts \in Seq(Nat), Len(counts) >= 5, NEW t \in 1..Len(counts), NEW r \in 1..5
  PROVE  RoleForTimestamp(t, Boundaries(counts)) = r
           <=> Cuts(counts)[r - 1] < t /\ t <= Cuts(counts)[r]
<1> DEFINE cut == Cuts(counts)
           role == RoleForTimestamp(t, Boundaries(counts))
<1>1. role \in 1..5 /\ cut[role - 1] < t /\ t <= cut[role]
  BY RoleBetweenCuts
<1>2. \A q \in 1..5 : cut[q] \in Nat /\ cut[q - 1] \in Nat
  BY CutsInOrder
<1>3. \A p, q \in 0..5 : p < q => cut[p] < cut[q]
  BY CutsAscend
<1>t. t \in Nat
  OBVIOUS
<1> HIDE DEF cut, role
<1>4. ASSUME cut[r - 1] < t, t <= cut[r]
      PROVE  role = r
  <2>1. CASE role < r
    <3>1. role = r - 1 \/ role < r - 1
      BY <1>1, <2>1
    <3>2. role \in 0..5 /\ r - 1 \in 0..5
      BY <1>1
    <3>3. cut[role] = cut[r - 1] \/ cut[role] < cut[r - 1]
      BY <1>3, <3>1, <3>2
    <3>4. cut[role] \in Nat /\ cut[r - 1] \in Nat
      BY <1>1, <1>2
    <3> QED
      BY <1>1, <1>4, <1>t, <3>3, <3>4
  <2>2. CASE r < role
    <3>1. r = role - 1 \/ r < role - 1
      BY <1>1, <2>2
    <3>2. r \in 0..5 /\ role - 1 \in 0..5
      BY <1>1
    <3>3. cut[r] = cut[role - 1] \/ cut[r] < cut[role - 1]
      BY <1>3, <3>1, <3>2
    <3>4. cut[r] \in Nat /\ cut[role - 1] \in Nat
      BY <1>1, <1>2
    <3> QED
      BY <1>1, <1>4, <1>t, <3>3, <3>4
  <2> QED
    BY <1>1, <2>1, <2>2
<1>5. (role = r) <=> (cut[r - 1] < t /\ t <= cut[r])
  BY <1>1, <1>4
<1> QED
  BY <1>5 DEF cut, role

\* What choose_boundaries makes of any counts, its own verification accepts.
LEMMA BoundariesVerify ==
  ASSUME NEW counts \in Seq(Nat \ {0}), Len(counts) >= 5
  PROVE  /\ VerifiesPartition(counts, Boundaries(counts))
         /\ \A r \in 1..5 : Boundaries(counts)[r].rows >= 1
<1> DEFINE cut == Cuts(counts)
           sum == Cumulated(counts)
           bounds == Boundaries(counts)
           role(t) == RoleForTimestamp(t, bounds)
           between(r) == (cut[r - 1] + 1)..cut[r]
<1>0. counts \in Seq(Nat) /\ Len(counts) \in Nat /\ DOMAIN counts = 1..Len(counts)
  OBVIOUS
<1>1. \A r \in 1..5 : bounds[r].upper = cut[r] /\ bounds[r].rows = sum[cut[r]] - sum[cut[r - 1]]
  BY BoundariesAreCuts
<1>2. \A r \in 1..5 : /\ cut[r] \in Nat /\ cut[r - 1] \in Nat
                      /\ cut[r - 1] < cut[r] /\ cut[r] <= Len(counts)
  BY <1>0, CutsInOrder
<1>3. \A r, s \in 0..5 : r < s => cut[r] < cut[s]
  BY <1>0, CutsAscend
<1>4. \A t \in DOMAIN counts :
        role(t) \in 1..5 /\ cut[role(t) - 1] < t /\ t <= cut[role(t)]
  BY <1>0, RoleBetweenCuts
<1>5. \A t \in DOMAIN counts : \A r \in 1..5 : role(t) = r <=> cut[r - 1] < t /\ t <= cut[r]
  BY <1>0, RoleIsBetween
<1> HIDE DEF cut
<1>6. \A r \in 1..5 : MapThenSumSet(LAMBDA t : counts[t], between(r)) = sum[cut[r]] - sum[cut[r - 1]]
  <2> TAKE r \in 1..5
  <2>0. /\ cut[r] \in Nat /\ cut[r - 1] \in Nat
        /\ cut[r - 1] < cut[r] /\ cut[r] <= Len(counts)
    BY <1>2, Zenon
  <2>1. cut[r - 1] \in 0..Len(counts) /\ cut[r] \in cut[r - 1]..Len(counts)
    BY <1>0, <2>0
  <2> QED
    BY <1>0, <2>1, SumBetween DEF sum
<1>7. \A r \in 1..5 : sum[cut[r]] - sum[cut[r - 1]] >= 1
  <2> TAKE r \in 1..5
  <2> DEFINE a == cut[r - 1]
             b == cut[r]
  <2>0. /\ cut[r] \in Nat /\ cut[r - 1] \in Nat
        /\ cut[r - 1] < cut[r] /\ cut[r] <= Len(counts)
    BY <1>2, Zenon
  <2>1. a \in 0..Len(counts) /\ b \in 0..Len(counts) /\ a < b
    BY <1>0, <2>0
  <2> HIDE DEF a, b
  <2>2. sum[a] < sum[b]
    BY <2>1, CumulatedGrows
  <2>3. sum[a] \in Nat /\ sum[b] \in Nat
    BY <1>0, <2>1, CumulatedFacts
  <2> QED
    BY <2>2, <2>3 DEF a, b
<1>8. \A r \in 1..5 : {t \in DOMAIN counts : role(t) = r} = between(r)
  <2> TAKE r \in 1..5
  <2>0. /\ cut[r] \in Nat /\ cut[r - 1] \in Nat
        /\ cut[r - 1] < cut[r] /\ cut[r] <= Len(counts)
    BY <1>2, Zenon
  <2>1. \A t \in between(r) : t \in DOMAIN counts /\ cut[r - 1] < t /\ t <= cut[r]
    BY <1>0, <2>0, SMTT(30)
  <2>2. \A t \in DOMAIN counts : cut[r - 1] < t /\ t <= cut[r] => t \in between(r)
    BY <1>0, <2>0
  <2> HIDE DEF between, role
  <2> QED
    BY <1>5, <2>1, <2>2
<1> HIDE DEF role, sum
<1>9. \A r \in 1..4 : bounds[r].upper < bounds[r + 1].upper
  <2> TAKE r \in 1..4
  <2>1. r \in 0..5 /\ r + 1 \in 0..5 /\ r \in 1..5 /\ r + 1 \in 1..5 /\ r < r + 1
    OBVIOUS
  <2> HIDE DEF bounds
  <2> QED
    BY <1>1, <1>3, <2>1
<1>10. \A s, t \in DOMAIN counts : s < t => role(s) <= role(t)
  <2> SUFFICES ASSUME NEW s \in DOMAIN counts, NEW t \in DOMAIN counts, s < t, ~(role(s) <= role(t))
               PROVE  FALSE
    OBVIOUS
  <2> DEFINE p == role(s)
             q == role(t)
  <2>1. p \in 1..5 /\ q \in 1..5 /\ cut[p - 1] < s /\ t <= cut[q] /\ s \in Nat /\ t \in Nat
    BY <1>0, <1>4
  <2>2. ~(p <= q)
    OBVIOUS
  <2> HIDE DEF p, q
  <2>3. q = p - 1 \/ q < p - 1
    BY <2>1, <2>2
  <2>4. q \in 0..5 /\ p - 1 \in 0..5
    BY <2>1
  <2>5. cut[q] = cut[p - 1] \/ cut[q] < cut[p - 1]
    BY <1>3, <2>3, <2>4
  <2>6. cut[q] \in Nat /\ cut[p - 1] \in Nat
    BY <1>2, <2>1
  <2> QED
    BY <2>1, <2>5, <2>6
<1>11. {role(t) : t \in DOMAIN counts} = 1..5
  <2>1. ASSUME NEW r \in 1..5 PROVE \E t \in DOMAIN counts : role(t) = r
    <3>0. /\ cut[r] \in Nat /\ cut[r - 1] \in Nat
          /\ cut[r - 1] < cut[r] /\ cut[r] <= Len(counts)
      BY <1>2, Zenon
    <3>1. cut[r] \in DOMAIN counts
      BY <1>0, <3>0
    <3>2. cut[r - 1] < cut[r] /\ cut[r] <= cut[r]
      BY <3>0
    <3> QED
      BY <1>5, <3>1, <3>2
  <2> QED
    BY <1>4, <2>1
<1>12. \A r \in 1..5 :
         MapThenSumSet(LAMBDA t : counts[t], {t \in DOMAIN counts : role(t) = r}) = bounds[r].rows
  <2> TAKE r \in 1..5
  <2> HIDE DEF between, bounds
  <2>1. {t \in DOMAIN counts : role(t) = r} = between(r)
    BY <1>8
  <2>2. MapThenSumSet(LAMBDA t : counts[t], between(r)) = bounds[r].rows
    BY <1>1, <1>6
  <2> QED
    BY <2>1, <2>2
<1>13. VerifiesPartition(counts, bounds)
  BY <1>9, <1>10, <1>11, <1>12 DEF VerifiesPartition, role, sum
<1>14. \A r \in 1..5 : bounds[r].rows >= 1
  BY <1>1, <1>7
<1> QED
  BY <1>13, <1>14

ExamShape == exam.kind = "partition" => exam.counts \in RowCounts

\* Every role of a partition gets rows, and the verification of the freeze accepts
\* whatever cuts choose_boundaries has chosen.
THEOREM PartitionsAreAccepted == SelectionSpec => []PartitionIsAccepted
<1>1. SelectionInit => ExamShape
  BY DEF SelectionInit, ExamShape
<1>2. ExamShape /\ [SelectionNext]_exam => ExamShape'
  BY DEF ExamShape, SelectionNext
<1>3. ExamShape => PartitionIsAccepted
  BY BoundariesVerify, SelectionAssumption DEF ExamShape, PartitionIsAccepted
<1> QED
  BY <1>1, <1>2, <1>3, PTL DEF SelectionSpec

-----------------------------------------------------------------------------
(* LaneASelection: a capacity and a threshold *)

\* A strict and total order, as a set of pairs of S.
Orders(R, S) ==
  /\ \A i \in S : <<i, i>> \notin R
  /\ \A i, j \in S : i # j => <<i, j>> \in R \/ <<j, i>> \in R
  /\ \A i, j, k \in S : <<i, j>> \in R /\ <<j, k>> \in R => <<i, k>> \in R

Earlier(R, S, i) == {j \in S : <<j, i>> \in R}

\* The members of 1..n numbered by how many come before them.
RanksBy(R, n) == [i \in 1..n |-> 1 + Cardinality(Earlier(R, 1..n, i))]

\* These numbers are 1..n again.
LEMMA RanksNumberMembers ==
  ASSUME NEW n \in Nat, NEW R, Orders(R, 1..n)
  PROVE  LET rank == RanksBy(R, n) IN
         /\ rank \in [1..n -> 1..n]
         /\ \A i, j \in 1..n : rank[i] = rank[j] => i = j
         /\ \A i, j \in 1..n : <<i, j>> \in R => rank[i] < rank[j]
         /\ \A k \in 1..n : \E i \in 1..n : rank[i] = k
<1> DEFINE S == 1..n
           E(i) == Earlier(R, S, i)
           rank == RanksBy(R, n)
<1>1. IsFiniteSet(S) /\ Cardinality(S) = n
  BY CountOfInterval
<1> HIDE DEF S
<1>2. \A i \in S : IsFiniteSet(E(i)) /\ E(i) \subseteq S /\ i \notin E(i)
  <2> TAKE i \in S
  <2>1. E(i) \subseteq S /\ i \notin E(i)
    BY DEF Earlier, Orders, S
  <2> QED
    BY <1>1, <2>1, FS_Subset
<1>3. \A i \in S : rank[i] = 1 + Cardinality(E(i))
  BY DEF S, RanksBy
<1>d. DOMAIN rank = S /\ rank = [i \in S |-> rank[i]]
  BY DEF S, RanksBy
<1> HIDE DEF rank
<1>4. ASSUME NEW i \in S PROVE rank[i] \in 1..n
  <2>1. Cardinality(E(i)) < n /\ Cardinality(E(i)) \in Nat
    BY <1>1, <1>2, ProperSubsets
  <2>2. rank[i] = 1 + Cardinality(E(i))
    BY <1>3
  <2> QED
    BY ONLY <2>1, <2>2, n \in Nat
<1>5. ASSUME NEW i \in S, NEW j \in S, <<i, j>> \in R PROVE rank[i] < rank[j]
  <2>1. E(i) \subseteq E(j) /\ i \in E(j) /\ i \notin E(i)
    BY <1>5 DEF Earlier, Orders, S
  <2>2. Cardinality(E(i)) < Cardinality(E(j)) /\ Cardinality(E(i)) \in Nat /\ Cardinality(E(j)) \in Nat
    BY <1>2, <2>1, ProperSubsets
  <2>3. rank[i] = 1 + Cardinality(E(i)) /\ rank[j] = 1 + Cardinality(E(j))
    BY <1>3
  <2> QED
    BY ONLY <2>2, <2>3
<1>6. ASSUME NEW i \in S, NEW j \in S, rank[i] = rank[j] PROVE i = j
  <2>0. rank[i] \in 1..n /\ rank[j] = rank[i]
    BY <1>4, <1>6
  <2>1. ~(rank[i] < rank[j]) /\ ~(rank[j] < rank[i])
    BY ONLY <2>0, n \in Nat
  <2>2. i # j => <<i, j>> \in R \/ <<j, i>> \in R
    BY DEF Orders, S
  <2> QED
    BY <1>5, <2>1, <2>2
<1>7. rank \in [S -> S]
  BY <1>4, <1>d DEF S
<1>8. \A k \in S : \E i \in S : rank[i] = k
  <2>1. rank \in Injection(S, S)
    BY <1>6, <1>7 DEF Injection, IsInjective
  <2>2. rank \in Surjection(S, S)
    BY <1>1, <2>1, FS_Injection
  <2> QED
    BY <2>2 DEF Surjection
<1> QED
  BY <1>5, <1>6, <1>7, <1>8 DEF S, rank

\* Each number is that of one place.
LEMMA InOrderInverts ==
  ASSUME NEW n \in Nat, NEW rank \in [1..n -> 1..n],
         \A i, j \in 1..n : rank[i] = rank[j] => i = j,
         \A k \in 1..n : \E i \in 1..n : rank[i] = k
  PROVE  /\ InOrder(rank) \in [1..n -> 1..n]
         /\ \A k \in 1..n : rank[InOrder(rank)[k]] = k
         /\ \A i \in 1..n : InOrder(rank)[rank[i]] = i
<1> DEFINE S == 1..n
           order == InOrder(rank)
<1>1. DOMAIN rank = S
  OBVIOUS
<1> HIDE DEF S
<1>2. order = [k \in S |-> CHOOSE i \in S : rank[i] = k]
  BY <1>1 DEF InOrder
<1> HIDE DEF order
<1>3. \A k \in S : order[k] \in S /\ rank[order[k]] = k
  <2> TAKE k \in S
  <2>1. \E i \in S : rank[i] = k
    BY DEF S
  <2>2. order[k] = CHOOSE i \in S : rank[i] = k
    BY <1>2
  <2> QED
    BY <2>1, <2>2
<1>4. \A i \in S : rank[i] \in S
  BY DEF S
<1>5. \A i \in S : order[rank[i]] = i
  BY <1>3, <1>4 DEF S
<1>6. order \in [S -> S]
  BY <1>2, <1>3
<1> QED
  BY <1>3, <1>5, <1>6 DEF S, order

Scores(sample) ==
  /\ IsFiniteSet(DOMAIN sample) /\ DOMAIN sample \subseteq Int
  /\ \A i \in DOMAIN sample : sample[i].score \in Int /\ sample[i].label \in {0, 1}

\* The samples the rankings are of.
LEMMA SamplesHaveScores ==
  ASSUME NEW sample \in Samples
  PROVE  Scores(sample) /\ DOMAIN sample = 1..Len(sample) /\ Len(sample) \in Nat
           /\ Cardinality(DOMAIN sample) = Len(sample)
<1> DEFINE R == [label : {0, 1}, score : Nat]
<1>1. sample \in Seq(R)
  BY SelectionAssumption
<1>2. DOMAIN sample = 1..Len(sample) /\ Len(sample) \in Nat
        /\ \A i \in DOMAIN sample : sample[i] \in R
  <2> HIDE DEF R
  <2> QED
    BY <1>1
<1>3. IsFiniteSet(1..Len(sample)) /\ Cardinality(1..Len(sample)) = Len(sample)
  BY <1>2, CountOfInterval
<1>4. \A i \in DOMAIN sample : sample[i].score \in Int /\ sample[i].label \in {0, 1}
  BY <1>2
<1> QED
  BY <1>2, <1>3, <1>4 DEF Scores

Before(sample, i) == {j \in DOMAIN sample : Precedes(sample, j, i)}

\* The order of a ranking is strict and total.
LEMMA PrecedesOrders ==
  ASSUME NEW sample, Scores(sample), NEW i \in DOMAIN sample, NEW j \in DOMAIN sample
  PROVE  /\ ~Precedes(sample, i, i)
         /\ i # j => Precedes(sample, i, j) \/ Precedes(sample, j, i)
         /\ \A k \in DOMAIN sample :
              Precedes(sample, i, j) /\ Precedes(sample, j, k) => Precedes(sample, i, k)
BY DEF Scores, Precedes

\* The ranks of the rows of a sample, and the rows by their ranks.
LEMMA RowsInOrder ==
  ASSUME NEW sample, Scores(sample), NEW n \in Nat, DOMAIN sample = 1..n
  PROVE  LET rank == [i \in 1..n |-> RankOf(sample, i)] IN
         /\ rank \in [1..n -> 1..n]
         /\ \A i, j \in 1..n : rank[i] = rank[j] => i = j
         /\ \A k \in 1..n : \E i \in 1..n : rank[i] = k
         /\ Ranked(sample) = InOrder(rank)
<1> DEFINE R == {p \in (1..n) \X (1..n) : Precedes(sample, p[1], p[2])}
           rank == [i \in 1..n |-> RankOf(sample, i)]
<1>1. \A i, j \in 1..n : <<i, j>> \in R <=> Precedes(sample, i, j)
  OBVIOUS
<1> HIDE DEF R
<1>2. Orders(R, 1..n)
  BY <1>1, PrecedesOrders DEF Orders
<1>3. \A i \in 1..n : Earlier(R, 1..n, i) = {j \in 1..n : Precedes(sample, j, i)}
  BY <1>1 DEF Earlier
<1>4. rank = RanksBy(R, n)
  BY <1>3 DEF RankOf, RanksBy
<1> HIDE DEF rank
<1>5. LET r == RanksBy(R, n) IN
      /\ r \in [1..n -> 1..n]
      /\ \A i, j \in 1..n : r[i] = r[j] => i = j
      /\ \A i, j \in 1..n : <<i, j>> \in R => r[i] < r[j]
      /\ \A k \in 1..n : \E i \in 1..n : r[i] = k
  BY <1>2, RanksNumberMembers, Zenon
<1>6. Ranked(sample) = InOrder(rank)
  BY DEF Ranked, rank
<1> QED
  BY <1>4, <1>5, <1>6 DEF rank

\* A budget is spent, as far as there are rows.
LEMMA BudgetIsSpent ==
  ASSUME NEW sample, Scores(sample), DOMAIN sample = 1..Len(sample), Len(sample) \in Nat,
         NEW budget \in Nat
  PROVE  /\ IsFiniteSet(Allocated(sample, budget))
         /\ Cardinality(Allocated(sample, budget)) = IF budget < Len(sample) THEN budget ELSE Len(sample)
<1> DEFINE S == DOMAIN sample
           n == Len(sample)
           m == IF budget < n THEN budget ELSE n
           rank == [i \in S |-> RankOf(sample, i)]
           A == Allocated(sample, budget)
           g == [i \in A |-> rank[i]]
<1>1. /\ \A i \in S : rank[i] \in 1..n
      /\ \A i, j \in S : rank[i] = rank[j] => i = j
      /\ \A k \in 1..n : \E i \in S : rank[i] = k
  <2> DEFINE r == [i \in 1..n |-> RankOf(sample, i)]
  <2>1. /\ r \in [1..n -> 1..n]
        /\ \A i, j \in 1..n : r[i] = r[j] => i = j
        /\ \A k \in 1..n : \E i \in 1..n : r[i] = k
        /\ Ranked(sample) = InOrder(r)
    BY RowsInOrder, Zenon
  <2>2. rank = r /\ S = 1..n
    OBVIOUS
  <2> HIDE DEF r, rank, S
  <2> QED
    BY <2>1, <2>2
<1>2. A = {i \in S : rank[i] <= budget}
  BY DEF Allocated
<1> HIDE DEF A, rank
<1>3. m \in Nat /\ \A k \in 1..n : k <= budget <=> k \in 1..m
  OBVIOUS
<1>4. IsFiniteSet(A)
  BY <1>2, FS_Subset DEF Scores
<1>5. g \in [A -> 1..m]
  BY <1>1, <1>2, <1>3
<1>6. \A k \in 1..m : \E i \in A : g[i] = k
  <2> TAKE k \in 1..m
  <2>1. k \in 1..n /\ k <= budget
    OBVIOUS
  <2>2. PICK i \in S : rank[i] = k
    BY <1>1, <2>1
  <2>3. i \in A /\ g[i] = k
    BY <1>2, <2>1, <2>2
  <2> QED
    BY <2>3
<1>7. \A i, j \in A : g[i] = g[j] => i = j
  BY <1>1, <1>2
<1> HIDE DEF g
<1>8. Cardinality(1..m) = Cardinality(A)
  <2> DEFINE T == 1..m
  <2> HIDE DEF T
  <2> QED
    BY <1>4, <1>5, <1>6, <1>7, ImageIsFinite DEF T
<1>9. Cardinality(1..m) = m
  BY <1>3, CountOfInterval
<1> QED
  BY <1>4, <1>8, <1>9 DEF A

\* The counts of a row of the capacity table, as counts of sets of rows.
LEMMA FrontierCounts ==
  ASSUME NEW S, IsFiniteSet(S), NEW P, P \subseteq S, NEW chosen, chosen \subseteq S
  PROVE  /\ IsFiniteSet(chosen) /\ IsFiniteSet(P)
         /\ Cardinality(chosen \cap P) \in Nat /\ Cardinality(chosen \ P) \in Nat
         /\ Cardinality(P \ chosen) \in Nat /\ Cardinality((S \ chosen) \ P) \in Nat
         /\ Cardinality(P) \in Nat /\ Cardinality(chosen) \in Nat
         /\ Cardinality(chosen \cap P) + Cardinality(chosen \ P) = Cardinality(chosen)
         /\ Cardinality(chosen \cap P) + Cardinality(P \ chosen) = Cardinality(P)
         /\ Cardinality(chosen) + Cardinality(P \ chosen) + Cardinality((S \ chosen) \ P)
              = Cardinality(S)
<1>2. \A X : X \subseteq S => IsFiniteSet(X) /\ Cardinality(X) \in Nat
  BY FS_Subset, FS_CardinalityType
<1>3. \A X, Y : X \subseteq S /\ Y \subseteq S /\ X \cap Y = {} =>
        Cardinality(X \cup Y) = Cardinality(X) + Cardinality(Y)
  <2> SUFFICES ASSUME NEW X, NEW Y, X \subseteq S, Y \subseteq S, X \cap Y = {}
               PROVE  Cardinality(X \cup Y) = Cardinality(X) + Cardinality(Y)
    OBVIOUS
  <2>1. IsFiniteSet(X) /\ IsFiniteSet(Y) /\ Cardinality(X) \in Nat /\ Cardinality(Y) \in Nat
    BY <1>2
  <2>2. Cardinality(X \cup Y) = Cardinality(X) + Cardinality(Y) - Cardinality(X \cap Y)
    BY <2>1, FS_Union
  <2> QED
    BY <2>1, <2>2, FS_EmptySet
<1> DEFINE hits == chosen \cap P
           alarms == chosen \ P
           missed == P \ chosen
           rest == (S \ chosen) \ P
<1>4. /\ chosen \subseteq S
      /\ hits \subseteq S /\ alarms \subseteq S /\ missed \subseteq S /\ rest \subseteq S
      /\ hits \cap alarms = {} /\ hits \cup alarms = chosen
      /\ hits \cap missed = {} /\ hits \cup missed = P
      /\ chosen \cap missed = {} /\ (chosen \cup missed) \cap rest = {}
      /\ chosen \cup missed \subseteq S /\ (chosen \cup missed) \cup rest = S
  OBVIOUS
<1> HIDE DEF hits, alarms, missed, rest
<1>5. /\ Cardinality(hits) + Cardinality(alarms) = Cardinality(chosen)
      /\ Cardinality(hits) + Cardinality(missed) = Cardinality(P)
      /\ Cardinality(chosen) + Cardinality(missed) = Cardinality(chosen \cup missed)
      /\ Cardinality(chosen \cup missed) + Cardinality(rest) = Cardinality(S)
  BY <1>3, <1>4
<1>6. /\ Cardinality(hits) \in Nat /\ Cardinality(alarms) \in Nat /\ Cardinality(missed) \in Nat
      /\ Cardinality(rest) \in Nat /\ Cardinality(P) \in Nat /\ Cardinality(chosen) \in Nat
      /\ IsFiniteSet(chosen) /\ IsFiniteSet(P)
  BY <1>2, <1>4
<1>7. Cardinality(chosen) + Cardinality(missed) + Cardinality(rest) = Cardinality(S)
  BY <1>5
<1> QED
  BY <1>5, <1>6, <1>7 DEF hits, alarms, missed, rest

\* Every row of the capacity table reconciles.
LEMMA BudgetsReconcile ==
  ASSUME NEW sample \in Samples, NEW budget \in Nat
  PROVE  Reconciles(sample, budget)
<1> DEFINE chosen == Allocated(sample, budget)
           P == Positives(sample)
           row == FrontierRow(sample, budget)
<1>1. Scores(sample) /\ DOMAIN sample = 1..Len(sample) /\ Len(sample) \in Nat
        /\ Cardinality(DOMAIN sample) = Len(sample)
  BY SamplesHaveScores
<1>2. Cardinality(chosen) = IF budget < Len(sample) THEN budget ELSE Len(sample)
  BY <1>1, BudgetIsSpent
<1>3. chosen \subseteq DOMAIN sample
  BY DEF Allocated
<1>4. /\ row.tp = Cardinality(chosen \cap P) /\ row.fp = Cardinality(chosen \ P)
      /\ row.fn = Cardinality(P \ chosen) /\ row.tn = Cardinality((DOMAIN sample \ chosen) \ P)
  BY DEF FrontierRow
<1>p. P \subseteq DOMAIN sample /\ IsFiniteSet(DOMAIN sample)
  BY <1>1 DEF Positives, Scores
<1> HIDE DEF chosen, row, P
<1>c. /\ IsFiniteSet(chosen) /\ IsFiniteSet(P)
      /\ Cardinality(chosen \cap P) \in Nat /\ Cardinality(chosen \ P) \in Nat
      /\ Cardinality(P \ chosen) \in Nat /\ Cardinality((DOMAIN sample \ chosen) \ P) \in Nat
      /\ Cardinality(P) \in Nat /\ Cardinality(chosen) \in Nat
      /\ Cardinality(chosen \cap P) + Cardinality(chosen \ P) = Cardinality(chosen)
      /\ Cardinality(chosen \cap P) + Cardinality(P \ chosen) = Cardinality(P)
      /\ Cardinality(chosen) + Cardinality(P \ chosen) + Cardinality((DOMAIN sample \ chosen) \ P) = Cardinality(DOMAIN sample)
  BY <1>3, <1>p, FrontierCounts, Zenon
<1>5. /\ row.tp \in Nat /\ row.fp \in Nat /\ row.fn \in Nat /\ row.tn \in Nat
      /\ row.tp + row.fp = Cardinality(chosen) /\ row.tp + row.fn = Cardinality(P)
      /\ Cardinality(chosen) + row.fn + row.tn = Len(sample)
  BY <1>1, <1>4, <1>c
<1> QED
  BY <1>1, <1>2, <1>5 DEF Reconciles, row, P

\* A budget of as many rows as a threshold marks allocates these rows, whatever
\* scores are equal.
LEMMA ThresholdsMarkBudgets ==
  ASSUME NEW sample \in Samples, NEW threshold \in Int
  PROVE  Predicted(sample, threshold) = Allocated(sample, ThresholdRow(sample, threshold).volume)
<1> DEFINE S == DOMAIN sample
           A == Predicted(sample, threshold)
           volume == Cardinality(A)
<1>1. Scores(sample) /\ IsFiniteSet(S)
  BY SamplesHaveScores DEF Scores
<1>2. A \subseteq S /\ IsFiniteSet(A) /\ volume \in Nat
  BY <1>1, FS_Subset, FS_CardinalityType DEF Predicted
<1>3. \A i \in S : i \in A <=> sample[i].score >= threshold
  BY DEF Predicted
<1>4. \A i \in S : sample[i].score \in Int
  BY <1>1 DEF Scores
<1>5. ThresholdRow(sample, threshold).volume = volume
  BY DEF ThresholdRow
<1> HIDE DEF A
<1>6. ASSUME NEW i \in S
      PROVE  i \in A <=> RankOf(sample, i) <= volume
  <2> DEFINE B == Before(sample, i)
  <2>1. RankOf(sample, i) = 1 + Cardinality(B)
    BY DEF RankOf, Before
  <2>2. IsFiniteSet(B) /\ Cardinality(B) \in Nat /\ B \subseteq S /\ i \notin B
    BY <1>1, PrecedesOrders, FS_Subset, FS_CardinalityType DEF Before
  <2>3. CASE i \in A
    <3>1. B \subseteq A
      BY <1>3, <1>4, <2>3 DEF Before, Precedes
    <3> HIDE DEF B
    <3>2. Cardinality(B) < Cardinality(A)
      BY <1>2, <2>2, <2>3, <3>1, ProperSubsets
    <3> QED
      BY <1>2, <2>1, <2>2, <2>3, <3>2
  <2>4. CASE i \notin A
    <3>1. A \subseteq B
      BY <1>2, <1>3, <1>4, <2>4 DEF Before, Precedes
    <3> HIDE DEF B
    <3>2. Cardinality(A) <= Cardinality(B)
      BY <2>2, <3>1, FS_Subset
    <3> QED
      BY <1>2, <2>1, <2>2, <2>4, <3>2
  <2> QED
    BY <2>3, <2>4
<1>7. A = {i \in S : RankOf(sample, i) <= volume}
  BY <1>2, <1>6
<1> QED
  BY <1>5, <1>7 DEF Allocated, A

\* A larger budget finds no fewer positives.
LEMMA RecallGrows ==
  ASSUME NEW sample \in Samples, NEW b \in Nat, NEW c \in Nat, b <= c,
         ReachesRecall(FrontierRow(sample, b))
  PROVE  ReachesRecall(FrontierRow(sample, c))
<1> DEFINE P == Positives(sample)
           X == Allocated(sample, b)
           Y == Allocated(sample, c)
           p == FrontierRow(sample, b)
           q == FrontierRow(sample, c)
<1>1. Scores(sample) /\ DOMAIN sample = 1..Len(sample) /\ Len(sample) \in Nat
  BY SamplesHaveScores
<1>2. \A i \in DOMAIN sample : RankOf(sample, i) \in Nat
  <2> TAKE i \in DOMAIN sample
  <2>1. IsFiniteSet(Before(sample, i))
    BY <1>1, FS_Subset DEF Before, Scores
  <2> QED
    BY <2>1, FS_CardinalityType DEF RankOf, Before
<1>3. X \subseteq Y /\ X \subseteq DOMAIN sample /\ Y \subseteq DOMAIN sample
  BY <1>2 DEF Allocated
<1>4. /\ p.tp = Cardinality(X \cap P) /\ p.fn = Cardinality(P \ X)
      /\ q.tp = Cardinality(Y \cap P) /\ q.fn = Cardinality(P \ Y)
  BY DEF FrontierRow
<1>p. P \subseteq DOMAIN sample /\ IsFiniteSet(DOMAIN sample)
  BY <1>1 DEF Positives, Scores
<1> HIDE DEF X, Y, p, q, P
<1>x. /\ IsFiniteSet(X) /\ IsFiniteSet(P)
      /\ Cardinality(X \cap P) \in Nat /\ Cardinality(X \ P) \in Nat
      /\ Cardinality(P \ X) \in Nat /\ Cardinality((DOMAIN sample \ X) \ P) \in Nat
      /\ Cardinality(P) \in Nat /\ Cardinality(X) \in Nat
      /\ Cardinality(X \cap P) + Cardinality(X \ P) = Cardinality(X)
      /\ Cardinality(X \cap P) + Cardinality(P \ X) = Cardinality(P)
      /\ Cardinality(X) + Cardinality(P \ X) + Cardinality((DOMAIN sample \ X) \ P) = Cardinality(DOMAIN sample)
  BY <1>3, <1>p, FrontierCounts, Zenon
<1>y. /\ IsFiniteSet(Y) /\ IsFiniteSet(P)
      /\ Cardinality(Y \cap P) \in Nat /\ Cardinality(Y \ P) \in Nat
      /\ Cardinality(P \ Y) \in Nat /\ Cardinality((DOMAIN sample \ Y) \ P) \in Nat
      /\ Cardinality(P) \in Nat /\ Cardinality(Y) \in Nat
      /\ Cardinality(Y \cap P) + Cardinality(Y \ P) = Cardinality(Y)
      /\ Cardinality(Y \cap P) + Cardinality(P \ Y) = Cardinality(P)
      /\ Cardinality(Y) + Cardinality(P \ Y) + Cardinality((DOMAIN sample \ Y) \ P) = Cardinality(DOMAIN sample)
  BY <1>3, <1>p, FrontierCounts, Zenon
<1>5. /\ p.tp \in Nat /\ p.fn \in Nat /\ p.tp + p.fn = Cardinality(P) /\ IsFiniteSet(P)
      /\ Cardinality(P) \in Nat
  BY <1>4, <1>x
<1>6. q.tp \in Nat /\ q.fn \in Nat /\ q.tp + q.fn = Cardinality(P)
  BY <1>4, <1>y
<1>7. p.tp <= q.tp
  <2>1. X \cap P \subseteq Y \cap P /\ IsFiniteSet(Y \cap P)
    BY <1>3, <1>5, FS_Subset
  <2> QED
    BY <1>4, <2>1, FS_Subset
<1>8. p.tp > 0 /\ 10 * p.tp >= 8 * (p.tp + p.fn)
  BY DEF ReachesRecall, p
<1>9. q.tp > 0 /\ 10 * q.tp >= 8 * (q.tp + q.fn)
  BY <1>5, <1>6, <1>7, <1>8
<1> QED
  BY <1>9 DEF ReachesRecall, q

\* Fractions a/b, c/d and e/f, compared by cross-multiplication.
LEMMA FractionsChain ==
  ASSUME NEW a \in Nat, NEW b \in Nat \ {0}, NEW c \in Nat, NEW d \in Nat \ {0},
         NEW e \in Nat, NEW f \in Nat \ {0}, a * d >= c * b, c * f >= e * d
  PROVE  /\ a * f >= e * b
         /\ a * d > c * b \/ c * f > e * d => a * f > e * b
<1>1. (a * d) * f >= (c * b) * f /\ (c * f) * b >= (e * d) * b
  OBVIOUS
<1>2. (a * d) * f = (a * f) * d /\ (c * b) * f = (c * f) * b /\ (e * d) * b = (e * b) * d
  OBVIOUS
<1>3. (a * f) * d >= (e * b) * d
  BY <1>1, <1>2
<1>4. a * d > c * b \/ c * f > e * d => (a * f) * d > (e * b) * d
  <2>1. a * d > c * b => (a * d) * f > (c * b) * f
    OBVIOUS
  <2>2. c * f > e * d => (c * f) * b > (e * d) * b
    OBVIOUS
  <2> QED
    BY <1>1, <1>2, <2>1, <2>2
<1>5. \A x, y \in Nat : /\ x * d >= y * d => x >= y
                        /\ x * d > y * d => x > y
  OBVIOUS
<1>6. a * f \in Nat /\ e * b \in Nat
  OBVIOUS
<1> QED
  BY <1>3, <1>4, <1>5, <1>6

IsRow(r) == r.tp \in Nat /\ r.volume \in Nat \ {0} /\ r.threshold \in Int

\* Of two rows of different thresholds, one is preferred.
LEMMA PreferenceIsTotal ==
  ASSUME NEW r, NEW s, IsRow(r), IsRow(s)
  PROVE  Preferred(r, s) \/ Preferred(s, r)
<1>1. r.tp * s.volume \in Int /\ s.tp * r.volume \in Int
  BY DEF IsRow
<1>2. r.tp \in Nat /\ s.tp \in Nat /\ r.threshold \in Int /\ s.threshold \in Int
  BY DEF IsRow
<1> DEFINE m == r.tp * s.volume
           n == s.tp * r.volume
<1> HIDE DEF m, n
<1>3. m \in Int /\ n \in Int
  BY <1>1 DEF m, n
<1>4. Preferred(r, s) <=> m > n \/ (m = n /\ (r.tp > s.tp \/ (r.tp = s.tp /\ r.threshold <= s.threshold)))
  BY DEF Preferred, m, n
<1>5. Preferred(s, r) <=> n > m \/ (n = m /\ (s.tp > r.tp \/ (s.tp = r.tp /\ s.threshold <= r.threshold)))
  BY DEF Preferred, m, n
<1> QED
  BY <1>2, <1>3, <1>4, <1>5

\* Preference is transitive.
LEMMA PreferenceChains ==
  ASSUME NEW r, NEW s, NEW q, IsRow(r), IsRow(s), IsRow(q), Preferred(r, s), Preferred(s, q)
  PROVE  Preferred(r, q)
<1> DEFINE m == r.tp * s.volume
           n == s.tp * r.volume
           k == s.tp * q.volume
           l == q.tp * s.volume
           x == r.tp * q.volume
           y == q.tp * r.volume
<1>1. m \in Int /\ n \in Int /\ k \in Int /\ l \in Int /\ x \in Int /\ y \in Int
  BY DEF IsRow
<1>2. m >= n /\ k >= l => x >= y /\ (m > n \/ k > l => x > y)
  BY FractionsChain DEF IsRow
<1>3. m = n /\ k = l => x = y
  <2> SUFFICES ASSUME m = n, k = l PROVE x = y
    OBVIOUS
  <2>1. x >= y
    BY <1>1, <1>2
  <2>2. q.tp * s.volume >= s.tp * q.volume /\ s.tp * r.volume >= r.tp * s.volume
    BY <1>1
  <2>3. y >= x
    BY <2>2, FractionsChain DEF IsRow
  <2> QED
    BY <1>1, <2>1, <2>3
<1>4. r.tp \in Nat /\ s.tp \in Nat /\ q.tp \in Nat
        /\ r.threshold \in Int /\ s.threshold \in Int /\ q.threshold \in Int
  BY DEF IsRow
<1>5. m > n \/ (m = n /\ (r.tp > s.tp \/ (r.tp = s.tp /\ r.threshold <= s.threshold)))
  BY DEF Preferred
<1>6. k > l \/ (k = l /\ (s.tp > q.tp \/ (s.tp = q.tp /\ s.threshold <= q.threshold)))
  BY DEF Preferred
<1>7. Preferred(r, q) <=> x > y \/ (x = y /\ (r.tp > q.tp \/ (r.tp = q.tp /\ r.threshold <= q.threshold)))
  BY DEF Preferred
<1> HIDE DEF m, n, k, l, x, y
<1> QED
  BY <1>1, <1>2, <1>3, <1>4, <1>5, <1>6, <1>7

\* Among finitely many rows one is preferred to all.
LEMMA PreferredExists ==
  ASSUME NEW S, IsFiniteSet(S), \A r \in S : IsRow(r), S # {}
  PROVE  \E r \in S : \A s \in S : Preferred(r, s)
<1> DEFINE T == {u \in SUBSET S : u # {} => \E r \in u : \A s \in u : Preferred(r, s)}
<1>1. {} \in T
  OBVIOUS
<1>2. ASSUME NEW u \in SUBSET S, u # {}, \A x \in u : u \ {x} \in T
      PROVE  u \in T
  <2>1. PICK x \in u : TRUE
    BY <1>2
  <2>2. Preferred(x, x)
    BY <2>1, PreferenceIsTotal
  <2>3. CASE u \ {x} = {}
    BY <2>1, <2>2, <2>3
  <2>4. CASE u \ {x} # {}
    <3>1. u \ {x} \in T
      BY <1>2, <2>1
    <3>2. PICK r \in u \ {x} : \A s \in u \ {x} : Preferred(r, s)
      BY <2>4, <3>1
    <3> HIDE DEF T
    <3>3. CASE Preferred(r, x)
      <4>1. \A s \in u : Preferred(r, s)
        BY <3>2, <3>3
      <4> QED
        BY <3>2, <4>1 DEF T
    <3>4. CASE ~Preferred(r, x)
      <4>1. Preferred(x, r)
        BY <2>1, <3>2, <3>4, PreferenceIsTotal
      <4>2. \A s \in u : Preferred(x, s)
        BY <2>1, <2>2, <3>2, <4>1, PreferenceChains
      <4> QED
        BY <2>1, <4>2 DEF T
    <3> QED
      BY <3>3, <3>4
  <2> QED
    BY <2>3, <2>4
<1> HIDE DEF T
<1>3. S \in T
  BY <1>1, <1>2, SubsetInduction
<1> QED
  BY <1>3 DEF T

\* Marking reaches the recall if and only if the capacity it takes does.
LEMMA MarkingReaches ==
  ASSUME NEW sample \in Samples, Positives(sample) # {}, NEW threshold \in Int
  PROVE  LET row == ThresholdRow(sample, threshold) IN
         /\ row.threshold = threshold /\ row.tp \in Nat /\ row.volume \in Nat /\ row.tp <= row.volume
         /\ row.meetsRecall <=> ReachesRecall(FrontierRow(sample, row.volume))
         /\ row.meetsRecall => row.tp > 0
<1> DEFINE row == ThresholdRow(sample, threshold)
           A == Predicted(sample, threshold)
           P == Positives(sample)
           S == DOMAIN sample
           hits == Cardinality(A \cap P)
           missed == Cardinality(P \ A)
<1>1. P \subseteq S /\ IsFiniteSet(S) /\ A \subseteq S
  BY SamplesHaveScores DEF Positives, Predicted, Scores
<1>2. /\ row.threshold = threshold /\ row.tp = hits /\ row.volume = Cardinality(A)
      /\ row.meetsRecall <=> 10 * hits >= 8 * Cardinality(P)
  BY DEF ThresholdRow
<1>3. A = Allocated(sample, row.volume)
  BY ThresholdsMarkBudgets
<1>4. /\ FrontierRow(sample, row.volume).tp = hits
      /\ FrontierRow(sample, row.volume).fn = missed
  BY <1>3 DEF FrontierRow
<1> DEFINE front == FrontierRow(sample, row.volume)
<1>5. ReachesRecall(front) <=> front.tp > 0 /\ 10 * front.tp >= 8 * (front.tp + front.fn)
  BY DEF ReachesRecall
<1>p. P # {}
  OBVIOUS
<1> HIDE DEF row, A, P, S, front
<1>6. /\ IsFiniteSet(A) /\ IsFiniteSet(P)
      /\ Cardinality(A \cap P) \in Nat /\ Cardinality(A \ P) \in Nat
      /\ Cardinality(P \ A) \in Nat /\ Cardinality((S \ A) \ P) \in Nat
      /\ Cardinality(P) \in Nat /\ Cardinality(A) \in Nat
      /\ Cardinality(A \cap P) + Cardinality(A \ P) = Cardinality(A)
      /\ Cardinality(A \cap P) + Cardinality(P \ A) = Cardinality(P)
      /\ Cardinality(A) + Cardinality(P \ A) + Cardinality((S \ A) \ P) = Cardinality(S)
  BY <1>1, FrontierCounts, Zenon
<1>7. hits \in Nat /\ missed \in Nat /\ hits + missed = Cardinality(P) /\ hits <= Cardinality(A)
  BY <1>6
<1>8. Cardinality(P) > 0
  BY <1>6, <1>p, FS_EmptySet
<1>9. front.tp = hits /\ front.fn = missed
  BY <1>4 DEF front
<1>10. 10 * hits >= 8 * Cardinality(P) => hits > 0
  BY <1>6, <1>7, <1>8
<1>11. row.meetsRecall <=> ReachesRecall(front)
  BY <1>2, <1>5, <1>7, <1>9, <1>10
<1> QED
  BY <1>2, <1>6, <1>7, <1>10, <1>11 DEF row, front

\* What select_threshold says of a sample and a capacity.
LEMMA ChoiceFacts ==
  ASSUME NEW sample \in Samples, Positives(sample) # {}, NEW capacity \in Nat
  PROVE  LET choice == SelectThreshold(sample, capacity)
             row(t) == ThresholdRow(sample, t)
         IN  /\ choice.selected =>
                  \E t \in Thresholds :
                    /\ choice.row = row(t) /\ row(t).meetsRecall /\ row(t).volume <= capacity
                    /\ \A s \in Thresholds : row(s).meetsRecall /\ row(s).volume <= capacity =>
                         Preferred(row(t), row(s))
             /\ choice.reason = "review_capacity" =>
                  \A s \in Thresholds : row(s).meetsRecall => row(s).volume > capacity
             /\ choice.reason = "recall_target" => \A s \in Thresholds : ~row(s).meetsRecall
<1> DEFINE row(t) == ThresholdRow(sample, t)
           rows == {row(t) : t \in Thresholds}
           meeting == {r \in rows : r.meetsRecall}
           feasible == {r \in meeting : r.volume <= capacity}
           best(S) == CHOOSE r \in S : \A s \in S : Preferred(r, s)
           choice == SelectThreshold(sample, capacity)
<1>1. choice = IF feasible # {} THEN [selected |-> TRUE, reason |-> "satisfied", row |-> best(feasible)]
               ELSE IF meeting # {}
                    THEN [selected |-> FALSE, reason |-> "review_capacity", row |-> best(meeting)]
               ELSE [selected |-> FALSE, reason |-> "recall_target"]
  BY DEF SelectThreshold
<1>t. Thresholds \subseteq Int /\ IsFiniteSet(Thresholds)
  BY SelectionAssumption
<1>2. \A t \in Thresholds :
        /\ row(t).threshold \in Int /\ row(t).tp \in Nat /\ row(t).volume \in Nat
        /\ row(t).tp <= row(t).volume /\ (row(t).meetsRecall => row(t).tp > 0)
  BY <1>t, MarkingReaches
<1> HIDE DEF row, choice
<1>3. IsFiniteSet(rows)
  <2> DEFINE g == [t \in Thresholds |-> row(t)]
  <2>1. g \in [Thresholds -> rows] /\ \A r \in rows : \E t \in Thresholds : g[t] = r
    OBVIOUS
  <2> HIDE DEF g, rows
  <2> QED
    BY <1>t, <2>1, ImageIsFinite
<1>4. \A r \in feasible : IsRow(r)
  BY <1>2 DEF IsRow
<1>5. IsFiniteSet(feasible)
  <2>1. feasible \subseteq rows
    OBVIOUS
  <2> HIDE DEF feasible, rows
  <2> QED
    BY <1>3, <2>1, FS_Subset
<1>6. feasible # {} => best(feasible) \in feasible /\ \A s \in feasible : Preferred(best(feasible), s)
  <2> HIDE DEF feasible
  <2> QED
    BY <1>4, <1>5, PreferredExists
<1>7. /\ choice.selected => feasible # {} /\ choice.row = best(feasible)
      /\ choice.reason = "review_capacity" => feasible = {}
      /\ choice.reason = "recall_target" => meeting = {}
  <2> HIDE DEF best, feasible, meeting
  <2> QED
    BY <1>1
<1> DEFINE chosen == best(feasible)
<1> HIDE DEF best
<1>8. ASSUME choice.selected
      PROVE  \E t \in Thresholds :
               /\ choice.row = row(t) /\ row(t).meetsRecall /\ row(t).volume <= capacity
               /\ \A s \in Thresholds : row(s).meetsRecall /\ row(s).volume <= capacity =>
                    Preferred(row(t), row(s))
  <2>1. chosen \in feasible /\ (\A s \in feasible : Preferred(chosen, s)) /\ choice.row = chosen
    BY <1>6, <1>7, <1>8
  <2> HIDE DEF chosen
  <2>2. PICK t \in Thresholds : chosen = row(t) /\ row(t).meetsRecall /\ row(t).volume <= capacity
    BY <2>1
  <2>3. \A s \in Thresholds : row(s).meetsRecall /\ row(s).volume <= capacity => row(s) \in feasible
    OBVIOUS
  <2> HIDE DEF feasible
  <2> QED
    BY <2>1, <2>2, <2>3
<1>9. feasible = {} => \A s \in Thresholds : row(s).meetsRecall => row(s).volume > capacity
  <2> SUFFICES ASSUME feasible = {}, NEW s \in Thresholds, row(s).meetsRecall PROVE row(s).volume > capacity
    OBVIOUS
  <2>1. row(s) \notin feasible
    OBVIOUS
  <2>2. ~(row(s).volume <= capacity)
    BY <2>1
  <2> QED
    BY <1>2, <2>2
<1>10. meeting = {} => \A s \in Thresholds : ~row(s).meetsRecall
  <2> SUFFICES ASSUME meeting = {}, NEW s \in Thresholds PROVE ~row(s).meetsRecall
    OBVIOUS
  <2>1. row(s) \notin meeting
    OBVIOUS
  <2> QED
    BY <2>1
<1> HIDE DEF feasible, meeting, rows, chosen
<1> QED
  BY <1>7, <1>8, <1>9, <1>10 DEF row, choice

\* The capacity table, the rule for a threshold and the ranking agree, although each
\* counts in its own way.  Every row of the table reconciles, and more budget does not
\* lose a recall that was reached.  A threshold that is selected marks the rows
\* that a budget of its volume allocates, within the capacity and with the recall;
\* no other threshold of its volume or less finds more; and one that is refused is
\* refused since no budget like that of a threshold would do.
CapacityAndThresholdAgree ==
  exam.kind = "ranking" /\ Positives(exam.sample) # {} =>
    LET sample == exam.sample
        Marks(t) == ThresholdRow(sample, t)
        Suffices(t) == ReachesRecall(FrontierRow(sample, Marks(t).volume))
    IN  /\ \A budget \in Nat : Reconciles(sample, budget)
        /\ \A b, c \in Nat :
             b <= c /\ ReachesRecall(FrontierRow(sample, b)) => ReachesRecall(FrontierRow(sample, c))
        /\ \A capacity \in Capacities :
             LET choice == SelectThreshold(sample, capacity) IN
             /\ choice.selected =>
                  /\ Predicted(sample, choice.row.threshold) = Allocated(sample, choice.row.volume)
                  /\ choice.row.volume <= capacity
                  /\ ReachesRecall(FrontierRow(sample, choice.row.volume))
                  /\ \A t \in Thresholds :
                       Suffices(t) /\ Marks(t).volume <= choice.row.volume => Marks(t).tp <= choice.row.tp
             /\ choice.reason = "review_capacity" =>
                  \A t \in Thresholds : Suffices(t) => Marks(t).volume > capacity
             /\ choice.reason = "recall_target" => \A t \in Thresholds : ~Suffices(t)

SampleShape == exam.kind = "ranking" => exam.sample \in Samples

\* What SelectThreshold chooses, of a sample with frauds.
LEMMA SelectedIsBest ==
  ASSUME NEW r, NEW s, IsRow(r), IsRow(s), Preferred(r, s), s.volume <= r.volume
  PROVE  s.tp <= r.tp
<1>1. r.tp * s.volume >= s.tp * r.volume
  <2>1. r.tp * s.volume \in Int /\ s.tp * r.volume \in Int
    BY DEF IsRow
  <2> QED
    BY <2>1 DEF Preferred
<1>2. r.tp \in Nat /\ s.tp \in Nat /\ r.volume \in Nat \ {0} /\ s.volume \in Nat \ {0}
  BY DEF IsRow
<1>3. \A a, b \in Nat : \A v, w \in Nat \ {0} : a * w >= b * v /\ w <= v => b <= a
  <2> SUFFICES ASSUME NEW a \in Nat, NEW b \in Nat, NEW v \in Nat \ {0}, NEW w \in Nat \ {0},
                      a * w >= b * v, w <= v, b > a
               PROVE  FALSE
    OBVIOUS
  <2>1. b * v > a * v
    OBVIOUS
  <2>2. a * v >= a * w
    OBVIOUS
  <2> QED
    BY <2>1, <2>2
<1> QED
  BY <1>1, <1>2, <1>3

\* A sample with frauds has the property.
LEMMA SampleAgrees ==
  ASSUME SampleShape
  PROVE  CapacityAndThresholdAgree
<1> SUFFICES ASSUME exam.kind = "ranking", Positives(exam.sample) # {}
             PROVE  CapacityAndThresholdAgree
  BY DEF CapacityAndThresholdAgree
<1> DEFINE sample == exam.sample
           Marks(t) == ThresholdRow(sample, t)
           Suffices(t) == ReachesRecall(FrontierRow(sample, Marks(t).volume))
<1>1. sample \in Samples /\ Positives(sample) # {}
  BY DEF SampleShape
<1>2. Thresholds \subseteq Int /\ Capacities \subseteq Nat
  BY SelectionAssumption
<1> HIDE DEF sample
<1>3. \A t \in Thresholds :
        /\ Marks(t).threshold = t /\ Marks(t).tp \in Nat /\ Marks(t).volume \in Nat
        /\ Marks(t).tp <= Marks(t).volume
        /\ Marks(t).meetsRecall <=> Suffices(t)
        /\ Marks(t).meetsRecall => Marks(t).tp > 0
  BY <1>1, <1>2, MarkingReaches
<1>4. \A t \in Thresholds : Predicted(sample, t) = Allocated(sample, Marks(t).volume)
  BY <1>1, <1>2, ThresholdsMarkBudgets
<1>5. \A t \in Thresholds : Marks(t).meetsRecall => IsRow(Marks(t))
  BY <1>2, <1>3 DEF IsRow
<1>6. \A budget \in Nat : Reconciles(sample, budget)
  BY <1>1, BudgetsReconcile
<1>7. \A b, c \in Nat :
        b <= c /\ ReachesRecall(FrontierRow(sample, b)) => ReachesRecall(FrontierRow(sample, c))
  BY <1>1, RecallGrows
<1>8. ASSUME NEW capacity \in Capacities
      PROVE  LET choice == SelectThreshold(sample, capacity) IN
             /\ choice.selected =>
                  /\ Predicted(sample, choice.row.threshold) = Allocated(sample, choice.row.volume)
                  /\ choice.row.volume <= capacity
                  /\ ReachesRecall(FrontierRow(sample, choice.row.volume))
                  /\ \A t \in Thresholds :
                       Suffices(t) /\ Marks(t).volume <= choice.row.volume => Marks(t).tp <= choice.row.tp
             /\ choice.reason = "review_capacity" =>
                  \A t \in Thresholds : Suffices(t) => Marks(t).volume > capacity
             /\ choice.reason = "recall_target" => \A t \in Thresholds : ~Suffices(t)
  <2> DEFINE choice == SelectThreshold(sample, capacity)
  <2>1. capacity \in Nat
    BY <1>2
  <2>2. /\ choice.selected =>
             \E t \in Thresholds :
               /\ choice.row = Marks(t) /\ Marks(t).meetsRecall /\ Marks(t).volume <= capacity
               /\ \A s \in Thresholds : Marks(s).meetsRecall /\ Marks(s).volume <= capacity =>
                    Preferred(Marks(t), Marks(s))
        /\ choice.reason = "review_capacity" =>
             \A s \in Thresholds : Marks(s).meetsRecall => Marks(s).volume > capacity
        /\ choice.reason = "recall_target" => \A s \in Thresholds : ~Marks(s).meetsRecall
    BY <1>1, <2>1, ChoiceFacts
  <2> HIDE DEF choice
  <2>3. ASSUME choice.selected
        PROVE  /\ Predicted(sample, choice.row.threshold) = Allocated(sample, choice.row.volume)
               /\ choice.row.volume <= capacity
               /\ ReachesRecall(FrontierRow(sample, choice.row.volume))
               /\ \A t \in Thresholds :
                    Suffices(t) /\ Marks(t).volume <= choice.row.volume => Marks(t).tp <= choice.row.tp
    <3>1. PICK t \in Thresholds :
            /\ choice.row = Marks(t) /\ Marks(t).meetsRecall /\ Marks(t).volume <= capacity
            /\ \A s \in Thresholds : Marks(s).meetsRecall /\ Marks(s).volume <= capacity =>
                 Preferred(Marks(t), Marks(s))
      BY <2>2, <2>3
    <3>2. ReachesRecall(FrontierRow(sample, choice.row.volume))
      <4>1. Suffices(t)
        BY <1>3, <3>1
      <4> QED
        BY <3>1, <4>1
    <3> HIDE DEF Marks, Suffices
    <3>3. ASSUME NEW s \in Thresholds, Suffices(s), Marks(s).volume <= Marks(t).volume
          PROVE  Marks(s).tp <= Marks(t).tp
      <4>1. Marks(s).volume \in Nat /\ Marks(t).volume \in Nat /\ Marks(s).meetsRecall
        BY <1>3, <3>3
      <4>2. Marks(s).volume <= capacity
        BY <2>1, <3>1, <3>3, <4>1
      <4>3. Preferred(Marks(t), Marks(s)) /\ IsRow(Marks(t)) /\ IsRow(Marks(s))
        BY <1>5, <3>1, <4>1, <4>2
      <4> QED
        BY <3>3, <4>3, SelectedIsBest
    <3> QED
      BY <1>3, <1>4, <3>1, <3>2, <3>3
  <2> HIDE DEF Marks, Suffices
  <2> QED
    BY <1>3, <2>2, <2>3 DEF choice
<1> QED
  BY <1>6, <1>7, <1>8 DEF CapacityAndThresholdAgree, sample

\* A capacity, a threshold and a ranking of Lane A agree in every state that
\* reaches them.
THEOREM CapacityAndThresholdAlwaysAgree == SelectionSpec => []CapacityAndThresholdAgree
<1>1. SelectionInit => SampleShape
  BY DEF SelectionInit, SampleShape
<1>2. SampleShape /\ [SelectionNext]_exam => SampleShape'
  BY DEF SampleShape, SelectionNext
<1>3. SampleShape => CapacityAndThresholdAgree
  BY SampleAgrees
<1> QED
  BY <1>1, <1>2, <1>3, PTL DEF SelectionSpec

\* Reading the rows in their order finds as many positives as allocating that many.
LEMMA FoundIsAllocated ==
  ASSUME NEW sample \in Samples, NEW m \in 1..Len(sample)
  PROVE  Cardinality({k \in 1..m : sample[Ranked(sample)[k]].label = 1})
           = FrontierRow(sample, m).tp
<1> DEFINE n == Len(sample)
           rank == [i \in 1..n |-> RankOf(sample, i)]
           order == Ranked(sample)
           F == {k \in 1..m : sample[order[k]].label = 1}
           H == Allocated(sample, m) \cap Positives(sample)
           g == [k \in F |-> order[k]]
<1>1. Scores(sample) /\ DOMAIN sample = 1..n /\ n \in Nat
  BY SamplesHaveScores
<1> HIDE DEF n
<1>2. /\ rank \in [1..n -> 1..n]
      /\ \A i, j \in 1..n : rank[i] = rank[j] => i = j
      /\ \A k \in 1..n : \E i \in 1..n : rank[i] = k
      /\ order = InOrder(rank)
  BY <1>1, RowsInOrder
<1>3. H = {i \in 1..n : rank[i] <= m /\ sample[i].label = 1}
  BY <1>1 DEF Allocated, Positives
<1>m. m \in 1..n
  BY DEF n
<1> HIDE DEF rank, order, H
<1>4. /\ order \in [1..n -> 1..n]
      /\ \A k \in 1..n : rank[order[k]] = k
      /\ \A i \in 1..n : order[rank[i]] = i
  BY <1>1, <1>2, InOrderInverts
<1>5. F \subseteq 1..n /\ IsFiniteSet(F)
  <2>1. F \subseteq 1..n
    BY <1>1, <1>m
  <2>2. IsFiniteSet(1..m) /\ F \subseteq 1..m
    BY <1>m, <1>1, IntervalIsFinite
  <2> HIDE DEF F
  <2> QED
    BY <2>1, <2>2, FS_Subset
<1>6. \A k \in F : k \in 1..n /\ k <= m /\ sample[order[k]].label = 1
  BY <1>5, <1>1, <1>m
<1>7. \A k \in 1..n : k <= m /\ sample[order[k]].label = 1 => k \in F
  BY <1>1, <1>m
<1> HIDE DEF F
<1>8. g \in [F -> H]
  BY <1>3, <1>4, <1>6
<1>9. \A i \in H : \E k \in F : g[k] = i
  <2> TAKE i \in H
  <2>1. i \in 1..n /\ rank[i] <= m /\ sample[i].label = 1 /\ rank[i] \in 1..n
    BY <1>2, <1>3
  <2>2. order[rank[i]] = i
    BY <1>4, <2>1
  <2>3. rank[i] \in F
    BY <1>7, <2>1, <2>2
  <2> QED
    BY <2>2, <2>3
<1>10. \A k, l \in F : g[k] = g[l] => k = l
  <2> SUFFICES ASSUME NEW k \in F, NEW l \in F, order[k] = order[l] PROVE k = l
    BY DEF g
  <2>1. rank[order[k]] = k /\ rank[order[l]] = l
    BY <1>4, <1>6
  <2> QED
    BY <2>1
<1> HIDE DEF g
<1>11. Cardinality(H) = Cardinality(F)
  BY <1>5, <1>8, <1>9, <1>10, ImageIsFinite
<1> QED
  BY <1>11 DEF F, H, order, FrontierRow

\* The workload is the least budget that reaches the recall.
LEMMA WorkloadIsLeast ==
  ASSUME NEW sample \in Samples, Positives(sample) # {}, NEW budget \in 0..Len(sample)
  PROVE  /\ WorkloadForRecall(sample) \in 1..Len(sample)
         /\ ReachesRecall(FrontierRow(sample, budget)) <=> budget >= WorkloadForRecall(sample)
<1> DEFINE n == Len(sample)
           order == Ranked(sample)
           P == Positives(sample)
           need == Needed(sample)
           found(m) == Cardinality({k \in 1..m : sample[order[k]].label = 1})
           row(m) == FrontierRow(sample, m)
           W == {m \in DOMAIN order : found(m) >= need}
           least == WorkloadForRecall(sample)
<1>1. Scores(sample) /\ DOMAIN sample = 1..n /\ n \in Nat /\ Cardinality(1..n) = n
        /\ IsFiniteSet(1..n)
  BY SamplesHaveScores, IntervalIsFinite
<1>2. least = Min(W)
  BY DEF WorkloadForRecall
<1>3. DOMAIN order = 1..n
  BY <1>1 DEF Ranked, InOrder
<1>4. \A m \in 1..n : found(m) = row(m).tp
  BY FoundIsAllocated
<1>5. P \subseteq 1..n
  BY <1>1 DEF Positives
<1>6. ASSUME NEW m \in 0..n
      PROVE  /\ row(m).tp \in Nat /\ row(m).fn \in Nat /\ Cardinality(P) \in Nat
             /\ row(m).tp + row(m).fn = Cardinality(P) /\ row(m).tp <= m
             /\ row(m).fn = Cardinality(P \ Allocated(sample, m))
  <2> DEFINE X == Allocated(sample, m)
  <2>1. row(m).tp = Cardinality(X \cap P) /\ row(m).fn = Cardinality(P \ X)
    BY DEF FrontierRow
  <2>m. m \in Nat /\ n = Len(sample)
    BY <1>1, <1>6
  <2>2. Cardinality(X) = IF m < n THEN m ELSE n
    BY <1>1, <2>m, BudgetIsSpent
  <2> DEFINE S == 1..n
  <2>3. X \subseteq S /\ P \subseteq S /\ IsFiniteSet(S)
    BY <1>1, <1>5 DEF Allocated
  <2> HIDE DEF X, P, S
  <2>4. /\ IsFiniteSet(X) /\ IsFiniteSet(P)
        /\ Cardinality(X \cap P) \in Nat /\ Cardinality(X \ P) \in Nat
        /\ Cardinality(P \ X) \in Nat /\ Cardinality((S \ X) \ P) \in Nat
        /\ Cardinality(P) \in Nat /\ Cardinality(X) \in Nat
        /\ Cardinality(X \cap P) + Cardinality(X \ P) = Cardinality(X)
        /\ Cardinality(X \cap P) + Cardinality(P \ X) = Cardinality(P)
        /\ Cardinality(X) + Cardinality(P \ X) + Cardinality((S \ X) \ P) = Cardinality(S)
    BY <2>3, FrontierCounts, Zenon
  <2>x. Cardinality(X) <= m
    BY <1>1, <2>2, <2>m
  <2> HIDE DEF row
  <2> QED
    BY <2>1, <2>4, <2>x DEF X
<1>7. Cardinality(P) \in Nat /\ Cardinality(P) > 0
  <2>1. IsFiniteSet(P)
    BY <1>1, <1>5, FS_Subset
  <2>2. P # {}
    OBVIOUS
  <2> HIDE DEF P
  <2> QED
    BY <2>1, <2>2, FS_CardinalityType, FS_EmptySet
<1>8. need = (8 * Cardinality(P) + 9) \div 10
  BY DEF Needed
<1>9. \A m : ReachesRecall(row(m)) <=> row(m).tp > 0 /\ 10 * row(m).tp >= 8 * (row(m).tp + row(m).fn)
  BY DEF ReachesRecall
<1>full. row(n).fn = 0
  <2>1. 0 <= n /\ n \in 0..n
    BY <1>1
  <2>2. row(n).fn = Cardinality(P \ Allocated(sample, n))
    BY <1>6, <2>1
  <2>3. \A i \in 1..n : RankOf(sample, i) <= n
    <3> TAKE i \in 1..n
    <3> DEFINE rank == [j \in 1..n |-> RankOf(sample, j)]
    <3>1. rank \in [1..n -> 1..n]
      BY <1>1, RowsInOrder
    <3>2. rank[i] \in 1..n /\ rank[i] = RankOf(sample, i)
      BY <3>1
    <3> QED
      BY <1>1, <3>2
  <2>4. P \ Allocated(sample, n) = {}
    BY <1>1, <1>5, <2>3 DEF Allocated
  <2> QED
    BY <2>2, <2>4, FS_EmptySet
<1> HIDE DEF n, order, P, need, row, found, least
<1>10. ASSUME NEW m \in 0..n
       PROVE  ReachesRecall(row(m)) <=> row(m).tp >= need
  <2>1. row(m).tp \in Nat /\ row(m).tp + row(m).fn = Cardinality(P)
    BY <1>6
  <2>2. ReachesRecall(row(m)) <=> row(m).tp > 0 /\ 10 * row(m).tp >= 8 * Cardinality(P)
    BY <1>9, <2>1
  <2> DEFINE t == row(m).tp
             p == Cardinality(P)
  <2> HIDE DEF t, p
  <2>3. t \in Nat /\ p \in Nat /\ p > 0
    BY <1>7, <2>1 DEF t, p
  <2>4. t > 0 /\ 10 * t >= 8 * p <=> t >= (8 * p + 9) \div 10
    BY <2>3
  <2> QED
    BY <1>8, <2>2, <2>4 DEF t, p
<1>11. \A m : m \in W <=> m \in 1..n /\ ReachesRecall(row(m))
  <2> TAKE m
  <2>1. CASE m \in 1..n
    <3>1. m \in 0..n
      BY <1>1, <2>1
    <3>2. found(m) = row(m).tp
      BY <1>4, <2>1
    <3> QED
      BY <1>3, <1>10, <2>1, <3>1, <3>2
  <2>2. CASE m \notin 1..n
    BY <1>3, <2>2
  <2> QED
    BY <2>1, <2>2
<1> HIDE DEF W
<1>12. ~ReachesRecall(row(0))
  <2>1. 0 \in 0..n
    BY <1>1
  <2>2. row(0).tp <= 0
    BY <1>6, <2>1
  <2>3. row(0).tp \in Nat
    BY <1>6, <2>1
  <2> QED
    BY <1>9, <2>2, <2>3
<1>13. n \in W
  <2>1. n \in 0..n
    BY <1>1
  <2>x. row(n).tp \in Nat /\ row(n).tp + row(n).fn = Cardinality(P)
    BY <1>6, <2>1
  <2>2. row(n).tp = Cardinality(P) /\ ReachesRecall(row(n))
    BY <1>7, <1>9, <1>full, <2>x
  <2>3. n # 0
    BY <1>12, <2>2
  <2> QED
    BY <1>1, <1>11, <2>2, <2>3
<1>14. W \subseteq Nat
  BY <1>11, <1>1
<1>15. least \in W /\ \A m \in W : least <= m
  BY <1>2, <1>13, <1>14, MinIsLeast
<1>16. least \in 1..n /\ ReachesRecall(row(least))
  BY <1>11, <1>15
<1>b. budget \in 0..n
  BY DEF n
<1>17. ASSUME ReachesRecall(row(budget)) PROVE budget >= least
  <2>1. budget # 0
    BY <1>12, <1>17
  <2>2. budget \in 1..n
    BY <1>1, <1>b, <2>1
  <2> QED
    BY <1>1, <1>11, <1>15, <1>16, <1>17, <2>2
<1>18. ASSUME budget >= least PROVE ReachesRecall(row(budget))
  <2>1. budget \in Nat /\ least \in Nat /\ least <= budget
    BY <1>1, <1>b, <1>16, <1>18
  <2> QED
    BY <1>16, <2>1, RecallGrows DEF row
<1> QED
  BY <1>16, <1>17, <1>18 DEF n, row, least

\* Both ways of binning put a score in the same bin.
LEMMA BinsAgree ==
  ASSUME NEW score \in Nat
  PROVE  BinOf(score) = UniformBin(score)
<1> DEFINE E == {edge \in 1..(Bins - 1) : edge <= score}
           M == {score, Bins - 1}
<1>1. BinOf(score) = Cardinality(E) /\ UniformBin(score) = Min(M)
  BY DEF BinOf, UniformBin
<1>2. M \subseteq Nat /\ M # {} /\ \A m : m \in M <=> m = score \/ m = 1
  BY DEF Bins
<1>3. \A e : e \in E <=> e = 1 /\ 1 <= score
  BY DEF Bins
<1> HIDE DEF E, M
<1>4. Min(M) \in M /\ \A m \in M : Min(M) <= m
  BY <1>2, MinIsLeast
<1>5. CASE score = 0
  <2>1. E = {}
    BY <1>3, <1>5
  <2>2. Cardinality(E) = 0
    BY <2>1, FS_EmptySet
  <2>3. Min(M) = 0
    BY <1>2, <1>4, <1>5
  <2> QED
    BY <1>1, <2>2, <2>3
<1>6. CASE score # 0
  <2>1. E = {1}
    BY <1>3, <1>6
  <2>2. Cardinality(E) = 1
    BY <2>1, FS_Singleton
  <2>3. Min(M) = 1
    BY <1>2, <1>4, <1>6
  <2> QED
    BY <1>1, <2>2, <2>3
<1> QED
  BY <1>5, <1>6

\* The two calibration errors are one.
LEMMA CalibrationsAgree ==
  ASSUME NEW sample \in Samples
  PROVE  ExpectedCalibrationError(sample) = EvaluateCalibration(sample)
<1>1. \A i \in DOMAIN sample : sample[i].score \in Nat
  <2> DEFINE R == [label : {0, 1}, score : Nat]
  <2>1. sample \in Seq(R)
    BY SelectionAssumption
  <2>2. \A i \in DOMAIN sample : sample[i] \in R
    <3> HIDE DEF R
    <3> QED
      BY <2>1
  <2> QED
    BY <2>2
<1>2. \A i \in DOMAIN sample : BinOf(sample[i].score) = UniformBin(sample[i].score)
  BY <1>1, BinsAgree
<1>3. [i \in DOMAIN sample |-> BinOf(sample[i].score)]
        = [i \in DOMAIN sample |-> UniformBin(sample[i].score)]
  BY <1>2
<1> QED
  BY <1>3 DEF ExpectedCalibrationError, EvaluateCalibration

-----------------------------------------------------------------------------
(* LaneASelection: the choice among models *)

\* The models with a result are better than those without, rounded or not.
LEMMA BoardFacts ==
  ASSUME NEW board \in Boards
  PROVE  /\ Len(board) \in Nat \ {0} /\ DOMAIN board = 1..Len(board)
         /\ Scored(board) # {} /\ Scored(board) \subseteq 1..Len(board)
         /\ \A i \in 1..Len(board) :
              /\ board[i].ap \in Nat \cup {NoScore} /\ board[i].above \in BOOLEAN
              /\ i \in Scored(board) <=> board[i].ap # NoScore
<1> DEFINE R == [ap : Nat \cup {NoScore}, above : BOOLEAN]
<1>1. board \in Seq(R) /\ Scored(board) # {}
  BY BoardAssumption
<1>2. Len(board) \in Nat /\ DOMAIN board = 1..Len(board) /\ \A i \in 1..Len(board) : board[i] \in R
  <2> HIDE DEF R
  <2> QED
    BY <1>1
<1>3. \A i \in 1..Len(board) : board[i].ap \in Nat \cup {NoScore} /\ board[i].above \in BOOLEAN
  BY <1>2
<1>4. Scored(board) \subseteq 1..Len(board)
        /\ \A i \in 1..Len(board) : i \in Scored(board) <=> board[i].ap # NoScore
  BY <1>2 DEF Scored
<1>5. Len(board) # 0
  BY <1>1, <1>4
<1> QED
  BY <1>1, <1>2, <1>3, <1>4, <1>5

\* Rounding keeps the order, and moves what is compared by less than its unit.
LEMMA RoundingKeepsOrder ==
  ASSUME NEW a \in Nat \cup {NoScore}, NEW b \in Nat \cup {NoScore}
  PROVE  /\ Rounded(a) \in Int /\ Rounded(a) >= -1
         /\ Rounded(a) = -1 <=> a = NoScore
         /\ Rounded(a) <= Rounded(b) => a - b < 10
         /\ a <= b => Rounded(a) <= Rounded(b)
<1>1. CASE a \in Nat /\ b \in Nat
  <2>1. Rounded(a) = (a + 5) \div 10 /\ Rounded(b) = (b + 5) \div 10
    BY <1>1 DEF Rounded, NoScore
  <2>2. /\ (a + 5) \div 10 \in Nat
        /\ (a + 5) \div 10 <= (b + 5) \div 10 => a - b < 10
        /\ a <= b => (a + 5) \div 10 <= (b + 5) \div 10
    BY <1>1
  <2> QED
    BY <1>1, <2>1, <2>2 DEF NoScore
<1>2. CASE a = NoScore /\ b \in Nat
  <2>1. Rounded(a) = -1 /\ Rounded(b) = (b + 5) \div 10
    BY <1>2 DEF Rounded, NoScore
  <2> QED
    BY <1>2, <2>1 DEF NoScore
<1>3. CASE a \in Nat /\ b = NoScore
  <2>1. Rounded(b) = -1 /\ Rounded(a) = (a + 5) \div 10
    BY <1>3 DEF Rounded, NoScore
  <2> QED
    BY <1>3, <2>1 DEF NoScore
<1>4. CASE a = NoScore /\ b = NoScore
  BY <1>4 DEF Rounded, NoScore
<1> QED
  BY <1>1, <1>2, <1>3, <1>4

\* The table has every model once, and the best of the rounded ones first.
LEMMA TableFacts ==
  ASSUME NEW board \in Boards
  PROVE  LET n == Len(board)
             table == ComparisonTable(board)
         IN  /\ DOMAIN table = 1..n /\ table[1] \in 1..n
             /\ \A i \in 1..n : \E k \in 1..n : table[k] = i
             /\ \A k \in 1..n : table[k] \in 1..n
             /\ \A i \in 1..n : Rounded(board[i].ap) <= Rounded(board[table[1]].ap)
<1> DEFINE n == Len(board)
           table == ComparisonTable(board)
           R == {p \in (1..n) \X (1..n) : ListedBefore(board, p[1], p[2])}
           rank == RanksBy(R, n)
           mark(i) == Rounded(board[i].ap)
<1>1. n \in Nat \ {0} /\ DOMAIN board = 1..n
  BY BoardFacts
<1>2. \A i \in 1..n : mark(i) \in Int
  BY BoardFacts, RoundingKeepsOrder
<1> HIDE DEF n, mark
<1>3. \A i, j \in 1..n : <<i, j>> \in R <=> ListedBefore(board, i, j)
  OBVIOUS
<1>4. \A i, j : ListedBefore(board, i, j)
                <=> (mark(i) > mark(j) \/ (mark(i) = mark(j) /\ i < j))
  BY DEF ListedBefore, mark
<1> HIDE DEF R
<1>5. Orders(R, 1..n)
  BY <1>1, <1>2, <1>3, <1>4, SMTT(30) DEF Orders
<1>6. table = InOrder(rank)
  <2>1. \A i \in 1..n : Earlier(R, 1..n, i) = {j \in 1..n : ListedBefore(board, j, i)}
    BY <1>3 DEF Earlier
  <2>2. rank = [i \in 1..n |-> 1 + Cardinality({j \in 1..n : ListedBefore(board, j, i)})]
    BY <2>1 DEF RanksBy
  <2> QED
    BY <1>1, <2>2 DEF ComparisonTable
<1>7. /\ rank \in [1..n -> 1..n]
      /\ \A i, j \in 1..n : rank[i] = rank[j] => i = j
      /\ \A i, j \in 1..n : <<i, j>> \in R => rank[i] < rank[j]
      /\ \A k \in 1..n : \E i \in 1..n : rank[i] = k
  BY <1>1, <1>5, RanksNumberMembers, Zenon
<1> HIDE DEF rank, table
<1>8. /\ table \in [1..n -> 1..n]
      /\ \A k \in 1..n : rank[table[k]] = k
      /\ \A i \in 1..n : table[rank[i]] = i
  BY <1>1, <1>6, <1>7, InOrderInverts
<1>9. 1 \in 1..n
  BY <1>1
<1>10. ASSUME NEW i \in 1..n PROVE mark(i) <= mark(table[1])
  <2> DEFINE first == table[1]
  <2>1. first \in 1..n /\ rank[first] = 1 /\ rank[i] \in 1..n
    BY <1>7, <1>8, <1>9
  <2> HIDE DEF first
  <2>2. ~(rank[i] < rank[first])
    BY <1>1, <2>1
  <2>3. <<i, first>> \notin R
    BY <1>7, <2>1, <2>2
  <2>4. mark(i) \in Int /\ mark(first) \in Int
    BY <1>2, <2>1
  <2>5. ~(mark(i) > mark(first))
    BY <1>3, <1>4, <2>1, <2>3
  <2> QED
    BY <2>4, <2>5 DEF first
<1>11. \A i \in 1..n : \E k \in 1..n : table[k] = i
  BY <1>7, <1>8
<1> QED
  BY <1>8, <1>9, <1>10, <1>11 DEF n, table, mark

\* The champion is the first row of the table.
LEMMA ChampionIsFirst ==
  ASSUME NEW board \in Boards
  PROVE  /\ ChampionModel(board) = ComparisonTable(board)[1]
         /\ ChampionModel(board) \in Scored(board)
<1> DEFINE n == Len(board)
           table == ComparisonTable(board)
           first == table[1]
           mark(i) == Rounded(board[i].ap)
           valid == {k \in DOMAIN table : table[k] \in Scored(board)}
           top == {k \in valid : \A l \in valid : mark(table[k]) >= mark(table[l])}
<1>1. /\ n \in Nat \ {0} /\ Scored(board) # {} /\ Scored(board) \subseteq 1..n
      /\ \A i \in 1..n : board[i].ap \in Nat \cup {NoScore}
      /\ \A i \in 1..n : i \in Scored(board) <=> board[i].ap # NoScore
  BY BoardFacts
<1>2. /\ DOMAIN table = 1..n /\ first \in 1..n
      /\ \A k \in 1..n : table[k] \in 1..n
      /\ \A i \in 1..n : mark(i) <= mark(first)
  BY TableFacts
<1>3. ChampionModel(board) = table[Min(top)]
  BY DEF ChampionModel
<1> HIDE DEF n, table
<1>4. \A i \in 1..n : mark(i) \in Int /\ mark(i) >= -1 /\ (mark(i) = -1 <=> i \notin Scored(board))
  BY <1>1, RoundingKeepsOrder
<1> HIDE DEF mark, first
<1>5. first \in Scored(board)
  <2>1. PICK i \in Scored(board) : TRUE
    BY <1>1
  <2>2. mark(i) \in Int /\ mark(i) >= -1 /\ mark(i) # -1 /\ mark(i) <= mark(first)
    BY <1>1, <1>2, <1>4, <2>1
  <2>3. mark(first) \in Int
    BY <1>2, <1>4
  <2>4. mark(first) # -1
    BY <2>2, <2>3
  <2> QED
    BY <1>2, <1>4, <2>4
<1>6. 1 \in valid /\ valid \subseteq 1..n
  BY <1>1, <1>2, <1>5 DEF first
<1>7. \A l \in valid : table[l] \in 1..n
  BY <1>2, <1>6
<1>8. \A l \in valid : mark(table[1]) >= mark(table[l])
  <2> TAKE l \in valid
  <2>1. mark(table[l]) <= mark(first)
    BY <1>2, <1>7
  <2>2. mark(table[l]) \in Int /\ mark(first) \in Int
    BY <1>2, <1>4, <1>7
  <2> QED
    BY <2>1, <2>2 DEF first
<1>9. 1 \in top /\ top \subseteq 1..n
  BY <1>6, <1>8
<1> HIDE DEF valid, top
<1>10. top \subseteq Nat /\ top # {}
  BY <1>1, <1>9
<1>11. Min(top) \in top /\ Min(top) <= 1
  BY <1>9, <1>10, MinIsLeast
<1>12. Min(top) = 1
  <2>1. Min(top) \in 1..n
    BY <1>9, <1>11
  <2> QED
    BY <1>1, <1>11, <2>1
<1> QED
  BY <1>3, <1>5, <1>12 DEF first, table

\* The least of several best ones.
LEMMA FirstBest ==
  ASSUME NEW n \in Nat, NEW S, S \subseteq 1..n, S # {}, NEW v, \A i \in S : v[i] \in Int
  PROVE  LET best == Min({i \in S : \A j \in S : v[i] >= v[j]}) IN
         /\ best \in S
         /\ \A i \in S : v[i] <= v[best] /\ (v[i] = v[best] => best <= i)
<1> DEFINE top == {i \in S : \A j \in S : v[i] >= v[j]}
           T == {u \in SUBSET S : u # {} => \E i \in u : \A j \in u : v[i] >= v[j]}
<1>1. IsFiniteSet(S)
  <2> DEFINE I == 1..n
  <2>1. IsFiniteSet(I) /\ S \subseteq I
    BY IntervalIsFinite
  <2> HIDE DEF I
  <2> QED
    BY <2>1, FS_Subset
<1>2. ASSUME NEW u \in SUBSET S, u # {}, \A x \in u : u \ {x} \in T
      PROVE  u \in T
  <2>1. PICK x \in u : TRUE
    BY <1>2
  <2>2. CASE u \ {x} = {}
    BY <2>1, <2>2
  <2>3. CASE u \ {x} # {}
    <3>1. u \ {x} \in T
      BY <1>2, <2>1
    <3>2. PICK i \in u \ {x} : \A j \in u \ {x} : v[i] >= v[j]
      BY <2>3, <3>1
    <3>3. v[x] \in Int /\ \A j \in u : v[j] \in Int
      BY <2>1
    <3>4. CASE v[i] >= v[x]
      <4>1. \A j \in u : v[i] >= v[j]
        BY <3>2, <3>4
      <4> QED
        BY <3>2, <4>1
    <3>5. CASE ~(v[i] >= v[x])
      <4>1. \A j \in u : v[x] >= v[j]
        BY <3>2, <3>3, <3>5
      <4> QED
        BY <2>1, <4>1
    <3> QED
      BY <3>4, <3>5
  <2> QED
    BY <2>2, <2>3
<1>3. {} \in T
  OBVIOUS
<1> HIDE DEF T
<1>4. S \in T
  <2>1. \A s \in SUBSET S : s \in T
    BY <1>1, <1>2, <1>3, SubsetInduction, Zenon
  <2> QED
    BY <2>1
<1>5. \E i \in S : \A j \in S : v[i] >= v[j]
  BY <1>4 DEF T
<1>6. top # {} /\ top \subseteq Nat
  <2>1. S \subseteq Nat
    OBVIOUS
  <2> QED
    BY <1>5, <2>1
<1> DEFINE best == Min(top)
<1>7. \A i : i \in top <=> i \in S /\ \A j \in S : v[i] >= v[j]
  OBVIOUS
<1> HIDE DEF top
<1>8. best \in top /\ \A i \in top : best <= i
  BY <1>6, MinIsLeast
<1> HIDE DEF best
<1>9. best \in S /\ \A i \in S : v[i] <= v[best]
  BY <1>7, <1>8
<1>10. ASSUME NEW i \in S, v[i] = v[best] PROVE best <= i
  <2>1. i \in top
    BY <1>7, <1>8, <1>10
  <2> QED
    BY <1>8, <2>1
<1> QED
  BY <1>9, <1>10 DEF best, top

\* What the two choices of Lane A say of a board.
LEMMA BestModels ==
  ASSUME NEW board \in Boards
  PROVE  LET best   == SelectChampion(board)
             chosen == ChosenVariant(board)
         IN  /\ best \in Scored(board)
             /\ \A i \in Scored(board) :
                  board[i].ap <= board[best].ap /\ (board[i].ap = board[best].ap => best <= i)
             /\ \/ chosen = 1 /\ \A i \in 1..Len(board) : ~PassesGates(board, i)
                \/ /\ PassesGates(board, chosen) /\ chosen \in 1..Len(board)
                   /\ \A i \in 1..Len(board) : PassesGates(board, i) =>
                        board[i].ap <= board[chosen].ap
                          /\ (board[i].ap = board[chosen].ap => chosen <= i)
<1> DEFINE n == Len(board)
           v == [i \in 1..n |-> board[i].ap]
           S == Scored(board)
           E == {i \in DOMAIN board : PassesGates(board, i)}
           best == SelectChampion(board)
           chosen == ChosenVariant(board)
<1>1. /\ n \in Nat \ {0} /\ DOMAIN board = 1..n /\ S # {} /\ S \subseteq 1..n
      /\ \A i \in 1..n : board[i].ap \in Nat \cup {NoScore}
  BY BoardFacts
<1>2. \A i \in 1..n : v[i] \in Int /\ v[i] = board[i].ap
  BY <1>1 DEF NoScore
<1>3. best = Min({i \in S : \A j \in S : v[i] >= v[j]})
  <2>1. {i \in S : \A j \in S : v[i] >= v[j]} = {i \in S : \A j \in S : board[i].ap >= board[j].ap}
    BY <1>1, <1>2
  <2> QED
    BY <2>1 DEF SelectChampion
<1>4. /\ E = {} => chosen = 1
      /\ E # {} => chosen = Min({i \in E : \A j \in E : v[i] >= v[j]})
  <2>1. E \subseteq 1..n
    BY <1>1
  <2>2. {i \in E : \A j \in E : v[i] >= v[j]} = {i \in E : \A j \in E : board[i].ap >= board[j].ap}
    BY <1>2, <2>1
  <2> QED
    BY <2>2 DEF ChosenVariant
<1>5. \A i : i \in E <=> i \in 1..n /\ PassesGates(board, i)
  BY <1>1
<1> HIDE DEF n, v, S, E, best, chosen
<1>6. /\ best \in S
      /\ \A i \in S : v[i] <= v[best] /\ (v[i] = v[best] => best <= i)
  <2>1. n \in Nat /\ S \subseteq 1..n /\ S # {} /\ \A i \in S : v[i] \in Int
    BY <1>1, <1>2
  <2>2. LET b == Min({i \in S : \A j \in S : v[i] >= v[j]}) IN
        b \in S /\ \A i \in S : v[i] <= v[b] /\ (v[i] = v[b] => b <= i)
    BY <2>1, FirstBest, Zenon
  <2> QED
    BY <1>3, <2>2
<1>7. ASSUME E # {}
      PROVE  /\ chosen \in E
             /\ \A i \in E : v[i] <= v[chosen] /\ (v[i] = v[chosen] => chosen <= i)
  <2>1. n \in Nat /\ E \subseteq 1..n /\ \A i \in E : v[i] \in Int
    BY <1>1, <1>2, <1>5
  <2>2. LET b == Min({i \in E : \A j \in E : v[i] >= v[j]}) IN
        b \in E /\ \A i \in E : v[i] <= v[b] /\ (v[i] = v[b] => b <= i)
    BY <1>7, <2>1, FirstBest, Zenon
  <2> QED
    BY <1>4, <1>7, <2>2
<1>8. \A i \in S : board[i].ap <= board[best].ap /\ (board[i].ap = board[best].ap => best <= i)
  BY <1>1, <1>2, <1>6
<1>9. CASE E = {}
  BY <1>4, <1>5, <1>6, <1>8, <1>9 DEF n, S, best, chosen
<1>10. CASE E # {}
  <2>1. PassesGates(board, chosen) /\ chosen \in 1..n
    BY <1>5, <1>7, <1>10
  <2>2. \A i \in 1..n : PassesGates(board, i) =>
          board[i].ap <= board[chosen].ap /\ (board[i].ap = board[chosen].ap => chosen <= i)
    BY <1>2, <1>5, <1>7, <1>10, <2>1
  <2> QED
    BY <1>6, <1>8, <2>1, <2>2 DEF n, S, best, chosen
<1> QED
  BY <1>9, <1>10

\* The choices stand beside one another.
LEMMA WinnersAlwaysStand ==
  ASSUME NEW board \in Boards
  PROVE  WinnersStand(board)
<1> DEFINE n == Len(board)
           S == Scored(board)
           champion == ChampionModel(board)
           best == SelectChampion(board)
           chosen == ChosenVariant(board)
           ap(i) == board[i].ap
           mark(i) == Rounded(board[i].ap)
           passes(i) == PassesGates(board, i)
<1>1. /\ n \in Nat \ {0} /\ S # {} /\ S \subseteq 1..n
      /\ \A i \in 1..n : ap(i) \in Nat \cup {NoScore} /\ (i \in S <=> ap(i) # NoScore)
  BY BoardFacts
<1>2. /\ champion = ComparisonTable(board)[1] /\ champion \in S
      /\ \A i \in 1..n : mark(i) <= mark(champion)
  BY ChampionIsFirst, TableFacts
<1>3. /\ best \in S
      /\ \A i \in S : ap(i) <= ap(best) /\ (ap(i) = ap(best) => best <= i)
      /\ \/ chosen = 1 /\ \A i \in 1..n : ~passes(i)
         \/ /\ passes(chosen) /\ chosen \in 1..n
            /\ \A i \in 1..n : passes(i) =>
                 ap(i) <= ap(chosen) /\ (ap(i) = ap(chosen) => chosen <= i)
  BY BestModels
<1>4. \A i : passes(i) <=> i # 1 /\ i \in S /\ ap(i) - ap(1) >= 1000 /\ board[i].above
  BY DEF PassesGates
<1>5. \A i, j \in 1..n : /\ mark(i) \in Int
                         /\ mark(i) <= mark(j) => ap(i) - ap(j) < 10
  BY <1>1, RoundingKeepsOrder
<1>6. WinnersStand(board) <=>
        /\ champion = ComparisonTable(board)[1]
        /\ \A i \in S : ap(i) - ap(champion) < 10
        /\ (\A i \in S \ {best} : mark(i) < mark(best)) => champion = best
        /\ ap(1) # NoScore =>
             /\ chosen # best => (ap(best) - ap(chosen) < 1000 \/ ~board[best].above)
             /\ \A i \in 1..(chosen - 1) : passes(i) => ap(i) < ap(chosen)
  BY DEF WinnersStand
<1> HIDE DEF n, S, champion, best, chosen, ap, mark, passes
<1>7. \A i \in S : ap(i) - ap(champion) < 10
  BY <1>1, <1>2, <1>5
<1>8. ASSUME \A i \in S \ {best} : mark(i) < mark(best) PROVE champion = best
  <2>1. mark(best) <= mark(champion) /\ mark(best) \in Int /\ mark(champion) \in Int
    BY <1>1, <1>2, <1>3, <1>5
  <2>2. ~(mark(champion) < mark(best))
    BY <2>1
  <2> QED
    BY <1>2, <1>8, <2>2
<1>9. \A i \in 1..n : ap(i) \in Int
  BY <1>1 DEF NoScore
<1>10. ASSUME ap(1) # NoScore, chosen # best
       PROVE  ap(best) - ap(chosen) < 1000 \/ ~board[best].above
  <2>1. 1 \in 1..n /\ best \in 1..n /\ ap(1) \in Int /\ ap(best) \in Int
    BY <1>1, <1>3, <1>9
  <2>2. CASE chosen = 1 /\ \A i \in 1..n : ~passes(i)
    <3>1. ~passes(best) /\ best # 1
      BY <1>10, <2>1, <2>2
    <3>2. ~(ap(best) - ap(1) >= 1000) \/ ~board[best].above
      BY <1>3, <1>4, <3>1
    <3> QED
      BY <2>1, <2>2, <3>2
  <2>3. CASE /\ passes(chosen) /\ chosen \in 1..n
             /\ \A i \in 1..n : passes(i) =>
                  ap(i) <= ap(chosen) /\ (ap(i) = ap(chosen) => chosen <= i)
    <3>1. chosen \in S /\ ap(chosen) - ap(1) >= 1000 /\ ap(chosen) \in Int
      BY <1>4, <1>9, <2>3
    <3>2. ap(chosen) <= ap(best) /\ (ap(chosen) = ap(best) => best <= chosen)
      BY <1>3, <3>1
    <3>3. CASE passes(best)
      <4>1. ap(best) <= ap(chosen) /\ (ap(best) = ap(chosen) => chosen <= best)
        BY <2>1, <2>3, <3>3
      <4>2. ap(best) = ap(chosen)
        BY <2>1, <3>1, <3>2, <4>1
      <4>3. best <= chosen /\ chosen <= best /\ best \in Int /\ chosen \in Int
        BY <2>1, <2>3, <3>2, <4>1, <4>2
      <4> QED
        BY <1>10, <4>3
    <3>4. CASE ~passes(best)
      <4>1. best # 1
        BY <2>1, <3>1, <3>2
      <4>2. ~(ap(best) - ap(1) >= 1000) \/ ~board[best].above
        BY <1>3, <1>4, <3>4, <4>1
      <4> QED
        BY <2>1, <3>1, <4>2
    <3> QED
      BY <3>3, <3>4
  <2> QED
    BY <1>3, <2>2, <2>3
<1>11. ASSUME NEW i \in 1..(chosen - 1), passes(i) PROVE ap(i) < ap(chosen)
  <2>1. CASE chosen = 1 /\ \A k \in 1..n : ~passes(k)
    BY <2>1
  <2>2. CASE /\ passes(chosen) /\ chosen \in 1..n
             /\ \A k \in 1..n : passes(k) =>
                  ap(k) <= ap(chosen) /\ (ap(k) = ap(chosen) => chosen <= k)
    <3>1. i \in 1..n /\ ~(chosen <= i)
      BY <1>1, <2>2
    <3>2. ap(i) <= ap(chosen) /\ ap(i) # ap(chosen)
      BY <1>11, <2>2, <3>1
    <3>3. ap(i) \in Int /\ ap(chosen) \in Int
      BY <1>9, <2>2, <3>1
    <3> QED
      BY <3>2, <3>3
  <2> QED
    BY <1>3, <2>1, <2>2
<1> QED
  BY <1>2, <1>6, <1>7, <1>8, <1>10, <1>11

\* A lower threshold marks the rows of a higher one, and as many more.
LEMMA MarkedRowsNest ==
  ASSUME NEW sample \in Samples, NEW s \in Int, NEW t \in Int, s <= t
  PROVE  LET low  == ThresholdRow(sample, s)
             high == ThresholdRow(sample, t)
         IN  /\ high.tp <= low.tp /\ high.volume <= low.volume
             /\ high.volume = low.volume => Predicted(sample, s) = Predicted(sample, t)
<1> DEFINE S == DOMAIN sample
           A == Predicted(sample, s)
           B == Predicted(sample, t)
           P == Positives(sample)
           H == A \cap P
           G == B \cap P
<1>1. IsFiniteSet(S) /\ \A i \in S : sample[i].score \in Int
  BY SamplesHaveScores DEF Scores
<1>2. A \subseteq S /\ B \subseteq A
  BY <1>1 DEF Predicted
<1>3. /\ ThresholdRow(sample, s).tp = Cardinality(H) /\ ThresholdRow(sample, s).volume = Cardinality(A)
      /\ ThresholdRow(sample, t).tp = Cardinality(G) /\ ThresholdRow(sample, t).volume = Cardinality(B)
  BY DEF ThresholdRow
<1>4. IsFiniteSet(A) /\ H \subseteq A /\ G \subseteq H
  <2>1. IsFiniteSet(A)
    BY <1>1, <1>2, FS_Subset
  <2> QED
    BY <1>2, <2>1
<1>h. IsFiniteSet(H)
  <2> HIDE DEF A, H
  <2> QED
    BY <1>4, FS_Subset
<1> HIDE DEF A, B, H, G
<1>5. Cardinality(G) <= Cardinality(H)
  BY <1>4, <1>h, FS_Subset
<1>6. Cardinality(B) <= Cardinality(A) /\ (Cardinality(B) = Cardinality(A) => A = B)
  BY <1>2, <1>4, FS_Subset
<1> QED
  BY <1>3, <1>5, <1>6 DEF A, B

\* The lowest row is the one of the lowest threshold, whatever rows there are.
LEMMA LowestIs ==
  ASSUME NEW sample, NEW M, M \subseteq {ThresholdRow(sample, t) : t \in Thresholds},
         NEW u \in M, \A s \in M : u.threshold <= s.threshold
  PROVE  Lowest(M) = u
<1>1. Thresholds \subseteq Int
  BY SelectionAssumption
<1>2. \A x \in M : x.threshold \in Int /\ x = ThresholdRow(sample, x.threshold)
  <2> TAKE x \in M
  <2>1. PICK t \in Thresholds : x = ThresholdRow(sample, t)
    OBVIOUS
  <2>2. x.threshold = t
    BY <2>1 DEF ThresholdRow
  <2> QED
    BY <1>1, <2>1, <2>2
<1> DEFINE lowest == Lowest(M)
<1>3. lowest = CHOOSE r \in M : \A s \in M : r.threshold <= s.threshold
  BY DEF Lowest
<1>4. lowest \in M /\ \A s \in M : lowest.threshold <= s.threshold
  BY <1>3
<1> HIDE DEF lowest
<1>5. lowest.threshold <= u.threshold /\ u.threshold <= lowest.threshold
        /\ lowest.threshold \in Int /\ u.threshold \in Int
  BY <1>2, <1>4
<1>6. lowest.threshold = u.threshold
  BY <1>5
<1>7. lowest = ThresholdRow(sample, lowest.threshold) /\ u = ThresholdRow(sample, u.threshold)
  BY <1>2, <1>4
<1> QED
  BY <1>6, <1>7 DEF lowest

\* A finite set of numbers has a greatest.
LEMMA GreatestNumber ==
  ASSUME NEW S, S \subseteq Int, IsFiniteSet(S), S # {}
  PROVE  \E m \in S : \A n \in S : m >= n
<1> DEFINE T == {u \in SUBSET S : u # {} => \E m \in u : \A n \in u : m >= n}
<1>1. {} \in T
  OBVIOUS
<1>2. ASSUME NEW u \in SUBSET S, u # {}, \A x \in u : u \ {x} \in T
      PROVE  u \in T
  <2>1. PICK x \in u : TRUE
    BY <1>2
  <2>2. CASE u \ {x} = {}
    BY <2>1, <2>2
  <2>3. CASE u \ {x} # {}
    <3>1. u \ {x} \in T
      BY <1>2, <2>1
    <3>2. PICK m \in u \ {x} : \A n \in u \ {x} : m >= n
      BY <2>3, <3>1
    <3>3. x \in Int /\ m \in Int /\ \A n \in u : n \in Int
      BY <2>1, <3>2
    <3>4. CASE m >= x
      BY <3>2, <3>4
    <3>5. CASE x > m
      <4>1. \A n \in u : x >= n
        BY <3>2, <3>3, <3>5
      <4> QED
        BY <2>1, <4>1
    <3> QED
      BY <3>3, <3>4, <3>5
  <2> QED
    BY <2>2, <2>3
<1> HIDE DEF T
<1>3. \A s \in SUBSET S : s \in T
  BY <1>1, <1>2, SubsetInduction, Zenon
<1> QED
  BY <1>3 DEF T

\* The row of a threshold among those that reach the recall, as Lane A prefers them.
BestReaching(sample, t) ==
  /\ t \in Thresholds /\ ThresholdRow(sample, t).meetsRecall
  /\ \A s \in Thresholds : ThresholdRow(sample, s).meetsRecall =>
       Preferred(ThresholdRow(sample, t), ThresholdRow(sample, s))

\* Without a capacity Lane A takes the best of those rows.
LEMMA UncappedChoice ==
  ASSUME NEW sample \in Samples, Positives(sample) # {},
         NEW e \in Thresholds, ThresholdRow(sample, e).meetsRecall
  PROVE  \E t \in Thresholds :
           /\ BestReaching(sample, t)
           /\ SelectThreshold(sample, Len(sample)).row = ThresholdRow(sample, t)
<1> DEFINE row(t) == ThresholdRow(sample, t)
           n == Len(sample)
           rows == {row(t) : t \in Thresholds}
           meeting == {r \in rows : r.meetsRecall}
           feasible == {r \in meeting : r.volume <= n}
           choice == SelectThreshold(sample, n)
<1>1. n \in Nat /\ IsFiniteSet(DOMAIN sample) /\ Cardinality(DOMAIN sample) = n
  BY SamplesHaveScores DEF Scores
<1>2. \A t \in Thresholds : row(t).volume <= n
  <2> TAKE t \in Thresholds
  <2> DEFINE A == Predicted(sample, t)
  <2>1. row(t).volume = Cardinality(A) /\ A \subseteq DOMAIN sample
    BY DEF ThresholdRow, Predicted
  <2> HIDE DEF A, row, n
  <2> QED
    BY <1>1, <2>1, FS_Subset
<1>3. feasible # {} => choice.selected
  BY DEF SelectThreshold
<1>4. row(e) \in feasible
  BY <1>2
<1>5. choice.selected =>
        \E t \in Thresholds :
          /\ choice.row = row(t) /\ row(t).meetsRecall /\ row(t).volume <= n
          /\ \A s \in Thresholds : row(s).meetsRecall /\ row(s).volume <= n =>
               Preferred(row(t), row(s))
  BY <1>1, ChoiceFacts
<1> HIDE DEF row, choice, feasible
<1>6. PICK t \in Thresholds :
        /\ choice.row = row(t) /\ row(t).meetsRecall
        /\ \A s \in Thresholds : row(s).meetsRecall /\ row(s).volume <= n =>
             Preferred(row(t), row(s))
  BY <1>3, <1>4, <1>5
<1>7. BestReaching(sample, t)
  BY <1>2, <1>6 DEF BestReaching, row
<1> QED
  BY <1>6, <1>7 DEF row, choice

\* A row that the best one is no more precise than, and that finds as much, has its
\* volume and at least its threshold.
LEMMA AsGoodAsBest ==
  ASSUME NEW u, NEW x, IsRow(u), IsRow(x), Preferred(u, x),
         x.tp * u.volume >= u.tp * x.volume, x.tp >= u.tp, u.tp > 0
  PROVE  x.tp = u.tp /\ x.volume = u.volume /\ u.threshold <= x.threshold
<1> DEFINE a == u.tp
           v == u.volume
           b == x.tp
           w == x.volume
<1>1. /\ a \in Nat /\ v \in Nat \ {0} /\ b \in Nat /\ w \in Nat \ {0} /\ a > 0
      /\ u.threshold \in Int /\ x.threshold \in Int
  BY DEF IsRow
<1>2. \/ a * w > b * v
      \/ a * w = b * v /\ (a > b \/ (a = b /\ u.threshold <= x.threshold))
  BY DEF Preferred
<1>3. b * v >= a * w /\ b >= a
  OBVIOUS
<1> HIDE DEF a, b, v, w
<1>4. a * w \in Nat /\ b * v \in Nat
  BY <1>1
<1>5. a * w = b * v /\ a = b /\ u.threshold <= x.threshold
  BY <1>1, <1>2, <1>3, <1>4
<1>6. a * w = a * v
  BY <1>5
<1>7. w = v
  BY <1>1, <1>6
<1> QED
  BY <1>5, <1>7 DEF a, b, v, w

\* More frauds found with no more false alerts: no less precise.
LEMMA FewerAlarms ==
  ASSUME NEW a \in Nat, NEW v \in Nat, NEW b \in Nat, NEW w \in Nat, b >= a, w - b <= v - a, b <= w
  PROVE  b * v >= a * w
<1> DEFINE p == v - a
           q == w - b
<1>1. p \in Nat /\ q \in Nat /\ q <= p /\ v = a + p /\ w = b + q
  OBVIOUS
<1> HIDE DEF p, q
<1>2. b * p >= a * p /\ a * p >= a * q
  BY <1>1
<1>3. b * v = b * a + b * p /\ a * w = a * b + a * q /\ b * a = a * b
  BY <1>1
<1>4. b * p \in Nat /\ a * p \in Nat /\ a * q \in Nat /\ a * b \in Nat
  BY <1>1
<1> QED
  BY <1>2, <1>3, <1>4

\* The facts on the rows of a sample that the rules of the reference stages need.
LEMMA TuningRows ==
  ASSUME NEW sample \in Samples, Positives(sample) # {}
  PROVE  \A t \in Thresholds :
           LET row == ThresholdRow(sample, t) IN
           /\ t \in Int /\ row.threshold = t /\ row.tp \in Nat /\ row.volume \in Nat
           /\ row.tp <= row.volume /\ FalseAlerts(row) = row.volume - row.tp
           /\ row.meetsRecall => row.tp > 0 /\ IsRow(row)
           /\ row.meetsRecall <=> 10 * row.tp >= 8 * Cardinality(Positives(sample))
           /\ Max({row.volume, 1}) = IF row.volume = 0 THEN 1 ELSE row.volume
<1> TAKE t \in Thresholds
<1> DEFINE row == ThresholdRow(sample, t)
<1>1. t \in Int
  BY SelectionAssumption
<1>2. /\ row.threshold = t /\ row.tp \in Nat /\ row.volume \in Nat /\ row.tp <= row.volume
      /\ row.meetsRecall => row.tp > 0
  BY <1>1, MarkingReaches
<1>3. row.meetsRecall <=> 10 * row.tp >= 8 * Cardinality(Positives(sample))
  BY DEF ThresholdRow
<1> HIDE DEF row
<1>4. FalseAlerts(row) = row.volume - row.tp
  BY DEF FalseAlerts
<1>5. row.meetsRecall => IsRow(row)
  BY <1>1, <1>2 DEF IsRow
<1>6. Max({row.volume, 1}) = IF row.volume = 0 THEN 1 ELSE row.volume
  <2> DEFINE v == row.volume
             M == {v, 1}
  <2>1. v \in Nat
    BY <1>2
  <2>2. \A m : m \in M <=> m = v \/ m = 1
    OBVIOUS
  <2>3. Max(M) = CHOOSE x \in M : \A y \in M : x >= y
    BY DEF Max
  <2> HIDE DEF v, M
  <2>4. \E x \in M : \A y \in M : x >= y
    <3>1. CASE v = 0
      BY <2>2, <3>1
    <3>2. CASE v # 0
      BY <2>1, <2>2, <3>2
    <3> QED
      BY <3>1, <3>2
  <2>5. Max(M) \in M /\ \A y \in M : Max(M) >= y
    BY <2>3, <2>4
  <2>6. Max(M) = IF v = 0 THEN 1 ELSE v
    BY <2>1, <2>2, <2>5
  <2> QED
    BY <2>6 DEF M, v
<1> QED
  BY <1>1, <1>2, <1>3, <1>4, <1>5, <1>6 DEF row

\* The highest precision among those that reach the recall: the preferred row.
LEMMA RecallTargetIsBest ==
  ASSUME NEW sample \in Samples, Positives(sample) # {}, NEW r \in RecallTarget(sample)
  PROVE  \E t \in Thresholds :
           /\ BestReaching(sample, t) /\ r = ThresholdRow(sample, t)
           /\ SelectThreshold(sample, Len(sample)).row = r
<1> DEFINE row(t) == ThresholdRow(sample, t)
           table == TuningTable(sample)
           eligible == {x \in table : x.meetsRecall}
           M == {x \in eligible : \A s \in eligible : AsPrecise(x, s)}
<1>1. /\ r = Lowest(M)
      /\ \E e \in eligible : TRUE
  BY DEF RecallTarget
<1>2. \A x : x \in eligible <=> \E t \in Thresholds : x = row(t) /\ row(t).meetsRecall
  BY DEF TuningTable
<1>3. M \subseteq {row(t) : t \in Thresholds}
  BY <1>2
<1> HIDE DEF eligible, table
<1>4. PICK e \in Thresholds : row(e).meetsRecall
  BY <1>1, <1>2
<1>5. PICK t \in Thresholds :
        BestReaching(sample, t) /\ SelectThreshold(sample, Len(sample)).row = row(t)
  BY <1>4, UncappedChoice
<1> DEFINE u == row(t)
<1>6. \A s \in Thresholds :
        /\ s \in Int /\ row(s).threshold = s /\ row(s).tp \in Nat /\ row(s).volume \in Nat
        /\ row(s).meetsRecall => row(s).tp > 0 /\ IsRow(row(s))
        /\ Max({row(s).volume, 1}) = IF row(s).volume = 0 THEN 1 ELSE row(s).volume
  BY TuningRows
<1>7. u.meetsRecall /\ \A s \in Thresholds : row(s).meetsRecall => Preferred(u, row(s))
  BY <1>5 DEF BestReaching
<1>8. \A s, v \in Thresholds : s <= v => row(v).tp <= row(s).tp
  BY <1>6, MarkedRowsNest
<1> HIDE DEF row
<1>9. ASSUME NEW x \in eligible, NEW y \in eligible
      PROVE  AsPrecise(x, y) <=> x.tp * y.volume >= y.tp * x.volume
  <2>1. x.volume \in Nat \ {0} /\ y.volume \in Nat \ {0}
          /\ Max({x.volume, 1}) = x.volume /\ Max({y.volume, 1}) = y.volume
    BY <1>2, <1>6 DEF IsRow
  <2> QED
    BY <2>1 DEF AsPrecise
<1>10. u \in eligible
  BY <1>2, <1>7
<1>11. ASSUME NEW x \in eligible
       PROVE  /\ IsRow(x) /\ Preferred(u, x) /\ u.tp * x.volume >= x.tp * u.volume
              /\ u.tp * x.volume = x.tp * u.volume => u.threshold <= x.threshold
  <2>1. PICK s \in Thresholds : x = row(s) /\ row(s).meetsRecall
    BY <1>2
  <2>2. IsRow(x) /\ Preferred(u, x) /\ x.threshold = s /\ u.threshold = t /\ s \in Int /\ t \in Int
    BY <1>6, <1>7, <2>1
  <2>3. IsRow(u)
    BY <1>6, <1>7
  <2>4. u.tp * x.volume \in Int /\ x.tp * u.volume \in Int
    BY <2>2, <2>3 DEF IsRow
  <2>5. u.tp * x.volume >= x.tp * u.volume
    BY <2>2, <2>4 DEF Preferred
  <2>6. ASSUME u.tp * x.volume = x.tp * u.volume, ~(t <= s) PROVE FALSE
    <3>1. u.tp > x.tp
      BY <2>2, <2>4, <2>6 DEF Preferred
    <3>s. s <= t
      BY <2>2, <2>6
    <3>2. row(t).tp <= row(s).tp /\ row(t).tp \in Nat /\ row(s).tp \in Nat
      BY <1>6, <1>8, <3>s
    <3> QED
      BY <2>1, <3>1, <3>2
  <2> QED
    BY <2>2, <2>5, <2>6
<1>12. u \in M
  BY <1>9, <1>10, <1>11
<1>13. \A s \in M : u.threshold <= s.threshold
  <2> TAKE s \in M
  <2>1. s \in eligible /\ AsPrecise(s, u)
    BY <1>10
  <2>2. s.tp * u.volume >= u.tp * s.volume /\ u.tp * s.volume >= s.tp * u.volume
    BY <1>9, <1>10, <1>11, <2>1
  <2>3. s.tp * u.volume \in Int /\ u.tp * s.volume \in Int
    BY <1>10, <1>11, <2>1 DEF IsRow
  <2>4. u.tp * s.volume = s.tp * u.volume
    BY <2>2, <2>3
  <2> QED
    BY <1>11, <2>1, <2>4
<1> HIDE DEF u, M
<1>14. Lowest(M) = u
  BY <1>3, <1>12, <1>13, LowestIs DEF row
<1> QED
  BY <1>1, <1>5, <1>14 DEF u, row

\* Asked for its own precision, the rule for a precision answers the preferred row.
LEMMA PrecisionTargetReturns ==
  ASSUME NEW sample \in Samples, Positives(sample) # {}, NEW t, BestReaching(sample, t)
  PROVE  PrecisionTarget(sample, ThresholdRow(sample, t)) = ThresholdRow(sample, t)
<1> DEFINE row(s) == ThresholdRow(sample, s)
           u == row(t)
           table == TuningTable(sample)
           eligible == {x \in table : AsPrecise(x, u)}
           M == {x \in eligible : \A s \in eligible : x.tp >= s.tp}
<1>1. PrecisionTarget(sample, u) = Lowest(M)
  BY DEF PrecisionTarget
<1>2. \A x : x \in eligible <=> \E s \in Thresholds : x = row(s) /\ AsPrecise(row(s), u)
  BY DEF TuningTable
<1>3. M \subseteq {row(s) : s \in Thresholds}
  BY <1>2
<1> HIDE DEF eligible, table
<1>4. \A s \in Thresholds :
        /\ s \in Int /\ row(s).threshold = s /\ row(s).tp \in Nat /\ row(s).volume \in Nat
        /\ row(s).meetsRecall => row(s).tp > 0 /\ IsRow(row(s))
        /\ row(s).meetsRecall <=> 10 * row(s).tp >= 8 * Cardinality(Positives(sample))
        /\ Max({row(s).volume, 1}) = IF row(s).volume = 0 THEN 1 ELSE row(s).volume
  BY TuningRows
<1>5. /\ t \in Thresholds /\ u.meetsRecall
      /\ \A s \in Thresholds : row(s).meetsRecall => Preferred(u, row(s))
  BY DEF BestReaching
<1>6. IsRow(u) /\ u.tp > 0 /\ Max({u.volume, 1}) = u.volume /\ u.volume \in Nat \ {0}
  BY <1>4, <1>5 DEF IsRow
<1> HIDE DEF row
<1>7. u \in eligible
  <2>1. AsPrecise(u, u)
    BY <1>6 DEF AsPrecise, IsRow
  <2> QED
    BY <1>2, <1>5, <2>1
<1>8. ASSUME NEW x \in eligible, x.tp >= u.tp
      PROVE  x.tp = u.tp /\ u.threshold <= x.threshold
  <2>1. PICK s \in Thresholds : x = row(s) /\ AsPrecise(row(s), u)
    BY <1>2
  <2> DEFINE p == Cardinality(Positives(sample))
  <2>2. IsFiniteSet(Positives(sample))
    <3>1. Positives(sample) \subseteq DOMAIN sample /\ IsFiniteSet(DOMAIN sample)
      BY SamplesHaveScores DEF Positives, Scores
    <3> QED
      BY <3>1, FS_Subset
  <2>3. p \in Nat
    BY <2>2, FS_CardinalityType
  <2> HIDE DEF p
  <2>4. x.meetsRecall
    <3>1. 10 * u.tp >= 8 * p /\ x.tp \in Nat /\ u.tp \in Nat
      BY <1>4, <1>5, <2>1 DEF p
    <3>2. 10 * x.tp >= 8 * p
      BY <1>8, <2>3, <3>1
    <3> QED
      BY <1>4, <2>1, <3>2 DEF p
  <2>5. IsRow(x) /\ Preferred(u, x)
    BY <1>4, <1>5, <2>1, <2>4
  <2>6. x.tp * u.volume >= u.tp * x.volume
    <3>1. Max({x.volume, 1}) = x.volume
      BY <1>4, <2>1, <2>5 DEF IsRow
    <3> QED
      BY <1>6, <2>1, <3>1 DEF AsPrecise
  <2> QED
    BY <1>6, <1>8, <2>5, <2>6, AsGoodAsBest
<1>9. \A x \in eligible : x.tp \in Nat
  BY <1>2, <1>4
<1>10. u \in M
  <2>1. \A s \in eligible : u.tp >= s.tp
    <3> TAKE s \in eligible
    <3>1. s.tp \in Nat /\ u.tp \in Nat
      BY <1>7, <1>9
    <3>2. s.tp >= u.tp => s.tp = u.tp
      BY <1>8
    <3> QED
      BY <3>1, <3>2
  <2> QED
    BY <1>7, <2>1
<1>11. \A x \in M : u.threshold <= x.threshold
  <2> TAKE x \in M
  <2>1. x \in eligible /\ x.tp >= u.tp
    BY <1>7
  <2> QED
    BY <1>8, <2>1
<1> HIDE DEF u, M
<1>12. Lowest(M) = u
  BY <1>3, <1>10, <1>11, LowestIs DEF row
<1> QED
  BY <1>1, <1>12 DEF u, row

\* Allowed its own false alerts, the rule for them marks the rows of the preferred one.
LEMMA FalsePositiveTargetMarks ==
  ASSUME NEW sample \in Samples, Positives(sample) # {}, NEW t, BestReaching(sample, t)
  PROVE  Predicted(sample,
             FalsePositiveTarget(sample, FalseAlerts(ThresholdRow(sample, t))).threshold)
           = Predicted(sample, t)
<1> DEFINE row(s) == ThresholdRow(sample, s)
           u == row(t)
           table == TuningTable(sample)
           eligible == {x \in table : FalseAlerts(x) <= FalseAlerts(u)}
           M == {x \in eligible : \A s \in eligible : x.tp >= s.tp}
           better(x, s) == \/ FalseAlerts(x) < FalseAlerts(s)
                           \/ FalseAlerts(x) = FalseAlerts(s) /\ x.threshold >= s.threshold
           f == FalsePositiveTarget(sample, FalseAlerts(u))
<1>1. f = CHOOSE x \in M : \A s \in M : better(x, s)
  BY DEF FalsePositiveTarget
<1>2. \A x : x \in eligible <=> \E s \in Thresholds : x = row(s) /\ FalseAlerts(row(s)) <= FalseAlerts(u)
  BY DEF TuningTable
<1>3. \A x : x \in M <=> x \in eligible /\ \A s \in eligible : x.tp >= s.tp
  OBVIOUS
<1> HIDE DEF eligible, table, f, M
<1>4. \A s \in Thresholds :
        /\ s \in Int /\ row(s).threshold = s /\ row(s).tp \in Nat /\ row(s).volume \in Nat
        /\ row(s).tp <= row(s).volume /\ FalseAlerts(row(s)) = row(s).volume - row(s).tp
        /\ row(s).meetsRecall => row(s).tp > 0 /\ IsRow(row(s))
        /\ row(s).meetsRecall <=> 10 * row(s).tp >= 8 * Cardinality(Positives(sample))
  BY TuningRows
<1>5. /\ t \in Thresholds /\ u.meetsRecall
      /\ \A s \in Thresholds : row(s).meetsRecall => Preferred(u, row(s))
  BY DEF BestReaching
<1>6. IsRow(u) /\ u.tp > 0
  BY <1>4, <1>5
<1>n. \A s, v \in Thresholds :
        row(s).volume = row(v).volume => Predicted(sample, s) = Predicted(sample, v)
  <2> TAKE s, v \in Thresholds
  <2>1. s \in Int /\ v \in Int
    BY <1>4
  <2>2. CASE s <= v
    BY <2>1, <2>2, MarkedRowsNest
  <2>3. CASE v <= s
    BY <2>1, <2>3, MarkedRowsNest
  <2> QED
    BY <2>1, <2>2, <2>3
<1> HIDE DEF row
<1>7. u \in eligible
  <2>1. FalseAlerts(u) <= FalseAlerts(u)
    BY <1>4, <1>5
  <2> QED
    BY <1>2, <1>5, <2>1
<1>8. ASSUME NEW s \in Thresholds, FalseAlerts(row(s)) <= FalseAlerts(u), row(s).tp >= u.tp
      PROVE  row(s).tp = u.tp /\ row(s).volume = u.volume
  <2> DEFINE x == row(s)
             p == Cardinality(Positives(sample))
  <2>2. IsFiniteSet(Positives(sample))
    <3>1. Positives(sample) \subseteq DOMAIN sample /\ IsFiniteSet(DOMAIN sample)
      BY SamplesHaveScores DEF Positives, Scores
    <3> QED
      BY <3>1, FS_Subset
  <2>3. p \in Nat
    BY <2>2, FS_CardinalityType
  <2> HIDE DEF p
  <2>4. x.meetsRecall
    <3>1. 10 * u.tp >= 8 * p /\ x.tp \in Nat /\ u.tp \in Nat
      BY <1>4, <1>5 DEF p
    <3>2. 10 * x.tp >= 8 * p
      BY <1>8, <2>3, <3>1
    <3> QED
      BY <1>4, <3>2 DEF p
  <2>5. IsRow(x) /\ Preferred(u, x)
    BY <1>4, <1>5, <2>4
  <2>6. /\ x.tp \in Nat /\ x.volume \in Nat /\ u.tp \in Nat /\ u.volume \in Nat /\ x.tp <= x.volume
        /\ x.volume - x.tp <= u.volume - u.tp
    BY <1>4, <1>5, <1>8
  <2>7. x.tp * u.volume >= u.tp * x.volume
    BY <1>8, <2>6, FewerAlarms
  <2> QED
    BY <1>6, <1>8, <2>5, <2>7, AsGoodAsBest
<1>9. \A x \in eligible : x.tp \in Nat
  BY <1>2, <1>4
<1>10. u \in M
  <2>1. \A s \in eligible : u.tp >= s.tp
    <3> TAKE s \in eligible
    <3>1. s.tp \in Nat /\ u.tp \in Nat
      BY <1>7, <1>9
    <3>2. s.tp >= u.tp => s.tp = u.tp
      BY <1>2, <1>8
    <3> QED
      BY <3>1, <3>2
  <2> QED
    BY <1>3, <1>7, <2>1
<1>11. ASSUME NEW x \in M
       PROVE  \E s \in Thresholds : x = row(s) /\ x.volume = u.volume /\ FalseAlerts(x) = FalseAlerts(u)
                                      /\ x.threshold = s
  <2>1. x \in eligible /\ x.tp >= u.tp
    BY <1>3, <1>7
  <2>2. PICK s \in Thresholds : x = row(s) /\ FalseAlerts(row(s)) <= FalseAlerts(u)
    BY <1>2, <2>1
  <2>3. x.tp = u.tp /\ x.volume = u.volume
    BY <1>8, <2>1, <2>2
  <2>4. FalseAlerts(x) = FalseAlerts(u) /\ x.threshold = s
    BY <1>4, <1>5, <2>2, <2>3
  <2> QED
    BY <2>2, <2>3, <2>4
<1> DEFINE T == {s \in Thresholds : row(s) \in M}
<1>12. /\ T \subseteq Int /\ T # {} /\ T \subseteq Thresholds
       /\ \A s : s \in T <=> s \in Thresholds /\ row(s) \in M
  BY <1>4, <1>5, <1>10
<1> HIDE DEF T
<1>13. IsFiniteSet(T)
  BY <1>12, SelectionAssumption, FS_Subset
<1>14. PICK m \in T : \A n \in T : m >= n
  BY <1>12, <1>13, GreatestNumber
<1>15. \E x \in M : \A s \in M : better(x, s)
  <2>1. row(m) \in M /\ row(m).threshold = m /\ FalseAlerts(row(m)) = FalseAlerts(u)
    BY <1>4, <1>11, <1>12, <1>14
  <2>2. ASSUME NEW s \in M PROVE better(row(m), s)
    <3>1. PICK k \in Thresholds : s = row(k) /\ FalseAlerts(s) = FalseAlerts(u) /\ s.threshold = k
      BY <1>11
    <3>2. k \in T
      BY <1>12, <3>1
    <3> QED
      BY <1>14, <2>1, <3>1, <3>2
  <2> QED
    BY <2>1, <2>2
<1>16. f \in M
  BY <1>1, <1>15
<1>17. PICK s \in Thresholds : f = row(s) /\ f.volume = u.volume /\ f.threshold = s
  BY <1>11, <1>16
<1>18. Predicted(sample, s) = Predicted(sample, t)
  BY <1>5, <1>n, <1>17
<1> QED
  BY <1>17, <1>18 DEF f, row

\* As many frauds for fewer alerts is a better F1.
LEMMA BestF1Stands ==
  ASSUME NEW a \in Nat, a > 0, NEW v \in Nat, a <= v, NEW b \in Nat, NEW w \in Nat,
         NEW p \in Nat, p > 0, a * (w + p) >= b * (v + p), b >= a, w - b <= v - a
  PROVE  w = v
<1> DEFINE x == b - a
           y == (v - a) - (w - b)
<1>1. x \in Nat /\ y \in Nat /\ b = a + x /\ w = v + x - y
  OBVIOUS
<1> DEFINE d == v + p
<1>2. w + p = d + x - y /\ d \in Nat /\ d > a
  BY <1>1
<1>g. a * (w + p) >= b * d
  OBVIOUS
<1> HIDE DEF x, y, d
<1>3. a * (d + x - y) >= (a + x) * d
  BY <1>1, <1>2, <1>g
<1>4. a * (d + x - y) = a * d + a * x - a * y /\ (a + x) * d = a * d + x * d
  BY <1>1, <1>2
<1>5. a * d \in Nat /\ a * x \in Nat /\ a * y \in Nat /\ x * d \in Nat
  BY <1>1, <1>2
<1>6. a * x - a * y >= x * d
  BY <1>3, <1>4, <1>5
<1>7. x > 0 => x * d > a * x
  BY <1>1, <1>2
<1>8. x = 0
  BY <1>1, <1>5, <1>6, <1>7
<1>9. a * y <= 0
  <2>1. a * x = 0 /\ x * d = 0
    BY <1>2, <1>8
  <2> QED
    BY <1>5, <1>6, <2>1
<1>10. y > 0 => a * y > 0
  BY <1>1
<1>11. y = 0
  BY <1>1, <1>5, <1>9, <1>10
<1> QED
  BY <1>1, <1>8, <1>11

\* A table that is not empty has a row of the best F1, and BestF1 finds one.
LEMMA BestF1Found ==
  ASSUME NEW sample \in Samples, Positives(sample) # {}, NEW e \in Thresholds
  PROVE  LET best == BestF1(sample)
             p == Cardinality(Positives(sample))
         IN  \E t \in Thresholds :
               /\ best = ThresholdRow(sample, t)
               /\ \A s \in Thresholds :
                    best.tp * (ThresholdRow(sample, s).volume + p)
                      >= ThresholdRow(sample, s).tp * (best.volume + p)
<1> DEFINE row(t) == ThresholdRow(sample, t)
           p == Cardinality(Positives(sample))
           better(x, y) == x.tp * (y.volume + p) >= y.tp * (x.volume + p)
           table == TuningTable(sample)
           M == {x \in table : \A s \in table : better(x, s)}
           lifted(t) == [tp |-> row(t).tp, volume |-> row(t).volume + p, threshold |-> t]
           L == {lifted(t) : t \in Thresholds}
<1>1. BestF1(sample) = Lowest(M)
  BY DEF BestF1
<1>2. \A x : x \in table <=> \E t \in Thresholds : x = row(t)
  BY DEF TuningTable
<1>3. M \subseteq {row(t) : t \in Thresholds}
  BY <1>2
<1>m. \A x : x \in M <=> x \in table /\ \A s \in table : better(x, s)
  OBVIOUS
<1> HIDE DEF table
<1>4. p \in Nat /\ p > 0
  <2>1. Positives(sample) \subseteq DOMAIN sample /\ IsFiniteSet(DOMAIN sample)
    BY SamplesHaveScores DEF Positives, Scores
  <2>2. IsFiniteSet(Positives(sample))
    BY <2>1, FS_Subset
  <2> QED
    BY <2>2, FS_CardinalityType, FS_EmptySet
<1>5. \A t \in Thresholds :
        /\ t \in Int /\ row(t).threshold = t /\ row(t).tp \in Nat /\ row(t).volume \in Nat
  BY TuningRows
<1>6. \A s, v \in Thresholds : s <= v => row(v).tp <= row(s).tp
  BY <1>5, MarkedRowsNest
<1> HIDE DEF row, p, M
<1>7. IsFiniteSet(L)
  <2> DEFINE g == [t \in Thresholds |-> lifted(t)]
  <2>1. g \in [Thresholds -> L] /\ \A r \in L : \E t \in Thresholds : g[t] = r
    OBVIOUS
  <2>2. IsFiniteSet(Thresholds)
    BY SelectionAssumption
  <2> HIDE DEF g, L
  <2> QED
    BY <2>1, <2>2, ImageIsFinite
<1>8. \A r \in L : IsRow(r)
  BY <1>4, <1>5 DEF IsRow
<1>9. L # {} /\ \A r : r \in L <=> \E t \in Thresholds : r = lifted(t)
  OBVIOUS
<1> HIDE DEF L
<1>10. PICK u \in L : \A s \in L : Preferred(u, s)
  BY <1>7, <1>8, <1>9, PreferredExists
<1>11. PICK t \in Thresholds : u = lifted(t)
  BY <1>9
<1>12. ASSUME NEW s \in Thresholds
       PROVE  /\ better(row(t), row(s))
              /\ better(row(s), row(t)) => t <= s
  <2>1. Preferred(lifted(t), lifted(s))
    BY <1>9, <1>10, <1>11
  <2>2. /\ lifted(t).tp = row(t).tp /\ lifted(t).volume = row(t).volume + p /\ lifted(t).threshold = t
        /\ lifted(s).tp = row(s).tp /\ lifted(s).volume = row(s).volume + p /\ lifted(s).threshold = s
    OBVIOUS
  <2> HIDE DEF lifted
  <2>3. \/ row(t).tp * (row(s).volume + p) > row(s).tp * (row(t).volume + p)
        \/ /\ row(t).tp * (row(s).volume + p) = row(s).tp * (row(t).volume + p)
           /\ \/ row(t).tp > row(s).tp
              \/ row(t).tp = row(s).tp /\ t <= s
    BY <2>1, <2>2 DEF Preferred
  <2>4. row(t).tp * (row(s).volume + p) \in Int /\ row(s).tp * (row(t).volume + p) \in Int
    <3>1. /\ row(t).tp \in Int /\ row(s).tp \in Int
          /\ row(s).volume + p \in Int /\ row(t).volume + p \in Int
      BY <1>4, <1>5
    <3> QED
      BY <3>1, ProductsAreIntegers
  <2>5. better(row(t), row(s))
    BY <2>3, <2>4
  <2>6. ASSUME better(row(s), row(t)), ~(t <= s) PROVE FALSE
    <3>1. row(t).tp > row(s).tp
      BY <2>3, <2>4, <2>6
    <3>2. s <= t
      BY <1>5, <2>6
    <3>3. row(t).tp <= row(s).tp /\ row(t).tp \in Nat /\ row(s).tp \in Nat
      BY <1>5, <1>6, <3>2
    <3> QED
      BY <3>1, <3>3
  <2> QED
    BY <2>5, <2>6
<1> HIDE DEF better
<1>13. row(t) \in M
  BY <1>2, <1>m, <1>12
<1>14. \A x \in M : row(t).threshold <= x.threshold
  <2> TAKE x \in M
  <2>1. x \in table /\ better(x, row(t))
    BY <1>2, <1>m
  <2>2. PICK s \in Thresholds : x = row(s)
    BY <1>2, <2>1
  <2> QED
    BY <1>5, <1>12, <2>1, <2>2
<1>15. Lowest(M) = row(t)
  BY <1>3, <1>13, <1>14, LowestIs DEF row
<1>16. BestF1(sample) = row(t)
  BY <1>1, <1>15
<1>17. \A s \in Thresholds : better(row(t), row(s))
  BY <1>12
<1> QED
  BY <1>16, <1>17 DEF row, better, p

\* No threshold marks as many frauds with fewer false alerts than that of the best F1.
LEMMA BestF1IsEfficient ==
  ASSUME NEW sample \in Samples, Positives(sample) # {}, BestF1(sample).tp > 0,
         NEW r \in TuningTable(sample), r.tp >= BestF1(sample).tp,
         FalseAlerts(r) <= FalseAlerts(BestF1(sample))
  PROVE  r.volume = BestF1(sample).volume
<1> DEFINE row(t) == ThresholdRow(sample, t)
           p == Cardinality(Positives(sample))
           best == BestF1(sample)
<1>1. PICK s \in Thresholds : r = row(s)
  BY DEF TuningTable
<1>2. PICK t \in Thresholds :
        /\ best = row(t)
        /\ \A k \in Thresholds : best.tp * (row(k).volume + p) >= row(k).tp * (best.volume + p)
  BY <1>1, BestF1Found
<1>3. p \in Nat /\ p > 0
  <2>1. Positives(sample) \subseteq DOMAIN sample /\ IsFiniteSet(DOMAIN sample)
    BY SamplesHaveScores DEF Positives, Scores
  <2>2. IsFiniteSet(Positives(sample))
    BY <2>1, FS_Subset
  <2> QED
    BY <2>2, FS_CardinalityType, FS_EmptySet
<1>4. \A k \in Thresholds :
        /\ row(k).tp \in Nat /\ row(k).volume \in Nat /\ row(k).tp <= row(k).volume
        /\ FalseAlerts(row(k)) = row(k).volume - row(k).tp
  BY TuningRows
<1> HIDE DEF row, p, best
<1>5. /\ best.tp \in Nat /\ best.tp > 0 /\ best.volume \in Nat /\ best.tp <= best.volume
      /\ r.tp \in Nat /\ r.volume \in Nat
      /\ best.tp * (r.volume + p) >= r.tp * (best.volume + p)
      /\ r.tp >= best.tp /\ r.volume - r.tp <= best.volume - best.tp
  BY <1>1, <1>2, <1>4 DEF best
<1>6. r.volume = best.volume
  BY <1>3, <1>5, BestF1Stands
<1> QED
  BY <1>6 DEF best

\* A threshold marks at least the workload if and only if the capacity it takes
\* reaches the recall.
LEMMA SufficesIsWorkload ==
  ASSUME NEW sample \in Samples, Positives(sample) # {}, NEW t \in Thresholds
  PROVE  LET volume == ThresholdRow(sample, t).volume IN
         /\ volume = Cardinality(Predicted(sample, t)) /\ volume \in 0..Len(sample)
         /\ WorkloadForRecall(sample) \in 1..Len(sample)
         /\ ReachesRecall(FrontierRow(sample, volume)) <=> volume >= WorkloadForRecall(sample)
<1> DEFINE A == Predicted(sample, t)
           volume == ThresholdRow(sample, t).volume
<1>1. volume = Cardinality(A) /\ A \subseteq DOMAIN sample
  BY DEF ThresholdRow, Predicted
<1>2. Len(sample) \in Nat /\ IsFiniteSet(DOMAIN sample) /\ Cardinality(DOMAIN sample) = Len(sample)
  BY SamplesHaveScores DEF Scores
<1> HIDE DEF A, volume
<1>3. volume \in 0..Len(sample)
  <2>1. IsFiniteSet(A) /\ Cardinality(A) <= Cardinality(DOMAIN sample)
    BY <1>1, <1>2, FS_Subset
  <2>2. Cardinality(A) \in Nat
    BY <2>1, FS_CardinalityType
  <2> QED
    BY <1>1, <1>2, <2>1, <2>2
<1>4. /\ WorkloadForRecall(sample) \in 1..Len(sample)
      /\ ReachesRecall(FrontierRow(sample, volume)) <=> volume >= WorkloadForRecall(sample)
  BY <1>3, WorkloadIsLeast
<1> QED
  BY <1>1, <1>3, <1>4 DEF A, volume

\* The rules for a capacity and a threshold, with the workload as their measure.
LEMMA ChoicesAgree ==
  ASSUME SampleShape, exam.kind = "ranking", Positives(exam.sample) # {},
         NEW capacity \in Capacities
  PROVE  LET sample == exam.sample
             workload == WorkloadForRecall(sample)
             choice == SelectThreshold(sample, capacity)
         IN  /\ choice.selected =>
                  /\ Predicted(sample, choice.row.threshold)
                       = Allocated(sample, choice.row.volume)
                  /\ choice.row.volume \in workload..capacity
                  /\ \A t \in Thresholds :
                       Cardinality(Predicted(sample, t)) \in workload..choice.row.volume =>
                         ThresholdRow(sample, t).tp <= choice.row.tp
             /\ choice.reason = "recall_target" =>
                  \A t \in Thresholds : Cardinality(Predicted(sample, t)) < workload
<1> DEFINE sample == exam.sample
           workload == WorkloadForRecall(sample)
           choice == SelectThreshold(sample, capacity)
           Marks(t) == ThresholdRow(sample, t)
           Suffices(t) == ReachesRecall(FrontierRow(sample, Marks(t).volume))
<1>1. sample \in Samples /\ Positives(sample) # {}
  BY DEF SampleShape
<1>2. capacity \in Nat
  BY SelectionAssumption
<1>3. /\ choice.selected =>
           /\ Predicted(sample, choice.row.threshold) = Allocated(sample, choice.row.volume)
           /\ choice.row.volume <= capacity
           /\ \A t \in Thresholds :
                Suffices(t) /\ Marks(t).volume <= choice.row.volume => Marks(t).tp <= choice.row.tp
      /\ choice.reason = "recall_target" => \A t \in Thresholds : ~Suffices(t)
  BY SampleAgrees DEF CapacityAndThresholdAgree
<1>4. choice.selected => \E t \in Thresholds : choice.row = Marks(t) /\ Marks(t).meetsRecall
  BY <1>1, <1>2, ChoiceFacts
<1>5. \A t \in Thresholds :
        /\ Marks(t).volume = Cardinality(Predicted(sample, t)) /\ Marks(t).volume \in 0..Len(sample)
        /\ workload \in 1..Len(sample)
        /\ Suffices(t) <=> Marks(t).volume >= workload
  BY <1>1, SufficesIsWorkload
<1>6. \A t \in Thresholds : Marks(t).meetsRecall <=> Suffices(t)
  BY <1>1, SelectionAssumption, MarkingReaches
<1>7. Len(sample) \in Nat
  BY <1>1, SamplesHaveScores
<1> HIDE DEF sample, workload, choice, Marks, Suffices
<1>8. ASSUME choice.selected
      PROVE  /\ choice.row.volume \in workload..capacity
             /\ \A t \in Thresholds :
                  Cardinality(Predicted(sample, t)) \in workload..choice.row.volume =>
                    Marks(t).tp <= choice.row.tp
  <2>1. PICK t \in Thresholds : choice.row = Marks(t) /\ Marks(t).meetsRecall
    BY <1>4, <1>8
  <2>2. /\ Marks(t).volume \in 0..Len(sample) /\ workload \in 1..Len(sample)
        /\ Marks(t).volume >= workload
    BY <1>5, <1>6, <2>1
  <2>3. choice.row.volume \in workload..capacity
    BY <1>2, <1>3, <1>7, <1>8, <2>1, <2>2
  <2>4. ASSUME NEW s \in Thresholds, Cardinality(Predicted(sample, s)) \in workload..choice.row.volume
        PROVE  Marks(s).tp <= choice.row.tp
    <3>1. Marks(s).volume >= workload /\ Marks(s).volume <= choice.row.volume
      BY <1>5, <2>4
    <3> QED
      BY <1>3, <1>5, <1>8, <3>1
  <2> QED
    BY <2>3, <2>4
<1>9. ASSUME choice.reason = "recall_target", NEW t \in Thresholds
      PROVE  Cardinality(Predicted(sample, t)) < workload
  <2>1. ~(Marks(t).volume >= workload)
    BY <1>3, <1>5, <1>9
  <2> QED
    BY <1>5, <1>7, <2>1
<1> QED
  BY <1>3, <1>8, <1>9 DEF sample, workload, choice, Marks, Suffices

\* The rules of the reference stages beside those of Lane A.
LEMMA TuningAgrees ==
  ASSUME NEW sample \in Samples, Positives(sample) # {}, NEW r \in RecallTarget(sample)
  PROVE  /\ SelectThreshold(sample, Len(sample)).row = r
         /\ PrecisionTarget(sample, r) = r
         /\ LET f == FalsePositiveTarget(sample, FalseAlerts(r)) IN
              Predicted(sample, f.threshold) = Predicted(sample, r.threshold)
<1>1. PICK t \in Thresholds :
        /\ BestReaching(sample, t) /\ r = ThresholdRow(sample, t)
        /\ SelectThreshold(sample, Len(sample)).row = r
  BY RecallTargetIsBest
<1>2. PrecisionTarget(sample, r) = r
  BY <1>1, PrecisionTargetReturns
<1>3. Predicted(sample, FalsePositiveTarget(sample, FalseAlerts(r)).threshold) = Predicted(sample, t)
  BY <1>1, FalsePositiveTargetMarks
<1>4. r.threshold = t
  BY <1>1 DEF ThresholdRow
<1> QED
  BY <1>1, <1>2, <1>3, <1>4

BoardShape == exam.kind = "contest" => exam.board \in Boards

LEMMA RankingsAlwaysAgree ==
  ASSUME SampleShape, BoardShape
  PROVE  RankingsAgree
<1>1. exam.kind = "contest" => WinnersStand(exam.board)
  BY WinnersAlwaysStand DEF BoardShape
<1>2. exam.kind = "ranking" => ExpectedCalibrationError(exam.sample) = EvaluateCalibration(exam.sample)
  BY CalibrationsAgree DEF SampleShape
<1>3. ASSUME exam.kind = "ranking", Positives(exam.sample) # {}
      PROVE  LET sample == exam.sample
                 workload == WorkloadForRecall(sample)
             IN  /\ \A budget \in 0..Len(sample) :
                      /\ ReachesRecall(FrontierRow(sample, budget)) <=> budget >= workload
                      /\ Reconciles(sample, budget)
                 /\ \A capacity \in Capacities :
                      LET choice == SelectThreshold(sample, capacity) IN
                      /\ choice.selected =>
                           /\ Predicted(sample, choice.row.threshold)
                                = Allocated(sample, choice.row.volume)
                           /\ choice.row.volume \in workload..capacity
                           /\ \A t \in Thresholds :
                                Cardinality(Predicted(sample, t)) \in workload..choice.row.volume =>
                                  ThresholdRow(sample, t).tp <= choice.row.tp
                      /\ choice.reason = "recall_target" =>
                           \A t \in Thresholds : Cardinality(Predicted(sample, t)) < workload
                 /\ \A r \in RecallTarget(sample) :
                      /\ SelectThreshold(sample, Len(sample)).row = r
                      /\ PrecisionTarget(sample, r) = r
                      /\ LET f == FalsePositiveTarget(sample, FalseAlerts(r)) IN
                           Predicted(sample, f.threshold) = Predicted(sample, r.threshold)
                 /\ LET best == BestF1(sample) IN
                      best.tp > 0 =>
                        \A r \in TuningTable(sample) :
                          r.tp >= best.tp /\ FalseAlerts(r) <= FalseAlerts(best) => r.volume = best.volume
  <2> DEFINE sample == exam.sample
  <2>1. sample \in Samples /\ Positives(sample) # {}
    BY <1>3 DEF SampleShape
  <2>2. \A capacity \in Capacities :
          LET choice == SelectThreshold(sample, capacity)
              workload == WorkloadForRecall(sample)
          IN  /\ choice.selected =>
                   /\ Predicted(sample, choice.row.threshold)
                        = Allocated(sample, choice.row.volume)
                   /\ choice.row.volume \in workload..capacity
                   /\ \A t \in Thresholds :
                        Cardinality(Predicted(sample, t)) \in workload..choice.row.volume =>
                          ThresholdRow(sample, t).tp <= choice.row.tp
              /\ choice.reason = "recall_target" =>
                   \A t \in Thresholds : Cardinality(Predicted(sample, t)) < workload
    BY <1>3, ChoicesAgree
  <2> HIDE DEF sample
  <2>3. \A budget \in 0..Len(sample) :
          /\ ReachesRecall(FrontierRow(sample, budget)) <=> budget >= WorkloadForRecall(sample)
          /\ Reconciles(sample, budget)
    <3> TAKE budget \in 0..Len(sample)
    <3>1. budget \in Nat
      OBVIOUS
    <3> QED
      BY <2>1, <3>1, WorkloadIsLeast, BudgetsReconcile
  <2>4. \A r \in RecallTarget(sample) :
          /\ SelectThreshold(sample, Len(sample)).row = r
          /\ PrecisionTarget(sample, r) = r
          /\ LET f == FalsePositiveTarget(sample, FalseAlerts(r)) IN
               Predicted(sample, f.threshold) = Predicted(sample, r.threshold)
    BY <2>1, TuningAgrees
  <2>5. BestF1(sample).tp > 0 =>
          \A r \in TuningTable(sample) :
            r.tp >= BestF1(sample).tp /\ FalseAlerts(r) <= FalseAlerts(BestF1(sample)) =>
              r.volume = BestF1(sample).volume
    BY <2>1, BestF1IsEfficient
  <2> QED
    BY <2>2, <2>3, <2>4, <2>5 DEF sample
<1> QED
  BY <1>1, <1>2, <1>3, Zenon DEF RankingsAgree

\* What was chosen for the freeze can be frozen, and those who rank, compare or
\* report by rules of their own come to the same selection.
THEOREM SelectionsAlwaysSound == SelectionSpec => []SelectionsAreSound
<1> DEFINE Shape == ExamShape /\ SampleShape /\ BoardShape
<1>1. SelectionInit => Shape
  BY DEF SelectionInit, ExamShape, SampleShape, BoardShape
<1>2. Shape /\ [SelectionNext]_exam => Shape'
  BY DEF ExamShape, SampleShape, BoardShape, SelectionNext
<1>3. Shape => SelectionsAreSound
  <2>1. ExamShape => PartitionIsAccepted
    BY BoundariesVerify, SelectionAssumption DEF ExamShape, PartitionIsAccepted
  <2>2. SampleShape /\ BoardShape => RankingsAgree
    BY RankingsAlwaysAgree
  <2> QED
    BY <2>1, <2>2 DEF SelectionsAreSound
<1> QED
  BY <1>1, <1>2, <1>3, PTL DEF SelectionSpec

-----------------------------------------------------------------------------
(* DataRoles: blocks of times *)

RankIn(T, t) == Cardinality({s \in T : s < t})

\* The ranks of the members of a finite set of numbers are 0, 1, ...
LEMMA RanksOfNumbers ==
  ASSUME NEW T, IsFiniteSet(T), T \subseteq Nat
  PROVE  /\ Cardinality(T) \in Nat
         /\ \A t \in T : RankIn(T, t) \in 0..(Cardinality(T) - 1)
         /\ \A t, u \in T : t < u => RankIn(T, t) < RankIn(T, u)
         /\ \A k \in 0..(Cardinality(T) - 1) : \E t \in T : RankIn(T, t) = k
<1> DEFINE Below(t) == {s \in T : s < t}
           n == Cardinality(T)
           rank == [t \in T |-> RankIn(T, t)]
<1>1. n \in Nat
  BY FS_CardinalityType
<1>2. \A t \in T : RankIn(T, t) = Cardinality(Below(t)) /\ Below(t) \subseteq T /\ t \notin Below(t)
                     /\ IsFiniteSet(Below(t))
  BY FS_Subset DEF RankIn
<1>3. \A t \in T : RankIn(T, t) \in 0..(n - 1)
  <2> TAKE t \in T
  <2>1. Cardinality(Below(t)) < n /\ Cardinality(Below(t)) \in Nat
    BY <1>2, ProperSubsets
  <2> QED
    BY <1>1, <1>2, <2>1
<1>4. \A t, u \in T : t < u => RankIn(T, t) < RankIn(T, u)
  <2> TAKE t, u \in T
  <2> SUFFICES ASSUME t < u PROVE RankIn(T, t) < RankIn(T, u)
    OBVIOUS
  <2>1. Below(t) \subseteq Below(u) /\ t \in Below(u) /\ t \notin Below(t)
    <3>1. t \in Nat /\ u \in Nat /\ \A s \in T : s \in Nat
      OBVIOUS
    <3>2. \A s \in T : s < t => s < u
      BY <3>1
    <3>3. ~(t < t)
      BY <3>1
    <3> QED
      BY <3>2, <3>3
  <2> HIDE DEF Below
  <2>2. Cardinality(Below(t)) < Cardinality(Below(u))
    BY <1>2, <2>1, ProperSubsets
  <2> QED
    BY <1>2, <2>2
<1>5. \A t, u \in T : rank[t] = rank[u] => t = u
  <2> SUFFICES ASSUME NEW t \in T, NEW u \in T, rank[t] = rank[u], t # u PROVE FALSE
    OBVIOUS
  <2>1. t < u \/ u < t
    OBVIOUS
  <2>2. RankIn(T, t) = RankIn(T, u) /\ RankIn(T, t) \in 0..(n - 1) /\ RankIn(T, u) \in 0..(n - 1)
    BY <1>3
  <2> QED
    BY <1>4, <2>1, <2>2
<1>6. rank \in Injection(T, 0..(n - 1))
  <2>1. rank \in [T -> 0..(n - 1)]
    BY <1>3
  <2> HIDE DEF rank
  <2> QED
    BY <1>5, <2>1 DEF Injection, IsInjective
<1>7. IsFiniteSet(0..(n - 1)) /\ Cardinality(0..(n - 1)) = n
  <2>1. IsFiniteSet(0..(n - 1)) /\ Cardinality(0..(n - 1)) = IF 0 > n - 1 THEN 0 ELSE (n - 1) - 0 + 1
    BY <1>1, FS_Interval
  <2> HIDE DEF n
  <2> QED
    BY <1>1, <2>1
<1>8. rank \in Surjection(T, 0..(n - 1))
  <2> DEFINE V == 0..(n - 1)
  <2>1. Cardinality(T) = Cardinality(V)
    BY <1>7
  <2> HIDE DEF rank, V
  <2> QED
    BY <1>6, <1>7, <2>1, FS_Injection DEF V
<1>9. \A k \in 0..(n - 1) : \E t \in T : rank[t] = k
  <2> HIDE DEF rank, n
  <2> QED
    BY <1>8 DEF Surjection
<1> QED
  BY <1>1, <1>3, <1>4, <1>9

\* Whole quotients.
LEMMA Quotients ==
  ASSUME NEW a \in Nat, NEW d \in Nat \ {0}
  PROVE  /\ a \div d \in Nat /\ a % d \in 0..(d - 1)
         /\ a = d * (a \div d) + (a % d)
OBVIOUS

\* A larger dividend has no smaller quotient.
LEMMA QuotientsGrow ==
  ASSUME NEW a \in Nat, NEW b \in Nat, NEW d \in Nat \ {0}, a <= b
  PROVE  a \div d <= b \div d
<1> DEFINE p == a \div d
           q == b \div d
<1>1. p \in Nat /\ q \in Nat /\ d * p <= a /\ b < d * q + d
  <2>1. p \in Nat /\ q \in Nat /\ a = d * p + (a % d) /\ b = d * q + (b % d)
          /\ a % d \in 0..(d - 1) /\ b % d \in 0..(d - 1)
    BY Quotients
  <2>2. d * p \in Nat /\ d * q \in Nat
    BY <2>1
  <2> HIDE DEF p, q
  <2> QED
    BY <2>1, <2>2
<1> HIDE DEF p, q
<1>2. ASSUME q < p PROVE FALSE
  <2>1. q + 1 <= p
    BY <1>1, <1>2
  <2>2. d * (q + 1) <= d * p
    BY <1>1, <2>1
  <2>3. d * (q + 1) = d * q + d
    BY <1>1
  <2>4. d * p \in Nat /\ d * q \in Nat
    BY <1>1
  <2> QED
    BY <1>1, <2>2, <2>3, <2>4
<1>3. p <= q
  BY <1>1, <1>2
<1> QED
  BY <1>3 DEF p, q

\* k times d and less than one more d is k.
LEMMA QuotientIs ==
  ASSUME NEW k \in Nat, NEW d \in Nat \ {0}
  PROVE  (k * d) \div d = k
<1> DEFINE q == (k * d) \div d
<1>1. k * d \in Nat
  OBVIOUS
<1>2. q \in Nat /\ k * d = d * q + ((k * d) % d) /\ (k * d) % d \in 0..(d - 1)
  BY <1>1, Quotients
<1> DEFINE m == (k * d) % d
<1> HIDE DEF q, m
<1>3. m \in Nat /\ m < d /\ q \in Nat /\ k * d = d * q + m
  BY <1>2 DEF m
<1>4. ASSUME k < q PROVE FALSE
  <2>1. k + 1 <= q
    BY <1>3, <1>4
  <2>2. d * (k + 1) <= d * q
    BY <1>3, <2>1
  <2>3. d * (k + 1) = k * d + d /\ d * q \in Nat /\ k * d \in Nat
    BY <1>3
  <2> QED
    BY <1>3, <2>2, <2>3
<1>5. ASSUME q < k PROVE FALSE
  <2>1. q + 1 <= k
    BY <1>3, <1>5
  <2>2. d * (q + 1) <= d * k
    BY <1>3, <2>1
  <2>3. d * (q + 1) = d * q + d /\ d * k = k * d /\ d * q \in Nat /\ k * d \in Nat
    BY <1>3
  <2> QED
    BY <1>3, <2>2, <2>3
<1>6. q = k
  BY <1>3, <1>4, <1>5
<1> QED
  BY <1>6 DEF q

BlockAt(rank, size, longer) ==
  IF rank < longer * (size + 1) THEN rank \div (size + 1)
  ELSE longer + (rank - longer * (size + 1)) \div size

\* A later rank is not in an earlier block.
LEMMA BlockAtGrows ==
  ASSUME NEW size \in Nat \ {0}, NEW longer \in Nat, NEW a \in Nat, NEW b \in Nat, a <= b
  PROVE  /\ BlockAt(a, size, longer) \in Nat
         /\ BlockAt(a, size, longer) <= BlockAt(b, size, longer)
<1> DEFINE front == longer * (size + 1)
           d == size + 1
<1>1. front \in Nat /\ d \in Nat \ {0}
  OBVIOUS
<1>2. /\ BlockAt(a, size, longer) = IF a < front THEN a \div d ELSE longer + (a - front) \div size
      /\ BlockAt(b, size, longer) = IF b < front THEN b \div d ELSE longer + (b - front) \div size
  BY DEF BlockAt
<1>3. \A x, y \in Nat : x <= y => x \div d <= y \div d /\ x \div size <= y \div size
  BY <1>1, QuotientsGrow
<1>4. \A x \in Nat : x \div d \in Nat /\ x \div size \in Nat
  BY <1>1, Quotients
<1>5. \A x \in Nat : x < front => x \div d <= longer
  <2> TAKE x \in Nat
  <2> SUFFICES ASSUME x < front PROVE x \div d <= longer
    OBVIOUS
  <2>1. x \div d <= front \div d
    BY <1>1, <1>3
  <2>2. front \div d = longer
    BY <1>1, QuotientIs
  <2> QED
    BY <2>1, <2>2
<1> HIDE DEF front, d
<1>6. CASE b < front
  BY <1>1, <1>2, <1>3, <1>4, <1>6
<1>7. CASE ~(b < front) /\ a < front
  <2>1. b - front \in Nat
    BY <1>1, <1>7
  <2>2. (b - front) \div size \in Nat /\ a \div d \in Nat /\ a \div d <= longer
    BY <1>4, <1>5, <1>7, <2>1
  <2> QED
    BY <1>2, <1>7, <2>2
<1>8. CASE ~(a < front)
  <2>1. b - front \in Nat /\ a - front \in Nat /\ a - front <= b - front /\ ~(b < front)
    BY <1>1, <1>8
  <2>2. /\ (b - front) \div size \in Nat /\ (a - front) \div size \in Nat
        /\ (a - front) \div size <= (b - front) \div size
    BY <1>3, <1>4, <2>1
  <2> QED
    BY <1>2, <1>8, <2>1, <2>2
<1> QED
  BY <1>6, <1>7, <1>8

\* Where a block begins.
LEMMA BlockBegins ==
  ASSUME NEW size \in Nat \ {0}, NEW blocks \in Nat \ {0}, NEW longer \in 0..(blocks - 1),
         NEW k \in 0..(blocks - 1)
  PROVE  \E r \in 0..(blocks * size + longer - 1) : BlockAt(r, size, longer) = k
<1> DEFINE front == longer * (size + 1)
           d == size + 1
           all == blocks * size + longer
<1>1. front \in Nat /\ d \in Nat \ {0} /\ all \in Nat
  OBVIOUS
<1>2. all = front + (blocks - longer) * size
  OBVIOUS
<1>3. (blocks - longer) * size \in Nat
  <2>1. blocks - longer \in Nat
    OBVIOUS
  <2> QED
    BY <2>1
<1>4. CASE k < longer
  <2> DEFINE r == k * d
  <2>1. r < front /\ r \in Nat
    <3>1. k + 1 <= longer
      BY <1>4
    <3>2. (k + 1) * d <= longer * d
      BY <1>1, <3>1
    <3>3. (k + 1) * d = r + d /\ r \in Nat
      BY <1>1
    <3> QED
      BY <1>1, <3>2, <3>3
  <2>2. r \div d = k
    BY <1>1, QuotientIs
  <2>3. BlockAt(r, size, longer) = r \div d
    BY <2>1 DEF BlockAt
  <2> HIDE DEF r, front, all, d
  <2>4. r \in 0..(all - 1)
    BY <1>1, <1>2, <1>3, <2>1
  <2> QED
    BY <2>2, <2>3, <2>4 DEF all
<1>5. CASE ~(k < longer)
  <2> DEFINE m == k - longer
             r == front + m * size
  <2>1. m \in Nat /\ m * size \in Nat /\ r \in Nat /\ ~(r < front) /\ r - front = m * size
    <3>1. m \in Nat
      BY <1>5
    <3>2. m * size \in Nat
      BY <3>1
    <3> DEFINE p == m * size
    <3> HIDE DEF front, p
    <3> QED
      BY <1>1, <3>1, <3>2 DEF p
  <2>2. (m * size) \div size = m
    BY <2>1, QuotientIs
  <2>3. BlockAt(r, size, longer) = longer + m
    <3>1. BlockAt(r, size, longer) = longer + (r - front) \div size
      BY <2>1 DEF BlockAt
    <3> HIDE DEF r, front, m
    <3> QED
      BY <2>1, <2>2, <3>1
  <2>4. r < all
    <3>1. m + 1 <= blocks - longer /\ blocks - longer \in Nat
      BY <1>5
    <3>2. (m + 1) * size <= (blocks - longer) * size
      BY <2>1, <3>1
    <3>3. (m + 1) * size = m * size + size
      BY <2>1
    <3> DEFINE p == m * size
               q == (blocks - longer) * size
    <3>4. p \in Nat /\ q \in Nat /\ p + size <= q /\ r = front + p /\ all = front + q
      BY <1>2, <1>3, <2>1, <3>2, <3>3
    <3> HIDE DEF p, q, r, front, all
    <3> QED
      BY <1>1, <3>4
  <2>5. longer + m = k
    OBVIOUS
  <2> HIDE DEF r, all, front, m
  <2>6. r \in 0..(all - 1)
    BY <1>1, <2>1, <2>4
  <2> QED
    BY <2>3, <2>5, <2>6 DEF all
<1> QED
  BY <1>4, <1>5

\* Equal blocks of distinct times: a later time is never in an earlier block, and
\* no block is empty.
LEMMA BlocksAscend ==
  ASSUME NEW T, IsFiniteSet(T), T \subseteq Nat, NEW blocks \in Nat \ {0}, Cardinality(T) >= blocks
  PROVE  /\ \A t, u \in T : t <= u => BlockOf(T, t, blocks) <= BlockOf(T, u, blocks)
         /\ \A t \in T : BlockOf(T, t, blocks) \in Nat
         /\ \A k \in 0..(blocks - 1) : \E t \in T : BlockOf(T, t, blocks) = k
<1> DEFINE n == Cardinality(T)
           size == n \div blocks
           longer == n % blocks
<1>1. /\ n \in Nat /\ \A t \in T : RankIn(T, t) \in 0..(n - 1)
      /\ \A t, u \in T : t < u => RankIn(T, t) < RankIn(T, u)
      /\ \A k \in 0..(n - 1) : \E t \in T : RankIn(T, t) = k
  BY RanksOfNumbers
<1>2. \A t : BlockOf(T, t, blocks) = BlockAt(RankIn(T, t), size, longer)
  BY DEF BlockOf, BlockAt, RankIn
<1>3. n >= blocks
  OBVIOUS
<1> HIDE DEF n
<1>4. size \in Nat /\ longer \in 0..(blocks - 1) /\ n = blocks * size + longer
  BY <1>1, Quotients
<1> HIDE DEF size, longer
<1>5. size # 0
  BY <1>3, <1>4
<1>6. \A t, u \in T : t <= u => BlockOf(T, t, blocks) <= BlockOf(T, u, blocks)
  <2> SUFFICES ASSUME NEW t \in T, NEW u \in T, t <= u
               PROVE  BlockOf(T, t, blocks) <= BlockOf(T, u, blocks)
    OBVIOUS
  <2>1. RankIn(T, t) \in Nat /\ RankIn(T, u) \in Nat /\ RankIn(T, t) <= RankIn(T, u)
    <3>1. RankIn(T, t) \in Nat /\ RankIn(T, u) \in Nat
      BY <1>1
    <3>2. t = u \/ t < u
      OBVIOUS
    <3> QED
      BY <1>1, <3>1, <3>2
  <2> QED
    BY <1>2, <1>4, <1>5, <2>1, BlockAtGrows
<1>7. \A t \in T : BlockOf(T, t, blocks) \in Nat
  <2> TAKE t \in T
  <2>1. RankIn(T, t) \in Nat
    BY <1>1
  <2> QED
    BY <1>2, <1>4, <1>5, <2>1, BlockAtGrows
<1>8. ASSUME NEW k \in 0..(blocks - 1) PROVE \E t \in T : BlockOf(T, t, blocks) = k
  <2>1. PICK r \in 0..(n - 1) : BlockAt(r, size, longer) = k
    BY <1>4, <1>5, BlockBegins
  <2>2. PICK t \in T : RankIn(T, t) = r
    BY <1>1
  <2> QED
    BY <1>2, <2>1, <2>2
<1> QED
  BY <1>6, <1>7, <1>8

\* The rows a fold trains on are older than its block, and blocks ascend.
LEMMA FoldsAreSound ==
  ASSUME NEW times \in Seq(Nat), NEW gap \in Nat, Foldable(times, gap)
  PROVE  FoldsLookBack(times, gap)
<1> DEFINE T == ToSet(times)
           block(t) == BlockOf(T, t, 3)
           valid(fold) == {i \in DOMAIN times : block(times[i]) = fold}
           values(fold) == {times[i] : i \in valid(fold)}
           start(fold) == Min(values(fold))
           folds == Folds(times, gap)
<1>1. IsFiniteSet(T) /\ T \subseteq Nat
  <2>1. IsFiniteSet(DOMAIN times) /\ DOMAIN times = 1..Len(times)
    BY IntervalIsFinite
  <2> DEFINE g == [i \in DOMAIN times |-> times[i]]
  <2>2. g \in [DOMAIN times -> T] /\ \A t \in T : \E i \in DOMAIN times : g[i] = t
    BY DEF ToSet
  <2>3. T \subseteq Nat
    BY <2>1 DEF ToSet
  <2> HIDE DEF g, T
  <2> QED
    BY <2>1, <2>2, <2>3, ImageIsFinite
<1>2. /\ \A t, u \in T : t <= u => block(t) <= block(u)
      /\ \A t \in T : block(t) \in Nat
      /\ \A k \in 0..2 : \E t \in T : block(t) = k
  <2>1. Cardinality(T) >= 3
    BY DEF Foldable
  <2> HIDE DEF T
  <2>2. 3 \in Nat \ {0} /\ 3 - 1 = 2
    OBVIOUS
  <2>3. \A b \in Nat \ {0} : Cardinality(T) >= b =>
          /\ \A t, u \in T : t <= u => BlockOf(T, t, b) <= BlockOf(T, u, b)
          /\ \A t \in T : BlockOf(T, t, b) \in Nat
          /\ \A k \in 0..(b - 1) : \E t \in T : BlockOf(T, t, b) = k
    BY <1>1, BlocksAscend
  <2> QED
    BY <2>1, <2>2, <2>3
<1>3. \A fold \in 1..2 :
        folds[fold] = [train |-> {i \in DOMAIN times : times[i] < start(fold) - gap},
                       validated |-> valid(fold)]
  BY DEF Folds
<1>4. ASSUME NEW fold \in 1..2
      PROVE  /\ values(fold) \subseteq Nat /\ start(fold) \in values(fold)
             /\ \A t \in values(fold) : start(fold) <= t
             /\ \A j \in valid(fold) : times[j] \in T /\ block(times[j]) = fold
             /\ \A t \in values(fold) : t \in T /\ block(t) = fold
  <2>1. \A j \in valid(fold) : times[j] \in T /\ block(times[j]) = fold /\ times[j] \in Nat
    BY DEF ToSet
  <2>2. \A t \in values(fold) : t \in T /\ block(t) = fold
    <3> HIDE DEF T, block, valid
    <3> QED
      BY <2>1
  <2>3. values(fold) \subseteq Nat
    <3> HIDE DEF T, block, valid
    <3> QED
      BY <2>1
  <2>4. values(fold) # {}
    <3>1. fold \in 0..2
      OBVIOUS
    <3> HIDE DEF block
    <3>2. PICK t \in T : block(t) = fold
      BY <1>2, <3>1
    <3>3. PICK i \in DOMAIN times : times[i] = t
      BY DEF ToSet
    <3> QED
      BY <3>2, <3>3
  <2> HIDE DEF values, block, T, valid
  <2>5. Min(values(fold)) \in values(fold) /\ \A t \in values(fold) : Min(values(fold)) <= t
    BY <2>3, <2>4, MinIsLeast
  <2> QED
    BY <2>1, <2>2, <2>3, <2>5
<1>5. start(1) \in Nat /\ start(2) \in Nat /\ start(1) <= start(2)
  <2>1. /\ start(1) \in T /\ block(start(1)) = 1 /\ start(1) \in Nat
        /\ start(2) \in T /\ block(start(2)) = 2 /\ start(2) \in Nat
    <3> HIDE DEF start, values, block, T, valid
    <3>1. 1 \in 1..2 /\ 2 \in 1..2
      OBVIOUS
    <3> QED
      BY <1>4, <3>1
  <2>2. start(2) <= start(1) => block(start(2)) <= block(start(1))
    <3> HIDE DEF start, values, block, T, valid
    <3> QED
      BY <1>2, <2>1, Zenon
  <2> HIDE DEF start, values, block, T, valid
  <2>3. ~(start(2) <= start(1))
    BY <2>1, <2>2
  <2> QED
    BY <2>1, <2>3
<1> DEFINE early(fold) == {i \in DOMAIN times : times[i] < start(fold) - gap}
<1>6. \A i \in DOMAIN times : times[i] \in Nat
  OBVIOUS
<1>7. \A fold \in 1..2 : folds[fold].train = early(fold) /\ folds[fold].validated = valid(fold)
  <2> HIDE DEF start, values, block, T, valid, folds
  <2> QED
    BY <1>3
<1>8. ASSUME NEW fold \in 1..2, NEW i \in early(fold), NEW j \in valid(fold)
      PROVE  times[i] + gap <= times[j]
  <2>1. times[j] \in values(fold) /\ j \in DOMAIN times /\ i \in DOMAIN times
    OBVIOUS
  <2>2. start(fold) <= times[j] /\ start(fold) \in Nat
    <3> HIDE DEF start, values, block, T, valid
    <3> QED
      BY <1>4, <2>1
  <2>3. times[i] < start(fold) - gap
    <3> HIDE DEF start
    <3> QED
      OBVIOUS
  <2>4. times[i] \in Nat /\ times[j] \in Nat
    BY <1>6, <2>1
  <2> HIDE DEF start, values, block, T, valid, early
  <2> QED
    BY <2>2, <2>3, <2>4
<1>9. valid(1) \cap valid(2) = {}
  <2> HIDE DEF block, T
  <2> QED
    OBVIOUS
<1>10. early(1) \subseteq early(2)
  <2> HIDE DEF start
  <2> QED
    BY <1>5, <1>6
<1> HIDE DEF folds, early, valid, start, values, block, T
<1>11. FoldsLookBack(times, gap) =
         /\ \A fold \in 1..2 :
              \A i \in folds[fold].train, j \in folds[fold].validated :
                times[i] + gap <= times[j]
         /\ folds[1].validated \cap folds[2].validated = {}
         /\ folds[1].train \subseteq folds[2].train
  BY Zenon DEF FoldsLookBack, folds
<1>12. /\ folds[1].train = early(1) /\ folds[1].validated = valid(1)
       /\ folds[2].train = early(2) /\ folds[2].validated = valid(2)
  BY <1>7
<1> QED
  BY <1>7, <1>8, <1>9, <1>10, <1>11, <1>12

\* It has as many rows as it has places.
LEMMA SubframeIsFinite ==
  ASSUME NEW frame, NEW indices, IsFiniteSet(indices)
  PROVE  Cardinality(indices) \in Nat /\ DOMAIN Subframe(frame, indices) = 1..Cardinality(indices)
BY FS_CardinalityType DEF Subframe

\* The places a subframe lists, each once.
IsListing(place, frame, indices) ==
  /\ place \in [1..Cardinality(indices) -> indices]
  /\ \A i \in indices : \E k \in 1..Cardinality(indices) : place[k] = i
  /\ \A k, l \in 1..Cardinality(indices) : place[k] = place[l] => k = l
  /\ \A k \in 1..Cardinality(indices) : Subframe(frame, indices)[k] = frame[place[k]]

LEMMA SubframesSharePlaces ==
  ASSUME NEW frame, NEW other, NEW indices, IsFiniteSet(indices), indices \subseteq Nat
  PROVE  \E place : IsListing(place, frame, indices) /\ IsListing(place, other, indices)
<1> DEFINE n == Cardinality(indices)
           rank(i) == Cardinality({j \in indices : j <= i})
<1>1. /\ n \in Nat
      /\ \A i \in indices : RankIn(indices, i) \in 0..(n - 1)
      /\ \A i, j \in indices : i < j => RankIn(indices, i) < RankIn(indices, j)
      /\ \A k \in 0..(n - 1) : \E i \in indices : RankIn(indices, i) = k
  BY RanksOfNumbers
<1>2. \A i \in indices : rank(i) = RankIn(indices, i) + 1
  <2> TAKE i \in indices
  <2> DEFINE B == {j \in indices : j < i}
  <2>1. {j \in indices : j <= i} = B \cup {i} /\ i \notin B
    <3>1. \A j \in indices : j \in Nat
      OBVIOUS
    <3>2. \A j \in indices : j <= i <=> (j < i \/ j = i)
      BY <3>1
    <3>3. ~(i < i)
      BY <3>1
    <3> QED
      BY <3>2, <3>3
  <2>2. IsFiniteSet(B)
    BY FS_Subset
  <2>3. Cardinality(B \cup {i}) = Cardinality(B) + 1
    BY <2>1, <2>2, FS_AddElement
  <2> QED
    BY <2>1, <2>3 DEF RankIn
<1>3. \A i, j \in indices : rank(i) = rank(j) => i = j
  <2> SUFFICES ASSUME NEW i \in indices, NEW j \in indices, rank(i) = rank(j), i # j PROVE FALSE
    OBVIOUS
  <2> HIDE DEF rank
  <2>1. RankIn(indices, i) + 1 = RankIn(indices, j) + 1
    BY <1>2
  <2>2. i < j \/ j < i
    OBVIOUS
  <2>3. RankIn(indices, i) \in 0..(n - 1) /\ RankIn(indices, j) \in 0..(n - 1)
    BY <1>1
  <2>4. i < j => RankIn(indices, i) < RankIn(indices, j)
    BY <1>1
  <2>5. j < i => RankIn(indices, j) < RankIn(indices, i)
    BY <1>1
  <2> HIDE DEF n
  <2> QED
    BY <1>1, <2>1, <2>2, <2>3, <2>4, <2>5
<1>4. /\ Subframe(frame, indices) = [k \in 1..n |-> frame[CHOOSE i \in indices : rank(i) = k]]
      /\ Subframe(other, indices) = [k \in 1..n |-> other[CHOOSE i \in indices : rank(i) = k]]
  BY DEF Subframe
<1>5. \A k \in 1..n : \E i \in indices : rank(i) = k
  <2> TAKE k \in 1..n
  <2> HIDE DEF n, rank
  <2>1. k - 1 \in 0..(n - 1) /\ k = (k - 1) + 1
    BY <1>1
  <2>2. PICK i \in indices : RankIn(indices, i) = k - 1
    BY <1>1, <2>1
  <2> QED
    BY <1>2, <2>1, <2>2
<1>6. \A i \in indices : rank(i) \in 1..n
  <2> TAKE i \in indices
  <2> HIDE DEF n, rank
  <2>1. RankIn(indices, i) \in 0..(n - 1)
    BY <1>1
  <2> QED
    BY <1>1, <1>2, <2>1
<1> HIDE DEF rank, n
<1> DEFINE place == [k \in 1..n |-> CHOOSE i \in indices : rank(i) = k]
<1>7. \A k \in 1..n : place[k] \in indices /\ rank(place[k]) = k
  BY <1>5
<1>8. \A k \in 1..n : /\ Subframe(frame, indices)[k] = frame[place[k]]
                     /\ Subframe(other, indices)[k] = other[place[k]]
  BY <1>4
<1>9. place \in [1..n -> indices]
  BY <1>7
<1> HIDE DEF place
<1>10. \A i \in indices : \E k \in 1..n : place[k] = i
  BY <1>3, <1>6, <1>7
<1>11. \A k, l \in 1..n : place[k] = place[l] => k = l
  BY <1>7
<1> QED
  BY <1>8, <1>9, <1>10, <1>11 DEF n, IsListing

LEMMA SubframePlaces ==
  ASSUME NEW frame, NEW indices, IsFiniteSet(indices), indices \subseteq Nat
  PROVE  \E place : IsListing(place, frame, indices)
BY SubframesSharePlaces

\* And the row of every place is one of them.
LEMMA SubframeHoldsRows ==
  ASSUME NEW frame, NEW indices, IsFiniteSet(indices), indices \subseteq Nat, NEW x \in indices
  PROVE  \E k \in DOMAIN Subframe(frame, indices) : Subframe(frame, indices)[k] = frame[x]
<1> DEFINE n == Cardinality(indices)
<1>1. n \in Nat /\ DOMAIN Subframe(frame, indices) = 1..n
  BY SubframeIsFinite
<1>2. PICK place : IsListing(place, frame, indices)
  BY SubframePlaces
<1>3. PICK k \in 1..n : place[k] = x
  BY <1>2 DEF IsListing
<1>4. Subframe(frame, indices)[k] = frame[place[k]]
  BY <1>2 DEF IsListing
<1> QED
  BY <1>1, <1>3, <1>4

\* What a subframe is as a sequence.
LEMMA SubframeListsRows ==
  ASSUME NEW frame, NEW indices, IsFiniteSet(indices), indices \subseteq Nat,
         NEW S, \A i \in indices : frame[i] \in S
  PROVE  /\ Subframe(frame, indices) \in Seq(S)
         /\ Len(Subframe(frame, indices)) = Cardinality(indices)
         /\ DOMAIN Subframe(frame, indices) = 1..Cardinality(indices)
         /\ Cardinality(indices) \in Nat
         /\ ToSet(Subframe(frame, indices)) = {frame[i] : i \in indices}
         /\ (\A i, j \in indices : frame[i] = frame[j] => i = j) =>
              IsInjective(Subframe(frame, indices))
<1> DEFINE n == Cardinality(indices)
           f == Subframe(frame, indices)
<1>1. n \in Nat /\ DOMAIN f = 1..n
  BY SubframeIsFinite
<1>11. PICK place : IsListing(place, frame, indices)
  BY SubframePlaces
<1>2. /\ place \in [1..n -> indices]
      /\ \A i \in indices : \E k \in 1..n : place[k] = i
      /\ \A k, l \in 1..n : place[k] = place[l] => k = l
      /\ \A k \in 1..n : f[k] = frame[place[k]]
  BY <1>11 DEF IsListing, n, f
<1>0. f = [k \in 1..n |-> f[k]]
  <2>1. f = [k \in 1..n |-> frame[CHOOSE i \in indices :
                                   Cardinality({j \in indices : j <= i}) = k]]
    BY DEF Subframe, f, n
  <2> QED
    BY <2>1
<1>3. \A k \in 1..n : f[k] \in S
  BY <1>2
<1>4. f \in [1..n -> S]
  BY <1>0, <1>3
<1>5. f \in Seq(S) /\ Len(f) = n
  <2>1. f \in Seq(S)
    BY <1>1, <1>4
  <2>2. Len(f) \in Nat /\ DOMAIN f = 1..Len(f)
    BY <2>1
  <2>3. \A a, b \in Nat : 1..a = 1..b => a = b
    <3> TAKE a, b \in Nat
    <3>1. Cardinality(1..a) = a /\ Cardinality(1..b) = b
      BY FS_Interval
    <3> QED
      BY <3>1
  <2> QED
    BY <1>1, <2>1, <2>2, <2>3
<1>6. ToSet(f) = {frame[i] : i \in indices}
  <2>1. ASSUME NEW k \in DOMAIN f PROVE \E i \in indices : f[k] = frame[i]
    <3>1. k \in 1..n
      BY <1>1
    <3>2. place[k] \in indices /\ f[k] = frame[place[k]]
      BY <1>2, <3>1
    <3> QED
      BY <3>2
  <2>2. ASSUME NEW i \in indices PROVE \E k \in DOMAIN f : f[k] = frame[i]
    <3>1. PICK k \in 1..n : place[k] = i
      BY <1>2
    <3> QED
      BY <1>1, <1>2, <3>1
  <2> QED
    BY <2>1, <2>2 DEF ToSet
<1>7. ASSUME \A i, j \in indices : frame[i] = frame[j] => i = j
      PROVE  IsInjective(f)
  <2>1. ASSUME NEW k \in 1..n, NEW l \in 1..n, f[k] = f[l] PROVE k = l
    <3>1. place[k] \in indices /\ place[l] \in indices /\ frame[place[k]] = frame[place[l]]
      BY <1>2, <2>1
    <3>2. place[k] = place[l]
      BY <1>7, <3>1
    <3> QED
      BY <1>2, <3>2
  <2> QED
    BY <1>1, <2>1 DEF IsInjective
<1> QED
  BY <1>1, <1>5, <1>6, <1>7 DEF n, f

\* A sequence without repetitions has as many members as places; none has more.
LEMMA LengthOfDistinct ==
  ASSUME NEW S, NEW s \in Seq(S)
  PROVE  /\ IsFiniteSet(ToSet(s)) /\ Cardinality(ToSet(s)) \in Nat
         /\ Cardinality(ToSet(s)) <= Len(s)
         /\ IsInjective(s) => Cardinality(ToSet(s)) = Len(s)
<1> DEFINE D == 1..Len(s)
           g == [k \in D |-> s[k]]
<1>1. Len(s) \in Nat /\ DOMAIN s = D
  OBVIOUS
<1>2. IsFiniteSet(D) /\ Cardinality(D) = Len(s)
  BY <1>1, FS_Interval
<1>3. g \in [D -> ToSet(s)] /\ \A x \in ToSet(s) : \E k \in D : g[k] = x
  BY <1>1 DEF ToSet
<1>4. \A k \in D : g[k] = s[k]
  OBVIOUS
<1> HIDE DEF g, D
<1>5. g \in Surjection(D, ToSet(s))
  BY <1>3 DEF Surjection
<1>6. IsFiniteSet(ToSet(s)) /\ Cardinality(ToSet(s)) <= Cardinality(D)
  BY <1>2, <1>5, FS_Surjection
<1>7. (\A x, y \in D : g[x] = g[y] => x = y) => Cardinality(ToSet(s)) = Cardinality(D)
  BY <1>2, <1>3, ImageIsFinite
<1>8. IsInjective(s) => \A x, y \in D : g[x] = g[y] => x = y
  BY <1>1, <1>4 DEF IsInjective
<1>9. Cardinality(ToSet(s)) \in Nat
  BY <1>6, FS_CardinalityType
<1> QED
  BY <1>2, <1>6, <1>7, <1>8, <1>9

\* The rows outside a set.
LEMMA WithoutLeaves ==
  ASSUME NEW S, NEW s \in Seq(S), NEW R
  PROVE  /\ Without(s, R) \in Seq(S)
         /\ ToSet(Without(s, R)) = ToSet(s) \ R
         /\ Len(Without(s, R)) <= Len(s)
         /\ IsInjective(s) => IsInjective(Without(s, R))
<1> DEFINE kept == {i \in DOMAIN s : s[i] \notin R}
<1>1. /\ DOMAIN s = 1..Len(s) /\ Len(s) \in Nat
      /\ IsFiniteSet(1..Len(s)) /\ Cardinality(1..Len(s)) = Len(s)
  <2>1. DOMAIN s = 1..Len(s) /\ Len(s) \in Nat
    OBVIOUS
  <2> QED
    BY <2>1, FS_Interval
<1>2. kept \subseteq 1..Len(s) /\ \A i \in kept : s[i] \in S
  BY <1>1
<1>3. IsFiniteSet(kept) /\ Cardinality(kept) <= Len(s) /\ kept \subseteq Nat
  BY <1>1, <1>2, FS_Subset
<1>4. Without(s, R) = Subframe(s, kept)
  BY DEF Without
<1> HIDE DEF kept
<1>5. /\ Subframe(s, kept) \in Seq(S)
      /\ Len(Subframe(s, kept)) = Cardinality(kept)
      /\ DOMAIN Subframe(s, kept) = 1..Cardinality(kept)
      /\ Cardinality(kept) \in Nat
      /\ ToSet(Subframe(s, kept)) = {s[i] : i \in kept}
      /\ (\A i, j \in kept : s[i] = s[j] => i = j) => IsInjective(Subframe(s, kept))
  BY <1>2, <1>3, SubframeListsRows, Zenon
<1>6. {s[i] : i \in kept} = ToSet(s) \ R
  BY DEF kept, ToSet
<1>7. IsInjective(s) => \A i, j \in kept : s[i] = s[j] => i = j
  BY <1>1, <1>2 DEF IsInjective
<1> QED
  BY <1>3, <1>4, <1>5, <1>6, <1>7

\* The first row of each value.
LEMMA FirstOfLists ==
  ASSUME NEW S, NEW s \in Seq(S)
  PROVE  /\ FirstOf(s) \in Seq(S)
         /\ ToSet(FirstOf(s)) = ToSet(s)
         /\ IsInjective(FirstOf(s))
<1> DEFINE kept == {i \in DOMAIN s : \A j \in 1..(i - 1) : s[j] # s[i]}
<1>1. DOMAIN s = 1..Len(s) /\ Len(s) \in Nat /\ IsFiniteSet(1..Len(s))
  BY FS_Interval
<1>2. kept \subseteq 1..Len(s) /\ \A i \in kept : s[i] \in S
  BY <1>1
<1>3. IsFiniteSet(kept) /\ kept \subseteq Nat
  BY <1>1, <1>2, FS_Subset
<1>4. FirstOf(s) = Subframe(s, kept)
  BY DEF FirstOf
<1>6. ASSUME NEW x \in ToSet(s) PROVE \E i \in kept : s[i] = x
  <2> DEFINE same == {i \in DOMAIN s : s[i] = x}
  <2>1. same \subseteq Nat /\ same # {}
    BY <1>1 DEF ToSet
  <2>2. PICK m \in same : \A i \in same : m <= i
    BY <2>1, LeastNumber
  <2>3. m \in DOMAIN s /\ s[m] = x
    BY <2>2
  <2>4. ASSUME NEW j \in 1..(m - 1) PROVE s[j] # s[m]
    <3>1. j \in DOMAIN s /\ ~(m <= j)
      BY <1>1, <2>3
    <3>2. j \notin same
      BY <2>2, <3>1
    <3> QED
      BY <2>3, <3>1, <3>2
  <2> QED
    BY <2>3, <2>4
<1>7. ASSUME NEW i \in kept, NEW j \in kept, s[i] = s[j] PROVE i = j
  <2>1. i \in Nat \ {0} /\ j \in Nat \ {0}
    BY <1>1
  <2>2. j < i => j \in 1..(i - 1)
    BY <2>1
  <2>3. i < j => i \in 1..(j - 1)
    BY <2>1
  <2>4. j < i => s[j] # s[i]
    BY <2>2
  <2>5. i < j => s[i] # s[j]
    BY <2>3
  <2> QED
    BY <1>7, <2>1, <2>4, <2>5
<1> HIDE DEF kept
<1>5. /\ Subframe(s, kept) \in Seq(S)
      /\ Len(Subframe(s, kept)) = Cardinality(kept)
      /\ DOMAIN Subframe(s, kept) = 1..Cardinality(kept)
      /\ Cardinality(kept) \in Nat
      /\ ToSet(Subframe(s, kept)) = {s[i] : i \in kept}
      /\ (\A i, j \in kept : s[i] = s[j] => i = j) => IsInjective(Subframe(s, kept))
  BY <1>2, <1>3, SubframeListsRows, Zenon
<1>8. {s[i] : i \in kept} = ToSet(s)
  BY <1>1, <1>2, <1>6 DEF ToSet
<1> QED
  BY <1>4, <1>5, <1>7, <1>8

\* The rows of a frame with no negative time.
Timed(frame) ==
  \E n \in Nat : DOMAIN frame = 1..n /\ \A i \in 1..n : frame[i].time \in Nat

\* Past the refusals, the roles follow one another in time and share out the rows.
LEMMA RolesAreApart ==
  ASSUME NEW frame, Timed(frame), Trainable(frame)
  PROVE  /\ RolesFollow(TimeRoles(frame))
         /\ UNION {ToSet(TimeRoles(frame)[role]) : role \in Roles} = ToSet(frame)
<1> DEFINE T == TimesOf(frame)
           block(i) == BlockOf(T, frame[i].time, 20)
           rows(role) == {i \in DOMAIN frame : TimeRole(frame, i) = role}
<1>1. PICK n \in Nat : DOMAIN frame = 1..n /\ \A i \in 1..n : frame[i].time \in Nat
  BY DEF Timed
<1>2. IsFiniteSet(T) /\ T \subseteq Nat /\ \A i \in DOMAIN frame : frame[i].time \in T
  <2>1. IsFiniteSet(DOMAIN frame)
    BY <1>1, IntervalIsFinite
  <2> DEFINE g == [i \in DOMAIN frame |-> frame[i].time]
  <2>2. g \in [DOMAIN frame -> T] /\ (\A t \in T : \E i \in DOMAIN frame : g[i] = t)
    BY DEF ToSet, TimesOf
  <2>3. T \subseteq Nat
    BY <1>1 DEF ToSet, TimesOf
  <2>4. \A i \in DOMAIN frame : frame[i].time \in T
    BY DEF ToSet, TimesOf
  <2> HIDE DEF g, T
  <2> QED
    BY <2>1, <2>2, <2>3, <2>4, ImageIsFinite
<1>3. /\ \A t, u \in T : t <= u => BlockOf(T, t, 20) <= BlockOf(T, u, 20)
      /\ \A t \in T : BlockOf(T, t, 20) \in Nat
  <2>1. Cardinality(T) >= 20
    BY DEF Trainable
  <2> HIDE DEF T
  <2>2. 20 \in Nat \ {0}
    OBVIOUS
  <2>3. \A b \in Nat \ {0} : Cardinality(T) >= b =>
          /\ \A t, u \in T : t <= u => BlockOf(T, t, b) <= BlockOf(T, u, b)
          /\ \A t \in T : BlockOf(T, t, b) \in Nat
    BY <1>2, BlocksAscend
  <2> QED
    BY <2>1, <2>2, <2>3
<1>4. \A i, j \in DOMAIN frame :
        /\ block(i) \in Nat /\ block(j) \in Nat
        /\ frame[i].time \in Nat /\ frame[j].time \in Nat
        /\ block(i) < block(j) => frame[i].time < frame[j].time
  <2> TAKE i, j \in DOMAIN frame
  <2> DEFINE t == frame[i].time
             u == frame[j].time
  <2> HIDE DEF T
  <2>1. t \in T /\ u \in T /\ t \in Nat /\ u \in Nat
    BY <1>2
  <2>2. block(i) = BlockOf(T, t, 20) /\ block(j) = BlockOf(T, u, 20)
    OBVIOUS
  <2> HIDE DEF t, u, block
  <2>3. u <= t => BlockOf(T, u, 20) <= BlockOf(T, t, 20)
    BY <1>3, <2>1, Zenon
  <2>4. BlockOf(T, t, 20) \in Nat /\ BlockOf(T, u, 20) \in Nat
    BY <1>3, <2>1
  <2>5. block(i) < block(j) => t < u
    BY <2>1, <2>2, <2>3, <2>4
  <2> QED
    BY <2>1, <2>2, <2>4, <2>5 DEF t, u
<1>5. \A i \in DOMAIN frame : TimeRole(frame, i) =
        CASE block(i) < 10 -> "model_fit"
          [] block(i) \in 10..12 -> "calibrator_fit"
          [] block(i) \in 13..15 -> "threshold_selection"
          [] OTHER -> "evaluation"
  <2> HIDE DEF T
  <2> QED
    BY Zenon DEF TimeRole, T
<1> HIDE DEF T, block
<1>6. \A i \in DOMAIN frame :
        /\ TimeRole(frame, i) \in Roles
        /\ TimeRole(frame, i) = "model_fit" => block(i) < 10
        /\ TimeRole(frame, i) = "calibrator_fit" => block(i) \in 10..12
        /\ TimeRole(frame, i) = "threshold_selection" => block(i) \in 13..15
        /\ TimeRole(frame, i) = "evaluation" => block(i) > 15
  BY <1>4, <1>5 DEF Roles
<1>7. ASSUME NEW role \in Roles
      PROVE  /\ \A r \in ToSet(TimeRoles(frame)[role]) : \E i \in rows(role) : r = frame[i]
             /\ \A i \in rows(role) : frame[i] \in ToSet(TimeRoles(frame)[role])
  <2>1. IsFiniteSet(rows(role)) /\ rows(role) \subseteq Nat
    <3>1. IsFiniteSet(DOMAIN frame) /\ rows(role) \subseteq DOMAIN frame
      BY <1>1, IntervalIsFinite
    <3> QED
      BY <1>1, <3>1, FS_Subset
  <2>2. TimeRoles(frame)[role] = Subframe(frame, rows(role))
    BY DEF TimeRoles
  <2> HIDE DEF rows
  <2>3. ASSUME NEW r \in ToSet(Subframe(frame, rows(role)))
        PROVE  \E i \in rows(role) : r = frame[i]
    <3>1. PICK k \in DOMAIN Subframe(frame, rows(role)) : r = Subframe(frame, rows(role))[k]
      BY DEF ToSet
    <3>2. rows(role) \in SUBSET Int
      BY <2>1
    <3> QED
      BY <2>1, <3>1, <3>2, SubframeRows
  <2>4. ASSUME NEW i \in rows(role)
        PROVE  frame[i] \in ToSet(Subframe(frame, rows(role)))
    <3>1. \E k \in DOMAIN Subframe(frame, rows(role)) : Subframe(frame, rows(role))[k] = frame[i]
      BY <2>1, SubframeHoldsRows
    <3> QED
      BY <3>1 DEF ToSet
  <2> QED
    BY <2>2, <2>3, <2>4
<1>8. RolesFollow(TimeRoles(frame))
  <2> DEFINE order == <<"model_fit", "calibrator_fit", "threshold_selection", "evaluation">>
  <2>1. \A p \in 1..4 : order[p] \in Roles
    BY DEF Roles
  <2>2. ASSUME NEW p \in 1..4, NEW q \in 1..4, p < q,
               NEW i \in rows(order[p]), NEW j \in rows(order[q])
        PROVE  block(i) < block(j)
    <3>1. /\ i \in DOMAIN frame /\ TimeRole(frame, i) = order[p]
          /\ j \in DOMAIN frame /\ TimeRole(frame, j) = order[q]
      OBVIOUS
    <3>2. block(i) \in Nat /\ block(j) \in Nat
      BY <1>4, <3>1
    <3> QED
      BY <1>6, <2>2, <3>1, <3>2
  <2> HIDE DEF order, rows
  <2>3. ASSUME NEW p \in 1..4, NEW q \in 1..4, p < q,
               NEW r \in ToSet(TimeRoles(frame)[order[p]]),
               NEW s \in ToSet(TimeRoles(frame)[order[q]])
        PROVE  r.time < s.time
    <3>1. PICK i \in rows(order[p]) : r = frame[i]
      BY <1>7, <2>1
    <3>2. PICK j \in rows(order[q]) : s = frame[j]
      BY <1>7, <2>1
    <3>3. i \in DOMAIN frame /\ j \in DOMAIN frame
      BY DEF rows
    <3>4. block(i) < block(j)
      BY <2>2, <2>3
    <3> QED
      BY <1>4, <3>1, <3>2, <3>3, <3>4
  <2> QED
    BY <2>3 DEF RolesFollow, order
<1>9. UNION {ToSet(TimeRoles(frame)[role]) : role \in Roles} = ToSet(frame)
  <2>1. \A role \in Roles : ToSet(TimeRoles(frame)[role]) \subseteq ToSet(frame)
    BY <1>7 DEF ToSet
  <2>2. ASSUME NEW r \in ToSet(frame)
        PROVE  \E role \in Roles : r \in ToSet(TimeRoles(frame)[role])
    <3>1. PICK i \in DOMAIN frame : r = frame[i]
      BY DEF ToSet
    <3>2. TimeRole(frame, i) \in Roles /\ i \in rows(TimeRole(frame, i))
      BY <1>6, <3>1
    <3> HIDE DEF rows
    <3> QED
      BY <1>7, <3>1, <3>2
  <2> QED
    BY <2>1, <2>2
<1> QED
  BY <1>8, <1>9

-----------------------------------------------------------------------------
(* DataRoles: the sizes of the roles, the counts and the two bundles *)

\* The rows of a role.
RowsOfTimeRole(frame, role) == {i \in DOMAIN frame : TimeRole(frame, i) = role}

\* Two sets that share no member.
LEMMA TwoParts ==
  ASSUME NEW A, IsFiniteSet(A), NEW B, IsFiniteSet(B), A \cap B = {}
  PROVE  /\ IsFiniteSet(A \cup B)
         /\ Cardinality(A \cup B) = Cardinality(A) + Cardinality(B)
<1>1. Cardinality(A) \in Nat /\ Cardinality(B) \in Nat /\ Cardinality({}) = 0
  BY FS_CardinalityType, FS_EmptySet
<1>2. /\ IsFiniteSet(A \cup B)
      /\ Cardinality(A \cup B) = Cardinality(A) + Cardinality(B) - Cardinality(A \cap B)
  BY FS_Union
<1>3. Cardinality(A \cap B) = 0
  BY <1>1, Zenon
<1> QED
  BY ONLY <1>1, <1>2, <1>3

\* Each row plays one of the roles, whatever its time.
LEMMA RolesShareOut ==
  ASSUME NEW S, NEW frame \in Seq(S)
  PROVE  /\ \A role \in Roles :
              /\ TimeRoles(frame)[role] \in Seq(S)
              /\ Len(TimeRoles(frame)[role]) = Cardinality(RowsOfTimeRole(frame, role))
         /\ MapThenSumSet(LAMBDA role : [r \in Roles |-> Len(TimeRoles(frame)[r])][role], Roles)
              = Len(frame)
<1> DEFINE rows(role) == RowsOfTimeRole(frame, role)
           sizes == [r \in Roles |-> Len(TimeRoles(frame)[r])]
           D == 1..Len(frame)
<1>1. /\ DOMAIN frame = D /\ Len(frame) \in Nat
      /\ IsFiniteSet(D) /\ Cardinality(D) = Len(frame)
  <2>1. DOMAIN frame = D /\ Len(frame) \in Nat
    OBVIOUS
  <2> QED
    BY <2>1, FS_Interval
<1>2. ASSUME NEW role \in Roles
      PROVE  /\ IsFiniteSet(rows(role)) /\ Cardinality(rows(role)) \in Nat
             /\ TimeRoles(frame)[role] \in Seq(S)
             /\ Len(TimeRoles(frame)[role]) = Cardinality(rows(role))
  <2> DEFINE R == rows(role)
  <2>1. R \subseteq D /\ \A i \in R : frame[i] \in S
    BY <1>1 DEF RowsOfTimeRole
  <2>2. IsFiniteSet(R) /\ R \subseteq Nat
    BY <1>1, <2>1, FS_Subset
  <2>3. TimeRoles(frame)[role] = Subframe(frame, R)
    BY DEF TimeRoles, RowsOfTimeRole
  <2> HIDE DEF R
  <2>4. /\ Subframe(frame, R) \in Seq(S)
        /\ Len(Subframe(frame, R)) = Cardinality(R)
        /\ DOMAIN Subframe(frame, R) = 1..Cardinality(R)
        /\ Cardinality(R) \in Nat
        /\ ToSet(Subframe(frame, R)) = {frame[i] : i \in R}
        /\ (\A i, j \in R : frame[i] = frame[j] => i = j) => IsInjective(Subframe(frame, R))
    BY <2>1, <2>2, SubframeListsRows, Zenon
  <2> QED
    BY <2>2, <2>3, <2>4 DEF R
<1> DEFINE A == rows("model_fit")
           B == rows("calibrator_fit")
           C == rows("threshold_selection")
           E == rows("evaluation")
<1>3. \A i \in D : TimeRole(frame, i) \in Roles
  <2> TAKE i \in D
  <2> DEFINE block == BlockOf(TimesOf(frame), frame[i].time, 20)
  <2>1. TimeRole(frame, i) = CASE block < 10 -> "model_fit"
                               [] block \in 10..12 -> "calibrator_fit"
                               [] block \in 13..15 -> "threshold_selection"
                               [] OTHER -> "evaluation"
    BY Zenon DEF TimeRole
  <2> HIDE DEF block
  <2> QED
    BY <2>1 DEF Roles
<1>4. /\ A \cup B \cup C \cup E = D
      /\ A \cap B = {} /\ (A \cup B) \cap C = {} /\ (A \cup B \cup C) \cap E = {}
  BY <1>1, <1>3 DEF RowsOfTimeRole, Roles
<1>5. /\ IsFiniteSet(A) /\ IsFiniteSet(B) /\ IsFiniteSet(C) /\ IsFiniteSet(E)
      /\ Cardinality(A) \in Nat /\ Cardinality(B) \in Nat
      /\ Cardinality(C) \in Nat /\ Cardinality(E) \in Nat
  BY <1>2 DEF Roles
<1>6. /\ sizes \in [Roles -> Nat]
      /\ sizes["model_fit"] = Cardinality(A) /\ sizes["calibrator_fit"] = Cardinality(B)
      /\ sizes["threshold_selection"] = Cardinality(C) /\ sizes["evaluation"] = Cardinality(E)
  <2>1. \A role \in Roles : sizes[role] = Cardinality(rows(role))
    BY <1>2
  <2>2. \A role \in Roles : sizes[role] \in Nat
    BY <1>2, <2>1
  <2> QED
    BY <2>1, <2>2 DEF Roles
<1> HIDE DEF A, B, C, E, D
<1>7. Cardinality(D) = Cardinality(A) + Cardinality(B) + Cardinality(C) + Cardinality(E)
  <2>1. IsFiniteSet(A \cup B) /\ Cardinality(A \cup B) = Cardinality(A) + Cardinality(B)
    BY <1>4, <1>5, TwoParts
  <2>2. /\ IsFiniteSet(A \cup B \cup C)
        /\ Cardinality(A \cup B \cup C) = Cardinality(A \cup B) + Cardinality(C)
    BY <1>4, <1>5, <2>1, TwoParts
  <2>3. Cardinality(A \cup B \cup C \cup E) = Cardinality(A \cup B \cup C) + Cardinality(E)
    BY <1>4, <1>5, <2>2, TwoParts
  <2> QED
    BY <1>4, <1>5, <2>1, <2>2, <2>3
<1> HIDE DEF sizes
<1>8. IsFiniteSet(Roles)
  <2>1. IsFiniteSet({}) /\ IsFiniteSet({"model_fit"})
    BY FS_EmptySet, FS_Singleton
  <2>2. IsFiniteSet({"model_fit"} \cup {"calibrator_fit"})
    BY <2>1, FS_AddElement
  <2>3. IsFiniteSet(({"model_fit"} \cup {"calibrator_fit"}) \cup {"threshold_selection"})
    BY <2>2, FS_AddElement
  <2>4. IsFiniteSet((({"model_fit"} \cup {"calibrator_fit"}) \cup {"threshold_selection"})
                      \cup {"evaluation"})
    BY <2>3, FS_AddElement
  <2>5. Roles = (({"model_fit"} \cup {"calibrator_fit"}) \cup {"threshold_selection"})
                  \cup {"evaluation"}
    BY DEF Roles
  <2> QED
    BY <2>4, <2>5
<1>9. Sums(sizes, Roles)[Roles] =
        sizes["model_fit"] + (sizes["calibrator_fit"]
          + (sizes["threshold_selection"] + (sizes["evaluation"] + 0)))
  <2>1. \A u \in SUBSET Roles : \A y \in u :
          Sums(sizes, Roles)[u] = sizes[y] + Sums(sizes, Roles)[u \ {y}]
    BY <1>6, <1>8, SumsApart
  <2>2. Sums(sizes, Roles)[{}] = 0
    BY <1>6, <1>8, SumsAreNumbers
  <2> DEFINE r1 == {"calibrator_fit", "threshold_selection", "evaluation"}
             r2 == {"threshold_selection", "evaluation"}
             r3 == {"evaluation"}
  <2>3. /\ Roles \in SUBSET Roles /\ "model_fit" \in Roles /\ Roles \ {"model_fit"} = r1
        /\ r1 \in SUBSET Roles /\ "calibrator_fit" \in r1 /\ r1 \ {"calibrator_fit"} = r2
        /\ r2 \in SUBSET Roles /\ "threshold_selection" \in r2
        /\ r2 \ {"threshold_selection"} = r3
        /\ r3 \in SUBSET Roles /\ "evaluation" \in r3 /\ r3 \ {"evaluation"} = {}
    BY DEF Roles
  <2> HIDE DEF r1, r2, r3
  <2>4. Sums(sizes, Roles)[Roles] = sizes["model_fit"] + Sums(sizes, Roles)[r1]
    BY <2>1, <2>3
  <2>5. Sums(sizes, Roles)[r1] = sizes["calibrator_fit"] + Sums(sizes, Roles)[r2]
    BY <2>1, <2>3
  <2>6. Sums(sizes, Roles)[r2] = sizes["threshold_selection"] + Sums(sizes, Roles)[r3]
    BY <2>1, <2>3
  <2>7. Sums(sizes, Roles)[r3] = sizes["evaluation"] + Sums(sizes, Roles)[{}]
    BY <2>1, <2>3
  <2> QED
    BY <2>2, <2>4, <2>5, <2>6, <2>7
<1>10. Sums(sizes, Roles)[Roles] = Len(frame)
  BY <1>1, <1>5, <1>6, <1>7, <1>9
<1>11. MapThenSumSet(LAMBDA role : sizes[role], Roles) = Sums(sizes, Roles)[Roles]
  BY SumsDef
<1> QED
  BY <1>2, <1>10, <1>11 DEF sizes

\* The best of the three methods is ahead of the two others.
LEMMA BestIsAhead ==
  ASSUME NEW table \in Comparisons
  PROVE  /\ BestMethod(table) \in 1..3
         /\ table[BestMethod(table)].brier <= table[1].brier
<1> DEFINE ahead(m, n) ==
      \/ table[m].brier < table[n].brier
      \/ table[m].brier = table[n].brier /\ table[m].error < table[n].error
      \/ table[m].brier = table[n].brier /\ table[m].error = table[n].error /\ m < n
    best == CHOOSE m \in 1..3 : \A n \in 1..3 \ {m} : ahead(m, n)
<1>1. \A m \in 1..3 : table[m].brier \in Int /\ table[m].error \in Int
  BY LessonAssumption
<1>2. /\ 1..3 = {1, 2, 3} /\ 1 \in 1..3 /\ 2 \in 1..3 /\ 3 \in 1..3
      /\ 1..3 \ {1} = {2, 3} /\ 1..3 \ {2} = {1, 3} /\ 1..3 \ {3} = {1, 2}
  OBVIOUS
<1>3. /\ table[1].brier \in Int /\ table[2].brier \in Int /\ table[3].brier \in Int
      /\ table[1].error \in Int /\ table[2].error \in Int /\ table[3].error \in Int
  BY <1>1
<1>4. \/ ahead(1, 2) /\ ahead(1, 3)
      \/ ahead(2, 1) /\ ahead(2, 3)
      \/ ahead(3, 1) /\ ahead(3, 2)
  BY <1>3
<1>5. \E m \in 1..3 : \A n \in 1..3 \ {m} : ahead(m, n)
  <2> HIDE DEF ahead
  <2> QED
    BY <1>2, <1>4
<1>6. best \in 1..3 /\ \A n \in 1..3 \ {best} : ahead(best, n)
  <2> HIDE DEF ahead
  <2> QED
    BY <1>5
<1>7. BestMethod(table) = best
  BY Zenon DEF BestMethod
<1> HIDE DEF best
<1>8. best # 1 => ahead(best, 1)
  BY <1>6
<1> QED
  BY <1>1, <1>6, <1>7, <1>8

\* A method other than the identity is better than it by the margin.
LEMMA CalibrationPays ==
  ASSUME NEW table \in Comparisons, NEW margin \in 0..1
  PROVE  /\ CalibrationMethod(table, margin) \in {"identity", "platt", "isotonic"}
         /\ CalibrationMethod(table, margin) # "identity" =>
              \E m \in 2..3 : /\ Methods[m] = CalibrationMethod(table, margin)
                              /\ table[m].brier <= table[1].brier - margin
<1> DEFINE best == BestMethod(table)
<1>1. best \in 1..3
  BY BestIsAhead
<1>2. CalibrationMethod(table, margin) =
        IF best # 1 /\ table[1].brier - table[best].brier >= margin THEN Methods[best]
        ELSE Methods[1]
  BY DEF CalibrationMethod
<1> HIDE DEF best
<1>3. \A m \in 1..3 : table[m].brier \in Int
  BY LessonAssumption
<1>4. table[1].brier - table[best].brier >= margin => table[best].brier <= table[1].brier - margin
  BY <1>1, <1>3
<1>5. Methods[1] = "identity" /\ \A m \in 1..3 : Methods[m] \in {"identity", "platt", "isotonic"}
  BY DEF Methods
<1> QED
  BY <1>1, <1>2, <1>4, <1>5

\* What is declared of rows that are labelled adds up.
LEMMA CountsAddUp ==
  ASSUME NEW S, NEW s \in Seq(S), \A i \in DOMAIN s : s[i].label \in {0, 1}
  PROVE  /\ Declared(s).rows = Len(s)
         /\ Declared(s).rows = Declared(s).legitimate + Declared(s).fraud
         /\ Declared(s).legitimate \in Nat /\ Declared(s).fraud \in Nat
         /\ Declared(s).duplicates \in 0..Len(s)
         /\ IsInjective(s) => Declared(s).duplicates = 0
         /\ Declared(s).fraud > 0 <=> 1 \in LabelsOf(s)
         /\ Declared(s).legitimate > 0 <=> 0 \in LabelsOf(s)
<1> DEFINE D == 1..Len(s)
           F == {i \in DOMAIN s : s[i].label = 1}
           L == {i \in DOMAIN s : s[i].label = 0}
<1>1. DOMAIN s = D /\ Len(s) \in Nat /\ IsFiniteSet(D) /\ Cardinality(D) = Len(s)
  <2>1. DOMAIN s = D /\ Len(s) \in Nat
    OBVIOUS
  <2> QED
    BY <2>1, FS_Interval
<1>2. F \subseteq D /\ L \subseteq D /\ F \cap L = {} /\ L \cup F = D /\ L \cap F = {}
  BY <1>1
<1>3. /\ Declared(s).rows = Len(s)
      /\ Declared(s).fraud = Cardinality(F)
      /\ Declared(s).legitimate = Cardinality(L)
      /\ Declared(s).duplicates = Len(s) - Cardinality(ToSet(s))
  BY DEF Declared
<1>4. (F # {} <=> 1 \in LabelsOf(s)) /\ (L # {} <=> 0 \in LabelsOf(s))
  BY DEF LabelsOf, ToSet
<1> HIDE DEF D, F, L
<1>5. IsFiniteSet(F) /\ IsFiniteSet(L)
  BY <1>1, <1>2, FS_Subset
<1>6. Cardinality(F) \in Nat /\ Cardinality(L) \in Nat
  BY <1>5, FS_CardinalityType
<1>7. (Cardinality(F) = 0 <=> F = {}) /\ (Cardinality(L) = 0 <=> L = {})
  BY <1>5, FS_EmptySet
<1>8. Len(s) = Cardinality(L) + Cardinality(F)
  <2>1. Cardinality(L \cup F) = Cardinality(L) + Cardinality(F)
    BY <1>2, <1>5, TwoParts
  <2>2. Cardinality(L \cup F) = Cardinality(D)
    BY <1>2
  <2> QED
    BY <1>1, <2>1, <2>2
<1>9. /\ IsFiniteSet(ToSet(s)) /\ Cardinality(ToSet(s)) \in Nat
      /\ Cardinality(ToSet(s)) <= Len(s)
      /\ IsInjective(s) => Cardinality(ToSet(s)) = Len(s)
  BY LengthOfDistinct
<1>10. Declared(s).duplicates \in 0..Len(s) /\ (IsInjective(s) => Declared(s).duplicates = 0)
  BY <1>1, <1>3, <1>9
<1>11. (Declared(s).fraud > 0 <=> F # {}) /\ (Declared(s).legitimate > 0 <=> L # {})
  BY <1>3, <1>6, <1>7
<1> QED
  BY <1>3, <1>4, <1>6, <1>8, <1>10, <1>11

\* The classes of an estimator that was fitted on both labels.
LEMMA BothAscend == Ascending({0, 1}) = <<0, 1>>
<1> DEFINE L == {0, 1}
<1>1. IsFiniteSet({0}) /\ Cardinality({0}) = 1 /\ Cardinality({}) = 0
  BY FS_EmptySet, FS_Singleton
<1>2. Cardinality(L) = 2
  <2>1. Cardinality({0} \cup {1}) = Cardinality({0}) + 1
    BY <1>1, FS_AddElement
  <2>2. {0} \cup {1} = L
    OBVIOUS
  <2> QED
    BY <1>1, <2>1, <2>2
<1> DEFINE below(l) == {m \in L : m < l}
           at(k) == CHOOSE l \in L : Cardinality(below(l)) = k - 1
<1>3. Cardinality(below(0)) = 0 /\ Cardinality(below(1)) = 1
  <2>1. below(0) = {} /\ below(1) = {0}
    OBVIOUS
  <2> HIDE DEF below
  <2> QED
    BY <1>1, <2>1
<1>4. at(1) = 0 /\ at(2) = 1
  <2> HIDE DEF below
  <2>1. \A l \in L : Cardinality(below(l)) = 1 - 1 <=> l = 0
    BY <1>3
  <2>2. \A l \in L : Cardinality(below(l)) = 2 - 1 <=> l = 1
    BY <1>3
  <2> QED
    BY <2>1, <2>2
<1>5. Ascending(L) = [k \in 1..Cardinality(L) |-> at(k)]
  BY DEF Ascending
<1> HIDE DEF at, below, L
<1>6. Ascending(L) = [k \in 1..2 |-> at(k)]
  BY <1>2, <1>5, Zenon
<1>7. [k \in 1..2 |-> at(k)] = <<0, 1>>
  BY <1>4
<1> QED
  BY <1>6, <1>7 DEF L

\* What is fitted on both labels agrees with the contract.
LEMMA FittedAgrees ==
  ComponentsAgree(FittedOn({0, 1})) /\ TellsClasses(FittedOn({0, 1}))
<1> DEFINE gives == Scaled \o PassedOn
           c == FittedOn({0, 1})
<1> DEFINE N == {"Time", "Amount", "V1"}
<1>1. /\ Scaled \in Seq(N) /\ Len(Scaled) = 2 /\ Scaled[1] = "Time" /\ Scaled[2] = "Amount"
      /\ PassedOn \in Seq(N) /\ Len(PassedOn) = 1 /\ PassedOn[1] = "V1"
  BY DEF Scaled, PassedOn
<1> HIDE DEF N
<1>2. /\ Len(gives) = 3 /\ DOMAIN gives = 1..3
      /\ gives[1] = "Time" /\ gives[2] = "Amount" /\ gives[3] = "V1"
  <2>1. /\ gives \in Seq(N) /\ Len(gives) = Len(Scaled) + Len(PassedOn)
        /\ \A i \in 1..(Len(Scaled) + Len(PassedOn)) :
             gives[i] = IF i <= Len(Scaled) THEN Scaled[i] ELSE PassedOn[i - Len(Scaled)]
    BY <1>1, ConcatProperties
  <2> HIDE DEF gives
  <2> QED
    BY <1>1, <2>1
<1>3. \A i, j \in 1..3 : gives[i] = gives[j] => i = j
  <2> HIDE DEF gives
  <2> QED
    BY <1>2
<1>4. c.takes = Schema /\ c.gives = gives /\ c.fits = gives /\ c.classes = Ascending({0, 1})
  BY DEF FittedOn
<1>5. Len(Schema) = 3
  BY DEF Schema
<1> HIDE DEF gives, c
<1>6. ComponentsAgree(c)
  BY <1>2, <1>3, <1>4, <1>5 DEF ComponentsAgree
<1>7. TellsClasses(c)
  BY <1>4, BothAscend DEF TellsClasses
<1> QED
  BY <1>6, <1>7 DEF c

\* The development bundle of an input that is not refused passes both validators.
LEMMA DevelopmentIsValid ==
  ASSUME NEW frame,
         \A role \in Roles : /\ Declared(TimeRoles(frame)[role]) # Nothing
                             /\ ValidCounts(Declared(TimeRoles(frame)[role])),
         LabelsOf(TimeRoles(frame)["model_fit"]) = {0, 1},
         NEW method
  PROVE  /\ ValidBundle(DevelopmentBundle(frame, method, 50))
         /\ ValidManifest(Manifest(DevelopmentBundle(frame, method, 50), 0), 0)
<1> DEFINE b == DevelopmentBundle(frame, method, 50)
           roles == [role \in Roles |-> Declared(TimeRoles(frame)[role])]
           calibrated == method # "identity"
           policy == Policies["development"]
<1>1. /\ b.features = Schema /\ b.threshold = 50 /\ b.use = IntendedUse("development")
      /\ b.components = FittedOn({0, 1}) /\ b.calibrator = calibrated
      /\ b.score = (IF calibrated THEN "calibrated_probability" ELSE "raw_score")
      /\ b.training = Training("development", roles, QuarantineChecked)
      /\ b.fingerprint = b.training.rolesSha
      /\ b.said = ThresholdSaid("development", 50, calibrated)
      /\ b.reference = Nothing
  BY DEF DevelopmentBundle
<1>2. /\ b.training.policy = "development" /\ b.training.roles = roles
      /\ b.training.rolesSha = roles /\ b.training.quarantine = QuarantineChecked
      /\ b.said.value = 50 /\ b.said.calibrated = calibrated
  BY <1>1 DEF Training, ThresholdSaid
<1>3. /\ "development" \in DOMAIN Policies
      /\ policy.category = "development_evidence" /\ policy.roles = Roles
      /\ policy.fixed = Nothing /\ policy.bindsScore = TRUE
  BY DEF Policies
<1>4. /\ b.use.policy = "development" /\ b.use.category = "development_evidence"
      /\ b.use.claims \in [Claims -> BOOLEAN]
  <2> DEFINE claims == [c \in Claims |-> c \in Policies["development"].claims]
  <2>1. claims \in [Claims -> BOOLEAN]
    OBVIOUS
  <2> HIDE DEF claims
  <2>2. IntendedUse("development") =
          [policy |-> "development", policySha |-> Policies["development"],
           category |-> Policies["development"].category, claims |-> claims]
    BY Zenon DEF IntendedUse, claims
  <2>3. /\ IntendedUse("development").policy = "development"
        /\ IntendedUse("development").category = Policies["development"].category
        /\ IntendedUse("development").claims = claims
    BY <2>2
  <2> QED
    BY <1>1, <1>3, <2>1, <2>3
<1>5. /\ \A role \in Roles : roles[role] # Nothing /\ ValidCounts(roles[role])
      /\ "model_fit" \in Roles
  BY DEF Roles
<1>6. QuarantineChecked # Nothing /\ ValidQuarantine(QuarantineChecked)
  BY NullAssumption DEF QuarantineChecked, ValidQuarantine, Quarantine
<1> HIDE DEF b, roles, policy
<1>7. DeclaredRoles(roles) = Roles /\ ValidRoles(roles)
  BY <1>5 DEF DeclaredRoles, ValidRoles
<1>8. BindsScore(b)
  BY <1>1 DEF BindsScore
<1>9. BindsPolicy(b)
  <2>1. Tracked(b.use.policy) /\ Policies[b.use.policy] = policy
    BY <1>3, <1>4 DEF Tracked, policy
  <2>2. b.said.calibrated = (policy.bindsScore /\ b.score = "calibrated_probability")
    <3>1. calibrated <=> b.score = "calibrated_probability"
      BY <1>1
    <3>2. calibrated \in BOOLEAN
      OBVIOUS
    <3> HIDE DEF calibrated
    <3> QED
      BY <1>2, <1>3, <3>1, <3>2, Zenon
  <2>3. b.use = IntendedUse(b.use.policy) /\ b.training.policy = b.use.policy
    BY <1>1, <1>2, <1>4
  <2>4. b.use.category # "synthetic_demo" /\ b.training.quarantine # Nothing
    BY <1>2, <1>4, <1>6
  <2>5. DeclaredRoles(b.training.roles) = policy.roles
    BY <1>2, <1>3, <1>7
  <2> QED
    BY <1>1, <1>2, <1>3, <2>1, <2>2, <2>3, <2>4, <2>5 DEF BindsPolicy
<1>10. BindsReference(b) /\ b.use.category # "historical_reference_demo"
  BY <1>1, <1>4 DEF BindsReference
<1>11. ValidBundle(b)
  <2>1. ComponentsAgree(b.components) /\ TellsClasses(b.components)
    BY <1>1, FittedAgrees
  <2> QED
    BY <1>1, <1>8, <1>9, <1>10, <2>1 DEF ValidBundle
<1>12. ValidManifest(Manifest(b, 0), 0)
  <2>1. /\ Manifest(b, 0).bundle = b /\ Manifest(b, 0).artifacts = Parts(b)
        /\ Manifest(b, 0).runtime = 0
    BY DEF Manifest
  <2>2. ValidIntendedUse(b.use)
    BY <1>3, <1>4 DEF ValidIntendedUse, policy
  <2>3. ValidThresholdSaid(b.said)
    BY <1>2 DEF ValidThresholdSaid
  <2>4. ValidTraining(b.training)
    BY <1>2, <1>6, <1>7 DEF ValidTraining
  <2>5. Parts(b) = {"preprocessor", "model"}
                     \cup (IF b.score = "calibrated_probability" THEN {"calibrator"} ELSE {})
    BY <1>1 DEF Parts
  <2> QED
    BY <1>1, <1>9, <1>10, <2>1, <2>2, <2>3, <2>4, <2>5 DEF ValidManifest
<1> QED
  BY <1>11, <1>12 DEF b

\* One sequence behind another.
LEMMA ConcatLists ==
  ASSUME NEW S, NEW s \in Seq(S), NEW t \in Seq(S)
  PROVE  /\ s \o t \in Seq(S)
         /\ Len(s \o t) = Len(s) + Len(t)
         /\ ToSet(s \o t) = ToSet(s) \cup ToSet(t)
         /\ IsInjective(s) /\ IsInjective(t) /\ ToSet(s) \cap ToSet(t) = {} => IsInjective(s \o t)
<1> DEFINE f == s \o t
           m == Len(s)
           n == Len(t)
<1>1. /\ f \in Seq(S) /\ Len(f) = m + n
      /\ \A i \in 1..(m + n) : f[i] = IF i <= m THEN s[i] ELSE t[i - m]
  BY ConcatProperties
<1>2. m \in Nat /\ n \in Nat /\ DOMAIN s = 1..m /\ DOMAIN t = 1..n
  OBVIOUS
<1>3. DOMAIN f = 1..(m + n)
  <2>1. DOMAIN f = 1..Len(f)
    BY <1>1
  <2> QED
    BY <1>1, <2>1
<1> HIDE DEF f, m, n
<1>4. \A i \in 1..m : i \in 1..(m + n) /\ f[i] = s[i]
  BY <1>1, <1>2
<1>5. \A i \in 1..n : m + i \in 1..(m + n) /\ f[m + i] = t[i]
  <2> TAKE i \in 1..n
  <2>1. m + i \in 1..(m + n) /\ ~(m + i <= m) /\ (m + i) - m = i
    BY <1>2
  <2> QED
    BY <1>1, <2>1
<1>6. \A i \in 1..(m + n) : i \in 1..m \/ \E j \in 1..n : i = m + j
  <2> TAKE i \in 1..(m + n)
  <2>1. i > m => i - m \in 1..n /\ i = m + (i - m)
    BY <1>2
  <2>2. ~(i > m) => i \in 1..m
    BY <1>2
  <2> QED
    BY <2>1, <2>2
<1>7. ToSet(f) = ToSet(s) \cup ToSet(t)
  <2>1. ASSUME NEW i \in DOMAIN f PROVE f[i] \in ToSet(s) \cup ToSet(t)
    BY <1>2, <1>3, <1>4, <1>5, <1>6 DEF ToSet
  <2>2. ASSUME NEW i \in DOMAIN s PROVE s[i] \in ToSet(f)
    BY <1>2, <1>3, <1>4 DEF ToSet
  <2>3. ASSUME NEW i \in DOMAIN t PROVE t[i] \in ToSet(f)
    BY <1>2, <1>3, <1>5 DEF ToSet
  <2> QED
    BY <2>1, <2>2, <2>3 DEF ToSet
<1>8. ASSUME IsInjective(s), IsInjective(t), ToSet(s) \cap ToSet(t) = {}
      PROVE  IsInjective(f)
  <2>1. \A i \in 1..m, j \in 1..n : s[i] # t[j]
    BY <1>2, <1>8 DEF ToSet
  <2>2. ASSUME NEW i \in 1..(m + n), NEW j \in 1..(m + n), f[i] = f[j] PROVE i = j
    <3>1. CASE i \in 1..m /\ j \in 1..m
      BY <1>2, <1>4, <1>8, <2>2, <3>1 DEF IsInjective
    <3>2. ASSUME i \in 1..m, NEW l \in 1..n, j = m + l PROVE FALSE
      BY <1>4, <1>5, <2>1, <2>2, <3>2
    <3>3. ASSUME j \in 1..m, NEW l \in 1..n, i = m + l PROVE FALSE
      BY <1>4, <1>5, <2>1, <2>2, <3>3
    <3>4. ASSUME NEW k \in 1..n, NEW l \in 1..n, i = m + k, j = m + l PROVE i = j
      <4>1. t[k] = t[l]
        BY <1>5, <2>2, <3>4
      <4>2. k = l
        BY <1>2, <1>8, <4>1 DEF IsInjective
      <4> QED
        BY <3>4, <4>2
    <3> QED
      BY <1>6, <3>1, <3>2, <3>3, <3>4
  <2> QED
    BY <1>3, <2>2 DEF IsInjective
<1> QED
  BY <1>1, <1>7, <1>8 DEF f, m, n

\* A sequence is one over any set that holds what it holds.
LEMMA SequenceOver ==
  ASSUME NEW S, NEW s \in Seq(S), NEW T, ToSet(s) \subseteq T
  PROVE  s \in Seq(T)
<1>1. s = [i \in 1..Len(s) |-> s[i]] /\ Len(s) \in Nat /\ DOMAIN s = 1..Len(s)
  OBVIOUS
<1>2. \A i \in 1..Len(s) : s[i] \in T
  BY <1>1 DEF ToSet
<1>3. s \in [1..Len(s) -> T]
  BY <1>1, <1>2
<1> QED
  BY <1>1, <1>3

\* The pool: every row of the sources that is not quarantined, once; and the counts
\* of what was left out.
LEMMA PoolHoldsEachRowOnce ==
  ASSUME NEW split \in Splits
  PROVE  LET train == Unquarantined(split.train)
             val   == Unquarantined(split.val)
             pool  == Pool(train, val)
             S     == ToSet(split.train) \cup ToSet(split.val)
         IN  /\ pool \in Seq(S)
             /\ ToSet(pool) = ToSet(split.train \o split.val) \ TestRows
             /\ IsInjective(pool)
             /\ Len(pool) \in Nat /\ Len(train) \in Nat /\ Len(val) \in Nat
             /\ CrossSplit(train, val) <= Len(train) + Len(val) - Len(pool)
<1> DEFINE train == Unquarantined(split.train)
           val   == Unquarantined(split.val)
           pool  == Pool(train, val)
           S     == ToSet(split.train) \cup ToSet(split.val)
           A     == ToSet(train)
           B     == ToSet(val)
           first == FirstOf(train)
           other == Without(FirstOf(val), A)
<1>1. split.train \in Seq(S) /\ split.val \in Seq(S)
  <2>1. split.train \in Seq(ToSet(split.train)) /\ split.val \in Seq(ToSet(split.val))
    BY LessonAssumption
  <2> QED
    BY <2>1, SequenceOver
<1>2. Quarantine.rows = TestRows
  BY DEF Quarantine
<1>3. train = Without(split.train, TestRows) /\ val = Without(split.val, TestRows)
  BY <1>2 DEF Unquarantined
<1>4. pool = first \o other
  BY DEF Pool
<1>5. /\ ToSet(split.train \o split.val) = S
  BY <1>1, ConcatLists
<1> HIDE DEF train, val, pool
<1>6. train \in Seq(S) /\ A = ToSet(split.train) \ TestRows
  BY <1>1, <1>3, WithoutLeaves
<1>7. val \in Seq(S) /\ B = ToSet(split.val) \ TestRows
  BY <1>1, <1>3, WithoutLeaves
<1>8. A \cup B = S \ TestRows
  BY <1>6, <1>7
<1> HIDE DEF S, A, B
<1>9. first \in Seq(S) /\ ToSet(first) = A /\ IsInjective(first)
  BY <1>6, FirstOfLists DEF A
<1>10. FirstOf(val) \in Seq(S) /\ ToSet(FirstOf(val)) = B /\ IsInjective(FirstOf(val))
  BY <1>7, FirstOfLists DEF B
<1>11. other \in Seq(S) /\ ToSet(other) = B \ A /\ IsInjective(other)
  BY <1>10, WithoutLeaves
<1> HIDE DEF first, other
<1>12. /\ pool \in Seq(S)
       /\ ToSet(pool) = A \cup B
       /\ IsInjective(pool)
  <2>1. ToSet(first) \cap ToSet(other) = {}
    BY <1>9, <1>11
  <2>2. /\ first \o other \in Seq(S)
        /\ ToSet(first \o other) = ToSet(first) \cup ToSet(other)
        /\ IsInjective(first) /\ IsInjective(other) /\ ToSet(first) \cap ToSet(other) = {}
             => IsInjective(first \o other)
    BY <1>9, <1>11, ConcatLists
  <2>3. A \cup (B \ A) = A \cup B
    OBVIOUS
  <2> QED
    BY <1>4, <1>9, <1>11, <2>1, <2>2, <2>3
<1>13. CrossSplit(train, val) <= Len(train) + Len(val) - Len(pool)
  <2>1. IsFiniteSet(A) /\ Cardinality(A) \in Nat /\ Cardinality(A) <= Len(train)
    BY <1>6, LengthOfDistinct DEF A
  <2>2. IsFiniteSet(B) /\ Cardinality(B) \in Nat /\ Cardinality(B) <= Len(val)
    BY <1>7, LengthOfDistinct DEF B
  <2>3. Cardinality(ToSet(pool)) = Len(pool)
    BY <1>12, LengthOfDistinct
  <2>4. Cardinality(A \cup B) = Cardinality(A) + Cardinality(B) - Cardinality(A \cap B)
    BY <2>1, <2>2, FS_Union
  <2>5. IsFiniteSet(A \cap B) /\ Cardinality(A \cap B) \in Nat
    <3>1. IsFiniteSet(A \cap B)
      BY <2>1, FS_Subset
    <3> QED
      BY <3>1, FS_CardinalityType
  <2>6. CrossSplit(train, val) = Cardinality(A \cap B)
    BY DEF CrossSplit, A, B
  <2>7. Cardinality(A \cup B) = Len(pool)
    BY <1>12, <2>3
  <2>8. Len(train) \in Nat /\ Len(val) \in Nat
    BY <1>6, <1>7
  <2> QED
    BY ONLY <2>1, <2>2, <2>4, <2>5, <2>6, <2>7, <2>8
<1>14. Len(pool) \in Nat /\ Len(train) \in Nat /\ Len(val) \in Nat
  BY <1>6, <1>7, <1>12
<1>15. ToSet(pool) = ToSet(split.train \o split.val) \ TestRows
  BY <1>5, <1>8, <1>12
<1> QED
  BY <1>12, <1>13, <1>14, <1>15 DEF S, train, val, pool

\* A reference bundle whose counts add up passes the parser of its training record,
\* and both validators when it is the approved one.
LEMMA ReferenceIsValid ==
  ASSUME NEW r, r.quarantine = QuarantineChecked, r.pool # Nothing, ValidCounts(r.pool),
         ValidReference(r), r.pool.fraud > 0
  PROVE  /\ ValidTraining(ReferenceBundle(r).training)
         /\ r = Evidence0 =>
              /\ ValidBundle(ReferenceBundle(r))
              /\ ValidManifest(Manifest(ReferenceBundle(r), 0), 0)
<1> DEFINE b == ReferenceBundle(r)
           roles == [role \in Roles |-> IF role = "model_fit" THEN r.pool ELSE Nothing]
           policy == Policies["historical"]
<1>1. /\ b.features = Schema /\ b.threshold = 53 /\ b.use = IntendedUse("historical")
      /\ b.components = FittedOn(PoolLabels(r.pool)) /\ b.calibrator = FALSE
      /\ b.score = "raw_score"
      /\ b.training = Training("historical", roles, r.quarantine)
      /\ b.fingerprint = b.training.rolesSha
      /\ b.said = ThresholdSaid("historical", 53, FALSE)
      /\ b.reference = r
  BY DEF ReferenceBundle
<1>2. /\ b.training.policy = "historical" /\ b.training.roles = roles
      /\ b.training.rolesSha = roles /\ b.training.quarantine = QuarantineChecked
      /\ b.said.value = 53 /\ b.said.calibrated = FALSE
  BY <1>1 DEF Training, ThresholdSaid
<1>3. /\ "historical" \in DOMAIN Policies
      /\ policy.category = "historical_reference_demo" /\ policy.roles = {"model_fit"}
      /\ policy.fixed = 53 /\ policy.bindsScore = FALSE
  BY DEF Policies
<1>4. /\ b.use.policy = "historical" /\ b.use.category = "historical_reference_demo"
      /\ b.use.claims \in [Claims -> BOOLEAN]
  <2> DEFINE claims == [c \in Claims |-> c \in Policies["historical"].claims]
  <2>1. claims \in [Claims -> BOOLEAN]
    OBVIOUS
  <2> HIDE DEF claims
  <2>2. IntendedUse("historical") =
          [policy |-> "historical", policySha |-> Policies["historical"],
           category |-> Policies["historical"].category, claims |-> claims]
    BY Zenon DEF IntendedUse, claims
  <2>3. /\ IntendedUse("historical").policy = "historical"
        /\ IntendedUse("historical").category = Policies["historical"].category
        /\ IntendedUse("historical").claims = claims
    BY <2>2
  <2> QED
    BY <1>1, <1>3, <2>1, <2>3
<1>5. /\ roles["model_fit"] = r.pool /\ "model_fit" \in Roles
      /\ \A role \in Roles : role # "model_fit" => roles[role] = Nothing
  BY DEF Roles
<1>6. QuarantineChecked # Nothing /\ ValidQuarantine(QuarantineChecked)
  BY NullAssumption DEF QuarantineChecked, ValidQuarantine, Quarantine
<1> HIDE DEF b, roles, policy
<1>7. DeclaredRoles(roles) = {"model_fit"} /\ ValidRoles(roles)
  BY <1>5 DEF DeclaredRoles, ValidRoles
<1>8. ValidTraining(b.training)
  BY <1>2, <1>6, <1>7 DEF ValidTraining
<1>9. BindsPolicy(b)
  <2>1. Tracked(b.use.policy) /\ Policies[b.use.policy] = policy
    BY <1>3, <1>4 DEF Tracked, policy
  <2>2. b.said.calibrated = (policy.bindsScore /\ b.score = "calibrated_probability")
    BY <1>1, <1>2, <1>3
  <2>3. b.use = IntendedUse(b.use.policy) /\ b.training.policy = b.use.policy
    BY <1>1, <1>2, <1>4
  <2>4. b.use.category # "synthetic_demo" /\ b.training.quarantine # Nothing
    BY <1>2, <1>4, <1>6
  <2>5. DeclaredRoles(b.training.roles) = policy.roles
    BY <1>2, <1>3, <1>7
  <2> QED
    BY <1>1, <1>2, <1>3, <2>1, <2>2, <2>3, <2>4, <2>5 DEF BindsPolicy
<1>10. ASSUME r = Evidence0
       PROVE  ValidBundle(b) /\ ValidManifest(Manifest(b, 0), 0)
  <2>1. BindsReference(b)
    <3>1. Evidence0 # Nothing
      BY NullAssumption
    <3> QED
      BY <1>1, <1>2, <1>4, <1>5, <1>6, <1>10, <3>1 DEF BindsReference
  <2>2. PoolLabels(r.pool) = {0, 1}
    <3>1. r.pool.legitimate > 0
      BY <1>10, NullAssumption
    <3> QED
      BY <3>1 DEF PoolLabels
  <2>3. ComponentsAgree(b.components) /\ TellsClasses(b.components)
    BY <1>1, <2>2, FittedAgrees
  <2>4. BindsScore(b)
    BY <1>1 DEF BindsScore
  <2>5. ValidBundle(b)
    BY <1>1, <1>9, <2>1, <2>3, <2>4 DEF ValidBundle
  <2>6. ValidManifest(Manifest(b, 0), 0)
    <3>1. /\ Manifest(b, 0).bundle = b /\ Manifest(b, 0).artifacts = Parts(b)
          /\ Manifest(b, 0).runtime = 0
      BY DEF Manifest
    <3>2. ValidIntendedUse(b.use)
      BY <1>3, <1>4 DEF ValidIntendedUse, policy
    <3>3. ValidThresholdSaid(b.said)
      <4>1. b.said.value \in Nat
        BY <1>2
      <4>2. b.said.calibrated \in BOOLEAN
        BY <1>2, Zenon
      <4> QED
        BY <4>1, <4>2 DEF ValidThresholdSaid
    <3>4. Parts(b) = {"preprocessor", "model"}
                       \cup (IF b.score = "calibrated_probability" THEN {"calibrator"} ELSE {})
      <4>1. ~b.calibrator /\ b.score # "calibrated_probability"
        BY <1>1
      <4> QED
        BY <4>1 DEF Parts
    <3>5. b.reference # Nothing => ValidReference(b.reference)
      BY <1>1
    <3>6. b.features = Schema /\ b.threshold \in 0..100 /\ b.score = "raw_score"
      BY <1>1
    <3>7. b.fingerprint = b.training.rolesSha
      BY <1>1
    <3> DEFINE m == Manifest(b, 0)
    <3> HIDE DEF m
    <3>8. m.bundle = b /\ m.artifacts = Parts(b) /\ m.runtime = 0
      BY <3>1 DEF m
    <3>9. ValidManifest(m, 0)
      BY <1>8, <1>9, <2>1, <3>2, <3>3, <3>4, <3>5, <3>6, <3>7, <3>8, Zenon DEF ValidManifest
    <3> QED
      BY <3>9 DEF m
  <2> QED
    BY <2>5, <2>6
<1> QED
  BY <1>8, <1>10 DEF b

-----------------------------------------------------------------------------
(* DataRoles: the producers *)

\* Curation and roles: of the rows run_development_training does not refuse, each
\* plays a role, and the rows of an earlier role are all older than those of a
\* later one, so that none plays two.
RolesFollowInTime ==
  lesson.kind = "development" =>
    LET frame == Curated(lesson.frame) IN
    Trainable(frame) =>
      /\ RolesFollow(TimeRoles(frame))
      /\ UNION {ToSet(TimeRoles(frame)[role]) : role \in Roles} = ToSet(frame)

\* make_expanding_time_folds: no fold it returns trains on a row that is not older,
\* by the gap at least, than every row it validates.
FoldsNeverLookAhead ==
  lesson.kind = "folds" =>
    (Foldable(lesson.times, lesson.gap) => FoldsLookBack(lesson.times, lesson.gap))

\* What a lesson is about.
LessonShape ==
  /\ lesson.kind = "development" =>
       /\ lesson.frame \in Frames /\ lesson.table \in Comparisons /\ lesson.margin \in 0..1
  /\ lesson.kind = "reference" => lesson.split \in Splits
  /\ lesson.kind = "folds" => lesson.times \in Timelines /\ lesson.gap \in Gaps

\* Curation keeps a sequence of rows.
LEMMA CuratedIsASequence ==
  ASSUME NEW frame \in Frames
  PROVE  Curated(frame) \in Seq(ToSet(frame))
<1> DEFINE kept == {i \in DOMAIN frame :
                      \A j \in 1..(i - 1) : ~SameContent(frame[i], frame[j])}
           S == ToSet(frame)
<1>1. frame \in Seq(S)
  BY LessonAssumption
<1>2. DOMAIN frame = 1..Len(frame) /\ Len(frame) \in Nat
  BY <1>1
<1>3. kept \subseteq 1..Len(frame) /\ \A i \in kept : frame[i] \in S
  BY <1>2 DEF ToSet
<1>4. Curated(frame) = Subframe(frame, kept)
  BY DEF Curated
<1> HIDE DEF kept, S
<1>5. IsFiniteSet(kept) /\ kept \subseteq Nat
  <2>1. IsFiniteSet(1..Len(frame)) /\ 1..Len(frame) \subseteq Nat
    BY <1>2, IntervalIsFinite
  <2> QED
    BY <1>3, <2>1, FS_Subset
<1>6. /\ Subframe(frame, kept) \in Seq(S)
      /\ Len(Subframe(frame, kept)) = Cardinality(kept)
      /\ DOMAIN Subframe(frame, kept) = 1..Cardinality(kept)
      /\ Cardinality(kept) \in Nat
      /\ ToSet(Subframe(frame, kept)) = {frame[i] : i \in kept}
      /\ (\A i, j \in kept : frame[i] = frame[j] => i = j) => IsInjective(Subframe(frame, kept))
  BY <1>3, <1>5, SubframeListsRows, Zenon
<1> QED
  BY <1>4, <1>6 DEF S

\* And the times of the rows it keeps.
LEMMA CuratedIsTimed ==
  ASSUME NEW frame \in Frames
  PROVE  Timed(Curated(frame))
<1> DEFINE f == Curated(frame)
<1>1. f \in Seq(ToSet(frame)) /\ \A row \in ToSet(frame) : row.time \in Nat
  BY CuratedIsASequence, LessonAssumption
<1> HIDE DEF f
<1>2. Len(f) \in Nat /\ DOMAIN f = 1..Len(f) /\ \A i \in 1..Len(f) : f[i] \in ToSet(frame)
  BY <1>1
<1> QED
  BY <1>1, <1>2 DEF Timed, f

\* Development training, past its refusals.
LEMMA DevelopmentIsSound ==
  ASSUME NEW input \in Frames, NEW table \in Comparisons, NEW margin \in 0..1,
         Trainable(Curated(input))
  PROVE  RolesStayApart(Curated(input), table, margin)
<1> DEFINE frame  == Curated(input)
           S      == ToSet(input)
           roles  == TimeRoles(frame)
           method == CalibrationMethod(table, margin)
<1>1. frame \in Seq(S)
  BY CuratedIsASequence
<1>2. Timed(frame)
  BY CuratedIsTimed
<1>3. \A role \in Roles : Nothing # Declared(roles[role])
  BY NullAssumption
<1>4. \A role \in Roles : BothClasses(roles[role])
  BY DEF Trainable
<1> HIDE DEF frame, S
<1>5. RolesFollow(roles)
  <2>1. Trainable(frame)
    BY DEF frame
  <2>2. /\ RolesFollow(TimeRoles(frame))
        /\ UNION {ToSet(TimeRoles(frame)[role]) : role \in Roles} = ToSet(frame)
    BY <1>2, <2>1, RolesAreApart, Zenon
  <2> QED
    BY <2>2
<1>6. /\ \A role \in Roles :
           /\ TimeRoles(frame)[role] \in Seq(S)
           /\ Len(TimeRoles(frame)[role]) = Cardinality(RowsOfTimeRole(frame, role))
      /\ MapThenSumSet(LAMBDA role : [r \in Roles |-> Len(TimeRoles(frame)[r])][role], Roles)
           = Len(frame)
  BY <1>1, RolesShareOut, Zenon
<1> HIDE DEF roles
<1>7. ASSUME NEW role \in Roles PROVE ValidCounts(Declared(roles[role]))
  <2> DEFINE s == roles[role]
  <2>1. s \in Seq(S)
    BY <1>6 DEF roles
  <2>2. LabelsOf(s) = {0, 1}
    BY <1>4 DEF BothClasses
  <2> HIDE DEF s
  <2>3. \A i \in DOMAIN s : s[i].label \in {0, 1}
    BY <2>2 DEF LabelsOf, ToSet
  <2>4. /\ Declared(s).rows = Len(s)
        /\ Declared(s).rows = Declared(s).legitimate + Declared(s).fraud
        /\ Declared(s).legitimate \in Nat /\ Declared(s).fraud \in Nat
        /\ Declared(s).duplicates \in 0..Len(s)
        /\ Declared(s).fraud > 0
    BY <2>1, <2>2, <2>3, CountsAddUp
  <2> QED
    BY <2>4 DEF ValidCounts, s
<1>8. LabelsOf(roles["model_fit"]) = {0, 1}
  BY <1>4 DEF BothClasses, Roles
<1>9. /\ ValidBundle(DevelopmentBundle(frame, method, 50))
      /\ ValidManifest(Manifest(DevelopmentBundle(frame, method, 50), 0), 0)
  <2>1. \A role \in Roles : /\ Declared(TimeRoles(frame)[role]) # Nothing
                            /\ ValidCounts(Declared(TimeRoles(frame)[role]))
    BY <1>3, <1>7 DEF roles
  <2>2. LabelsOf(TimeRoles(frame)["model_fit"]) = {0, 1}
    BY <1>8 DEF roles
  <2> QED
    BY <2>1, <2>2, DevelopmentIsValid, Zenon
<1>10. method # "identity" =>
         \E m \in 2..3 : Methods[m] = method /\ table[m].brier <= table[1].brier - margin
  BY CalibrationPays
<1> HIDE DEF method
<1>11. RolesStayApart(frame, table, margin)
  BY <1>5, <1>6, <1>9, <1>10, Zenon DEF RolesStayApart, roles, method
<1> QED
  BY <1>11 DEF frame

\* The reference, past its refusal.
LEMMA ReferenceIsAccounted ==
  ASSUME NEW split \in Splits
  PROVE  PoolIsAccounted(split)
<1> DEFINE train == Unquarantined(split.train)
           val   == Unquarantined(split.val)
           pool  == Pool(train, val)
           S     == ToSet(split.train) \cup ToSet(split.val)
           r     == ReferenceOf(split)
<1>1. /\ pool \in Seq(S)
      /\ ToSet(pool) = ToSet(split.train \o split.val) \ TestRows
      /\ IsInjective(pool)
      /\ Len(pool) \in Nat /\ Len(train) \in Nat /\ Len(val) \in Nat
      /\ CrossSplit(train, val) <= Len(train) + Len(val) - Len(pool)
  BY PoolHoldsEachRowOnce, Zenon
<1>2. /\ split.train \in Seq(ToSet(split.train)) /\ split.val \in Seq(ToSet(split.val))
      /\ \A row \in ToSet(split.train) \cup ToSet(split.val) : row.label \in {0, 1}
  BY LessonAssumption
<1>3. Len(split.train) \in Nat /\ Len(split.val) \in Nat
  BY <1>2
<1>4. /\ r.quarantine = QuarantineChecked /\ r.conflicts = 0
      /\ r.trainRows = Len(split.train) /\ r.valRows = Len(split.val)
      /\ r.quarantined = Len(split.train) + Len(split.val) - Len(train) - Len(val)
      /\ r.duplicates = Len(train) + Len(val) - Len(pool)
      /\ r.crossSplit = CrossSplit(train, val)
      /\ r.pool = Declared(pool)
  BY DEF ReferenceOf, ReferenceSaid
<1>5. r.pool # Nothing
  BY NullAssumption
<1> HIDE DEF train, val, pool, r
<1>6. \A i \in DOMAIN pool : pool[i].label \in {0, 1}
  <2>1. \A i \in DOMAIN pool : pool[i] \in S
    BY <1>1
  <2> QED
    BY <1>2, <2>1
<1> HIDE DEF S
<1>7. /\ Declared(pool).rows = Len(pool)
      /\ Declared(pool).rows = Declared(pool).legitimate + Declared(pool).fraud
      /\ Declared(pool).legitimate \in Nat /\ Declared(pool).fraud \in Nat
      /\ Declared(pool).duplicates = 0
  BY <1>1, <1>6, CountsAddUp
<1>8. ASSUME r.pool.fraud > 0
      PROVE  /\ RecipeAccepts(r)
             /\ ValidReference(r)
             /\ ValidTraining(ReferenceBundle(r).training)
             /\ r = Evidence0 =>
                  /\ ValidBundle(ReferenceBundle(r))
                  /\ ValidManifest(Manifest(ReferenceBundle(r), 0), 0)
  <2>1. r.crossSplit <= r.duplicates
    BY <1>1, <1>4
  <2>2. r.pool.rows = r.pool.legitimate + r.pool.fraud /\ r.pool.rows > 0
    BY <1>4, <1>7, <1>8
  <2>3. r.trainRows + r.valRows = r.pool.rows + r.quarantined + r.duplicates
    <3>1. r.pool.rows = Len(pool)
      BY <1>4, <1>7
    <3> DEFINE a == Len(split.train)
               c == Len(split.val)
               d == Len(train)
               e == Len(val)
               f == Len(pool)
    <3>2. /\ a \in Nat /\ c \in Nat /\ d \in Nat /\ e \in Nat /\ f \in Nat
          /\ r.trainRows = a /\ r.valRows = c /\ r.pool.rows = f
          /\ r.quarantined = a + c - d - e /\ r.duplicates = d + e - f
      BY <1>1, <1>3, <1>4, <3>1
    <3> HIDE DEF a, c, d, e, f
    <3> QED
      BY ONLY <3>2
  <2>4. ValidCounts(r.pool)
    BY <1>4, <1>7, <2>2 DEF ValidCounts
  <2>5. ValidReference(r)
    <3>1. ValidQuarantine(r.quarantine)
      BY <1>4 DEF QuarantineChecked, ValidQuarantine, Quarantine
    <3> QED
      BY <1>4, <2>1, <2>2, <2>3, <3>1 DEF ValidReference
  <2>6. RecipeAccepts(r)
    BY <1>8, <2>1, <2>2, <2>3 DEF RecipeAccepts
  <2>7. /\ ValidTraining(ReferenceBundle(r).training)
        /\ r = Evidence0 =>
             /\ ValidBundle(ReferenceBundle(r))
             /\ ValidManifest(Manifest(ReferenceBundle(r), 0), 0)
    BY <1>4, <1>5, <1>8, <2>4, <2>5, ReferenceIsValid, Zenon
  <2> QED
    BY <2>5, <2>6, <2>7
<1>9. r.pool.duplicates = 0
  BY <1>4, <1>7
<1> QED
  BY <1>1, <1>8, <1>9, Zenon DEF PoolIsAccounted, r, pool, train, val

\* A lesson is about one of the inputs.
LEMMA LessonsKeepTheirShape == LessonSpec => []LessonShape
<1>1. LessonInit => LessonShape
  BY DEF LessonInit, LessonShape
<1>2. LessonShape /\ [LessonNext]_lesson => LessonShape'
  BY DEF LessonNext, LessonShape
<1> QED
  BY <1>1, <1>2, PTL DEF LessonSpec

\* The roles of development training follow one another in time in every state.
THEOREM RolesAlwaysFollowInTime == LessonSpec => []RolesFollowInTime
<1>1. LessonShape => RolesFollowInTime
  <2> SUFFICES ASSUME LessonShape, lesson.kind = "development", Trainable(Curated(lesson.frame))
               PROVE  /\ RolesFollow(TimeRoles(Curated(lesson.frame)))
                      /\ UNION {ToSet(TimeRoles(Curated(lesson.frame))[role]) : role \in Roles}
                           = ToSet(Curated(lesson.frame))
    BY Zenon DEF RolesFollowInTime
  <2>1. Timed(Curated(lesson.frame))
    BY CuratedIsTimed DEF LessonShape
  <2> QED
    BY <2>1, RolesAreApart, Zenon
<1> QED
  BY <1>1, LessonsKeepTheirShape, PTL

\* Forward folds look back only, in every state.
THEOREM FoldsAlwaysLookBack == LessonSpec => []FoldsNeverLookAhead
<1>1. LessonShape => FoldsNeverLookAhead
  BY FoldsAreSound, LessonAssumption DEF LessonShape, FoldsNeverLookAhead
<1> QED
  BY <1>1, LessonsKeepTheirShape, PTL

\* Both producers, and the forward folds: past their refusals, the roles stay apart
\* and share out the rows, the pool holds each row outside the quarantine once, and
\* what is declared passes the validators, in every state.
THEOREM ProducedDataStaysSound == LessonSpec => []ProducedDataIsSound
<1>1. LessonShape => ProducedDataIsSound
  <2> SUFFICES ASSUME LessonShape PROVE ProducedDataIsSound
    OBVIOUS
  <2>1. CASE lesson.kind = "development"
    <3>1. ~Contradictory(lesson.frame) /\ Trainable(Curated(lesson.frame)) =>
            RolesStayApart(Curated(lesson.frame), lesson.table, lesson.margin)
      BY <2>1, DevelopmentIsSound DEF LessonShape
    <3> QED
      BY <2>1, <3>1 DEF ProducedDataIsSound
  <2>2. CASE lesson.kind = "reference"
    <3>1. PoolIsAccounted(lesson.split)
      BY <2>2, ReferenceIsAccounted DEF LessonShape
    <3> QED
      BY <2>2, <3>1 DEF ProducedDataIsSound
  <2>3. CASE lesson.kind = "folds"
    <3>1. Foldable(lesson.times, lesson.gap) => FoldsLookBack(lesson.times, lesson.gap)
      <4>1. lesson.times \in Seq(Nat) /\ lesson.gap \in Nat
        BY <2>3, LessonAssumption DEF LessonShape
      <4> QED
        BY <4>1, FoldsAreSound
    <3> QED
      BY <2>3, <3>1 DEF ProducedDataIsSound
  <2>4. CASE lesson.kind \notin {"development", "reference", "folds"}
    BY <2>4 DEF ProducedDataIsSound
  <2> QED
    BY <2>1, <2>2, <2>3, <2>4
<1> QED
  BY <1>1, LessonsKeepTheirShape, PTL

-----------------------------------------------------------------------------
(* The features of Lane A *)

\* Which columns have a rule, by name and number.
LEMMA FamilyOf ==
  ASSUME NEW family, NEW n \in Nat
  PROVE  /\ \A i \in 1..n : <<family, i>> \in Columns(family, n)
         /\ \A c \in Columns(family, n) : c = <<family, c[2]>> /\ c[1] = family /\ c[2] \in 1..n
BY DEF Columns

Plain == {"TransactionAmt", "ProductCD", "P_emaildomain", "R_emaildomain", "DeviceType",
          "DeviceInfo"}

LEMMA SnapshotColumns ==
  \A c \in Snapshot :
    /\ c = <<c[1], c[2]>> /\ c[2] \in Nat
    /\ \/ c[1] \in Plain /\ c[2] = 0
       \/ c[1] = "card" /\ c[2] \in 1..6
       \/ c[1] = "addr" /\ c[2] \in 1..2
       \/ c[1] = "M" /\ c[2] \in 1..9
<1> SUFFICES ASSUME NEW c \in Snapshot
             PROVE  /\ c = <<c[1], c[2]>> /\ c[2] \in Nat
                    /\ \/ c[1] \in Plain /\ c[2] = 0
                       \/ c[1] = "card" /\ c[2] \in 1..6
                       \/ c[1] = "addr" /\ c[2] \in 1..2
                       \/ c[1] = "M" /\ c[2] \in 1..9
  OBVIOUS
<1>1. \/ \E name \in Plain : c = Column(name)
      \/ c \in Columns("card", 6) \/ c \in Columns("addr", 2) \/ c \in Columns("M", 9)
  BY DEF Snapshot, Plain
<1>2. ASSUME NEW name \in Plain, c = Column(name) PROVE c = <<c[1], c[2]>> /\ c[1] \in Plain /\ c[2] = 0
  BY <1>2 DEF Column
<1>3. c \in Columns("card", 6) => c = <<c[1], c[2]>> /\ c[1] = "card" /\ c[2] \in 1..6
  BY FamilyOf
<1>4. c \in Columns("addr", 2) => c = <<c[1], c[2]>> /\ c[1] = "addr" /\ c[2] \in 1..2
  BY FamilyOf
<1>5. c \in Columns("M", 9) => c = <<c[1], c[2]>> /\ c[1] = "M" /\ c[2] \in 1..9
  BY FamilyOf
<1> QED
  BY <1>1, <1>2, <1>3, <1>4, <1>5

LEMMA RemainingColumns ==
  /\ \A c \in NeverFeatures :
       c[1] \in {"isFraud", "TransactionID", "TransactionDT"} /\ c[2] = 0
  /\ \A c \in BenchmarkOnly :
       c[1] \in {"dist", "C", "D", "V", "id_"} /\ c[2] \in Nat /\ c[2] > 0
<1>1. \A c \in NeverFeatures :
        c[1] \in {"isFraud", "TransactionID", "TransactionDT"} /\ c[2] = 0
  BY DEF NeverFeatures, Column
<1>2. ASSUME NEW c \in BenchmarkOnly
      PROVE  c[1] \in {"dist", "C", "D", "V", "id_"} /\ c[2] \in Nat /\ c[2] > 0
  <2>1. \/ c \in Columns("dist", 2) \/ c \in Columns("C", 14) \/ c \in Columns("D", 15)
        \/ c \in Columns("V", 339) \/ c \in Columns("id_", 38)
    BY DEF BenchmarkOnly
  <2>2. c \in Columns("dist", 2) => c[1] = "dist" /\ c[2] \in 1..2
    BY FamilyOf
  <2>3. c \in Columns("C", 14) => c[1] = "C" /\ c[2] \in 1..14
    BY FamilyOf
  <2>4. c \in Columns("D", 15) => c[1] = "D" /\ c[2] \in 1..15
    BY FamilyOf
  <2>5. c \in Columns("V", 339) => c[1] = "V" /\ c[2] \in 1..339
    BY FamilyOf
  <2>6. c \in Columns("id_", 38) => c[1] = "id_" /\ c[2] \in 1..38
    BY FamilyOf
  <2> QED
    BY <2>1, <2>2, <2>3, <2>4, <2>5, <2>6
<1> QED
  BY <1>1, <1>2

\* The rules serve the snapshot, and what is prohibited for good is the rest.
LEMMA RulesServeSnapshot ==
  /\ DOMAIN FeatureRules = NeverFeatures \cup Snapshot \cup BenchmarkOnly
  /\ ServingEligible = Snapshot
  /\ \A c \in Snapshot : ~PermanentlyProhibited(c)
  /\ \A c \in DOMAIN FeatureRules : PermanentlyProhibited(c) <=> c \notin Snapshot
<1>1. DOMAIN FeatureRules = NeverFeatures \cup Snapshot \cup BenchmarkOnly
  BY DEF FeatureRules
<1>2. \A c \in Snapshot : c \notin NeverFeatures /\ c \notin BenchmarkOnly
  BY SnapshotColumns, RemainingColumns DEF Plain
<1>3. \A c \in Snapshot : ~PermanentlyProhibited(c)
  <2> SUFFICES ASSUME NEW c \in Snapshot PROVE ~PermanentlyProhibited(c)
    OBVIOUS
  <2>1. c[1] \notin {"C", "D", "V", "dist", "id_"}
    BY SnapshotColumns DEF Plain
  <2> QED
    BY <1>2, <2>1 DEF PermanentlyProhibited
<1>4. \A c \in NeverFeatures \cup BenchmarkOnly : PermanentlyProhibited(c)
  BY RemainingColumns DEF PermanentlyProhibited
<1>5. ServingEligible = Snapshot
  <2>1. ASSUME NEW c \in DOMAIN FeatureRules
        PROVE  /\ FeatureRules[c].eligibility = IF c \in Snapshot THEN "candidate_snapshot"
                      ELSE IF c \in BenchmarkOnly THEN "benchmark_only" ELSE "prohibited"
               /\ FeatureRules[c].requiresProof <=> c \in BenchmarkOnly
    <3> DEFINE said  == IF c \in Snapshot THEN "candidate_snapshot"
                        ELSE IF c \in BenchmarkOnly THEN "benchmark_only" ELSE "prohibited"
               proof == c \in BenchmarkOnly
    <3>1. FeatureRules[c] = [eligibility |-> said, requiresProof |-> proof]
      BY <1>1 DEF FeatureRules
    <3>2. FeatureRules[c].eligibility = said /\ FeatureRules[c].requiresProof = proof
      <4> HIDE DEF said, proof
      <4> QED
        BY <3>1
    <3> QED
      BY <3>2, Zenon
  <2>2. \A c \in DOMAIN FeatureRules : FeatureRules[c].eligibility = "candidate_snapshot" <=> c \in Snapshot
    BY <2>1
  <2> QED
    BY <1>1, <1>2, <2>1, <2>2 DEF ServingEligible
<1> QED
  BY <1>1, <1>2, <1>3, <1>4, <1>5

\* The thirteen inputs.
LEMMA CoreIsListed ==
  /\ Len(ServingCore) = 13 /\ DOMAIN ServingCore = 1..13 /\ IsInjective(ServingCore)
  /\ \A i \in 1..13 : ServingCore[i] = Presence <=> i = 13
  /\ ServingCore[13] = Presence
  /\ \A i \in 1..12 : ServingCore[i] \in Snapshot
  /\ \A c \in Snapshot :
       \/ \E i \in 1..12 : ServingCore[i] = c
       \/ c \in {Column("R_emaildomain"), Column("DeviceInfo")}
       \/ c[1] = "M"
  /\ \A i \in 1..13 : /\ ServingCore[i] # Column("R_emaildomain")
                      /\ ServingCore[i] # Column("DeviceInfo")
                      /\ ServingCore[i][1] # "M"
<1> DEFINE core == ServingCore
<1>1. Len(core) = 13 /\ DOMAIN core = 1..13
  BY DEF ServingCore
<1>2. /\ core[1] = <<"TransactionAmt", 0>> /\ core[2] = <<"ProductCD", 0>>
      /\ core[3] = <<"card", 1>> /\ core[4] = <<"card", 2>> /\ core[5] = <<"card", 3>>
      /\ core[6] = <<"card", 4>> /\ core[7] = <<"card", 5>> /\ core[8] = <<"card", 6>>
      /\ core[9] = <<"addr", 1>> /\ core[10] = <<"addr", 2>>
      /\ core[11] = <<"P_emaildomain", 0>> /\ core[12] = <<"DeviceType", 0>>
      /\ core[13] = <<"identity_record_present", 0>>
  BY DEF ServingCore, Column, Presence
<1> HIDE DEF core
<1>3. /\ core[1][1] = "TransactionAmt" /\ core[1][2] = 0
      /\ core[2][1] = "ProductCD" /\ core[2][2] = 0
      /\ core[3][1] = "card" /\ core[3][2] = 1
      /\ core[4][1] = "card" /\ core[4][2] = 2
      /\ core[5][1] = "card" /\ core[5][2] = 3
      /\ core[6][1] = "card" /\ core[6][2] = 4
      /\ core[7][1] = "card" /\ core[7][2] = 5
      /\ core[8][1] = "card" /\ core[8][2] = 6
      /\ core[9][1] = "addr" /\ core[9][2] = 1
      /\ core[10][1] = "addr" /\ core[10][2] = 2
      /\ core[11][1] = "P_emaildomain" /\ core[11][2] = 0
      /\ core[12][1] = "DeviceType" /\ core[12][2] = 0
      /\ core[13][1] = "identity_record_present" /\ core[13][2] = 0
  BY <1>2
<1>4. \A i, j \in 1..13 : core[i][1] = core[j][1] /\ core[i][2] = core[j][2] => i = j
  BY ONLY <1>3
<1>5. IsInjective(core)
  BY <1>1, <1>4 DEF IsInjective
<1>6. core[13] = Presence
  BY <1>2 DEF Presence, Column
<1>7. \A i \in 1..13 : core[i] = Presence <=> i = 13
  BY <1>1, <1>5, <1>6 DEF IsInjective
<1>8. \A i \in 1..12 : core[i] \in Snapshot
  <2>1. /\ core[1] \in Snapshot /\ core[2] \in Snapshot /\ core[11] \in Snapshot
        /\ core[12] \in Snapshot
    BY <1>2 DEF Snapshot, Column
  <2>2. \A i \in 1..6 : <<"card", i>> \in Snapshot
    BY FamilyOf DEF Snapshot
  <2>3. \A i \in 1..2 : <<"addr", i>> \in Snapshot
    BY FamilyOf DEF Snapshot
  <2>4. /\ core[3] \in Snapshot /\ core[4] \in Snapshot /\ core[5] \in Snapshot
        /\ core[6] \in Snapshot /\ core[7] \in Snapshot /\ core[8] \in Snapshot
        /\ core[9] \in Snapshot /\ core[10] \in Snapshot
    BY <1>2, <2>2, <2>3
  <2> QED
    BY <2>1, <2>4
<1>9. ASSUME NEW c \in Snapshot
      PROVE  \/ \E i \in 1..12 : core[i] = c
             \/ c \in {Column("R_emaildomain"), Column("DeviceInfo")}
             \/ c[1] = "M"
  <2>1. /\ c = <<c[1], c[2]>> /\ c[2] \in Nat
        /\ \/ c[1] \in Plain /\ c[2] = 0
           \/ c[1] = "card" /\ c[2] \in 1..6
           \/ c[1] = "addr" /\ c[2] \in 1..2
           \/ c[1] = "M" /\ c[2] \in 1..9
    BY SnapshotColumns
  <2>2. CASE c[1] = "card" /\ c[2] \in 1..6
    <3>1. \/ c = <<"card", 1>> \/ c = <<"card", 2>> \/ c = <<"card", 3>>
          \/ c = <<"card", 4>> \/ c = <<"card", 5>> \/ c = <<"card", 6>>
      BY <2>1, <2>2
    <3> QED
      BY <1>2, <3>1
  <2>3. CASE c[1] = "addr" /\ c[2] \in 1..2
    <3>1. c = <<"addr", 1>> \/ c = <<"addr", 2>>
      BY <2>1, <2>3
    <3> QED
      BY <1>2, <3>1
  <2>4. CASE c[1] \in Plain /\ c[2] = 0
    <3>1. \/ c = <<"TransactionAmt", 0>> \/ c = <<"ProductCD", 0>> \/ c = <<"P_emaildomain", 0>>
          \/ c = <<"DeviceType", 0>> \/ c = <<"R_emaildomain", 0>> \/ c = <<"DeviceInfo", 0>>
      BY <2>1, <2>4 DEF Plain
    <3> QED
      BY <1>2, <3>1 DEF Column
  <2> QED
    BY <2>1, <2>2, <2>3, <2>4
<1>10. ASSUME NEW i \in 1..13
       PROVE  /\ core[i] # Column("R_emaildomain") /\ core[i] # Column("DeviceInfo")
              /\ core[i][1] # "M"
  <2>1. /\ core[i][1] # "R_emaildomain" /\ core[i][1] # "DeviceInfo" /\ core[i][1] # "M"
    BY <1>3
  <2>2. Column("R_emaildomain")[1] = "R_emaildomain" /\ Column("DeviceInfo")[1] = "DeviceInfo"
    BY DEF Column
  <2> QED
    BY <2>1, <2>2
<1> QED
  BY <1>1, <1>5, <1>6, <1>7, <1>8, <1>9, <1>10 DEF core

\* Its source columns.
LEMMA SourcesOfCore ==
  /\ CoreSources \in Seq(Snapshot) /\ Len(CoreSources) = 12 /\ IsInjective(CoreSources)
  /\ ToSet(CoreSources) = {ServingCore[i] : i \in 1..12}
  /\ Range(ServingCore) = Range(CoreSources) \cup {Presence}
  /\ Presence \notin Snapshot
<1> DEFINE kept == {i \in DOMAIN ServingCore : ServingCore[i] # Presence}
<1>1. kept = 1..12
  BY CoreIsListed
<1>2. IsFiniteSet(kept) /\ kept \subseteq Nat /\ Cardinality(kept) = 12
  <2>1. IsFiniteSet(1..12) /\ 1..12 \subseteq Nat /\ Cardinality(1..12) = 12
    <3>1. PICK n \in Nat : n = 12
      OBVIOUS
    <3>2. IsFiniteSet(1..n) /\ 1..n \subseteq Nat /\ Cardinality(1..n) = n
      <4>1. n >= 1
        BY <3>1
      <4> QED
        BY <4>1, FS_Interval
    <3> QED
      BY <3>1, <3>2, Zenon
  <2> QED
    BY <1>1, <2>1, Zenon
<1>3. \A i \in kept : ServingCore[i] \in Snapshot
  BY <1>1, CoreIsListed
<1>4. CoreSources = Subframe(ServingCore, kept)
  BY DEF CoreSources
<1> HIDE DEF kept
<1>5. /\ Subframe(ServingCore, kept) \in Seq(Snapshot)
      /\ Len(Subframe(ServingCore, kept)) = Cardinality(kept)
      /\ DOMAIN Subframe(ServingCore, kept) = 1..Cardinality(kept)
      /\ Cardinality(kept) \in Nat
      /\ ToSet(Subframe(ServingCore, kept)) = {ServingCore[i] : i \in kept}
      /\ (\A i, j \in kept : ServingCore[i] = ServingCore[j] => i = j) =>
           IsInjective(Subframe(ServingCore, kept))
  BY <1>2, <1>3, SubframeListsRows, Zenon
<1>6. \A i, j \in kept : ServingCore[i] = ServingCore[j] => i = j
  BY <1>1, CoreIsListed DEF IsInjective
<1>7. ToSet(CoreSources) = {ServingCore[i] : i \in 1..12}
  BY <1>1, <1>4, <1>5
<1>8. Range(CoreSources) = ToSet(CoreSources)
  BY DEF ToSet, Range
<1>9. Range(ServingCore) = Range(CoreSources) \cup {Presence}
  <2>1. \A i \in 1..13 : i \in 1..12 \/ i = 13
    OBVIOUS
  <2>2. Range(ServingCore) = {ServingCore[i] : i \in 1..13}
    BY CoreIsListed DEF Range
  <2>3. \A i \in 1..12 : i \in 1..13
    OBVIOUS
  <2> QED
    BY <1>7, <1>8, <2>1, <2>2, <2>3, CoreIsListed
<1>10. Presence \notin Snapshot
  <2>1. Presence[1] = "identity_record_present"
    BY DEF Presence, Column
  <2> QED
    BY <2>1, SnapshotColumns DEF Plain
<1> QED
  BY <1>2, <1>4, <1>5, <1>6, <1>7, <1>9, <1>10

\* A variant whose further columns are others of the snapshot.
LEMMA VariantHolds ==
  ASSUME NEW x \in Seq(Snapshot), IsInjective(x), ToSet(x) \cap ToSet(CoreSources) = {}
  PROVE  LET columns == CoreSources \o x \o <<Presence>> IN
         /\ IsInjective(columns) /\ Len(columns) = 13 + Len(x)
         /\ Range(columns) = ToSet(CoreSources) \cup ToSet(x) \cup {Presence}
<1> DEFINE S == Snapshot \cup {Presence}
           last == <<Presence>>
           front == CoreSources \o x
<1>1. front \in Seq(Snapshot) /\ Len(front) = 12 + Len(x) /\ IsInjective(front)
      /\ ToSet(front) = ToSet(CoreSources) \cup ToSet(x)
  <2>1. ToSet(CoreSources) \cap ToSet(x) = {}
    OBVIOUS
  <2>2. CoreSources \in Seq(Snapshot) /\ Len(CoreSources) = 12 /\ IsInjective(CoreSources)
    BY SourcesOfCore
  <2>3. /\ CoreSources \o x \in Seq(Snapshot)
        /\ Len(CoreSources \o x) = Len(CoreSources) + Len(x)
        /\ ToSet(CoreSources \o x) = ToSet(CoreSources) \cup ToSet(x)
        /\ IsInjective(CoreSources) /\ IsInjective(x) /\ ToSet(CoreSources) \cap ToSet(x) = {} =>
             IsInjective(CoreSources \o x)
    BY <2>2, ConcatLists, Zenon
  <2> QED
    BY <2>1, <2>2, <2>3
<1>2. last \in Seq(S) /\ Len(last) = 1 /\ IsInjective(last) /\ ToSet(last) = {Presence}
  <2>1. Presence \in S
    OBVIOUS
  <2> HIDE DEF S
  <2>2. last \in Seq(S) /\ Len(last) = 1 /\ DOMAIN last = 1..1 /\ last[1] = Presence
    BY <2>1
  <2> HIDE DEF last
  <2>3. \A i \in DOMAIN last : i = 1
    BY <2>2
  <2>4. 1 \in DOMAIN last
    BY <2>2
  <2> QED
    BY <2>2, <2>3, <2>4 DEF IsInjective, ToSet
<1> HIDE DEF front, last
<1>3. ToSet(front) \subseteq Snapshot
  BY <1>1 DEF ToSet
<1>4. front \in Seq(S)
  BY <1>1, <1>3, SequenceOver
<1>5. ToSet(front) \cap ToSet(last) = {}
  BY <1>2, <1>3, SourcesOfCore
<1>6. /\ Len(front \o last) = Len(front) + Len(last)
      /\ ToSet(front \o last) = ToSet(front) \cup ToSet(last)
      /\ IsInjective(front \o last)
  <2>1. /\ front \o last \in Seq(S)
        /\ Len(front \o last) = Len(front) + Len(last)
        /\ ToSet(front \o last) = ToSet(front) \cup ToSet(last)
        /\ IsInjective(front) /\ IsInjective(last) /\ ToSet(front) \cap ToSet(last) = {} =>
             IsInjective(front \o last)
    BY <1>2, <1>4, ConcatLists, Zenon
  <2> QED
    BY <1>1, <1>2, <1>5, <2>1
<1>7. Range(front \o last) = ToSet(front \o last)
  BY DEF ToSet, Range
<1>8. Len(x) \in Nat
  OBVIOUS
<1>9. Len(front \o last) = 13 + Len(x)
  BY <1>1, <1>2, <1>6, <1>8
<1>10. Range(front \o last) = ToSet(CoreSources) \cup ToSet(x) \cup {Presence}
  BY <1>1, <1>2, <1>6, <1>7
<1> QED
  BY <1>6, <1>9, <1>10, Zenon DEF front, last

\* The nine match flags.
LEMMA FlagsAreListed ==
  /\ MatchFlags \in Seq(Snapshot) /\ Len(MatchFlags) = 9 /\ IsInjective(MatchFlags)
  /\ ToSet(MatchFlags) = {<<"M", i>> : i \in 1..9}
<1>1. \A i \in 1..9 : <<"M", i>> \in Snapshot
  BY FamilyOf DEF Snapshot
<1>2. \A i, j \in 1..9 : <<"M", i>> = <<"M", j>> => i = j
  OBVIOUS
<1>3. MatchFlags \in [1..9 -> Snapshot] /\ \A i \in 1..9 : MatchFlags[i] = <<"M", i>>
  BY <1>1 DEF MatchFlags
<1>4. DOMAIN MatchFlags = 1..9
  BY DEF MatchFlags
<1>5. IsInjective(MatchFlags)
  BY <1>2, <1>3, <1>4 DEF IsInjective
<1>6. ToSet(MatchFlags) = {<<"M", i>> : i \in 1..9}
  BY <1>3, <1>4 DEF ToSet
<1>7. MatchFlags \in Seq(Snapshot)
  <2>1. PICK n \in Nat : n = 9
    OBVIOUS
  <2>2. MatchFlags \in [1..n -> Snapshot]
    BY <1>3, <2>1, Zenon
  <2> QED
    BY <2>2
<1>8. Len(MatchFlags) = 9
  <2>1. \A a, b \in Nat : 1..a = 1..b => a = b
    <3> TAKE a, b \in Nat
    <3>1. Cardinality(1..a) = a /\ Cardinality(1..b) = b
      BY FS_Interval
    <3> QED
      BY <3>1
  <2>2. Len(MatchFlags) \in Nat /\ DOMAIN MatchFlags = 1..Len(MatchFlags)
    BY <1>7
  <2>3. PICK n \in Nat : n = 9
    OBVIOUS
  <2>4. 1..Len(MatchFlags) = 1..n
    BY <1>4, <2>2, <2>3, Zenon
  <2> QED
    BY <2>1, <2>2, <2>3, <2>4
<1> QED
  BY <1>5, <1>6, <1>7, <1>8

\* One column.
LEMMA OneColumn ==
  ASSUME NEW c \in Snapshot
  PROVE  /\ <<c>> \in Seq(Snapshot) /\ Len(<<c>>) = 1 /\ IsInjective(<<c>>)
         /\ ToSet(<<c>>) = {c}
<1> DEFINE s == <<c>>
<1>1. s \in Seq(Snapshot) /\ Len(s) = 1 /\ DOMAIN s = 1..1 /\ s[1] = c
  OBVIOUS
<1> HIDE DEF s
<1>2. \A i \in DOMAIN s : i = 1
  BY <1>1
<1>3. 1 \in DOMAIN s
  BY <1>1
<1>4. IsInjective(s) /\ ToSet(s) = {c}
  BY <1>1, <1>2, <1>3 DEF IsInjective, ToSet
<1> QED
  BY <1>1, <1>4 DEF s

\* The further columns of the five variants.
LEMMA ExtrasAreListed ==
  LET mail == Column("R_emaildomain")
      info == Column("DeviceInfo")
      flags == {<<"M", i>> : i \in 1..9}
  IN
  /\ \A v \in DOMAIN ExtraColumns :
       /\ ExtraColumns[v] \in Seq(Snapshot) /\ IsInjective(ExtraColumns[v])
       /\ InputCounts[v] = 13 + Len(ExtraColumns[v])
       /\ ToSet(ExtraColumns[v]) \subseteq {mail, info} \cup flags
  /\ "E" \in DOMAIN ExtraColumns
  /\ ToSet(ExtraColumns["E"]) = {mail, info} \cup flags
<1> DEFINE mail == Column("R_emaildomain")
           info == Column("DeviceInfo")
           flags == {<<"M", i>> : i \in 1..9}
           D == <<mail>> \o MatchFlags
           E == D \o <<info>>
<1>1. mail \in Snapshot /\ info \in Snapshot /\ mail # info
  <2>1. mail[1] = "R_emaildomain" /\ info[1] = "DeviceInfo"
    BY DEF Column
  <2> QED
    BY <2>1 DEF Snapshot
<1>2. mail \notin flags /\ info \notin flags
  <2>1. mail[1] = "R_emaildomain" /\ info[1] = "DeviceInfo"
    BY DEF Column
  <2>2. \A c \in flags : c[1] = "M"
    OBVIOUS
  <2> HIDE DEF mail, info, flags
  <2> QED
    BY <2>1, <2>2
<1>3. /\ MatchFlags \in Seq(Snapshot) /\ Len(MatchFlags) = 9 /\ IsInjective(MatchFlags)
      /\ ToSet(MatchFlags) = flags
  BY FlagsAreListed
<1>4. /\ ExtraColumns["A"] = <<>> /\ ExtraColumns["B"] = <<mail>>
      /\ ExtraColumns["C"] = MatchFlags /\ ExtraColumns["D"] = D /\ ExtraColumns["E"] = E
      /\ DOMAIN ExtraColumns = {"A", "B", "C", "D", "E"}
  BY DEF ExtraColumns
<1>5. /\ InputCounts["A"] = 13 /\ InputCounts["B"] = 14 /\ InputCounts["C"] = 22
      /\ InputCounts["D"] = 23 /\ InputCounts["E"] = 24
  BY DEF InputCounts
<1> HIDE DEF mail, info, flags, D, E
<1>6. <<mail>> \in Seq(Snapshot) /\ Len(<<mail>>) = 1 /\ IsInjective(<<mail>>) /\ ToSet(<<mail>>) = {mail}
  BY <1>1, OneColumn
<1>7. <<info>> \in Seq(Snapshot) /\ Len(<<info>>) = 1 /\ IsInjective(<<info>>) /\ ToSet(<<info>>) = {info}
  BY <1>1, OneColumn
<1>8. D \in Seq(Snapshot) /\ Len(D) = 10 /\ IsInjective(D) /\ ToSet(D) = {mail} \cup flags
  <2> DEFINE a == <<mail>>
  <2> HIDE DEF a
  <2>1. a \in Seq(Snapshot) /\ Len(a) = 1 /\ IsInjective(a) /\ ToSet(a) = {mail}
    BY <1>6 DEF a
  <2>2. /\ a \o MatchFlags \in Seq(Snapshot)
        /\ Len(a \o MatchFlags) = Len(a) + Len(MatchFlags)
        /\ ToSet(a \o MatchFlags) = ToSet(a) \cup ToSet(MatchFlags)
        /\ IsInjective(a) /\ IsInjective(MatchFlags) /\ ToSet(a) \cap ToSet(MatchFlags) = {} =>
             IsInjective(a \o MatchFlags)
    BY <1>3, <2>1, ConcatLists, Zenon
  <2>3. ToSet(a) \cap ToSet(MatchFlags) = {}
    BY <1>2, <1>3, <2>1
  <2>4. D = a \o MatchFlags
    BY DEF D, a
  <2> QED
    BY <1>3, <2>1, <2>2, <2>3, <2>4
<1>9. E \in Seq(Snapshot) /\ Len(E) = 11 /\ IsInjective(E) /\ ToSet(E) = {mail, info} \cup flags
  <2> DEFINE b == <<info>>
  <2> HIDE DEF b
  <2>1. b \in Seq(Snapshot) /\ Len(b) = 1 /\ IsInjective(b) /\ ToSet(b) = {info}
    BY <1>7 DEF b
  <2>2. /\ D \o b \in Seq(Snapshot)
        /\ Len(D \o b) = Len(D) + Len(b)
        /\ ToSet(D \o b) = ToSet(D) \cup ToSet(b)
        /\ IsInjective(D) /\ IsInjective(b) /\ ToSet(D) \cap ToSet(b) = {} =>
             IsInjective(D \o b)
    BY <1>8, <2>1, ConcatLists, Zenon
  <2>3. ToSet(D) \cap ToSet(b) = {}
    BY <1>1, <1>2, <1>8, <2>1
  <2>4. E = D \o b
    BY DEF E, b
  <2>5. ({mail} \cup flags) \cup {info} = {mail, info} \cup flags
    OBVIOUS
  <2> QED
    BY <1>8, <2>1, <2>2, <2>3, <2>4, <2>5
<1>10. <<>> \in Seq(Snapshot) /\ Len(<<>>) = 0 /\ IsInjective(<<>>) /\ ToSet(<<>>) = {}
  BY DEF IsInjective, ToSet
<1>11. ASSUME NEW v \in DOMAIN ExtraColumns
       PROVE  /\ ExtraColumns[v] \in Seq(Snapshot) /\ IsInjective(ExtraColumns[v])
              /\ InputCounts[v] = 13 + Len(ExtraColumns[v])
              /\ ToSet(ExtraColumns[v]) \subseteq {mail, info} \cup flags
  <2> DEFINE x == ExtraColumns[v]
             n == InputCounts[v]
  <2>1. v \in {"A", "B", "C", "D", "E"}
    BY <1>4
  <2>2. \/ x = <<>> /\ n = 13
        \/ x = <<mail>> /\ n = 14
        \/ x = MatchFlags /\ n = 22
        \/ x = D /\ n = 23
        \/ x = E /\ n = 24
    BY <1>4, <1>5, <2>1
  <2> SUFFICES /\ x \in Seq(Snapshot) /\ IsInjective(x) /\ n = 13 + Len(x)
               /\ ToSet(x) \subseteq {mail, info} \cup flags
    OBVIOUS
  <2> HIDE DEF x, n
  <2>3. CASE x = <<>> /\ n = 13
    BY <1>10, <2>3
  <2>4. CASE x = <<mail>> /\ n = 14
    BY <1>6, <2>4
  <2>5. CASE x = MatchFlags /\ n = 22
    <3>1. x \in Seq(Snapshot) /\ IsInjective(x) /\ Len(x) = 9 /\ ToSet(x) = flags
      BY <1>3, <2>5, Zenon
    <3>2. n = 13 + Len(x)
      BY <2>5, <3>1
    <3>3. ToSet(x) \subseteq {mail, info} \cup flags
      BY ONLY <3>1
    <3> QED
      BY <3>1, <3>2, <3>3, Zenon
  <2>6. CASE x = D /\ n = 23
    <3>1. x \in Seq(Snapshot) /\ IsInjective(x) /\ Len(x) = 10 /\ ToSet(x) = {mail} \cup flags
      BY <1>8, <2>6, Zenon
    <3>2. n = 13 + Len(x)
      BY <2>6, <3>1
    <3>3. ToSet(x) \subseteq {mail, info} \cup flags
      BY ONLY <3>1
    <3> QED
      BY <3>1, <3>2, <3>3, Zenon
  <2>7. CASE x = E /\ n = 24
    <3>1. x \in Seq(Snapshot) /\ IsInjective(x) /\ Len(x) = 11 /\ ToSet(x) = {mail, info} \cup flags
      BY <1>9, <2>7, Zenon
    <3>2. n = 13 + Len(x)
      BY <2>7, <3>1
    <3>3. ToSet(x) \subseteq {mail, info} \cup flags
      BY ONLY <3>1
    <3> QED
      BY <3>1, <3>2, <3>3, Zenon
  <2> QED
    BY <2>2, <2>3, <2>4, <2>5, <2>6, <2>7
<1>12. "E" \in DOMAIN ExtraColumns /\ ToSet(ExtraColumns["E"]) = {mail, info} \cup flags
  BY <1>4, <1>9
<1> QED
  BY <1>11, <1>12 DEF mail, info, flags

\* Superset: the snapshot without one mail domain, and the presence of an identity;
\* it holds every column of the core.
LEMMA SupersetHolds ==
  /\ Superset = Snapshot \cup {Presence}
  /\ Range(ServingCore) \subseteq Superset
  /\ \A v \in DOMAIN ExtraColumns : ValidVariant(v)
<1> DEFINE mail == Column("R_emaildomain")
           info == Column("DeviceInfo")
           flags == {<<"M", i>> : i \in 1..9}
<1>1. /\ \A v \in DOMAIN ExtraColumns :
           /\ ExtraColumns[v] \in Seq(Snapshot) /\ IsInjective(ExtraColumns[v])
           /\ InputCounts[v] = 13 + Len(ExtraColumns[v])
           /\ ToSet(ExtraColumns[v]) \subseteq {mail, info} \cup flags
      /\ "E" \in DOMAIN ExtraColumns
      /\ ToSet(ExtraColumns["E"]) = {mail, info} \cup flags
  BY ExtrasAreListed, Zenon
<1>2. ToSet(CoreSources) \cap ({mail, info} \cup flags) = {}
  <2>1. \A c \in flags : c[1] = "M"
    OBVIOUS
  <2>2. \A i \in 1..12 : ServingCore[i] # mail /\ ServingCore[i] # info /\ ServingCore[i][1] # "M"
    BY CoreIsListed
  <2> HIDE DEF mail, info, flags
  <2>3. \A c \in ToSet(CoreSources) : \E i \in 1..12 : c = ServingCore[i]
    BY SourcesOfCore
  <2> QED
    BY <2>1, <2>2, <2>3
<1>3. /\ mail \in Snapshot /\ info \in Snapshot /\ flags \subseteq Snapshot
  <2>1. \A i \in 1..9 : <<"M", i>> \in Snapshot
    BY FamilyOf DEF Snapshot
  <2> QED
    BY <2>1 DEF Snapshot
<1>4. \A c \in Snapshot : c \in ToSet(CoreSources) \/ c \in {mail, info} \/ c \in flags
  <2> TAKE c \in Snapshot
  <2>1. \/ \E i \in 1..12 : ServingCore[i] = c
        \/ c \in {mail, info}
        \/ c[1] = "M"
    BY CoreIsListed
  <2>2. c[1] = "M" => c = <<"M", c[2]>> /\ c[2] \in 1..9
    BY SnapshotColumns DEF Plain
  <2>3. c[1] = "M" => c \in flags
    BY <2>2
  <2>4. (\E i \in 1..12 : ServingCore[i] = c) => c \in ToSet(CoreSources)
    BY SourcesOfCore
  <2> QED
    BY <2>1, <2>3, <2>4
<1>5. ToSet(CoreSources) \subseteq Snapshot
  BY SourcesOfCore, CoreIsListed
<1> HIDE DEF mail, info, flags
<1>6. ASSUME NEW v \in DOMAIN ExtraColumns
      PROVE  /\ IsInjective(VariantColumns(v)) /\ Len(VariantColumns(v)) = InputCounts[v]
             /\ Range(VariantColumns(v)) = ToSet(CoreSources) \cup ToSet(ExtraColumns[v]) \cup {Presence}
             /\ ToSet(ExtraColumns[v]) \subseteq Snapshot
  <2> DEFINE x == ExtraColumns[v]
  <2>1. /\ x \in Seq(Snapshot) /\ IsInjective(x) /\ InputCounts[v] = 13 + Len(x)
        /\ ToSet(x) \subseteq {mail, info} \cup flags
    BY <1>1
  <2>2. VariantColumns(v) = CoreSources \o x \o <<Presence>>
    BY DEF VariantColumns
  <2> HIDE DEF x
  <2>3. ToSet(x) \cap ToSet(CoreSources) = {}
    BY <1>2, <2>1
  <2>4. /\ IsInjective(CoreSources \o x \o <<Presence>>)
        /\ Len(CoreSources \o x \o <<Presence>>) = 13 + Len(x)
        /\ Range(CoreSources \o x \o <<Presence>>) = ToSet(CoreSources) \cup ToSet(x) \cup {Presence}
    BY <2>1, <2>3, VariantHolds, Zenon
  <2>5. ToSet(x) \subseteq Snapshot
    BY <2>1 DEF ToSet
  <2> QED
    BY <2>1, <2>2, <2>4, <2>5, Zenon DEF x
<1>7. Superset = Snapshot \cup {Presence}
  <2>1. Superset = ToSet(CoreSources) \cup ToSet(ExtraColumns["E"]) \cup {Presence}
    BY <1>1, <1>6 DEF Superset
  <2> QED
    BY <1>1, <1>3, <1>4, <1>5, <2>1
<1>8. Range(ServingCore) \subseteq Superset
  <2>1. Range(CoreSources) = ToSet(CoreSources)
    BY DEF Range, ToSet
  <2> QED
    BY <1>5, <1>7, <2>1, SourcesOfCore
<1>9. ASSUME NEW v \in DOMAIN ExtraColumns PROVE ValidVariant(v)
  <2>1. \A c \in Range(VariantColumns(v)) \ {Presence} : c \in Snapshot
    BY <1>5, <1>6, <1>9
  <2>2. \A c \in Range(VariantColumns(v)) \ {Presence} : ~PermanentlyProhibited(c) /\ c \in ServingEligible
    BY <2>1, RulesServeSnapshot
  <2> QED
    BY <1>6, <1>9, <2>2 DEF ValidVariant
<1> QED
  BY <1>7, <1>8, <1>9

\* The three files agree.
LEMMA ContractsDoAgree == ContractsAgree
<1>1. /\ ToSet(CoreSources) \subseteq Snapshot /\ Range(CoreSources) = ToSet(CoreSources)
      /\ Range(CoreSources) \subseteq Range(ServingCore)
  <2>1. ToSet(CoreSources) \subseteq Snapshot
    BY SourcesOfCore, CoreIsListed
  <2>2. Range(CoreSources) = ToSet(CoreSources)
    BY DEF Range, ToSet
  <2> QED
    BY <2>1, <2>2, SourcesOfCore
<1>2. SchemaIsLocked
  BY <1>1, CoreIsListed, RulesServeSnapshot DEF SchemaIsLocked, IsForbidden
<1>3. ValidSelection(CoreSources)
  BY <1>1, SourcesOfCore, RulesServeSnapshot DEF ValidSelection
<1>4. \A c \in DOMAIN FeatureRules :
        /\ c \in Superset <=> c \in ServingEligible
        /\ PermanentlyProhibited(c) <=> c \notin ServingEligible
  <2>1. Presence \notin DOMAIN FeatureRules
    <3>1. Presence[1] = "identity_record_present" /\ Presence[2] = 0
      BY DEF Presence, Column
    <3> QED
      BY <3>1, RulesServeSnapshot, SourcesOfCore, RemainingColumns
  <2> QED
    BY <2>1, SupersetHolds, RulesServeSnapshot
<1> QED
  BY <1>2, <1>3, <1>4, SupersetHolds DEF ContractsAgree

\* The cell a builder looks at.
CellOf(row, c) ==
  IF c \notin IdentitySourced THEN row.cells[c]
  ELSE IF row.present THEN row.identity[c] ELSE NoCell

\* What a cell says of a column.
Says(c, cell) ==
  IF cell.is \in {"none", "blank"} THEN Null
  ELSE IF c \in NumericColumns THEN [is |-> "float", value |-> cell.value]
  ELSE cell

\* A number is kept as it is said, or refused.
LEMMA NumbersAreKept ==
  ASSUME NEW c, NEW cell, NormaliseNumeric(c, cell) # Refused
  PROVE  NormaliseNumeric(c, cell) = IF cell.is \in {"none", "blank"} THEN Null
                                     ELSE [is |-> "float", value |-> cell.value]
<1>1. CASE cell.is \in {"none", "blank"}
  BY <1>1 DEF NormaliseNumeric
<1>2. CASE cell.is = "number"
  BY <1>2 DEF NormaliseNumeric
<1>3. CASE cell.is \notin {"none", "blank", "number"}
  BY <1>3 DEF NormaliseNumeric
<1> QED
  BY <1>1, <1>2, <1>3

\* Of a text either there is nothing, or it is escaped, or it is kept.
LEMMA TextsAreKept ==
  ASSUME NEW cell, IsCell(cell), NEW policy, NormaliseCategorical(cell, policy) # Refused
  PROVE  \/ /\ cell.is \in {"none", "blank"}
            /\ NormaliseCategorical(cell, policy) = MissingToken
         \/ /\ cell = ReservedText /\ cell.is = "reserved" /\ policy = "escape"
            /\ NormaliseCategorical(cell, policy) = PrefixedText
         \/ /\ cell.is \in {"null", "text", "number"}
            /\ NormaliseCategorical(cell, policy) = cell
<1>1. cell.is \in {"none", "blank", "reserved", "prefixed", "null", "text", "number"}
  BY DEF IsCell
<1>2. cell.is = "reserved" => cell = ReservedText
  BY DEF IsCell
<1>3. CASE cell.is \in {"none", "blank"}
  BY <1>3 DEF NormaliseCategorical
<1>4. CASE cell.is = "reserved"
  BY <1>2, <1>4 DEF NormaliseCategorical
<1>5. CASE cell.is = "prefixed"
  BY <1>5 DEF NormaliseCategorical
<1>6. CASE cell.is \in {"null", "text", "number"}
  BY <1>6 DEF NormaliseCategorical
<1> QED
  BY <1>1, <1>3, <1>4, <1>5, <1>6

\* Two cells of a column become the same feature exactly when they say the same.
LEMMA FeaturesSayTheSame ==
  ASSUME NEW c, NEW one, NEW two, IsCell(one), IsCell(two), NEW policy,
         Normalise(c, one, policy) # Refused, Normalise(c, two, policy) # Refused
  PROVE  Normalise(c, one, policy) = Normalise(c, two, policy) <=> Says(c, one) = Says(c, two)
<1>1. CASE c \in NumericColumns
  <2>1. ASSUME NEW cell, Normalise(c, cell, policy) # Refused
        PROVE  Normalise(c, cell, policy) = Says(c, cell)
    <3>1. Normalise(c, cell, policy) = NormaliseNumeric(c, cell)
      BY <1>1 DEF Normalise
    <3>2. NormaliseNumeric(c, cell) # Refused
      BY <2>1, <3>1
    <3>3. NormaliseNumeric(c, cell) = IF cell.is \in {"none", "blank"} THEN Null
                                      ELSE [is |-> "float", value |-> cell.value]
      BY <3>2, NumbersAreKept, Zenon
    <3> QED
      BY <1>1, <3>1, <3>3 DEF Says
  <2> QED
    BY <2>1
<1>2. CASE c \notin NumericColumns
  <2> DEFINE kept(cell) == NormaliseCategorical(cell, policy)
  <2>1. \A cell : Normalise(c, cell, policy) = kept(cell)
    BY <1>2 DEF Normalise
  <2>2. \A cell : Says(c, cell) = IF cell.is \in {"none", "blank"} THEN Null ELSE cell
    BY <1>2 DEF Says
  <2>3. \/ one.is \in {"none", "blank"} /\ kept(one) = MissingToken
        \/ one = ReservedText /\ one.is = "reserved" /\ policy = "escape" /\ kept(one) = PrefixedText
        \/ one.is \in {"null", "text", "number"} /\ kept(one) = one
    BY <2>1, TextsAreKept
  <2>4. \/ two.is \in {"none", "blank"} /\ kept(two) = MissingToken
        \/ two = ReservedText /\ two.is = "reserved" /\ policy = "escape" /\ kept(two) = PrefixedText
        \/ two.is \in {"null", "text", "number"} /\ kept(two) = two
    BY <2>1, TextsAreKept
  <2>5. /\ MissingToken.is = "missing" /\ PrefixedText.is = "prefixed" /\ Null.is = "nothing"
        /\ ReservedText.is = "reserved"
    BY DEF MissingToken, PrefixedText, Null, ReservedText
  <2> HIDE DEF kept
  <2>6. kept(one) = kept(two) <=> Says(c, one) = Says(c, two)
    BY <2>2, <2>3, <2>4, <2>5
  <2> QED
    BY <2>1, <2>6
<1> QED
  BY <1>1, <1>2

\* Presence has no source column, and no column of an identity is a number.
LEMMA PresenceIsApart ==
  /\ Presence \notin IdentitySourced /\ Presence \notin NumericColumns
  /\ \A c \in IdentitySourced : c \notin NumericColumns /\ c # Presence
<1>1. Presence[1] = "identity_record_present"
  BY DEF Presence, Column
<1>2. \A c \in IdentitySourced : c[1] \in {"DeviceType", "DeviceInfo"}
  BY DEF IdentitySourced, Column
<1>3. \A c \in NumericColumns : c[1] \in {"TransactionAmt", "card", "addr"}
  BY DEF NumericColumns, Column
<1> QED
  BY <1>1, <1>2, <1>3

\* A row a source has.
IsSourceRow(row) ==
  /\ {"role", "present", "cells", "identity"} \subseteq DOMAIN row
  /\ \A c \in TransactionSourced : IsCell(row.cells[c])
  /\ row.present => \A c \in IdentitySourced : IsCell(row.identity[c])

\* Each cell a builder looks at is one of a source.
LEMMA CellsAreCells ==
  ASSUME NEW row, IsSourceRow(row), NEW c \in Superset \ {Presence}
  PROVE  IsCell(CellOf(row, c))
<1>1. IsCell(NoCell)
  BY DEF IsCell, NoCell
<1>2. CASE c \in IdentitySourced
  BY <1>1, <1>2 DEF CellOf, IsSourceRow
<1>3. CASE c \notin IdentitySourced
  <2>1. c \in TransactionSourced
    BY <1>3 DEF TransactionSourced
  <2> QED
    BY <1>3, <2>1 DEF CellOf, IsSourceRow
<1> QED
  BY <1>2, <1>3

\* What the builder of the core makes of a row, and that of the superset.
LEMMA BuiltCells ==
  ASSUME NEW row, NEW policy
  PROVE  /\ DOMAIN BuildRow(row, policy) = Range(ServingCore)
         /\ \A c \in Range(ServingCore) \ {Presence} :
              BuildRow(row, policy)[c] = Normalise(c, CellOf(row, c), policy)
         /\ DOMAIN SupersetRow(row) = Superset
         /\ \A c \in Superset \ {Presence} :
              SupersetRow(row)[c] = Normalise(c, CellOf(row, c), "reject")
         /\ \A c \in Range(ServingCore) : BuildRow(row, "reject")[c] = SupersetRow(row)[c]
<1>1. DOMAIN BuildRow(row, policy) = Range(ServingCore) /\ DOMAIN SupersetRow(row) = Superset
  BY DEF BuildRow, SupersetRow
<1>2. ASSUME NEW c \in Range(ServingCore), c # Presence, NEW p
      PROVE  BuildRow(row, p)[c] = Normalise(c, CellOf(row, c), p)
  BY <1>2 DEF BuildRow, CellOf
<1>3. ASSUME NEW c \in Superset, c # Presence
      PROVE  SupersetRow(row)[c] = Normalise(c, CellOf(row, c), "reject")
  <2>1. CASE c \in IdentitySourced
    <3>1. SupersetRow(row)[c] =
            NormaliseCategorical(IF row.present THEN row.identity[c] ELSE NoCell, "reject")
      BY <1>3, <2>1 DEF SupersetRow
    <3> QED
      BY <2>1, <3>1, PresenceIsApart DEF Normalise, CellOf
  <2>2. CASE c \notin IdentitySourced
    BY <1>3, <2>2 DEF SupersetRow, CellOf
  <2> QED
    BY <2>1, <2>2
<1>4. ASSUME NEW c \in Range(ServingCore) PROVE BuildRow(row, "reject")[c] = SupersetRow(row)[c]
  <2>1. c \in Superset
    BY SupersetHolds
  <2>2. CASE c = Presence
    <3>1. BuildRow(row, "reject")[c] = PresenceFlag(row.present)
      BY <1>4, <2>2 DEF BuildRow
    <3>2. SupersetRow(row)[c] = PresenceFlag(row.present)
      BY <2>1, <2>2, PresenceIsApart DEF SupersetRow
    <3> QED
      BY <3>1, <3>2
  <2>3. CASE c # Presence
    BY <1>2, <1>3, <1>4, <2>1, <2>3
  <2> QED
    BY <2>2, <2>3
<1> QED
  BY <1>1, <1>2, <1>3, <1>4

\* Two rows of the core are told apart by what they say, and by nothing else.
LEMMA RowsSayTheSame ==
  ASSUME NEW row, NEW other, IsSourceRow(row), IsSourceRow(other), NEW policy,
         ~Refuses(BuildRow(row, policy)), ~Refuses(BuildRow(other, policy)),
         NEW c \in Range(CoreSources)
  PROVE  BuildRow(row, policy)[c] = BuildRow(other, policy)[c] <=> Meaning(row, c) = Meaning(other, c)
<1>1. c \in Range(ServingCore) /\ c # Presence /\ c \in Superset
  <2>1. c \in ToSet(CoreSources)
    BY DEF Range, ToSet
  <2>2. c \in Snapshot
    BY <2>1, SourcesOfCore, CoreIsListed
  <2> QED
    BY <2>2, SourcesOfCore, SupersetHolds
<1>2. /\ BuildRow(row, policy)[c] = Normalise(c, CellOf(row, c), policy)
      /\ BuildRow(other, policy)[c] = Normalise(c, CellOf(other, c), policy)
  BY <1>1, BuiltCells
<1>3. BuildRow(row, policy)[c] # Refused /\ BuildRow(other, policy)[c] # Refused
  BY <1>1, BuiltCells DEF Refuses
<1>4. IsCell(CellOf(row, c)) /\ IsCell(CellOf(other, c))
  BY <1>1, CellsAreCells
<1>5. Meaning(row, c) = Says(c, CellOf(row, c)) /\ Meaning(other, c) = Says(c, CellOf(other, c))
  BY DEF Meaning, Says, CellOf
<1> QED
  BY <1>2, <1>3, <1>4, <1>5, FeaturesSayTheSame

\* A text that is not refused is missing, null-like, a text or a number in the file.
LEMMA ColumnsOfRows ==
  ASSUME NEW row, IsSourceRow(row), ~Refuses(SupersetRow(row)), NEW c \in Superset
  PROVE  /\ c \in NumericColumns => SupersetRow(row)[c].is \in {"nothing", "float"}
         /\ c \notin NumericColumns =>
              SupersetRow(row)[c].is \in {"missing", "null", "text", "number", "bool"}
<1> DEFINE x == SupersetRow(row)[c]
           cell == CellOf(row, c)
<1>1. x # Refused
  BY BuiltCells DEF Refuses
<1>2. CASE c = Presence
  <2>1. x = PresenceFlag(row.present)
    BY <1>2, PresenceIsApart DEF SupersetRow
  <2> QED
    BY <1>2, <2>1, PresenceIsApart DEF PresenceFlag
<1>3. CASE c # Presence /\ c \in NumericColumns
  <2>1. x = Normalise(c, cell, "reject")
    BY <1>3, BuiltCells
  <2>2. x = NormaliseNumeric(c, cell)
    BY <1>3, <2>1 DEF Normalise
  <2>3. NormaliseNumeric(c, cell) # Refused
    BY <1>1, <2>2
  <2>4. NormaliseNumeric(c, cell) = IF cell.is \in {"none", "blank"} THEN Null
                                    ELSE [is |-> "float", value |-> cell.value]
    BY <2>3, NumbersAreKept, Zenon
  <2>5. x = Null \/ x = [is |-> "float", value |-> cell.value]
    BY <2>2, <2>4
  <2> HIDE DEF x, cell
  <2>6. x.is \in {"nothing", "float"}
    BY <2>5 DEF Null
  <2> QED
    BY <1>3, <2>6 DEF x
<1>4. CASE c # Presence /\ c \notin NumericColumns
  <2>1. x = NormaliseCategorical(cell, "reject")
    <3>1. x = Normalise(c, cell, "reject")
      BY <1>4, BuiltCells
    <3> QED
      BY <1>4, <3>1 DEF Normalise
  <2>2. IsCell(cell)
    BY <1>4, CellsAreCells
  <2>3. NormaliseCategorical(cell, "reject") # Refused
    BY <1>1, <2>1
  <2>4. \/ NormaliseCategorical(cell, "reject") = MissingToken
        \/ /\ cell.is \in {"null", "text", "number"}
           /\ NormaliseCategorical(cell, "reject") = cell
    BY <2>2, <2>3, TextsAreKept
  <2> HIDE DEF x, cell
  <2>5. x = MissingToken \/ (x = cell /\ cell.is \in {"null", "text", "number"})
    BY <2>1, <2>4
  <2>6. x.is \in {"missing", "null", "text", "number"}
    BY <2>5 DEF MissingToken
  <2> QED
    BY <1>4, <2>6 DEF x
<1> QED
  BY <1>2, <1>3, <1>4

\* A frame of rows of the superset that reads as written is read as it is.
LEMMA FileReadsAsFrame ==
  ASSUME NEW n \in Nat, n > 0, NEW rows, \A i \in 1..n : IsSourceRow(rows[i]),
         \A i \in 1..n : ~Refuses(SupersetRow(rows[i])),
         ReadsAsWritten([i \in 1..n |-> SupersetRow(rows[i])])
  PROVE  ReadMatrix([i \in 1..n |-> SupersetRow(rows[i])]) = [i \in 1..n |-> SupersetRow(rows[i])]
<1> DEFINE matrix == [i \in 1..n |-> SupersetRow(rows[i])]
<1>1. DOMAIN matrix = 1..n /\ 1 \in 1..n
  OBVIOUS
<1>2. \A i \in 1..n : matrix[i] = SupersetRow(rows[i])
  OBVIOUS
<1>3. \A i \in 1..n : DOMAIN matrix[i] = Superset
  BY <1>2, BuiltCells
<1>4. \A i \in 1..n, c \in Superset :
        /\ c \in NumericColumns => matrix[i][c].is \in {"nothing", "float"}
        /\ c \notin NumericColumns => matrix[i][c].is \in {"missing", "null", "text", "number", "bool"}
  BY <1>2, ColumnsOfRows
<1>5. ReadsAsWritten(matrix)
  OBVIOUS
<1>6. \A i \in 1..n : matrix[i] = [c \in Superset |-> matrix[i][c]]
  BY <1>2 DEF SupersetRow
<1>7. matrix = [i \in 1..n |-> matrix[i]]
  OBVIOUS
<1> HIDE DEF matrix
<1>8. ASSUME NEW c \in Superset, NEW i \in 1..n PROVE ReadColumn(matrix, c)[i] = matrix[i][c]
  <2> DEFINE cells == {matrix[k][c] : k \in DOMAIN matrix}
             numbers == \A x \in cells : x.is \in {"number", "float", "null", "nothing"}
             x == matrix[i][c]
  <2>1. ReadColumn(matrix, c)[i] =
          IF x.is = "null" THEN Null
          ELSE IF numbers /\ x.is = "number" THEN [is |-> "float", value |-> x.value]
          ELSE x
    BY <1>1 DEF ReadColumn
  <2>2. x.is # "null" /\ ~(numbers /\ x.is = "number")
    <3>1. CASE c \in NumericColumns
      BY <1>4, <3>1
    <3>2. CASE c \notin NumericColumns
      <4>1. /\ \A k \in 1..n : matrix[k][c].is # "null"
            /\ \E k \in 1..n : matrix[k][c].is # "number"
        BY <1>1, <1>3, <1>5, <3>2 DEF ReadsAsWritten
      <4>2. PICK k \in 1..n : matrix[k][c].is # "number"
        BY <4>1
      <4>3. matrix[k][c].is \in {"missing", "text", "bool"}
        BY <1>4, <3>2, <4>1, <4>2
      <4>4. matrix[k][c] \in cells
        BY <1>1
      <4>5. ~numbers
        BY <4>3, <4>4
      <4> QED
        BY <4>1, <4>5
    <3> QED
      BY <3>1, <3>2
  <2> HIDE DEF numbers, x
  <2>3. ReadColumn(matrix, c)[i] = x
    BY <2>1, <2>2
  <2> QED
    BY <2>3 DEF x
<1>9. DOMAIN matrix[1] = Superset
  BY <1>1, <1>3
<1>10. ReadMatrix(matrix) = [i \in 1..n |-> [c \in Superset |-> ReadColumn(matrix, c)[i]]]
  <2> DEFINE read == [c \in Superset |-> ReadColumn(matrix, c)]
  <2>1. ReadMatrix(matrix) = [i \in 1..n |-> [c \in Superset |-> read[c][i]]]
    BY <1>1, <1>9 DEF ReadMatrix
  <2>2. \A i \in 1..n, c \in Superset : read[c][i] = ReadColumn(matrix, c)[i]
    OBVIOUS
  <2> HIDE DEF read
  <2> QED
    BY <2>1, <2>2
<1>11. \A i \in 1..n : [c \in Superset |-> ReadColumn(matrix, c)[i]] = matrix[i]
  <2> TAKE i \in 1..n
  <2>1. [c \in Superset |-> ReadColumn(matrix, c)[i]] = [c \in Superset |-> matrix[i][c]]
    BY <1>8
  <2> QED
    BY <1>6, <2>1
<1>12. ReadMatrix(matrix) = matrix
  <2>1. [i \in 1..n |-> [c \in Superset |-> ReadColumn(matrix, c)[i]]] = [i \in 1..n |-> matrix[i]]
    BY <1>11
  <2> QED
    BY <1>7, <1>10, <2>1, Zenon
<1> QED
  BY <1>12 DEF matrix

\* The frames of one role: core, file, and the same rows under final_test.
FramesAgree(table, role) ==
  LET core   == CoreMatrix(table, role)
      matrix == SupersetMatrix(table, role)
      asFinal == [i \in DOMAIN table |->
                   [table[i] EXCEPT !.role = IF @ = role THEN "final_test" ELSE "other"]]
  IN  matrix # <<>> =>
        /\ core = [i \in DOMAIN matrix |->
                     [c \in Range(ServingCore) |-> matrix[i][c]]]
        /\ ReadsAsWritten(matrix) => ReadMatrix(matrix) = FinalFrame(asFinal)

LEMMA FramesOfRole ==
  ASSUME NEW table, table \in Seq(Range(table)), \A row \in Range(table) : IsSourceRow(row), NEW role
  PROVE  FramesAgree(table, role)
<1> DEFINE matrix == SupersetMatrix(table, role)
           asFinal == [i \in DOMAIN table |->
                        [table[i] EXCEPT !.role = IF @ = role THEN "final_test" ELSE "other"]]
           of == {i \in DOMAIN table : table[i].role = role}
           n == Cardinality(of)
           rows == RowsOfRole(table, role)
           finals == RowsOfRole(asFinal, "final_test")
           built == [i \in 1..n |-> SupersetRow(rows[i])]
<1>1. DOMAIN table = 1..Len(table) /\ Len(table) \in Nat /\ \A i \in DOMAIN table : IsSourceRow(table[i])
  <2>1. \A i \in DOMAIN table : table[i] \in Range(table)
    BY DEF Range
  <2> QED
    BY <2>1
<1>2. IsFiniteSet(of) /\ of \subseteq Nat /\ n \in Nat
  <2>1. IsFiniteSet(1..Len(table)) /\ of \subseteq 1..Len(table)
    BY <1>1, FS_Interval
  <2>2. IsFiniteSet(of) /\ of \subseteq Nat
    BY <1>1, <2>1, FS_Subset
  <2> QED
    BY <2>2, FS_CardinalityType
<1>3. \A i \in of : i \in DOMAIN table /\ IsSourceRow(table[i])
  BY <1>1
<1>4. ASSUME NEW i \in DOMAIN table
      PROVE  /\ asFinal[i].role = "final_test" <=> table[i].role = role
             /\ asFinal[i].present = table[i].present
             /\ asFinal[i].cells = table[i].cells /\ asFinal[i].identity = table[i].identity
  <2> DEFINE row == table[i]
             said == IF row.role = role THEN "final_test" ELSE "other"
  <2>1. {"role", "present", "cells", "identity"} \subseteq DOMAIN row
    BY <1>1 DEF IsSourceRow
  <2>2. asFinal[i] = [row EXCEPT !.role = said]
    OBVIOUS
  <2>3. said = "final_test" <=> row.role = role
    OBVIOUS
  <2> HIDE DEF row, said, asFinal
  <2>4. /\ asFinal[i].role = said /\ asFinal[i].present = row.present
        /\ asFinal[i].cells = row.cells /\ asFinal[i].identity = row.identity
    BY <2>1, <2>2
  <2> QED
    BY <2>3, <2>4 DEF row
<1>5. {i \in DOMAIN asFinal : asFinal[i].role = "final_test"} = of
  <2>1. DOMAIN asFinal = DOMAIN table
    OBVIOUS
  <2> HIDE DEF asFinal
  <2> QED
    BY <1>4, <2>1
<1>6. rows = Subframe(table, of) /\ finals = Subframe(asFinal, of)
  BY <1>5, Zenon DEF RowsOfRole
<1>7. ASSUME NEW i \in DOMAIN table PROVE SupersetRow(asFinal[i]) = SupersetRow(table[i])
  <2> DEFINE one == asFinal[i]
             two == table[i]
  <2>1. one.present = two.present /\ one.cells = two.cells /\ one.identity = two.identity
    BY <1>4
  <2> HIDE DEF one, two
  <2>2. SupersetRow(one) = SupersetRow(two)
    BY <2>1 DEF SupersetRow
  <2> QED
    BY <2>2 DEF one, two
<1> HIDE DEF asFinal, of, n, rows, finals
<1>8. PICK place : IsListing(place, table, of) /\ IsListing(place, asFinal, of)
  BY <1>2, SubframesSharePlaces, Zenon
<1>9. /\ DOMAIN rows = 1..n /\ DOMAIN finals = 1..n
      /\ \A k \in 1..n : /\ place[k] \in of /\ rows[k] = table[place[k]]
                         /\ finals[k] = asFinal[place[k]]
  <2>1. DOMAIN rows = 1..n /\ DOMAIN finals = 1..n
    BY <1>2, <1>6, SubframeIsFinite DEF n
  <2>2. \A k \in 1..n : place[k] \in of
    BY <1>8 DEF IsListing, n
  <2>3. \A k \in 1..n : rows[k] = table[place[k]] /\ finals[k] = asFinal[place[k]]
    BY <1>6, <1>8 DEF IsListing, n
  <2> QED
    BY <2>1, <2>2, <2>3
<1>10. \A k \in 1..n : IsSourceRow(rows[k]) /\ SupersetRow(finals[k]) = SupersetRow(rows[k])
  BY <1>3, <1>7, <1>9
<1>11. matrix = Built(built) /\ DOMAIN built = 1..n
  BY <1>9 DEF SupersetMatrix, rows
<1>12. SupersetMatrix(asFinal, "final_test") = matrix
  <2>1. SupersetMatrix(asFinal, "final_test") = Built([i \in 1..n |-> SupersetRow(finals[i])])
    BY <1>9 DEF SupersetMatrix, finals
  <2>2. [i \in 1..n |-> SupersetRow(finals[i])] = built
    BY <1>10
  <2> QED
    BY <1>11, <2>1, <2>2, Zenon
<1> SUFFICES ASSUME matrix # <<>>
             PROVE  /\ CoreMatrix(table, role) =
                         [i \in DOMAIN matrix |-> [c \in Range(ServingCore) |-> matrix[i][c]]]
                    /\ ReadsAsWritten(matrix) => ReadMatrix(matrix) = FinalFrame(asFinal)
  BY Zenon DEF FramesAgree, asFinal
<1> HIDE DEF matrix
<1>13. matrix = built /\ \A i \in 1..n : ~Refuses(SupersetRow(rows[i]))
  <2>1. \A i \in 1..n : built[i] = SupersetRow(rows[i])
    OBVIOUS
  <2> HIDE DEF built
  <2>2. ~\E i \in 1..n : Refuses(built[i])
    BY <1>11 DEF Built
  <2>3. matrix = built
    BY <1>11, <2>2 DEF Built
  <2> QED
    BY <2>1, <2>2, <2>3
<1>14. n > 0
  <2>1. n = 0 => built = <<>>
    OBVIOUS
  <2> QED
    BY <1>2, <1>13, <2>1
<1>15. /\ DOMAIN matrix = 1..n
       /\ \A i \in 1..n : matrix[i] = SupersetRow(rows[i]) /\ matrix[i] = [c \in Superset |-> matrix[i][c]]
  <2>1. DOMAIN matrix = 1..n /\ \A i \in 1..n : matrix[i] = SupersetRow(rows[i])
    BY <1>13
  <2> QED
    BY <2>1 DEF SupersetRow
<1>16. CoreMatrix(table, role) = [i \in 1..n |-> BuildRow(rows[i], "reject")]
  <2> DEFINE kept == [i \in 1..n |-> BuildRow(rows[i], "reject")]
  <2>1. CoreMatrix(table, role) = Built(kept) /\ DOMAIN kept = 1..n
    BY <1>9 DEF CoreMatrix, rows
  <2>2. ASSUME NEW i \in 1..n PROVE ~Refuses(kept[i])
    <3>1. kept[i] = BuildRow(rows[i], "reject")
      OBVIOUS
    <3>2. \A c \in Range(ServingCore) : BuildRow(rows[i], "reject")[c] = SupersetRow(rows[i])[c]
      BY BuiltCells
    <3>3. \A c \in Superset : SupersetRow(rows[i])[c] # Refused
      BY <1>13, BuiltCells DEF Refuses
    <3>4. DOMAIN BuildRow(rows[i], "reject") = Range(ServingCore)
      BY BuiltCells
    <3> QED
      BY <3>1, <3>2, <3>3, <3>4, SupersetHolds DEF Refuses
  <2> HIDE DEF kept
  <2>3. Built(kept) = kept
    BY <2>1, <2>2 DEF Built
  <2> QED
    BY <2>1, <2>3 DEF kept
<1>17. \A i \in 1..n : BuildRow(rows[i], "reject") = [c \in Range(ServingCore) |-> matrix[i][c]]
  <2> TAKE i \in 1..n
  <2> DEFINE row == BuildRow(rows[i], "reject")
  <2>1. row = [c \in Range(ServingCore) |-> row[c]]
    BY DEF BuildRow
  <2>2. \A c \in Range(ServingCore) : row[c] = matrix[i][c]
    BY <1>15, BuiltCells
  <2> HIDE DEF row
  <2>3. row = [c \in Range(ServingCore) |-> matrix[i][c]]
    BY <2>1, <2>2
  <2> QED
    BY <2>3 DEF row
<1>18. CoreMatrix(table, role) = [i \in DOMAIN matrix |-> [c \in Range(ServingCore) |-> matrix[i][c]]]
  BY <1>15, <1>16, <1>17
<1>19. FinalFrame(asFinal) = matrix
  <2>1. FinalFrame(asFinal) = [i \in DOMAIN matrix |-> [c \in Superset |-> matrix[i][c]]]
    BY <1>12 DEF FinalFrame, Superset
  <2>2. matrix = [i \in 1..n |-> matrix[i]]
    BY <1>13
  <2>3. [i \in 1..n |-> [c \in Superset |-> matrix[i][c]]] = [i \in 1..n |-> matrix[i]]
    BY <1>15
  <2> QED
    BY <1>15, <2>1, <2>2, <2>3, Zenon
<1>20. ReadsAsWritten(matrix) => ReadMatrix(matrix) = matrix
  BY <1>2, <1>10, <1>13, <1>14, FileReadsAsFrame
<1> QED
  BY <1>18, <1>19, <1>20

\* FeaturesAreFaithful, whatever the sources.
THEOREM FeaturesStayFaithful == FeaturesSpec => []FeaturesAreFaithful
<1> DEFINE Read == source = <<>> \/ source \in Sources
<1>1. FeaturesInit => Read
  BY DEF FeaturesInit
<1>2. Read /\ [FeaturesNext]_source => Read'
  BY DEF FeaturesNext
<1>3. Read => FeaturesAreFaithful
  <2> SUFFICES ASSUME Read PROVE FeaturesAreFaithful
    OBVIOUS
  <2>1. source \in Seq(Range(source)) /\ \A row \in Range(source) : IsSourceRow(row)
    <3>1. CASE source = <<>>
      BY <3>1 DEF Range
    <3>2. CASE source \in Sources
      BY <3>2, SourceAssumption DEF IsSourceRow
    <3> QED
      BY <3>1, <3>2
  <2>2. \A i \in DOMAIN source : IsSourceRow(source[i])
    BY <2>1 DEF Range
  <2>3. \A policy \in {"reject", "escape"}, i, j \in DOMAIN source :
          LET one == BuildRow(source[i], policy)
              two == BuildRow(source[j], policy)
          IN  ~Refuses(one) /\ ~Refuses(two) =>
                \A c \in Range(CoreSources) :
                  one[c] = two[c] <=> Meaning(source[i], c) = Meaning(source[j], c)
    BY <2>2, RowsSayTheSame
  <2>4. \A role \in {row.role : row \in Range(source)} :
          LET core   == CoreMatrix(source, role)
              matrix == SupersetMatrix(source, role)
              asFinal == [i \in DOMAIN source |->
                            [source[i] EXCEPT !.role = IF @ = role THEN "final_test" ELSE "other"]]
          IN  matrix # <<>> =>
                /\ core = [i \in DOMAIN matrix |->
                             [c \in Range(ServingCore) |-> matrix[i][c]]]
                /\ ReadsAsWritten(matrix) => ReadMatrix(matrix) = FinalFrame(asFinal)
    <3> DEFINE roles == {row.role : row \in Range(source)}
    <3> HIDE DEF roles
    <3>1. ASSUME NEW role \in roles PROVE FramesAgree(source, role)
      BY <2>1, FramesOfRole
    <3> QED
      BY <3>1, Zenon DEF roles, FramesAgree
  <2> QED
    BY <2>3, <2>4, ContractsDoAgree, Zenon DEF FeaturesAreFaithful
<1> QED
  BY <1>1, <1>2, <1>3, PTL DEF FeaturesSpec

=============================================================================

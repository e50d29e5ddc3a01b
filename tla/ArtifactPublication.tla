------------------------- MODULE ArtifactPublication -------------------------
(***************************************************************************)
(* Publication and loading of artifacts: model bundles, which are          *)
(* directories renamed into place (artifacts/bundle.py), and historical    *)
(* quarantine manifests, which are files linked into place                 *)
(* (data/historical_quarantine.py).  Publishers of both kinds compete for  *)
(* one name of each kind; loaders read while they publish and withdraw.    *)
(*                                                                         *)
(* A publisher has one temporary tree.  What the file system holds may     *)
(* differ from what survives a loss of power: file contents are durable    *)
(* once written (each write is followed by an fsync), the entries of a     *)
(* directory when the directory is synced.  Processes die at any step;     *)
(* published files are damaged, but for the manifest of a bundle, which    *)
(* has no digest of its own.                                               *)
(***************************************************************************)
EXTENDS BundleContract, Sequences, SequencesExt

CONSTANTS
  Publishers,   \* calls of save_model_bundle and of write_..._manifest
  Candidates,   \* what a publisher may be asked to publish: bundles, or
  Quarantined,  \* the quarantine manifest
  Loaders,      \* calls of load_model_bundle
  Runtime,      \* the runtime of all of them
  Accidents,    \* bound: deaths, losses of power and damages
  Nobody0       \* no publisher's tree

ASSUME PublicationAssumption ==
  /\ Nobody0 \notin Publishers
  /\ Accidents \in Nat

VARIABLES
  parent,    \* the directory of the names: absent, made by a publisher, or old
  entry,     \* name of each kind -> the publisher whose tree it is
  synced,    \* what entry was when its directory was last synced
  tree,      \* a publisher's files: there, durable, damaged
  stage,     \* where a publisher stands
  content,   \* what it publishes
  loader,    \* the loaders
  accidents

publicationVars == <<parent, entry, synced, tree, stage, content, loader, accidents>>

Kinds == {"bundle", "quarantine"}

KindOf(p) == IF content[p] = Quarantined THEN "quarantine" ELSE "bundle"

\* In the order in which they are written and read.
PartsInOrder(p) ==
  IF KindOf(p) = "quarantine" THEN <<>>
  ELSE IF content[p].calibrator THEN <<"preprocessor", "model", "calibrator">>
  ELSE <<"preprocessor", "model">>

FilesOf(p) == ToSet(PartsInOrder(p)) \cup {"manifest"}

\* The next file, if those of S are done.
NextOf(files, S) ==
  LET next(i) == files[i] \notin S /\ \A j \in 1..(i - 1) : files[j] \in S
  IN  files[CHOOSE i \in DOMAIN files : next(i)]

NoTree   == [there |-> {}, durable |-> {}, damaged |-> {}]
NoLoader == [at |-> "idle", tree |-> Nobody0, bytes |-> {}]

PublicationInit ==
  /\ parent \in {"absent", "old"}
  /\ entry = [k \in Kinds |-> Nobody0]
  /\ synced = [k \in Kinds |-> Nobody0]
  /\ tree = [p \in Publishers |-> NoTree]
  /\ stage = [p \in Publishers |-> "start"]
  /\ content \in [Publishers -> UNION {Candidates[p] : p \in Publishers}]
  /\ \A p \in Publishers : content[p] \in Candidates[p]
  /\ loader = [l \in Loaders |-> NoLoader]
  /\ accidents = 0

MovesTo(p, s) == stage' = [stage EXCEPT ![p] = s]

-----------------------------------------------------------------------------
(* Publishers *)

\* _reject_existing_output, and its like for bundles.
NothingThere(p) == entry[KindOf(p)] = Nobody0

\* The directories of the path are opened one in the other, missing ones made.
OpenedParent == IF parent = "absent" THEN "made" ELSE parent

\* validate; the missing directories are made, and not synced into theirs; an
\* existing output is refused.
Opens(p) ==
  /\ stage[p] = "start"
  /\ LET valid == KindOf(p) = "bundle" => ValidBundle(content[p]) IN
     /\ parent' = IF valid THEN OpenedParent ELSE parent
     /\ MovesTo(p, IF valid /\ NothingThere(p) THEN "writing" ELSE "refused")
  /\ UNCHANGED <<entry, synced, tree, loader, accidents, content>>

Writes(p) ==
  /\ stage[p] = "writing"
  /\ tree[p].there # FilesOf(p)
  /\ tree' = [tree EXCEPT ![p].there =
                @ \cup {NextOf(Append(PartsInOrder(p), "manifest"), tree[p].there)}]
  /\ UNCHANGED <<parent, entry, synced, stage, loader, accidents, content>>

FinishesTree(p) ==
  /\ stage[p] = "writing"
  /\ tree[p].there = FilesOf(p)
  /\ tree' = [tree EXCEPT ![p].durable = tree[p].there]
  /\ MovesTo(p, "written")
  /\ UNCHANGED <<parent, entry, synced, loader, accidents, content>>

Loads(p) == KindOf(p) = "bundle" => ValidManifest(Manifest(content[p], Runtime), Runtime)

\* The bundle is loaded back from its temporary directory, the path checked.
Verifies(p) ==
  /\ stage[p] = "written"
  /\ MovesTo(p, IF Loads(p) /\ NothingThere(p) THEN "verified" ELSE "discarding")
  /\ UNCHANGED <<parent, entry, synced, tree, loader, accidents, content>>

\* Faulty: the rename replaces what has the name by now.
FreeOrReplaced(k) == TRUE

FreeName(k) == entry[k] = Nobody0

\* RENAME_NOREPLACE, or link.
Places(p) ==
  /\ stage[p] = "verified"
  /\ IF FreeName(KindOf(p))
     THEN entry' = [entry EXCEPT ![KindOf(p)] = p] /\ MovesTo(p, "placed")
     ELSE UNCHANGED entry /\ MovesTo(p, "discarding")
  /\ UNCHANGED <<parent, synced, tree, loader, accidents, content>>

\* The path is what it was; the directory of the name is synced.
Confirms(p) ==
  /\ stage[p] = "placed"
  /\ MovesTo(p, "confirmed")
  /\ UNCHANGED <<parent, entry, synced, tree, loader, accidents, content>>

Returns(p) ==
  /\ stage[p] = "confirmed"
  /\ synced' = [synced EXCEPT ![KindOf(p)] = entry[KindOf(p)]]
  /\ MovesTo(p, "returned")
  /\ UNCHANGED <<parent, entry, tree, loader, accidents, content>>

\* That fsync fails: a bundle stays, a quarantine manifest is withdrawn.
SyncFails(p) ==
  /\ stage[p] = "confirmed"
  /\ MovesTo(p, IF KindOf(p) = "bundle" THEN "raised" ELSE "withdrawing")
  /\ UNCHANGED <<parent, entry, synced, tree, loader, accidents, content>>

\* A write fails.
Fails(p) ==
  /\ stage[p] \in {"writing", "written"}
  /\ MovesTo(p, "discarding")
  /\ UNCHANGED <<parent, entry, synced, tree, loader, accidents, content>>

\* A directory of the path is no longer the one that was opened.
FindsPathReplaced(p) ==
  /\ stage[p] = "placed"
  /\ MovesTo(p, "withdrawing")
  /\ UNCHANGED <<parent, entry, synced, tree, loader, accidents, content>>

\* The cleanup removes one file after the other, then the directory; a linked
\* file by its name.
Unlinks(p, file) ==
  /\ stage[p] \in {"discarding", "withdrawing"}
  /\ KindOf(p) = "bundle"
  /\ file \in tree[p].there
  /\ tree' = [tree EXCEPT ![p].there = @ \ {file}]
  /\ UNCHANGED <<parent, entry, synced, stage, loader, accidents, content>>

RemovesTree(p) ==
  /\ stage[p] \in {"discarding", "withdrawing"}
  /\ KindOf(p) = "bundle" => tree[p].there = {}
  /\ entry' = IF stage[p] = "withdrawing" THEN [entry EXCEPT ![KindOf(p)] = Nobody0]
                                          ELSE entry
  /\ MovesTo(p, "raised")
  /\ UNCHANGED <<parent, synced, tree, loader, accidents, content>>

-----------------------------------------------------------------------------
(* Loaders: the directory is opened once, every file read through it *)

OpensBundle(l) ==
  /\ loader[l].at = "idle"
  /\ IF entry["bundle"] = Nobody0
     THEN loader' = [loader EXCEPT ![l].at = "failed"]
     ELSE loader' = [loader EXCEPT ![l].at = "opened", ![l].tree = entry["bundle"]]
  /\ UNCHANGED <<parent, entry, synced, tree, stage, accidents, content>>

ReadsManifest(l) ==
  /\ loader[l].at = "opened"
  /\ LET p == loader[l].tree IN
     IF "manifest" \in tree[p].there /\ Loads(p)
     THEN loader' = [loader EXCEPT ![l].at = "reading"]
     ELSE loader' = [loader EXCEPT ![l].at = "failed"]
  /\ UNCHANGED <<parent, entry, synced, tree, stage, accidents, content>>

\* Faulty: the bytes are not compared with the digest of the manifest.
MatchesByName(p, file) == TRUE

\* Size and SHA-256; the golden probe need not see a damage.
MatchesDigest(p, file) == file \notin tree[p].damaged

HasRead(l) == {read.file : read \in loader[l].bytes}

ReadsPart(l) ==
  LET p    == loader[l].tree
      file == NextOf(PartsInOrder(p), HasRead(l))
  IN
  /\ loader[l].at = "reading"
  /\ HasRead(l) # Parts(content[p])
  /\ IF file \in tree[p].there /\ MatchesDigest(p, file)
     THEN loader' = [loader EXCEPT ![l].bytes =
                       @ \cup {[file |-> file, damaged |-> file \in tree[p].damaged]}]
     ELSE loader' = [loader EXCEPT ![l].at = "failed"]
  /\ UNCHANGED <<parent, entry, synced, tree, stage, accidents, content>>

\* Deserialised from the bytes read, validated again and probed.
Serves(l) ==
  LET b == content[loader[l].tree]
      accepted == ValidBundle(b) /\ ProbeAgrees(GoldenProbe(b), Manifest(b, Runtime).probe)
  IN
  /\ loader[l].at = "reading"
  /\ HasRead(l) = Parts(b)
  /\ loader' = [loader EXCEPT ![l].at = IF accepted THEN "serving" ELSE "failed"]
  /\ UNCHANGED <<parent, entry, synced, tree, stage, accidents, content>>

-----------------------------------------------------------------------------
(* Accidents *)

Ended == {"returned", "raised", "refused", "dead"}

Dies(p) ==
  /\ accidents < Accidents
  /\ accidents' = accidents + 1
  /\ stage[p] \notin Ended
  /\ MovesTo(p, "dead")
  /\ UNCHANGED <<parent, entry, synced, tree, loader, content>>

Damage(p, file) ==
  /\ accidents < Accidents
  /\ accidents' = accidents + 1
  /\ \E k \in Kinds : entry[k] = p
  /\ file \in tree[p].there \ {"manifest"}
  /\ tree' = [tree EXCEPT ![p].damaged = @ \cup {file}]
  /\ UNCHANGED <<parent, entry, synced, stage, loader, content>>

\* Entries that were not synced are kept or lost, each on its own; trees that no
\* name leads to are out of sight.
Survives(p) ==
  IF \A k \in Kinds : p \notin {entry[k], synced[k]} THEN {tree[p]}
  ELSE
  {[tree[p] EXCEPT !.there = kept, !.durable = kept] :
     kept \in {(tree[p].there \cap tree[p].durable) \cup some :
                 some \in SUBSET ((tree[p].there \ tree[p].durable)
                                    \cup (tree[p].durable \ tree[p].there))}}

LosePower ==
  /\ accidents < Accidents
  /\ accidents' = accidents + 1
  /\ stage' = [p \in Publishers |-> IF stage[p] \in Ended THEN stage[p] ELSE "dead"]
  /\ loader' = [l \in Loaders |->
                  IF loader[l].at = "serving" THEN loader[l]
                  ELSE [loader[l] EXCEPT !.at = "failed"]]
  /\ \/ /\ parent' = IF parent = "made" THEN "old" ELSE parent
        /\ entry' \in {e \in [Kinds -> Publishers \cup {Nobody0}] :
                         \A k \in Kinds : e[k] \in {entry[k], synced[k]}}
     \/ /\ parent = "made"
        /\ parent' = "lost"
        /\ entry' = [k \in Kinds |-> Nobody0]
  /\ synced' = entry'
  /\ UNCHANGED content
  /\ tree' \in {t \in [Publishers -> UNION {Survives(p) : p \in Publishers}] :
                  \A p \in Publishers : t[p] \in Survives(p)}

PublisherStep(p) ==
  \/ Opens(p)
  \/ \E file \in FilesOf(p) : Unlinks(p, file) \/ Damage(p, file)
  \/ Writes(p) \/ FinishesTree(p) \/ Verifies(p) \/ Places(p) \/ Confirms(p) \/ Returns(p)
  \/ SyncFails(p) \/ Fails(p) \/ FindsPathReplaced(p) \/ RemovesTree(p) \/ Dies(p)

LoaderStep(l) ==
  \/ OpensBundle(l) \/ ReadsManifest(l) \/ ReadsPart(l) \/ Serves(l)

PublicationNext ==
  \/ \E p \in Publishers : PublisherStep(p)
  \/ \E l \in Loaders : LoaderStep(l)
  \/ LosePower

PublicationSpec == PublicationInit /\ [][PublicationNext]_publicationVars

PublicationOver ==
  /\ \A p \in Publishers : stage[p] \in Ended
  /\ \A l \in Loaders : loader[l].at \in {"serving", "failed"}

-----------------------------------------------------------------------------
\* Once a publication has returned, its artifact stays: whole, under its name,
\* acceptable to a loader, for a name at most one, whoever else published,
\* withdrew or died and whatever a loss of power undid; unless the publication
\* had to make the directory of the name, which nothing syncs into its own.
ReturnedStays ==
  \A p \in Publishers :
    stage[p] = "returned" /\ parent # "lost" =>
      /\ entry[KindOf(p)] = p
      /\ tree[p].there = FilesOf(p)
      /\ Loads(p)

\* A bundle that is served is one that was saved, all of it and nothing else:
\* no withdrawal in the middle of the read, no loss of power and no damage
\* leaves a part out or changes one.
ServedIsWhole ==
  \A l \in Loaders :
    loader[l].at = "serving" =>
      LET b == content[loader[l].tree] IN
      /\ loader[l].bytes = {[file |-> file, damaged |-> FALSE] : file \in Parts(b)}
      /\ ValidManifest(Manifest(b, Runtime), Runtime) /\ ValidBundle(b)

(* Why they hold: what is true between any two steps of publishers, loaders *)
(* and accidents.  The conjunction is inductive (ArtifactProofs).           *)

PublicationShape ==
  /\ entry \in [Kinds -> Publishers \cup {Nobody0}]
  /\ synced \in [Kinds -> Publishers \cup {Nobody0}]
  /\ stage \in [Publishers -> {"start", "writing", "written", "verified", "placed", "confirmed",
                               "discarding", "withdrawing"} \cup Ended]
  /\ DOMAIN tree = Publishers
  /\ \A p \in Publishers :
       tree[p] = [there |-> tree[p].there, durable |-> tree[p].durable,
                  damaged |-> tree[p].damaged]
  /\ DOMAIN loader = Loaders
  /\ \A l \in Loaders :
       loader[l] = [at |-> loader[l].at, tree |-> loader[l].tree, bytes |-> loader[l].bytes]

\* A name is held by whoever still has something to do with it, and for good by
\* who has returned: the name was synced before.
NamesHeld ==
  /\ \A k \in Kinds : \A p \in {entry[k], synced[k]} : p # Nobody0 => KindOf(p) = k
  /\ \A p \in Publishers :
       /\ stage[p] \in {"placed", "confirmed", "withdrawing"} => entry[KindOf(p)] = p
       /\ stage[p] = "returned" /\ parent # "lost" =>
            entry[KindOf(p)] = p /\ synced[KindOf(p)] = p

\* A tree that was written is whole and on disk until its publisher discards it,
\* and no tree is placed that a loader would refuse.
TreesWhole ==
  \A p \in Publishers :
    /\ stage[p] \in {"written", "verified", "placed", "confirmed", "returned"} =>
         tree[p].there = FilesOf(p) /\ tree[p].durable = FilesOf(p)
    /\ stage[p] \in {"verified", "placed", "confirmed", "returned"} => Loads(p)

\* A loader has read undamaged parts of one bundle, whose manifest it accepts.
LoadersInOrder ==
  \A l \in Loaders :
    LET b == content[loader[l].tree] IN
    /\ loader[l].at \in {"idle", "opened"} => loader[l].bytes = {}
    /\ loader[l].at \in {"opened", "reading", "serving"} =>
         loader[l].tree \in Publishers /\ KindOf(loader[l].tree) = "bundle"
    /\ loader[l].at \in {"reading", "serving"} =>
         /\ ValidManifest(Manifest(b, Runtime), Runtime)
         /\ loader[l].bytes \subseteq {[file |-> file, damaged |-> FALSE] : file \in Parts(b)}
    /\ loader[l].at = "serving" => HasRead(l) = Parts(b) /\ ValidBundle(b)

PublicationInvariant ==
  /\ PublicationShape
  /\ NamesHeld
  /\ TreesWhole
  /\ LoadersInOrder

=============================================================================

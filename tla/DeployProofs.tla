---------------------------- MODULE DeployProofs ----------------------------
(***************************************************************************)
(* Every target that install.sh runs in after an update from an archive    *)
(* has what was packed, and is one release if the archive was packed to    *)
(* its end by an undisturbed build; for any number of shipped paths, of    *)
(* releases and of kills.                                                  *)
(***************************************************************************)
EXTENDS Deploy, TLAPS

(* A path of the bundle or the target that holds a release holds nothing   *)
(* else.                                                                   *)
Whole(trees, v) == \A e \in 1..Entries : trees[e] = Release(v)
OneRelease(trees) == \E v \in 1..release : Whole(trees, v)
IsTree(tree) == tree = [f \in DOMAIN tree |-> tree[f]]
Trees(trees) == DOMAIN trees = 1..Entries /\ \A e \in 1..Entries : IsTree(trees[e])

(* What a build copies while the repository stands still is of its         *)
(* release.                                                                *)
BuiltSoFar ==
  /\ release \in Nat /\ release >= 1
  /\ Trees(bundle)
  /\ steady =>
       /\ \A e \in 1..Entries : builder = <<"copy", e>> =>
            \A d \in 1..(e - 1) : bundle[d] = Release(release)
       /\ builder \in {<<"rules", 0>>, <<"pack", 0>>} => Whole(bundle, release)

(* What is in a sound archive is one release. *)
ArchiveIsWhole == Trees(archive) /\ (sound => OneRelease(archive))

(* The applier has replaced the shipped paths before the one it is at.     *)
Passed(n) ==
  \A m \in 1..(n - 1) : Shipped(ByName[m]) => target[ByName[m]] = source[ByName[m]]
AppliedSoFar ==
  /\ DOMAIN target = 1..Entries /\ Trees(source)
  /\ trusted => OneRelease(source)
  /\ \A n \in 1..Entries :
       /\ applier = <<"remove", n>> => Passed(n)
       /\ applier = <<"copy", n>> => Passed(n) /\ target[ByName[n]] = NoTree
  /\ applier = <<"install", 0>> => Passed(Entries + 1)

IInv == BuiltSoFar /\ ArchiveIsWhole /\ AppliedSoFar

-----------------------------------------------------------------------------
(* What is merged into nothing is itself.                                  *)
LEMMA MergeIntoNothing ==
  ASSUME NEW tree, IsTree(tree)
  PROVE  Merged(tree, NoTree) = tree
BY DEF IsTree, NoTree, Merged

LEMMA TreesThereAre ==
  ASSUME NEW v, NEW tree, NEW files
  PROVE  IsTree(Release(v)) /\ IsTree(NoTree) /\ IsTree(Restricted(tree, files))
BY DEF IsTree, Release, NoTree, Restricted

LEMMA ReleasesDiffer ==
  ASSUME NEW v \in Nat
  PROVE  Release(v) # NoTree
<1>1. 0 \in DOMAIN Release(v) /\ DOMAIN NoTree = {}
  BY DEF Release, NoTree
<1> QED
  BY <1>1

LEMMA InitEstablishes ==
  ASSUME ConstantsAreRight, Init
  PROVE  IInv
<1> USE DEF Init, ConstantsAreRight, Idle
<1>0. Trees(NoTrees)
  BY TreesThereAre DEF Trees, NoTrees
<1>1. BuiltSoFar
  BY <1>0 DEF BuiltSoFar
<1>2. ArchiveIsWhole
  BY <1>0 DEF ArchiveIsWhole
<1>3. AppliedSoFar
  BY <1>0 DEF AppliedSoFar, NoTrees
<1> QED
  BY <1>1, <1>2, <1>3 DEF IInv

(* What an archive or the applier holds stays one of the releases.         *)
LEMMA ReleasesStay ==
  ASSUME BuiltSoFar, release' \in {release, release + 1}
  PROVE  /\ \A v \in 1..release : v \in 1..release'
         /\ ArchiveIsWhole /\ UNCHANGED <<archive, sound>> => ArchiveIsWhole'
         /\ AppliedSoFar /\ UNCHANGED applying => AppliedSoFar'
<1>1. \A v \in 1..release : v \in 1..release'
  BY DEF BuiltSoFar
<1>2. ASSUME ArchiveIsWhole, UNCHANGED <<archive, sound>> PROVE ArchiveIsWhole'
  BY <1>1, <1>2 DEF ArchiveIsWhole, OneRelease, Whole, Trees
<1>3. ASSUME AppliedSoFar, UNCHANGED applying PROVE AppliedSoFar'
  <2> USE <1>3 DEF applying
  <2>1. DOMAIN target' = 1..Entries /\ Trees(source)'
    BY DEF AppliedSoFar, Trees
  <2>2. trusted' => OneRelease(source)'
    BY <1>1 DEF AppliedSoFar, OneRelease, Whole
  <2> QED
    BY <2>1, <2>2 DEF AppliedSoFar, Passed, Shipped
<1> QED
  BY <1>1, <1>2, <1>3

(* The builder: a step keeps a sound archive whole, and touches no target. *)
LEMMA BuildPreserves ==
  ASSUME ConstantsAreRight, IInv, Build
  PROVE  IInv'
<1> USE DEF ConstantsAreRight, Idle
<1>1. release' \in {release, release + 1} /\ UNCHANGED applying
  BY DEF Build, Commit, BuildStart, BuildCopy, BuildRules, BuildPack, PackCut, BuildCrash
<1>2. AppliedSoFar'
  BY <1>1, ReleasesStay DEF IInv
<1>3. ArchiveIsWhole'
  <2>1. CASE archive' = NoTrees /\ sound' = FALSE
    BY <2>1, TreesThereAre DEF ArchiveIsWhole, Trees, NoTrees
  <2>2. CASE BuildPack
    <3>1. Trees(bundle) /\ (steady => Whole(bundle, release)) /\ release \in 1..release
      BY <2>2 DEF BuildPack, IInv, BuiltSoFar
    <3>2. archive' = bundle /\ sound' = steady /\ release' = release /\ bundle' = bundle
      BY <2>2 DEF BuildPack
    <3> QED
      BY <3>1, <3>2 DEF ArchiveIsWhole, OneRelease, Whole, Trees
  <2>3. ASSUME NEW n \in 1..Entries, NEW files, PackCut(n, files)
        PROVE  ArchiveIsWhole'
    <3>1. sound' = FALSE /\ DOMAIN archive' = 1..Entries
      BY <2>3 DEF PackCut
    <3>2. ASSUME NEW e \in 1..Entries PROVE IsTree(archive'[e])
      <4>1. \/ archive'[e] = bundle[e]
            \/ \E some : archive'[e] = Restricted(bundle[e], some)
        BY <2>3 DEF PackCut
      <4>2. IsTree(bundle[e])
        BY DEF IInv, BuiltSoFar, Trees
      <4>3. ASSUME NEW some PROVE IsTree(Restricted(bundle[e], some))
        BY TreesThereAre
      <4> QED
        BY <4>1, <4>2, <4>3
    <3> QED
      BY <3>1, <3>2 DEF ArchiveIsWhole, Trees
  <2>4. CASE UNCHANGED <<archive, sound>>
    BY <1>1, <2>4, ReleasesStay DEF IInv
  <2> QED
    BY <2>1, <2>2, <2>3, <2>4
       DEF Build, Commit, BuildStart, BuildCopy, BuildRules, BuildCrash
<1>4. BuiltSoFar'
  <2>1. CASE Commit
    BY <2>1 DEF Commit, IInv, BuiltSoFar, Trees
  <2>2. CASE BuildStart
    <3>1. Trees(NoTrees)
      BY TreesThereAre DEF Trees, NoTrees
    <3>2. Trees(bundle)'
      BY <2>2, <3>1 DEF BuildStart, Trees
    <3> QED
      BY <2>2, <3>2 DEF BuildStart, IInv, BuiltSoFar
  <2>3. ASSUME NEW e \in 1..Entries, BuildCopy(e)
        PROVE  BuiltSoFar'
    <3>0. /\ bundle' = [bundle EXCEPT ![e] = Release(release)]
          /\ release' = release /\ steady' = steady
      BY <2>3 DEF BuildCopy
    <3>1. release' \in Nat /\ release' >= 1 /\ Trees(bundle)'
      BY <3>0, TreesThereAre DEF IInv, BuiltSoFar, Trees
    <3>2. ASSUME steady', NEW d \in 1..e PROVE bundle'[d] = Release(release')
      <4>1. d \in 1..Entries /\ (d = e \/ d \in 1..(e - 1))
        OBVIOUS
      <4>2. DOMAIN bundle = 1..Entries /\ \A c \in 1..(e - 1) : bundle[c] = Release(release)
        BY <2>3, <3>0, <3>2 DEF BuildCopy, IInv, BuiltSoFar, Trees
      <4> QED
        BY <3>0, <4>1, <4>2
    <3>3. CASE e = Entries
      <4>1. builder' = <<"rules", 0>> /\ (steady' => Whole(bundle, release)')
        BY <2>3, <3>2, <3>3 DEF BuildCopy, Whole
      <4> QED
        BY <3>1, <4>1 DEF BuiltSoFar
    <3>4. CASE e # Entries
      <4>1. builder' = <<"copy", e + 1>>
        BY <2>3, <3>4 DEF BuildCopy
      <4> QED
        BY <3>1, <3>2, <4>1 DEF BuiltSoFar
    <3> QED
      BY <3>3, <3>4
  <2>4. ASSUME NEW found \in BOOLEAN, BuildRules(found)
        PROVE  BuiltSoFar'
    <3>1. /\ UNCHANGED <<release, bundle, steady>> /\ builder = <<"rules", 0>>
          /\ builder' \in {<<"pack", 0>>, <<"idle", 0>>}
      BY <2>4 DEF BuildRules
    <3> QED
      BY <3>1 DEF IInv, BuiltSoFar, Whole, Trees
  <2>5. ASSUME UNCHANGED <<release, bundle, steady>>, builder' = Idle
        PROVE  BuiltSoFar'
    BY <2>5 DEF IInv, BuiltSoFar, Trees
  <2> QED
    BY <2>1, <2>2, <2>3, <2>4, <2>5 DEF Build, BuildPack, PackCut, BuildCrash
<1> QED
  BY <1>2, <1>3, <1>4 DEF IInv

(* An applier at rest promises nothing of the target.                      *)
LEMMA Rests ==
  ASSUME AppliedSoFar, DOMAIN target' = 1..Entries, applier' = Idle,
         UNCHANGED <<release, source, trusted>>
  PROVE  AppliedSoFar'
<1>1. /\ applier' # <<"install", 0>>
      /\ \A n \in 1..Entries : applier' # <<"remove", n>> /\ applier' # <<"copy", n>>
  BY DEF Idle
<1>2. Trees(source)' /\ (trusted' => OneRelease(source)')
  BY DEF AppliedSoFar, Trees, OneRelease, Whole
<1> QED
  BY <1>1, <1>2 DEF AppliedSoFar

(* After a path come the next one or, behind the last, install.sh.         *)
LEMMA GoesOn ==
  ASSUME ConstantsAreRight, NEW n \in 1..Entries, DOMAIN target' = 1..Entries,
         Trees(source)', trusted' => OneRelease(source)',
         Passed(n + 1)', applier' = After(n)
  PROVE  AppliedSoFar'
BY DEF ConstantsAreRight, After, AppliedSoFar

(* The applier: what it has passed is as in the bundle.                    *)
LEMMA ApplyPreserves ==
  ASSUME ConstantsAreRight, IInv, Apply
  PROVE  IInv'
<1> USE DEF ConstantsAreRight, Idle
<1>0. /\ UNCHANGED building
      /\ BuiltSoFar' /\ ArchiveIsWhole'
  <2>1. UNCHANGED building
    BY DEF Apply, ApplyStart, RemovePath, CopyPath, ApplyCrash, Install
  <2>2. BuiltSoFar'
    BY <2>1 DEF building, IInv, BuiltSoFar, Whole, Trees
  <2>3. ArchiveIsWhole'
    BY <2>1 DEF building, IInv, ArchiveIsWhole, OneRelease, Whole, Trees
  <2> QED
    BY <2>1, <2>2, <2>3
<1>1. ASSUME NEW fromArchive \in BOOLEAN, ApplyStart(fromArchive)
      PROVE  AppliedSoFar'
  <2>1. /\ source' = (IF fromArchive THEN archive ELSE bundle)
        /\ trusted' = (fromArchive /\ sound) /\ applier' = <<"remove", 1>>
        /\ target' = target /\ release' = release
    BY <1>0, <1>1 DEF ApplyStart, building
  <2>2. Trees(source)'
    BY <2>1 DEF IInv, ArchiveIsWhole, BuiltSoFar, Trees
  <2>3. trusted' => OneRelease(source)'
    BY <2>1 DEF IInv, ArchiveIsWhole, OneRelease, Whole
  <2>4. DOMAIN target' = 1..Entries /\ Passed(1)'
    BY <2>1 DEF IInv, AppliedSoFar, Passed
  <2> QED
    BY <2>1, <2>2, <2>3, <2>4 DEF AppliedSoFar
<1>2. ASSUME NEW n \in 1..Entries, RemovePath(n) \/ CopyPath(n)
      PROVE  AppliedSoFar'
  <2>1. /\ UNCHANGED <<source, trusted, release>>
        /\ Trees(source)' /\ (trusted' => OneRelease(source)')
    <3>1. UNCHANGED <<source, trusted, release>>
      BY <1>0, <1>2 DEF RemovePath, CopyPath, building
    <3> QED
      BY <3>1 DEF IInv, AppliedSoFar, OneRelease, Whole, Trees
  <2>2. DOMAIN target = 1..Entries /\ Passed(n)
    BY <1>2 DEF RemovePath, CopyPath, IInv, AppliedSoFar
  <2>3. DOMAIN target' = 1..Entries /\ Passed(n)'
    <3>1. \A m \in 1..(n - 1) :
            /\ m \in 1..Entries /\ ByName[m] \in 1..Entries
            /\ ByName[m] # ByName[n]
      OBVIOUS
    <3>2. \/ target' = target
          \/ \E tree : target' = [target EXCEPT ![ByName[n]] = tree]
      BY <1>2 DEF RemovePath, CopyPath
    <3>3. /\ DOMAIN target' = 1..Entries
          /\ \A m \in 1..(n - 1) : target'[ByName[m]] = target[ByName[m]]
      <4>1. CASE target' = target
        BY <2>2, <4>1
      <4>2. ASSUME NEW tree, target' = [target EXCEPT ![ByName[n]] = tree]
            PROVE  /\ DOMAIN target' = 1..Entries
                   /\ \A m \in 1..(n - 1) : target'[ByName[m]] = target[ByName[m]]
        BY <2>2, <3>1, <4>2
      <4> QED
        BY <3>2, <4>1, <4>2
    <3> QED
      BY <2>1, <2>2, <3>3 DEF Passed, Shipped
  <2>4. CASE RemovePath(n) /\ Shipped(ByName[n])
    BY <2>1, <2>2, <2>3, <2>4 DEF RemovePath, AppliedSoFar
  <2>5. ASSUME Shipped(ByName[n]) => target'[ByName[n]] = source[ByName[n]]
        PROVE  Passed(n + 1)'
    <3>1. ASSUME NEW m \in 1..((n + 1) - 1), Shipped(ByName[m])'
          PROVE  target'[ByName[m]] = source'[ByName[m]]
      <4>1. m = n \/ m \in 1..(n - 1)
        OBVIOUS
      <4> QED
        BY <2>1, <2>3, <2>5, <3>1, <4>1 DEF Passed, Shipped
    <3> QED
      BY <3>1 DEF Passed
  <2>6. CASE RemovePath(n) /\ ~Shipped(ByName[n])
    BY <2>1, <2>3, <2>5, <2>6, GoesOn DEF RemovePath
  <2>7. CASE CopyPath(n)
    <3>1. target'[ByName[n]] = source[ByName[n]]
      <4>1. /\ target[ByName[n]] = NoTree
            /\ target'[ByName[n]] = Merged(source[ByName[n]], target[ByName[n]])
        BY <2>2, <2>7 DEF CopyPath, IInv, AppliedSoFar
      <4>2. IsTree(source[ByName[n]])
        BY DEF IInv, AppliedSoFar, Trees
      <4> QED
        BY <4>1, <4>2, MergeIntoNothing
    <3> QED
      BY <2>1, <2>3, <2>5, <2>7, <3>1, GoesOn DEF CopyPath
  <2> QED
    BY <1>2, <2>4, <2>6, <2>7
<1>3. ASSUME NEW n \in 1..Entries, NEW files, ApplyCrash(n, files)
      PROVE  AppliedSoFar'
  <2>1. UNCHANGED <<release, source, trusted>> /\ applier' = Idle
    BY <1>0, <1>3 DEF ApplyCrash, building
  <2>2. AppliedSoFar /\ DOMAIN target' = 1..Entries
    BY <1>3 DEF ApplyCrash, IInv, AppliedSoFar
  <2> QED
    BY <2>1, <2>2, Rests
<1>4. ASSUME Install PROVE AppliedSoFar'
  <2>1. UNCHANGED <<release, source, trusted>> /\ applier' = Idle
    BY <1>0, <1>4 DEF Install, building
  <2>2. AppliedSoFar /\ DOMAIN target' = 1..Entries
    BY <1>4 DEF Install, IInv, AppliedSoFar
  <2> QED
    BY <2>1, <2>2, Rests
<1> QED
  BY <1>0, <1>1, <1>2, <1>3, <1>4 DEF Apply, IInv

LEMMA StepPreserves ==
  ASSUME ConstantsAreRight
  PROVE  IInv /\ [Next]_vars => IInv'
<1>1. ASSUME IInv, UNCHANGED vars PROVE IInv'
  <2>1. UNCHANGED <<release, archive, sound, applying>>
    BY <1>1 DEF vars, applying
  <2>2. ArchiveIsWhole' /\ AppliedSoFar'
    BY <1>1, <2>1, ReleasesStay DEF IInv
  <2>3. BuiltSoFar'
    BY <1>1 DEF vars, IInv, BuiltSoFar, Whole, Trees
  <2> QED
    BY <2>2, <2>3 DEF IInv
<1> QED
  BY <1>1, BuildPreserves, ApplyPreserves DEF Next

(* What install.sh finds after an update. *)
InstalledRight ==
  /\ \A e \in 1..Entries : Shipped(e) => target[e] = source[e]
  /\ trusted => \E v \in 1..release : \A e \in 1..Entries : target[e] = Release(v)

(* When install.sh runs, the applier has passed every path.                *)
LEMMA InstallsOnlyPassed ==
  ASSUME ConstantsAreRight, IInv, Install
  PROVE  InstalledRight
<1>1. applier = <<"install", 0>> /\ Passed(Entries + 1)
  BY DEF Install, IInv, AppliedSoFar
<1>2. \A e \in 1..Entries : Shipped(e) => target[e] = source[e]
  BY <1>1 DEF Passed, ConstantsAreRight
<1>3. ASSUME trusted
      PROVE  \E v \in 1..release : \A e \in 1..Entries : target[e] = Release(v)
  <2>1. PICK v \in 1..release : Whole(source, v)
    BY <1>3 DEF IInv, AppliedSoFar, OneRelease
  <2>2. \A e \in 1..Entries : Shipped(e)
    BY <2>1, ReleasesDiffer DEF Whole, Shipped
  <2> QED
    BY <1>2, <2>1, <2>2 DEF Whole
<1> QED
  BY <1>2, <1>3 DEF InstalledRight

(* However often builds and updates are cut short or killed half way, and  *)
(* whatever is committed and applied in between: when install.sh runs      *)
(* after an update from an archive, the target has every path of the       *)
(* archive as it was packed; and it is one whole release if the archive    *)
(* was packed to its end from a repository that stood still.               *)
THEOREM ArchivesAreInstalled ==
  ASSUME ConstantsAreRight
  PROVE  Spec => InstallsWhatWasPacked
<1>1. Init => IInv
  BY InitEstablishes
<1>2. IInv /\ [Next]_vars => IInv'
  BY StepPreserves
<1>3. IInv /\ [Next]_vars => [Install /\ packed => InstalledRight]_vars
  BY InstallsOnlyPassed
<1> QED
  BY <1>1, <1>2, <1>3, PTL DEF Spec, InstallsWhatWasPacked, InstalledRight
=============================================================================

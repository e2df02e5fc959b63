------------------------------- MODULE Deploy -------------------------------
(***************************************************************************)
(* A deploy bundle built from the repository and applied to a target tree, *)
(* either of which may be killed and started again, while the repository   *)
(* goes on. The shipped paths are 1..Entries, in the order they are copied *)
(* into the bundle; a tree of a path is a function from its files to the   *)
(* release each is of, 0 for a file of the target's own (a downloaded      *)
(* model).                                                                 *)
(***************************************************************************)
EXTENDS Naturals

CONSTANTS
  Entries,      \* the number of shipped paths
  InstallAt,    \* the one that is install.sh
  ByName,       \* the order of their names, in which they are packed and
                \* applied
  MaxRelease    \* bound: releases of the repository

ConstantsAreRight ==
  /\ Entries \in Nat /\ InstallAt \in 1..Entries
  /\ ByName \in [1..Entries -> 1..Entries]
  /\ \A m, n \in 1..Entries : ByName[m] = ByName[n] => m = n
  /\ \A e \in 1..Entries : \E n \in 1..Entries : ByName[n] = e

(* Each release has a file that every release has, and one of its own. *)
Release(v) == [f \in {0, v} |-> v]
NoTree == [f \in {} |-> 0]
Local == [f \in {MaxRelease + 1} |-> 0]
NoTrees == [e \in 1..Entries |-> NoTree]
Merged(new, old) ==
  [f \in DOMAIN new \cup DOMAIN old |-> IF f \in DOMAIN new THEN new[f] ELSE old[f]]
Restricted(tree, files) == [f \in DOMAIN tree \cap files |-> tree[f]]

VARIABLES
  release,   \* of the repository
  builder,   \* what it does next, and with which path
  bundle,    \* the bundle directory, a tree for each path
  archive,   \* the bundle as it was packed; nothing while there is no
             \* archive, or one that cannot be read
  applier,   \* what it does next, and with which path
  source,    \* the bundle being applied
  packed,    \* whether it came out of an archive
  target,    \* the target, a tree for each path
  steady,    \* history: the repository stood still since the build began
  sound,     \* history: the archive was packed to its end by such a build
  trusted    \* history: the bundle being applied came out of such an archive

vars == <<release, builder, bundle, archive, applier, source, packed, target,
          steady, sound, trusted>>
building == <<release, builder, bundle, archive, steady, sound>>
applying == <<applier, source, packed, target, trusted>>

Idle == <<"idle", 0>>

Init ==
  /\ release = 1 /\ builder = Idle /\ archive = NoTrees /\ bundle = NoTrees
  /\ applier = Idle /\ packed = FALSE /\ source = NoTrees
  /\ steady = FALSE /\ sound = FALSE /\ trusted = FALSE
  /\ target \in {NoTrees} \cup {[NoTrees EXCEPT ![e] = Local] : e \in 1..Entries \ {InstallAt}}

(* Nobody keeps the repository still for a build. *)
Commit ==
  /\ release < MaxRelease
  /\ release' = release + 1 /\ steady' = FALSE
  /\ UNCHANGED <<builder, bundle, archive, sound, applying>>

(* The old bundle directory goes first, the old archive last. *)
BuildStart ==
  /\ builder = Idle
  /\ builder' = <<"copy", 1>> /\ bundle' = NoTrees /\ steady' = TRUE
  /\ UNCHANGED <<release, archive, sound, applying>>

BuildCopy(e) ==
  /\ builder = <<"copy", e>>
  /\ bundle' = [bundle EXCEPT ![e] = Release(release)]
  /\ builder' = IF e = Entries THEN <<"rules", 0>> ELSE <<"copy", e + 1>>
  /\ UNCHANGED <<release, archive, steady, sound, applying>>

(* The Hazel rules are rendered after a template, which may not be found.  *)
BuildRules(found) ==
  /\ builder = <<"rules", 0>>
  /\ builder' = IF found THEN <<"pack", 0>> ELSE Idle
  /\ IF found THEN archive' = NoTrees /\ sound' = FALSE ELSE UNCHANGED <<archive, sound>>
  /\ UNCHANGED <<release, bundle, steady, applying>>

BuildPack ==
  /\ builder = <<"pack", 0>>
  /\ archive' = bundle /\ builder' = Idle /\ sound' = steady
  /\ UNCHANGED <<release, bundle, steady, applying>>

(* Packing is stopped by an error or by the user, among the files of the   *)
(* n-th path: what was packed is closed as an archive that can be read. A  *)
(* path none of whose files was packed counts as not packed.               *)
PackCut(n, files) ==
  /\ builder = <<"pack", 0>> /\ builder' = Idle /\ sound' = FALSE
  /\ ByName[n] = InstallAt => files = {}
  /\ archive' = [e \in 1..Entries |->
                   IF \E m \in 1..(n - 1) : e = ByName[m] THEN bundle[e]
                     ELSE Restricted(bundle[e], IF e = ByName[n] THEN files ELSE {})]
  /\ UNCHANGED <<release, bundle, steady, applying>>

(* Killed; an archive that it was at has no end, and cannot be read.       *)
BuildCrash ==
  /\ builder # Idle /\ builder' = Idle
  /\ UNCHANGED <<release, bundle, archive, steady, sound, applying>>

(* An archive that cannot be read is found out before the target is        *)
(* touched; what is in one, or in a bundle directory, is only asked for    *)
(* its install.sh.                                                         *)
ApplyStart(fromArchive) ==
  /\ applier = Idle
  /\ (IF fromArchive THEN archive ELSE bundle)[InstallAt] # NoTree
  /\ source' = IF fromArchive THEN archive ELSE bundle
  /\ packed' = fromArchive /\ trusted' = (fromArchive /\ sound)
  /\ applier' = <<"remove", 1>>
  /\ UNCHANGED <<target, building>>

(* Paths the bundle does not have are left as they are. *)
Shipped(e) == source[e] # NoTree
After(n) == IF n = Entries THEN <<"install", 0>> ELSE <<"remove", n + 1>>

(* Mutant: the old files of a path are left. *)
RemovePath_Merges(n) ==
  /\ applier = <<"remove", n>>
  /\ applier' = IF Shipped(ByName[n]) THEN <<"copy", n>> ELSE After(n)
  /\ UNCHANGED <<target, source, packed, trusted, building>>

RemovePath(n) ==
  /\ applier = <<"remove", n>>
  /\ IF Shipped(ByName[n])
       THEN target' = [target EXCEPT ![ByName[n]] = NoTree] /\ applier' = <<"copy", n>>
       ELSE applier' = After(n) /\ UNCHANGED target
  /\ UNCHANGED <<source, packed, trusted, building>>

(* copytree merges into what is there. *)
CopyPath(n) ==
  /\ applier = <<"copy", n>>
  /\ target' = [target EXCEPT ![ByName[n]] = Merged(source[ByName[n]], @)]
  /\ applier' = After(n)
  /\ UNCHANGED <<source, packed, trusted, building>>

(* Killed while some files of the path are removed, or copied. *)
ApplyCrash(n, files) ==
  /\ \/ /\ applier = <<"remove", n>> /\ Shipped(ByName[n])
        /\ target' = [target EXCEPT ![ByName[n]] = Restricted(@, files)]
     \/ /\ applier = <<"copy", n>>
        /\ target' = [target EXCEPT ![ByName[n]] = Merged(Restricted(source[ByName[n]], files), @)]
  /\ applier' = Idle
  /\ UNCHANGED <<source, packed, trusted, building>>

(* install.sh runs in the target; whether it fails changes nothing here. *)
Install ==
  /\ applier = <<"install", 0>>
  /\ applier' = Idle
  /\ UNCHANGED <<source, packed, target, trusted, building>>

Build ==
  \/ Commit \/ BuildStart \/ BuildPack \/ BuildCrash
  \/ \E e \in 1..Entries : BuildCopy(e)
  \/ \E found \in BOOLEAN : BuildRules(found)
  \/ \E n \in 1..Entries : \E files \in SUBSET DOMAIN bundle[ByName[n]] : PackCut(n, files)

Apply ==
  \/ \E fromArchive \in BOOLEAN : ApplyStart(fromArchive)
  \/ \E n \in 1..Entries : RemovePath(n) \/ CopyPath(n)
  \/ \E n \in 1..Entries :
       \E files \in SUBSET (DOMAIN target[ByName[n]] \cup DOMAIN source[ByName[n]]) :
         ApplyCrash(n, files)
  \/ Install

Next == Build \/ Apply
Spec == Init /\ [][Next]_vars

-----------------------------------------------------------------------------
(* When install.sh runs after an update from an archive, every path the    *)
(* archive has is in the target as it was packed, file by file, whatever   *)
(* was there before, however often an update was killed half way and       *)
(* whatever else was applied in between. If the archive was packed to its  *)
(* end and the repository stood still while it was built, the target is    *)
(* one whole release, whatever builds were cut short before.               *)
InstallsWhatWasPacked ==
  [][Install /\ packed =>
       /\ \A e \in 1..Entries : Shipped(e) => target[e] = source[e]
       /\ trusted => \E v \in 1..release : \A e \in 1..Entries : target[e] = Release(v)]_vars
=============================================================================

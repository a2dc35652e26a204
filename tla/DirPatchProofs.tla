---------------------------- MODULE DirPatchProofs ----------------------------
(***************************************************************************)
(* What a directory patch does to a tree, for any trees, any patch, any    *)
(* number of calls and of interruptions.  The trees have no file under a   *)
(* name that ApplyDirPatch uses for staging (~TempNames).                  *)
(***************************************************************************)
EXTENDS DirPatch, FiniteSetTheorems, SequenceTheorems, TLAPS

Statuses == {"added", "deleted", "modified"}
Entries  == [path : Paths, status : Statuses]

\* The entry says of its path what CompareDirectories found.
Found(e) ==
    /\ e.status = "added"    => Added(e.path)
    /\ e.status = "deleted"  => Deleted(e.path)
    /\ e.status = "modified" => Modified(e.path)

\* One entry for every path that changed, and for no other.
IsPatch(s) ==
    /\ s \in Seq(Entries)
    /\ \A i \in DOMAIN s : Found(s[i])
    /\ \A i, j \in DOMAIN s : s[i].path = s[j].path => i = j
    /\ \A p \in Paths : Added(p) \/ Deleted(p) \/ Modified(p) => \E i \in DOMAIN s : s[i].path = p

-----------------------------------------------------------------------------
(* What SerializeDirPatch lists.                                           *)

\* A sequence of n distinct elements of an n-element set has all of them.
LEMMA SeqOfSet ==
    ASSUME NEW S, IsFiniteSet(S), NEW s \in SetToSeqs(S)
    PROVE  /\ s \in Seq(S)
           /\ \A i, j \in DOMAIN s : s[i] = s[j] => i = j
           /\ \A x \in S : \E i \in DOMAIN s : s[i] = x
<1> DEFINE D == 1..Cardinality(S)
<1>1. Cardinality(S) \in Nat
  BY FS_CardinalityType
<1>2. s \in [D -> S] /\ \A i, j \in D : i # j => s[i] # s[j]
  BY DEF SetToSeqs
<1>3. s \in Injection(D, S)
  BY <1>2 DEF Injection, IsInjective
<1>4. IsFiniteSet(D) /\ Cardinality(D) = Cardinality(S)
  BY <1>1, FS_Interval
<1>5. s \in Surjection(D, S)
  BY <1>3, <1>4, FS_Injection
<1>6. \A x \in S : \E i \in D : s[i] = x
  BY <1>5 DEF Surjection
<1>7. DOMAIN s = D /\ s \in Seq(S)
  BY <1>1, <1>2, SeqDef
<1> QED
  BY <1>2, <1>6, <1>7

\* A listing of a set of paths under one status.
Lists(s, S, status) ==
    /\ s \in Seq(Entries)
    /\ \A i \in 1..Len(s) : s[i].path \in S /\ s[i].status = status
    /\ \A i, j \in 1..Len(s) : s[i].path = s[j].path => i = j
    /\ \A p \in S : \E i \in 1..Len(s) : s[i].path = p

LEMMA ListingsList ==
    ASSUME NEW S \in SUBSET Paths, NEW status \in Statuses, NEW l \in Listings(S, status)
    PROVE  Lists(l, S, status)
<1>1. PICK s \in SetToSeqs(S) : l = [i \in DOMAIN s |-> [path |-> s[i], status |-> status]]
  BY DEF Listings
<1>2. IsFiniteSet(S)
  BY DirPatchAssumption, FS_Subset
<1>3. /\ s \in Seq(S)
      /\ \A i, j \in DOMAIN s : s[i] = s[j] => i = j
      /\ \A x \in S : \E i \in DOMAIN s : s[i] = x
  BY <1>2, SeqOfSet
<1>4. Len(s) \in Nat /\ DOMAIN s = 1..Len(s) /\ \A i \in 1..Len(s) : s[i] \in S
  BY <1>3, LenProperties, ElementOfSeq
<1>5. \A i \in 1..Len(s) : [path |-> s[i], status |-> status] \in Entries
  BY <1>4 DEF Entries
<1>6. l \in [1..Len(s) -> Entries]
  BY <1>1, <1>4, <1>5
<1>7. l \in Seq(Entries) /\ Len(l) = Len(s)
  BY <1>4, <1>6, SeqDef
<1>8. \A i \in 1..Len(s) : l[i].path = s[i] /\ l[i].status = status
  BY <1>1, <1>4
<1>9. \A i, j \in 1..Len(l) : l[i].path = l[j].path => i = j
  BY <1>3, <1>4, <1>7, <1>8
<1>10. \A p \in S : \E i \in 1..Len(l) : l[i].path = p
  BY <1>3, <1>4, <1>7, <1>8
<1> QED
  BY <1>4, <1>7, <1>8, <1>9, <1>10 DEF Lists

LEMMA ConcatEntries ==
    \A s, t \in Seq(Entries) :
        /\ s \o t \in Seq(Entries) /\ Len(s \o t) = Len(s) + Len(t)
        /\ \A i \in 1..(Len(s) + Len(t)) :
              (s \o t)[i] = IF i <= Len(s) THEN s[i] ELSE t[i - Len(s)]
BY ConcatProperties

LEMMA ListsConcat ==
    ASSUME NEW a, NEW d, NEW m,
           Lists(a, AddedFiles, "added"),
           Lists(d, DeletedFiles, "deleted"),
           Lists(m, ModifiedFiles, "modified")
    PROVE  IsPatch(a \o d \o m)
<1> USE DEF AddedFiles, DeletedFiles, ModifiedFiles
<1> DEFINE ad  == a \o d
           adm == ad \o m
<1>1. a \in Seq(Entries) /\ d \in Seq(Entries) /\ m \in Seq(Entries)
  BY DEF Lists
<1>2. /\ ad \in Seq(Entries) /\ Len(ad) = Len(a) + Len(d)
      /\ \A i \in 1..(Len(a) + Len(d)) : ad[i] = IF i <= Len(a) THEN a[i] ELSE d[i - Len(a)]
  BY <1>1, ConcatEntries
<1> HIDE DEF ad
<1>3. /\ adm \in Seq(Entries) /\ Len(adm) = Len(ad) + Len(m)
      /\ \A i \in 1..(Len(ad) + Len(m)) : adm[i] = IF i <= Len(ad) THEN ad[i] ELSE m[i - Len(ad)]
  BY <1>1, <1>2, ConcatEntries
<1> HIDE DEF adm
<1>4. Len(a) \in Nat /\ Len(d) \in Nat /\ Len(m) \in Nat /\ DOMAIN adm = 1..Len(adm)
  BY <1>1, <1>3, LenProperties
<1>5. \A i \in DOMAIN adm :
        \/ i \in 1..Len(a) /\ adm[i] = a[i]
        \/ i - Len(a) \in 1..Len(d) /\ adm[i] = d[i - Len(a)]
        \/ i - Len(a) - Len(d) \in 1..Len(m) /\ adm[i] = m[i - Len(a) - Len(d)]
  BY <1>2, <1>3, <1>4
<1>6. /\ \A i \in 1..Len(a) : i \in DOMAIN adm /\ adm[i] = a[i]
      /\ \A i \in 1..Len(d) : i + Len(a) \in DOMAIN adm /\ adm[i + Len(a)] = d[i]
      /\ \A i \in 1..Len(m) : i + Len(a) + Len(d) \in DOMAIN adm
                              /\ adm[i + Len(a) + Len(d)] = m[i]
  BY <1>2, <1>3, <1>4
<1>7. \A i \in DOMAIN adm : Found(adm[i]) /\ adm[i].path \in Paths
  BY <1>5 DEF Lists, Found
<1>8. /\ \A i \in 1..Len(a) : ~Deleted(a[i].path) /\ ~Modified(a[i].path) /\ a[i].status = "added"
      /\ \A i \in 1..Len(d) : Deleted(d[i].path)
      /\ \A i \in 1..Len(m) : ~Deleted(m[i].path) /\ Modified(m[i].path)
  BY DEF Lists, Added, Deleted, Modified
<1>9. ASSUME NEW i \in DOMAIN adm, NEW j \in DOMAIN adm, adm[i].path = adm[j].path
      PROVE  i = j
  <2>0. i \in Nat /\ j \in Nat
    BY <1>3, <1>4
  <2>1. CASE i \in 1..Len(a) /\ adm[i] = a[i]
    <3>1. j \in 1..Len(a) /\ adm[j] = a[j]
      BY <1>5, <1>8, <1>9, <2>1
    <3> QED
      BY <1>9, <2>1, <3>1 DEF Lists
  <2>2. CASE i - Len(a) \in 1..Len(d) /\ adm[i] = d[i - Len(a)]
    <3>1. j - Len(a) \in 1..Len(d) /\ adm[j] = d[j - Len(a)]
      BY <1>5, <1>8, <1>9, <2>2
    <3>2. i - Len(a) = j - Len(a)
      BY <1>9, <2>2, <3>1 DEF Lists
    <3> QED
      BY <1>4, <2>0, <3>2
  <2>3. CASE i - Len(a) - Len(d) \in 1..Len(m) /\ adm[i] = m[i - Len(a) - Len(d)]
    <3>1. j - Len(a) - Len(d) \in 1..Len(m) /\ adm[j] = m[j - Len(a) - Len(d)]
      BY <1>5, <1>8, <1>9, <2>3
    <3>2. i - Len(a) - Len(d) = j - Len(a) - Len(d)
      BY <1>9, <2>3, <3>1 DEF Lists
    <3> QED
      BY <1>4, <2>0, <3>2
  <2> QED
    BY <1>5, <2>1, <2>2, <2>3
<1>10. ASSUME NEW p \in Paths, Added(p) \/ Deleted(p) \/ Modified(p)
       PROVE  \E i \in DOMAIN adm : adm[i].path = p
  <2>1. CASE Added(p)
    <3>1. PICK i \in 1..Len(a) : a[i].path = p
      BY <2>1 DEF Lists
    <3> QED
      BY <1>6, <3>1
  <2>2. CASE Deleted(p)
    <3>1. PICK i \in 1..Len(d) : d[i].path = p
      BY <2>2 DEF Lists
    <3> QED
      BY <1>6, <3>1
  <2>3. CASE Modified(p)
    <3>1. PICK i \in 1..Len(m) : m[i].path = p
      BY <2>3 DEF Lists
    <3> QED
      BY <1>6, <3>1
  <2> QED
    BY <1>10, <2>1, <2>2, <2>3
<1>11. IsPatch(adm)
  BY <1>3, <1>7, <1>9, <1>10 DEF IsPatch
<1> QED
  BY <1>11 DEF ad, adm

\* Whatever order the maps were walked in, the patch lists every path that
\* changed, once, under what happened to it.
LEMMA PatchesArePatches == \A s \in Patches : IsPatch(s)
<1>1. ASSUME NEW a \in Listings(AddedFiles, "added"), NEW d \in Listings(DeletedFiles, "deleted"),
             NEW m \in Listings(ModifiedFiles, "modified")
      PROVE  IsPatch(a \o d \o m)
  <2>1. /\ AddedFiles \subseteq Paths /\ DeletedFiles \subseteq Paths
        /\ ModifiedFiles \subseteq Paths
    BY DEF AddedFiles, DeletedFiles, ModifiedFiles
  <2>2. /\ Lists(a, AddedFiles, "added") /\ Lists(d, DeletedFiles, "deleted")
        /\ Lists(m, ModifiedFiles, "modified")
    BY <2>1, ListingsList DEF Statuses
  <2> QED
    BY <2>2, ListsConcat
<1>2. ASSUME NEW s, s \in Patches
      PROVE  \E a \in Listings(AddedFiles, "added"), d \in Listings(DeletedFiles, "deleted"),
                m \in Listings(ModifiedFiles, "modified") : s = a \o d \o m
  BY <1>2 DEF Patches
<1>3. SUFFICES ASSUME NEW s \in Patches
               PROVE  IsPatch(s)
  OBVIOUS
<1>4. PICK a \in Listings(AddedFiles, "added"), d \in Listings(DeletedFiles, "deleted"),
           m \in Listings(ModifiedFiles, "modified") : s = a \o d \o m
  BY <1>2, Zenon
<1> QED
  BY <1>1, <1>4

-----------------------------------------------------------------------------
(* The control state of a call.                                            *)

InCall == {"applying", "writing", "staged", "done"}

TypeInv ==
    /\ dir \in [Paths -> Nodes] /\ staged \in Nodes
    /\ pc \in {"diff", "ready", "failed"} \cup InCall
    /\ next \in Nat \ {0} /\ runs \in Nat /\ faults \in Nat

GivenInv ==
    /\ old \in Trees /\ new \in Trees /\ before \in Trees
    /\ Swaps \/ \A p \in Paths : ~(IsFile(old[p]) /\ new[p] = Dir)
                              /\ ~(IsFile(new[p]) /\ old[p] = Dir)
    /\ Stamped => \A p \in sameTime : SizeOf[old[p]] = SizeOf[new[p]] => old[p] = new[p]

\* Where a call is in the patch, and what is in the .tmp file.
CallInv ==
    /\ pc = "diff" => patch = <<>> /\ dir = before
    /\ pc # "diff" => IsPatch(patch)
    /\ pc = "writing" => next \in DOMAIN patch /\ patch[next].status = "added"
    /\ pc = "staged"  => next \in DOMAIN patch /\ patch[next].status = "modified"
                         /\ staged = new[Path]
    /\ pc = "done"    => next > Len(patch)

Core == TypeInv /\ GivenInv /\ CallInv

LEMMA NodeFacts ==
    /\ ~IsFile(Dir) /\ ~IsFile(Absent) /\ Dir # Absent /\ IsFile(Torn)
    /\ \A n \in Data : IsFile(n)
    /\ \A n : IsFile(n) => n \in Nodes /\ n # Dir /\ n # Absent
    /\ Dir \in Nodes /\ Absent \in Nodes /\ Torn \in Nodes
    /\ \A n \in Nodes : IsFile(n) \/ n = Dir \/ n = Absent
BY DirPatchAssumption DEF IsFile, Nodes

\* A tree has no file under a staging name, and its files lie in directories.
LEMMA TreeFacts ==
    ASSUME ~TempNames, NEW t \in Trees
    PROVE  /\ t \in [Paths -> Nodes]
           /\ \A p \in Paths : t[p] # Torn
           /\ \A p \in TempPaths : t[p] = Absent
           /\ \A p \in Paths : Walked(t, p) =>
                 /\ IsFile(t[p]) /\ p \notin TempPaths
                 /\ \A q \in Above[p] : q \in Paths /\ t[q] = Dir /\ q \notin TempPaths /\ q # p
<1>1. /\ t \in [Paths -> Data \cup {Dir, Absent}]
      /\ \A p \in Paths : t[p] # Absent => \A q \in Above[p] : t[q] = Dir
      /\ \A p \in TempPaths : t[p] = Absent
  BY DEF Trees
<1>2. \A p \in Paths : \A q \in Above[p] : q \in Paths
  BY DirPatchAssumption
<1> QED
  BY <1>1, <1>2, NodeFacts, DirPatchAssumption DEF Walked, Nodes

\* The entry a call is at.
LEMMA EntryFacts ==
    ASSUME ~TempNames, Core, NEW i \in DOMAIN patch
    PROVE  /\ IsPatch(patch) /\ i \in Nat /\ i >= 1 /\ i <= Len(patch) /\ Len(patch) \in Nat
           /\ patch[i].path \in Paths \ TempPaths
           /\ patch[i].status \in Statuses
           /\ Found(patch[i])
           /\ patch[i].status # "deleted" =>
                 /\ Walked(new, patch[i].path) /\ IsFile(new[patch[i].path])
                 /\ \A q \in Above[patch[i].path] :
                       q \in Paths \ TempPaths /\ new[q] = Dir /\ q # patch[i].path
           /\ patch[i].status = "deleted" => ~Walked(new, patch[i].path)
<1>1. pc # "diff"
  BY DEF Core, CallInv
<1>2. IsPatch(patch)
  BY <1>1 DEF Core, CallInv
<1>3. Len(patch) \in Nat /\ DOMAIN patch = 1..Len(patch) /\ patch[i] \in Entries
  BY <1>2, LenProperties, ElementOfSeq DEF IsPatch
<1>4. patch[i].path \in Paths /\ patch[i].status \in Statuses /\ Found(patch[i])
  BY <1>2, <1>3 DEF IsPatch, Entries
<1>5. Walked(old, patch[i].path) \/ Walked(new, patch[i].path)
  BY <1>4 DEF Found, Statuses, Added, Deleted, Modified
<1>6. patch[i].path \notin TempPaths
  BY <1>4, <1>5, TreeFacts DEF Core, GivenInv
<1>7. patch[i].status # "deleted" => Walked(new, patch[i].path)
  BY <1>4 DEF Found, Statuses, Added, Modified
<1>8. patch[i].status = "deleted" => ~Walked(new, patch[i].path)
  BY <1>4 DEF Found, Deleted
<1>9. patch[i].status # "deleted" =>
        /\ IsFile(new[patch[i].path])
        /\ \A q \in Above[patch[i].path] :
              q \in Paths \ TempPaths /\ new[q] = Dir /\ q # patch[i].path
  BY <1>4, <1>7, TreeFacts DEF Core, GivenInv
<1> QED
  BY <1>2, <1>3, <1>4, <1>6, <1>7, <1>8, <1>9

LEMMA AtEntry ==
    ASSUME Core, pc \in InCall, next <= Len(patch)
    PROVE  next \in DOMAIN patch
<1>1. IsPatch(patch)
  BY DEF Core, CallInv, InCall
<1>2. Len(patch) \in Nat /\ DOMAIN patch = 1..Len(patch)
  BY <1>1, LenProperties DEF IsPatch
<1> QED
  BY <1>2 DEF Core, TypeInv

-----------------------------------------------------------------------------
(* What a step may do to the target tree.                                  *)

\* Away from the entry's path and the staging names, a step only makes
\* directories that the new tree has, and not in place of a file.
LEMMA OnlyThePath ==
    ASSUME ~TempNames, Core, Next, NEW q \in Paths \ TempPaths
    PROVE  \/ dir'[q] = dir[q]
           \/ dir'[q] = Dir /\ new[q] = Dir /\ ~IsFile(dir[q])
           \/ next \in DOMAIN patch /\ q = Path
<1> USE DEF Core, TypeInv, At
<1>1. CASE Generate \/ Start \/ Interrupt \/ Finish
  BY <1>1 DEF Generate, Start, Interrupt, Finish, given
<1>2. ASSUME pc \in InCall, next <= Len(patch), patch[next].status # "deleted", CanMkdir(Path)
      PROVE  \A r \in Paths :
                \/ MkdirAll(Path)[r] = dir[r]
                \/ MkdirAll(Path)[r] = Dir /\ new[r] = Dir /\ ~IsFile(dir[r])
  <2>1. next \in DOMAIN patch
    BY <1>2, AtEntry
  <2>2. \A r \in Above[Path] : new[r] = Dir /\ ~IsFile(dir[r])
    BY <1>2, <2>1, EntryFacts DEF Path, CanMkdir
  <2> QED
    BY <2>2 DEF MkdirAll
<1>3. CASE BeginWrite
  <2>1. next \in DOMAIN patch /\ patch[next].status # "deleted" /\ CanMkdir(Path)
    BY <1>3, AtEntry DEF BeginWrite, InCall
  <2>2. q # Path => dir'[q] = MkdirAll(Path)[q]
    BY <1>3 DEF BeginWrite, MkdirAll
  <2> QED
    BY <1>2, <1>3, <2>1, <2>2 DEF BeginWrite, InCall
<1>4. CASE FinishWrite
  BY <1>4 DEF FinishWrite, CallInv
<1>5. CASE RemoveFile
  BY <1>5, AtEntry DEF RemoveFile, InCall
<1>6. CASE Stage
  <2>1. next \in DOMAIN patch /\ Path \in Paths
    BY <1>6, AtEntry, EntryFacts DEF Stage, InCall, Path
  <2>2. ~IsTemp(Path, q)
    BY <2>1, DirPatchAssumption DEF IsTemp, TempPaths
  <2> QED
    BY <1>6, <2>2 DEF Stage
<1>7. CASE Rename
  <2>1. next \in DOMAIN patch /\ Path \in Paths
    BY <1>7, EntryFacts DEF Rename, CallInv, Path
  <2>2. ~IsTemp(Path, q)
    BY <2>1, DirPatchAssumption DEF IsTemp, TempPaths
  <2> QED
    BY <1>7, <2>1, <2>2 DEF Rename
<1>8. CASE Refuse
  <2>1. pc \in InCall /\ next <= Len(patch)
    BY <1>8, EntryFacts DEF Refuse, Refused, InCall, CallInv
  <2>2. CASE ~At("deleted") /\ CanMkdir(Path)
    <3>1. patch[next].status # "deleted"
      BY <1>8, <2>2 DEF Refuse, Refused, CallInv
    <3> QED
      BY <1>2, <1>8, <2>1, <2>2, <3>1 DEF Refuse
  <2>3. CASE ~(~At("deleted") /\ CanMkdir(Path))
    BY <1>8, <2>3 DEF Refuse
  <2> QED
    BY <2>2, <2>3
<1> QED
  BY <1>1, <1>3, <1>4, <1>5, <1>6, <1>7, <1>8 DEF Next

-----------------------------------------------------------------------------
(* The control state is what it should be.                                 *)

\* What the patch was made from does not change, nor does the patch.
LEMMA PatchStays ==
    ASSUME Core, Next
    PROVE  /\ UNCHANGED given
           /\ pc # "diff" => UNCHANGED patch
           /\ pc' # "diff" /\ IsPatch(patch)'
<1>1. UNCHANGED given
  BY DEF Next, Generate, Start, BeginWrite, FinishWrite, RemoveFile, Stage, Rename, Refuse,
         Interrupt, Finish
<1>2. pc' # "diff"
  BY DEF Next, Generate, Start, BeginWrite, FinishWrite, RemoveFile, Stage, Rename, Refuse,
         Interrupt, Finish, At, Core, CallInv
<1>3. IsPatch(patch') => IsPatch(patch)'
  BY <1>1 DEF IsPatch, Found, Added, Deleted, Modified, Walked, given
<1>4. CASE pc = "diff"
  <2>1. Generate
    BY <1>4 DEF Next, Generate, Start, BeginWrite, FinishWrite, RemoveFile, Stage, Rename, Refuse,
         Refused, Interrupt, Finish, At
  <2> QED
    BY <1>1, <1>2, <1>3, <1>4, <2>1, PatchesArePatches DEF Generate
<1>5. CASE pc # "diff"
  <2>1. UNCHANGED patch
    BY <1>5 DEF Next, Generate, Start, BeginWrite, FinishWrite, RemoveFile, Stage, Rename, Refuse,
         Interrupt, Finish
  <2>2. IsPatch(patch)
    BY <1>5 DEF Core, CallInv
  <2> QED
    BY <1>1, <1>2, <1>5, <2>1, <2>2, <1>3
<1> QED
  BY <1>4, <1>5

LEMMA InitCore == ASSUME ~TempNames, Init PROVE Core
<1>1. before \in Trees
  BY DEF Init
<1>2. dir \in [Paths -> Nodes] /\ staged \in Nodes
  BY <1>1, TreeFacts, NodeFacts DEF Init
<1>3. TypeInv
  BY <1>2 DEF Init, TypeInv
<1>4. GivenInv
  BY <1>1 DEF Init, GivenInv
<1>5. CallInv
  BY DEF Init, CallInv
<1> QED
  BY <1>3, <1>4, <1>5 DEF Core

LEMMA CoreKept ==
    ASSUME ~TempNames, Core, Next
    PROVE  Core'
<1> USE DEF Core, TypeInv, At, InCall
<1>1. GivenInv'
  BY PatchStays DEF GivenInv, given
<1>2. ASSUME UNCHANGED dir \/ dir' = MkdirAll(Path)
      PROVE  dir' \in [Paths -> Nodes]
  BY <1>2, NodeFacts DEF MkdirAll
<1>3. CASE Generate
  <2>1. TypeInv'
    BY <1>3 DEF Generate
  <2>2. CallInv'
    BY <1>3, PatchStays DEF Generate, CallInv
  <2> QED
    BY <1>1, <2>1, <2>2
<1>4. CASE Start
  <2>1. TypeInv'
    BY <1>4 DEF Start
  <2>2. CallInv'
    BY <1>4, PatchStays DEF Start, CallInv
  <2> QED
    BY <1>1, <2>1, <2>2
<1>5. CASE BeginWrite
  <2>1. MkdirAll(Path) \in [Paths -> Nodes] /\ dir' \in [Paths -> Nodes]
    BY <1>5, NodeFacts DEF BeginWrite, MkdirAll
  <2>2. TypeInv'
    BY <1>5, <2>1 DEF BeginWrite
  <2>3. CallInv'
    BY <1>5, AtEntry, PatchStays DEF BeginWrite, CallInv
  <2> QED
    BY <1>1, <2>2, <2>3
<1>6. CASE FinishWrite
  <2>1. next \in DOMAIN patch /\ Path \in Paths
    BY <1>6, EntryFacts DEF FinishWrite, CallInv, Path
  <2>2. new[Path] \in Nodes
    BY <2>1, TreeFacts DEF GivenInv
  <2>3. dir' \in [Paths -> Nodes]
    BY <1>6, <2>2 DEF FinishWrite
  <2>4. pc' = "applying" /\ next' = next + 1 /\ UNCHANGED <<staged, runs, faults>>
    BY <1>6 DEF FinishWrite
  <2>5. TypeInv'
    BY <2>3, <2>4
  <2>6. CallInv'
    BY <1>6, PatchStays DEF FinishWrite, CallInv
  <2> QED
    BY <1>1, <2>5, <2>6
<1>7. CASE RemoveFile
  <2>1. dir' \in [Paths -> Nodes]
    BY <1>7, NodeFacts DEF RemoveFile
  <2>2. pc' = "applying" /\ next' = next + 1 /\ UNCHANGED <<staged, runs, faults>>
    BY <1>7 DEF RemoveFile
  <2>3. TypeInv'
    BY <2>1, <2>2
  <2>4. CallInv'
    BY <1>7, PatchStays DEF RemoveFile, CallInv
  <2> QED
    BY <1>1, <2>3, <2>4
<1>8. CASE Stage
  <2>1. next \in DOMAIN patch
    BY <1>8, AtEntry DEF Stage
  <2>2. Path \in Paths /\ staged' = new[Path] /\ staged' \in Nodes
    BY <1>8, <2>1, EntryFacts, TreeFacts DEF Stage, Rebuilds, Path, GivenInv
  <2>3. dir' \in [Paths -> Nodes]
    BY <1>8, <2>2 DEF Stage
  <2>4. pc' = "staged" /\ next' = next /\ runs' = runs /\ faults' = faults
    BY <1>8 DEF Stage
  <2>5. TypeInv'
    BY <2>2, <2>3, <2>4
  <2>6. CallInv'
    BY <1>8, <2>1, <2>2, PatchStays DEF Stage, CallInv, Path, given
  <2> QED
    BY <1>1, <2>5, <2>6
<1>9. CASE Rename
  <2>1. dir' \in [Paths -> Nodes]
    BY <1>9, NodeFacts DEF Rename
  <2>2. pc' = "applying" /\ next' = next + 1 /\ UNCHANGED <<staged, runs, faults>>
    BY <1>9 DEF Rename
  <2>3. TypeInv'
    BY <2>1, <2>2
  <2>4. CallInv'
    BY <1>9, PatchStays DEF Rename, CallInv
  <2> QED
    BY <1>1, <2>3, <2>4
<1>10. CASE Refuse
  <2>1. TypeInv'
    BY <1>2, <1>10 DEF Refuse
  <2>2. CallInv'
    BY <1>10, PatchStays DEF Refuse, CallInv
  <2> QED
    BY <1>1, <2>1, <2>2
<1>11. CASE Interrupt
  <2>1. TypeInv'
    BY <1>11 DEF Interrupt
  <2>2. CallInv'
    BY <1>11, PatchStays DEF Interrupt, CallInv
  <2> QED
    BY <1>1, <2>1, <2>2
<1>12. CASE Finish
  <2>1. TypeInv'
    BY <1>12 DEF Finish
  <2>2. CallInv'
    BY <1>12, PatchStays DEF Finish, CallInv
  <2> QED
    BY <1>1, <2>1, <2>2
<1> QED
  BY <1>3, <1>4, <1>5, <1>6, <1>7, <1>8, <1>9, <1>10, <1>11, <1>12 DEF Next

-----------------------------------------------------------------------------
(* Each file that the patch lists.                                         *)

\* What an entry does to its own path: a step of a call that does not get past
\* the entry leaves it, but for an added file that is being written.
LEMMA AtThePath ==
    ASSUME ~TempNames, Core, Next, next \in DOMAIN patch
    PROVE  \/ dir'[Path] = dir[Path] /\ next' # next + 1
           \/ patch[next].status = "added" /\ next' = next /\ dir'[Path] = Torn
           \/ /\ pc \in InCall /\ next' = next + 1 /\ patch[next].status # "deleted"
              /\ dir'[Path] = new[Path]
           \/ /\ pc \in InCall /\ next' = next + 1 /\ patch[next].status = "deleted"
              /\ dir'[Path] = Absent
<1> USE DEF Core, TypeInv, At, InCall
<1>1. Path \in Paths \ TempPaths /\ patch[next].status \in Statuses
  BY EntryFacts DEF Path
<1>2. CASE Generate \/ Start \/ Interrupt \/ Finish
  BY <1>2 DEF Generate, Start, Interrupt, Finish, given
<1>3. CASE BeginWrite
  BY <1>1, <1>3 DEF BeginWrite, MkdirAll
<1>4. CASE FinishWrite
  BY <1>1, <1>4 DEF FinishWrite, CallInv
<1>5. CASE RemoveFile
  BY <1>1, <1>5 DEF RemoveFile
<1>6. CASE Stage
  <2>1. ~IsTemp(Path, Path)
    BY <1>1, DirPatchAssumption DEF IsTemp, TempPaths
  <2> QED
    BY <1>1, <1>6, <2>1 DEF Stage
<1>7. CASE Rename
  <2>1. dir'[Path] = staged
    BY <1>1, <1>7 DEF Rename
  <2> QED
    BY <1>7, <2>1 DEF Rename, CallInv
<1>8. CASE Refuse
  <2>1. MkdirAll(Path)[Path] = dir[Path]
    BY <1>1, DirPatchAssumption DEF MkdirAll
  <2> QED
    BY <1>8, <2>1 DEF Refuse
<1> QED
  BY <1>2, <1>3, <1>4, <1>5, <1>6, <1>7, <1>8 DEF Next

Right(p) == IF Walked(new, p) THEN dir[p] = new[p] ELSE ~IsFile(dir[p])

\* A call has dealt with the entries before the one it is at.
EntriesApplied == pc \in InCall => \A i \in DOMAIN patch : i < next => Right(patch[i].path)

LEMMA EntriesAppliedKept ==
    ASSUME ~TempNames, Core, EntriesApplied, Next
    PROVE  EntriesApplied'
<1> USE DEF Core, TypeInv, At, InCall
<1>1. CASE pc = "diff"
  <2>1. pc' = "ready"
    BY <1>1 DEF Next, Generate, Start, BeginWrite, FinishWrite, RemoveFile, Stage, Rename, Refuse,
         Refused, Interrupt, Finish
  <2> QED
    BY <2>1 DEF EntriesApplied
<1>2. CASE pc # "diff"
  <2>1. UNCHANGED patch /\ UNCHANGED <<old, new>>
    BY <1>2, PatchStays DEF given
  <2>2. SUFFICES ASSUME pc' \in InCall, NEW i \in DOMAIN patch, i < next'
                 PROVE  Right(patch[i].path)'
    BY <2>1 DEF EntriesApplied
  <2> DEFINE p == patch[i].path
  <2>3. /\ i \in Nat /\ i >= 1 /\ p \in Paths \ TempPaths
        /\ \A j \in DOMAIN patch : patch[j].path = p => j = i
        /\ IF patch[i].status = "deleted" THEN ~Walked(new, p) ELSE Walked(new, p)
    BY EntryFacts DEF IsPatch
  <2>4. pc \in InCall /\ (next' = next \/ next' = next + 1)
    BY <2>2, <2>3 DEF Next, Generate, Start, BeginWrite, FinishWrite, RemoveFile, Stage, Rename,
         Refuse, Interrupt, Finish, CallInv
  <2>5. Right(p)' <=> IF Walked(new, p) THEN dir'[p] = new[p] ELSE ~IsFile(dir'[p])
    BY <2>1 DEF Right, Walked
  <2>6. CASE i = next
    <3>1. p = Path /\ next' # next
      BY <2>2, <2>3, <2>4, <2>6 DEF Path
    <3>2. \/ patch[i].status # "deleted" /\ dir'[p] = new[p]
          \/ patch[i].status = "deleted" /\ dir'[p] = Absent
      BY <2>4, <2>6, <3>1, AtThePath
    <3> QED
      BY <2>3, <2>5, <3>2, NodeFacts
  <2>7. CASE i # next
    <3>1. i < next
      BY <2>2, <2>3, <2>4, <2>7
    <3>2. Right(p)
      BY <2>4, <3>1 DEF EntriesApplied
    <3>3. dir'[p] = dir[p] \/ (dir'[p] = Dir /\ new[p] = Dir)
      BY <2>3, <2>7, OnlyThePath DEF Path
    <3>4. new[p] = Dir => ~Walked(new, p)
      BY DirPatchAssumption DEF Walked
    <3> QED
      BY <2>5, <3>2, <3>3, <3>4, NodeFacts DEF Right
  <2> QED
    BY <2>6, <2>7
<1> QED
  BY <1>1, <1>2

\* A file the patch modifies changes in one step, from old to new.
LEMMA ModifiedWholeStays ==
    ASSUME ~TempNames, Core, ModifiedWhole, Next
    PROVE  ModifiedWhole'
<1>1. CASE pc = "diff"
  <2>1. dir' = dir /\ dir = before /\ before' = before
    BY <1>1, PatchStays DEF Next, Generate, Start, BeginWrite, FinishWrite, RemoveFile, Stage, Rename,
         Refuse, Refused, Interrupt, Finish, At, Core, CallInv, given
  <2> QED
    BY <2>1 DEF ModifiedWhole
<1>2. CASE pc # "diff"
  <2>1. UNCHANGED patch /\ UNCHANGED <<before, new>>
    BY <1>2, PatchStays DEF given
  <2>2. SUFFICES ASSUME NEW i \in DOMAIN patch, patch[i].status = "modified"
                 PROVE  dir'[patch[i].path] \in {before[patch[i].path], new[patch[i].path]}
    BY <2>1 DEF ModifiedWhole
  <2> DEFINE p == patch[i].path
  <2>3. /\ p \in Paths \ TempPaths /\ new[p] # Dir
        /\ \A j \in DOMAIN patch : patch[j].path = p => j = i
    BY <2>2, EntryFacts, NodeFacts DEF IsPatch
  <2>4. dir[p] \in {before[p], new[p]}
    BY <2>2 DEF ModifiedWhole
  <2>5. CASE i = next
    BY <2>2, <2>4, <2>5, AtThePath DEF Path
  <2>6. CASE i # next
    <3>1. dir'[p] = dir[p]
      BY <2>3, <2>6, OnlyThePath DEF Path
    <3> QED
      BY <2>4, <3>1
  <2> QED
    BY <2>5, <2>6
<1> QED
  BY <1>1, <1>2

-----------------------------------------------------------------------------
(* The files that the patch does not list.                                 *)

\* No file appears under a path that the patch does not list.
NoNewFiles ==
    \A p \in Paths \ (Listed \cup TempPaths) : ~IsFile(before[p]) => ~IsFile(dir[p])

LEMMA BystandersStay ==
    ASSUME ~TempNames, Core, BystandersKept, NoNewFiles, Next
    PROVE  BystandersKept' /\ NoNewFiles'
<1>1. CASE pc = "diff"
  <2>1. dir' = dir /\ dir = before /\ before' = before
    BY <1>1, PatchStays DEF Next, Generate, Start, BeginWrite, FinishWrite, RemoveFile, Stage, Rename,
         Refuse, Refused, Interrupt, Finish, At, Core, CallInv, given
  <2> QED
    BY <2>1 DEF BystandersKept, NoNewFiles
<1>2. CASE pc # "diff"
  <2>1. UNCHANGED patch /\ UNCHANGED before
    BY <1>2, PatchStays DEF given
  <2>2. next \in DOMAIN patch => Path \in Listed
    BY DEF Path, Listed
  <2>3. ASSUME NEW p \in Paths \ Listed, IsFile(before[p])
        PROVE  dir'[p] = before[p]
    <3>1. p \notin TempPaths
      BY <2>3, TreeFacts, NodeFacts DEF Core, GivenInv
    <3>2. dir[p] = before[p]
      BY <2>3 DEF BystandersKept
    <3> QED
      BY <2>2, <2>3, <3>1, <3>2, OnlyThePath
  <2>4. ASSUME NEW p \in Paths \ (Listed \cup TempPaths), ~IsFile(before[p])
        PROVE  ~IsFile(dir'[p])
    <3>1. ~IsFile(dir[p])
      BY <2>4 DEF NoNewFiles
    <3> QED
      BY <2>2, <2>4, <3>1, OnlyThePath, NodeFacts
  <2> QED
    BY <2>1, <2>3, <2>4 DEF BystandersKept, NoNewFiles, Listed
<1> QED
  BY <1>1, <1>2

-----------------------------------------------------------------------------
(* The staging files.                                                      *)

\* A staging name has nothing under it, or what a call that did not get past
\* a modified entry left there.
LeftStaged(t) ==
    \E i \in DOMAIN patch : /\ patch[i].status = "modified" /\ t = Temp[patch[i].path]
                            /\ pc \in InCall => i >= next

NoLitter == \A t \in TempPaths : dir[t] # Dir /\ (IsFile(dir[t]) => LeftStaged(t))

LEMMA NoLitterKept ==
    ASSUME ~TempNames, Core, NoLitter, Next
    PROVE  NoLitter'
<1> USE DEF Core, TypeInv, At, InCall
<1>0. TempPaths \subseteq Paths
  BY DirPatchAssumption DEF TempPaths
<1>1. CASE pc = "diff"
  <2>1. dir' = dir /\ dir = before /\ before' = before
    BY <1>1, PatchStays DEF Next, Generate, Start, BeginWrite, FinishWrite, RemoveFile, Stage, Rename,
         Refuse, Refused, Interrupt, Finish, CallInv, given
  <2> QED
    BY <2>1, TreeFacts, NodeFacts DEF NoLitter, GivenInv
<1>2. CASE pc # "diff"
  <2>1. UNCHANGED patch
    BY <1>2, PatchStays
  <2>2. SUFFICES ASSUME NEW t \in TempPaths
                 PROVE  dir'[t] # Dir /\ (IsFile(dir'[t]) => LeftStaged(t)')
    BY DEF NoLitter
  <2>3. dir[t] # Dir /\ (IsFile(dir[t]) => LeftStaged(t))
    BY DEF NoLitter
  <2>4. next \in DOMAIN patch => Path # t
    BY EntryFacts DEF Path
  <2>5. ASSUME pc \in InCall, next <= Len(patch), patch[next].status # "deleted"
        PROVE  MkdirAll(Path)[t] = dir[t]
    <3>1. next \in DOMAIN patch
      BY <2>5, AtEntry
    <3>2. t \notin Above[Path]
      BY <2>5, <3>1, EntryFacts DEF Path
    <3> QED
      BY <1>0, <3>2 DEF MkdirAll
  <2>6. ASSUME dir'[t] = dir[t], pc' \in InCall => (pc \in InCall /\ next' = next) \/ next' = 1
        PROVE  dir'[t] # Dir /\ (IsFile(dir'[t]) => LeftStaged(t)')
    <3>1. LeftStaged(t) => LeftStaged(t)'
      BY <1>2, <2>1, <2>6, EntryFacts DEF LeftStaged
    <3> QED
      BY <2>3, <2>6, <3>1
  <2>7. CASE Start \/ Interrupt \/ Finish
    BY <2>6, <2>7 DEF Start, Interrupt, Finish
  <2>8. CASE BeginWrite
    <3>1. next \in DOMAIN patch /\ MkdirAll(Path)[t] = dir[t]
      BY <2>5, <2>8, AtEntry DEF BeginWrite
    <3>2. dir'[t] = dir[t]
      BY <1>0, <2>4, <2>8, <3>1 DEF BeginWrite, MkdirAll
    <3> QED
      BY <2>6, <2>8, <3>2 DEF BeginWrite
  <2>9. ASSUME dir'[t] = dir[t], next \in DOMAIN patch, patch[next].status # "modified",
               next' = next + 1, pc \in InCall
        PROVE  dir'[t] # Dir /\ (IsFile(dir'[t]) => LeftStaged(t)')
    <3>1. LeftStaged(t) => LeftStaged(t)'
      BY <2>1, <2>9, EntryFacts DEF LeftStaged
    <3> QED
      BY <2>3, <2>9, <3>1
  <2>10. CASE FinishWrite
    <3>1. next \in DOMAIN patch /\ patch[next].status = "added"
      BY <2>10 DEF FinishWrite, CallInv
    <3> QED
      BY <1>0, <2>4, <2>9, <2>10, <3>1 DEF FinishWrite
  <2>11. CASE RemoveFile
    <3>1. next \in DOMAIN patch /\ patch[next].status = "deleted"
      BY <2>11, AtEntry DEF RemoveFile
    <3> QED
      BY <1>0, <2>4, <2>9, <2>11, <3>1 DEF RemoveFile
  <2>12. CASE Stage
    <3>1. next \in DOMAIN patch /\ patch[next].status = "modified"
      BY <2>12, AtEntry DEF Stage
    <3>2. CASE t = Temp[Path]
      <4>1. dir'[t] = new[Path]
        BY <1>0, <2>12, <3>2 DEF Stage, IsTemp, Rebuilds
      <4>2. new[Path] # Dir
        BY <3>1, EntryFacts, NodeFacts DEF Path
      <4>3. LeftStaged(t)'
        BY <2>1, <2>12, <3>1, <3>2, EntryFacts DEF Stage, LeftStaged, Path
      <4> QED
        BY <4>1, <4>2, <4>3
    <3>3. CASE t # Temp[Path]
      <4>1. dir'[t] = dir[t]
        BY <1>0, <2>12, <3>3 DEF Stage, IsTemp
      <4> QED
        BY <2>6, <2>12, <4>1 DEF Stage
    <3> QED
      BY <3>2, <3>3
  <2>13. CASE Rename
    <3>1. next \in DOMAIN patch /\ Path # t
      BY <2>4, <2>13 DEF Rename, CallInv
    <3>2. CASE t = Temp[Path]
      <4>1. dir'[t] = Absent
        BY <1>0, <2>13, <3>1, <3>2 DEF Rename, IsTemp
      <4> QED
        BY <4>1, NodeFacts
    <3>3. CASE t # Temp[Path]
      <4>1. dir'[t] = dir[t]
        BY <1>0, <2>13, <3>1, <3>3 DEF Rename, IsTemp
      <4>2. LeftStaged(t) => LeftStaged(t)'
        BY <2>1, <2>13, <3>3, EntryFacts DEF Rename, LeftStaged, Path
      <4> QED
        BY <2>3, <4>1, <4>2
    <3> QED
      BY <3>2, <3>3
  <2>14. CASE Refuse
    <3>1. dir'[t] = dir[t]
      <4>1. CASE ~At("deleted") /\ CanMkdir(Path)
        BY <2>5, <2>14, <4>1, EntryFacts DEF Refuse, Refused, CallInv
      <4>2. CASE ~(~At("deleted") /\ CanMkdir(Path))
        BY <2>14, <4>2 DEF Refuse
      <4> QED
        BY <4>1, <4>2
    <3> QED
      BY <2>6, <2>14, <3>1 DEF Refuse
  <2>15. ~Generate
    BY <1>2 DEF Generate
  <2> QED
    BY <2>7, <2>8, <2>10, <2>11, <2>12, <2>13, <2>14, <2>15 DEF Next
<1> QED
  BY <1>1, <1>2

-----------------------------------------------------------------------------
(* The first call on a copy of the old tree.                               *)

\* Until a call finishes or fails, what it finds is the old tree where the new
\* one has not been made yet.
FirstCall ==
    /\ runs = 0 => pc \in {"diff", "ready"} /\ dir = before
    /\ runs > 0 => pc \notin {"diff", "ready"}
    /\ runs = 1 /\ faults = 0 /\ before = old =>
          /\ pc # "failed"
          /\ \A q \in Paths \ TempPaths :
                /\ dir[q] = Dir => old[q] = Dir \/ new[q] = Dir
                /\ IsFile(dir[q]) => IsFile(old[q]) \/ IsFile(new[q])
          /\ \A i \in DOMAIN patch :
                i >= next /\ patch[i].status = "modified" => dir[patch[i].path] = old[patch[i].path]

LEMMA NothingRefused ==
    ASSUME ~TempNames, ~Swaps, Core, FirstCall, NoLitter,
           runs = 1, faults = 0, before = old
    PROVE  ~Refused
<1> USE DEF Core, TypeInv, At, InCall
<1>1. next \in DOMAIN patch =>
        /\ Path \in Paths \ TempPaths /\ Found(patch[next]) /\ patch[next].status \in Statuses
        /\ patch[next].status # "deleted" =>
              /\ IsFile(new[Path])
              /\ \A q \in Above[Path] : q \in Paths \ TempPaths /\ new[q] = Dir
  BY EntryFacts DEF Path
<1>2. /\ \A q \in Paths : ~(IsFile(old[q]) /\ new[q] = Dir) /\ ~(IsFile(new[q]) /\ old[q] = Dir)
      /\ \A q \in Paths : Walked(old, q) => IsFile(old[q])
  BY TreeFacts DEF GivenInv
<1>3. /\ \A q \in Paths \ TempPaths :
            /\ dir[q] = Dir => old[q] = Dir \/ new[q] = Dir
            /\ IsFile(dir[q]) => IsFile(old[q]) \/ IsFile(new[q])
      /\ next \in DOMAIN patch /\ patch[next].status = "modified" => dir[Path] = old[Path]
  BY EntryFacts DEF FirstCall, Path
<1>4. ASSUME At("added")
      PROVE  CanMkdir(Path) /\ dir[Path] # Dir
  <2>1. next \in DOMAIN patch /\ patch[next].status # "deleted"
    BY <1>4, AtEntry
  <2>2. CanMkdir(Path)
    BY <1>1, <1>2, <1>3, <2>1, NodeFacts DEF CanMkdir
  <2>3. dir[Path] # Dir
    BY <1>1, <1>2, <1>3, <2>1, NodeFacts
  <2> QED
    BY <2>2, <2>3
<1>5. ASSUME At("deleted")
      PROVE  CanRemove(Path)
  <2>1. next \in DOMAIN patch /\ Walked(old, Path)
    BY <1>1, <1>5, AtEntry DEF Found, Deleted, Path
  <2>2. dir[Path] # Dir
    BY <1>1, <1>2, <1>3, <2>1, NodeFacts
  <2> QED
    BY <2>2 DEF CanRemove
<1>6. next \in DOMAIN patch /\ patch[next].status = "modified" => IsFile(old[Path])
  BY <1>1, <1>2 DEF Found, Modified, Path
<1>7. ASSUME At("modified")
      PROVE  CanStage(Path) /\ dir[Path] = old[Path]
  <2>1. next \in DOMAIN patch
    BY <1>7, AtEntry
  <2>2. dir[Path] = old[Path] /\ dir[Path] # Absent
    BY <1>3, <1>6, <1>7, <2>1, NodeFacts
  <2>3. Temp[Path] # NoPath => dir[Temp[Path]] # Dir
    BY <1>1, <2>1 DEF NoLitter, TempPaths
  <2> QED
    BY <2>2, <2>3 DEF CanStage
<1>8. pc = "staged" => dir[Path] # Dir
  BY <1>3, <1>6, NodeFacts DEF CallInv
<1> QED
  BY <1>4, <1>5, <1>7, <1>8 DEF Refused

LEMMA FirstCallKept ==
    ASSUME ~TempNames, ~Swaps, Core, FirstCall, NoLitter, Next
    PROVE  FirstCall'
<1> USE DEF Core, TypeInv, At, InCall
<1>1. /\ runs' = 0 => pc' \in {"diff", "ready"} /\ dir' = before'
      /\ runs' > 0 => pc' \notin {"diff", "ready"}
  <2>1. before' = before
    BY PatchStays DEF given
  <2> QED
    BY <2>1 DEF FirstCall, Next, Generate, Start, BeginWrite, FinishWrite, RemoveFile, Stage, Rename,
         Refuse, Refused, Interrupt, Finish, CallInv
<1>2. SUFFICES ASSUME runs' = 1, faults' = 0, before' = old'
      PROVE  /\ pc' # "failed"
             /\ \A q \in Paths \ TempPaths :
                   /\ dir'[q] = Dir => old'[q] = Dir \/ new'[q] = Dir
                   /\ IsFile(dir'[q]) => IsFile(old'[q]) \/ IsFile(new'[q])
             /\ \A i \in DOMAIN patch' :
                   i >= next' /\ patch'[i].status = "modified"
                      => dir'[patch'[i].path] = old'[patch'[i].path]
  BY <1>1 DEF FirstCall
<1>3. UNCHANGED <<old, new, before>> /\ before = old
  BY <1>2, PatchStays DEF given
<1>4. CASE Start
  <2>1. runs = 0 /\ dir = old /\ UNCHANGED dir /\ pc' = "applying" /\ UNCHANGED patch
    BY <1>2, <1>3, <1>4 DEF Start, FirstCall
  <2> QED
    BY <1>3, <2>1
<1>5. CASE ~Start
  <2>1. runs = 1 /\ faults = 0
    BY <1>2, <1>5 DEF Next, Generate, Start, BeginWrite, FinishWrite, RemoveFile, Stage, Rename,
         Refuse, Interrupt, Finish
  <2>2. ~Refuse /\ ~Interrupt /\ ~Generate
    BY <1>2, <1>3, <2>1, NothingRefused DEF Refuse, Interrupt, Generate, FirstCall
  <2>3. pc' # "failed" /\ (next' = next \/ next' = next + 1) /\ UNCHANGED patch
    BY <1>5, <2>2 DEF Next, BeginWrite, FinishWrite, RemoveFile, Stage, Rename, Finish
  <2>4. ASSUME NEW q \in Paths \ TempPaths
        PROVE  /\ dir'[q] = Dir => old[q] = Dir \/ new[q] = Dir
               /\ IsFile(dir'[q]) => IsFile(old[q]) \/ IsFile(new[q])
    <3>1. /\ dir[q] = Dir => old[q] = Dir \/ new[q] = Dir
          /\ IsFile(dir[q]) => IsFile(old[q]) \/ IsFile(new[q])
      BY <1>3, <2>1 DEF FirstCall
    <3>2. CASE next \in DOMAIN patch /\ q = Path
      <4>1. patch[next].status # "deleted" => IsFile(new[Path])
        BY <3>2, EntryFacts DEF Path
      <4> QED
        BY <3>1, <3>2, <4>1, AtThePath, NodeFacts
    <3>3. CASE ~(next \in DOMAIN patch /\ q = Path)
      BY <3>1, <3>3, OnlyThePath, NodeFacts
    <3> QED
      BY <3>2, <3>3
  <2>5. ASSUME NEW i \in DOMAIN patch, i >= next', patch[i].status = "modified"
        PROVE  dir'[patch[i].path] = old[patch[i].path]
    <3> DEFINE p == patch[i].path
    <3>1. /\ p \in Paths \ TempPaths /\ new[p] # Dir /\ i \in Nat
          /\ \A j \in DOMAIN patch : patch[j].path = p => j = i
      BY <2>5, EntryFacts, NodeFacts DEF IsPatch
    <3>2. i >= next
      BY <2>3, <2>5, <3>1
    <3>3. dir[p] = old[p]
      BY <1>3, <2>1, <2>5, <3>2 DEF FirstCall
    <3>4. CASE i = next
      BY <2>3, <2>5, <3>3, <3>4, AtThePath DEF Path
    <3>5. CASE i # next
      BY <3>1, <3>3, <3>5, OnlyThePath DEF Path
    <3> QED
      BY <3>4, <3>5
  <2> QED
    BY <1>3, <2>3, <2>4, <2>5
<1> QED
  BY <1>4, <1>5

-----------------------------------------------------------------------------
(* The theorems.                                                           *)

DirPatchInv ==
    Core /\ EntriesApplied /\ ModifiedWhole /\ BystandersKept /\ NoNewFiles /\ NoLitter

LEMMA InitDirPatch == ASSUME ~TempNames, Init PROVE DirPatchInv /\ FirstCall
<1>1. Core
  BY InitCore
<1>2. dir = before /\ patch = <<>> /\ pc = "diff" /\ runs = 0 /\ faults = 0
  BY DEF Init
<1>3. NoLitter
  BY <1>1, <1>2, TreeFacts, NodeFacts DEF NoLitter, Core, GivenInv
<1> QED
  BY <1>1, <1>2, <1>3 DEF DirPatchInv, EntriesApplied, InCall, ModifiedWhole, BystandersKept,
     NoNewFiles, FirstCall

LEMMA StutterKeeps ==
    ASSUME UNCHANGED vars
    PROVE  (DirPatchInv => DirPatchInv') /\ (FirstCall => FirstCall')
<1>1. Core => Core'
  BY DEF vars, Core, TypeInv, GivenInv, CallInv, IsPatch, Found, Added, Deleted, Modified, Walked, Path
<1>2. /\ EntriesApplied => EntriesApplied'
      /\ ModifiedWhole => ModifiedWhole'
      /\ BystandersKept => BystandersKept'
      /\ NoNewFiles => NoNewFiles'
      /\ NoLitter => NoLitter'
  BY DEF vars, EntriesApplied, Right, Walked, ModifiedWhole, BystandersKept, NoNewFiles, NoLitter,
         LeftStaged, Listed
<1>3. FirstCall => FirstCall'
  BY DEF vars, FirstCall
<1> QED
  BY <1>1, <1>2, <1>3 DEF DirPatchInv

LEMMA DirPatchInvariant == ASSUME ~TempNames PROVE Spec => []DirPatchInv
<1>1. Init => DirPatchInv
  BY InitDirPatch
<1>2. DirPatchInv /\ [Next]_vars => DirPatchInv'
  <2>1. DirPatchInv /\ Next => DirPatchInv'
    BY CoreKept, EntriesAppliedKept, ModifiedWholeStays, BystandersStay, NoLitterKept DEF DirPatchInv
  <2> QED
    BY <2>1, StutterKeeps
<1> QED
  BY <1>1, <1>2, PTL DEF Spec

\* Whatever the target was and however many calls were cut short: a call that
\* returns without error has made every file the patch lists what it is in the
\* new tree, and removed every file that is not there.
THEOREM DonePatchIsNew == ASSUME ~TempNames PROVE Spec => []PatchedIsNew
<1>1. DirPatchInv => PatchedIsNew
  <2> SUFFICES ASSUME DirPatchInv, pc = "done", NEW i \in DOMAIN patch
               PROVE  Right(patch[i].path)
    BY DEF PatchedIsNew, Listed, Right
  <2>1. i < next
    BY EntryFacts DEF DirPatchInv, Core, CallInv, TypeInv
  <2> QED
    BY <2>1 DEF DirPatchInv, EntriesApplied, InCall
<1> QED
  BY <1>1, DirPatchInvariant, PTL

\* ApplyDirPatch never changes a file of the target that the patch does not
\* list, not even where it makes directories for those it does.
THEOREM UnlistedFilesKept == ASSUME ~TempNames PROVE Spec => []BystandersKept
<1>1. DirPatchInv => BystandersKept
  BY DEF DirPatchInv
<1> QED
  BY <1>1, DirPatchInvariant, PTL

\* A file that the patch modifies is at every moment the file it was or the new
\* file: the rename of the .tmp file is the only step that changes it.
THEOREM NoHalfModifiedFile == ASSUME ~TempNames PROVE Spec => []ModifiedWhole
<1>1. DirPatchInv => ModifiedWhole
  BY DEF DirPatchInv
<1> QED
  BY <1>1, DirPatchInvariant, PTL

\* Where CompareDirectories sees every change (Stamped), applying the patch to
\* a copy of the old tree gives the files of the new tree and no others, except
\* those it could not hash or was told to ignore; nothing is left under a
\* staging name either.
THEOREM DiffThenPatch == ASSUME ~TempNames, Stamped PROVE Spec => []RoundTrip
<1>1. DirPatchInv => RoundTrip
  <2> SUFFICES ASSUME DirPatchInv, pc = "done", before = old, NEW p \in Paths \ (Ignored \cup unread)
               PROVE  Right(p)
    BY DEF RoundTrip, Right
  <2> USE DEF DirPatchInv
  <2>1. IsPatch(patch) /\ next > Len(patch)
    BY DEF Core, CallInv
  <2>2. CASE p \in Listed
    <3>1. PICK i \in DOMAIN patch : patch[i].path = p
      BY <2>2 DEF Listed
    <3>2. i < next
      BY <2>1, EntryFacts DEF Core, TypeInv
    <3> QED
      BY <3>1, <3>2 DEF EntriesApplied, InCall
  <2>3. CASE p \notin Listed
    <3>1. ~Added(p) /\ ~Deleted(p) /\ ~Modified(p)
      BY <2>1, <2>3 DEF IsPatch, Listed
    <3>2. CASE Walked(new, p)
      <4>1. Walked(old, p) /\ SizeOf[old[p]] = SizeOf[new[p]] /\ p \in sameTime
        BY <3>1, <3>2 DEF Added, Modified
      <4>2. old[p] = new[p]
        BY <4>1 DEF Core, GivenInv
      <4>3. IsFile(before[p])
        BY <4>1, TreeFacts DEF Core, GivenInv
      <4> QED
        BY <2>3, <3>2, <4>2, <4>3 DEF BystandersKept, Right
    <3>3. CASE ~Walked(new, p)
      <4>1. ~Walked(old, p) /\ p \notin Ignored
        BY <3>1, <3>3 DEF Deleted
      <4>2. ~IsFile(old[p])
        BY <4>1, TreeFacts DEF Core, GivenInv, Walked, IsFile
      <4>3. CASE p \in TempPaths
        <5>1. ~LeftStaged(p)
          BY <2>1, EntryFacts DEF LeftStaged, Core, TypeInv, InCall
        <5> QED
          BY <3>3, <4>3, <5>1 DEF NoLitter, Right
      <4>4. CASE p \notin TempPaths
        BY <2>3, <3>3, <4>2, <4>4 DEF NoNewFiles, Right
      <4> QED
        BY <4>3, <4>4
    <3> QED
      BY <3>2, <3>3
  <2> QED
    BY <2>2, <2>3
<1> QED
  BY <1>1, DirPatchInvariant, PTL

\* Unless a path changes between file and directory, the first call on a copy
\* of the old tree refuses no entry: it can only fail by being interrupted.
THEOREM FirstCallSucceeds == ASSUME ~TempNames, ~Swaps PROVE Spec => []CleanApplySucceeds
<1>1. Init => DirPatchInv /\ FirstCall
  BY InitDirPatch
<1>2. DirPatchInv /\ DirPatchInv' /\ FirstCall /\ [Next]_vars => FirstCall'
  BY FirstCallKept, StutterKeeps DEF DirPatchInv
<1>3. DirPatchInv /\ FirstCall => CleanApplySucceeds
  BY DEF FirstCall, CleanApplySucceeds, DirPatchInv, Core, TypeInv
<1> QED
  BY <1>1, <1>2, <1>3, DirPatchInvariant, PTL DEF Spec
=============================================================================

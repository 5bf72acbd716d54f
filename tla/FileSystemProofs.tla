-------------------------- MODULE FileSystemProofs --------------------------
(***************************************************************************)
(* Proofs about Inode and Directory, as MCInode runs them.                 *)
(*                                                                         *)
(* Of Inode, where several openers share an inode: for any number of       *)
(* handles, names and sectors, the counts of an open inode are exact, and  *)
(* a file that a process runs does not grow.  Of Directory, for any number *)
(* of processes, names, sectors and descriptors: the directories are a     *)
(* tree, and every sector in use is below the root or held open.           *)
(***************************************************************************)
EXTENDS MCInode, Sequences, FiniteSetTheorems, NaturalsInduction, WellFoundedInduction, TLAPS

\* A nonempty set of numbers has a least element.
LEMMA Least ==
  ASSUME NEW T \in SUBSET Nat, T # {}
  PROVE  \E m \in T : \A k \in T : m =< k
<1> DEFINE R == OpToRel(<, Nat)
<1>1. IsWellFoundedOn(R, Nat)
  BY NatLessThanWellFounded
<1>2. \A x, y \in Nat : <<x, y>> \in R <=> x < y
  BY DEF OpToRel
<1> HIDE DEF R
<1>3. PICK m \in T : \A k \in T : ~ (<<k, m>> \in R)
  BY <1>1, WFMin
<1>4. ASSUME NEW k \in T PROVE m =< k
  <2>1. m \in Nat /\ k \in Nat
    OBVIOUS
  <2>2. ~ (k < m)
    BY <1>2, <1>3, <2>1
  <2> QED BY <2>1, <2>2
<1> QED BY <1>4

\* The files that have the inode of s open.
Openers(s) == {h \in FewHandles : files[h] # None /\ files[h].sector = s}

\* What is known of the open inode of a sector, whatever its length and its
\* block pointers are.
Inodes ==
  /\ inodes = [s \in Few!Sectors |-> inodes[s]]
  /\ \A s \in Few!Sectors :
       /\ inodes[s] = [d |-> inodes[s].d, open_cnt |-> inodes[s].open_cnt,
                       deny_write_cnt |-> inodes[s].deny_write_cnt, removed |-> inodes[s].removed]
       /\ inodes[s].open_cnt = Cardinality(Openers(s))
       /\ inodes[s].deny_write_cnt = Cardinality(Openers(s) \cap FewExecs)

\* A file is open on a sector, and denies writes if it is an executable.
FilesOpen ==
  /\ files \in [FewHandles -> Few!OpenFiles \cup {None}]
  /\ \A h \in FewHandles : files[h] # None => files[h].deny_write = (h \in FewExecs)

Entries == entry \in [FewNames -> Few!Sectors \cup {None}]

FilesInv == Inodes /\ FilesOpen /\ Entries

LEMMA FewConstants ==
  /\ FewExecs \subseteq FewHandles /\ IsFiniteSet(FewHandles)
  /\ None \notin Few!OpenFiles /\ None \notin Nat
BY PartsAssumption DEF Few!InodeAssumption, Few!IsFiniteSet, IsFiniteSet

LEMMA OpenersFinite ==
  ASSUME NEW s
  PROVE  /\ IsFiniteSet(Openers(s)) /\ IsFiniteSet(Openers(s) \cap FewExecs)
         /\ Cardinality(Openers(s)) \in Nat /\ Cardinality(Openers(s) \cap FewExecs) \in Nat
BY FewConstants, FS_Subset, FS_CardinalityType DEF Openers

\* A file and its counts, where h has an inode of s open: at least one.
LEMMA OpenerCounts ==
  ASSUME NEW s, NEW h \in Openers(s)
  PROVE  Cardinality(Openers(s)) > 0 /\ (h \in FewExecs => Cardinality(Openers(s) \cap FewExecs) > 0)
BY OpenersFinite, FS_EmptySet

LEMMA FilesInit == Few!Init => FilesInv
<1> SUFFICES ASSUME Few!Init PROVE FilesInv
  OBVIOUS
<1>1. \A s : Openers(s) = {}
  BY DEF Few!Init, Openers
<1>2. \A s : Cardinality(Openers(s)) = 0 /\ Cardinality(Openers(s) \cap FewExecs) = 0
  BY <1>1, FS_EmptySet
<1>3. Inodes
  BY <1>2 DEF Inodes, Few!Init, Few!NotOpen
<1> QED BY <1>3 DEF FilesInv, FilesOpen, Entries, Few!Init

\* Steps that change neither the files nor the counts of an inode.
LEMMA CountsUnmoved ==
  ASSUME Inodes, FilesOpen, UNCHANGED files,
         inodes' = [s \in Few!Sectors |-> inodes'[s]],
         \A s \in Few!Sectors :
           /\ inodes'[s] = [d |-> inodes'[s].d, open_cnt |-> inodes'[s].open_cnt,
                            deny_write_cnt |-> inodes'[s].deny_write_cnt, removed |-> inodes'[s].removed]
           /\ inodes'[s].open_cnt = inodes[s].open_cnt
           /\ inodes'[s].deny_write_cnt = inodes[s].deny_write_cnt
  PROVE  Inodes' /\ FilesOpen'
<1>1. \A s : Openers(s)' = Openers(s)
  BY DEF Openers
<1> QED BY <1>1 DEF Inodes, FilesOpen

LEMMA CardinalitySame == \A S : Few!Cardinality(S) = Cardinality(S)
BY DEF Few!Cardinality, Cardinality

LEMMA CreateKeeps ==
  ASSUME FilesInv, NEW n \in FewNames, NEW length, Few!Create(n, length)
  PROVE  FilesInv'
<1>1. Inodes' /\ FilesOpen'
  BY CountsUnmoved DEF FilesInv, Few!Create, Inodes
<1>2. Few!Min(Few!Sectors \ free_map) \in Few!Sectors
  <2> DEFINE T == Few!Sectors \ free_map
  <2>1. T # {} /\ T \subseteq Nat /\ T \subseteq Few!Sectors
    BY DEF Few!Create, Few!Sectors
  <2> HIDE DEF T
  <2>2. \E m \in T : \A k \in T : m =< k
    BY <2>1, Least
  <2>3. Few!Min(T) \in T
    BY <2>2 DEF Few!Min
  <2> QED BY <2>1, <2>3 DEF T
<1>3. Entries'
  BY <1>2 DEF FilesInv, Entries, Few!Create
<1> QED BY <1>1, <1>3 DEF FilesInv

LEMMA OpenKeeps ==
  ASSUME FilesInv, NEW h \in FewHandles, NEW n \in FewNames, Few!Open(h, n)
  PROVE  /\ FilesInv'
         /\ \A g \in FewHandles : files[g] # None => inodes'[files[g].sector].d = inodes[files[g].sector].d
<1>a. PICK s \in Few!Sectors : s = entry[n]
  BY DEF FilesInv, Entries, Few!Open
<1> DEFINE x == Few!Opened(s)
           f == [sector |-> s, deny_write |-> h \in FewExecs]
<1>1. s \in Few!Sectors /\ files[h] = None
  BY DEF Few!Open
<1>2. f \in Few!OpenFiles /\ f # None /\ f.sector = s
  <2>1. (h \in FewExecs) \in BOOLEAN
    OBVIOUS
  <2>2. \A b \in BOOLEAN : [sector |-> s, deny_write |-> b] \in Few!OpenFiles
    BY <1>1 DEF Few!OpenFiles
  <2> QED BY <2>1, <2>2, FewConstants
<1>3. /\ files' = [files EXCEPT ![h] = f]
      /\ inodes' = [inodes EXCEPT ![s] = [x EXCEPT !.deny_write_cnt = IF h \in FewExecs THEN @ + 1 ELSE @]]
  BY <1>a DEF Few!Open
<1>4. FilesOpen'
  <2>1. f.deny_write = (h \in FewExecs)
    OBVIOUS
  <2> HIDE DEF f
  <2> QED BY <1>1, <1>2, <1>3, <2>1 DEF FilesInv, FilesOpen
<1>5. files'[h] = f /\ \A g \in FewHandles \ {h} : files'[g] = files[g]
  BY <1>3 DEF FilesInv, FilesOpen
<1>6. h \notin Openers(s) /\ Openers(s)' = Openers(s) \cup {h}
  <2> HIDE DEF f
  <2> QED BY <1>1, <1>2, <1>5 DEF Openers
<1>7. ASSUME NEW t \in Few!Sectors \ {s} PROVE Openers(t)' = Openers(t)
  BY <1>1, <1>5 DEF Openers
<1>8. /\ Cardinality(Openers(s)') = Cardinality(Openers(s)) + 1
      /\ Cardinality(Openers(s)' \cap FewExecs)
           = IF h \in FewExecs THEN Cardinality(Openers(s) \cap FewExecs) + 1
             ELSE Cardinality(Openers(s) \cap FewExecs)
  <2>1. Openers(s)' \cap FewExecs = IF h \in FewExecs THEN (Openers(s) \cap FewExecs) \cup {h}
                                    ELSE Openers(s) \cap FewExecs
    BY <1>6
  <2> QED BY <1>6, <2>1, OpenersFinite, FS_AddElement
<1>9. /\ x = [d |-> x.d, open_cnt |-> x.open_cnt, deny_write_cnt |-> x.deny_write_cnt, removed |-> x.removed]
      /\ x.open_cnt = inodes[s].open_cnt + 1
      /\ x.deny_write_cnt = inodes[s].deny_write_cnt
      /\ inodes[s].open_cnt > 0 => x.d = inodes[s].d
  <2>1. CASE inodes[s].open_cnt > 0
    <3>1. x = [inodes[s] EXCEPT !.open_cnt = @ + 1]
      BY <2>1 DEF Few!Opened
    <3> QED BY <1>1, <3>1, <2>1 DEF FilesInv, Inodes
  <2>2. CASE ~ (inodes[s].open_cnt > 0)
    <3>1. x = [d |-> disk_inode[s], open_cnt |-> 1, deny_write_cnt |-> 0, removed |-> FALSE]
      BY <2>2 DEF Few!Opened
    <3>2. inodes[s].open_cnt = 0 /\ Cardinality(Openers(s)) = 0
      <4>1. inodes[s].open_cnt = Cardinality(Openers(s)) /\ Cardinality(Openers(s)) \in Nat
        BY <1>1, OpenersFinite DEF FilesInv, Inodes
      <4> QED BY <2>2, <4>1
    <3>3. Openers(s) = {} /\ Openers(s) \cap FewExecs = {}
      BY <3>2, OpenersFinite, FS_EmptySet
    <3>4. inodes[s].deny_write_cnt = 0
      BY <1>1, <3>3, FS_EmptySet DEF FilesInv, Inodes
    <3> QED BY <2>2, <3>1, <3>2, <3>4
  <2> QED BY <2>1, <2>2
<1> HIDE DEF x, f
<1>10. Inodes'
  <2>1. inodes' = [t \in Few!Sectors |-> inodes'[t]]
    BY <1>3 DEF FilesInv, Inodes
  <2>2. ASSUME NEW t \in Few!Sectors \ {s} PROVE inodes'[t] = inodes[t]
    BY <1>3 DEF FilesInv, Inodes
  <2>3. inodes'[s] = [x EXCEPT !.deny_write_cnt = IF h \in FewExecs THEN @ + 1 ELSE @]
    BY <1>1, <1>3 DEF FilesInv, Inodes
  <2>4. /\ inodes'[s] = [d |-> inodes'[s].d, open_cnt |-> inodes'[s].open_cnt,
                         deny_write_cnt |-> inodes'[s].deny_write_cnt, removed |-> inodes'[s].removed]
        /\ inodes'[s].open_cnt = x.open_cnt
        /\ inodes'[s].deny_write_cnt = IF h \in FewExecs THEN x.deny_write_cnt + 1 ELSE x.deny_write_cnt
    BY <1>9, <2>3
  <2>5. ASSUME NEW t \in Few!Sectors
        PROVE  /\ inodes'[t] = [d |-> inodes'[t].d, open_cnt |-> inodes'[t].open_cnt,
                                deny_write_cnt |-> inodes'[t].deny_write_cnt, removed |-> inodes'[t].removed]
               /\ inodes'[t].open_cnt = Cardinality(Openers(t)')
               /\ inodes'[t].deny_write_cnt = Cardinality(Openers(t)' \cap FewExecs)
    <3>1. CASE t = s
      BY <1>8, <1>9, <2>4, <3>1 DEF FilesInv, Inodes
    <3>2. CASE t # s
      BY <1>7, <2>2, <3>2 DEF FilesInv, Inodes
    <3> QED BY <3>1, <3>2
  <2> QED BY <2>1, <2>5 DEF Inodes
<1>11. Entries'
  BY DEF FilesInv, Entries, Few!Open, Few!disk_vars
<1>12. ASSUME NEW g \in FewHandles, files[g] # None
       PROVE  inodes'[files[g].sector].d = inodes[files[g].sector].d
  <2> DEFINE t == files[g].sector
  <2>1. t \in Few!Sectors /\ g \in Openers(t)
    BY <1>12 DEF FilesInv, FilesOpen, Few!OpenFiles, Openers
  <2>2. inodes[t].open_cnt > 0
    BY <2>1, OpenerCounts DEF FilesInv, Inodes
  <2>3. CASE t = s
    <3>1. x.d = inodes[s].d
      BY <1>9, <2>2, <2>3
    <3>2. inodes'[s] = [x EXCEPT !.deny_write_cnt = IF h \in FewExecs THEN @ + 1 ELSE @]
      BY <1>1, <1>3 DEF FilesInv, Inodes
    <3>3. inodes'[s].d = x.d
      BY <1>9, <3>2
    <3> QED BY <2>3, <3>1, <3>3
  <2>4. CASE t # s
    BY <1>3, <2>1, <2>4 DEF FilesInv, Inodes
  <2> QED BY <2>3, <2>4
<1> QED BY <1>4, <1>10, <1>11, <1>12 DEF FilesInv

LEMMA WriteKeeps ==
  ASSUME FilesInv, NEW h \in FewHandles, NEW new_length, Few!Write(h, new_length)
  PROVE  /\ FilesInv'
         /\ \A g \in FewExecs : files[g] # None => inodes'[files[g].sector].d = inodes[files[g].sector].d
<1>1. PICK s \in Few!Sectors : s = files[h].sector
  BY DEF FilesInv, FilesOpen, Few!OpenFiles, Few!Write
<1>2. PICK e : inodes' = [inodes EXCEPT ![s].d = e]
  BY <1>1 DEF Few!Write
<1>3. inodes[s].deny_write_cnt = 0 /\ UNCHANGED <<files, entry>>
  BY <1>1 DEF Few!Write, Few!MayWrite
<1>4. /\ inodes' = [t \in Few!Sectors |-> inodes'[t]]
      /\ \A t \in Few!Sectors : inodes'[t] = IF t = s THEN [inodes[s] EXCEPT !.d = e] ELSE inodes[t]
  BY <1>1, <1>2 DEF FilesInv, Inodes
<1>5. Inodes' /\ FilesOpen'
  <2>1. ASSUME NEW t \in Few!Sectors
        PROVE  /\ inodes'[t] = [d |-> inodes'[t].d, open_cnt |-> inodes'[t].open_cnt,
                                deny_write_cnt |-> inodes'[t].deny_write_cnt, removed |-> inodes'[t].removed]
               /\ inodes'[t].open_cnt = inodes[t].open_cnt
               /\ inodes'[t].deny_write_cnt = inodes[t].deny_write_cnt
    <3>1. CASE t = s
      <4>1. inodes'[t] = [inodes[t] EXCEPT !.d = e]
        BY <1>4, <3>1
      <4> QED BY <4>1 DEF FilesInv, Inodes
    <3>2. CASE t # s
      <4>1. inodes'[t] = inodes[t]
        BY <1>4, <3>2
      <4> QED BY <4>1 DEF FilesInv, Inodes
    <3> QED BY <3>1, <3>2
  <2> QED BY <1>3, <1>4, <2>1, CountsUnmoved DEF FilesInv
<1>6. ASSUME NEW g \in FewExecs, files[g] # None
      PROVE  inodes'[files[g].sector].d = inodes[files[g].sector].d
  <2>1. g \in FewHandles /\ files[g].sector \in Few!Sectors
    BY <1>6, FewConstants DEF FilesInv, FilesOpen, Few!OpenFiles
  <2>2. files[g].sector # s
    <3>1. SUFFICES ASSUME files[g].sector = s PROVE FALSE
      OBVIOUS
    <3>2. g \in Openers(s)
      BY <1>6, <2>1, <3>1 DEF Openers
    <3>3. Cardinality(Openers(s) \cap FewExecs) > 0
      BY <1>6, <3>2, OpenerCounts
    <3> QED BY <1>3, <3>3 DEF FilesInv, Inodes
  <2> QED BY <1>4, <2>1, <2>2
<1> QED BY <1>3, <1>5, <1>6 DEF FilesInv, Entries

LEMMA RemoveKeeps ==
  ASSUME FilesInv, NEW n \in FewNames, Few!Remove(n)
  PROVE  /\ FilesInv'
         /\ \A g \in FewHandles : files[g] # None => inodes'[files[g].sector].d = inodes[files[g].sector].d
<1>1. PICK s \in Few!Sectors : s = entry[n]
  BY DEF FilesInv, Entries, Few!Remove
<1>2. UNCHANGED inodes \/ inodes' = [inodes EXCEPT ![s].removed = TRUE]
  BY <1>1 DEF Few!Remove
<1>3. /\ inodes' = [t \in Few!Sectors |-> inodes'[t]]
      /\ \A t \in Few!Sectors : inodes'[t] = inodes[t] \/ inodes'[t] = [inodes[t] EXCEPT !.removed = TRUE]
  BY <1>1, <1>2 DEF FilesInv, Inodes
<1>4. ASSUME NEW t \in Few!Sectors
      PROVE  /\ inodes'[t] = [d |-> inodes'[t].d, open_cnt |-> inodes'[t].open_cnt,
                              deny_write_cnt |-> inodes'[t].deny_write_cnt, removed |-> inodes'[t].removed]
             /\ inodes'[t].open_cnt = inodes[t].open_cnt
             /\ inodes'[t].deny_write_cnt = inodes[t].deny_write_cnt
             /\ inodes'[t].d = inodes[t].d
  <2>1. CASE inodes'[t] = inodes[t]
    BY <2>1 DEF FilesInv, Inodes
  <2>2. CASE inodes'[t] = [inodes[t] EXCEPT !.removed = TRUE]
    BY <2>2 DEF FilesInv, Inodes
  <2> QED BY <1>3, <2>1, <2>2
<1>5. UNCHANGED files
  BY DEF Few!Remove
<1>6. Inodes' /\ FilesOpen'
  BY <1>3, <1>4, <1>5, CountsUnmoved DEF FilesInv
<1>7. Entries'
  BY DEF FilesInv, Entries, Few!Remove
<1>8. \A g \in FewHandles : files[g] # None => files[g].sector \in Few!Sectors
  BY DEF FilesInv, FilesOpen, Few!OpenFiles
<1> QED BY <1>4, <1>6, <1>7, <1>8 DEF FilesInv

LEMMA CloseKeeps ==
  ASSUME FilesInv, NEW h \in FewHandles, Few!Close(h)
  PROVE  /\ FilesInv'
         /\ \A g \in FewHandles : files[g] # None /\ files'[g] = files[g] =>
              inodes'[files[g].sector].d = inodes[files[g].sector].d
<1>1. PICK s \in Few!Sectors : s = files[h].sector
  BY DEF FilesInv, FilesOpen, Few!OpenFiles, Few!Close
<1>2. h \in Openers(s)
  BY <1>1 DEF Openers, Few!Close
<1> DEFINE x == [inodes[s] EXCEPT !.open_cnt = @ - 1, !.deny_write_cnt = Few!DenyCnt(files[h], inodes[s])]
<1>3. /\ files' = [files EXCEPT ![h] = None]
      /\ inodes' = [inodes EXCEPT ![s] = IF inodes[s].open_cnt = 1 THEN Few!NotOpen ELSE x]
      /\ UNCHANGED entry
  BY <1>1 DEF Few!Close, Few!disk_vars
<1>4. FilesOpen' /\ Entries' /\ files'[h] = None /\ \A g \in FewHandles \ {h} : files'[g] = files[g]
  BY <1>3 DEF FilesInv, FilesOpen, Entries
<1>5. Openers(s)' = Openers(s) \ {h}
  BY <1>4 DEF Openers
<1>6. ASSUME NEW t \in Few!Sectors \ {s} PROVE Openers(t)' = Openers(t)
  BY <1>1, <1>4 DEF Openers
<1>7. /\ Cardinality(Openers(s)') = Cardinality(Openers(s)) - 1
      /\ Cardinality(Openers(s)' \cap FewExecs)
           = IF h \in FewExecs THEN Cardinality(Openers(s) \cap FewExecs) - 1
             ELSE Cardinality(Openers(s) \cap FewExecs)
  <2>1. Openers(s)' \cap FewExecs = IF h \in FewExecs THEN (Openers(s) \cap FewExecs) \ {h}
                                    ELSE Openers(s) \cap FewExecs
    BY <1>5
  <2> QED BY <1>2, <1>5, <2>1, OpenersFinite, FS_RemoveElement
<1>8. Few!DenyCnt(files[h], inodes[s]) = Cardinality(Openers(s)' \cap FewExecs)
  <2>1. Few!DenyCnt(files[h], inodes[s])
          = inodes[s].deny_write_cnt - IF h \in FewExecs THEN 1 ELSE 0
    BY DEF Few!DenyCnt, FilesInv, FilesOpen, Few!Close
  <2>2. inodes[s].deny_write_cnt = Cardinality(Openers(s) \cap FewExecs)
    BY DEF FilesInv, Inodes
  <2> QED BY <1>7, <2>1, <2>2, OpenersFinite
<1>9. /\ inodes[s] = [d |-> inodes[s].d, open_cnt |-> inodes[s].open_cnt,
                       deny_write_cnt |-> inodes[s].deny_write_cnt, removed |-> inodes[s].removed]
      /\ inodes[s].open_cnt = Cardinality(Openers(s))
  BY DEF FilesInv, Inodes
<1>10. /\ x = [d |-> x.d, open_cnt |-> x.open_cnt, deny_write_cnt |-> x.deny_write_cnt,
                removed |-> x.removed]
       /\ x.d = inodes[s].d /\ x.open_cnt = Cardinality(Openers(s)')
       /\ x.deny_write_cnt = Cardinality(Openers(s)' \cap FewExecs)
  <2>1. PICK c : c = Few!DenyCnt(files[h], inodes[s])
    OBVIOUS
  <2>2. x = [inodes[s] EXCEPT !.open_cnt = @ - 1, !.deny_write_cnt = c]
    BY <2>1
  <2>3. x = [d |-> inodes[s].d, open_cnt |-> inodes[s].open_cnt - 1, deny_write_cnt |-> c,
             removed |-> inodes[s].removed]
    <3> HIDE DEF x
    <3> QED BY <1>9, <2>2
  <2> HIDE DEF x
  <2> QED BY <1>7, <1>8, <1>9, <2>1, <2>3
<1> HIDE DEF x
<1>11. /\ inodes' = [t \in Few!Sectors |-> inodes'[t]]
       /\ inodes'[s] = IF inodes[s].open_cnt = 1 THEN Few!NotOpen ELSE x
       /\ \A t \in Few!Sectors \ {s} : inodes'[t] = inodes[t]
  BY <1>3 DEF FilesInv, Inodes
<1>12. /\ inodes'[s] = [d |-> inodes'[s].d, open_cnt |-> inodes'[s].open_cnt,
                        deny_write_cnt |-> inodes'[s].deny_write_cnt, removed |-> inodes'[s].removed]
       /\ inodes'[s].open_cnt = Cardinality(Openers(s)')
       /\ inodes'[s].deny_write_cnt = Cardinality(Openers(s)' \cap FewExecs)
  <2>1. CASE inodes[s].open_cnt = 1
    <3>1. Openers(s)' = {}
      BY <1>5, <1>7, <1>9, <2>1, OpenersFinite, FS_Subset, FS_EmptySet
    <3>2. Cardinality(Openers(s)') = 0 /\ Cardinality(Openers(s)' \cap FewExecs) = 0
      BY <3>1, FS_EmptySet
    <3> QED BY <1>11, <2>1, <3>2 DEF Few!NotOpen
  <2>2. CASE inodes[s].open_cnt # 1
    BY <1>10, <1>11, <2>2
  <2> QED BY <2>1, <2>2
<1>13. Inodes'
  <2>1. ASSUME NEW t \in Few!Sectors
        PROVE  /\ inodes'[t] = [d |-> inodes'[t].d, open_cnt |-> inodes'[t].open_cnt,
                                deny_write_cnt |-> inodes'[t].deny_write_cnt, removed |-> inodes'[t].removed]
               /\ inodes'[t].open_cnt = Cardinality(Openers(t)')
               /\ inodes'[t].deny_write_cnt = Cardinality(Openers(t)' \cap FewExecs)
    <3>1. CASE t = s
      BY <1>12, <3>1
    <3>2. CASE t # s
      BY <1>6, <1>11, <3>2 DEF FilesInv, Inodes
    <3> QED BY <3>1, <3>2
  <2> QED BY <1>11, <2>1 DEF Inodes
<1>14. ASSUME NEW g \in FewHandles, files[g] # None, files'[g] = files[g]
       PROVE  inodes'[files[g].sector].d = inodes[files[g].sector].d
  <2>1. g # h /\ files[g].sector \in Few!Sectors
    BY <1>4, <1>14 DEF FilesInv, FilesOpen, Few!OpenFiles
  <2>2. CASE files[g].sector = s
    <3>1. g \in Openers(s)'
      BY <1>4, <1>5, <1>14, <2>1, <2>2 DEF Openers
    <3>2. Cardinality(Openers(s)') # 0
      BY <1>5, <3>1, OpenersFinite, FS_Subset, FS_EmptySet
    <3>3. inodes[s].open_cnt # 1
      BY <1>7, <1>9, <3>2, OpenersFinite
    <3> QED BY <1>10, <1>11, <2>2, <3>3
  <2>3. CASE files[g].sector # s
    BY <1>11, <2>1, <2>3
  <2> QED BY <2>2, <2>3
<1> QED BY <1>4, <1>13, <1>14 DEF FilesInv

LEMMA CloseLastKeeps ==
  ASSUME FilesInv, NEW h \in FewHandles, Few!CloseLast(h)
  PROVE  FilesInv' /\ UNCHANGED inodes
<1>1. Inodes' /\ FilesOpen'
  BY CountsUnmoved DEF FilesInv, Few!CloseLast, Inodes
<1> QED BY <1>1 DEF FilesInv, Entries, Few!CloseLast

LEMMA HaltKeeps ==
  ASSUME FilesInv, Few!Halt
  PROVE  FilesInv' /\ \A g \in FewHandles : files'[g] = None
<1>1. inodes' = [s \in Few!Sectors |-> Few!NotOpen] /\ files' = [h \in FewHandles |-> None] /\ UNCHANGED entry
  BY DEF Few!Halt, Few!disk_vars
<1>2. \A s : Openers(s)' = {}
  BY <1>1 DEF Openers
<1>3. \A s : Cardinality(Openers(s)') = 0 /\ Cardinality(Openers(s)' \cap FewExecs) = 0
  BY <1>2, FS_EmptySet
<1>4. Inodes'
  BY <1>1, <1>3 DEF Inodes, Few!NotOpen
<1> QED BY <1>1, <1>4 DEF FilesInv, FilesOpen, Entries

LEMMA FilesStep ==
  ASSUME FilesInv, Few!Next
  PROVE  FilesInv' /\ Few!FileFixed
<1>1. ASSUME NEW n \in FewNames, Few!Remove(n) PROVE FilesInv' /\ Few!FileFixed
  BY <1>1, RemoveKeeps, FewConstants DEF Few!FileFixed
<1>2. ASSUME NEW n \in FewNames, NEW length, Few!Create(n, length) PROVE FilesInv' /\ Few!FileFixed
  BY <1>2, CreateKeeps DEF Few!FileFixed, Few!Create
<1>3. ASSUME NEW h \in FewHandles, NEW n \in FewNames, Few!Open(h, n)
      PROVE  FilesInv' /\ Few!FileFixed
  BY <1>3, OpenKeeps, FewConstants DEF Few!FileFixed
<1>4. ASSUME NEW h \in FewHandles, NEW new_length, Few!Write(h, new_length)
      PROVE  FilesInv' /\ Few!FileFixed
  BY <1>4, WriteKeeps DEF Few!FileFixed
<1>5. ASSUME NEW h \in FewHandles, Few!Close(h) PROVE FilesInv' /\ Few!FileFixed
  BY <1>5, CloseKeeps, FewConstants DEF Few!FileFixed
<1>6. ASSUME NEW h \in FewHandles, Few!CloseLast(h) PROVE FilesInv' /\ Few!FileFixed
  BY <1>6, CloseLastKeeps DEF Few!FileFixed
<1>7. CASE Few!Halt
  <2>1. FilesInv' /\ \A g \in FewHandles : files'[g] = None
    BY <1>7, HaltKeeps
  <2> QED BY <2>1, FewConstants DEF Few!FileFixed
<1> QED BY <1>1, <1>2, <1>3, <1>4, <1>5, <1>6, <1>7 DEF Few!Next

FilesPart == part = "files" => FilesInv

\* The inductive invariant of the files that several openers share.
THEOREM FilesInvariant == SpecOne => []FilesPart
<1>1. InitOne => FilesPart
  BY FilesInit DEF InitOne, FilesPart
<1>2. FilesPart /\ [NextOne]_<<part, vars, dirVars>> => FilesPart'
  <2> SUFFICES ASSUME FilesPart, part' = "files", [NextOne]_<<part, vars, dirVars>> PROVE FilesInv'
    BY DEF FilesPart
  <2>1. CASE part = "files" /\ Few!Next
    BY <2>1, FilesStep DEF FilesPart
  <2>2. CASE part = "files" /\ UNCHANGED vars
    <3>1. UNCHANGED <<inodes, files, entry>>
      BY <2>2 DEF vars, disk_vars
    <3>2. \A s : Openers(s)' = Openers(s)
      BY <3>1 DEF Openers
    <3> QED BY <2>2, <3>1, <3>2 DEF FilesPart, FilesInv, Inodes, FilesOpen, Entries
  <2> QED BY <2>1, <2>2 DEF NextOne
<1> QED BY <1>1, <1>2, PTL DEF SpecOne

\* However files are opened, removed and closed, open_cnt and deny_write_cnt of
\* the inode they share are the numbers of files that stand for them
\* (inode_open, inode_close, inode_deny_write, inode_allow_write).
THEOREM InodesHold == SpecOne => []InodesRight
<1>1. FilesPart => InodesRight
  BY CardinalitySame DEF FilesPart, FilesInv, Inodes, Openers, InodesRight, Few!CountsExact
<1> QED BY <1>1, FilesInvariant, PTL

\* No step makes a file grow that a process runs, whoever else has it open and
\* whatever was opened and closed before (file_deny_write, inode_write_at).
THEOREM ExecutablesStay == SpecOne => ExecutableFixed
<1>1. FilesPart /\ [NextOne]_<<part, vars, dirVars>> => [part = "files" => Few!FileFixed]_<<part, vars>>
  <2> SUFFICES ASSUME FilesPart, NextOne, part = "files" PROVE Few!FileFixed \/ UNCHANGED <<part, vars>>
    OBVIOUS
  <2>1. Few!Next
    BY DEF NextOne
  <2> QED BY <2>1, FilesStep DEF FilesPart
<1> QED BY <1>1, FilesInvariant, PTL DEF SpecOne, ExecutableFixed

-----------------------------------------------------------------------------
(***************************************************************************)
(* Directory: the tree of directories.                                     *)
(***************************************************************************)

Root == Paths!Root

\* The name n in the directory d leads to s.
Edge(d, n, s) == d \in dir_map /\ isdir[d] /\ dir_entry[d][n] = s
Named(s) == \E d \in Paths!Sectors, n \in DirNames : Edge(d, n, s)

\* A process has made an inode on a sector, and its name is not written yet.
Makes(p) == pc[p] \in {"add", "write", "undo"}
Made(s) == \E p \in Procs : Makes(p) /\ sector[p] = s

DirTypes ==
  /\ Paths!TypeOK /\ removed \in [Paths!Sectors -> BOOLEAN] /\ leaked \in [Paths!Sectors -> Nat]
  /\ DOMAIN pc = Procs /\ DOMAIN call = Procs /\ DOMAIN path = Procs
  /\ sector \in [Procs -> Paths!SectorOrNone]

Counted == \A s \in Paths!Sectors : open_cnt[s] = Paths!References(s) + leaked[s]

\* What is open is not free.
InUse == \A s \in Paths!Sectors : open_cnt[s] > 0 => s \in dir_map

\* Only files are removed while they are open.
RemovedFiles == \A s \in Paths!Sectors : removed[s] => open_cnt[s] > 0 /\ ~ isdir[s] /\ ~ Named(s)

\* The names form a tree, along which the parents lead back.
Shape ==
  /\ parent[Root] = Root
  /\ \A d, s \in Paths!Sectors, n \in DirNames : Edge(d, n, s) =>
       /\ s \in dir_map \ {Root} /\ parent[s] = d
       /\ \A e \in Paths!Sectors, m \in DirNames : Edge(e, m, s) => e = d /\ m = n

\* No sector is lost.
Accounted == \A s \in dir_map \ {Root} : Named(s) \/ removed[s] \/ Made(s)

\* A new inode is its maker's alone.
NewOnes ==
  \A p \in Procs : Makes(p) =>
    /\ sector[p] \in dir_map \ {Root} /\ open_cnt[sector[p]] = 0 /\ ~ Named(sector[p])
    /\ dir_entry[sector[p]] = Paths!NoEntries
    /\ \A q \in Procs : Makes(q) /\ sector[q] = sector[p] => q = p

\* Every directory but those on their way can be reached.
Reach == \A s \in dir_map : isdir[s] /\ ~ Made(s) => s \in Paths!Below

\* What a process relies on at each program point.  A directory about to be
\* erased is open there and nowhere else, and is empty.
Point(p) ==
  /\ pc[p] \in {"new", "user", "dead"} => dir[p] = None
  /\ pc[p] = "new" => cwd[p] = None
  /\ pc[p] \in {"walk", "flip", "add", "write", "undo", "erase"} =>
       dir[p] \in Paths!Sectors /\ (broken = None => isdir[dir[p]])
  /\ pc[p] = "flip" =>
       /\ sector[p] \in Paths!Sectors /\ call[p] \in {"create", "mkdir"}
       /\ call[p] = "create" /\ sector[p] \in dir_map => isdir[sector[p]]
  /\ pc[p] \in {"write", "erase"} => path[p].last \in DirNames /\ lock[dir[p]] = p
  /\ pc[p] = "write" => parent[sector[p]] = dir[p] /\ dir_entry[dir[p]][path[p].last] = None
  /\ pc[p] = "erase" =>
       /\ sector[p] \in Paths!Sectors /\ dir_entry[dir[p]][path[p].last] = sector[p]
       /\ isdir[sector[p]] => open_cnt[sector[p]] = 1 /\ dir_entry[sector[p]] = Paths!NoEntries
  /\ call[p] = "create" => dir_lock = p /\ pc[p] \in {"walk", "flip", "add", "write", "undo"}

Points == \A p \in Procs : Point(p)

Global == InUse /\ RemovedFiles /\ Shape /\ Accounted /\ NewOnes /\ Reach

TreeInv == DirTypes /\ Counted /\ Global /\ Points /\ Paths!FilesGuarded

LEMMA PathsConstants ==
  /\ First \in Procs /\ IsFiniteSet(Procs) /\ IsFiniteSet(DirHandles)
  /\ DirNames \cap {".", "..", ""} = {}
  /\ DirSectors \in Nat \ {0} /\ MaxLeaks \in Nat
  /\ None \notin Nat /\ None \notin Procs
  /\ None \notin {"create", "mkdir", "open", "remove", "chdir"}
  /\ None \notin {"file as directory", "sector twice", "kernel fault"}
  /\ Paths!Sectors = 0 .. DirSectors - 1 /\ Root = 0 /\ Root \in Paths!Sectors
  /\ None \notin Paths!Sectors
<1>1. Paths!DirectoryAssumption
  BY PartsAssumption
<1>2. IsFiniteSet(Procs) /\ IsFiniteSet(DirHandles)
  BY <1>1 DEF Paths!DirectoryAssumption, Paths!IsFiniteSet, IsFiniteSet
<1>3. /\ First \in Procs /\ DirNames \cap {".", "..", ""} = {}
      /\ DirSectors \in Nat \ {0} /\ MaxLeaks \in Nat
      /\ None \notin Nat /\ None \notin Procs
      /\ None \notin {"create", "mkdir", "open", "remove", "chdir"}
      /\ None \notin {"file as directory", "sector twice", "kernel fault"}
  BY <1>1 DEF Paths!DirectoryAssumption
<1>4. Paths!Sectors = 0 .. DirSectors - 1 /\ Root = 0
  BY DEF Paths!Sectors, Paths!Root, Root
<1>5. Root \in Paths!Sectors /\ None \notin Paths!Sectors
  <2>0. DirSectors \in Nat /\ DirSectors # 0
    BY <1>3
  <2>1. \A x \in 0 .. DirSectors - 1 : x \in Nat
    BY ONLY <2>0
  <2>2. 0 \in 0 .. DirSectors - 1
    BY ONLY <2>0
  <2> QED BY <1>3, <1>4, <2>1, <2>2
<1> QED BY <1>2, <1>3, <1>4, <1>5

-----------------------------------------------------------------------------
\* How many of D have the value s under f.
Uses(f, D, s) == Cardinality({x \in D : f[x] = s})

One(v, s) == IF v = s THEN 1 ELSE 0

LEMMA UsesCount ==
  ASSUME NEW D, IsFiniteSet(D), NEW f, NEW s
  PROVE  /\ Uses(f, D, s) \in Nat
         /\ \A x \in D : f[x] = s => Uses(f, D, s) > 0
<1> DEFINE U == {x \in D : f[x] = s}
<1>1. IsFiniteSet(U) /\ Cardinality(U) \in Nat
  BY FS_Subset, FS_CardinalityType
<1>2. \A x \in U : Cardinality(U) # 0
  BY <1>1, FS_EmptySet
<1> QED BY <1>1, <1>2 DEF Uses

\* One value changes.
LEMMA UsesChange ==
  ASSUME NEW D, IsFiniteSet(D), NEW f, NEW g, NEW x \in D, NEW s,
         \A y \in D \ {x} : g[y] = f[y]
  PROVE  Uses(g, D, s) = Uses(f, D, s) - One(f[x], s) + One(g[x], s)
<1> DEFINE U == {y \in D : f[y] = s}
           W == {y \in D : g[y] = s}
<1>1. IsFiniteSet(U) /\ IsFiniteSet(W) /\ Cardinality(U) \in Nat /\ Cardinality(W) \in Nat
  BY FS_Subset, FS_CardinalityType
<1>2. CASE f[x] = s /\ g[x] = s
  <2>1. W = U
    BY <1>2
  <2>2. One(f[x], s) = 1 /\ One(g[x], s) = 1
    BY <1>2 DEF One
  <2> HIDE DEF U, W
  <2>3. Cardinality(W) = Cardinality(U) - 1 + 1
    BY <1>1, <2>1
  <2> QED BY <2>2, <2>3 DEF Uses, U, W
<1>3. CASE f[x] = s /\ g[x] # s
  <2>1. W = U \ {x} /\ x \in U
    BY <1>3
  <2>2. Cardinality(W) = Cardinality(U) - 1
    BY <1>1, <2>1, FS_RemoveElement
  <2>3. One(f[x], s) = 1 /\ One(g[x], s) = 0
    BY <1>3 DEF One
  <2> HIDE DEF U, W
  <2>4. Cardinality(W) = Cardinality(U) - 1 + 0
    BY <1>1, <2>2
  <2> QED BY <2>3, <2>4 DEF Uses, U, W
<1>4. CASE f[x] # s /\ g[x] = s
  <2>1. W = U \cup {x} /\ x \notin U
    BY <1>4
  <2>2. Cardinality(W) = Cardinality(U) + 1
    BY <1>1, <2>1, FS_AddElement
  <2>3. One(f[x], s) = 0 /\ One(g[x], s) = 1
    BY <1>4 DEF One
  <2> HIDE DEF U, W
  <2>4. Cardinality(W) = Cardinality(U) - 0 + 1
    BY <1>1, <2>2
  <2> QED BY <2>3, <2>4 DEF Uses, U, W
<1>5. CASE f[x] # s /\ g[x] # s
  <2>1. W = U
    BY <1>5
  <2>2. One(f[x], s) = 0 /\ One(g[x], s) = 0
    BY <1>5 DEF One
  <2> HIDE DEF U, W
  <2>3. Cardinality(W) = Cardinality(U) - 0 + 0
    BY <1>1, <2>1
  <2> QED BY <2>2, <2>3 DEF Uses, U, W
<1> QED BY <1>2, <1>3, <1>4, <1>5

\* No value changes.
LEMMA UsesSame ==
  ASSUME NEW D, NEW f, NEW g, NEW s, \A y \in D : g[y] = f[y]
  PROVE  Uses(g, D, s) = Uses(f, D, s)
<1>1. {y \in D : g[y] = s} = {y \in D : f[y] = s}
  OBVIOUS
<1> QED BY <1>1 DEF Uses

\* What the descriptors have open, and what is about to be erased.
Opens == [x \in Procs \X DirHandles |-> fds[x[1]][x[2]]]
Erases == [p \in Procs |-> IF pc[p] = "erase" THEN sector[p] ELSE None]

LEMMA ReferencesAre ==
  ASSUME NEW s \in Paths!Sectors
  PROVE  Paths!References(s)
           = Uses(cwd, Procs, s) + Uses(dir, Procs, s) + Uses(Opens, Procs \X DirHandles, s)
               + Uses(Erases, Procs, s)
<1>1. {p \in Procs : pc[p] = "erase" /\ sector[p] = s} = {p \in Procs : Erases[p] = s}
  BY PathsConstants DEF Erases
<1>2. {x \in Procs \X DirHandles : fds[x[1]][x[2]] = s} = {x \in Procs \X DirHandles : Opens[x] = s}
  BY DEF Opens
<1>3. \A T : Paths!Cardinality(T) = Cardinality(T)
  BY DEF Paths!Cardinality, Cardinality
<1> QED BY <1>1, <1>2, <1>3 DEF Paths!References, Uses

LEMMA ReferencesFinite == IsFiniteSet(Procs) /\ IsFiniteSet(Procs \X DirHandles)
BY PathsConstants, FS_Product

\* What is in use is open, and what is in use elsewhere than where it is about
\* to be erased is open twice.
LEMMA UsedOpen ==
  ASSUME TreeInv, NEW s \in Paths!Sectors,
         \/ \E p \in Procs : cwd[p] = s \/ dir[p] = s
         \/ \E p \in Procs, h \in DirHandles : fds[p][h] = s
  PROVE  /\ open_cnt[s] > 0 /\ s \in dir_map
         /\ (\E q \in Procs : pc[q] = "erase" /\ sector[q] = s) => open_cnt[s] > 1
<1> DEFINE c == Uses(cwd, Procs, s)
           d == Uses(dir, Procs, s)
           o == Uses(Opens, Procs \X DirHandles, s)
           e == Uses(Erases, Procs, s)
<1>1. c \in Nat /\ d \in Nat /\ o \in Nat /\ e \in Nat
  BY UsesCount, ReferencesFinite
<1>2. c + d + o > 0
  <2>1. CASE \E p \in Procs : cwd[p] = s \/ dir[p] = s
    <3>1. c > 0 \/ d > 0
      BY <2>1, UsesCount, ReferencesFinite
    <3> HIDE DEF c, d, o
    <3> QED BY <1>1, <3>1
  <2>2. CASE \E p \in Procs, h \in DirHandles : fds[p][h] = s
    <3>1. PICK p \in Procs, h \in DirHandles : fds[p][h] = s
      BY <2>2
    <3>2. <<p, h>> \in Procs \X DirHandles /\ Opens[<<p, h>>] = s
      BY <3>1 DEF Opens
    <3>3. o > 0
      BY <3>2, UsesCount, ReferencesFinite
    <3> HIDE DEF c, d, o
    <3> QED BY <1>1, <3>3
  <2> QED BY <2>1, <2>2
<1>3. (\E q \in Procs : pc[q] = "erase" /\ sector[q] = s) => e > 0
  <2> SUFFICES ASSUME NEW q \in Procs, pc[q] = "erase", sector[q] = s PROVE e > 0
    OBVIOUS
  <2>1. Erases[q] = s
    BY DEF Erases
  <2> QED BY <2>1, UsesCount, ReferencesFinite
<1>4. open_cnt[s] = c + d + o + e + leaked[s] /\ leaked[s] \in Nat
  BY ReferencesAre DEF TreeInv, Counted, DirTypes
<1>5. open_cnt[s] > 0 => s \in dir_map
  BY DEF TreeInv, Global, InUse
<1> HIDE DEF c, d, o, e
<1> QED BY <1>1, <1>2, <1>3, <1>4, <1>5

-----------------------------------------------------------------------------
\* A sector that may be opened: no maker's, and no directory about to be erased.
Usable(s) ==
  /\ s \in dir_map /\ ~ Made(s)
  /\ ~ \E p \in Procs : pc[p] = "erase" /\ sector[p] = s /\ isdir[s]

LEMMA UsedUsable ==
  ASSUME TreeInv, NEW s \in Paths!Sectors,
         \/ \E p \in Procs : cwd[p] = s \/ dir[p] = s
         \/ \E p \in Procs, h \in DirHandles : fds[p][h] = s
  PROVE  Usable(s) /\ ~ (isdir[s] /\ removed[s]) /\ open_cnt[s] > 0
<1>1. /\ open_cnt[s] > 0 /\ s \in dir_map
      /\ (\E q \in Procs : pc[q] = "erase" /\ sector[q] = s) => open_cnt[s] > 1
  BY UsedOpen
<1>2. ~ Made(s)
  BY <1>1 DEF Made, TreeInv, Global, NewOnes
<1>3. ~ \E p \in Procs : pc[p] = "erase" /\ sector[p] = s /\ isdir[s]
  <2> SUFFICES ASSUME NEW p \in Procs, pc[p] = "erase", sector[p] = s, isdir[s] PROVE FALSE
    OBVIOUS
  <2>1. open_cnt[s] = 1
    BY DEF TreeInv, Points, Point
  <2> QED BY <1>1, <2>1
<1>4. ~ (isdir[s] /\ removed[s])
  BY DEF TreeInv, Global, RemovedFiles
<1> QED BY <1>1, <1>2, <1>3, <1>4 DEF Usable

LEMMA SectorsTyped ==
  ASSUME TreeInv
  PROVE  /\ dir_map \subseteq Paths!Sectors /\ Root \in dir_map /\ isdir[Root]
         /\ isdir \in [Paths!Sectors -> BOOLEAN]
         /\ parent \in [Paths!Sectors -> Paths!Sectors]
         /\ dir_entry \in [Paths!Sectors -> [DirNames -> Paths!SectorOrNone]]
         /\ open_cnt \in [Paths!Sectors -> Nat]
         /\ lock \in [Paths!Sectors -> Procs \cup {None}]
         /\ cwd \in [Procs -> Paths!SectorOrNone] /\ dir \in [Procs -> Paths!SectorOrNone]
         /\ fds \in [Procs -> [DirHandles -> Paths!SectorOrNone]]
         /\ removed \in [Paths!Sectors -> BOOLEAN] /\ leaked \in [Paths!Sectors -> Nat]
         /\ sector \in [Procs -> Paths!SectorOrNone]
         /\ Paths!SectorOrNone = Paths!Sectors \cup {None}
BY DEF TreeInv, DirTypes, Paths!TypeOK, Root, Paths!Root, Paths!SectorOrNone

\* The entry that a process erases leads to the sector it has opened.
LEMMA ErasedNamed ==
  ASSUME TreeInv, broken = None, NEW p \in Procs, pc[p] = "erase"
  PROVE  /\ path[p].last \in DirNames /\ sector[p] \in dir_map \ {Root} /\ dir[p] \in dir_map
         /\ Edge(dir[p], path[p].last, sector[p]) /\ lock[dir[p]] = p
<1>1. /\ path[p].last \in DirNames /\ lock[dir[p]] = p
      /\ dir[p] \in Paths!Sectors /\ isdir[dir[p]]
      /\ sector[p] \in Paths!Sectors /\ dir_entry[dir[p]][path[p].last] = sector[p]
  BY DEF TreeInv, Points, Point
<1>2. dir[p] \in dir_map
  BY <1>1, UsedUsable DEF Usable
<1>3. Edge(dir[p], path[p].last, sector[p])
  BY <1>1, <1>2 DEF Edge
<1> QED BY <1>1, <1>2, <1>3 DEF TreeInv, Global, Shape

LEMMA RootUsable ==
  ASSUME TreeInv, broken = None
  PROVE  Usable(Root)
<1>1. ~ Made(Root)
  BY DEF Made, TreeInv, Global, NewOnes
<1>2. \A p \in Procs : pc[p] = "erase" => sector[p] # Root
  BY ErasedNamed
<1> QED BY <1>1, <1>2, SectorsTyped DEF Usable

\* What a name in a directory leads to can be opened by whoever can take the
\* lock of the directory.
LEMMA EntryUsable ==
  ASSUME TreeInv, broken = None, NEW d \in Paths!Sectors, NEW n \in DirNames, NEW s \in Paths!Sectors,
         Edge(d, n, s), lock[d] = None
  PROVE  Usable(s)
<1>1. s \in dir_map
  BY DEF TreeInv, Global, Shape
<1>2. ~ Made(s)
  BY DEF Made, TreeInv, Global, NewOnes, Named
<1>3. ASSUME NEW p \in Procs, pc[p] = "erase" PROVE sector[p] # s
  <2>1. /\ path[p].last \in DirNames /\ sector[p] \in dir_map \ {Root} /\ dir[p] \in dir_map
        /\ Edge(dir[p], path[p].last, sector[p]) /\ lock[dir[p]] = p
    BY <1>3, ErasedNamed
  <2>2. dir[p] # d
    BY <2>1, PathsConstants
  <2> QED BY <2>1, <2>2, SectorsTyped DEF TreeInv, Global, Shape
<1> QED BY <1>1, <1>2, <1>3 DEF Usable

\* The parent of a directory in use can be opened: it has an entry, and so is
\* neither new nor about to be erased.
LEMMA ParentUsable ==
  ASSUME TreeInv, broken = None, NEW d \in Paths!Sectors, isdir[d], \E p \in Procs : dir[p] = d
  PROVE  Usable(parent[d])
<1>1. d \in dir_map /\ ~ Made(d) /\ ~ removed[d]
  BY UsedUsable DEF Usable
<1>2. CASE d = Root
  BY <1>2, RootUsable DEF TreeInv, Global, Shape
<1>3. CASE d # Root
  <2>1. Named(d)
    BY <1>1, <1>3 DEF TreeInv, Global, Accounted
  <2>2. PICK e \in Paths!Sectors, n \in DirNames : Edge(e, n, d)
    BY <2>1 DEF Named
  <2>3. parent[d] = e /\ e \in dir_map
    BY <2>2 DEF TreeInv, Global, Shape, Edge
  <2>4. dir_entry[e] # Paths!NoEntries
    BY <2>2, PathsConstants DEF Edge, Paths!NoEntries
  <2>5. ~ Made(e)
    BY <2>4 DEF Made, TreeInv, Global, NewOnes
  <2>6. ~ \E p \in Procs : pc[p] = "erase" /\ sector[p] = e /\ isdir[e]
    BY <2>4 DEF TreeInv, Points, Point
  <2> QED BY <2>3, <2>5, <2>6 DEF Usable
<1> QED BY <1>2, <1>3

-----------------------------------------------------------------------------
\* A set of sectors that the names do not lead out of.
ClosedSet(X) ==
  /\ Root \in X
  /\ \A d, t \in Paths!Sectors, n \in DirNames : Edge(d, n, t) /\ d \in X => t \in X

LEMMA BelowIs ==
  ASSUME DirTypes, NEW s
  PROVE  s \in Paths!Below <=> s \in Paths!Sectors /\ \A X \in SUBSET Paths!Sectors : ClosedSet(X) => s \in X
<1>1. ASSUME NEW X \in SUBSET Paths!Sectors PROVE Paths!ClosedUnderNames(X) <=> ClosedSet(X)
  <2>1. dir_entry \in [Paths!Sectors -> [DirNames -> Paths!Sectors \cup {None}]]
    BY DEF DirTypes, Paths!TypeOK, Paths!SectorOrNone
  <2>2. ASSUME ClosedSet(X) PROVE Paths!ClosedUnderNames(X)
    <3>1. ASSUME NEW e \in Paths!Tree, e[1] \in X PROVE dir_entry[e[1]][e[2]] \in X
      BY <2>1, <2>2, <3>1 DEF ClosedSet, Paths!Tree, Edge
    <3> QED BY <2>2, <3>1 DEF Paths!ClosedUnderNames, ClosedSet, Root
  <2>3. ASSUME Paths!ClosedUnderNames(X) PROVE ClosedSet(X)
    <3>1. ASSUME NEW d \in Paths!Sectors, NEW t \in Paths!Sectors, NEW n \in DirNames, Edge(d, n, t), d \in X
          PROVE  t \in X
      <4>1. <<d, n>> \in Paths!Tree
        BY <3>1, PathsConstants DEF Paths!Tree, Edge
      <4> QED BY <2>3, <3>1, <4>1 DEF Paths!ClosedUnderNames, Edge
    <3> QED BY <2>3, <3>1 DEF Paths!ClosedUnderNames, ClosedSet, Root
  <2> QED BY <2>2, <2>3
<1> QED BY <1>1 DEF Paths!Below

\* The same, of the next state.
LEMMA BelowIsNext ==
  ASSUME DirTypes', NEW s
  PROVE  s \in Paths!Below' <=> s \in Paths!Sectors /\ \A X \in SUBSET Paths!Sectors : ClosedSet(X)' => s \in X
<1>1. ASSUME NEW X \in SUBSET Paths!Sectors PROVE Paths!ClosedUnderNames(X)' <=> ClosedSet(X)'
  <2>1. dir_entry' \in [Paths!Sectors -> [DirNames -> Paths!Sectors \cup {None}]]
    BY DEF DirTypes, Paths!TypeOK, Paths!SectorOrNone
  <2>2. ASSUME ClosedSet(X)' PROVE Paths!ClosedUnderNames(X)'
    <3>1. ASSUME NEW e \in Paths!Tree', e[1] \in X PROVE dir_entry'[e[1]][e[2]] \in X
      BY <2>1, <2>2, <3>1 DEF ClosedSet, Paths!Tree, Edge
    <3> QED BY <2>2, <3>1 DEF Paths!ClosedUnderNames, ClosedSet, Root
  <2>3. ASSUME Paths!ClosedUnderNames(X)' PROVE ClosedSet(X)'
    <3>1. ASSUME NEW d \in Paths!Sectors, NEW t \in Paths!Sectors, NEW n \in DirNames, Edge(d, n, t)', d \in X
          PROVE  t \in X
      <4>1. <<d, n>> \in Paths!Tree'
        BY <3>1, PathsConstants DEF Paths!Tree, Edge
      <4> QED BY <2>3, <3>1, <4>1 DEF Paths!ClosedUnderNames, Edge
    <3> QED BY <2>3, <3>1 DEF Paths!ClosedUnderNames, ClosedSet, Root
  <2> QED BY <2>2, <2>3
<1> QED BY <1>1 DEF Paths!Below

\* With no name less, nothing is lost to the root.
LEMMA BelowGrows ==
  ASSUME DirTypes, DirTypes', NEW s \in Paths!Below,
         \A d, t \in Paths!Sectors, n \in DirNames : Edge(d, n, t) => Edge(d, n, t)'
  PROVE  s \in Paths!Below'
<1>1. \A X \in SUBSET Paths!Sectors : ClosedSet(X)' => ClosedSet(X)
  BY DEF ClosedSet
<1> QED BY <1>1, BelowIs, BelowIsNext

-----------------------------------------------------------------------------
\* Inodes are opened and closed, and no name changes.
LEMMA OpeningKeeps ==
  ASSUME TreeInv, DirTypes', NEW cnt \in [Paths!Sectors -> Nat], Paths!Inodes(cnt, removed),
         UNCHANGED <<isdir, parent, dir_entry>>,
         \A p \in Procs : /\ Makes(p)' <=> Makes(p)
                          /\ Makes(p) => sector'[p] = sector[p],
         \A s \in Paths!Sectors : cnt[s] > open_cnt[s] => s \in dir_map /\ ~ Made(s)
  PROVE  Global'
<1>1. /\ open_cnt' = cnt
      /\ removed' = [s \in Paths!Sectors |-> removed[s] /\ cnt[s] > 0]
      /\ dir_map' = dir_map \ {s \in Paths!Sectors : removed[s] /\ cnt[s] = 0}
  BY DEF Paths!Inodes
<1>2. \A s \in Paths!Sectors : cnt[s] \in Nat /\ open_cnt[s] \in Nat
  BY SectorsTyped
<1>3. \A d, s \in Paths!Sectors, n \in DirNames : Edge(d, n, s)' <=> Edge(d, n, s)
  BY <1>1 DEF Edge, TreeInv, Global, RemovedFiles
<1>4. \A s \in Paths!Sectors : Named(s)' <=> Named(s)
  BY <1>3 DEF Named
<1>5. \A s : Made(s)' <=> Made(s)
  BY DEF Made
<1>6. \A s \in dir_map' : s \in Paths!Sectors /\ s \in dir_map
  BY <1>1, SectorsTyped
<1>7. InUse'
  <2> SUFFICES ASSUME NEW s \in Paths!Sectors, cnt[s] > 0 PROVE s \in dir_map'
    BY <1>1 DEF InUse
  <2>1. s \in dir_map
    BY <1>2 DEF TreeInv, Global, InUse
  <2> QED BY <1>1, <1>2, <2>1
<1>8. RemovedFiles'
  BY <1>1, <1>2, <1>4 DEF TreeInv, Global, RemovedFiles
<1>9. Shape'
  <2>1. parent'[Root] = Root
    BY DEF TreeInv, Global, Shape
  <2>2. ASSUME NEW d \in Paths!Sectors, NEW s \in Paths!Sectors, NEW n \in DirNames, Edge(d, n, s)'
        PROVE  /\ s \in dir_map' \ {Root} /\ parent'[s] = d
               /\ \A e \in Paths!Sectors, m \in DirNames : Edge(e, m, s)' => e = d /\ m = n
    <3>1. Edge(d, n, s) /\ Named(s)
      BY <1>3, <2>2 DEF Named
    <3>2. ~ removed[s]
      BY <3>1 DEF TreeInv, Global, RemovedFiles
    <3>3. s \in dir_map \ {Root} /\ parent[s] = d
      BY <3>1 DEF TreeInv, Global, Shape
    <3>4. \A e \in Paths!Sectors, m \in DirNames : Edge(e, m, s) => e = d /\ m = n
      BY <3>1 DEF TreeInv, Global, Shape
    <3> QED BY <1>1, <1>3, <3>2, <3>3, <3>4
  <2> QED BY <2>1, <2>2 DEF Shape
<1>10. Accounted'
  <2> SUFFICES ASSUME NEW s \in dir_map', s # Root PROVE Named(s)' \/ removed'[s] \/ Made(s)'
    BY DEF Accounted, Root, Paths!Root
  <2>1. s \in dir_map /\ s \in Paths!Sectors /\ (removed[s] => cnt[s] # 0)
    BY <1>1, <1>6
  <2>2. Named(s) \/ removed[s] \/ Made(s)
    BY <2>1 DEF TreeInv, Global, Accounted
  <2>3. removed[s] => removed'[s]
    <3>1. removed'[s] <=> removed[s] /\ cnt[s] > 0
      BY <1>1, <2>1
    <3> QED BY <1>2, <2>1, <3>1
  <2> QED BY <1>4, <1>5, <2>1, <2>2, <2>3
<1>11. NewOnes'
  <2> SUFFICES ASSUME NEW p \in Procs, Makes(p)
               PROVE  /\ sector[p] \in dir_map' \ {Root} /\ cnt[sector[p]] = 0 /\ ~ Named(sector[p])'
                      /\ dir_entry[sector[p]] = Paths!NoEntries
                      /\ \A q \in Procs : Makes(q) /\ sector[q] = sector[p] => q = p
    BY <1>1 DEF NewOnes, Root, Paths!Root, Named
  <2>1. /\ sector[p] \in dir_map \ {Root} /\ open_cnt[sector[p]] = 0 /\ ~ Named(sector[p])
        /\ dir_entry[sector[p]] = Paths!NoEntries
        /\ \A q \in Procs : Makes(q) /\ sector[q] = sector[p] => q = p
    BY DEF TreeInv, Global, NewOnes
  <2>2. sector[p] \in Paths!Sectors /\ Made(sector[p])
    BY <2>1, SectorsTyped DEF Made
  <2>3. ~ removed[sector[p]]
    BY <2>1, <2>2 DEF TreeInv, Global, RemovedFiles
  <2>4. cnt[sector[p]] = 0
    BY <1>2, <2>1, <2>2
  <2> QED BY <1>1, <1>4, <2>1, <2>2, <2>3, <2>4
<1>12. Reach'
  <2> SUFFICES ASSUME NEW s \in dir_map', isdir[s], ~ Made(s)' PROVE s \in Paths!Below'
    BY DEF Reach
  <2>1. s \in Paths!Below
    BY <1>5, <1>6 DEF TreeInv, Global, Reach
  <2> QED BY <1>3, <2>1, BelowGrows DEF TreeInv
<1> QED BY <1>7, <1>8, <1>9, <1>10, <1>11, <1>12 DEF Global

\* Nothing is opened or closed.
LEMMA NothingOpened ==
  ASSUME TreeInv, UNCHANGED <<open_cnt, removed, dir_map>>
  PROVE  Paths!Inodes(open_cnt, removed)
<1>1. \A s \in Paths!Sectors : open_cnt[s] \in Nat /\ (removed[s] => open_cnt[s] > 0)
  BY SectorsTyped DEF TreeInv, Global, RemovedFiles
<1>2. removed = [s \in Paths!Sectors |-> removed[s] /\ open_cnt[s] > 0]
  BY <1>1, SectorsTyped
<1>3. {s \in Paths!Sectors : removed[s] /\ open_cnt[s] = 0} = {}
  BY <1>1
<1> QED BY <1>2, <1>3 DEF Paths!Inodes

-----------------------------------------------------------------------------
\* The sector that a process is about to erase.
Erasing(p) == IF pc[p] = "erase" THEN sector[p] ELSE None

LEMMA ReferencesNext ==
  ASSUME NEW s \in Paths!Sectors
  PROVE  Paths!References(s)'
           = Uses(cwd', Procs, s) + Uses(dir', Procs, s) + Uses(Opens', Procs \X DirHandles, s)
               + Uses(Erases', Procs, s)
<1>1. {p \in Procs : pc'[p] = "erase" /\ sector'[p] = s} = {p \in Procs : Erases'[p] = s}
  BY PathsConstants DEF Erases
<1>2. {x \in Procs \X DirHandles : fds'[x[1]][x[2]] = s} = {x \in Procs \X DirHandles : Opens'[x] = s}
  BY DEF Opens
<1>3. \A T : Paths!Cardinality(T) = Cardinality(T)
  BY DEF Paths!Cardinality, Cardinality
<1> QED BY <1>1, <1>2, <1>3 DEF Paths!References, Uses

\* How the references to an inode change when one process moves on: from v to w
\* is the change of one of its descriptors, if one changes.
LEMMA ReferencesMove ==
  ASSUME NEW p \in Procs, NEW v, NEW w, NEW s \in Paths!Sectors,
         \A q \in Procs \ {p} : /\ cwd'[q] = cwd[q] /\ dir'[q] = dir[q]
                                /\ pc'[q] = pc[q] /\ sector'[q] = sector[q],
         \/ UNCHANGED fds /\ v = None /\ w = None
         \/ \E h \in DirHandles :
              /\ fds[p][h] = v /\ fds'[p][h] = w
              /\ \A q \in Procs, g \in DirHandles : <<q, g>> # <<p, h>> => fds'[q][g] = fds[q][g]
  PROVE  /\ Paths!References(s) \in Nat /\ Paths!References(s)' \in Nat
         /\ Paths!References(s)'
              = Paths!References(s) - One(cwd[p], s) + One(cwd'[p], s) - One(dir[p], s) + One(dir'[p], s)
                  - One(v, s) + One(w, s) - One(Erasing(p), s) + One(Erasing(p)', s)
<1> DEFINE D == Procs \X DirHandles
           c == Uses(cwd, Procs, s)
           d == Uses(dir, Procs, s)
           o == Uses(Opens, D, s)
           e == Uses(Erases, Procs, s)
           cc == Uses(cwd', Procs, s)
           dd == Uses(dir', Procs, s)
           oo == Uses(Opens', D, s)
           ee == Uses(Erases', Procs, s)
<1>1. c \in Nat /\ d \in Nat /\ o \in Nat /\ e \in Nat
  BY UsesCount, ReferencesFinite
<1>2. cc \in Nat /\ dd \in Nat /\ oo \in Nat /\ ee \in Nat
  BY UsesCount, ReferencesFinite
<1>3. cc = c - One(cwd[p], s) + One(cwd'[p], s)
  BY UsesChange, ReferencesFinite
<1>4. dd = d - One(dir[p], s) + One(dir'[p], s)
  BY UsesChange, ReferencesFinite
<1>5. ee = e - One(Erasing(p), s) + One(Erasing(p)', s)
  <2>1. \A q \in Procs \ {p} : Erases'[q] = Erases[q]
    BY DEF Erases
  <2>2. Erases[p] = Erasing(p) /\ Erases'[p] = Erasing(p)'
    BY DEF Erases, Erasing
  <2>3. ee = e - One(Erases[p], s) + One(Erases'[p], s)
    BY ONLY <2>1, UsesChange, ReferencesFinite, p \in Procs
  <2> QED BY <2>2, <2>3
<1>6. oo = o - One(v, s) + One(w, s)
  <2>1. CASE UNCHANGED fds /\ v = None /\ w = None
    <3>1. oo = o
      BY <2>1 DEF Opens
    <3>2. One(v, s) = 0 /\ One(w, s) = 0
      BY <2>1, PathsConstants DEF One
    <3> HIDE DEF oo, o
    <3> QED BY <1>1, <3>1, <3>2
  <2>2. CASE \E h \in DirHandles :
               /\ fds[p][h] = v /\ fds'[p][h] = w
               /\ \A q \in Procs, g \in DirHandles : <<q, g>> # <<p, h>> => fds'[q][g] = fds[q][g]
    <3>1. PICK h \in DirHandles :
            /\ fds[p][h] = v /\ fds'[p][h] = w
            /\ \A q \in Procs, g \in DirHandles : <<q, g>> # <<p, h>> => fds'[q][g] = fds[q][g]
      BY <2>2
    <3>2. <<p, h>> \in D /\ Opens[<<p, h>>] = v /\ Opens'[<<p, h>>] = w
      BY <3>1 DEF Opens
    <3>3. \A x \in D \ {<<p, h>>} : Opens'[x] = Opens[x]
      BY <3>1 DEF Opens
    <3>4. oo = o - One(Opens[<<p, h>>], s) + One(Opens'[<<p, h>>], s)
      BY <3>2, <3>3, UsesChange, ReferencesFinite
    <3> QED BY <3>2, <3>4
  <2> QED BY <2>1, <2>2
<1>7. /\ One(cwd[p], s) \in {0, 1} /\ One(cwd'[p], s) \in {0, 1}
      /\ One(dir[p], s) \in {0, 1} /\ One(dir'[p], s) \in {0, 1}
      /\ One(v, s) \in {0, 1} /\ One(w, s) \in {0, 1}
      /\ One(Erasing(p), s) \in {0, 1} /\ One(Erasing(p)', s) \in {0, 1}
  BY DEF One
<1>8. Paths!References(s) = c + d + o + e /\ Paths!References(s)' = cc + dd + oo + ee
  BY ReferencesAre, ReferencesNext
<1> HIDE DEF c, d, o, e, cc, dd, oo, ee
<1>9. Paths!References(s) \in Nat /\ Paths!References(s)' \in Nat
  BY ONLY <1>1, <1>2, <1>8
<1>10. cc + dd + oo + ee
         = (c + d + o + e) - One(cwd[p], s) + One(cwd'[p], s) - One(dir[p], s) + One(dir'[p], s)
             - One(v, s) + One(w, s) - One(Erasing(p), s) + One(Erasing(p)', s)
  BY ONLY <1>1, <1>3, <1>4, <1>5, <1>6, <1>7
<1> QED BY <1>8, <1>9, <1>10

LEMMA OpenedIs ==
  ASSUME NEW cnt \in [Paths!Sectors -> Nat], NEW t \in Paths!Sectors \cup {None}
  PROVE  /\ Paths!Opened(cnt, t) \in [Paths!Sectors -> Nat]
         /\ \A s \in Paths!Sectors : Paths!Opened(cnt, t)[s] = cnt[s] + One(t, s)
<1>1. CASE t = None
  <2>1. Paths!Opened(cnt, t) = cnt
    BY <1>1 DEF Paths!Opened
  <2>2. ASSUME NEW s \in Paths!Sectors PROVE cnt[s] = cnt[s] + One(t, s)
    <3>1. One(t, s) = 0
      BY <1>1, PathsConstants DEF One
    <3>2. cnt[s] \in Nat
      OBVIOUS
    <3> QED BY <3>1, <3>2
  <2> QED BY <2>1, <2>2
<1>2. CASE t # None
  <2>1. Paths!Opened(cnt, t) = [cnt EXCEPT ![t] = @ + 1]
    BY <1>2 DEF Paths!Opened
  <2>2. t \in Paths!Sectors /\ cnt[t] \in Nat
    BY <1>2
  <2>3. Paths!Opened(cnt, t) \in [Paths!Sectors -> Nat]
    BY <2>1, <2>2
  <2>4. ASSUME NEW s \in Paths!Sectors PROVE Paths!Opened(cnt, t)[s] = cnt[s] + One(t, s)
    <3>1. cnt[s] \in Nat
      OBVIOUS
    <3>2. CASE s = t
      BY <2>1, <2>2, <3>1, <3>2 DEF One
    <3>3. CASE s # t
      BY <2>1, <2>2, <3>1, <3>3 DEF One
    <3> QED BY <3>2, <3>3
  <2> QED BY <2>3, <2>4
<1> QED BY <1>1, <1>2

LEMMA ClosedIs ==
  ASSUME NEW cnt \in [Paths!Sectors -> Nat], NEW t \in Paths!Sectors \cup {None},
         t \in Paths!Sectors => cnt[t] > 0
  PROVE  /\ Paths!Closed(cnt, t) \in [Paths!Sectors -> Nat]
         /\ \A s \in Paths!Sectors : Paths!Closed(cnt, t)[s] = cnt[s] - One(t, s)
<1>1. CASE t = None
  <2>1. Paths!Closed(cnt, t) = cnt
    BY <1>1 DEF Paths!Closed
  <2>2. ASSUME NEW s \in Paths!Sectors PROVE cnt[s] = cnt[s] - One(t, s)
    <3>1. One(t, s) = 0
      BY <1>1, PathsConstants DEF One
    <3>2. cnt[s] \in Nat
      OBVIOUS
    <3> QED BY <3>1, <3>2
  <2> QED BY <2>1, <2>2
<1>2. CASE t # None
  <2>1. Paths!Closed(cnt, t) = [cnt EXCEPT ![t] = @ - 1]
    BY <1>2 DEF Paths!Closed
  <2>2. t \in Paths!Sectors /\ cnt[t] \in Nat /\ cnt[t] > 0
    BY <1>2
  <2>3. Paths!Closed(cnt, t) \in [Paths!Sectors -> Nat]
    BY <2>1, <2>2
  <2>4. ASSUME NEW s \in Paths!Sectors PROVE Paths!Closed(cnt, t)[s] = cnt[s] - One(t, s)
    <3>1. cnt[s] \in Nat
      OBVIOUS
    <3>2. CASE s = t
      BY <2>1, <2>2, <3>1, <3>2 DEF One
    <3>3. CASE s # t
      BY <2>1, <2>2, <3>1, <3>3 DEF One
    <3> QED BY <3>2, <3>3
  <2> QED BY <2>3, <2>4
<1> QED BY <1>1, <1>2

\* What the other processes rely on does not change.
LEMMA OtherPoints ==
  ASSUME TreeInv, NEW p \in Procs, UNCHANGED <<isdir, parent, dir_entry>>, dir_map' \subseteq dir_map,
         \A q \in Procs \ {p} : /\ cwd'[q] = cwd[q] /\ dir'[q] = dir[q]
                                /\ pc'[q] = pc[q] /\ sector'[q] = sector[q]
                                /\ call'[q] = call[q] /\ path'[q] = path[q],
         \A s \in Paths!Sectors : lock[s] \notin {None, p} => lock'[s] = lock[s],
         dir_lock \notin {None, p} => dir_lock' = dir_lock,
         broken = None,
         \A q \in Procs \ {p} :
           pc[q] = "erase" /\ isdir[sector[q]] => open_cnt'[sector[q]] = open_cnt[sector[q]]
  PROVE  \A q \in Procs \ {p} : Point(q)'
<1> SUFFICES ASSUME NEW q \in Procs \ {p} PROVE Point(q)'
  OBVIOUS
<1>1. Point(q)
  BY DEF TreeInv, Points
<1>2. q # None
  BY PathsConstants
<1>3. pc[q] \in {"write", "erase"} => dir[q] \in Paths!Sectors
  BY <1>1 DEF Point
<1> QED BY <1>1, <1>2, <1>3 DEF Point

-----------------------------------------------------------------------------
LEMMA InodesTyped ==
  ASSUME TreeInv, NEW cnt \in [Paths!Sectors -> Nat], Paths!Inodes(cnt, removed)
  PROVE  /\ dir_map' \subseteq dir_map /\ dir_map' \subseteq Paths!Sectors /\ Root \in dir_map'
         /\ open_cnt' = cnt /\ removed' \in [Paths!Sectors -> BOOLEAN]
<1>1. ~ removed[Root]
  BY SectorsTyped, PathsConstants DEF TreeInv, Global, RemovedFiles
<1> QED BY <1>1, SectorsTyped, PathsConstants DEF Paths!Inodes

\* The types in the next state, where names and sectors are as before.
LEMMA TypesKept ==
  ASSUME TreeInv, \E cnt \in [Paths!Sectors -> Nat] : Paths!Inodes(cnt, removed),
         UNCHANGED <<isdir, parent, dir_entry>>,
         lock' \in [Paths!Sectors -> Procs \cup {None}],
         cwd' \in [Procs -> Paths!Sectors \cup {None}], dir' \in [Procs -> Paths!Sectors \cup {None}],
         fds' \in [Procs -> [DirHandles -> Paths!Sectors \cup {None}]],
         leaked' \in [Paths!Sectors -> Nat],
         DOMAIN pc' = Procs, DOMAIN call' = Procs, DOMAIN path' = Procs,
         sector' \in [Procs -> Paths!Sectors \cup {None}]
  PROVE  DirTypes'
<1>1. /\ dir_map' \subseteq Paths!Sectors /\ Root \in dir_map'
      /\ open_cnt' \in [Paths!Sectors -> Nat] /\ removed' \in [Paths!Sectors -> BOOLEAN]
  BY InodesTyped
<1> QED BY <1>1, SectorsTyped DEF DirTypes, Paths!TypeOK, Root, Paths!Root

LEMMA OneIs == \A x, s : One(x, s) \in {0, 1} /\ (One(x, s) = 1 <=> x = s) /\ (One(x, s) = 0 <=> x # s)
BY DEF One

LEMMA NoneIsNo == \A s \in Paths!Sectors : One(None, s) = 0
<1> SUFFICES ASSUME NEW s \in Paths!Sectors PROVE One(None, s) = 0
  OBVIOUS
<1>1. None # s
  BY PathsConstants
<1> QED BY <1>1, OneIs

\* In a step of p, the other processes stay as they are.
OthersRest(p) ==
  \A q \in Procs \ {p} : /\ cwd'[q] = cwd[q] /\ dir'[q] = dir[q]
                         /\ pc'[q] = pc[q] /\ sector'[q] = sector[q]
                         /\ call'[q] = call[q] /\ path'[q] = path[q]

\* A descriptor of p goes from v to w, or none changes.
DescriptorMoves(p, v, w) ==
  \/ UNCHANGED fds /\ v = None /\ w = None
  \/ \E h \in DirHandles :
       /\ fds[p][h] = v /\ fds'[p][h] = w
       /\ \A q \in Procs, g \in DirHandles : <<q, g>> # <<p, h>> => fds'[q][g] = fds[q][g]

\* What p opens, o, what it closes, c, and what it forgets to close, l, make up
\* for the references it gets and gives up.
Balanced(p, o, c, l, v, w) ==
  \A s \in Paths!Sectors :
    One(o, s) - One(c, s)
      = One(cwd'[p], s) - One(cwd[p], s) + One(dir'[p], s) - One(dir[p], s)
          + One(w, s) - One(v, s) + One(Erasing(p)', s) - One(Erasing(p), s) + One(l, s)

\* The open counts after a step, and what is leaked.
CountsMove(cnt, o, c, l) ==
  /\ Paths!Inodes(cnt, removed)
  /\ \A s \in Paths!Sectors : cnt[s] = open_cnt[s] + One(o, s) - One(c, s)
  /\ \A s \in Paths!Sectors : leaked'[s] = leaked[s] + One(l, s)

Counts(o, c, l) == \E cnt \in [Paths!Sectors -> Nat] : CountsMove(cnt, o, c, l)

\* s is in use: the directory of a process, on its path, or one of its files.
InHands(s) ==
  \/ \E q \in Procs : cwd[q] = s \/ dir[q] = s
  \/ \E q \in Procs, h \in DirHandles : fds[q][h] = s

\* The locks of others stay, and names and parents do.
LocksKept(p) ==
  /\ \A s \in Paths!Sectors : lock[s] \notin {None, p} => lock'[s] = lock[s]
  /\ dir_lock \notin {None, p} => dir_lock' = dir_lock

\* inode_open of o and inode_close of c.
LEMMA CountsClosed ==
  ASSUME TreeInv, NEW o \in Paths!Sectors \cup {None}, NEW c \in Paths!Sectors \cup {None},
         c # None => InHands(c),
         Paths!Inodes(Paths!Closed(Paths!Opened(open_cnt, o), c), removed), UNCHANGED leaked
  PROVE  Counts(o, c, None)
<1>1. PICK up \in [Paths!Sectors -> Nat] :
        /\ up = Paths!Opened(open_cnt, o)
        /\ \A s \in Paths!Sectors : up[s] = open_cnt[s] + One(o, s)
  <2>1. open_cnt \in [Paths!Sectors -> Nat]
    BY SectorsTyped
  <2> QED BY ONLY <2>1, OpenedIs, o \in Paths!Sectors \cup {None}
<1>2. c \in Paths!Sectors => up[c] > 0
  <2> SUFFICES ASSUME c \in Paths!Sectors PROVE up[c] > 0
    OBVIOUS
  <2>1. open_cnt[c] > 0
    BY UsedUsable, PathsConstants DEF InHands
  <2>2. open_cnt[c] \in Nat /\ One(o, c) \in {0, 1} /\ up[c] = open_cnt[c] + One(o, c)
    BY <1>1, SectorsTyped, OneIs
  <2> QED BY ONLY <2>1, <2>2
<1>3. PICK cnt \in [Paths!Sectors -> Nat] :
        /\ cnt = Paths!Closed(up, c)
        /\ \A s \in Paths!Sectors : cnt[s] = up[s] - One(c, s)
  BY <1>2, ClosedIs
<1>4. ASSUME NEW s \in Paths!Sectors
      PROVE  cnt[s] = open_cnt[s] + One(o, s) - One(c, s) /\ leaked'[s] = leaked[s] + One(None, s)
  <2>1. /\ cnt[s] = up[s] - One(c, s) /\ up[s] = open_cnt[s] + One(o, s) /\ leaked'[s] = leaked[s]
        /\ open_cnt[s] \in Nat /\ leaked[s] \in Nat /\ One(None, s) = 0
        /\ One(o, s) \in {0, 1} /\ One(c, s) \in {0, 1}
    BY <1>1, <1>3, SectorsTyped, NoneIsNo, OneIs
  <2> QED BY ONLY <2>1
<1> QED BY <1>1, <1>3, <1>4 DEF Counts, CountsMove

LEMMA CountsOpened ==
  ASSUME TreeInv, NEW o \in Paths!Sectors \cup {None},
         Paths!Inodes(Paths!Opened(open_cnt, o), removed), UNCHANGED leaked
  PROVE  Counts(o, None, None)
<1>1. Paths!Closed(Paths!Opened(open_cnt, o), None) = Paths!Opened(open_cnt, o)
  BY DEF Paths!Closed
<1> QED BY <1>1, CountsClosed

\* Nothing is opened or closed, and the reference to l is lost.
LEMMA CountsLeaked ==
  ASSUME TreeInv, NEW l \in Paths!Sectors \cup {None}, Paths!Leak(l),
         UNCHANGED <<open_cnt, removed, dir_map>>
  PROVE  Counts(None, None, l) /\ leaked' \in [Paths!Sectors -> Nat]
<1>1. open_cnt \in [Paths!Sectors -> Nat] /\ leaked \in [Paths!Sectors -> Nat]
  BY SectorsTyped
<1>2. leaked' \in [Paths!Sectors -> Nat] /\ \A s \in Paths!Sectors : leaked'[s] = leaked[s] + One(l, s)
  <2>1. CASE l = None
    <3>1. leaked' = leaked
      BY <2>1 DEF Paths!Leak
    <3>2. ASSUME NEW s \in Paths!Sectors PROVE leaked[s] = leaked[s] + One(l, s)
      <4>1. One(l, s) = 0 /\ leaked[s] \in Nat
        BY <1>1, <2>1, NoneIsNo
      <4> QED BY ONLY <4>1
    <3> QED BY <1>1, <3>1, <3>2
  <2>2. CASE l # None
    <3>1. leaked' = [leaked EXCEPT ![l] = @ + 1]
      BY <2>2 DEF Paths!Leak
    <3> QED BY <1>1, <2>2, <3>1 DEF One
  <2> QED BY <2>1, <2>2
<1>3. ASSUME NEW s \in Paths!Sectors PROVE open_cnt[s] = open_cnt[s] + One(None, s) - One(None, s)
  <2>1. open_cnt[s] \in Nat /\ One(None, s) = 0
    BY <1>1, NoneIsNo
  <2> QED BY ONLY <2>1
<1>4. Paths!Inodes(open_cnt, removed)
  BY NothingOpened
<1> QED BY <1>1, <1>2, <1>3, <1>4 DEF Counts, CountsMove

LEMMA CountsStay ==
  ASSUME TreeInv, UNCHANGED <<open_cnt, removed, dir_map, leaked>>
  PROVE  Counts(None, None, None)
BY CountsLeaked DEF Paths!Leak

LEMMA CountsInodes ==
  ASSUME NEW o, NEW c, NEW l, Counts(o, c, l)
  PROVE  \E cnt \in [Paths!Sectors -> Nat] : Paths!Inodes(cnt, removed)
BY DEF Counts, CountsMove

LEMMA CountedMoves ==
  ASSUME TreeInv, NEW p \in Procs, NEW o, NEW c, NEW l, NEW v, NEW w,
         NEW cnt \in [Paths!Sectors -> Nat], CountsMove(cnt, o, c, l), Balanced(p, o, c, l, v, w),
         OthersRest(p), DescriptorMoves(p, v, w)
  PROVE  Counted'
<1>1. open_cnt' = cnt
  BY DEF CountsMove, Paths!Inodes
<1> SUFFICES ASSUME NEW s \in Paths!Sectors PROVE cnt[s] = Paths!References(s)' + leaked'[s]
  BY <1>1 DEF Counted
<1>2. /\ Paths!References(s) \in Nat /\ Paths!References(s)' \in Nat
      /\ Paths!References(s)'
           = Paths!References(s) - One(cwd[p], s) + One(cwd'[p], s) - One(dir[p], s) + One(dir'[p], s)
               - One(v, s) + One(w, s) - One(Erasing(p), s) + One(Erasing(p)', s)
  BY ReferencesMove DEF OthersRest, DescriptorMoves
<1>3. open_cnt[s] = Paths!References(s) + leaked[s] /\ leaked[s] \in Nat
  BY SectorsTyped DEF TreeInv, Counted
<1>4. /\ One(cwd[p], s) \in {0, 1} /\ One(cwd'[p], s) \in {0, 1}
      /\ One(dir[p], s) \in {0, 1} /\ One(dir'[p], s) \in {0, 1}
      /\ One(v, s) \in {0, 1} /\ One(w, s) \in {0, 1}
      /\ One(Erasing(p), s) \in {0, 1} /\ One(Erasing(p)', s) \in {0, 1}
      /\ One(o, s) \in {0, 1} /\ One(c, s) \in {0, 1} /\ One(l, s) \in {0, 1}
  BY ONLY OneIs
<1>5. cnt[s] = open_cnt[s] + One(o, s) - One(c, s) /\ leaked'[s] = leaked[s] + One(l, s)
  BY DEF CountsMove
<1>6. One(o, s) - One(c, s)
        = One(cwd'[p], s) - One(cwd[p], s) + One(dir'[p], s) - One(dir[p], s)
            + One(w, s) - One(v, s) + One(Erasing(p)', s) - One(Erasing(p), s) + One(l, s)
  BY DEF Balanced
<1> QED BY ONLY <1>2, <1>3, <1>4, <1>5, <1>6

\* One process moves on, and no name changes.
LEMMA MoveKeeps ==
  ASSUME TreeInv, DirTypes', broken = None, NEW p \in Procs,
         NEW o \in Paths!Sectors \cup {None}, NEW c \in Paths!Sectors \cup {None}, NEW l, NEW v, NEW w,
         Counts(o, c, l), Balanced(p, o, c, l, v, w), OthersRest(p), DescriptorMoves(p, v, w),
         o # None => Usable(o), c # None => InHands(c),
         UNCHANGED <<isdir, parent, dir_entry>>, LocksKept(p),
         ~ Makes(p), ~ Makes(p)', broken' # "sector twice", Point(p)'
  PROVE  TreeInv'
<1>0. PICK cnt \in [Paths!Sectors -> Nat] : CountsMove(cnt, o, c, l)
  BY DEF Counts
<1>1. Paths!Inodes(cnt, removed) /\ open_cnt' = cnt /\ dir_map' \subseteq dir_map
  BY <1>0, InodesTyped DEF CountsMove
<1>2. ASSUME NEW s \in Paths!Sectors
      PROVE  /\ cnt[s] \in Nat /\ open_cnt[s] \in Nat
             /\ cnt[s] = open_cnt[s] + One(o, s) - One(c, s)
             /\ One(o, s) \in {0, 1} /\ (One(o, s) = 1 <=> o = s) /\ (One(o, s) = 0 <=> o # s)
             /\ One(c, s) \in {0, 1} /\ (One(c, s) = 1 <=> c = s) /\ (One(c, s) = 0 <=> c # s)
  <2>1. cnt[s] \in Nat /\ open_cnt[s] \in Nat /\ cnt[s] = open_cnt[s] + One(o, s) - One(c, s)
    BY <1>0, SectorsTyped DEF CountsMove
  <2> QED BY ONLY <2>1, OneIs
<1>3. Counted'
  BY <1>0, CountedMoves
<1>4. ASSUME NEW s \in Paths!Sectors, cnt[s] > open_cnt[s] PROVE s \in dir_map /\ ~ Made(s)
  <2>1. o = s
    BY ONLY <1>2, <1>4
  <2> QED BY <2>1, PathsConstants DEF Usable
<1>5. \A q \in Procs : /\ Makes(q)' <=> Makes(q)
                       /\ Makes(q) => sector'[q] = sector[q]
  BY DEF Makes, OthersRest
<1>6. Global'
  BY <1>1, <1>4, <1>5, OpeningKeeps
<1>7. ASSUME NEW q \in Procs \ {p}, pc[q] = "erase", isdir[sector[q]]
      PROVE  open_cnt'[sector[q]] = open_cnt[sector[q]]
  <2>1. PICK s \in Paths!Sectors : s = sector[q]
    BY <1>7 DEF TreeInv, Points, Point
  <2>2. ~ Usable(s)
    BY <1>7, <2>1 DEF Usable
  <2>3. o # s
    BY <2>2, PathsConstants
  <2>4. c # s
    BY <2>2, UsedUsable, PathsConstants DEF InHands
  <2>5. cnt[s] = open_cnt[s]
    BY ONLY <1>2, <2>3, <2>4
  <2> QED BY <1>1, <2>1, <2>5
<1>8. \A q \in Procs \ {p} : Point(q)'
  BY <1>1, <1>7, OtherPoints DEF OthersRest, LocksKept
<1>9. Paths!FilesGuarded'
  BY DEF Paths!FilesGuarded
<1> QED BY <1>3, <1>6, <1>8, <1>9 DEF TreeInv, Points

-----------------------------------------------------------------------------
\* One lemma for each action that opens and closes inodes.

\* get_containing_dir opens the root or the process's own directory.
LEMMA CallKeeps ==
  ASSUME TreeInv, NEW p \in Procs, NEW k \in {"create", "mkdir", "open", "remove", "chdir"}, NEW pa,
         Paths!Call(p, k, pa)
  PROVE  TreeInv'
<1>1. PICK o \in Paths!Sectors : o = IF pa.abs \/ cwd[p] = None THEN Root ELSE cwd[p]
  BY SectorsTyped, PathsConstants
<1>2. /\ broken = None /\ pc[p] = "user"
      /\ (Paths!Serial(k) => dir_lock = None) /\ dir_lock' = IF Paths!Serial(k) THEN p ELSE dir_lock
      /\ call' = [call EXCEPT ![p] = k]
      /\ path' = [path EXCEPT ![p] = [walk |-> pa.walk, last |-> pa.last]]
      /\ dir' = [dir EXCEPT ![p] = o]
      /\ Paths!Inodes(Paths!Opened(open_cnt, o), removed)
      /\ pc' = [pc EXCEPT ![p] = "walk"]
      /\ broken' = IF isdir[o] THEN None ELSE "file as directory"
      /\ UNCHANGED <<isdir, parent, dir_entry, lock, cwd, fds, sector, leaked>>
  BY <1>1 DEF Paths!Call, Paths!At, Root
<1>3. Counts(o, None, None)
  BY <1>2, CountsOpened
<1>4. Usable(o)
  BY <1>1, <1>2, RootUsable, UsedUsable
<1>5. dir[p] = None
  BY <1>2 DEF TreeInv, Points, Point
<1>6. /\ DOMAIN pc' = Procs /\ DOMAIN call' = Procs /\ DOMAIN path' = Procs
      /\ dir' \in [Procs -> Paths!Sectors \cup {None}]
  BY <1>2, SectorsTyped DEF TreeInv, DirTypes
<1>7. DirTypes'
  BY <1>2, <1>3, <1>6, SectorsTyped, TypesKept, CountsInodes
<1>8. pc'[p] = "walk" /\ call'[p] = k /\ dir'[p] = o /\ OthersRest(p)
  BY <1>2, SectorsTyped DEF TreeInv, DirTypes, OthersRest
<1>9. Point(p)'
  <2>1. broken' = None => isdir[o]
    BY <1>2, PathsConstants
  <2>2. k = "create" => dir_lock' = p
    BY <1>2 DEF Paths!Serial
  <2> QED BY <1>2, <1>8, <2>1, <2>2 DEF Point
<1>11. Balanced(p, o, None, None, None, None)
  <2>1. Erasing(p) = None /\ Erasing(p)' = None /\ cwd'[p] = cwd[p]
    BY <1>2, <1>8 DEF Erasing
  <2>2. ASSUME NEW s \in Paths!Sectors
        PROVE  One(o, s) - One(None, s)
                 = One(cwd[p], s) - One(cwd[p], s) + One(o, s) - One(None, s)
                     + One(None, s) - One(None, s) + One(None, s) - One(None, s) + One(None, s)
    <3>1. One(None, s) = 0 /\ One(o, s) \in {0, 1} /\ One(cwd[p], s) \in {0, 1}
      BY NoneIsNo, OneIs
    <3> QED BY ONLY <3>1
  <2> QED BY <1>5, <1>8, <2>1, <2>2 DEF Balanced
<1>12. ~ Makes(p) /\ ~ Makes(p)' /\ broken' # "sector twice"
  <2>1. None # "sector twice"
    BY PathsConstants
  <2> QED BY <1>2, <1>8, <2>1 DEF Makes
<1>13. LocksKept(p) /\ DescriptorMoves(p, None, None)
  BY <1>2 DEF LocksKept, DescriptorMoves
<1> QED BY <1>2, <1>3, <1>4, <1>7, <1>8, <1>9, <1>11, <1>12, <1>13, MoveKeeps

-----------------------------------------------------------------------------
\* The system call of p is over but for its dir_close.
LEMMA EndsAt ==
  ASSUME TreeInv, NEW p \in Procs, Paths!Ends(p)
  PROVE  /\ DOMAIN pc' = Procs /\ DOMAIN call' = Procs /\ DOMAIN path' = Procs
         /\ pc'[p] = "close" /\ ~ Makes(p)' /\ Erasing(p)' = None
         /\ \A q \in Procs \ {p} : pc'[q] = pc[q] /\ call'[q] = call[q] /\ path'[q] = path[q]
         /\ Point(p)'
<1>1. /\ DOMAIN pc' = Procs /\ DOMAIN call' = Procs /\ DOMAIN path' = Procs
      /\ pc'[p] = "close" /\ call'[p] = None
      /\ \A q \in Procs \ {p} : pc'[q] = pc[q] /\ call'[q] = call[q] /\ path'[q] = path[q]
  BY DEF TreeInv, DirTypes, Paths!Ends
<1>2. Point(p)'
  BY <1>1, PathsConstants DEF Point
<1> QED BY <1>1, <1>2 DEF Makes, Erasing

\* The same, of a step to a program point in the same call.
LEMMA GoesTo ==
  ASSUME TreeInv, NEW p \in Procs, NEW at, Paths!Goto(p, at)
  PROVE  /\ DOMAIN pc' = Procs /\ DOMAIN call' = Procs /\ DOMAIN path' = Procs
         /\ pc'[p] = at /\ call' = call /\ path' = path
         /\ \A q \in Procs \ {p} : pc'[q] = pc[q] /\ call'[q] = call[q] /\ path'[q] = path[q]
BY DEF TreeInv, DirTypes, Paths!Goto

\* The next directory on the way can be opened.
LEMMA NextUsable ==
  ASSUME TreeInv, broken = None, NEW p \in Procs, pc[p] = "walk", NEW token,
         token = ".." \/ Paths!DirFree(p),
         NEW t, t = IF token = ".." THEN parent[dir[p]] ELSE Paths!Found(p, token)
  PROVE  t \in Paths!Sectors \cup {None} /\ (t # None => Usable(t))
<1>1. dir[p] \in Paths!Sectors /\ isdir[dir[p]]
  BY DEF TreeInv, Points, Point
<1>2. CASE token = ".."
  BY <1>1, <1>2, ParentUsable, SectorsTyped
<1>3. CASE token # ".." /\ token \in DirNames
  <2>1. t = dir_entry[dir[p]][token] /\ lock[dir[p]] = None /\ t \in Paths!Sectors \cup {None}
    BY <1>1, <1>3, SectorsTyped DEF Paths!Found, Paths!DirFree
  <2>2. dir[p] \in dir_map
    BY <1>1, UsedUsable DEF Usable
  <2>3. t # None => Usable(t)
    BY <1>1, <1>3, <2>1, <2>2, EntryUsable DEF Edge
  <2> QED BY <2>1, <2>3
<1>4. CASE token # ".." /\ token \notin DirNames
  BY <1>4 DEF Paths!Found
<1> QED BY <1>2, <1>3, <1>4

\* p goes on and opens, closes and forgets nothing.
LEMMA BalancedSame ==
  ASSUME NEW p \in Procs, cwd'[p] = cwd[p], dir'[p] = dir[p], Erasing(p)' = Erasing(p)
  PROVE  Balanced(p, None, None, None, None, None)
<1>1. ASSUME NEW s \in Paths!Sectors
      PROVE  One(None, s) - One(None, s)
               = One(cwd[p], s) - One(cwd[p], s) + One(dir[p], s) - One(dir[p], s)
                   + One(None, s) - One(None, s) + One(Erasing(p), s) - One(Erasing(p), s) + One(None, s)
  <2>1. /\ One(None, s) = 0 /\ One(cwd[p], s) \in {0, 1} /\ One(dir[p], s) \in {0, 1}
        /\ One(Erasing(p), s) \in {0, 1}
    BY NoneIsNo, OneIs
  <2> QED BY ONLY <2>1
<1> QED BY <1>1 DEF Balanced

\* p goes on in its call, or ends it, and nothing else changes.
LEMMA StepKeeps ==
  ASSUME TreeInv, DirTypes', broken = None, broken' # "sector twice", NEW p \in Procs,
         cwd' = cwd, dir' = dir, fds' = fds, lock' = lock, dir_lock' = dir_lock,
         UNCHANGED <<isdir, parent, dir_entry, open_cnt, removed, dir_map, leaked>>,
         \A q \in Procs \ {p} : /\ pc'[q] = pc[q] /\ call'[q] = call[q] /\ path'[q] = path[q]
                                /\ sector'[q] = sector[q],
         Erasing(p) = None, Erasing(p)' = None, ~ Makes(p), ~ Makes(p)', Point(p)'
  PROVE  TreeInv'
<1>1. Counts(None, None, None)
  BY CountsStay
<1>2. Balanced(p, None, None, None, None, None)
  BY BalancedSame
<1>3. OthersRest(p) /\ DescriptorMoves(p, None, None) /\ LocksKept(p)
  BY DEF OthersRest, DescriptorMoves, LocksKept
<1> QED BY <1>1, <1>2, <1>3, MoveKeeps

LEMMA ScanKeeps ==
  ASSUME TreeInv, NEW p \in Procs, Paths!Scan(p)
  PROVE  TreeInv'
<1>1. /\ broken = None /\ broken' = None /\ pc[p] = "walk" /\ call[p] \in {"create", "mkdir"}
      /\ UNCHANGED <<dir_map, isdir, parent, dir_entry, open_cnt, removed, lock, cwd, fds, dir, dir_lock, leaked>>
  BY DEF Paths!Scan, Paths!AtLast, Paths!At, Paths!Keep, Paths!disk, Paths!inodes
<1>2. ~ Makes(p) /\ Erasing(p) = None /\ None # "sector twice"
  BY <1>1, PathsConstants DEF Makes, Erasing
<1>3. Counts(None, None, None)
  BY <1>1, CountsStay
<1>4. CASE Paths!Ends(p) /\ UNCHANGED sector
  <2>1. DirTypes'
    BY <1>1, <1>3, <1>4, EndsAt, SectorsTyped, TypesKept, CountsInodes
  <2> QED BY <1>1, <1>2, <1>4, <2>1, EndsAt, StepKeeps
<1>5. CASE /\ \E s \in Paths!Sectors \ dir_map : sector' = [sector EXCEPT ![p] = s]
           /\ Paths!Goto(p, "flip")
  <2>1. PICK s \in Paths!Sectors \ dir_map : sector' = [sector EXCEPT ![p] = s]
    BY <1>5
  <2>2. /\ sector' \in [Procs -> Paths!Sectors \cup {None}] /\ sector'[p] = s
        /\ \A q \in Procs \ {p} : sector'[q] = sector[q]
    BY <2>1, SectorsTyped
  <2>3. DirTypes'
    BY <1>1, <1>3, <1>5, <2>2, GoesTo, SectorsTyped, TypesKept, CountsInodes
  <2>4. pc'[p] = "flip" /\ call'[p] = call[p]
    BY <1>5, GoesTo
  <2>5. /\ dir[p] \in Paths!Sectors /\ isdir[dir[p]]
        /\ call[p] = "create" => dir_lock = p
    BY <1>1 DEF TreeInv, Points, Point
  <2>6. Point(p)'
    BY <1>1, <2>1, <2>2, <2>4, <2>5 DEF Point
  <2>7. ~ Makes(p)' /\ Erasing(p)' = None
    BY <2>4 DEF Makes, Erasing
  <2> QED BY <1>1, <1>2, <1>5, <2>2, <2>3, <2>6, <2>7, GoesTo, StepKeeps
<1> QED BY <1>4, <1>5 DEF Paths!Scan

-----------------------------------------------------------------------------
\* What p has in hand, or None.
LEMMA InHand ==
  ASSUME TreeInv, NEW p \in Procs
  PROVE  /\ cwd[p] # None => InHands(cwd[p]) /\ Usable(cwd[p])
         /\ dir[p] # None => InHands(dir[p]) /\ Usable(dir[p])
         /\ \A h \in DirHandles : fds[p][h] # None => InHands(fds[p][h]) /\ Usable(fds[p][h])
<1>1. /\ cwd[p] \in Paths!Sectors \cup {None} /\ dir[p] \in Paths!Sectors \cup {None}
      /\ \A h \in DirHandles : fds[p][h] \in Paths!Sectors \cup {None}
  BY SectorsTyped
<1> QED BY <1>1, UsedUsable DEF InHands

LEMMA WalkKeeps ==
  ASSUME TreeInv, NEW p \in Procs, Paths!Walk(p)
  PROVE  TreeInv'
<1> DEFINE token == Head(path[p].walk)
<1>1. PICK t : t = IF token = ".." THEN parent[dir[p]] ELSE Paths!Found(p, token)
  OBVIOUS
<1>2. /\ broken = None /\ broken' = None /\ pc[p] = "walk"
      /\ UNCHANGED <<isdir, parent, dir_entry, cwd, fds, sector>>
  BY DEF Paths!Walk, Paths!At, Paths!Keep
<1>3. ~ Makes(p) /\ Erasing(p) = None /\ None # "sector twice"
  BY <1>2, PathsConstants DEF Makes, Erasing
<1>4. /\ dir[p] \in Paths!Sectors /\ isdir[dir[p]]
      /\ call[p] = "create" => dir_lock = p
  BY <1>2 DEF TreeInv, Points, Point
<1>5. ASSUME Paths!Onward(p)
      PROVE  /\ DOMAIN pc' = Procs /\ DOMAIN call' = Procs /\ DOMAIN path' = Procs
             /\ pc' = pc /\ call' = call /\ \A q \in Procs \ {p} : path'[q] = path[q]
             /\ ~ Makes(p)' /\ Erasing(p)' = None
  <2>1. path' = [path EXCEPT ![p].walk = Tail(@)] /\ pc' = pc /\ call' = call
    BY <1>5 DEF Paths!Onward
  <2>2. pc'[p] = "walk"
    BY <1>2, <2>1
  <2> QED BY <2>1, <2>2 DEF TreeInv, DirTypes, Makes, Erasing
<1>6. CASE Paths!Onward(p) /\ UNCHANGED <<dir, open_cnt, removed, dir_map, lock, dir_lock, leaked>>
  <2>1. DirTypes'
    BY <1>2, <1>5, <1>6, CountsStay, SectorsTyped, TypesKept, CountsInodes
  <2>2. Point(p)'
    BY <1>2, <1>4, <1>5, <1>6 DEF Point
  <2> QED BY <1>2, <1>3, <1>5, <1>6, <2>1, <2>2, StepKeeps
<1>7. CASE /\ Paths!Leak(dir[p]) /\ dir' = [dir EXCEPT ![p] = None] /\ Paths!Ends(p)
           /\ UNCHANGED <<open_cnt, removed, lock, dir_map, dir_lock>>
  <2>1. Counts(None, None, dir[p]) /\ leaked' \in [Paths!Sectors -> Nat]
    BY <1>4, <1>7, CountsLeaked
  <2>2. dir' \in [Procs -> Paths!Sectors \cup {None}] /\ dir'[p] = None /\ \A q \in Procs \ {p} : dir'[q] = dir[q]
    BY <1>7, SectorsTyped
  <2>3. DirTypes'
    BY <1>2, <1>7, <2>1, <2>2, EndsAt, SectorsTyped, TypesKept, CountsInodes
  <2>4. Balanced(p, None, None, dir[p], None, None)
    <3>1. cwd'[p] = cwd[p] /\ Erasing(p)' = None
      BY <1>2, <1>7, EndsAt
    <3>2. ASSUME NEW s \in Paths!Sectors
          PROVE  One(None, s) - One(None, s)
                   = One(cwd[p], s) - One(cwd[p], s) + One(None, s) - One(dir[p], s)
                       + One(None, s) - One(None, s) + One(None, s) - One(None, s) + One(dir[p], s)
      <4>1. One(None, s) = 0 /\ One(dir[p], s) \in {0, 1} /\ One(cwd[p], s) \in {0, 1}
        BY NoneIsNo, OneIs
      <4> QED BY ONLY <4>1
    <3> QED BY <1>3, <2>2, <3>1, <3>2 DEF Balanced
  <2>5. OthersRest(p) /\ DescriptorMoves(p, None, None) /\ LocksKept(p)
    BY <1>2, <1>7, <2>2, EndsAt DEF OthersRest, DescriptorMoves, LocksKept
  <2> QED BY <1>2, <1>3, <1>7, <2>1, <2>3, <2>4, <2>5, EndsAt, MoveKeeps
<1>8. CASE /\ token = ".." \/ Paths!DirFree(p)
           /\ Paths!Onward(p) /\ t # None /\ isdir[t] /\ dir' = [dir EXCEPT ![p] = t]
           /\ Paths!Inodes(Paths!Closed(Paths!Opened(open_cnt, t), dir[p]), removed)
           /\ UNCHANGED <<lock, dir_lock, leaked>>
  <2>1. t \in Paths!Sectors /\ Usable(t)
    BY <1>1, <1>2, <1>8, NextUsable
  <2>2. dir[p] # None => InHands(dir[p])
    BY InHand
  <2>3. Counts(t, dir[p], None)
    BY <1>4, <1>8, <2>1, <2>2, CountsClosed
  <2>4. dir' \in [Procs -> Paths!Sectors \cup {None}] /\ dir'[p] = t /\ \A q \in Procs \ {p} : dir'[q] = dir[q]
    BY <1>8, <2>1, SectorsTyped
  <2>5. DirTypes'
    BY <1>2, <1>5, <1>8, <2>3, <2>4, SectorsTyped, TypesKept, CountsInodes
  <2>6. Balanced(p, t, dir[p], None, None, None)
    <3>1. cwd'[p] = cwd[p] /\ Erasing(p)' = None
      BY <1>2, <1>5, <1>8
    <3>2. ASSUME NEW s \in Paths!Sectors
          PROVE  One(t, s) - One(dir[p], s)
                   = One(cwd[p], s) - One(cwd[p], s) + One(t, s) - One(dir[p], s)
                       + One(None, s) - One(None, s) + One(None, s) - One(None, s) + One(None, s)
      <4>1. /\ One(None, s) = 0 /\ One(dir[p], s) \in {0, 1} /\ One(cwd[p], s) \in {0, 1}
            /\ One(t, s) \in {0, 1}
        BY NoneIsNo, OneIs
      <4> QED BY ONLY <4>1
    <3> QED BY <1>3, <2>4, <3>1, <3>2 DEF Balanced
  <2>7. OthersRest(p) /\ DescriptorMoves(p, None, None) /\ LocksKept(p)
    BY <1>2, <1>5, <1>8, <2>4 DEF OthersRest, DescriptorMoves, LocksKept
  <2>8. Point(p)'
    BY <1>2, <1>4, <1>5, <1>8, <2>1, <2>4 DEF Point
  <2> QED BY <1>2, <1>3, <1>4, <1>5, <1>8, <2>1, <2>2, <2>3, <2>5, <2>6, <2>7, <2>8, MoveKeeps
<1>9. \/ Paths!Onward(p) /\ UNCHANGED <<dir, open_cnt, removed, dir_map, lock, dir_lock, leaked>>
      \/ /\ Paths!Leak(dir[p]) /\ dir' = [dir EXCEPT ![p] = None] /\ Paths!Ends(p)
         /\ UNCHANGED <<open_cnt, removed, lock, dir_map, dir_lock>>
      \/ /\ token = ".." \/ Paths!DirFree(p)
         /\ Paths!Onward(p) /\ t # None /\ isdir[t] /\ dir' = [dir EXCEPT ![p] = t]
         /\ Paths!Inodes(Paths!Closed(Paths!Opened(open_cnt, t), dir[p]), removed)
         /\ UNCHANGED <<lock, dir_lock, leaked>>
  BY <1>1 DEF Paths!Walk, Paths!inodes
<1> QED BY <1>6, <1>7, <1>8, <1>9

-----------------------------------------------------------------------------
\* The last step of open: the descriptor h gets w.
LEMMA PathOpenKeeps ==
  ASSUME TreeInv, NEW p \in Procs, NEW h \in DirHandles, Paths!Open(p, h)
  PROVE  TreeInv'
<1>1. /\ broken = None /\ broken' = None /\ pc[p] = "walk" /\ fds[p][h] = None /\ Paths!Ends(p)
      /\ UNCHANGED <<isdir, parent, dir_entry, cwd, sector, dir_lock, leaked>>
  BY DEF Paths!Open, Paths!AtLast, Paths!At, Paths!Keep
<1>2. ~ Makes(p) /\ Erasing(p) = None /\ None # "sector twice"
  BY <1>1, PathsConstants DEF Makes, Erasing
<1>3. ASSUME NEW w \in Paths!Sectors \cup {None}, fds' = [fds EXCEPT ![p][h] = w]
      PROVE  /\ fds' \in [Procs -> [DirHandles -> Paths!Sectors \cup {None}]]
             /\ DescriptorMoves(p, None, w)
  <2>1. fds \in [Procs -> [DirHandles -> Paths!Sectors \cup {None}]]
    BY SectorsTyped
  <2>2. fds' \in [Procs -> [DirHandles -> Paths!Sectors \cup {None}]]
    BY <1>3, <2>1
  <2>3. fds'[p][h] = w /\ \A q \in Procs, g \in DirHandles : <<q, g>> # <<p, h>> => fds'[q][g] = fds[q][g]
    BY <1>3, <2>1
  <2> QED BY <1>1, <2>2, <2>3 DEF DescriptorMoves
<1>4. CASE /\ fds' = [fds EXCEPT ![p][h] = dir[p]] /\ dir' = [dir EXCEPT ![p] = None]
           /\ UNCHANGED <<open_cnt, removed, lock, dir_map>>
  <2>1. dir[p] \in Paths!Sectors \cup {None}
    BY SectorsTyped
  <2>2. dir' \in [Procs -> Paths!Sectors \cup {None}] /\ dir'[p] = None /\ \A q \in Procs \ {p} : dir'[q] = dir[q]
    BY <1>4, SectorsTyped
  <2>3. Counts(None, None, None)
    BY <1>1, <1>4, CountsStay
  <2>4. fds' \in [Procs -> [DirHandles -> Paths!Sectors \cup {None}]] /\ DescriptorMoves(p, None, dir[p])
    BY <1>3, <1>4, <2>1
  <2>5. DirTypes'
    BY <1>1, <1>4, <2>2, <2>3, <2>4, EndsAt, SectorsTyped, TypesKept, CountsInodes
  <2>6. Balanced(p, None, None, None, None, dir[p])
    <3>1. cwd'[p] = cwd[p] /\ Erasing(p)' = None
      BY <1>1, EndsAt
    <3>2. ASSUME NEW s \in Paths!Sectors
          PROVE  One(None, s) - One(None, s)
                   = One(cwd[p], s) - One(cwd[p], s) + One(None, s) - One(dir[p], s)
                       + One(dir[p], s) - One(None, s) + One(None, s) - One(None, s) + One(None, s)
      <4>1. One(None, s) = 0 /\ One(dir[p], s) \in {0, 1} /\ One(cwd[p], s) \in {0, 1}
        BY NoneIsNo, OneIs
      <4> QED BY ONLY <4>1
    <3> QED BY <1>2, <2>2, <3>1, <3>2 DEF Balanced
  <2>7. OthersRest(p) /\ LocksKept(p)
    BY <1>1, <1>4, <2>2, EndsAt DEF OthersRest, LocksKept
  <2> QED BY <1>1, <1>2, <2>3, <2>4, <2>5, <2>6, <2>7, EndsAt, MoveKeeps
<1>5. CASE /\ path[p].last = ".." \/ Paths!DirFree(p)
           /\ fds' = [fds EXCEPT ![p][h] = Paths!Target(p)]
           /\ Paths!Inodes(Paths!Opened(open_cnt, Paths!Target(p)), removed)
           /\ UNCHANGED <<dir, lock>>
  <2>0. PICK t : t = Paths!Target(p)
    OBVIOUS
  <2>1. t \in Paths!Sectors \cup {None} /\ (t # None => Usable(t))
    BY <1>1, <1>5, <2>0, NextUsable DEF Paths!Target
  <2>2. Counts(t, None, None)
    BY <1>1, <1>5, <2>0, <2>1, CountsOpened
  <2>3. fds' \in [Procs -> [DirHandles -> Paths!Sectors \cup {None}]] /\ DescriptorMoves(p, None, t)
    BY <1>3, <1>5, <2>0, <2>1
  <2>4. DirTypes'
    BY <1>1, <1>5, <2>2, <2>3, EndsAt, SectorsTyped, TypesKept, CountsInodes
  <2>5. Balanced(p, t, None, None, None, t)
    <3>1. cwd'[p] = cwd[p] /\ Erasing(p)' = None /\ dir'[p] = dir[p]
      BY <1>1, <1>5, EndsAt
    <3>2. ASSUME NEW s \in Paths!Sectors
          PROVE  One(t, s) - One(None, s)
                   = One(cwd[p], s) - One(cwd[p], s) + One(dir[p], s) - One(dir[p], s)
                       + One(t, s) - One(None, s) + One(None, s) - One(None, s) + One(None, s)
      <4>1. /\ One(None, s) = 0 /\ One(dir[p], s) \in {0, 1} /\ One(cwd[p], s) \in {0, 1}
            /\ One(t, s) \in {0, 1}
        BY NoneIsNo, OneIs
      <4> QED BY ONLY <4>1
    <3> QED BY <1>2, <3>1, <3>2 DEF Balanced
  <2>6. OthersRest(p) /\ LocksKept(p)
    BY <1>1, <1>5, EndsAt DEF OthersRest, LocksKept
  <2> QED BY <1>1, <1>2, <2>1, <2>2, <2>3, <2>4, <2>5, <2>6, EndsAt, MoveKeeps
<1>6. \/ /\ fds' = [fds EXCEPT ![p][h] = dir[p]] /\ dir' = [dir EXCEPT ![p] = None]
         /\ UNCHANGED <<open_cnt, removed, lock, dir_map>>
      \/ /\ path[p].last = ".." \/ Paths!DirFree(p)
         /\ fds' = [fds EXCEPT ![p][h] = Paths!Target(p)]
         /\ Paths!Inodes(Paths!Opened(open_cnt, Paths!Target(p)), removed)
         /\ UNCHANGED <<dir, lock>>
  BY DEF Paths!Open, Paths!inodes
<1> QED BY <1>4, <1>5, <1>6

LEMMA ChdirKeeps ==
  ASSUME TreeInv, NEW p \in Procs, Paths!Chdir(p)
  PROVE  TreeInv'
<1>1. /\ broken = None /\ broken' = None /\ pc[p] = "walk" /\ Paths!Ends(p)
      /\ UNCHANGED <<isdir, parent, dir_entry, fds, sector, dir_lock>>
  BY DEF Paths!Chdir, Paths!AtLast, Paths!At, Paths!Keep
<1>2. ~ Makes(p) /\ Erasing(p) = None /\ None # "sector twice"
  BY <1>1, PathsConstants DEF Makes, Erasing
<1>3. cwd[p] \in Paths!Sectors \cup {None} /\ dir[p] \in Paths!Sectors \cup {None}
  BY SectorsTyped
<1>4. CASE /\ Paths!Leak(cwd[p]) /\ cwd' = [cwd EXCEPT ![p] = dir[p]] /\ dir' = [dir EXCEPT ![p] = None]
           /\ UNCHANGED <<open_cnt, removed, lock, dir_map>>
  <2>1. Counts(None, None, cwd[p]) /\ leaked' \in [Paths!Sectors -> Nat]
    BY <1>3, <1>4, CountsLeaked
  <2>2. dir' \in [Procs -> Paths!Sectors \cup {None}] /\ dir'[p] = None /\ \A q \in Procs \ {p} : dir'[q] = dir[q]
    BY <1>4, SectorsTyped
  <2>3. cwd' \in [Procs -> Paths!Sectors \cup {None}] /\ cwd'[p] = dir[p] /\ \A q \in Procs \ {p} : cwd'[q] = cwd[q]
    BY <1>3, <1>4, SectorsTyped
  <2>4. DirTypes'
    BY <1>1, <1>4, <2>1, <2>2, <2>3, EndsAt, SectorsTyped, TypesKept, CountsInodes
  <2>5. Balanced(p, None, None, cwd[p], None, None)
    <3>1. Erasing(p)' = None
      BY <1>1, EndsAt
    <3>2. ASSUME NEW s \in Paths!Sectors
          PROVE  One(None, s) - One(None, s)
                   = One(dir[p], s) - One(cwd[p], s) + One(None, s) - One(dir[p], s)
                       + One(None, s) - One(None, s) + One(None, s) - One(None, s) + One(cwd[p], s)
      <4>1. One(None, s) = 0 /\ One(dir[p], s) \in {0, 1} /\ One(cwd[p], s) \in {0, 1}
        BY NoneIsNo, OneIs
      <4> QED BY ONLY <4>1
    <3> QED BY <1>2, <2>2, <2>3, <3>1, <3>2 DEF Balanced
  <2>6. OthersRest(p) /\ DescriptorMoves(p, None, None) /\ LocksKept(p)
    BY <1>1, <1>4, <2>2, <2>3, EndsAt DEF OthersRest, DescriptorMoves, LocksKept
  <2> QED BY <1>1, <1>2, <2>1, <2>4, <2>5, <2>6, EndsAt, MoveKeeps
<1>5. CASE UNCHANGED <<dir, cwd, open_cnt, removed, lock, dir_map, leaked>>
  <2>1. DirTypes'
    BY <1>1, <1>5, CountsStay, EndsAt, SectorsTyped, TypesKept, CountsInodes
  <2> QED BY <1>1, <1>2, <1>5, <2>1, EndsAt, StepKeeps
<1>6. CASE /\ path[p].last = ".." \/ Paths!DirFree(p)
           /\ Paths!Target(p) # None /\ cwd' = [cwd EXCEPT ![p] = Paths!Target(p)]
           /\ Paths!Inodes(Paths!Closed(Paths!Opened(open_cnt, Paths!Target(p)), cwd[p]), removed)
           /\ UNCHANGED <<dir, lock, leaked>>
  <2>0. PICK t : t = Paths!Target(p)
    OBVIOUS
  <2>1. t \in Paths!Sectors \cup {None} /\ (t # None => Usable(t))
    BY <1>1, <1>6, <2>0, NextUsable DEF Paths!Target
  <2>2. cwd[p] # None => InHands(cwd[p])
    BY InHand
  <2>3. Counts(t, cwd[p], None)
    BY <1>1, <1>3, <1>6, <2>0, <2>1, <2>2, CountsClosed
  <2>4. cwd' \in [Procs -> Paths!Sectors \cup {None}] /\ cwd'[p] = t /\ \A q \in Procs \ {p} : cwd'[q] = cwd[q]
    BY <1>6, <2>0, <2>1, SectorsTyped
  <2>5. DirTypes'
    BY <1>1, <1>6, <2>3, <2>4, EndsAt, SectorsTyped, TypesKept, CountsInodes
  <2>6. Balanced(p, t, cwd[p], None, None, None)
    <3>1. Erasing(p)' = None /\ dir'[p] = dir[p]
      BY <1>1, <1>6, EndsAt
    <3>2. ASSUME NEW s \in Paths!Sectors
          PROVE  One(t, s) - One(cwd[p], s)
                   = One(t, s) - One(cwd[p], s) + One(dir[p], s) - One(dir[p], s)
                       + One(None, s) - One(None, s) + One(None, s) - One(None, s) + One(None, s)
      <4>1. /\ One(None, s) = 0 /\ One(dir[p], s) \in {0, 1} /\ One(cwd[p], s) \in {0, 1}
            /\ One(t, s) \in {0, 1}
        BY NoneIsNo, OneIs
      <4> QED BY ONLY <4>1
    <3> QED BY <1>2, <2>4, <3>1, <3>2 DEF Balanced
  <2>7. OthersRest(p) /\ DescriptorMoves(p, None, None) /\ LocksKept(p)
    BY <1>1, <1>6, <2>4, EndsAt DEF OthersRest, DescriptorMoves, LocksKept
  <2> QED BY <1>1, <1>2, <1>3, <2>1, <2>2, <2>3, <2>5, <2>6, <2>7, EndsAt, MoveKeeps
<1>7. \/ /\ Paths!Leak(cwd[p]) /\ cwd' = [cwd EXCEPT ![p] = dir[p]] /\ dir' = [dir EXCEPT ![p] = None]
         /\ UNCHANGED <<open_cnt, removed, lock, dir_map>>
      \/ UNCHANGED <<dir, cwd, open_cnt, removed, lock, dir_map, leaked>>
      \/ /\ path[p].last = ".." \/ Paths!DirFree(p)
         /\ Paths!Target(p) # None /\ cwd' = [cwd EXCEPT ![p] = Paths!Target(p)]
         /\ Paths!Inodes(Paths!Closed(Paths!Opened(open_cnt, Paths!Target(p)), cwd[p]), removed)
         /\ UNCHANGED <<dir, lock, leaked>>
  BY DEF Paths!Chdir, Paths!inodes
<1> QED BY <1>4, <1>5, <1>6, <1>7

\* The tests of dir_remove: what passes them is no maker's, and is not about to
\* be erased by another process.
LEMMA RemoveCheckKeeps ==
  ASSUME TreeInv, NEW p \in Procs, Paths!RemoveCheck(p)
  PROVE  TreeInv'
<1>0. PICK s : s = Paths!Found(p, path[p].last)
  OBVIOUS
<1>1. /\ broken = None /\ broken' = None /\ pc[p] = "walk" /\ call[p] = "remove" /\ lock[dir[p]] = None
      /\ UNCHANGED <<isdir, parent, dir_entry, cwd, fds, dir, dir_lock, leaked>>
  BY DEF Paths!RemoveCheck, Paths!AtLast, Paths!At, Paths!Keep, Paths!DirFree
<1>2. ~ Makes(p) /\ Erasing(p) = None /\ None # "sector twice"
  BY <1>1, PathsConstants DEF Makes, Erasing
<1>3. dir[p] \in Paths!Sectors /\ isdir[dir[p]]
  BY <1>1 DEF TreeInv, Points, Point
<1>4. CASE Paths!Ends(p) /\ UNCHANGED <<open_cnt, removed, lock, dir_map, sector>>
  <2>1. DirTypes'
    BY <1>1, <1>4, CountsStay, EndsAt, SectorsTyped, TypesKept, CountsInodes
  <2> QED BY <1>1, <1>2, <1>4, <2>1, EndsAt, StepKeeps
<1>5. CASE /\ s # None /\ Paths!Removable(s)
           /\ lock' = [lock EXCEPT ![dir[p]] = p] /\ sector' = [sector EXCEPT ![p] = s]
           /\ Paths!Inodes(Paths!Opened(open_cnt, s), removed)
           /\ Paths!Goto(p, "erase")
  <2>1. /\ path[p].last \in DirNames /\ s = dir_entry[dir[p]][path[p].last] /\ s \in Paths!Sectors
    BY <1>0, <1>3, <1>5, SectorsTyped DEF Paths!Found
  <2>2. dir[p] \in dir_map
    BY <1>3, UsedUsable DEF Usable
  <2>3. Usable(s)
    BY <1>1, <1>3, <2>1, <2>2, EntryUsable DEF Edge
  <2>4. Counts(s, None, None)
    BY <1>1, <1>5, <2>1, CountsOpened
  <2>5. /\ lock' \in [Paths!Sectors -> Procs \cup {None}] /\ lock'[dir[p]] = p
        /\ \A x \in Paths!Sectors : lock[x] \notin {None, p} => lock'[x] = lock[x]
    BY <1>1, <1>3, <1>5, SectorsTyped
  <2>6. sector' \in [Procs -> Paths!Sectors \cup {None}] /\ sector'[p] = s /\ \A q \in Procs \ {p} : sector'[q] = sector[q]
    BY <1>5, <2>1, SectorsTyped
  <2>7. pc'[p] = "erase" /\ call' = call /\ path' = path
    BY <1>5, GoesTo
  <2>8. DirTypes'
    BY <1>1, <1>5, <2>4, <2>5, <2>6, GoesTo, SectorsTyped, TypesKept, CountsInodes
  <2>9. isdir[s] => open_cnt'[s] = 1 /\ dir_entry[s] = Paths!NoEntries
    <3> SUFFICES ASSUME isdir[s] PROVE open_cnt'[s] = 1 /\ dir_entry[s] = Paths!NoEntries
      OBVIOUS
    <3>1. open_cnt[s] + 1 <= 1 /\ dir_entry[s] = Paths!NoEntries /\ open_cnt[s] \in Nat
      BY <1>5, <2>1, SectorsTyped DEF Paths!Removable
    <3>2. open_cnt' = Paths!Opened(open_cnt, s)
      BY <1>5 DEF Paths!Inodes
    <3>3. open_cnt'[s] = open_cnt[s] + 1
      BY <1>5, <2>1, <3>2, SectorsTyped DEF Paths!Opened
    <3> QED BY <3>1, <3>3
  <2>10. Point(p)'
    <3>1. call'[p] # "create"
      BY <1>1, <2>7
    <3> QED BY <1>1, <1>3, <2>1, <2>5, <2>6, <2>7, <2>9, <3>1 DEF Point
  <2>11. Balanced(p, s, None, None, None, None)
    <3>1. Erasing(p)' = s /\ dir'[p] = dir[p] /\ cwd'[p] = cwd[p]
      BY <1>1, <2>6, <2>7 DEF Erasing
    <3>2. ASSUME NEW x \in Paths!Sectors
          PROVE  One(s, x) - One(None, x)
                   = One(cwd[p], x) - One(cwd[p], x) + One(dir[p], x) - One(dir[p], x)
                       + One(None, x) - One(None, x) + One(s, x) - One(None, x) + One(None, x)
      <4>1. /\ One(None, x) = 0 /\ One(dir[p], x) \in {0, 1} /\ One(cwd[p], x) \in {0, 1}
            /\ One(s, x) \in {0, 1}
        BY NoneIsNo, OneIs
      <4> QED BY ONLY <4>1
    <3> QED BY <1>2, <3>1, <3>2 DEF Balanced
  <2>12. OthersRest(p) /\ DescriptorMoves(p, None, None) /\ LocksKept(p)
    BY <1>1, <1>5, <2>5, <2>6, GoesTo DEF OthersRest, DescriptorMoves, LocksKept
  <2>13. ~ Makes(p)'
    BY <2>7 DEF Makes
  <2> QED BY <1>1, <1>2, <2>1, <2>3, <2>4, <2>8, <2>10, <2>11, <2>12, <2>13, MoveKeeps
<1> QED BY <1>0, <1>4, <1>5 DEF Paths!RemoveCheck, Paths!inodes

-----------------------------------------------------------------------------
LEMMA ReturnKeeps ==
  ASSUME TreeInv, NEW p \in Procs, Paths!Return(p)
  PROVE  TreeInv'
<1>1. /\ broken = None /\ broken' = None /\ pc[p] = "close" /\ Paths!Goto(p, "user")
      /\ Paths!Inodes(Paths!Closed(open_cnt, dir[p]), removed)
      /\ dir' = [dir EXCEPT ![p] = None]
      /\ dir_lock' = IF dir_lock = p THEN None ELSE dir_lock
      /\ UNCHANGED <<isdir, parent, dir_entry, lock, cwd, fds, sector, leaked>>
  BY DEF Paths!Return, Paths!At, Paths!Keep
<1>2. ~ Makes(p) /\ Erasing(p) = None /\ None # "sector twice"
  BY <1>1, PathsConstants DEF Makes, Erasing
<1>3. dir[p] \in Paths!Sectors \cup {None} /\ (dir[p] # None => InHands(dir[p]))
  BY SectorsTyped, InHand
<1>4. Paths!Opened(open_cnt, None) = open_cnt
  BY DEF Paths!Opened
<1>5. Counts(None, dir[p], None)
  BY <1>1, <1>3, <1>4, CountsClosed
<1>6. dir' \in [Procs -> Paths!Sectors \cup {None}] /\ dir'[p] = None /\ \A q \in Procs \ {p} : dir'[q] = dir[q]
  BY <1>1, SectorsTyped
<1>7. DirTypes'
  BY <1>1, <1>5, <1>6, GoesTo, SectorsTyped, TypesKept, CountsInodes
<1>8. pc'[p] = "user" /\ call'[p] = call[p] /\ ~ Makes(p)' /\ Erasing(p)' = None
  BY <1>1, GoesTo DEF Makes, Erasing
<1>9. Point(p)'
  <2>1. call[p] # "create"
    BY <1>1 DEF TreeInv, Points, Point
  <2> QED BY <1>6, <1>8, <2>1 DEF Point
<1>10. Balanced(p, None, dir[p], None, None, None)
  <2>1. ASSUME NEW s \in Paths!Sectors
        PROVE  One(None, s) - One(dir[p], s)
                 = One(cwd[p], s) - One(cwd[p], s) + One(None, s) - One(dir[p], s)
                     + One(None, s) - One(None, s) + One(None, s) - One(None, s) + One(None, s)
    <3>1. One(None, s) = 0 /\ One(dir[p], s) \in {0, 1} /\ One(cwd[p], s) \in {0, 1}
      BY NoneIsNo, OneIs
    <3> QED BY ONLY <3>1
  <2>2. cwd'[p] = cwd[p]
    BY <1>1
  <2> QED BY <1>2, <1>6, <1>8, <2>1, <2>2 DEF Balanced
<1>11. OthersRest(p) /\ DescriptorMoves(p, None, None) /\ LocksKept(p)
  BY <1>1, <1>6, GoesTo DEF OthersRest, DescriptorMoves, LocksKept
<1> QED BY <1>1, <1>2, <1>3, <1>5, <1>7, <1>8, <1>9, <1>10, <1>11, MoveKeeps

\* close loses its reference to a directory, unless it faults.
LEMMA PathCloseKeeps ==
  ASSUME TreeInv, NEW p \in Procs, NEW h \in DirHandles, Paths!Close(p, h)
  PROVE  TreeInv'
<1>0. PICK s : s = fds[p][h]
  OBVIOUS
<1>1. /\ broken = None /\ pc[p] = "user" /\ s # None /\ s \in Paths!Sectors
      /\ UNCHANGED <<isdir, parent, dir_entry, cwd, pc, call, path, dir, sector, dir_lock>>
  <2>1. fds[p][h] \in Paths!Sectors \cup {None}
    BY SectorsTyped
  <2> QED BY <1>0, <2>1 DEF Paths!Close, Paths!At
<1>2. ~ Makes(p) /\ ~ Makes(p)' /\ Erasing(p) = None /\ Erasing(p)' = None
  BY <1>1 DEF Makes, Erasing
<1>3. ASSUME fds' = [fds EXCEPT ![p][h] = None]
      PROVE  fds' \in [Procs -> [DirHandles -> Paths!Sectors \cup {None}]] /\ DescriptorMoves(p, s, None)
  <2>1. fds \in [Procs -> [DirHandles -> Paths!Sectors \cup {None}]]
    BY SectorsTyped
  <2>2. fds' \in [Procs -> [DirHandles -> Paths!Sectors \cup {None}]]
    BY <1>3, <2>1
  <2>3. fds'[p][h] = None /\ \A q \in Procs, g \in DirHandles : <<q, g>> # <<p, h>> => fds'[q][g] = fds[q][g]
    BY <1>3, <2>1
  <2> QED BY <1>0, <2>2, <2>3 DEF DescriptorMoves
<1>4. DOMAIN pc' = Procs /\ DOMAIN call' = Procs /\ DOMAIN path' = Procs
  BY <1>1 DEF TreeInv, DirTypes
<1>5. Point(p)'
  BY <1>1 DEF TreeInv, Points, Point
<1>6. None # "sector twice" /\ "kernel fault" # "sector twice"
  BY PathsConstants
<1>7. \A q \in Procs \ {p} : /\ pc'[q] = pc[q] /\ call'[q] = call[q] /\ path'[q] = path[q]
                             /\ sector'[q] = sector[q] /\ cwd'[q] = cwd[q] /\ dir'[q] = dir[q]
  BY <1>1
<1>8. CASE /\ Paths!Leak(s) /\ fds' = [fds EXCEPT ![p][h] = None] /\ broken' = None
           /\ UNCHANGED <<open_cnt, removed, lock, dir_map>>
  <2>1. Counts(None, None, s) /\ leaked' \in [Paths!Sectors -> Nat]
    BY <1>1, <1>8, CountsLeaked
  <2>2. DirTypes'
    BY <1>1, <1>3, <1>4, <1>8, <2>1, SectorsTyped, TypesKept, CountsInodes
  <2>3. Balanced(p, None, None, s, s, None)
    <3>1. ASSUME NEW x \in Paths!Sectors
          PROVE  One(None, x) - One(None, x)
                   = One(cwd[p], x) - One(cwd[p], x) + One(dir[p], x) - One(dir[p], x)
                       + One(None, x) - One(s, x) + One(None, x) - One(None, x) + One(s, x)
      <4>1. /\ One(None, x) = 0 /\ One(dir[p], x) \in {0, 1} /\ One(cwd[p], x) \in {0, 1}
            /\ One(s, x) \in {0, 1}
        BY NoneIsNo, OneIs
      <4> QED BY ONLY <4>1
    <3>2. cwd'[p] = cwd[p] /\ dir'[p] = dir[p]
      BY <1>1
    <3> QED BY <1>2, <3>1, <3>2 DEF Balanced
  <2>4. OthersRest(p) /\ LocksKept(p)
    BY <1>1, <1>7, <1>8 DEF OthersRest, LocksKept
  <2> QED BY <1>1, <1>2, <1>3, <1>5, <1>6, <1>8, <2>1, <2>2, <2>3, <2>4, MoveKeeps
<1>9. CASE broken' = "kernel fault" /\ UNCHANGED <<fds, open_cnt, removed, lock, dir_map, leaked>>
  <2>1. DirTypes'
    BY <1>1, <1>4, <1>9, CountsStay, SectorsTyped, TypesKept, CountsInodes
  <2> QED BY <1>1, <1>2, <1>5, <1>6, <1>7, <1>9, <2>1, StepKeeps
<1>10. CASE /\ fds' = [fds EXCEPT ![p][h] = None] /\ Paths!Inodes(Paths!Closed(open_cnt, s), removed)
            /\ UNCHANGED <<lock, leaked, broken>>
  <2>1. Paths!Opened(open_cnt, None) = open_cnt
    BY DEF Paths!Opened
  <2>2. InHands(s)
    BY <1>0 DEF InHands
  <2>3. Counts(None, s, None)
    BY <1>1, <1>10, <2>1, <2>2, CountsClosed
  <2>4. DirTypes'
    BY <1>1, <1>3, <1>4, <1>10, <2>3, SectorsTyped, TypesKept, CountsInodes
  <2>5. Balanced(p, None, s, None, s, None)
    <3>1. ASSUME NEW x \in Paths!Sectors
          PROVE  One(None, x) - One(s, x)
                   = One(cwd[p], x) - One(cwd[p], x) + One(dir[p], x) - One(dir[p], x)
                       + One(None, x) - One(s, x) + One(None, x) - One(None, x) + One(None, x)
      <4>1. /\ One(None, x) = 0 /\ One(dir[p], x) \in {0, 1} /\ One(cwd[p], x) \in {0, 1}
            /\ One(s, x) \in {0, 1}
        BY NoneIsNo, OneIs
      <4> QED BY ONLY <4>1
    <3>2. cwd'[p] = cwd[p] /\ dir'[p] = dir[p]
      BY <1>1
    <3> QED BY <1>2, <3>1, <3>2 DEF Balanced
  <2>6. OthersRest(p) /\ LocksKept(p)
    BY <1>1, <1>7, <1>10 DEF OthersRest, LocksKept
  <2> QED BY <1>1, <1>2, <1>3, <1>5, <1>6, <1>10, <2>2, <2>3, <2>4, <2>5, <2>6, MoveKeeps
<1>11. \/ /\ Paths!Leak(s) /\ fds' = [fds EXCEPT ![p][h] = None] /\ broken' = None
          /\ UNCHANGED <<open_cnt, removed, lock, dir_map>>
       \/ broken' = "kernel fault" /\ UNCHANGED <<fds, open_cnt, removed, lock, dir_map, leaked>>
       \/ /\ fds' = [fds EXCEPT ![p][h] = None] /\ Paths!Inodes(Paths!Closed(open_cnt, s), removed)
          /\ UNCHANGED <<lock, leaked, broken>>
  BY <1>0 DEF Paths!Close, Paths!inodes
<1> QED BY <1>8, <1>9, <1>10, <1>11

\* The new process q opens the directory of p.
LEMMA ExecKeeps ==
  ASSUME TreeInv, NEW p \in Procs, NEW q \in Procs, Paths!Exec(p, q)
  PROVE  TreeInv'
<1>0. PICK o : o = cwd[p]
  OBVIOUS
<1>1. /\ broken = None /\ broken' = None /\ pc[q] = "new" /\ Paths!Goto(q, "user")
      /\ cwd' = [cwd EXCEPT ![q] = o] /\ Paths!Inodes(Paths!Opened(open_cnt, o), removed)
      /\ UNCHANGED <<isdir, parent, dir_entry, lock, fds, dir, sector, dir_lock, leaked>>
  BY <1>0 DEF Paths!Exec, Paths!At, Paths!Keep
<1>2. ~ Makes(q) /\ Erasing(q) = None /\ None # "sector twice"
  BY <1>1, PathsConstants DEF Makes, Erasing
<1>3. o \in Paths!Sectors \cup {None} /\ (o # None => Usable(o))
  BY <1>0, SectorsTyped, InHand
<1>4. dir[q] = None /\ cwd[q] = None /\ call[q] # "create"
  BY <1>1 DEF TreeInv, Points, Point
<1>5. Counts(o, None, None)
  BY <1>1, <1>3, CountsOpened
<1>6. cwd' \in [Procs -> Paths!Sectors \cup {None}] /\ cwd'[q] = o /\ \A r \in Procs \ {q} : cwd'[r] = cwd[r]
  BY <1>1, <1>3, SectorsTyped
<1>7. DirTypes'
  BY <1>1, <1>5, <1>6, GoesTo, SectorsTyped, TypesKept, CountsInodes
<1>8. pc'[q] = "user" /\ call'[q] = call[q] /\ ~ Makes(q)' /\ Erasing(q)' = None
  BY <1>1, GoesTo DEF Makes, Erasing
<1>9. Point(q)'
  BY <1>1, <1>4, <1>8 DEF Point
<1>10. Balanced(q, o, None, None, None, None)
  <2>1. ASSUME NEW s \in Paths!Sectors
        PROVE  One(o, s) - One(None, s)
                 = One(o, s) - One(None, s) + One(dir[q], s) - One(dir[q], s)
                     + One(None, s) - One(None, s) + One(None, s) - One(None, s) + One(None, s)
    <3>1. One(None, s) = 0 /\ One(dir[q], s) \in {0, 1} /\ One(o, s) \in {0, 1}
      BY NoneIsNo, OneIs
    <3> QED BY ONLY <3>1
  <2>2. dir'[q] = dir[q]
    BY <1>1
  <2> QED BY <1>2, <1>4, <1>6, <1>8, <2>1, <2>2 DEF Balanced
<1>11. OthersRest(q) /\ DescriptorMoves(q, None, None) /\ LocksKept(q)
  BY <1>1, <1>6, GoesTo DEF OthersRest, DescriptorMoves, LocksKept
<1> QED BY <1>1, <1>2, <1>3, <1>5, <1>7, <1>8, <1>9, <1>10, <1>11, MoveKeeps

\* process_exit forgets the directory of the process.
LEMMA ExitKeeps ==
  ASSUME TreeInv, NEW p \in Procs, Paths!Exit(p)
  PROVE  TreeInv'
<1>1. /\ broken = None /\ broken' = None /\ pc[p] = "user" /\ Paths!Goto(p, "dead") /\ Paths!Leak(cwd[p])
      /\ cwd' = [cwd EXCEPT ![p] = None]
      /\ UNCHANGED <<isdir, parent, dir_entry, open_cnt, removed, dir_map, lock, fds, dir, sector, dir_lock>>
  BY DEF Paths!Exit, Paths!At, Paths!Keep, Paths!disk, Paths!inodes
<1>2. ~ Makes(p) /\ Erasing(p) = None /\ None # "sector twice"
  BY <1>1, PathsConstants DEF Makes, Erasing
<1>3. cwd[p] \in Paths!Sectors \cup {None}
  BY SectorsTyped
<1>4. dir[p] = None /\ call[p] # "create"
  BY <1>1 DEF TreeInv, Points, Point
<1>5. Counts(None, None, cwd[p]) /\ leaked' \in [Paths!Sectors -> Nat]
  BY <1>1, <1>3, CountsLeaked
<1>6. cwd' \in [Procs -> Paths!Sectors \cup {None}] /\ cwd'[p] = None /\ \A r \in Procs \ {p} : cwd'[r] = cwd[r]
  BY <1>1, SectorsTyped
<1>7. DirTypes'
  BY <1>1, <1>5, <1>6, GoesTo, SectorsTyped, TypesKept, CountsInodes
<1>8. pc'[p] = "dead" /\ call'[p] = call[p] /\ ~ Makes(p)' /\ Erasing(p)' = None
  BY <1>1, GoesTo DEF Makes, Erasing
<1>9. Point(p)'
  BY <1>1, <1>4, <1>8 DEF Point
<1>10. Balanced(p, None, None, cwd[p], None, None)
  <2>1. ASSUME NEW s \in Paths!Sectors
        PROVE  One(None, s) - One(None, s)
                 = One(None, s) - One(cwd[p], s) + One(dir[p], s) - One(dir[p], s)
                     + One(None, s) - One(None, s) + One(None, s) - One(None, s) + One(cwd[p], s)
    <3>1. One(None, s) = 0 /\ One(dir[p], s) \in {0, 1} /\ One(cwd[p], s) \in {0, 1}
      BY NoneIsNo, OneIs
    <3> QED BY ONLY <3>1
  <2>2. dir'[p] = dir[p]
    BY <1>1
  <2> QED BY <1>2, <1>6, <1>8, <2>1, <2>2 DEF Balanced
<1>11. OthersRest(p) /\ DescriptorMoves(p, None, None) /\ LocksKept(p)
  BY <1>1, <1>6, GoesTo DEF OthersRest, DescriptorMoves, LocksKept
<1> QED BY <1>1, <1>2, <1>5, <1>7, <1>8, <1>9, <1>10, <1>11, MoveKeeps

-----------------------------------------------------------------------------
\* The steps of create, mkdir and remove that change the tree.

\* p goes on with the inodes that it has in hand.
LEMMA CountedRests ==
  ASSUME TreeInv, NEW p \in Procs, UNCHANGED <<open_cnt, leaked, cwd, dir, fds>>,
         \A q \in Procs \ {p} : pc'[q] = pc[q] /\ sector'[q] = sector[q],
         Erasing(p) = None, Erasing(p)' = None
  PROVE  Counted'
<1> SUFFICES ASSUME NEW s \in Paths!Sectors
             PROVE  open_cnt'[s] = Paths!References(s)' + leaked'[s]
  BY DEF Counted
<1>1. /\ Paths!References(s) \in Nat /\ Paths!References(s)' \in Nat
      /\ Paths!References(s)'
           = Paths!References(s) - One(cwd[p], s) + One(cwd'[p], s) - One(dir[p], s) + One(dir'[p], s)
               - One(None, s) + One(None, s) - One(Erasing(p), s) + One(Erasing(p)', s)
  BY ReferencesMove
<1>2. One(cwd'[p], s) = One(cwd[p], s) /\ One(dir'[p], s) = One(dir[p], s) /\ One(Erasing(p)', s) = One(Erasing(p), s)
  OBVIOUS
<1>3. /\ One(cwd[p], s) \in {0, 1} /\ One(dir[p], s) \in {0, 1} /\ One(None, s) = 0
      /\ One(Erasing(p), s) \in {0, 1}
  BY OneIs, NoneIsNo
<1>4. Paths!References(s)' = Paths!References(s)
  BY ONLY <1>1, <1>2, <1>3
<1> QED BY <1>4 DEF TreeInv, Counted

\* A sector that is free is in nobody's hands.
LEMMA FreeUnused ==
  ASSUME TreeInv, broken = None, NEW s \in Paths!Sectors \ dir_map
  PROVE  /\ s # Root /\ open_cnt[s] = 0 /\ ~ removed[s] /\ ~ Made(s) /\ ~ Named(s)
         /\ \A q \in Procs : dir[q] # s /\ (pc[q] = "erase" => sector[q] # s)
<1>1. s # Root /\ open_cnt[s] \in Nat
  BY SectorsTyped
<1>2. open_cnt[s] = 0
  BY <1>1 DEF TreeInv, Global, InUse
<1>3. ~ removed[s]
  BY <1>2 DEF TreeInv, Global, RemovedFiles
<1>4. ~ Made(s) /\ ~ Named(s)
  BY DEF Made, Named, TreeInv, Global, NewOnes, Shape
<1>5. \A q \in Procs : dir[q] # s
  BY UsedOpen
<1>6. \A q \in Procs : pc[q] = "erase" => sector[q] # s
  BY ErasedNamed
<1> QED BY <1>1, <1>2, <1>3, <1>4, <1>5, <1>6

\* Two calls take one sector.
LEMMA FlipTwiceKeeps ==
  ASSUME TreeInv, NEW p \in Procs, broken = None, pc[p] = "flip", sector[p] \in dir_map,
         broken' = "sector twice",
         UNCHANGED <<dir_map, isdir, parent, dir_entry, pc, call, path, open_cnt, removed, lock, cwd,
                     fds, dir, sector, dir_lock, leaked>>
  PROVE  TreeInv'
<1>1. None # "sector twice"
  BY PathsConstants
<1>2. DirTypes'
  BY DEF TreeInv, DirTypes, Paths!TypeOK
<1>3. Erasing(p) = None /\ Erasing(p)' = None
  BY DEF Erasing
<1>4. Counted'
  BY <1>3, CountedRests
<1>5. Global'
  <2>1. Paths!Inodes(open_cnt, removed) /\ open_cnt \in [Paths!Sectors -> Nat]
    BY NothingOpened, SectorsTyped
  <2>2. \A q \in Procs : /\ Makes(q)' <=> Makes(q)
                         /\ Makes(q) => sector'[q] = sector[q]
    BY DEF Makes
  <2>3. ASSUME NEW t \in Paths!Sectors PROVE ~ (open_cnt[t] > open_cnt[t])
    <3>1. open_cnt[t] \in Nat
      BY SectorsTyped
    <3> QED BY ONLY <3>1
  <2> QED BY <1>2, <2>1, <2>2, <2>3, OpeningKeeps
<1>6. Points'
  BY <1>1 DEF TreeInv, Points, Point
<1>7. Paths!FilesGuarded'
  <2>1. call[p] \in {"create", "mkdir"} /\ (call[p] = "create" => isdir[sector[p]])
    BY DEF TreeInv, Points, Point
  <2>2. pc'[p] = "flip" /\ sector'[p] \in dir_map' /\ (call'[p] = "mkdir" \/ isdir'[sector'[p]])
    BY <2>1
  <2> QED BY <2>2 DEF Paths!FilesGuarded
<1> QED BY <1>2, <1>4, <1>5, <1>6, <1>7 DEF TreeInv

\* The sector is taken, and its inode written.
LEMMA FlipKeeps ==
  ASSUME TreeInv, NEW p \in Procs, Paths!Flip(p)
  PROVE  TreeInv'
<1>0. PICK s : s = sector[p]
  OBVIOUS
<1>1. /\ broken = None /\ pc[p] = "flip" /\ s \in Paths!Sectors /\ call[p] \in {"create", "mkdir"}
      /\ dir[p] \in Paths!Sectors /\ isdir[dir[p]] /\ (call[p] = "create" => dir_lock = p)
      /\ UNCHANGED <<open_cnt, removed, lock, cwd, fds, dir, sector, dir_lock, leaked>>
  BY <1>0 DEF Paths!Flip, Paths!At, Paths!inodes, TreeInv, Points, Point
<1>2. CASE s \in dir_map /\ broken' = "sector twice" /\ UNCHANGED <<dir_map, isdir, parent, dir_entry, pc, call, path>>
  BY <1>0, <1>1, <1>2, FlipTwiceKeeps
<1>3. CASE /\ s \notin dir_map /\ broken' = broken /\ Paths!Goto(p, "add")
           /\ dir_map' = dir_map \cup {s}
           /\ isdir' = [isdir EXCEPT ![s] = call[p] = "mkdir"]
           /\ parent' = [parent EXCEPT ![s] = Root]
           /\ dir_entry' = [dir_entry EXCEPT ![s] = Paths!NoEntries]
  <2>1. /\ s # Root /\ open_cnt[s] = 0 /\ ~ removed[s] /\ ~ Made(s) /\ ~ Named(s)
        /\ \A q \in Procs : dir[q] # s /\ (pc[q] = "erase" => sector[q] # s)
    BY <1>1, <1>3, FreeUnused
  <2>2. /\ pc'[p] = "add" /\ call' = call /\ path' = path
        /\ \A q \in Procs \ {p} : pc'[q] = pc[q]
        /\ DOMAIN pc' = Procs /\ DOMAIN call' = Procs /\ DOMAIN path' = Procs
    BY <1>3, GoesTo
  <2>3. Paths!NoEntries \in [DirNames -> Paths!Sectors \cup {None}] /\ \A n \in DirNames : Paths!NoEntries[n] = None
    BY DEF Paths!NoEntries
  <2>4. /\ isdir' \in [Paths!Sectors -> BOOLEAN] /\ isdir'[s] = (call[p] = "mkdir")
        /\ \A t \in Paths!Sectors \ {s} : isdir'[t] = isdir[t]
    BY <1>1, <1>3, SectorsTyped
  <2>5. /\ parent' \in [Paths!Sectors -> Paths!Sectors]
        /\ \A t \in Paths!Sectors \ {s} : parent'[t] = parent[t]
    BY <1>1, <1>3, SectorsTyped, PathsConstants
  <2>6. /\ dir_entry' \in [Paths!Sectors -> [DirNames -> Paths!Sectors \cup {None}]]
        /\ dir_entry'[s] = Paths!NoEntries
        /\ \A t \in Paths!Sectors \ {s} : dir_entry'[t] = dir_entry[t]
    BY <1>1, <1>3, <2>3, SectorsTyped
  <2>7. DirTypes'
    <3>1. dir_map' \subseteq Paths!Sectors /\ Root \in dir_map' /\ isdir'[Root]
      <4>1. dir_map \subseteq Paths!Sectors /\ Root \in dir_map /\ isdir[Root]
        BY SectorsTyped
      <4> QED BY ONLY <1>1, <1>3, <2>1, <2>4, <4>1, PathsConstants
    <3>2. open_cnt' \in [Paths!Sectors -> Nat] /\ lock' \in [Paths!Sectors -> Procs \cup {None}]
      BY <1>1, SectorsTyped
    <3>3. /\ cwd' \in [Procs -> Paths!SectorOrNone] /\ dir' \in [Procs -> Paths!SectorOrNone]
          /\ fds' \in [Procs -> [DirHandles -> Paths!SectorOrNone]]
          /\ removed' \in [Paths!Sectors -> BOOLEAN] /\ leaked' \in [Paths!Sectors -> Nat]
          /\ sector' \in [Procs -> Paths!SectorOrNone]
      BY <1>1, SectorsTyped
    <3>4. dir_entry' \in [Paths!Sectors -> [DirNames -> Paths!SectorOrNone]]
      BY <2>6, SectorsTyped
    <3> QED BY <2>2, <2>4, <2>5, <3>1, <3>2, <3>3, <3>4 DEF DirTypes, Paths!TypeOK, Root, Paths!Root
  <2>8. Counted'
    BY <1>1, <2>2, CountedRests DEF Erasing
  <2>9. \A d, t \in Paths!Sectors, n \in DirNames : Edge(d, n, t)' <=> Edge(d, n, t)
    <3> SUFFICES ASSUME NEW d \in Paths!Sectors, NEW t \in Paths!Sectors, NEW n \in DirNames
                 PROVE  Edge(d, n, t)' <=> Edge(d, n, t)
      OBVIOUS
    <3>1. CASE d = s
      <4>1. dir_entry'[d][n] # t
        BY <2>3, <2>6, <3>1, PathsConstants
      <4> QED BY <1>3, <3>1, <4>1 DEF Edge
    <3>2. CASE d # s
      <4>1. dir_entry'[d] = dir_entry[d] /\ isdir'[d] = isdir[d] /\ (d \in dir_map' <=> d \in dir_map)
        BY <1>3, <2>4, <2>6, <3>2
      <4> QED BY <4>1 DEF Edge
    <3> QED BY <3>1, <3>2
  <2>10. \A t \in Paths!Sectors : Named(t)' <=> Named(t)
    BY <2>9 DEF Named
  <2>11. /\ Makes(p)' /\ ~ Makes(p) /\ \A q \in Procs \ {p} : Makes(q)' <=> Makes(q)
    BY <1>1, <2>2 DEF Makes
  <2>12. \A t : Made(t)' <=> Made(t) \/ t = s
    BY <1>0, <1>1, <2>11 DEF Made
  <2>13. \A t \in dir_map : t \in Paths!Sectors \ {s}
    BY <1>3, SectorsTyped
  <2>14. InUse'
    BY <1>1, <1>3 DEF TreeInv, Global, InUse
  <2>15. RemovedFiles'
    BY <1>1, <2>1, <2>4, <2>10 DEF TreeInv, Global, RemovedFiles
  <2>16. Shape'
    <3>1. parent'[Root] = Root
      BY <2>1, <2>5, PathsConstants DEF TreeInv, Global, Shape
    <3>2. ASSUME NEW d \in Paths!Sectors, NEW t \in Paths!Sectors, NEW n \in DirNames, Edge(d, n, t)'
          PROVE  /\ t \in dir_map' \ {Root} /\ parent'[t] = d
                 /\ \A e \in Paths!Sectors, m \in DirNames : Edge(e, m, t)' => e = d /\ m = n
      <4>1. Edge(d, n, t)
        BY <2>9, <3>2
      <4>2. /\ t \in dir_map \ {Root} /\ parent[t] = d
            /\ \A e \in Paths!Sectors, m \in DirNames : Edge(e, m, t) => e = d /\ m = n
        BY <4>1 DEF TreeInv, Global, Shape
      <4> QED BY <1>3, <2>5, <2>9, <2>13, <4>2
    <3> QED BY <3>1, <3>2 DEF Shape
  <2>17. Accounted'
    BY <1>1, <1>3, <2>10, <2>12, <2>13 DEF TreeInv, Global, Accounted, Root, Paths!Root
  <2>18. NewOnes'
    <3> SUFFICES ASSUME NEW q \in Procs, Makes(q)'
                 PROVE  /\ sector[q] \in dir_map' \ {Root} /\ open_cnt[sector[q]] = 0 /\ ~ Named(sector[q])'
                        /\ dir_entry'[sector[q]] = Paths!NoEntries
                        /\ \A r \in Procs : Makes(r)' /\ sector[r] = sector[q] => r = q
      BY <1>1 DEF NewOnes, Root, Paths!Root, Named, Paths!NoEntries
    <3>1. \A r \in Procs \ {p} : Makes(r)' => sector[r] # s
      BY <2>1, <2>11 DEF Made
    <3>2. CASE q = p
      BY <1>0, <1>1, <1>3, <2>1, <2>6, <2>10, <3>1, <3>2
    <3>3. CASE q # p
      <4>1. Makes(q) /\ sector[q] # s
        BY <2>11, <3>1, <3>3
      <4>2. /\ sector[q] \in dir_map \ {Root} /\ open_cnt[sector[q]] = 0 /\ ~ Named(sector[q])
            /\ dir_entry[sector[q]] = Paths!NoEntries
            /\ \A r \in Procs : Makes(r) /\ sector[r] = sector[q] => r = q
        BY <4>1 DEF TreeInv, Global, NewOnes
      <4>3. \A r \in Procs : Makes(r)' /\ sector[r] = sector[q] => r = q
        BY <1>0, <2>11, <4>1, <4>2
      <4> QED BY <1>1, <1>3, <2>6, <2>10, <2>13, <4>1, <4>2, <4>3
    <3> QED BY <3>2, <3>3
  <2>19. Reach'
    <3> SUFFICES ASSUME NEW t \in dir_map', isdir'[t], ~ Made(t)' PROVE t \in Paths!Below'
      BY DEF Reach
    <3>1. t \in dir_map /\ isdir[t] /\ ~ Made(t)
      BY <1>3, <2>4, <2>12, <2>13
    <3>2. t \in Paths!Below
      BY <3>1 DEF TreeInv, Global, Reach
    <3> QED BY <2>7, <2>9, <3>2, BelowGrows DEF TreeInv
  <2>20. Points'
    <3> SUFFICES ASSUME NEW q \in Procs PROVE Point(q)'
      BY DEF Points
    <3>1. CASE q = p
      BY <1>1, <2>1, <2>2, <2>4, <3>1 DEF Point
    <3>2. CASE q # p
      <4>1. Point(q)
        BY DEF TreeInv, Points
      <4>2. /\ pc'[q] = pc[q] /\ dir'[q] = dir[q] /\ cwd'[q] = cwd[q] /\ sector'[q] = sector[q]
            /\ call'[q] = call[q] /\ path'[q] = path[q] /\ broken' = broken
        BY <1>1, <1>3, <2>2, <3>2
      <4>3. dir[q] \in Paths!Sectors => isdir'[dir[q]] = isdir[dir[q]] /\ dir_entry'[dir[q]] = dir_entry[dir[q]]
        BY <2>1, <2>4, <2>6
      <4>4. pc[q] = "flip" /\ call[q] = "create" /\ sector[q] \in dir_map' => isdir'[sector[q]]
        <5> SUFFICES ASSUME pc[q] = "flip", call[q] = "create", sector[q] \in dir_map' PROVE isdir'[sector[q]]
          OBVIOUS
        <5>1. CASE sector[q] = s
          <6>1. dir_lock = q
            BY <4>1 DEF Point
          <6>2. call[p] = "mkdir"
            BY <1>1, <3>2, <6>1
          <6> QED BY <2>4, <5>1, <6>2
        <5>2. CASE sector[q] # s
          BY <1>3, <2>4, <2>13, <4>1, <5>2 DEF Point
        <5> QED BY <5>1, <5>2
      <4>5. pc[q] = "write" => parent'[sector[q]] = parent[sector[q]]
        <5> SUFFICES ASSUME pc[q] = "write" PROVE parent'[sector[q]] = parent[sector[q]]
          OBVIOUS
        <5>1. Makes(q)
          BY DEF Makes
        <5>2. sector[q] \in dir_map
          BY <5>1 DEF TreeInv, Global, NewOnes
        <5> QED BY <2>5, <2>13, <5>2
      <4>6. pc[q] = "erase" /\ sector[q] \in Paths!Sectors =>
              isdir'[sector[q]] = isdir[sector[q]] /\ dir_entry'[sector[q]] = dir_entry[sector[q]]
        BY <2>1, <2>4, <2>6
      <4> QED BY <1>1, <4>1, <4>2, <4>3, <4>4, <4>5, <4>6 DEF Point, Paths!NoEntries
    <3> QED BY <3>1, <3>2
  <2>21. Paths!FilesGuarded'
    <3>1. broken' # "sector twice"
      BY <1>1, <1>3, PathsConstants
    <3> QED BY <3>1 DEF Paths!FilesGuarded
  <2> QED BY <2>7, <2>8, <2>14, <2>15, <2>16, <2>17, <2>18, <2>19, <2>20, <2>21 DEF TreeInv, Global
<1>4. \/ s \in dir_map /\ broken' = "sector twice" /\ UNCHANGED <<dir_map, isdir, parent, dir_entry, pc, call, path>>
      \/ /\ s \notin dir_map /\ broken' = broken /\ Paths!Goto(p, "add")
         /\ dir_map' = dir_map \cup {s}
         /\ isdir' = [isdir EXCEPT ![s] = call[p] = "mkdir"]
         /\ parent' = [parent EXCEPT ![s] = Root]
         /\ dir_entry' = [dir_entry EXCEPT ![s] = Paths!NoEntries]
  BY <1>0 DEF Paths!Flip, Paths!disk, Root
<1> QED BY <1>2, <1>3, <1>4

-----------------------------------------------------------------------------
\* The names, the sectors in use and the makers stay.
LEMMA NamesStay ==
  ASSUME TreeInv, DirTypes', UNCHANGED <<dir_map, isdir, parent, dir_entry, open_cnt, removed, sector>>,
         \A q \in Procs : Makes(q)' <=> Makes(q)
  PROVE  Global'
<1>1. Paths!Inodes(open_cnt, removed) /\ open_cnt \in [Paths!Sectors -> Nat]
  BY NothingOpened, SectorsTyped
<1>2. ASSUME NEW t \in Paths!Sectors PROVE ~ (open_cnt[t] > open_cnt[t])
  <2>1. open_cnt[t] \in Nat
    BY SectorsTyped
  <2> QED BY ONLY <2>1
<1> QED BY <1>1, <1>2, OpeningKeeps

\* What a maker relies on.
LEMMA MakerAt ==
  ASSUME TreeInv, NEW p \in Procs, Makes(p)
  PROVE  /\ sector[p] \in Paths!Sectors /\ sector[p] \in dir_map \ {Root} /\ open_cnt[sector[p]] = 0
         /\ ~ removed[sector[p]] /\ ~ Named(sector[p]) /\ dir_entry[sector[p]] = Paths!NoEntries
         /\ \A q \in Procs \ {p} : Makes(q) => sector[q] # sector[p]
         /\ \A q \in Procs : pc[q] = "erase" /\ broken = None => sector[q] # sector[p]
         /\ \A q \in Procs : dir[q] # sector[p]
<1>1. /\ sector[p] \in dir_map \ {Root} /\ open_cnt[sector[p]] = 0 /\ ~ Named(sector[p])
      /\ dir_entry[sector[p]] = Paths!NoEntries
      /\ \A q \in Procs : Makes(q) /\ sector[q] = sector[p] => q = p
  BY DEF TreeInv, Global, NewOnes
<1>2. sector[p] \in Paths!Sectors
  BY <1>1, SectorsTyped
<1>3. ~ removed[sector[p]]
  BY <1>1, <1>2 DEF TreeInv, Global, RemovedFiles
<1>4. ASSUME NEW q \in Procs, pc[q] = "erase", broken = None PROVE sector[q] # sector[p]
  <2>1. Edge(dir[q], path[q].last, sector[q]) /\ path[q].last \in DirNames /\ dir[q] \in dir_map
    BY <1>4, ErasedNamed
  <2>2. Named(sector[q])
    BY <2>1, SectorsTyped DEF Named
  <2> QED BY <1>1, <2>2
<1>5. \A q \in Procs : dir[q] # sector[p]
  <2>1. \A q \in Procs : dir[q] = sector[p] => open_cnt[sector[p]] > 0
    BY <1>2, UsedOpen
  <2> QED BY <1>1, <2>1
<1> QED BY <1>1, <1>2, <1>3, <1>4, <1>5

LEMMA AddCheckKeeps ==
  ASSUME TreeInv, NEW p \in Procs, Paths!AddCheck(p)
  PROVE  TreeInv'
<1>0. PICK s \in Paths!Sectors : s = sector[p]
  BY MakerAt DEF Paths!AddCheck, Paths!At, Makes
<1>1. /\ broken = None /\ broken' = None /\ pc[p] = "add" /\ Makes(p) /\ lock[dir[p]] = None
      /\ dir[p] \in Paths!Sectors /\ isdir[dir[p]] /\ (call[p] = "create" => dir_lock = p)
      /\ UNCHANGED <<dir_map, isdir, dir_entry, open_cnt, removed, cwd, fds, dir, sector, dir_lock, leaked>>
  BY DEF Paths!AddCheck, Paths!At, Paths!Keep, Paths!DirFree, TreeInv, Points, Point, Makes
<1>2. /\ s \in dir_map \ {Root} /\ ~ Named(s)
      /\ \A q \in Procs \ {p} : Makes(q) => sector[q] # s
  BY <1>0, <1>1, MakerAt
<1>3. ASSUME NEW at \in {"write", "undo"}, Paths!Goto(p, at)
      PROVE  /\ pc'[p] = at /\ call' = call /\ path' = path
             /\ \A q \in Procs \ {p} : pc'[q] = pc[q]
             /\ DOMAIN pc' = Procs /\ DOMAIN call' = Procs /\ DOMAIN path' = Procs
             /\ \A q \in Procs : Makes(q)' <=> Makes(q)
             /\ Counted'
  <2>1. /\ pc'[p] = at /\ call' = call /\ path' = path
        /\ \A q \in Procs \ {p} : pc'[q] = pc[q]
        /\ DOMAIN pc' = Procs /\ DOMAIN call' = Procs /\ DOMAIN path' = Procs
    BY <1>3, GoesTo
  <2>2. \A q \in Procs : Makes(q)' <=> Makes(q)
    BY <1>1, <2>1 DEF Makes
  <2>3. Counted'
    BY <1>1, <2>1, CountedRests DEF Erasing
  <2> QED BY <2>1, <2>2, <2>3
<1>4. Paths!FilesGuarded'
  <2>1. broken' # "sector twice"
    BY <1>1, PathsConstants
  <2> QED BY <2>1 DEF Paths!FilesGuarded
<1>5. CASE Paths!Goto(p, "undo") /\ UNCHANGED <<lock, parent>>
  <2>1. /\ pc'[p] = "undo" /\ call' = call /\ path' = path
        /\ \A q \in Procs \ {p} : pc'[q] = pc[q]
        /\ DOMAIN pc' = Procs /\ DOMAIN call' = Procs /\ DOMAIN path' = Procs
        /\ \A q \in Procs : Makes(q)' <=> Makes(q)
        /\ Counted'
    BY <1>3, <1>5
  <2>2. DirTypes'
    BY <1>1, <1>5, <2>1 DEF TreeInv, DirTypes, Paths!TypeOK
  <2>3. Global'
    BY <1>1, <1>5, <2>1, <2>2, NamesStay
  <2>4. Points'
    <3> SUFFICES ASSUME NEW q \in Procs PROVE Point(q)'
      BY DEF Points
    <3>1. CASE q = p
      BY <1>1, <2>1, <3>1 DEF Point
    <3>2. CASE q # p
      BY <1>1, <1>5, <2>1, <3>2 DEF TreeInv, Points, Point
    <3> QED BY <3>1, <3>2
  <2> QED BY <1>4, <2>1, <2>2, <2>3, <2>4 DEF TreeInv
<1>6. CASE /\ Paths!NameFree(p) /\ lock' = [lock EXCEPT ![dir[p]] = p]
           /\ parent' = [parent EXCEPT ![s] = dir[p]] /\ Paths!Goto(p, "write")
  <2>1. /\ pc'[p] = "write" /\ call' = call /\ path' = path
        /\ \A q \in Procs \ {p} : pc'[q] = pc[q]
        /\ DOMAIN pc' = Procs /\ DOMAIN call' = Procs /\ DOMAIN path' = Procs
        /\ \A q \in Procs : Makes(q)' <=> Makes(q)
        /\ Counted'
    BY <1>3, <1>6
  <2>2. /\ parent' \in [Paths!Sectors -> Paths!Sectors] /\ parent'[s] = dir[p]
        /\ \A t \in Paths!Sectors \ {s} : parent'[t] = parent[t]
    BY <1>1, <1>6, SectorsTyped
  <2>3. /\ lock' \in [Paths!Sectors -> Procs \cup {None}] /\ lock'[dir[p]] = p
        /\ \A d \in Paths!Sectors : lock[d] # None => lock'[d] = lock[d]
    BY <1>1, <1>6, SectorsTyped
  <2>4. DirTypes'
    BY <1>1, <2>1, <2>2, <2>3 DEF TreeInv, DirTypes, Paths!TypeOK
  <2>5. \A d, t \in Paths!Sectors, n \in DirNames : Edge(d, n, t)' <=> Edge(d, n, t)
    BY <1>1 DEF Edge
  <2>6. \A t : Named(t)' <=> Named(t)
    BY <1>1 DEF Named, Edge
  <2>7. \A t : Made(t)' <=> Made(t)
    BY <1>1, <2>1 DEF Made
  <2>8. InUse' /\ RemovedFiles'
    BY <1>1, <2>6 DEF TreeInv, Global, InUse, RemovedFiles
  <2>9. Shape'
    <3>1. parent'[Root] = Root
      BY <1>2, <2>2, PathsConstants DEF TreeInv, Global, Shape
    <3>2. ASSUME NEW d \in Paths!Sectors, NEW t \in Paths!Sectors, NEW n \in DirNames, Edge(d, n, t)'
          PROVE  /\ t \in dir_map' \ {Root} /\ parent'[t] = d
                 /\ \A e \in Paths!Sectors, m \in DirNames : Edge(e, m, t)' => e = d /\ m = n
      <4>1. Edge(d, n, t) /\ Named(t)
        BY <2>5, <3>2 DEF Named
      <4>2. /\ t \in dir_map \ {Root} /\ parent[t] = d
            /\ \A e \in Paths!Sectors, m \in DirNames : Edge(e, m, t) => e = d /\ m = n
        BY <4>1 DEF TreeInv, Global, Shape
      <4>3. t # s
        BY <1>2, <4>1
      <4> QED BY <1>1, <2>2, <2>5, <4>2, <4>3
    <3> QED BY <3>1, <3>2 DEF Shape
  <2>10. Accounted'
    BY <1>1, <2>6, <2>7 DEF TreeInv, Global, Accounted, Root, Paths!Root
  <2>11. NewOnes'
    <3> SUFFICES ASSUME NEW q \in Procs, Makes(q)
                 PROVE  /\ sector[q] \in dir_map \ {Root} /\ open_cnt[sector[q]] = 0 /\ ~ Named(sector[q])'
                        /\ dir_entry[sector[q]] = Paths!NoEntries
                        /\ \A r \in Procs : Makes(r)' /\ sector[r] = sector[q] => r = q
      BY <1>1, <2>1 DEF NewOnes, Root, Paths!Root, Named, Paths!NoEntries
    <3> QED BY <1>1, <2>1, <2>6 DEF TreeInv, Global, NewOnes
  <2>12. Reach'
    <3> SUFFICES ASSUME NEW t \in dir_map, isdir[t], ~ Made(t)' PROVE t \in Paths!Below'
      BY <1>1 DEF Reach
    <3>1. t \in Paths!Below
      BY <2>7 DEF TreeInv, Global, Reach
    <3> QED BY <2>4, <2>5, <3>1, BelowGrows DEF TreeInv
  <2>13. Points'
    <3> SUFFICES ASSUME NEW q \in Procs PROVE Point(q)'
      BY DEF Points
    <3>1. CASE q = p
      BY <1>0, <1>1, <1>6, <2>1, <2>2, <2>3, <3>1 DEF Point, Paths!NameFree
    <3>2. CASE q # p
      <4>1. Point(q) /\ q # None
        BY PathsConstants DEF TreeInv, Points
      <4>2. pc[q] \in {"write", "erase"} => lock'[dir[q]] = lock[dir[q]]
        BY <2>3, <4>1 DEF Point
      <4>3. pc[q] = "write" => parent'[sector[q]] = parent[sector[q]]
        <5> SUFFICES ASSUME pc[q] = "write" PROVE parent'[sector[q]] = parent[sector[q]]
          OBVIOUS
        <5>1. Makes(q)
          BY DEF Makes
        <5>2. sector[q] \in Paths!Sectors /\ sector[q] # s
          BY <1>2, <3>2, <5>1, MakerAt
        <5> QED BY <2>2, <5>2
      <4>4. /\ pc'[q] = pc[q] /\ dir'[q] = dir[q] /\ cwd'[q] = cwd[q] /\ sector'[q] = sector[q]
            /\ call'[q] = call[q] /\ path'[q] = path[q] /\ broken' = broken
        BY <1>1, <2>1, <3>2
      <4> QED BY <1>1, <4>1, <4>2, <4>3, <4>4 DEF Point, Paths!NoEntries
    <3> QED BY <3>1, <3>2
  <2> QED BY <1>4, <2>1, <2>4, <2>8, <2>9, <2>10, <2>11, <2>12, <2>13 DEF TreeInv, Global
<1>7. \/ Paths!Goto(p, "undo") /\ UNCHANGED <<lock, parent>>
      \/ /\ Paths!NameFree(p) /\ lock' = [lock EXCEPT ![dir[p]] = p]
         /\ parent' = [parent EXCEPT ![s] = dir[p]] /\ Paths!Goto(p, "write")
  BY <1>0 DEF Paths!AddCheck, Paths!Recorded
<1> QED BY <1>5, <1>6, <1>7

-----------------------------------------------------------------------------
LEMMA AddWriteKeeps ==
  ASSUME TreeInv, NEW p \in Procs, Paths!AddWrite(p)
  PROVE  TreeInv'
<1>0. PICK s \in Paths!Sectors, d \in Paths!Sectors, n \in DirNames :
        s = sector[p] /\ d = dir[p] /\ n = path[p].last
  <2>1. pc[p] = "write"
    BY DEF Paths!AddWrite, Paths!At
  <2>2. sector[p] \in Paths!Sectors
    BY <2>1, MakerAt DEF Makes
  <2> QED BY <2>1, <2>2 DEF TreeInv, Points, Point
<1>1. /\ broken = None /\ broken' = None /\ pc[p] = "write" /\ Makes(p) /\ Erasing(p) = None
      /\ isdir[d] /\ lock[d] = p /\ parent[s] = d /\ dir_entry[d][n] = None
      /\ Paths!Ends(p)
      /\ dir_entry' = [dir_entry EXCEPT ![d][n] = s] /\ lock' = [lock EXCEPT ![d] = None]
      /\ sector' = [sector EXCEPT ![p] = None]
      /\ UNCHANGED <<dir_map, isdir, parent, open_cnt, removed, cwd, fds, dir, dir_lock, leaked>>
  BY <1>0 DEF Paths!AddWrite, Paths!At, Paths!Keep, TreeInv, Points, Point, Makes, Erasing
<1>2. /\ s \in dir_map \ {Root} /\ open_cnt[s] = 0 /\ ~ removed[s] /\ ~ Named(s)
      /\ dir_entry[s] = Paths!NoEntries
      /\ \A q \in Procs \ {p} : Makes(q) => sector[q] # s
      /\ \A q \in Procs : pc[q] = "erase" => sector[q] # s
      /\ d # s
  BY <1>0, <1>1, MakerAt
<1>3. Usable(d)
  BY <1>0, UsedUsable
<1>4. /\ DOMAIN pc' = Procs /\ DOMAIN call' = Procs /\ DOMAIN path' = Procs
      /\ pc'[p] = "close" /\ ~ Makes(p)' /\ Erasing(p)' = None /\ Point(p)'
      /\ \A q \in Procs \ {p} : pc'[q] = pc[q] /\ call'[q] = call[q] /\ path'[q] = path[q]
  BY <1>1, EndsAt
<1>5. /\ sector' \in [Procs -> Paths!Sectors \cup {None}]
      /\ \A q \in Procs \ {p} : sector'[q] = sector[q]
  BY <1>1, SectorsTyped
<1>6. /\ lock' \in [Paths!Sectors -> Procs \cup {None}]
      /\ \A x \in Paths!Sectors \ {d} : lock'[x] = lock[x]
  BY <1>1, SectorsTyped
<1>7. /\ dir_entry' \in [Paths!Sectors -> [DirNames -> Paths!Sectors \cup {None}]]
      /\ dir_entry'[d][n] = s
      /\ \A x \in Paths!Sectors, m \in DirNames : <<x, m>> # <<d, n>> => dir_entry'[x][m] = dir_entry[x][m]
      /\ \A x \in Paths!Sectors \ {d} : dir_entry'[x] = dir_entry[x]
  <2>1. dir_entry \in [Paths!Sectors -> [DirNames -> Paths!Sectors \cup {None}]]
    BY SectorsTyped
  <2>2. dir_entry' = [dir_entry EXCEPT ![d][n] = s]
    BY <1>1
  <2> QED BY ONLY <2>1, <2>2, <1>0
<1>8. DirTypes'
  BY <1>1, <1>4, <1>5, <1>6, <1>7 DEF TreeInv, DirTypes, Paths!TypeOK, Paths!SectorOrNone
<1>9. Counted'
  BY <1>1, <1>4, <1>5, CountedRests
<1>10. \A x, t \in Paths!Sectors, m \in DirNames :
         Edge(x, m, t)' <=> Edge(x, m, t) \/ (x = d /\ m = n /\ t = s)
  <2> SUFFICES ASSUME NEW x \in Paths!Sectors, NEW t \in Paths!Sectors, NEW m \in DirNames
               PROVE  Edge(x, m, t)' <=> Edge(x, m, t) \/ (x = d /\ m = n /\ t = s)
    OBVIOUS
  <2>1. CASE x = d /\ m = n
    <3>1. dir_entry[x][m] = None /\ dir_entry'[x][m] = s /\ None # t
      BY <1>1, <1>7, <2>1, PathsConstants
    <3>2. x \in dir_map /\ isdir[x] /\ x \in dir_map' /\ isdir'[x]
      BY <1>1, <1>3, <2>1 DEF Usable
    <3>3. Edge(x, m, t)' <=> t = s
      BY <3>1, <3>2 DEF Edge
    <3>4. ~ Edge(x, m, t)
      BY <3>1 DEF Edge
    <3> QED BY <2>1, <3>3, <3>4
  <2>2. CASE ~ (x = d /\ m = n)
    <3>1. dir_entry'[x][m] = dir_entry[x][m]
      BY <1>7, <2>2
    <3> QED BY <1>1, <2>2, <3>1 DEF Edge
  <2> QED BY <2>1, <2>2
<1>11. \A t \in Paths!Sectors : Named(t)' <=> Named(t) \/ t = s
  BY <1>0, <1>10 DEF Named
<1>12. \A q \in Procs : Makes(q)' <=> Makes(q) /\ q # p
  BY <1>4 DEF Makes
<1>13. \A t : Made(t)' <=> Made(t) /\ t # s
  BY <1>0, <1>1, <1>2, <1>5, <1>12 DEF Made
<1>14. \A t \in dir_map : t \in Paths!Sectors
  BY SectorsTyped
<1>15. InUse'
  BY <1>1 DEF TreeInv, Global, InUse
<1>16. RemovedFiles'
  BY <1>1, <1>2, <1>11 DEF TreeInv, Global, RemovedFiles
<1>17. Shape'
  <2>1. parent'[Root] = Root
    BY <1>1 DEF TreeInv, Global, Shape
  <2>2. ASSUME NEW x \in Paths!Sectors, NEW t \in Paths!Sectors, NEW m \in DirNames, Edge(x, m, t)'
        PROVE  /\ t \in dir_map' \ {Root} /\ parent'[t] = x
               /\ \A e \in Paths!Sectors, k \in DirNames : Edge(e, k, t)' => e = x /\ k = m
    <3>1. CASE t = s
      <4>1. \A e \in Paths!Sectors, k \in DirNames : ~ Edge(e, k, s)
        BY <1>2 DEF Named
      <4>2. x = d /\ m = n
        BY <1>10, <2>2, <3>1, <4>1
      <4> QED BY <1>1, <1>2, <1>10, <3>1, <4>1, <4>2
    <3>2. CASE t # s
      <4>1. Edge(x, m, t)
        BY <1>10, <2>2, <3>2
      <4>2. /\ t \in dir_map \ {Root} /\ parent[t] = x
            /\ \A e \in Paths!Sectors, k \in DirNames : Edge(e, k, t) => e = x /\ k = m
        BY <4>1 DEF TreeInv, Global, Shape
      <4> QED BY <1>1, <1>10, <3>2, <4>2
    <3> QED BY <3>1, <3>2
  <2> QED BY <2>1, <2>2 DEF Shape
<1>18. Accounted'
  BY <1>1, <1>11, <1>13, <1>14 DEF TreeInv, Global, Accounted, Root, Paths!Root
<1>19. NewOnes'
  <2> SUFFICES ASSUME NEW q \in Procs, Makes(q)'
               PROVE  /\ sector'[q] \in dir_map' \ {Root} /\ open_cnt'[sector'[q]] = 0 /\ ~ Named(sector[q])'
                      /\ dir_entry'[sector'[q]] = Paths!NoEntries
                      /\ \A r \in Procs : Makes(r)' /\ sector'[r] = sector'[q] => r = q
    BY DEF NewOnes, Root, Paths!Root, Paths!NoEntries
  <2>1. q # p /\ Makes(q) /\ sector'[q] = sector[q]
    BY <1>5, <1>12
  <2>2. PICK t \in Paths!Sectors : t = sector[q]
    BY <2>1, MakerAt
  <2>3. /\ t \in dir_map \ {Root} /\ open_cnt[t] = 0 /\ ~ Named(t) /\ dir_entry[t] = Paths!NoEntries
        /\ \A r \in Procs \ {q} : Makes(r) => sector[r] # t
    BY <2>1, <2>2, MakerAt
  <2>4. t # s
    BY <1>2, <2>1, <2>2
  <2>5. t # d
    BY <1>0, <2>1, <2>2, MakerAt
  <2>6. ~ Named(t)' /\ dir_entry'[t] = Paths!NoEntries
    BY <1>7, <1>11, <2>3, <2>4, <2>5
  <2>7. \A r \in Procs : Makes(r)' /\ sector'[r] = t => r = q
    BY <1>5, <1>12, <2>3
  <2> QED BY <1>1, <2>1, <2>2, <2>3, <2>6, <2>7
<1>20. Reach'
  <2> SUFFICES ASSUME NEW t \in dir_map, isdir[t], ~ Made(t)' PROVE t \in Paths!Below'
    BY <1>1 DEF Reach
  <2>1. ASSUME NEW x \in Paths!Below PROVE x \in Paths!Below'
    BY <1>8, <1>10, BelowGrows DEF TreeInv
  <2>2. d \in Paths!Below'
    BY <1>1, <1>3, <2>1 DEF TreeInv, Global, Reach, Usable
  <2>3. CASE t = s
    <3>1. ASSUME NEW X \in SUBSET Paths!Sectors, ClosedSet(X)' PROVE s \in X
      <4>1. d \in X
        BY <1>8, <2>2, <3>1, BelowIsNext
      <4>2. Edge(d, n, s)'
        BY <1>0, <1>10
      <4> QED BY <1>0, <3>1, <4>1, <4>2 DEF ClosedSet
    <3> QED BY <1>8, <2>3, <3>1, BelowIsNext
  <2>4. CASE t # s
    BY <1>13, <2>1, <2>4 DEF TreeInv, Global, Reach
  <2> QED BY <2>3, <2>4
<1>21. Points'
  <2> SUFFICES ASSUME NEW q \in Procs \ {p} PROVE Point(q)'
    BY <1>4 DEF Points
  <2>1. Point(q)
    BY DEF TreeInv, Points
  <2>2. pc[q] \in {"write", "erase"} =>
          /\ lock'[dir[q]] = lock[dir[q]]
          /\ dir_entry'[dir[q]] = dir_entry[dir[q]]
    <3>1. pc[q] \in {"write", "erase"} => dir[q] \in Paths!Sectors \ {d}
      BY <1>1, <2>1 DEF Point
    <3> QED BY <1>6, <1>7, <3>1
  <2>3. pc[q] = "erase" /\ isdir[sector[q]] => dir_entry'[sector[q]] = dir_entry[sector[q]]
    <3>1. pc[q] = "erase" /\ isdir[sector[q]] => sector[q] \in Paths!Sectors \ {d}
      BY <1>3, <2>1 DEF Usable, Point
    <3> QED BY <1>7, <3>1
  <2>4. /\ pc'[q] = pc[q] /\ dir'[q] = dir[q] /\ cwd'[q] = cwd[q] /\ sector'[q] = sector[q]
        /\ call'[q] = call[q] /\ path'[q] = path[q] /\ broken' = broken
    BY <1>1, <1>4, <1>5
  <2> QED BY <1>1, <2>1, <2>2, <2>3, <2>4 DEF Point, Paths!NoEntries
<1>22. Paths!FilesGuarded'
  <2>1. broken' # "sector twice"
    BY <1>1, PathsConstants
  <2> QED BY <2>1 DEF Paths!FilesGuarded
<1> QED BY <1>8, <1>9, <1>15, <1>16, <1>17, <1>18, <1>19, <1>20, <1>21, <1>22 DEF TreeInv, Global

\* A new inode without a name is given back.
LEMMA UndoKeeps ==
  ASSUME TreeInv, NEW p \in Procs, Paths!Undo(p)
  PROVE  TreeInv'
<1>0. PICK s \in Paths!Sectors : s = sector[p]
  BY MakerAt DEF Paths!Undo, Paths!At, Makes
<1>1. /\ broken = None /\ broken' = None /\ pc[p] = "undo" /\ Makes(p) /\ Erasing(p) = None
      /\ Paths!Ends(p) /\ dir_map' = dir_map \ {s} /\ sector' = [sector EXCEPT ![p] = None]
      /\ UNCHANGED <<isdir, parent, dir_entry, open_cnt, removed, lock, cwd, fds, dir, dir_lock, leaked>>
  BY <1>0 DEF Paths!Undo, Paths!At, Paths!Keep, Paths!inodes, Makes, Erasing
<1>2. /\ s \in dir_map \ {Root} /\ open_cnt[s] = 0 /\ ~ Named(s)
      /\ \A n \in DirNames : dir_entry[s][n] = None
      /\ \A q \in Procs \ {p} : Makes(q) => sector[q] # s
  BY <1>0, <1>1, MakerAt DEF Paths!NoEntries
<1>3. /\ DOMAIN pc' = Procs /\ DOMAIN call' = Procs /\ DOMAIN path' = Procs
      /\ pc'[p] = "close" /\ ~ Makes(p)' /\ Erasing(p)' = None /\ Point(p)'
      /\ \A q \in Procs \ {p} : pc'[q] = pc[q] /\ call'[q] = call[q] /\ path'[q] = path[q]
  BY <1>1, EndsAt
<1>4. /\ sector' \in [Procs -> Paths!Sectors \cup {None}]
      /\ \A q \in Procs \ {p} : sector'[q] = sector[q]
  BY <1>1, SectorsTyped
<1>5. DirTypes'
  <2>1. dir_map' \subseteq Paths!Sectors /\ Root \in dir_map'
    BY <1>1, <1>2, SectorsTyped, PathsConstants
  <2> QED BY <1>1, <1>3, <1>4, <2>1 DEF TreeInv, DirTypes, Paths!TypeOK, Paths!SectorOrNone, Root, Paths!Root
<1>6. Counted'
  BY <1>1, <1>3, <1>4, CountedRests
<1>7. \A x, t \in Paths!Sectors, m \in DirNames : Edge(x, m, t)' <=> Edge(x, m, t)
  <2> SUFFICES ASSUME NEW x \in Paths!Sectors, NEW t \in Paths!Sectors, NEW m \in DirNames
               PROVE  Edge(x, m, t)' <=> Edge(x, m, t)
    OBVIOUS
  <2>1. CASE x = s
    <3>1. dir_entry[x][m] # t
      BY ONLY <1>2, <2>1, m \in DirNames, t \in Paths!Sectors, PathsConstants
    <3> QED BY ONLY <1>1, <3>1 DEF Edge
  <2>2. CASE x # s
    BY ONLY <1>1, <2>2 DEF Edge
  <2> QED BY <2>1, <2>2
<1>8. \A t \in Paths!Sectors : Named(t)' <=> Named(t)
  BY <1>7 DEF Named
<1>9. \A q \in Procs : Makes(q)' <=> Makes(q) /\ q # p
  BY <1>3 DEF Makes
<1>10. \A t : Made(t)' <=> Made(t) /\ t # s
  BY <1>0, <1>1, <1>2, <1>4, <1>9 DEF Made
<1>11. \A t \in dir_map' : t \in Paths!Sectors /\ t \in dir_map /\ t # s
  BY <1>1, SectorsTyped
<1>12. InUse'
  <2> SUFFICES ASSUME NEW t \in Paths!Sectors, open_cnt[t] > 0 PROVE t \in dir_map'
    BY <1>1 DEF InUse
  <2>1. t \in dir_map
    BY DEF TreeInv, Global, InUse
  <2>2. t # s
    BY <1>2
  <2> QED BY <1>1, <2>1, <2>2
<1>13. RemovedFiles'
  BY <1>1, <1>8 DEF TreeInv, Global, RemovedFiles
<1>14. Shape'
  <2>1. parent'[Root] = Root
    BY <1>1 DEF TreeInv, Global, Shape
  <2>2. ASSUME NEW x \in Paths!Sectors, NEW t \in Paths!Sectors, NEW m \in DirNames, Edge(x, m, t)'
        PROVE  /\ t \in dir_map' \ {Root} /\ parent'[t] = x
               /\ \A e \in Paths!Sectors, k \in DirNames : Edge(e, k, t)' => e = x /\ k = m
    <3>1. Edge(x, m, t) /\ Named(t)
      BY <1>7, <2>2 DEF Named
    <3>2. /\ t \in dir_map \ {Root} /\ parent[t] = x
          /\ \A e \in Paths!Sectors, k \in DirNames : Edge(e, k, t) => e = x /\ k = m
      BY <3>1 DEF TreeInv, Global, Shape
    <3> QED BY <1>1, <1>2, <1>7, <3>1, <3>2
  <2> QED BY <2>1, <2>2 DEF Shape
<1>15. Accounted'
  BY <1>1, <1>8, <1>10, <1>11 DEF TreeInv, Global, Accounted, Root, Paths!Root
<1>16. NewOnes'
  <2> SUFFICES ASSUME NEW q \in Procs, Makes(q)'
               PROVE  /\ sector'[q] \in dir_map' \ {Root} /\ open_cnt'[sector'[q]] = 0 /\ ~ Named(sector[q])'
                      /\ dir_entry'[sector'[q]] = Paths!NoEntries
                      /\ \A r \in Procs : Makes(r)' /\ sector'[r] = sector'[q] => r = q
    BY DEF NewOnes, Root, Paths!Root, Paths!NoEntries
  <2>1. q # p /\ Makes(q) /\ sector'[q] = sector[q]
    BY <1>4, <1>9
  <2>2. PICK t \in Paths!Sectors : t = sector[q]
    BY <2>1, MakerAt
  <2>3. /\ t \in dir_map \ {Root} /\ open_cnt[t] = 0 /\ ~ Named(t) /\ dir_entry[t] = Paths!NoEntries
        /\ \A r \in Procs \ {q} : Makes(r) => sector[r] # t
    BY <2>1, <2>2, MakerAt
  <2>4. t # s
    BY <1>2, <2>1, <2>2
  <2>5. \A r \in Procs : Makes(r)' /\ sector'[r] = t => r = q
    BY <1>4, <1>9, <2>3
  <2> QED BY <1>1, <1>8, <2>1, <2>2, <2>3, <2>4, <2>5
<1>17. Reach'
  <2> SUFFICES ASSUME NEW t \in dir_map', isdir'[t], ~ Made(t)' PROVE t \in Paths!Below'
    BY DEF Reach
  <2>1. t \in Paths!Below
    BY <1>1, <1>10, <1>11 DEF TreeInv, Global, Reach
  <2> QED BY <1>5, <1>7, <2>1, BelowGrows DEF TreeInv
<1>18. Points'
  <2> SUFFICES ASSUME NEW q \in Procs \ {p} PROVE Point(q)'
    BY <1>3 DEF Points
  <2>1. Point(q)
    BY DEF TreeInv, Points
  <2>2. /\ pc'[q] = pc[q] /\ dir'[q] = dir[q] /\ cwd'[q] = cwd[q] /\ sector'[q] = sector[q]
        /\ call'[q] = call[q] /\ path'[q] = path[q] /\ broken' = broken
    BY <1>1, <1>3, <1>4
  <2> QED BY <1>1, <1>11, <2>1, <2>2 DEF Point, Paths!NoEntries
<1>19. Paths!FilesGuarded'
  <2>1. broken' # "sector twice"
    BY <1>1, PathsConstants
  <2> QED BY <2>1 DEF Paths!FilesGuarded
<1> QED BY <1>5, <1>6, <1>12, <1>13, <1>14, <1>15, <1>16, <1>17, <1>18, <1>19 DEF TreeInv, Global

-----------------------------------------------------------------------------
\* What is about to be erased is open.
LEMMA ErasedOpen ==
  ASSUME TreeInv, broken = None, NEW p \in Procs, pc[p] = "erase"
  PROVE  open_cnt[sector[p]] > 0
<1>0. PICK s \in Paths!Sectors : s = sector[p]
  BY ErasedNamed, SectorsTyped
<1> DEFINE c == Uses(cwd, Procs, s)
           d == Uses(dir, Procs, s)
           o == Uses(Opens, Procs \X DirHandles, s)
           e == Uses(Erases, Procs, s)
<1>1. c \in Nat /\ d \in Nat /\ o \in Nat /\ e \in Nat
  BY UsesCount, ReferencesFinite
<1>2. e > 0
  <2>1. Erases[p] = s
    BY <1>0 DEF Erases
  <2> QED BY <2>1, UsesCount, ReferencesFinite
<1>3. open_cnt[s] = c + d + o + e + leaked[s] /\ leaked[s] \in Nat
  BY ReferencesAre, SectorsTyped DEF TreeInv, Counted
<1> HIDE DEF c, d, o, e
<1>4. open_cnt[s] > 0
  BY ONLY <1>1, <1>2, <1>3
<1> QED BY <1>0, <1>4

\* The entry is erased, and the inode goes as soon as nobody has it open.
LEMMA EraseKeeps ==
  ASSUME TreeInv, NEW p \in Procs, Paths!Erase(p)
  PROVE  TreeInv'
<1>0. PICK s \in Paths!Sectors, d \in Paths!Sectors, n \in DirNames :
        s = sector[p] /\ d = dir[p] /\ n = path[p].last
  BY ErasedNamed, SectorsTyped DEF Paths!Erase, Paths!At
<1>1. /\ broken = None /\ broken' = None /\ pc[p] = "erase" /\ ~ Makes(p) /\ Erasing(p) = s
      /\ Paths!Ends(p) /\ dir_entry' = [dir_entry EXCEPT ![d][n] = None]
      /\ Paths!Inodes(Paths!Closed(open_cnt, s), [removed EXCEPT ![s] = TRUE])
      /\ lock' = [lock EXCEPT ![d] = None] /\ sector' = [sector EXCEPT ![p] = None]
      /\ UNCHANGED <<isdir, parent, cwd, fds, dir, dir_lock, leaked>>
  BY <1>0 DEF Paths!Erase, Paths!At, Paths!Keep, Makes, Erasing
<1>2. /\ s \in dir_map \ {Root} /\ d \in dir_map /\ Edge(d, n, s) /\ lock[d] = p
      /\ open_cnt[s] \in Nat /\ open_cnt[s] > 0
      /\ isdir[s] => open_cnt[s] = 1 /\ dir_entry[s] = Paths!NoEntries
  <2>1. isdir[s] => open_cnt[s] = 1 /\ dir_entry[s] = Paths!NoEntries
    BY <1>0, <1>1 DEF TreeInv, Points, Point
  <2> QED BY <1>0, <1>1, <2>1, ErasedNamed, ErasedOpen, SectorsTyped
<1>3. PICK cnt \in [Paths!Sectors -> Nat] :
        /\ cnt = Paths!Closed(open_cnt, s)
        /\ \A t \in Paths!Sectors : cnt[t] = open_cnt[t] - One(s, t)
  <2>1. open_cnt \in [Paths!Sectors -> Nat] /\ open_cnt[s] > 0
    BY <1>2, SectorsTyped
  <2>2. /\ Paths!Closed(open_cnt, s) \in [Paths!Sectors -> Nat]
        /\ \A t \in Paths!Sectors : Paths!Closed(open_cnt, s)[t] = open_cnt[t] - One(s, t)
    BY <2>1, ClosedIs
  <2> QED BY <2>2
<1>4. /\ cnt[s] = open_cnt[s] - 1
      /\ \A t \in Paths!Sectors \ {s} : cnt[t] = open_cnt[t]
  <2>1. cnt[s] = open_cnt[s] - 1
    BY <1>3 DEF One
  <2>2. ASSUME NEW t \in Paths!Sectors \ {s} PROVE cnt[t] = open_cnt[t]
    <3>1. cnt[t] = open_cnt[t] - One(s, t) /\ open_cnt[t] \in Nat /\ One(s, t) = 0
      BY <1>3, SectorsTyped, OneIs
    <3> QED BY ONLY <3>1
  <2> QED BY <2>1, <2>2
<1>5. /\ open_cnt' = cnt
      /\ removed' \in [Paths!Sectors -> BOOLEAN]
      /\ removed'[s] <=> cnt[s] > 0
      /\ \A t \in Paths!Sectors \ {s} : removed'[t] <=> removed[t]
      /\ dir_map' = IF cnt[s] = 0 THEN dir_map \ {s} ELSE dir_map
  <2> DEFINE rem == [removed EXCEPT ![s] = TRUE]
  <2>1. rem \in [Paths!Sectors -> BOOLEAN] /\ rem[s] /\ \A t \in Paths!Sectors \ {s} : rem[t] = removed[t]
    BY SectorsTyped
  <2>2. /\ open_cnt' = cnt
        /\ removed' = [t \in Paths!Sectors |-> rem[t] /\ cnt[t] > 0]
        /\ dir_map' = dir_map \ {t \in Paths!Sectors : rem[t] /\ cnt[t] = 0}
    BY <1>1, <1>3 DEF Paths!Inodes
  <2> HIDE DEF rem
  <2>3. ASSUME NEW t \in Paths!Sectors \ {s}, removed[t] PROVE cnt[t] > 0 /\ cnt[t] # 0
    <3>1. open_cnt[t] > 0 /\ open_cnt[t] \in Nat
      BY <2>3, SectorsTyped DEF TreeInv, Global, RemovedFiles
    <3> QED BY <1>4, <3>1
  <2>4. removed' \in [Paths!Sectors -> BOOLEAN] /\ (removed'[s] <=> cnt[s] > 0)
    BY <2>1, <2>2
  <2>5. \A t \in Paths!Sectors \ {s} : removed'[t] <=> removed[t]
    BY <2>1, <2>2, <2>3, SectorsTyped
  <2>6. {t \in Paths!Sectors : rem[t] /\ cnt[t] = 0} = IF cnt[s] = 0 THEN {s} ELSE {}
    BY <2>1, <2>3
  <2> QED BY <2>2, <2>4, <2>5, <2>6
<1>6. /\ DOMAIN pc' = Procs /\ DOMAIN call' = Procs /\ DOMAIN path' = Procs
      /\ pc'[p] = "close" /\ ~ Makes(p)' /\ Erasing(p)' = None /\ Point(p)'
      /\ \A q \in Procs \ {p} : pc'[q] = pc[q] /\ call'[q] = call[q] /\ path'[q] = path[q]
  BY <1>1, EndsAt
<1>7. /\ sector' \in [Procs -> Paths!Sectors \cup {None}]
      /\ \A q \in Procs \ {p} : sector'[q] = sector[q]
  BY <1>1, SectorsTyped
<1>8. /\ lock' \in [Paths!Sectors -> Procs \cup {None}]
      /\ \A x \in Paths!Sectors \ {d} : lock'[x] = lock[x]
  BY <1>1, SectorsTyped
<1>9. /\ dir_entry' \in [Paths!Sectors -> [DirNames -> Paths!Sectors \cup {None}]]
      /\ dir_entry'[d][n] = None
      /\ \A x \in Paths!Sectors, m \in DirNames : <<x, m>> # <<d, n>> => dir_entry'[x][m] = dir_entry[x][m]
      /\ \A x \in Paths!Sectors \ {d} : dir_entry'[x] = dir_entry[x]
  <2>1. dir_entry \in [Paths!Sectors -> [DirNames -> Paths!Sectors \cup {None}]]
    BY SectorsTyped
  <2>2. dir_entry' = [dir_entry EXCEPT ![d][n] = None]
    BY <1>1
  <2> QED BY ONLY <2>1, <2>2, <1>0
<1>10. DirTypes'
  <2>1. dir_map' \subseteq Paths!Sectors /\ Root \in dir_map'
    BY <1>2, <1>5, SectorsTyped, PathsConstants
  <2> QED BY <1>1, <1>5, <1>6, <1>7, <1>8, <1>9, <2>1
          DEF TreeInv, DirTypes, Paths!TypeOK, Paths!SectorOrNone, Root, Paths!Root
<1>11. Counted'
  <2> SUFFICES ASSUME NEW t \in Paths!Sectors PROVE cnt[t] = Paths!References(t)' + leaked[t]
    BY <1>1, <1>5 DEF Counted
  <2>1. /\ Paths!References(t) \in Nat /\ Paths!References(t)' \in Nat
        /\ Paths!References(t)'
             = Paths!References(t) - One(cwd[p], t) + One(cwd'[p], t) - One(dir[p], t) + One(dir'[p], t)
                 - One(None, t) + One(None, t) - One(Erasing(p), t) + One(Erasing(p)', t)
    <3>1. /\ \A q \in Procs \ {p} : /\ cwd'[q] = cwd[q] /\ dir'[q] = dir[q]
                                     /\ pc'[q] = pc[q] /\ sector'[q] = sector[q]
          /\ UNCHANGED fds
      BY <1>1, <1>6, <1>7
    <3> QED BY ONLY <3>1, ReferencesMove, p \in Procs, t \in Paths!Sectors
  <2>2. /\ One(cwd'[p], t) = One(cwd[p], t) /\ One(dir'[p], t) = One(dir[p], t)
        /\ One(Erasing(p), t) = One(s, t) /\ One(Erasing(p)', t) = One(None, t)
    BY <1>1, <1>6
  <2>3. /\ One(cwd[p], t) \in {0, 1} /\ One(dir[p], t) \in {0, 1} /\ One(None, t) = 0 /\ One(s, t) \in {0, 1}
    BY OneIs, NoneIsNo
  <2>4. /\ open_cnt[t] = Paths!References(t) + leaked[t] /\ leaked[t] \in Nat
        /\ cnt[t] = open_cnt[t] - One(s, t)
    BY <1>3, SectorsTyped DEF TreeInv, Counted
  <2> QED BY ONLY <2>1, <2>2, <2>3, <2>4
<1>12. \A x \in Paths!Sectors, m \in DirNames : Edge(x, m, s) => x = d /\ m = n
  BY <1>0, <1>2 DEF TreeInv, Global, Shape
<1>13. \A x, t \in Paths!Sectors, m \in DirNames : Edge(x, m, t)' <=> Edge(x, m, t) /\ t # s
  <2> SUFFICES ASSUME NEW x \in Paths!Sectors, NEW t \in Paths!Sectors, NEW m \in DirNames
               PROVE  Edge(x, m, t)' <=> Edge(x, m, t) /\ t # s
    OBVIOUS
  <2>1. CASE x = d /\ m = n
    <3>1. ~ Edge(x, m, t)'
      BY <1>9, <2>1, PathsConstants DEF Edge
    <3>2. Edge(x, m, t) => t = s
      BY <1>2, <2>1 DEF Edge
    <3> QED BY <3>1, <3>2
  <2>2. CASE ~ (x = d /\ m = n)
    <3>1. dir_entry'[x][m] = dir_entry[x][m] /\ isdir'[x] = isdir[x]
      BY <1>1, <1>9, <2>2
    <3>2. CASE x = s /\ isdir[s]
      <4>1. dir_entry[x][m] # t
        BY <1>2, <3>2, PathsConstants DEF Paths!NoEntries
      <4> QED BY <3>1, <4>1 DEF Edge
    <3>3. CASE x # s \/ ~ isdir[s]
      <4>1. Edge(x, m, t)' <=> Edge(x, m, t)
        BY <1>5, <3>1, <3>3 DEF Edge
      <4> QED BY <1>12, <2>2, <4>1
    <3> QED BY <3>2, <3>3
  <2> QED BY <2>1, <2>2
<1>14. \A t \in Paths!Sectors : Named(t)' <=> Named(t) /\ t # s
  BY <1>13 DEF Named
<1>15. \A q \in Procs : Makes(q)' <=> Makes(q)
  BY <1>1, <1>6 DEF Makes
<1>16. \A t : Made(t)' <=> Made(t)
  BY <1>1, <1>7, <1>15 DEF Made
<1>17. \A t \in dir_map' : t \in Paths!Sectors /\ t \in dir_map /\ (t = s => cnt[s] # 0)
  BY <1>5, SectorsTyped
<1>18. cnt[s] \in Nat /\ (isdir[s] => cnt[s] = 0)
  BY <1>2, <1>4
<1>19. InUse'
  <2> SUFFICES ASSUME NEW t \in Paths!Sectors, cnt[t] > 0 PROVE t \in dir_map'
    BY <1>5 DEF InUse
  <2>1. CASE t = s
    BY <1>2, <1>5, <1>18, <2>1
  <2>2. CASE t # s
    BY <1>4, <1>5, <2>2 DEF TreeInv, Global, InUse
  <2> QED BY <2>1, <2>2
<1>20. RemovedFiles'
  <2> SUFFICES ASSUME NEW t \in Paths!Sectors, removed'[t]
               PROVE  cnt[t] > 0 /\ ~ isdir[t] /\ ~ Named(t)'
    BY <1>1, <1>5 DEF RemovedFiles
  <2>1. CASE t = s
    BY <1>5, <1>14, <1>18, <2>1
  <2>2. CASE t # s
    <3>1. removed[t]
      BY <1>5, <2>2
    <3>2. open_cnt[t] > 0 /\ ~ isdir[t] /\ ~ Named(t)
      BY <3>1 DEF TreeInv, Global, RemovedFiles
    <3> QED BY <1>4, <1>14, <2>2, <3>2
  <2> QED BY <2>1, <2>2
<1>21. Shape'
  <2>1. parent'[Root] = Root
    BY <1>1 DEF TreeInv, Global, Shape
  <2>2. ASSUME NEW x \in Paths!Sectors, NEW t \in Paths!Sectors, NEW m \in DirNames, Edge(x, m, t)'
        PROVE  /\ t \in dir_map' \ {Root} /\ parent'[t] = x
               /\ \A e \in Paths!Sectors, k \in DirNames : Edge(e, k, t)' => e = x /\ k = m
    <3>1. Edge(x, m, t) /\ t # s
      BY <1>13, <2>2
    <3>2. /\ t \in dir_map \ {Root} /\ parent[t] = x
          /\ \A e \in Paths!Sectors, k \in DirNames : Edge(e, k, t) => e = x /\ k = m
      BY <3>1 DEF TreeInv, Global, Shape
    <3> QED BY <1>1, <1>5, <1>13, <3>1, <3>2
  <2> QED BY <2>1, <2>2 DEF Shape
<1>22. Accounted'
  <2> SUFFICES ASSUME NEW t \in dir_map', t # Root PROVE Named(t)' \/ removed'[t] \/ Made(t)'
    BY DEF Accounted, Root, Paths!Root
  <2>1. CASE t = s
    BY <1>5, <1>17, <1>18, <2>1
  <2>2. CASE t # s
    BY <1>5, <1>14, <1>16, <1>17, <2>2 DEF TreeInv, Global, Accounted
  <2> QED BY <2>1, <2>2
<1>23. NewOnes'
  <2> SUFFICES ASSUME NEW q \in Procs, Makes(q)'
               PROVE  /\ sector'[q] \in dir_map' \ {Root} /\ open_cnt'[sector'[q]] = 0 /\ ~ Named(sector[q])'
                      /\ dir_entry'[sector'[q]] = Paths!NoEntries
                      /\ \A r \in Procs : Makes(r)' /\ sector'[r] = sector'[q] => r = q
    BY DEF NewOnes, Root, Paths!Root, Paths!NoEntries
  <2>1. q # p /\ Makes(q) /\ sector'[q] = sector[q]
    BY <1>1, <1>7, <1>15
  <2>2. PICK t \in Paths!Sectors : t = sector[q]
    BY <2>1, MakerAt
  <2>3. /\ t \in dir_map \ {Root} /\ open_cnt[t] = 0 /\ ~ Named(t) /\ dir_entry[t] = Paths!NoEntries
        /\ \A r \in Procs \ {q} : Makes(r) => sector[r] # t
    BY <2>1, <2>2, MakerAt
  <2>4. t # s
    BY <1>0, <1>1, <2>1, <2>2, MakerAt
  <2>5. t # d
    BY <1>0, <2>1, <2>2, MakerAt
  <2>6. ~ Named(t)' /\ dir_entry'[t] = Paths!NoEntries /\ cnt[t] = 0 /\ t \in dir_map'
    BY <1>4, <1>5, <1>9, <1>14, <2>3, <2>4, <2>5
  <2>7. \A r \in Procs : Makes(r)' /\ sector'[r] = t => r = q
    BY <1>1, <1>7, <1>15, <2>3
  <2> QED BY <1>5, <2>1, <2>2, <2>3, <2>6, <2>7
<1>24. Reach'
  <2> SUFFICES ASSUME NEW t \in dir_map', isdir[t], ~ Made(t)' PROVE t \in Paths!Below'
    BY <1>1 DEF Reach
  <2>1. t # s /\ t \in Paths!Sectors /\ t \in Paths!Below
    BY <1>16, <1>17, <1>18 DEF TreeInv, Global, Reach
  <2>2. ASSUME NEW X \in SUBSET Paths!Sectors, ClosedSet(X)' PROVE t \in X
    <3>1. Root \in X /\ \A x, y \in Paths!Sectors, m \in DirNames : Edge(x, m, y)' /\ x \in X => y \in X
      BY <2>2 DEF ClosedSet, Root, Paths!Root
    <3>2. \A y \in Paths!Sectors, m \in DirNames : ~ Edge(s, m, y)
      <4> SUFFICES ASSUME NEW y \in Paths!Sectors, NEW m \in DirNames, isdir[s] PROVE dir_entry[s][m] # y
        BY DEF Edge
      <4> QED BY <1>2, PathsConstants DEF Paths!NoEntries
    <3>3. ASSUME NEW x \in Paths!Sectors, NEW y \in Paths!Sectors, NEW m \in DirNames,
                 Edge(x, m, y), x \in X \cup {s}
          PROVE  y \in X \cup {s}
      BY <1>13, <3>1, <3>2, <3>3
    <3>4. ClosedSet(X \cup {s})
      BY <3>1, <3>3 DEF ClosedSet
    <3>5. X \cup {s} \in SUBSET Paths!Sectors
      BY <1>0
    <3>6. t \in X \cup {s}
      BY <2>1, <3>4, <3>5, BelowIs DEF TreeInv
    <3> QED BY <2>1, <3>6
  <2> QED BY <1>10, <2>1, <2>2, BelowIsNext
<1>25. Points'
  <2> SUFFICES ASSUME NEW q \in Procs \ {p} PROVE Point(q)'
    BY <1>6 DEF Points
  <2>1. Point(q)
    BY DEF TreeInv, Points
  <2>2. pc[q] \in {"write", "erase"} =>
          /\ dir[q] \in Paths!Sectors \ {d}
          /\ lock'[dir[q]] = lock[dir[q]]
          /\ dir_entry'[dir[q]] = dir_entry[dir[q]]
    <3>1. pc[q] \in {"write", "erase"} => dir[q] \in Paths!Sectors \ {d}
      BY <1>2, <2>1 DEF Point
    <3> QED BY <1>8, <1>9, <3>1
  <2>3. pc[q] = "erase" /\ isdir[sector[q]] =>
          dir_entry'[sector[q]] = dir_entry[sector[q]] /\ cnt[sector[q]] = open_cnt[sector[q]]
    <3> SUFFICES ASSUME pc[q] = "erase", isdir[sector[q]]
                 PROVE  dir_entry'[sector[q]] = dir_entry[sector[q]] /\ cnt[sector[q]] = open_cnt[sector[q]]
      OBVIOUS
    <3>1. sector[q] \in Paths!Sectors /\ dir_entry[sector[q]] = Paths!NoEntries
      BY <2>1 DEF Point
    <3>2. sector[q] # d
      <4>1. dir_entry[d][n] = s /\ s # None
        BY <1>2, PathsConstants DEF Edge
      <4> QED BY <3>1, <4>1 DEF Paths!NoEntries
    <3>3. sector[q] # s
      <4>1. Edge(dir[q], path[q].last, sector[q]) /\ path[q].last \in DirNames
        BY <1>1, ErasedNamed
      <4> QED BY <1>12, <2>2, <4>1
    <3> QED BY <1>4, <1>9, <3>1, <3>2, <3>3
  <2>4. /\ pc'[q] = pc[q] /\ dir'[q] = dir[q] /\ cwd'[q] = cwd[q] /\ sector'[q] = sector[q]
        /\ call'[q] = call[q] /\ path'[q] = path[q] /\ broken' = broken
    BY <1>1, <1>6, <1>7
  <2> QED BY <1>1, <1>5, <1>17, <2>1, <2>2, <2>3, <2>4 DEF Point, Paths!NoEntries
<1>26. Paths!FilesGuarded'
  <2>1. broken' # "sector twice"
    BY <1>1, PathsConstants
  <2> QED BY <2>1 DEF Paths!FilesGuarded
<1> QED BY <1>10, <1>11, <1>19, <1>20, <1>21, <1>22, <1>23, <1>24, <1>25, <1>26 DEF TreeInv, Global

-----------------------------------------------------------------------------
LEMMA PathsInit ==
  ASSUME Paths!Init
  PROVE  TreeInv
<1>1. /\ dir_map = {Root}
      /\ isdir = [s \in Paths!Sectors |-> s = Root]
      /\ parent = [s \in Paths!Sectors |-> Root]
      /\ dir_entry = [s \in Paths!Sectors |-> Paths!NoEntries]
      /\ open_cnt = [s \in Paths!Sectors |-> 0]
      /\ removed = [s \in Paths!Sectors |-> FALSE]
      /\ lock = [s \in Paths!Sectors |-> None]
      /\ cwd = [p \in Procs |-> None]
      /\ fds = [p \in Procs |-> [h \in DirHandles |-> None]]
      /\ pc = [p \in Procs |-> IF p = First THEN "user" ELSE "new"]
      /\ call = [p \in Procs |-> None]
      /\ path = [p \in Procs |-> None]
      /\ dir = [p \in Procs |-> None]
      /\ sector = [p \in Procs |-> None]
      /\ leaked = [s \in Paths!Sectors |-> 0]
      /\ broken = None
  BY DEF Paths!Init, Root
<1>2. /\ Root \in Paths!Sectors /\ None \notin Paths!Sectors
      /\ None \notin {"create", "mkdir", "open", "remove", "chdir"}
      /\ None \notin {"file as directory", "sector twice", "kernel fault"}
  BY PathsConstants
<1>3. \A d, s \in Paths!Sectors, n \in DirNames : ~ Edge(d, n, s)
  BY <1>1, <1>2 DEF Edge, Paths!NoEntries
<1>4. \A s \in Paths!Sectors : ~ Named(s)
  BY <1>3 DEF Named
<1>5. \A p \in Procs : pc[p] \in {"user", "new"} /\ ~ Makes(p)
  BY <1>1 DEF Makes
<1>6. DirTypes
  <2>1. dir_entry \in [Paths!Sectors -> [DirNames -> Paths!SectorOrNone]]
    BY <1>1 DEF Paths!NoEntries, Paths!SectorOrNone
  <2> QED BY <1>1, <1>2, <2>1 DEF DirTypes, Paths!TypeOK, Paths!SectorOrNone, Root, Paths!Root
<1>7. Counted
  <2> SUFFICES ASSUME NEW s \in Paths!Sectors PROVE open_cnt[s] = Paths!References(s) + leaked[s]
    BY DEF Counted
  <2>1. /\ {p \in Procs : cwd[p] = s} = {} /\ {p \in Procs : dir[p] = s} = {}
        /\ {x \in Procs \X DirHandles : Opens[x] = s} = {} /\ {p \in Procs : Erases[p] = s} = {}
    BY <1>1, <1>2, <1>5 DEF Opens, Erases
  <2>2. /\ Uses(cwd, Procs, s) = 0 /\ Uses(dir, Procs, s) = 0
        /\ Uses(Opens, Procs \X DirHandles, s) = 0 /\ Uses(Erases, Procs, s) = 0
    BY <2>1, FS_EmptySet DEF Uses
  <2>3. Paths!References(s) = 0
    BY <2>2, ReferencesAre
  <2> QED BY <1>1, <2>3
<1>8. InUse /\ RemovedFiles /\ Shape /\ Accounted /\ NewOnes
  <2>1. InUse
    BY <1>1 DEF InUse
  <2>2. RemovedFiles
    BY <1>1 DEF RemovedFiles
  <2>3. Shape
    BY <1>1, <1>2, <1>3 DEF Shape
  <2>4. Accounted
    BY <1>1 DEF Accounted
  <2>5. NewOnes
    BY <1>5 DEF NewOnes
  <2> QED BY <2>1, <2>2, <2>3, <2>4, <2>5
<1>9. Reach
  <2>1. Root \in Paths!Below
    BY <1>2, <1>6, BelowIs DEF ClosedSet
  <2> QED BY <1>1, <2>1 DEF Reach
<1>10. Points
  BY <1>1, <1>2, <1>5 DEF Points, Point
<1>11. Paths!FilesGuarded
  BY <1>1, <1>2 DEF Paths!FilesGuarded
<1> QED BY <1>6, <1>7, <1>8, <1>9, <1>10, <1>11 DEF TreeInv, Global

\* Each step of Directory keeps the invariant.
LEMMA PathsStep ==
  ASSUME TreeInv, Paths!Next
  PROVE  TreeInv'
<1>1. PICK p \in Procs :
        \/ \E c \in {"create", "mkdir", "open", "remove", "chdir"}, pa \in Paths!Paths :
              <<p, c>> \in calls /\ Paths!Call(p, c, pa)
        \/ Paths!Walk(p) \/ Paths!Chdir(p) \/ Paths!Scan(p) \/ Paths!Flip(p) \/ Paths!AddCheck(p)
        \/ Paths!AddWrite(p) \/ Paths!Undo(p)
        \/ Paths!RemoveCheck(p) \/ Paths!Erase(p) \/ Paths!Return(p) \/ Paths!Exit(p)
        \/ \E h \in DirHandles : Paths!Open(p, h) \/ Paths!Close(p, h)
        \/ \E q \in Procs : Paths!Exec(p, q)
  BY DEF Paths!Next
<1>2. CASE \E c \in {"create", "mkdir", "open", "remove", "chdir"}, pa \in Paths!Paths :
             <<p, c>> \in calls /\ Paths!Call(p, c, pa)
  BY <1>2, CallKeeps
<1>3. CASE Paths!Walk(p)
  BY <1>3, WalkKeeps
<1>4. CASE Paths!Chdir(p)
  BY <1>4, ChdirKeeps
<1>5. CASE Paths!Scan(p)
  BY <1>5, ScanKeeps
<1>6. CASE Paths!Flip(p)
  BY <1>6, FlipKeeps
<1>7. CASE Paths!AddCheck(p)
  BY <1>7, AddCheckKeeps
<1>8. CASE Paths!AddWrite(p)
  BY <1>8, AddWriteKeeps
<1>9. CASE Paths!Undo(p)
  BY <1>9, UndoKeeps
<1>10. CASE Paths!RemoveCheck(p)
  BY <1>10, RemoveCheckKeeps
<1>11. CASE Paths!Erase(p)
  BY <1>11, EraseKeeps
<1>12. CASE Paths!Return(p)
  BY <1>12, ReturnKeeps
<1>13. CASE Paths!Exit(p)
  BY <1>13, ExitKeeps
<1>14. CASE \E h \in DirHandles : Paths!Open(p, h) \/ Paths!Close(p, h)
  BY <1>14, PathOpenKeeps, PathCloseKeeps
<1>15. CASE \E q \in Procs : Paths!Exec(p, q)
  BY <1>15, ExecKeeps
<1> QED BY <1>1, <1>2, <1>3, <1>4, <1>5, <1>6, <1>7, <1>8, <1>9, <1>10, <1>11, <1>12, <1>13, <1>14, <1>15

LEMMA PathsStutter ==
  ASSUME TreeInv, UNCHANGED dirVars
  PROVE  TreeInv'
<1>1. UNCHANGED <<dir_map, isdir, parent, dir_entry, open_cnt, removed, lock, cwd, fds, pc, call,
                  path, dir, sector, dir_lock, leaked, broken>>
  BY DEF dirVars
<1>2. DirTypes'
  BY <1>1 DEF TreeInv, DirTypes, Paths!TypeOK
<1>3. Counted'
  BY <1>1 DEF TreeInv, Counted, Paths!References
<1>4. Global'
  BY <1>1, <1>2, NamesStay DEF Makes
<1>5. Points'
  BY <1>1 DEF TreeInv, Points, Point, Paths!NoEntries
<1>6. Paths!FilesGuarded'
  BY <1>1 DEF TreeInv, Paths!FilesGuarded
<1> QED BY <1>2, <1>3, <1>4, <1>5, <1>6 DEF TreeInv

\* The invariant of the tree of directories, for any number of processes, names,
\* sectors and descriptors.
THEOREM PathsInvariant == SpecOne => []TreeInv
<1>1. InitOne => TreeInv
  BY PathsInit DEF InitOne
<1>2. TreeInv /\ [NextOne]_<<part, vars, dirVars>> => TreeInv'
  <2> SUFFICES ASSUME TreeInv, [NextOne]_<<part, vars, dirVars>> PROVE TreeInv'
    OBVIOUS
  <2>1. CASE Paths!Next
    BY <2>1, PathsStep
  <2>2. CASE UNCHANGED dirVars
    BY <2>2, PathsStutter
  <2> QED BY <2>1, <2>2 DEF NextOne
<1> QED BY <1>1, <1>2, PTL DEF SpecOne

\* The names are a tree below the root, no directory is cut off from it, and no
\* directory that a process works in, has open or goes through is removed under
\* it: create, mkdir, remove, chdir and open of directory.c and filesys.c.
THEOREM TreeHolds == SpecOne => []TreeRight
<1>1. TreeInv => TreeRight
  <2> SUFFICES ASSUME TreeInv
               PROVE  Paths!TypeOK /\ Paths!TreeShape /\ Paths!Reachable /\ Paths!UsedStays
    BY DEF TreeRight
  <2>1. Paths!TypeOK
    BY DEF TreeInv, DirTypes
  <2>2. ASSUME NEW e \in Paths!Tree
        PROVE  /\ e[1] \in Paths!Sectors /\ e[2] \in DirNames /\ e = <<e[1], e[2]>>
               /\ dir_entry[e[1]][e[2]] \in Paths!Sectors
               /\ Edge(e[1], e[2], dir_entry[e[1]][e[2]])
    <3>1. /\ e \in Paths!Sectors \X DirNames /\ e[1] \in dir_map /\ isdir[e[1]]
          /\ dir_entry[e[1]][e[2]] # None
      BY DEF Paths!Tree
    <3>2. dir_entry[e[1]][e[2]] \in Paths!Sectors \cup {None}
      BY <3>1, SectorsTyped
    <3> QED BY <3>1, <3>2 DEF Edge
  <2>3. Paths!TreeShape
    <3>1. ASSUME NEW e \in Paths!Tree
          PROVE  /\ dir_entry[e[1]][e[2]] \in dir_map \ {Root}
                 /\ parent[dir_entry[e[1]][e[2]]] = e[1]
      BY <2>2 DEF TreeInv, Global, Shape
    <3>2. ASSUME NEW e \in Paths!Tree, NEW f \in Paths!Tree, dir_entry[e[1]][e[2]] = dir_entry[f[1]][f[2]]
          PROVE  e = f
      <4>1. e[1] = f[1] /\ e[2] = f[2]
        BY <2>2, <3>2 DEF TreeInv, Global, Shape
      <4> QED BY <2>2, <4>1
    <3> QED BY <3>1, <3>2 DEF Paths!TreeShape, Root
  <2>4. Paths!Reachable
    <3> SUFFICES ASSUME NEW s \in dir_map, isdir[s], ~ Paths!Created(s) PROVE s \in Paths!Below
      BY DEF Paths!Reachable
    <3>1. ~ Made(s)
      BY DEF Made, Makes, Paths!Created
    <3> QED BY <3>1 DEF TreeInv, Global, Reach
  <2>5. Paths!UsedStays
    <3> SUFFICES ASSUME NEW p \in Procs,
                        NEW s \in ({cwd[p], dir[p]} \cup {fds[p][h] : h \in DirHandles}) \ {None}
                 PROVE  s \in dir_map /\ (isdir[s] => ~ removed[s])
      BY DEF Paths!UsedStays
    <3>1. s \in Paths!Sectors
      BY SectorsTyped
    <3> QED BY <3>1, UsedUsable DEF Usable
  <2> QED BY <2>1, <2>3, <2>4, <2>5
<1> QED BY <1>1, PathsInvariant, PTL

\* The open counts of inodes are right, no sector in use is lost, and only
\* mkdir, which takes no fs_lock, can take a sector that another call takes.
THEOREM SectorsKept == SpecOne => []NoneLost
<1>1. TreeInv => NoneLost
  <2> SUFFICES ASSUME TreeInv PROVE Paths!CountsRight /\ Paths!NoneLost /\ Paths!FilesGuarded
    BY DEF NoneLost
  <2>1. Paths!CountsRight
    BY DEF TreeInv, Counted, Paths!CountsRight
  <2>2. Paths!NoneLost
    <3> SUFFICES ASSUME NEW s \in dir_map, s # Root
                 PROVE  \/ \E e \in Paths!Tree : dir_entry[e[1]][e[2]] = s
                        \/ open_cnt[s] > 0 \/ Paths!Created(s)
      BY DEF Paths!NoneLost, Root
    <3>1. s \in Paths!Sectors
      BY SectorsTyped
    <3>2. Named(s) => \E e \in Paths!Tree : dir_entry[e[1]][e[2]] = s
      <4> SUFFICES ASSUME NEW d \in Paths!Sectors, NEW n \in DirNames, Edge(d, n, s)
                   PROVE  \E e \in Paths!Tree : dir_entry[e[1]][e[2]] = s
        BY DEF Named
      <4>1. <<d, n>> \in Paths!Tree
        BY <3>1, PathsConstants DEF Edge, Paths!Tree
      <4> QED BY <4>1 DEF Edge
    <3>3. removed[s] => open_cnt[s] > 0
      BY <3>1 DEF TreeInv, Global, RemovedFiles
    <3>4. Made(s) => Paths!Created(s)
      BY DEF Made, Makes, Paths!Created
    <3> QED BY <3>2, <3>3, <3>4 DEF TreeInv, Global, Accounted
  <2>3. Paths!FilesGuarded
    BY DEF TreeInv
  <2> QED BY <2>1, <2>2, <2>3
<1> QED BY <1>1, PathsInvariant, PTL
=============================================================================

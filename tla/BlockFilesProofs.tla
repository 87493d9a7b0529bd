-------------------------- MODULE BlockFilesProofs --------------------------
(***************************************************************************)
(* The places of blocks in the block files, for any blocks, number of      *)
(* files and interleaving of the two threads: what is saved is written     *)
(* over only where a restart uncovered it, and a restart uncovers nothing  *)
(* of the first file unless the threads met.                               *)
(***************************************************************************)
EXTENDS BlockFiles, SequenceTheorems, FiniteSetTheorems, WellFoundedInduction, TLAPS

\* A block that is going to be written was posted.
PendingPosted ==
    \A i \in 1..Len(queue) : queue[i].op # "flush" => queue[i].block \in posted

\* A dirty file has a record, and an entry that is saved with a place has one in
\* memory.
TypeInv ==
    /\ TypeOK
    /\ \A f \in dirtyFiles : f < Len(blockFiles)
    /\ PendingPosted
    /\ DOMAIN savedPlace \subseteq DOMAIN place

\* Every record is the record of index 0, and a flush takes one at most as long
\* as there is one file.
OneKey(d) ==
    /\ \A j \in 1..Len(d.files) : d.files[j].fileIndex = 0
    /\ d.last = 0 => Len(d.files) <= 1

KeysInv ==
    /\ \A i \in 1..Len(blockFiles) : blockFiles[i].fileIndex = 0
    /\ \A i \in 1..Len(queue) : queue[i].op = "flush" => OneKey(queue[i].data)
    /\ \A t \in Thread : InFlush(t) => OneKey(flushing[t].data)
    /\ DOMAIN savedFiles \subseteq {0}
    /\ \A f \in dirtyFiles : f <= lastFile

\* The places that no restart uncovered, of the entries in memory and of those saved.
Noted == {<<b, place[b]>> : b \in DOMAIN place} \ uncovered
Saved == SavedPlaces \ uncovered

\* The bytes are there of what is written, noted or saved.
Holds(m, b, p) == \A c \in Extent(b, p) : m[c] = b
BytesThere ==
    /\ \A i \in 1..Len(queue) :
          queue[i].op = "written" => Holds(bytes, queue[i].block, queue[i].pos)
    /\ \A x \in Noted \cup Saved : Holds(bytes, x[1], x[2])

PlacesInRoom ==
    \A x \in Places : /\ Extent(x[1], x[2]) \subseteq Cell
                      /\ Inside(blockFiles, lastFile, x[1], x[2])

PlacesInv == PlacesInRoom /\ PlacesAreApart /\ BytesThere

\* The first file.  A size that covers all of it stands for another file being
\* the last one: nothing is placed in the first file then.
Whole == 2 * MaxFileSize
Room == IF lastFile > 0 THEN Whole ELSE SizeIn(blockFiles, 0)
SavedSize == IF 0 \in DOMAIN savedFiles THEN savedFiles[0].size ELSE 0
SavedRoom == IF savedLast > 0 THEN Whole ELSE SavedSize

\* The end in the first file of a block at p.
End(b, p) == IF p.file = 0 THEN p.at + Size[b] ELSE 0

\* A task that saves a size of the first file, and the size.
HasSize(t) == t.op = "flush" /\ (t.data.last > 0 \/ t.data.files # <<>>)
SizeOf(t) == IF t.data.last > 0 THEN Whole ELSE t.data.files[1].size

\* From the saved size s, the first n tasks of q save the size v or a larger one.
Saves(s, q, n, v) ==
    v <= s \/ \E i \in 1..Len(q) : i <= n /\ HasSize(q[i]) /\ v <= SizeOf(q[i])

\* The sizes that are going to be saved ascend from s to r.
Ascending(s, q, r) ==
    /\ s <= r
    /\ \A i \in 1..Len(q) : HasSize(q[i]) =>
          /\ s <= SizeOf(q[i]) /\ SizeOf(q[i]) <= r
          /\ \A j \in 1..Len(q) : j <= i /\ HasSize(q[j]) => SizeOf(q[j]) <= SizeOf(q[i])

SizesAscend == Ascending(SavedRoom, queue, Room)

\* The size is saved, a task saves it, a flush has it, or the file is dirty.
RoomIsSaved == Saves(SavedRoom, queue, Len(queue), Room)
FlushTakesRoom(d) ==
    IF HasSize(FlushTask(d)) THEN SizeOf(FlushTask(d)) = Room ELSE RoomIsSaved
SizeIsTaken ==
    /\ \A t \in Thread : InFlush(t) => FlushTakesRoom(flushing[t].data)
    /\ (dirtyFiles = {} /\ \A t \in Thread : ~ InFlush(t)) => RoomIsSaved

\* Whatever place a flush may save, it saves a size that covers the place or
\* one was saved before.
Covers(s, q, P) ==
    \A i \in 1..Len(q) : q[i].op = "flush" =>
        /\ \A x \in P : Saves(s, q, i, End(x[1], x[2]))
        /\ \A j \in 1..Len(q) :
              j < i /\ q[j].op # "flush" => Saves(s, q, i, End(q[j].block, q[j].pos))

SizesComeFirst ==
    /\ \A x \in Saved : End(x[1], x[2]) <= SavedRoom
    /\ Covers(SavedRoom, queue, Noted)

FirstInv == SizesAscend /\ SizeIsTaken /\ SizesComeFirst
IInv == TypeInv /\ KeysInv /\ PlacesInv /\ (~ raced => FirstInv)
-----------------------------------------------------------------------------
(* Ranks in sets of numbers. *)

LEMMA LeastOf ==
    ASSUME NEW S \in SUBSET Nat, S # {}
    PROVE  \E m \in S : \A k \in S : m <= k
<1> DEFINE R == OpToRel(<, Nat)
<1>1. IsWellFoundedOn(R, Nat)
  BY NatLessThanWellFounded
<1>2. \A a, b \in Nat : <<a, b>> \notin R => b <= a
  BY DEF OpToRel
<1> HIDE DEF R
<1>3. \E m \in S : \A k \in S : <<k, m>> \notin R
  BY <1>1, WFMin
<1>4. QED
  BY <1>2, <1>3

LEMMA LastOf ==
    ASSUME NEW n \in Nat, NEW S \in SUBSET (1..n), S # {}
    PROVE  \E m \in S : \A k \in m + 1..n : k \notin S
<1> DEFINE T == {n - k : k \in S}
<1>0. \A k \in S : k \in 1..n
  OBVIOUS
<1>1. T \in SUBSET Nat /\ T # {}
  <2>1. \A k \in 1..n : n - k \in Nat
    OBVIOUS
  <2>2. \A k \in S : n - k \in Nat
    BY <1>0, <2>1
  <2>3. QED
    BY <2>2
<1>2. PICK m \in T : \A k \in T : m <= k
  BY <1>1, LeastOf
<1>3. PICK l \in S : m = n - l
  BY <1>2
<1>4. \A k \in S : k <= l
  <2>1. \A k \in S : n - l <= n - k
    BY <1>2, <1>3
  <2>2. \A k \in S : k \in Int /\ l \in Int
    BY <1>0
  <2>3. QED
    BY <2>1, <2>2
<1>5. \A k \in l + 1..n : k \notin S
  <2>1. l \in Int
    BY <1>0
  <2>2. \A k \in l + 1..n : ~(k <= l)
    BY <2>1
  <2>3. QED
    BY <1>4, <2>2
<1>6. QED
  BY <1>5

\* A set of n numbers has one with i - 1 below it, for i up to n.

LEMMA Ranks ==
    ASSUME NEW n \in Nat, NEW S \in SUBSET (0..n - 1), NEW i \in 1..Cardinality(S)
    PROVE  \E f \in S : Cardinality({g \in S : g < f}) = i - 1
<1> DEFINE Below(k) == {g \in S : g < k}
<1>0. IsFiniteSet(S)
  <2>1. IsFiniteSet(0..n - 1)
    BY FS_Interval
  <2>2. QED
    BY <2>1, FS_Subset
<1>1. \A k \in Nat : IsFiniteSet(Below(k)) /\ Cardinality(Below(k)) \in Nat
  BY <1>0, FS_Subset, FS_CardinalityType
<1> DEFINE T == {k \in Nat : i <= Cardinality(Below(k))}
<1>2. Below(n) = S
  <2>1. \A g \in 0..n - 1 : g < n
    OBVIOUS
  <2>2. \A g \in S : g < n
    BY <2>1
  <2>3. QED
    BY <2>2
<1>3. n \in T
  <2>1. Cardinality(S) \in Nat
    BY <1>0, FS_CardinalityType
  <2>2. i <= Cardinality(S)
    BY <2>1
  <2>3. QED
    BY <1>2, <2>2
<1>4. PICK m \in T : \A k \in T : m <= k
  BY <1>3, LeastOf
<1>5. Cardinality(S) \in Nat
  BY <1>0, FS_CardinalityType
<1>6. m # 0
  <2>1. Below(0) = {}
    <3>1. \A g \in 0..n - 1 : ~(g < 0)
      OBVIOUS
    <3>2. \A g \in S : ~(g < 0)
      BY <3>1
    <3>3. QED
      BY <3>2
  <2>2. Cardinality(Below(0)) = 0
    BY <2>1, FS_EmptySet
  <2>3. ~(i <= 0)
    BY <1>5
  <2>4. QED
    BY <2>2, <2>3
<1> DEFINE f == m - 1
<1>7. f \in Nat /\ f \notin T
  BY <1>4, <1>6
<1>8. Cardinality(Below(f)) < i
  BY <1>1, <1>5, <1>7
<1>9. Below(m) \subseteq Below(f) \cup {f} /\ (f \in S => Below(m) = Below(f) \cup {f})
      /\ (f \notin S => Below(m) = Below(f))
  <2>1. \A g \in 0..n - 1 : g < m <=> (g < f \/ g = f)
    BY <1>7
  <2>2. \A g \in S : g < m <=> (g < f \/ g = f)
    BY <2>1
  <2> HIDE DEF f
  <2>3. QED
    BY <2>2
<1>10. i <= Cardinality(Below(m))
  OBVIOUS
<1>11. f \in S
  <2>1. ASSUME f \notin S PROVE FALSE
    <3>1. Cardinality(Below(m)) = Cardinality(Below(f))
      BY <1>9, <2>1
    <3>2. QED
      BY <1>1, <1>5, <1>7, <1>8, <1>10, <3>1
  <2>2. QED
    BY <2>1
<1>12. f \notin Below(f)
  BY <1>7
<1>13. Cardinality(Below(m)) = Cardinality(Below(f)) + 1
  <2>1. Below(m) = Below(f) \cup {f}
    BY <1>9, <1>11
  <2>2. QED
    BY <1>1, <1>7, <1>12, <2>1, FS_AddElement
<1>14. Cardinality(Below(f)) = i - 1
  <2> DEFINE c == Cardinality(Below(f))
  <2>1. c \in Nat /\ c < i /\ i <= c + 1 /\ i \in Int
    BY <1>1, <1>5, <1>7, <1>8, <1>10, <1>13
  <2> HIDE DEF c
  <2>2. c = i - 1
    BY <2>1
  <2>3. QED
    BY <2>2 DEF c
<1>15. QED
  BY <1>11, <1>14
-----------------------------------------------------------------------------
(* The queue: what a task at the end, and the loss of the first one, change. *)

LEMMA Appended ==
    ASSUME NEW T, NEW q \in Seq(T), NEW t \in T
    PROVE  /\ Append(q, t) \in Seq(T) /\ Len(q) \in Nat
           /\ Len(Append(q, t)) = Len(q) + 1
           /\ \A i \in 1..Len(q) : Append(q, t)[i] = q[i]
           /\ Append(q, t)[Len(q) + 1] = t
           /\ \A i \in 1..Len(Append(q, t)) : i \in 1..Len(q) \/ i = Len(q) + 1
<1>1. Len(q) \in Nat
  BY LenProperties
<1>2. Append(q, t) \in Seq(T) /\ Len(Append(q, t)) = Len(q) + 1
      /\ (\A i \in 1..Len(q) : Append(q, t)[i] = q[i]) /\ Append(q, t)[Len(q) + 1] = t
  BY AppendProperties
<1>3. \A i \in 1..Len(q) + 1 : i \in 1..Len(q) \/ i = Len(q) + 1
  BY <1>1
<1>4. QED
  BY <1>1, <1>2, <1>3

LEMMA FirstGone ==
    ASSUME NEW T, NEW q \in Seq(T), q # <<>>
    PROVE  /\ Tail(q) \in Seq(T) /\ Head(q) = q[1] /\ 1 \in 1..Len(q)
           /\ Len(q) \in Nat /\ Len(Tail(q)) = Len(q) - 1 /\ Len(Tail(q)) \in Nat
           /\ \A i \in 1..Len(Tail(q)) : i + 1 \in 1..Len(q) /\ Tail(q)[i] = q[i + 1]
<1>1. Len(q) \in Nat /\ Len(q) # 0
  BY LenProperties, EmptySeq
<1>2. Tail(q) \in Seq(T) /\ Head(q) = q[1] /\ Len(Tail(q)) = Len(q) - 1
      /\ (\A i \in 1..Len(Tail(q)) : Tail(q)[i] = q[i + 1])
  BY <1>1, HeadTailProperties
<1>3. \A i \in 1..Len(q) - 1 : i + 1 \in 1..Len(q)
  BY <1>1
<1>4. 1 \in 1..Len(q) /\ Len(q) - 1 \in Nat
  BY <1>1
<1>5. QED
  BY <1>1, <1>2, <1>3, <1>4
-----------------------------------------------------------------------------
(* Types. *)

LEMMA SizeFacts ==
    ASSUME NEW b \in Block
    PROVE  Size[b] \in Nat /\ 1 <= Size[b] /\ Size[b] < MaxFileSize
           /\ 0 \in File /\ EmptyInfo \in FileInfo
<1>1. MaxFileSize \in Nat /\ Size[b] \in 1..MaxFileSize - 1 /\ FileCount \in Nat \ {0}
  BY FilesAssumption
<1>2. 0 \in 0..FileCount - 1 /\ 0 \in 0..MaxFileSize - 1
  BY <1>1
<1>3. Size[b] \in Nat /\ 1 <= Size[b] /\ Size[b] < MaxFileSize
  BY <1>1
<1>4. QED
  BY <1>2, <1>3 DEF File, EmptyInfo, FileInfo

LEMMA InfoSize ==
    ASSUME NEW files \in Seq(FileInfo), NEW i \in 1..Len(files)
    PROVE  files[i] \in FileInfo /\ files[i].size \in Nat
           /\ files[i].size < MaxFileSize /\ files[i].fileIndex \in File
<1>1. files[i] \in FileInfo
  BY ElementOfSeq
<1>2. files[i].size \in 0..MaxFileSize - 1 /\ files[i].fileIndex \in File
  BY <1>1 DEF FileInfo
<1>3. QED
  BY <1>1, <1>2, FilesAssumption

LEMMA FileForHasRoom ==
    ASSUME TypeOK, NEW b \in Block
    PROVE  FileFor(b) \in lastFile..FileCount /\ FileFor(b) \in 0..FileCount
           /\ (FileFor(b) < FileCount => HasRoom(blockFiles, FileFor(b), b))
<1> DEFINE T == {f \in lastFile..FileCount : f < FileCount => HasRoom(blockFiles, f, b)}
           Found(f) == /\ f < FileCount => HasRoom(blockFiles, f, b)
                       /\ \A g \in lastFile..f - 1 : ~HasRoom(blockFiles, g, b)
<1>1. FileCount \in Nat \ {0} /\ lastFile \in 0..FileCount - 1
  BY FilesAssumption DEF TypeOK, File
<1>2. FileCount \in T /\ T \in SUBSET Nat
  BY <1>1
<1>3. PICK m \in T : \A k \in T : m <= k
  BY <1>2, LeastOf
<1>4. m \in lastFile..FileCount /\ Found(m)
  <2>1. ASSUME NEW g \in lastFile..m - 1, HasRoom(blockFiles, g, b) PROVE FALSE
    <3>1. g \in lastFile..FileCount /\ ~(m <= g)
      BY <1>1, <1>3
    <3>2. QED
      BY <1>3, <2>1, <3>1
  <2>2. QED
    BY <1>3, <2>1
<1> HIDE DEF Found
<1>5. FileFor(b) = CHOOSE f \in lastFile..FileCount : Found(f)
  BY DEF FileFor, Found
<1>6. FileFor(b) \in lastFile..FileCount /\ Found(FileFor(b))
  BY <1>4, <1>5
<1>7. QED
  BY <1>1, <1>6 DEF Found

\* A record more, or none.

LEMMA LongerFiles ==
    ASSUME NEW files \in Seq(FileInfo), NEW f \in Nat, EmptyInfo \in FileInfo
    PROVE  LET l == Longer(files, f + 1)
           IN  /\ l \in Seq(FileInfo)
               /\ Len(l) = IF Len(files) < f + 1 THEN f + 1 ELSE Len(files)
               /\ f + 1 \in 1..Len(l)
               /\ l[f + 1].size = IF f < Len(files) THEN files[f + 1].size ELSE 0
<1>1. Len(files) \in Nat
  BY LenProperties
<1>2. \A i \in 1..Len(files) : files[i] \in FileInfo
  BY ElementOfSeq
<1>3. CASE Len(files) < f + 1
  <2> DEFINE l == [i \in 1..f + 1 |-> IF i <= Len(files) THEN files[i] ELSE EmptyInfo]
  <2>1. \A i \in 1..f + 1 :
           (IF i <= Len(files) THEN files[i] ELSE EmptyInfo) \in FileInfo
    <3>1. \A i \in 1..f + 1 : i <= Len(files) => i \in 1..Len(files)
      BY <1>1
    <3>2. QED
      BY <1>2, <3>1
  <2>2. l \in Seq(FileInfo) /\ Len(l) = f + 1
    BY <2>1, IsASeq
  <2>3. l = Longer(files, f + 1)
    BY <1>3 DEF Longer, Resized
  <2>4. f + 1 \in 1..f + 1 /\ ~(f + 1 <= Len(files)) /\ ~(f < Len(files))
    BY <1>1, <1>3
  <2>5. l[f + 1] = EmptyInfo
    BY <2>4
  <2>6. EmptyInfo.size = 0
    BY DEF EmptyInfo
  <2> HIDE DEF l
  <2>7. QED
    BY <1>3, <2>2, <2>3, <2>4, <2>5, <2>6
<1>4. CASE ~(Len(files) < f + 1)
  <2>1. f + 1 \in 1..Len(files) /\ f < Len(files)
    BY <1>1, <1>4
  <2>2. Longer(files, f + 1) = files
    BY <1>4 DEF Longer
  <2>3. QED
    BY <1>4, <2>1, <2>2
<1>5. QED
  BY <1>3, <1>4

\* The records in memory after writeBlock: the block is added to one of them.

LEMMA WriteBlockFiles ==
    ASSUME TypeOK, NEW b \in Block, WriteBlock(b)
    PROVE  LET f == FileFor(b)
               l == Longer(blockFiles, f + 1)
           IN  /\ f \in File /\ f < Len(blockFiles')
               /\ blockFiles' \in Seq(FileInfo)
               /\ Len(blockFiles') = Len(l) /\ Len(blockFiles) <= Len(l)
               /\ l \in Seq(FileInfo) /\ f + 1 \in 1..Len(l)
               /\ l[f + 1].size = IF f < Len(blockFiles) THEN blockFiles[f + 1].size ELSE 0
               /\ blockFiles'[f + 1].size = l[f + 1].size + Size[b]
               /\ [file |-> f, at |-> Placed(l, f)] \in Pos
<1> DEFINE f == FileFor(b)
           l == Longer(blockFiles, f + 1)
<1>1. blockFiles \in Seq(FileInfo) /\ f < FileCount
      /\ blockFiles' = [l EXCEPT ![f + 1].size = @ + Size[b]]
  BY DEF TypeOK, WriteBlock
<1>2. f \in 0..FileCount /\ HasRoom(blockFiles, f, b)
  BY <1>1, FileForHasRoom
<1> HIDE DEF f
<1>3. f \in Nat /\ f \in File
  BY <1>1, <1>2, FilesAssumption DEF File
<1>4. /\ l \in Seq(FileInfo) /\ f + 1 \in 1..Len(l)
      /\ Len(l) = IF Len(blockFiles) < f + 1 THEN f + 1 ELSE Len(blockFiles)
      /\ l[f + 1].size = IF f < Len(blockFiles) THEN blockFiles[f + 1].size ELSE 0
  BY <1>1, <1>3, LongerFiles, SizeFacts
<1> HIDE DEF l
<1>5. l[f + 1] \in FileInfo /\ l[f + 1].size \in Nat /\ l[f + 1].size < MaxFileSize
  BY <1>4, InfoSize
<1>6. l[f + 1].size + Size[b] \in 0..MaxFileSize - 1
  <2>1. l[f + 1].size + Size[b] < MaxFileSize
    BY <1>2, <1>4 DEF HasRoom
  <2>2. Size[b] \in Nat /\ MaxFileSize \in Nat
    BY SizeFacts, FilesAssumption
  <2>3. QED
    BY <1>5, <2>1, <2>2
<1> DEFINE e == [l[f + 1] EXCEPT !.size = @ + Size[b]]
<1>7. e \in FileInfo /\ e.size = l[f + 1].size + Size[b]
  BY <1>5, <1>6 DEF FileInfo
<1>8. blockFiles' = [l EXCEPT ![f + 1] = e]
  BY <1>1
<1> HIDE DEF e
<1>9. /\ blockFiles' \in Seq(FileInfo) /\ Len(blockFiles') = Len(l)
      /\ blockFiles'[f + 1] = e
  BY <1>4, <1>7, <1>8, ExceptSeq
<1>10. Len(blockFiles) \in Nat /\ Len(l) \in Nat
  BY <1>1, <1>4, LenProperties
<1>11. f < Len(l) /\ Len(blockFiles) <= Len(l)
  BY <1>3, <1>4, <1>10
<1>12. [file |-> f, at |-> Placed(l, f)] \in Pos
  <2>1. l[f + 1].size \in 0..MaxFileSize - 1
    BY <1>5, FilesAssumption
  <2>2. QED
    BY <1>3, <2>1 DEF Placed, Pos
<1>13. QED
  BY <1>3, <1>4, <1>7, <1>9, <1>11, <1>12 DEF f, l

\* What a flush copies.

LEMMA DirtyInfosType ==
    ASSUME TypeInv
    PROVE  DirtyInfos \in Seq(FileInfo)
<1> DEFINE n == Cardinality(dirtyFiles)
           nth == [i \in 1..n |->
                      CHOOSE f \in dirtyFiles : Cardinality({g \in dirtyFiles : g < f}) = i - 1]
<1>1. FileCount \in Nat /\ dirtyFiles \in SUBSET (0..FileCount - 1)
  BY FilesAssumption DEF TypeInv, TypeOK, File
<1>2. n \in Nat
  <2>1. IsFiniteSet(0..FileCount - 1)
    BY <1>1, FS_Interval
  <2>2. QED
    BY <1>1, <2>1, FS_Subset, FS_CardinalityType
<1>3. ASSUME NEW i \in 1..n
      PROVE  blockFiles[nth[i] + 1] \in FileInfo
  <2>1. \E f \in dirtyFiles : Cardinality({g \in dirtyFiles : g < f}) = i - 1
    BY <1>1, Ranks
  <2>2. nth[i] \in dirtyFiles
    BY <2>1
  <2> HIDE DEF nth
  <2>3. nth[i] \in Nat /\ nth[i] < Len(blockFiles) /\ blockFiles \in Seq(FileInfo)
    <3>1. nth[i] \in 0..FileCount - 1
      BY <1>1, <2>2
    <3>2. nth[i] \in Nat
      BY <3>1
    <3>3. QED
      BY <2>2, <3>2 DEF TypeInv, TypeOK
  <2>4. nth[i] + 1 \in 1..Len(blockFiles)
    <3>1. Len(blockFiles) \in Nat
      BY <2>3, LenProperties
    <3>2. QED
      BY <2>3, <3>1
  <2>5. QED
    BY <2>3, <2>4, InfoSize
<1>4. DirtyInfos = [i \in 1..n |-> blockFiles[nth[i] + 1]]
  BY DEF DirtyInfos
<1> HIDE DEF n, nth
<1>5. QED
  BY <1>2, <1>3, <1>4, IsASeq

LEMMA FlushDataType ==
    ASSUME TypeInv, NEW S \in SUBSET Block
    PROVE  FlushDataOf(S) \in FlushData
BY DirtyInfosType DEF FlushDataOf, FlushData, TypeInv, TypeOK

LEMMA FlushTaskType ==
    ASSUME NEW d \in FlushData
    PROVE  FlushTask(d) \in Task /\ FlushTask(d).op = "flush" /\ FlushTask(d).data = d
BY DEF FlushTask, Task

LEMMA TaskFacts ==
    ASSUME NEW t \in Task
    PROVE  /\ t.op # "flush" => /\ t.op \in {"write", "written"}
                                /\ t.block \in Block /\ t.pos \in Pos
           /\ t.op = "flush" => t.data \in FlushData
BY DEF Task

\* A task at the end, for a block that was posted if it is not a flush.

LEMMA PostedAppend ==
    ASSUME TypeInv, NEW t \in Task, queue' = Append(queue, t), posted \subseteq posted',
           t.op # "flush" => t.block \in posted'
    PROVE  queue' \in Seq(Task) /\ PendingPosted'
<1>1. queue \in Seq(Task)
  BY DEF TypeInv, TypeOK
<1>2. queue' \in Seq(Task)
  BY <1>1, Appended
<1>3. ASSUME NEW i \in 1..Len(queue'), queue'[i].op # "flush"
      PROVE  queue'[i].block \in posted'
  <2>1. CASE i \in 1..Len(queue)
    <3>1. queue'[i] = queue[i]
      BY <1>1, <2>1, Appended
    <3>2. QED
      BY <1>3, <2>1, <3>1 DEF TypeInv, PendingPosted
  <2>2. CASE i = Len(queue) + 1
    <3>1. queue'[i] = t
      BY <1>1, <2>2, Appended
    <3>2. QED
      BY <1>3, <3>1
  <2>3. QED
    BY <1>1, <1>3, <2>1, <2>2, Appended
<1>4. QED
  BY <1>2, <1>3 DEF PendingPosted

LEMMA PostedTail ==
    ASSUME TypeInv, queue # <<>>
    PROVE  /\ Tail(queue) \in Seq(Task) /\ Head(queue) = queue[1] /\ queue[1] \in Task
           /\ queue[1].op # "flush" => queue[1].block \in posted
           /\ \A i \in 1..Len(Tail(queue)) :
                 Tail(queue)[i].op # "flush" => Tail(queue)[i].block \in posted
<1>1. queue \in Seq(Task)
  BY DEF TypeInv, TypeOK
<1>2. Tail(queue) \in Seq(Task) /\ Head(queue) = queue[1] /\ 1 \in 1..Len(queue)
      /\ \A i \in 1..Len(Tail(queue)) : i + 1 \in 1..Len(queue) /\ Tail(queue)[i] = queue[i + 1]
  BY <1>1, FirstGone
<1>3. queue[1] \in Task
  BY <1>1, <1>2, ElementOfSeq
<1>4. QED
  BY <1>2, <1>3 DEF TypeInv, PendingPosted

LEMMA WriteBlockType ==
    ASSUME TypeInv, NEW b \in Block, WriteBlock(b)
    PROVE  TypeInv'
<1>0. TypeOK
  BY DEF TypeInv
<1> DEFINE f == FileFor(b)
           l == Longer(blockFiles, f + 1)
           t == [op |-> "write", block |-> b, pos |-> [file |-> f, at |-> Placed(l, f)]]
<1>1. /\ f \in File /\ f < Len(blockFiles') /\ blockFiles' \in Seq(FileInfo)
      /\ Len(blockFiles) <= Len(blockFiles') /\ [file |-> f, at |-> Placed(l, f)] \in Pos
  BY <1>0, WriteBlockFiles
<1>2. /\ lastFile' = f /\ dirtyFiles' = dirtyFiles \cup {f}
      /\ posted' = posted \cup {b} /\ queue' = Append(queue, t) /\ b \in known
      /\ raced' = (raced \/ InFlush("disk"))
      /\ UNCHANGED <<known, dirty, place, flushing, bytes, saved, uncovered>>
  BY DEF WriteBlock
<1>3. t \in Task /\ t.block = b
  BY <1>1 DEF Task
<1> HIDE DEF f, t
<1>4. queue' \in Seq(Task) /\ PendingPosted'
  BY <1>2, <1>3, PostedAppend
<1>5. \A g \in dirtyFiles' : g < Len(blockFiles')
  <2>1. Len(blockFiles) \in Nat /\ Len(blockFiles') \in Nat
    BY <1>0, <1>1, LenProperties DEF TypeOK
  <2>2. ASSUME NEW g \in dirtyFiles PROVE g < Len(blockFiles')
    <3>1. g \in 0..FileCount - 1 /\ g < Len(blockFiles) /\ FileCount \in Nat
      BY <1>0, FilesAssumption DEF TypeInv, TypeOK, File
    <3>2. g \in Int
      BY <3>1
    <3>3. QED
      BY <1>1, <2>1, <3>1, <3>2
  <2>3. QED
    BY <1>1, <1>2, <2>2
<1>6. raced' \in BOOLEAN
  BY <1>2
<1>7. QED
  BY <1>0, <1>1, <1>2, <1>4, <1>5, <1>6 DEF TypeInv, TypeOK, saved

LEMMA MarkDirtyType ==
    ASSUME TypeInv, NEW t \in Thread, NEW b \in Block, MarkDirty(t, b)
    PROVE  /\ dirty' \subseteq dirty \cup {b}
           /\ flushing' \in [Thread -> Flush] /\ raced' \in BOOLEAN
<1>1. flushing \in [Thread -> Flush] /\ raced \in BOOLEAN /\ dirty \subseteq Block
  BY DEF TypeInv, TypeOK
<1>2. CASE dirty' = dirty \cup {b} /\ UNCHANGED <<flushing, raced>>
  BY <1>1, <1>2
<1> DEFINE d == FlushDataOf(dirty \cup {b})
           e == [step |-> "clear", data |-> d]
<1>3. CASE dirty' = {} /\ flushing' = [flushing EXCEPT ![t] = e]
           /\ raced' = (raced \/ InFlush(Other(t)))
  <2>1. dirty \cup {b} \in SUBSET Block
    BY <1>1
  <2>2. d \in FlushData
    BY <2>1, FlushDataType
  <2> HIDE DEF d
  <2>3. e \in Flush
    BY <2>2 DEF Flush
  <2> HIDE DEF e
  <2>4. flushing' \in [Thread -> Flush]
    BY <1>1, <1>3, <2>3
  <2>5. QED
    BY <1>3, <2>4
<1>4. QED
  BY <1>2, <1>3 DEF MarkDirty

LEMMA AddHeaderType ==
    ASSUME TypeInv, NEW b \in Block, AddHeader(b)
    PROVE  TypeInv'
<1>0. TypeOK
  BY DEF TypeInv
<1>1. /\ known' = known \cup {b} /\ MarkDirty("main", b)
      /\ UNCHANGED <<blockFiles, lastFile, dirtyFiles, posted, place, queue, bytes,
                     saved, uncovered>>
  BY DEF AddHeader
<1>2. "main" \in Thread
  BY DEF Thread
<1>3. /\ dirty' \subseteq dirty \cup {b}
      /\ flushing' \in [Thread -> Flush] /\ raced' \in BOOLEAN
  BY <1>1, <1>2, MarkDirtyType
<1>4. QED
  BY <1>0, <1>1, <1>3 DEF TypeInv, TypeOK, PendingPosted, saved

LEMMA DoWriteBlockType ==
    ASSUME TypeInv, DoWriteBlock
    PROVE  TypeInv'
<1>0. TypeOK
  BY DEF TypeInv
<1> DEFINE t == queue[1]
           u == [t EXCEPT !.op = "written"]
<1>1. /\ Tail(queue) \in Seq(Task) /\ Head(queue) = t /\ t \in Task
      /\ t.op # "flush" => t.block \in posted
      /\ \A i \in 1..Len(Tail(queue)) :
            Tail(queue)[i].op # "flush" => Tail(queue)[i].block \in posted
  BY PostedTail DEF DoWriteBlock, NextTask
<1>2. /\ t.op = "write" /\ queue' = Append(Tail(queue), u)
      /\ bytes' = [c \in Cell |-> IF c \in Extent(t.block, t.pos) THEN t.block ELSE bytes[c]]
      /\ UNCHANGED <<memory, flushing, saved, history>>
  BY <1>1 DEF DoWriteBlock, NextTask
<1>3. u \in Task /\ u.block = t.block /\ u.op = "written" /\ t.block \in Block
  BY <1>1, <1>2 DEF Task
<1> HIDE DEF t, u
<1>4. queue' \in Seq(Task)
  BY <1>1, <1>2, <1>3, Appended
<1>5. \A i \in 1..Len(queue') : queue'[i].op # "flush" => queue'[i].block \in posted
  <2> SUFFICES ASSUME NEW i \in 1..Len(queue'), queue'[i].op # "flush"
               PROVE  queue'[i].block \in posted
    OBVIOUS
  <2>1. CASE i \in 1..Len(Tail(queue))
    <3>1. queue'[i] = Tail(queue)[i]
      BY <1>1, <1>2, <1>3, <2>1, Appended
    <3>2. QED
      BY <1>1, <2>1, <3>1
  <2>2. CASE i = Len(Tail(queue)) + 1
    <3>1. queue'[i] = u
      BY <1>1, <1>2, <1>3, <2>2, Appended
    <3>2. QED
      BY <1>1, <1>2, <1>3, <3>1
  <2>3. QED
    BY <1>1, <1>2, <1>3, <2>1, <2>2, Appended
<1>6. bytes' \in [Cell -> Block \cup {NoBlock}]
  BY <1>0, <1>2, <1>3 DEF TypeOK
<1>7. QED
  BY <1>0, <1>2, <1>4, <1>5, <1>6 DEF TypeInv, TypeOK, PendingPosted, saved, memory, history

LEMMA PlaceType ==
    ASSUME NEW f \in PosMap, NEW b \in Block, NEW p \in Pos
    PROVE  [x \in DOMAIN f \cup {b} |-> IF x = b THEN p ELSE f[x]] \in PosMap
<1>1. DOMAIN f \in SUBSET Block /\ \A x \in DOMAIN f : f[x] \in Pos
  BY DEF PosMap
<1>2. DOMAIN f \cup {b} \in SUBSET Block
  BY <1>1
<1>3. [x \in DOMAIN f \cup {b} |-> IF x = b THEN p ELSE f[x]] \in [DOMAIN f \cup {b} -> Pos]
  BY <1>1
<1>4. QED
  BY <1>2, <1>3 DEF PosMap

LEMMA WrittenType ==
    ASSUME TypeInv, Written
    PROVE  TypeInv'
<1>0. TypeOK
  BY DEF TypeInv
<1> DEFINE t == queue[1]
<1>1. /\ Tail(queue) \in Seq(Task) /\ Head(queue) = t /\ t \in Task
      /\ t.op # "flush" => t.block \in posted
      /\ \A i \in 1..Len(Tail(queue)) :
            Tail(queue)[i].op # "flush" => Tail(queue)[i].block \in posted
  BY PostedTail DEF Written, NextTask
<1>2. /\ t.op = "written" /\ queue' = Tail(queue)
      /\ place' = [b \in DOMAIN place \cup {t.block} |->
                      IF b = t.block THEN t.pos ELSE place[b]]
      /\ MarkDirty("disk", t.block)
      /\ UNCHANGED <<blockFiles, lastFile, dirtyFiles, known, posted, bytes, saved, uncovered>>
  BY <1>1 DEF Written, NextTask
<1>3. t.block \in Block /\ t.pos \in Pos /\ t.block \in known
  BY <1>0, <1>1, <1>2, TaskFacts DEF TypeOK
<1> HIDE DEF t
<1>4. place' \in PosMap
  BY <1>0, <1>2, <1>3, PlaceType DEF TypeOK
<1>5. "disk" \in Thread
  BY DEF Thread
<1>6. /\ dirty' \subseteq dirty \cup {t.block}
      /\ flushing' \in [Thread -> Flush] /\ raced' \in BOOLEAN
  BY <1>2, <1>3, <1>5, MarkDirtyType
<1>7. dirty' \subseteq known'
  BY <1>0, <1>2, <1>3, <1>6 DEF TypeOK
<1>8. QED
  BY <1>0, <1>1, <1>2, <1>4, <1>6, <1>7 DEF TypeInv, TypeOK, PendingPosted, saved

\* What a flush in progress holds.

LEMMA FlushFacts ==
    ASSUME TypeOK, NEW t \in Thread, InFlush(t)
    PROVE  /\ flushing[t].data \in FlushData
           /\ flushing[t] = [step |-> flushing[t].step, data |-> flushing[t].data]
<1>1. flushing[t] \in Flush
  BY DEF TypeOK
<1>2. flushing[t] \in [step : {"clear", "post"}, data : FlushData]
  BY <1>1 DEF Flush, NotFlushing, InFlush
<1>3. QED
  BY <1>2

LEMMA ClearType ==
    ASSUME TypeInv, NEW t \in Thread, Clear(t)
    PROVE  TypeInv'
<1>0. TypeOK
  BY DEF TypeInv
<1>1. /\ InFlush(t) /\ dirtyFiles' = {}
      /\ flushing' = [flushing EXCEPT ![t].step = "post"]
      /\ UNCHANGED <<blockFiles, lastFile, known, dirty, posted, place, queue, bytes,
                     saved, history>>
  BY DEF Clear, InFlush
<1> DEFINE e == [flushing[t] EXCEPT !.step = "post"]
<1>2. e \in Flush
  <2>1. flushing[t].data \in FlushData
        /\ flushing[t] = [step |-> flushing[t].step, data |-> flushing[t].data]
    BY <1>0, <1>1, FlushFacts
  <2>2. e = [step |-> "post", data |-> flushing[t].data]
    BY <2>1
  <2> HIDE DEF e
  <2>3. QED
    BY <2>1, <2>2 DEF Flush
<1>3. flushing' = [flushing EXCEPT ![t] = e]
  BY <1>1
<1> HIDE DEF e
<1>4. flushing' \in [Thread -> Flush]
  BY <1>0, <1>2, <1>3 DEF TypeOK
<1>5. QED
  BY <1>0, <1>1, <1>4 DEF TypeInv, TypeOK, PendingPosted, saved, history

LEMMA PostType ==
    ASSUME TypeInv, NEW t \in Thread, Post(t)
    PROVE  TypeInv'
<1>0. TypeOK
  BY DEF TypeInv
<1>1. /\ InFlush(t) /\ queue' = Append(queue, FlushTask(flushing[t].data))
      /\ flushing' = [flushing EXCEPT ![t] = NotFlushing]
      /\ UNCHANGED <<memory, bytes, saved, history>>
  BY DEF Post, InFlush
<1>2. flushing[t].data \in FlushData
  BY <1>0, <1>1, FlushFacts
<1>3. queue' \in Seq(Task) /\ PendingPosted'
  BY <1>1, <1>2, FlushTaskType, PostedAppend DEF memory
<1>4. NotFlushing \in Flush
  BY DEF Flush
<1>5. flushing' \in [Thread -> Flush]
  BY <1>0, <1>1, <1>4 DEF TypeOK
<1>6. QED
  BY <1>0, <1>1, <1>3, <1>5 DEF TypeInv, TypeOK, memory, saved, history

LEMMA RecordsType ==
    ASSUME TypeOK, NEW files \in Seq(FileInfo)
    PROVE  Records(files) \in UNION {[S -> FileInfo] : S \in SUBSET File}
<1> DEFINE S == {files[j].fileIndex : j \in 1..Len(files)} \cup DOMAIN savedFiles
           Is(i) == {j \in 1..Len(files) : files[j].fileIndex = i}
           last(i) == CHOOSE j \in 1..Len(files) :
                         /\ files[j].fileIndex = i
                         /\ \A k \in j + 1..Len(files) : files[k].fileIndex # i
<1>1. Len(files) \in Nat /\ \A j \in 1..Len(files) : files[j] \in FileInfo /\ files[j].fileIndex \in File
  BY LenProperties, InfoSize
<1>2. DOMAIN savedFiles \in SUBSET File /\ \A i \in DOMAIN savedFiles : savedFiles[i] \in FileInfo
  BY DEF TypeOK
<1>3. S \in SUBSET File
  BY <1>1, <1>2
<1>4. ASSUME NEW i, \E j \in 1..Len(files) : files[j].fileIndex = i
      PROVE  files[last(i)] \in FileInfo
  <2>1. Is(i) # {} /\ Is(i) \in SUBSET (1..Len(files))
    BY <1>4
  <2>2. \E m \in Is(i) : \A k \in m + 1..Len(files) : k \notin Is(i)
    BY <1>1, <2>1, LastOf
  <2>3. \E j \in 1..Len(files) :
           /\ files[j].fileIndex = i
           /\ \A k \in j + 1..Len(files) : files[k].fileIndex # i
    <3>1. PICK m \in Is(i) : \A k \in m + 1..Len(files) : k \notin Is(i)
      BY <2>2
    <3>2. \A k \in m + 1..Len(files) : k \in 1..Len(files)
      BY <1>1
    <3>3. QED
      BY <3>1, <3>2
  <2>4. last(i) \in 1..Len(files)
    BY <2>3
  <2> HIDE DEF last
  <2>5. QED
    BY <1>1, <2>4
<1>5. Records(files) = [i \in S |-> IF \E j \in 1..Len(files) : files[j].fileIndex = i
                                    THEN files[last(i)] ELSE savedFiles[i]]
  BY DEF Records
<1> HIDE DEF last
<1>6. Records(files) \in [S -> FileInfo]
  BY <1>2, <1>4, <1>5
<1> HIDE DEF S
<1>7. QED
  BY <1>3, <1>6

LEMMA DoFlushType ==
    ASSUME TypeInv, DoFlush
    PROVE  TypeInv'
<1>0. TypeOK
  BY DEF TypeInv
<1> DEFINE d == queue[1].data
<1>1. /\ Tail(queue) \in Seq(Task) /\ Head(queue) = queue[1] /\ queue[1] \in Task
      /\ \A i \in 1..Len(Tail(queue)) :
            Tail(queue)[i].op # "flush" => Tail(queue)[i].block \in posted
  BY PostedTail DEF DoFlush, NextTask
<1>2. /\ queue[1].op = "flush" /\ queue' = Tail(queue)
      /\ savedLast' = IF d.last > 0 THEN d.last ELSE savedLast
      /\ savedFiles' = Records(d.files)
      /\ savedKnown' = savedKnown \cup d.blocks
      /\ savedPlace' = [b \in DOMAIN savedPlace \cup (DOMAIN place \cap d.blocks) |->
                           IF b \in d.blocks THEN place[b] ELSE savedPlace[b]]
      /\ UNCHANGED <<memory, flushing, bytes, history>>
  BY <1>1 DEF DoFlush, NextTask
<1>3. d \in FlushData
  BY <1>1, <1>2, TaskFacts
<1> HIDE DEF d
<1>4. d.last \in File /\ d.files \in Seq(FileInfo) /\ d.blocks \in SUBSET Block
  BY <1>3 DEF FlushData
<1>5. savedFiles' \in UNION {[S -> FileInfo] : S \in SUBSET File}
  BY <1>0, <1>2, <1>4, RecordsType
<1>6. savedLast' \in File /\ savedKnown' \subseteq Block
  BY <1>0, <1>2, <1>4 DEF TypeOK
<1>7. queue' \in Seq(Task) /\ PendingPosted'
  BY <1>1, <1>2 DEF PendingPosted, memory
<1>8. savedPlace' \in PosMap /\ DOMAIN savedPlace' \subseteq DOMAIN place
  <2>1. DOMAIN savedPlace \subseteq DOMAIN place /\ place \in PosMap /\ savedPlace \in PosMap
    BY <1>0 DEF TypeInv, TypeOK
  <2> DEFINE D == DOMAIN savedPlace \cup (DOMAIN place \cap d.blocks)
  <2>2. DOMAIN place \in SUBSET Block /\ (\A x \in DOMAIN place : place[x] \in Pos)
        /\ (\A x \in DOMAIN savedPlace : savedPlace[x] \in Pos)
    BY <2>1 DEF PosMap
  <2>3. D \in SUBSET Block /\ D \subseteq DOMAIN place
    BY <2>1, <2>2
  <2>4. savedPlace' \in [D -> Pos]
    BY <1>2, <2>2, <2>3
  <2> HIDE DEF D
  <2>5. QED
    BY <2>3, <2>4 DEF PosMap
<1>9. QED
  BY <1>0, <1>2, <1>5, <1>6, <1>7, <1>8 DEF TypeInv, TypeOK, memory, history

LEMMA RestartType ==
    ASSUME TypeInv, Restart
    PROVE  TypeInv'
<1>0. TypeOK
  BY DEF TypeInv
<1> DEFINE n == Cardinality(DOMAIN savedFiles)
           key == [i \in 1..n |-> CHOOSE f \in DOMAIN savedFiles :
                                     Cardinality({g \in DOMAIN savedFiles : g < f}) = i - 1]
<1>1. FileCount \in Nat /\ DOMAIN savedFiles \in SUBSET (0..FileCount - 1)
      /\ \A f \in DOMAIN savedFiles : savedFiles[f] \in FileInfo
  <2>1. PICK S \in SUBSET File : savedFiles \in [S -> FileInfo]
    BY <1>0 DEF TypeOK
  <2>2. DOMAIN savedFiles \in SUBSET File /\ \A f \in DOMAIN savedFiles : savedFiles[f] \in FileInfo
    BY <2>1
  <2>3. QED
    BY <2>2, FilesAssumption DEF File
<1>2. n \in Nat
  <2>1. IsFiniteSet(0..FileCount - 1)
    BY <1>1, FS_Interval
  <2>2. QED
    BY <1>1, <2>1, FS_Subset, FS_CardinalityType
<1>3. ASSUME NEW i \in 1..n
      PROVE  [savedFiles[key[i]] EXCEPT !.fileIndex = key[i]] \in FileInfo
  <2>1. \E f \in DOMAIN savedFiles : Cardinality({g \in DOMAIN savedFiles : g < f}) = i - 1
    BY <1>1, Ranks
  <2>2. key[i] \in DOMAIN savedFiles
    BY <2>1
  <2> HIDE DEF key
  <2>3. savedFiles[key[i]] \in FileInfo /\ key[i] \in File
    BY <1>1, <2>2 DEF File
  <2>4. QED
    BY <2>3 DEF FileInfo
<1>4. LoadedFiles = [i \in 1..n |-> [savedFiles[key[i]] EXCEPT !.fileIndex = key[i]]]
  BY DEF LoadedFiles
<1> HIDE DEF n, key
<1>5. LoadedFiles \in Seq(FileInfo)
  BY <1>2, <1>3, <1>4, IsASeq
<1>6. /\ blockFiles' = LoadedFiles /\ lastFile' = savedLast /\ dirtyFiles' = {}
      /\ known' = savedKnown /\ dirty' = {} /\ posted' = {} /\ place' = savedPlace
      /\ queue' = <<>> /\ flushing' = [t \in Thread |-> NotFlushing]
      /\ raced' = FALSE /\ uncovered' \subseteq uncovered \cup SavedPlaces
      /\ UNCHANGED <<bytes, saved>>
  BY DEF Restart
<1>7. Len(queue') = 0 /\ queue' \in Seq(Task) /\ flushing' \in [Thread -> Flush]
  BY <1>6 DEF Flush
<1>8. PendingPosted'
  BY <1>7 DEF PendingPosted
<1>9. SavedPlaces \subseteq Block \X Pos
  BY <1>0 DEF SavedPlaces, TypeOK, PosMap
<1>10. QED
  BY <1>0, <1>5, <1>6, <1>7, <1>8, <1>9 DEF TypeInv, TypeOK, saved

LEMMA InitType ==
    ASSUME Init
    PROVE  TypeInv
<1>1. 0 \in File /\ NoBlock \notin Block
  BY FilesAssumption DEF File
<1>2. EmptyMap \in PosMap /\ DOMAIN EmptyMap = {}
      /\ EmptyMap \in UNION {[S -> FileInfo] : S \in SUBSET File}
  <2>1. EmptyMap \in [{} -> Pos] /\ EmptyMap \in [{} -> FileInfo] /\ DOMAIN EmptyMap = {}
    BY DEF EmptyMap
  <2>2. {} \in SUBSET Block /\ {} \in SUBSET File
    OBVIOUS
  <2>3. QED
    BY <2>1, <2>2 DEF PosMap
<1>3. blockFiles \in Seq(FileInfo) /\ queue \in Seq(Task) /\ Len(queue) = 0
  BY DEF Init
<1>4. bytes \in [Cell -> Block \cup {NoBlock}]
  BY DEF Init
<1>5. flushing \in [Thread -> Flush]
  BY DEF Init, Flush
<1>6. raced \in BOOLEAN /\ uncovered \subseteq Block \X Pos
  BY DEF Init
<1>7. QED
  BY <1>1, <1>2, <1>3, <1>4, <1>5, <1>6 DEF Init, TypeInv, TypeOK, PendingPosted

LEMMA NextType ==
    ASSUME TypeInv, [Next]_vars
    PROVE  TypeInv'
<1>1. ASSUME NEW b \in Block, AddHeader(b) PROVE TypeInv'
  BY <1>1, AddHeaderType
<1>2. ASSUME NEW b \in Block, WriteBlock(b) PROVE TypeInv'
  BY <1>2, WriteBlockType
<1>3. ASSUME NEW t \in Thread, Clear(t) PROVE TypeInv'
  BY <1>3, ClearType
<1>4. ASSUME NEW t \in Thread, Post(t) PROVE TypeInv'
  BY <1>4, PostType
<1>5. CASE UNCHANGED vars
  BY <1>5 DEF TypeInv, TypeOK, PendingPosted, vars, memory, tasks, saved, history
<1>6. QED
  BY <1>1, <1>2, <1>3, <1>4, <1>5, DoWriteBlockType, WrittenType, DoFlushType, RestartType
  DEF Next

\* Every variable of the block files keeps its type, for any number of files and

\* whatever the two threads do: a place is in its file, a record has an index and a
\* size within the limit, and a task has what it needs.
THEOREM TypeCorrect == Spec => []TypeOK
<1>1. Init => TypeInv
  BY InitType
<1>2. TypeInv /\ [Next]_vars => TypeInv'
  BY NextType
<1>3. TypeInv => TypeOK
  BY DEF TypeInv
<1>4. QED
  BY <1>1, <1>2, <1>3, PTL DEF Spec
-----------------------------------------------------------------------------
(* The places, of which a step takes none away from another block. *)

\* What is a place: of a block on its way, of an entry, or of a saved entry.

LEMMA PlacesAre ==
    \A x : x \in Places <=>
               \/ \E i \in 1..Len(queue) : queue[i].op # "flush"
                                           /\ x = <<queue[i].block, queue[i].pos>>
               \/ x \in Noted
               \/ x \in Saved
<1>1. \A t : t \in Pending <=> \E i \in 1..Len(queue) : queue[i].op # "flush" /\ t = queue[i]
  BY DEF Pending
<1>2. QED
  BY <1>1 DEF Places, Noted, Saved

LEMMA PlacesAreNext ==
    \A x : x \in Places' <=>
               \/ \E i \in 1..Len(queue') : queue'[i].op # "flush"
                                           /\ x = <<queue'[i].block, queue'[i].pos>>
               \/ x \in Noted'
               \/ x \in Saved'
<1>1. \A t : t \in Pending' <=> \E i \in 1..Len(queue') : queue'[i].op # "flush" /\ t = queue'[i]
  BY DEF Pending
<1>2. QED
  BY <1>1 DEF Places, Noted, Saved

\* A pair of a block and a place.
IsPair(x) == x[1] \in Block /\ x[2] \in Pos /\ x = <<x[1], x[2]>>

LEMMA PlaceFacts ==
    ASSUME TypeOK
    PROVE  /\ \A x \in Noted \cup Saved : IsPair(x)
           /\ \A x \in Places : IsPair(x)
<1>1. ASSUME NEW x \in Noted \cup Saved PROVE IsPair(x)
  <2>1. /\ \A b \in DOMAIN place : b \in Block /\ place[b] \in Pos
        /\ \A b \in DOMAIN savedPlace : b \in Block /\ savedPlace[b] \in Pos
    BY DEF TypeOK, PosMap
  <2>2. \/ \E b \in DOMAIN place : x = <<b, place[b]>>
        \/ \E b \in DOMAIN savedPlace : x = <<b, savedPlace[b]>>
    BY DEF Noted, Saved, SavedPlaces
  <2>3. QED
    BY <2>1, <2>2 DEF IsPair
<1>2. ASSUME NEW x \in Places PROVE IsPair(x)
  <2>1. CASE \E i \in 1..Len(queue) : queue[i].op # "flush"
                                      /\ x = <<queue[i].block, queue[i].pos>>
    <3>1. PICK i \in 1..Len(queue) : queue[i].op # "flush" /\ x = <<queue[i].block, queue[i].pos>>
      BY <2>1
    <3>2. queue[i] \in Task
      BY ElementOfSeq DEF TypeOK
    <3>3. QED
      BY <3>1, <3>2, TaskFacts DEF IsPair
  <2>2. QED
    BY <1>1, <1>2, <2>1, PlacesAre
<1>3. QED
  BY <1>1, <1>2

LEMMA SizeInType ==
    ASSUME NEW files \in Seq(FileInfo), NEW f \in Nat
    PROVE  SizeIn(files, f) \in Nat
<1>1. Len(files) \in Nat
  BY LenProperties
<1>2. f < Len(files) => f + 1 \in 1..Len(files)
  BY <1>1
<1>3. QED
  BY <1>2, InfoSize DEF SizeIn

LEMMA PosFacts ==
    ASSUME NEW b \in Block, NEW p \in Pos
    PROVE  p.file \in Nat /\ p.at \in Nat /\ Size[b] \in Nat /\ p.at + Size[b] \in Nat
<1>1. p.file \in Nat /\ p.at \in Nat
  BY FilesAssumption DEF Pos, File
<1>2. QED
  BY <1>1, SizeFacts

\* No new place, and no less room.

LEMMA ApartStays ==
    ASSUME PlacesInv, Places' \subseteq Places, UNCHANGED <<blockFiles, lastFile>>
    PROVE  PlacesInRoom' /\ PlacesAreApart'
<1>1. PlacesInRoom'
  BY DEF PlacesInv, PlacesInRoom, Inside
<1>2. \A x, y \in Places' : x # y => Extent(x[1], x[2]) \cap Extent(y[1], y[2]) = {}
  BY DEF PlacesInv, PlacesAreApart
<1>3. QED
  BY <1>1, <1>2 DEF PlacesAreApart

LEMMA NothingMoves ==
    ASSUME PlacesInv,
           UNCHANGED <<blockFiles, lastFile, place, queue, bytes, savedPlace, uncovered>>
    PROVE  PlacesInv'
<1>1. Places' = Places /\ Noted' = Noted /\ Saved' = Saved
  BY DEF Places, Pending, Noted, Saved, SavedPlaces
<1>2. PlacesInRoom' /\ PlacesAreApart'
  BY <1>1, ApartStays
<1>3. BytesThere'
  BY <1>1 DEF PlacesInv, BytesThere, Holds
<1>4. QED
  BY <1>2, <1>3 DEF PlacesInv

LEMMA PostPlaces ==
    ASSUME TypeOK, PlacesInv, NEW t \in Thread, Post(t)
    PROVE  PlacesInv'
<1> DEFINE u == FlushTask(flushing[t].data)
<1>1. /\ queue' = Append(queue, u)
      /\ UNCHANGED <<blockFiles, lastFile, place, bytes, savedPlace, uncovered>>
  BY DEF Post, memory, saved, history
<1>2. u \in Task /\ u.op = "flush"
  BY FlushFacts, FlushTaskType DEF Post, InFlush
<1> HIDE DEF u
<1>3. /\ \A i \in 1..Len(queue) : queue'[i] = queue[i]
      /\ \A i \in 1..Len(queue') : i \in 1..Len(queue) \/ queue'[i] = u
  BY <1>1, <1>2, Appended DEF TypeOK
<1>4. Noted' = Noted /\ Saved' = Saved
  BY <1>1 DEF Noted, Saved, SavedPlaces
<1>5. Places' \subseteq Places
  BY <1>2, <1>3, <1>4, PlacesAre, PlacesAreNext
<1>6. PlacesInRoom' /\ PlacesAreApart'
  BY <1>1, <1>5, ApartStays
<1>7. BytesThere'
  BY <1>1, <1>2, <1>3, <1>4 DEF PlacesInv, BytesThere
<1>8. QED
  BY <1>6, <1>7 DEF PlacesInv

\* A vector that resize makes longer has the elements it had and empty ones.

LEMMA LongerElements ==
    ASSUME EmptyInfo \in FileInfo, NEW files \in Seq(FileInfo), NEW f \in Nat,
           NEW i \in 1..Len(Longer(files, f + 1))
    PROVE  /\ i <= Len(files) => i \in 1..Len(files) /\ Longer(files, f + 1)[i] = files[i]
           /\ ~(i <= Len(files)) => Longer(files, f + 1)[i] = EmptyInfo
<1>1. Len(files) \in Nat /\ i \in Nat /\ 1 <= i
  <2>1. Len(Longer(files, f + 1)) \in Nat
    BY LongerFiles, LenProperties
  <2>2. QED
    BY <2>1, LenProperties
<1>2. CASE Len(files) < f + 1
  <2>1. Longer(files, f + 1) = [j \in 1..f + 1 |-> IF j <= Len(files) THEN files[j] ELSE EmptyInfo]
    BY <1>2 DEF Longer, Resized
  <2>2. Len(Longer(files, f + 1)) = f + 1
    BY <1>2, LongerFiles
  <2>3. QED
    BY <1>1, <2>1, <2>2
<1>3. CASE ~(Len(files) < f + 1)
  <2>1. Longer(files, f + 1) = files
    BY <1>3 DEF Longer
  <2>2. QED
    BY <1>1, <2>1
<1>4. QED
  BY <1>2, <1>3

\* The files after writeBlock: one of them, not before the last one, has grown by

\* the block, which is placed at its end.
LEMMA WriteBlockSizes ==
    ASSUME TypeOK, NEW b \in Block, WriteBlock(b)
    PROVE  LET f == FileFor(b)
           IN  /\ f \in File /\ f \in Nat /\ lastFile \in Nat /\ lastFile <= f /\ lastFile' = f
               /\ SizeIn(blockFiles', f) = SizeIn(blockFiles, f) + Size[b]
               /\ SizeIn(blockFiles, f) + Size[b] < MaxFileSize
               /\ \A g \in Nat : g # f => SizeIn(blockFiles', g) = SizeIn(blockFiles, g)
               /\ \A i \in 1..Len(blockFiles') :
                     \/ blockFiles'[i].fileIndex = 0
                     \/ i \in 1..Len(blockFiles)
                        /\ blockFiles'[i].fileIndex = blockFiles[i].fileIndex
               /\ dirtyFiles' = dirtyFiles \cup {f}
               /\ [file |-> f, at |-> SizeIn(blockFiles, f)] \in Pos
               /\ queue' = Append(queue, [op |-> "write", block |-> b,
                                          pos |-> [file |-> f, at |-> SizeIn(blockFiles, f)]])
<1> DEFINE f == FileFor(b)
           l == Longer(blockFiles, f + 1)
<1>1. /\ f \in File /\ f < Len(blockFiles')
      /\ blockFiles' \in Seq(FileInfo)
      /\ Len(blockFiles') = Len(l) /\ Len(blockFiles) <= Len(l)
      /\ l \in Seq(FileInfo) /\ f + 1 \in 1..Len(l)
      /\ l[f + 1].size = IF f < Len(blockFiles) THEN blockFiles[f + 1].size ELSE 0
      /\ blockFiles'[f + 1].size = l[f + 1].size + Size[b]
      /\ [file |-> f, at |-> Placed(l, f)] \in Pos
  BY WriteBlockFiles
<1>2. /\ blockFiles' = [l EXCEPT ![f + 1].size = @ + Size[b]]
      /\ lastFile' = f /\ dirtyFiles' = dirtyFiles \cup {f} /\ f < FileCount
      /\ queue' = Append(queue, [op |-> "write", block |-> b,
                                 pos |-> [file |-> f, at |-> Placed(l, f)]])
  BY DEF WriteBlock
<1>3. f \in lastFile..FileCount /\ HasRoom(blockFiles, f, b)
  BY <1>2, FileForHasRoom
<1>4. Placed(l, f) = SizeIn(blockFiles, f)
  BY <1>1 DEF Placed, SizeIn
<1> HIDE DEF f
<1>5. f \in Nat /\ lastFile \in Nat /\ lastFile <= f /\ FileCount \in Nat
  BY <1>3, FilesAssumption DEF TypeOK, File
<1>6. \A i \in 1..Len(l) : /\ i <= Len(blockFiles) => i \in 1..Len(blockFiles) /\ l[i] = blockFiles[i]
                           /\ ~(i <= Len(blockFiles)) => l[i] = EmptyInfo
  BY <1>5, LongerElements, SizeFacts DEF TypeOK
<1> HIDE DEF l
<1>7. SizeIn(blockFiles', f) = SizeIn(blockFiles, f) + Size[b]
  BY <1>1 DEF SizeIn
<1>8. SizeIn(blockFiles, f) + Size[b] < MaxFileSize
  BY <1>3 DEF HasRoom, SizeIn
<1>9. Len(blockFiles) \in Nat /\ Len(l) \in Nat
  BY <1>1, LenProperties DEF TypeOK
<1>10. \A i \in 1..Len(l) : blockFiles'[i] = IF i = f + 1 THEN [l[i] EXCEPT !.size = @ + Size[b]]
                                             ELSE l[i]
  <2>1. DOMAIN l = 1..Len(l)
    BY <1>1, LenProperties
  <2>2. QED
    BY <1>2, <2>1
<1>11. ASSUME NEW g \in Nat, g # f PROVE SizeIn(blockFiles', g) = SizeIn(blockFiles, g)
  <2>1. CASE g < Len(l)
    <3>1. g + 1 \in 1..Len(l) /\ g + 1 # f + 1
      BY <1>5, <1>9, <1>11, <2>1
    <3>2. blockFiles'[g + 1] = l[g + 1]
      BY <1>10, <3>1
    <3>3. CASE g < Len(blockFiles)
      <4>1. g + 1 <= Len(blockFiles)
        BY <1>9, <3>3
      <4>2. QED
        BY <1>1, <1>6, <2>1, <3>1, <3>2, <3>3, <4>1 DEF SizeIn
    <3>4. CASE ~(g < Len(blockFiles))
      <4>1. ~(g + 1 <= Len(blockFiles))
        BY <1>9, <3>4
      <4>2. l[g + 1] = EmptyInfo /\ EmptyInfo.size = 0
        BY <1>6, <3>1, <4>1 DEF EmptyInfo
      <4>3. QED
        BY <1>1, <2>1, <3>2, <3>4, <4>2 DEF SizeIn
    <3>5. QED
      BY <3>3, <3>4
  <2>2. CASE ~(g < Len(l))
    <3>1. ~(g < Len(blockFiles)) /\ ~(g < Len(blockFiles'))
      BY <1>1, <1>9, <2>2
    <3>2. QED
      BY <3>1 DEF SizeIn
  <2>3. QED
    BY <2>1, <2>2
<1>12. ASSUME NEW i \in 1..Len(blockFiles')
       PROVE  \/ blockFiles'[i].fileIndex = 0
              \/ i \in 1..Len(blockFiles) /\ blockFiles'[i].fileIndex = blockFiles[i].fileIndex
  <2>1. i \in 1..Len(l) /\ l[i] \in FileInfo
    BY <1>1, InfoSize
  <2>2. [l[i] EXCEPT !.size = @ + Size[b]].fileIndex = l[i].fileIndex
    BY <2>1 DEF FileInfo
  <2>3. blockFiles'[i].fileIndex = l[i].fileIndex
    BY <1>10, <2>1, <2>2
  <2>4. EmptyInfo.fileIndex = 0
    BY DEF EmptyInfo
  <2>5. QED
    BY <1>6, <2>1, <2>3, <2>4
<1>13. QED
  BY <1>1, <1>2, <1>4, <1>5, <1>7, <1>8, <1>11, <1>12 DEF f

LEMMA WriteBlockPlaces ==
    ASSUME TypeOK, PlacesInv, NEW b \in Block, WriteBlock(b)
    PROVE  PlacesInv'
<1> DEFINE f == FileFor(b)
           p == [file |-> f, at |-> SizeIn(blockFiles, f)]
           t == [op |-> "write", block |-> b, pos |-> p]
           n == <<b, p>>
<1>1. /\ f \in File /\ f \in Nat /\ lastFile \in Nat /\ lastFile <= f /\ lastFile' = f
      /\ SizeIn(blockFiles', f) = SizeIn(blockFiles, f) + Size[b]
      /\ SizeIn(blockFiles, f) + Size[b] < MaxFileSize
      /\ \A g \in Nat : g # f => SizeIn(blockFiles', g) = SizeIn(blockFiles, g)
      /\ p \in Pos /\ queue' = Append(queue, t)
  BY WriteBlockSizes
<1>2. UNCHANGED <<place, bytes, savedPlace, uncovered>>
  BY DEF WriteBlock, saved
<1>3. t \in Task /\ t.op = "write" /\ t.block = b /\ t.pos = p
      /\ p.file = f /\ p.at = SizeIn(blockFiles, f)
      /\ n[1] = b /\ n[2] = p
  BY <1>1 DEF Task
<1>4. SizeIn(blockFiles, f) \in Nat /\ Size[b] \in Nat /\ MaxFileSize \in Nat
  BY <1>1, SizeInType, SizeFacts, FilesAssumption DEF TypeOK
<1> HIDE DEF t, p, f, n
<1>5. /\ \A i \in 1..Len(queue) : queue'[i] = queue[i]
      /\ \A i \in 1..Len(queue') : i \in 1..Len(queue) \/ queue'[i] = t
  BY <1>1, <1>3, Appended DEF TypeOK
<1>6. Noted' = Noted /\ Saved' = Saved
  BY <1>2 DEF Noted, Saved, SavedPlaces
<1>7. \A x \in Places' : x \in Places \/ x = n
  BY <1>3, <1>5, <1>6, PlacesAre, PlacesAreNext DEF n
<1>8. Extent(n[1], n[2]) \subseteq Cell
  <2>1. \A u \in p.at..p.at + Size[b] - 1 : u \in 0..MaxFileSize - 1
    BY <1>1, <1>3, <1>4
  <2>2. QED
    BY <1>1, <1>3, <2>1 DEF Extent, Cell
<1>9. Inside(blockFiles', lastFile', n[1], n[2])
  BY <1>1, <1>3, <1>4 DEF Inside
<1>10. ASSUME NEW x \in Places
       PROVE  /\ Inside(blockFiles', lastFile', x[1], x[2])
              /\ Extent(x[1], x[2]) \cap Extent(n[1], n[2]) = {}
  <2>1. /\ x[1] \in Block /\ x[2] \in Pos
        /\ x[2].file \in Nat /\ x[2].at \in Nat /\ Size[x[1]] \in Nat
    BY PlaceFacts, PosFacts DEF IsPair
  <2>2. Inside(blockFiles, lastFile, x[1], x[2])
    BY DEF PlacesInv, PlacesInRoom
  <2>3. CASE x[2].file = f
    <3>1. x[2].at + Size[x[1]] <= SizeIn(blockFiles, f)
      BY <1>1, <2>2, <2>3 DEF Inside
    <3>2. x[2].at + Size[x[1]] <= SizeIn(blockFiles', f)
      BY <1>1, <1>4, <2>1, <3>1
    <3>3. \A u \in x[2].at..x[2].at + Size[x[1]] - 1 : \A v \in p.at..p.at + Size[b] - 1 : u # v
      BY <1>3, <1>4, <2>1, <3>1
    <3>4. Extent(x[1], x[2]) \cap Extent(n[1], n[2]) = {}
      BY <1>3, <3>3 DEF Extent
    <3>5. QED
      BY <2>3, <3>2, <3>4 DEF Inside
  <2>4. CASE x[2].file # f
    <3>1. Extent(x[1], x[2]) \cap Extent(n[1], n[2]) = {}
      BY <1>3, <2>4 DEF Extent
    <3>2. SizeIn(blockFiles', x[2].file) = SizeIn(blockFiles, x[2].file)
      BY <1>1, <2>1, <2>4
    <3>3. x[2].file < lastFile => x[2].file < f
      BY <1>1, <2>1
    <3>4. QED
      BY <1>1, <2>2, <3>1, <3>2, <3>3 DEF Inside
  <2>5. QED
    BY <2>3, <2>4
<1>11. PlacesInRoom'
  BY <1>7, <1>8, <1>9, <1>10 DEF PlacesInv, PlacesInRoom
<1>12. PlacesAreApart'
  <2>1. ASSUME NEW x \in Places', NEW y \in Places', x # y
        PROVE  Extent(x[1], x[2]) \cap Extent(y[1], y[2]) = {}
    <3>1. CASE x \in Places /\ y \in Places
      BY <2>1, <3>1 DEF PlacesInv, PlacesAreApart
    <3>2. CASE x \in Places /\ y = n
      BY <1>10, <3>2
    <3>3. CASE x = n /\ y \in Places
      BY <1>10, <3>3
    <3>4. QED
      BY <1>7, <2>1, <3>1, <3>2, <3>3
  <2>2. QED
    BY <2>1 DEF PlacesAreApart
<1>13. BytesThere'
  BY <1>2, <1>3, <1>5, <1>6 DEF PlacesInv, BytesThere
<1>14. QED
  BY <1>11, <1>12, <1>13 DEF PlacesInv

\* What the loss of the first task leaves of the queue.

LEMMA QueueTail ==
    ASSUME TypeOK, queue # <<>>
    PROVE  /\ Tail(queue) \in Seq(Task) /\ Head(queue) = queue[1] /\ queue[1] \in Task
           /\ 1 \in 1..Len(queue) /\ Len(Tail(queue)) \in Nat
           /\ \A i \in 1..Len(Tail(queue)) : i + 1 \in 1..Len(queue) /\ Tail(queue)[i] = queue[i + 1]
<1>1. queue \in Seq(Task)
  BY DEF TypeOK
<1>2. QED
  BY <1>1, FirstGone, ElementOfSeq

LEMMA DoWriteBlockPlaces ==
    ASSUME TypeOK, PlacesInv, DoWriteBlock
    PROVE  PlacesInv'
<1> DEFINE t == queue[1]
           u == [t EXCEPT !.op = "written"]
           q == Tail(queue)
           n == <<t.block, t.pos>>
<1>1. /\ q \in Seq(Task) /\ Head(queue) = t /\ t \in Task /\ 1 \in 1..Len(queue)
      /\ \A i \in 1..Len(q) : i + 1 \in 1..Len(queue) /\ q[i] = queue[i + 1]
  BY QueueTail DEF DoWriteBlock, NextTask
<1>2. /\ t.op = "write" /\ queue' = Append(q, u)
      /\ bytes' = [c \in Cell |-> IF c \in Extent(t.block, t.pos) THEN t.block ELSE bytes[c]]
      /\ UNCHANGED <<blockFiles, lastFile, place, savedPlace, uncovered>>
  BY <1>1 DEF DoWriteBlock, NextTask, memory, saved, history
<1>3. /\ u \in Task /\ u.block = t.block /\ u.pos = t.pos /\ u.op = "written"
      /\ n[1] = t.block /\ n[2] = t.pos
  BY <1>1, <1>2 DEF Task
<1>4. n \in Places
  BY <1>1, <1>2, PlacesAre
<1> HIDE DEF t, u, q
<1>5. /\ \A i \in 1..Len(q) : queue'[i] = q[i]
      /\ \A i \in 1..Len(queue') : i \in 1..Len(q) \/ queue'[i] = u
  BY <1>1, <1>2, <1>3, Appended
<1>6. Noted' = Noted /\ Saved' = Saved
  BY <1>2 DEF Noted, Saved, SavedPlaces
<1>7. ASSUME NEW i \in 1..Len(queue'), queue'[i].op # "flush"
      PROVE  /\ <<queue'[i].block, queue'[i].pos>> \in Places
             /\ queue'[i].op = "written" =>
                   \/ <<queue'[i].block, queue'[i].pos>> = n
                   \/ Holds(bytes, queue'[i].block, queue'[i].pos)
  <2>1. CASE i \in 1..Len(q)
    <3>1. i + 1 \in 1..Len(queue) /\ queue'[i] = queue[i + 1]
      BY <1>1, <1>5, <2>1
    <3>2. QED
      BY <1>7, <3>1, PlacesAre DEF PlacesInv, BytesThere
  <2>2. CASE queue'[i] = u
    BY <1>3, <1>4, <2>2
  <2>3. QED
    BY <1>5, <2>1, <2>2
<1>8. Places' \subseteq Places
  <2>1. ASSUME NEW x \in Places' PROVE x \in Places
    <3>1. CASE \E i \in 1..Len(queue') : queue'[i].op # "flush"
                                         /\ x = <<queue'[i].block, queue'[i].pos>>
      BY <1>7, <3>1
    <3>2. QED
      BY <1>6, <2>1, <3>1, PlacesAre, PlacesAreNext
  <2>2. QED
    BY <2>1
<1>9. PlacesInRoom' /\ PlacesAreApart'
  BY <1>2, <1>8, ApartStays
<1>10. ASSUME NEW x \in Places, x = n \/ Holds(bytes, x[1], x[2])
       PROVE  Holds(bytes', x[1], x[2])
  <2>1. Extent(x[1], x[2]) \subseteq Cell
    BY DEF PlacesInv, PlacesInRoom
  <2>2. CASE x = n
    BY <1>2, <1>3, <2>1, <2>2 DEF Holds
  <2>3. CASE x # n
    <3>1. Extent(x[1], x[2]) \cap Extent(t.block, t.pos) = {}
      BY <1>3, <1>4, <2>3 DEF PlacesInv, PlacesAreApart
    <3>2. QED
      BY <1>2, <1>10, <2>1, <2>3, <3>1 DEF Holds
  <2>4. QED
    BY <2>2, <2>3
<1>11. BytesThere'
  <2>1. ASSUME NEW i \in 1..Len(queue'), queue'[i].op = "written"
        PROVE  Holds(bytes', queue'[i].block, queue'[i].pos)
    <3> DEFINE x == <<queue'[i].block, queue'[i].pos>>
    <3>1. x[1] = queue'[i].block /\ x[2] = queue'[i].pos
      OBVIOUS
    <3>2. x \in Places /\ (x = n \/ Holds(bytes, x[1], x[2]))
      BY <1>7, <2>1, <3>1
    <3> HIDE DEF x
    <3>3. Holds(bytes', x[1], x[2])
      BY <1>10, <3>2
    <3>4. QED
      BY <3>1, <3>3
  <2>2. \A x \in Noted \cup Saved : Holds(bytes', x[1], x[2])
    BY <1>10, PlacesAre DEF PlacesInv, BytesThere
  <2>3. QED
    BY <1>6, <2>1, <2>2 DEF BytesThere
<1>12. QED
  BY <1>9, <1>11 DEF PlacesInv

\* The entries' places after onBlockWritten: the block's is new.

LEMMA WrittenNoted ==
    ASSUME Written, Head(queue) = queue[1]
    PROVE  /\ Noted' \subseteq Noted \cup {<<queue[1].block, queue[1].pos>>}
           /\ Saved' = Saved
<1> DEFINE t == queue[1]
<1>1. /\ place' = [b \in DOMAIN place \cup {t.block} |->
                      IF b = t.block THEN t.pos ELSE place[b]]
      /\ UNCHANGED <<savedPlace, uncovered>>
  BY DEF Written, saved
<1> HIDE DEF t
<1>2. \A b \in DOMAIN place' : \/ b \in DOMAIN place /\ place'[b] = place[b]
                               \/ b = t.block /\ place'[b] = t.pos
  BY <1>1
<1>3. QED
  BY <1>1, <1>2 DEF Noted, Saved, SavedPlaces, t

LEMMA WrittenPlaces ==
    ASSUME TypeOK, PlacesInv, Written
    PROVE  PlacesInv'
<1> DEFINE t == queue[1]
           q == Tail(queue)
           n == <<t.block, t.pos>>
<1>1. /\ q \in Seq(Task) /\ Head(queue) = t /\ t \in Task /\ 1 \in 1..Len(queue)
      /\ \A i \in 1..Len(q) : i + 1 \in 1..Len(queue) /\ q[i] = queue[i + 1]
  BY QueueTail DEF Written, NextTask
<1>2. /\ t.op = "written" /\ queue' = q
      /\ UNCHANGED <<blockFiles, lastFile, bytes>>
  BY <1>1 DEF Written, NextTask
<1>3. Noted' \subseteq Noted \cup {n} /\ Saved' = Saved
  BY <1>1, WrittenNoted
<1>4. n \in Places /\ Holds(bytes, n[1], n[2])
  BY <1>1, <1>2, PlacesAre DEF PlacesInv, BytesThere
<1> HIDE DEF t, q, n
<1>5. Places' \subseteq Places
  BY <1>1, <1>2, <1>3, <1>4, PlacesAre, PlacesAreNext
<1>6. PlacesInRoom' /\ PlacesAreApart'
  BY <1>2, <1>5, ApartStays
<1>7. BytesThere'
  <2>1. \A x \in Noted' \cup Saved' : Holds(bytes, x[1], x[2])
    BY <1>3, <1>4 DEF PlacesInv, BytesThere
  <2>2. QED
    BY <1>1, <1>2, <2>1 DEF PlacesInv, BytesThere
<1>8. QED
  BY <1>6, <1>7 DEF PlacesInv

\* The saved places after a flush: some are those of the entries by now.

LEMMA FlushedPlaces ==
    ASSUME TypeInv, DoFlush
    PROVE  Noted' = Noted /\ Saved' \subseteq Saved \cup Noted
<1> DEFINE S == Head(queue).data.blocks
<1>1. /\ savedPlace' = [b \in DOMAIN savedPlace \cup (DOMAIN place \cap S) |->
                           IF b \in S THEN place[b] ELSE savedPlace[b]]
      /\ UNCHANGED <<place, uncovered>>
  BY DEF DoFlush, memory, history
<1> HIDE DEF S
<1>2. DOMAIN savedPlace \subseteq DOMAIN place
  BY DEF TypeInv
<1>3. \A b \in DOMAIN savedPlace' :
          \/ b \in DOMAIN savedPlace /\ savedPlace'[b] = savedPlace[b]
          \/ b \in DOMAIN place /\ savedPlace'[b] = place[b]
  BY <1>1, <1>2
<1>4. QED
  BY <1>1, <1>3 DEF Noted, Saved, SavedPlaces

LEMMA DoFlushPlaces ==
    ASSUME TypeInv, PlacesInv, DoFlush
    PROVE  PlacesInv'
<1> DEFINE q == Tail(queue)
<1>0. TypeOK
  BY DEF TypeInv
<1>1. \A i \in 1..Len(q) : i + 1 \in 1..Len(queue) /\ q[i] = queue[i + 1]
  BY <1>0, QueueTail DEF DoFlush, NextTask
<1>2. queue' = q /\ UNCHANGED <<blockFiles, lastFile, bytes>>
  BY DEF DoFlush, memory
<1>3. Noted' = Noted /\ Saved' \subseteq Saved \cup Noted
  BY FlushedPlaces
<1> HIDE DEF q
<1>4. Places' \subseteq Places
  BY <1>1, <1>2, <1>3, PlacesAre, PlacesAreNext
<1>5. PlacesInRoom' /\ PlacesAreApart'
  BY <1>2, <1>4, ApartStays
<1>6. BytesThere'
  BY <1>1, <1>2, <1>3 DEF PlacesInv, BytesThere
<1>7. QED
  BY <1>5, <1>6 DEF PlacesInv

\* What a restart leaves: the saved places that the loaded sizes cover.

LEMMA RestartNoted ==
    ASSUME Restart
    PROVE  /\ Noted' = Saved' /\ Saved' \subseteq Saved
           /\ \A x \in Saved' : Inside(LoadedFiles, savedLast, x[1], x[2])
<1>1. /\ place' = savedPlace /\ savedPlace' = savedPlace
      /\ uncovered' = uncovered \cup
            {x \in SavedPlaces : ~ Inside(LoadedFiles, savedLast, x[1], x[2])}
  BY DEF Restart, saved
<1>2. QED
  BY <1>1 DEF Noted, Saved, SavedPlaces

LEMMA RestartPlaces ==
    ASSUME PlacesInv, Restart
    PROVE  PlacesInv'
<1>1. /\ blockFiles' = LoadedFiles /\ lastFile' = savedLast /\ queue' = <<>>
      /\ UNCHANGED bytes
  BY DEF Restart
<1>2. \A i \in 1..Len(queue') : FALSE
  BY <1>1
<1>3. /\ Noted' = Saved' /\ Saved' \subseteq Saved
      /\ \A x \in Saved' : Inside(LoadedFiles, savedLast, x[1], x[2])
  BY RestartNoted
<1>4. Places' \subseteq Saved'
  BY <1>2, <1>3, PlacesAreNext
<1>5. Places' \subseteq Places
  BY <1>3, <1>4, PlacesAre
<1>6. PlacesInRoom'
  BY <1>1, <1>3, <1>4, <1>5 DEF PlacesInv, PlacesInRoom
<1>7. PlacesAreApart'
  BY <1>5 DEF PlacesInv, PlacesAreApart
<1>8. BytesThere'
  BY <1>1, <1>2, <1>3 DEF PlacesInv, BytesThere
<1>9. QED
  BY <1>6, <1>7, <1>8 DEF PlacesInv

LEMMA InitPlaces ==
    ASSUME Init
    PROVE  PlacesInv
<1>1. /\ DOMAIN place = {} /\ DOMAIN savedPlace = {} /\ \A i \in 1..Len(queue) : FALSE
  BY DEF Init, EmptyMap
<1>2. Noted = {} /\ Saved = {}
  BY <1>1 DEF Noted, Saved, SavedPlaces
<1>3. Places = {}
  BY <1>1, <1>2, PlacesAre
<1>4. QED
  BY <1>1, <1>2, <1>3 DEF PlacesInv, PlacesInRoom, PlacesAreApart, BytesThere

LEMMA NextPlaces ==
    ASSUME TypeInv, PlacesInv, [Next]_vars
    PROVE  PlacesInv'
<1>0. TypeOK
  BY DEF TypeInv
<1>1. ASSUME NEW b \in Block, AddHeader(b) PROVE PlacesInv'
  BY <1>1, NothingMoves DEF AddHeader, saved
<1>2. ASSUME NEW b \in Block, WriteBlock(b) PROVE PlacesInv'
  BY <1>0, <1>2, WriteBlockPlaces
<1>3. ASSUME NEW t \in Thread, Clear(t) PROVE PlacesInv'
  BY <1>3, NothingMoves DEF Clear, saved, history
<1>4. ASSUME NEW t \in Thread, Post(t) PROVE PlacesInv'
  BY <1>0, <1>4, PostPlaces
<1>5. CASE UNCHANGED vars
  BY <1>5, NothingMoves DEF vars, memory, tasks, saved, history
<1>6. QED
  BY <1>0, <1>1, <1>2, <1>3, <1>4, <1>5, DoWriteBlockPlaces, WrittenPlaces, DoFlushPlaces,
     RestartPlaces
  DEF Next

LEMMA PlacesInductive == Spec => [](TypeInv /\ PlacesInv)
<1>1. Init => TypeInv /\ PlacesInv
  BY InitType, InitPlaces
<1>2. TypeInv /\ PlacesInv /\ [Next]_vars => (TypeInv /\ PlacesInv)'
  BY NextType, NextPlaces
<1>3. QED
  BY <1>1, <1>2, PTL DEF Spec

\* A saved entry with data finds the bytes of its own block at its place

\* (data/Block.hpp:52), however many blocks were written, flushed or lost with the
\* process before, for any number of files and any interleaving of the two threads,
\* unless a restart loaded sizes that end before the place.
THEOREM SavedDataIsThere == Spec => []SavedBlockIsThere
<1>1. PlacesInv => SavedBlockIsThere
  <2> SUFFICES ASSUME PlacesInv, NEW b \in DOMAIN savedPlace,
                      <<b, savedPlace[b]>> \notin uncovered
               PROVE  \A c \in Extent(b, savedPlace[b]) : bytes[c] = b
    BY DEF SavedBlockIsThere
  <2> DEFINE x == <<b, savedPlace[b]>>
  <2>1. x \in Noted \cup Saved
    BY DEF Saved, SavedPlaces
  <2>2. x[1] = b /\ x[2] = savedPlace[b]
    OBVIOUS
  <2> HIDE DEF x
  <2>3. Holds(bytes, x[1], x[2])
    BY <2>1 DEF PlacesInv, BytesThere
  <2>4. QED
    BY <2>2, <2>3 DEF Holds
<1>2. QED
  BY <1>1, PlacesInductive, PTL

\* No two blocks share a byte of a file, of those posted, those in memory and those

\* saved that no restart uncovered, although a start goes back to the sizes that were
\* saved (findBlockPos, BlockStorage::load), for any number of files and any
\* interleaving of the two threads.
THEOREM PlacesStayApart == Spec => []PlacesAreApart
<1>1. PlacesInv => PlacesAreApart
  BY DEF PlacesInv
<1>2. QED
  BY <1>1, PlacesInductive, PTL
-----------------------------------------------------------------------------
(* The keys: every record is the record of index 0. *)

\* A task at the end, or the loss of the first one, brings no other flush.

LEMMA KeysQueue ==
    ASSUME KeysInv, NEW q,
           \A i \in 1..Len(q) : q[i].op = "flush" =>
               OneKey(q[i].data) \/ \E j \in 1..Len(queue) : q[i] = queue[j]
    PROVE  \A i \in 1..Len(q) : q[i].op = "flush" => OneKey(q[i].data)
BY DEF KeysInv

\* What a flush copies.

LEMMA CopiedFiles ==
    ASSUME TypeInv, KeysInv, NEW S
    PROVE  LET d == FlushDataOf(S)
           IN  /\ OneKey(d) /\ d.last = lastFile
               /\ lastFile = 0 /\ dirtyFiles = {} => d.files = <<>>
               /\ lastFile = 0 /\ dirtyFiles # {} =>
                     d.files # <<>> /\ d.files[1].size = SizeIn(blockFiles, 0)
<1> DEFINE n == Cardinality(dirtyFiles)
           nth == [i \in 1..n |->
                      CHOOSE f \in dirtyFiles : Cardinality({g \in dirtyFiles : g < f}) = i - 1]
           d == FlushDataOf(S)
<1>1. d.files = [i \in 1..n |-> blockFiles[nth[i] + 1]] /\ d.last = lastFile
  BY DEF DirtyInfos, FlushDataOf
<1>2. /\ FileCount \in Nat /\ dirtyFiles \in SUBSET (0..FileCount - 1)
      /\ lastFile \in Nat /\ Len(blockFiles) \in Nat
  BY FilesAssumption, LenProperties DEF TypeInv, TypeOK, File
<1>3. n \in Nat /\ IsFiniteSet(dirtyFiles)
  <2>1. IsFiniteSet(0..FileCount - 1)
    BY <1>2, FS_Interval
  <2>2. QED
    BY <1>2, <2>1, FS_Subset, FS_CardinalityType
<1>4. ASSUME NEW i \in 1..n
      PROVE  nth[i] \in dirtyFiles /\ blockFiles[nth[i] + 1].fileIndex = 0
  <2>1. \E f \in dirtyFiles : Cardinality({g \in dirtyFiles : g < f}) = i - 1
    BY <1>2, Ranks
  <2>2. nth[i] \in dirtyFiles
    BY <2>1
  <2> HIDE DEF nth, n
  <2>3. nth[i] \in 0..FileCount - 1 /\ nth[i] < Len(blockFiles)
    BY <1>2, <2>2 DEF TypeInv
  <2>4. nth[i] + 1 \in 1..Len(blockFiles)
    BY <1>2, <2>3
  <2>5. QED
    BY <2>2, <2>4 DEF KeysInv
<1> HIDE DEF nth
<1>5. n = 0 <=> dirtyFiles = {}
  BY <1>3, FS_EmptySet
<1> HIDE DEF n
<1>6. Len(d.files) = n /\ DOMAIN d.files = 1..n
  <2> HIDE DEF d
  <2>1. DOMAIN d.files = 1..n
    BY <1>1
  <2>2. d.files \in Seq({d.files[i] : i \in 1..n})
    BY <1>1, <1>3, IsASeq
  <2>3. QED
    BY <1>3, <2>1, <2>2, LenProperties
<1> HIDE DEF d
<1>7. \A j \in 1..Len(d.files) : d.files[j].fileIndex = 0
  BY <1>1, <1>4, <1>6
<1>8. CASE lastFile # 0
  BY <1>1, <1>7, <1>8 DEF OneKey, d
<1>9. CASE lastFile = 0 /\ dirtyFiles = {}
  <2>1. n = 0
    BY <1>5, <1>9
  <2>2. d.files = <<>>
    BY <1>1, <2>1
  <2>3. Len(d.files) <= 1
    BY <1>6, <2>1
  <2>4. QED
    BY <1>1, <1>7, <1>9, <2>2, <2>3 DEF OneKey, d
<1>10. CASE lastFile = 0 /\ dirtyFiles # {}
  <2>1. \A f \in dirtyFiles : f = 0
    BY <1>2, <1>10 DEF KeysInv
  <2>2. dirtyFiles = {0}
    BY <1>10, <2>1
  <2>3. n = 1
    BY <2>2, FS_Singleton DEF n
  <2>4. nth[1] = 0
    BY <1>4, <2>1, <2>3
  <2>5. d.files[1] = blockFiles[1]
    BY <1>1, <2>3, <2>4
  <2>6. 0 < Len(blockFiles)
    BY <2>2 DEF TypeInv
  <2>7. d.files # <<>> /\ Len(d.files) <= 1
    BY <1>6, <2>3
  <2>8. d.files[1].size = SizeIn(blockFiles, 0)
    BY <2>5, <2>6 DEF SizeIn
  <2>9. QED
    BY <1>1, <1>7, <1>10, <2>7, <2>8 DEF OneKey, d
<1>11. QED
  BY <1>8, <1>9, <1>10

LEMMA MarkDirtyKeys ==
    ASSUME TypeInv, KeysInv, NEW t \in Thread, NEW b \in Block, MarkDirty(t, b)
    PROVE  \A k \in Thread : InFlush(k)' => OneKey(flushing'[k].data)
<1>1. flushing \in [Thread -> Flush]
  BY DEF TypeInv, TypeOK
<1>2. CASE UNCHANGED flushing
  BY <1>2 DEF KeysInv, InFlush
<1> DEFINE d == FlushDataOf(dirty \cup {b})
           e == [step |-> "clear", data |-> d]
<1>3. CASE flushing' = [flushing EXCEPT ![t] = e]
  <2>1. OneKey(d)
    BY CopiedFiles
  <2>2. e.data = d
    OBVIOUS
  <2> HIDE DEF d, e
  <2>3. \A k \in Thread : flushing'[k] = IF k = t THEN e ELSE flushing[k]
    BY <1>1, <1>3
  <2>4. QED
    BY <2>1, <2>2, <2>3 DEF KeysInv, InFlush
<1>4. QED
  BY <1>2, <1>3 DEF MarkDirty

LEMMA NextKeys ==
    ASSUME TypeInv, KeysInv, [Next]_vars
    PROVE  KeysInv'
<1>0. TypeOK /\ queue \in Seq(Task) /\ flushing \in [Thread -> Flush]
  BY DEF TypeInv, TypeOK
<1>1. ASSUME NEW b \in Block, AddHeader(b) PROVE KeysInv'
  <2>1. MarkDirty("main", b) /\ "main" \in Thread
    BY <1>1 DEF AddHeader, Thread
  <2>2. UNCHANGED <<blockFiles, lastFile, dirtyFiles, queue, savedFiles>>
    BY <1>1 DEF AddHeader, saved
  <2>3. \A k \in Thread : InFlush(k)' => OneKey(flushing'[k].data)
    BY <2>1, MarkDirtyKeys
  <2>4. QED
    BY <2>2, <2>3 DEF KeysInv
<1>2. ASSUME NEW b \in Block, WriteBlock(b) PROVE KeysInv'
  <2> DEFINE f == FileFor(b)
             t == [op |-> "write", block |-> b,
                   pos |-> [file |-> f, at |-> SizeIn(blockFiles, f)]]
  <2>1. /\ f \in Nat /\ lastFile \in Nat /\ lastFile <= f /\ lastFile' = f
        /\ \A i \in 1..Len(blockFiles') :
              \/ blockFiles'[i].fileIndex = 0
              \/ i \in 1..Len(blockFiles)
                 /\ blockFiles'[i].fileIndex = blockFiles[i].fileIndex
        /\ dirtyFiles' = dirtyFiles \cup {f}
        /\ [file |-> f, at |-> SizeIn(blockFiles, f)] \in Pos /\ queue' = Append(queue, t)
    BY <1>0, <1>2, WriteBlockSizes
  <2>2. t \in Task /\ t.op # "flush"
    BY <2>1 DEF Task
  <2> HIDE DEF f, t
  <2>3. UNCHANGED <<flushing, savedFiles>>
    BY <1>2 DEF WriteBlock, saved
  <2>4. \A i \in 1..Len(queue') : queue'[i].op = "flush" => OneKey(queue'[i].data)
    <3>1. \A i \in 1..Len(queue') : queue'[i] = t \/ \E j \in 1..Len(queue) : queue'[i] = queue[j]
      BY <1>0, <2>1, <2>2, Appended
    <3>2. QED
      BY <2>2, <3>1, KeysQueue
  <2>5. \A g \in dirtyFiles' : g <= lastFile'
    <3>1. \A g \in dirtyFiles : g \in Nat /\ g <= lastFile
      BY <1>0, FilesAssumption DEF KeysInv, TypeOK, File
    <3>2. QED
      BY <2>1, <3>1
  <2>6. \A i \in 1..Len(blockFiles') : blockFiles'[i].fileIndex = 0
    BY <2>1 DEF KeysInv
  <2>7. QED
    BY <2>3, <2>4, <2>5, <2>6 DEF KeysInv, InFlush
<1>3. ASSUME NEW t \in Thread, Clear(t) PROVE KeysInv'
  <2>1. /\ dirtyFiles' = {} /\ InFlush(t)
        /\ flushing' = [flushing EXCEPT ![t].step = "post"]
        /\ UNCHANGED <<blockFiles, lastFile, queue, savedFiles>>
    BY <1>3 DEF Clear, InFlush, saved
  <2> DEFINE e == [flushing[t] EXCEPT !.step = "post"]
  <2>2. e.data = flushing[t].data
    BY <1>0, <2>1, FlushFacts
  <2>3. flushing' = [flushing EXCEPT ![t] = e]
    BY <2>1
  <2> HIDE DEF e
  <2>4. \A k \in Thread : flushing'[k] = IF k = t THEN e ELSE flushing[k]
    BY <1>0, <2>3
  <2>5. \A k \in Thread : InFlush(k)' => OneKey(flushing'[k].data)
    BY <2>1, <2>2, <2>4 DEF KeysInv, InFlush
  <2>6. QED
    BY <2>1, <2>5 DEF KeysInv
<1>4. ASSUME NEW t \in Thread, Post(t) PROVE KeysInv'
  <2> DEFINE u == FlushTask(flushing[t].data)
  <2>1. /\ InFlush(t) /\ queue' = Append(queue, u)
        /\ flushing' = [flushing EXCEPT ![t] = NotFlushing]
        /\ UNCHANGED <<blockFiles, lastFile, dirtyFiles, savedFiles>>
    BY <1>4 DEF Post, InFlush, memory, saved
  <2>2. u \in Task /\ u.data = flushing[t].data
    BY <1>0, <2>1, FlushFacts, FlushTaskType
  <2>3. OneKey(u.data)
    BY <2>1, <2>2 DEF KeysInv
  <2> HIDE DEF u
  <2>4. \A i \in 1..Len(queue') : queue'[i] = u \/ \E j \in 1..Len(queue) : queue'[i] = queue[j]
    BY <1>0, <2>1, <2>2, Appended
  <2>5. \A i \in 1..Len(queue') : queue'[i].op = "flush" => OneKey(queue'[i].data)
    BY <2>3, <2>4, KeysQueue
  <2>6. \A k \in Thread : InFlush(k)' => OneKey(flushing'[k].data)
    <3>1. \A k \in Thread : flushing'[k] = IF k = t THEN NotFlushing ELSE flushing[k]
      BY <1>0, <2>1
    <3>2. NotFlushing.step = "none"
      BY DEF NotFlushing
    <3>3. QED
      BY <3>1, <3>2 DEF KeysInv, InFlush
  <2>7. QED
    BY <2>1, <2>5, <2>6 DEF KeysInv
<1>5. CASE DoWriteBlock
  <2> DEFINE u == [Head(queue) EXCEPT !.op = "written"]
             q == Tail(queue)
  <2>1. /\ q \in Seq(Task) /\ Head(queue) = queue[1] /\ queue[1] \in Task
        /\ \A i \in 1..Len(q) : i + 1 \in 1..Len(queue) /\ q[i] = queue[i + 1]
    BY <1>0, <1>5, QueueTail DEF DoWriteBlock, NextTask
  <2>2. /\ queue' = Append(q, u) /\ Head(queue).op = "write"
        /\ UNCHANGED <<blockFiles, lastFile, dirtyFiles, flushing, savedFiles>>
    BY <1>5 DEF DoWriteBlock, NextTask, memory, saved
  <2>3. u \in Task /\ u.op # "flush"
    BY <2>1, <2>2 DEF Task
  <2> HIDE DEF u, q
  <2>4. \A i \in 1..Len(queue') : queue'[i] = u \/ \E j \in 1..Len(queue) : queue'[i] = queue[j]
    BY <2>1, <2>2, <2>3, Appended
  <2>5. \A i \in 1..Len(queue') : queue'[i].op = "flush" => OneKey(queue'[i].data)
    BY <2>3, <2>4, KeysQueue
  <2>6. QED
    BY <2>2, <2>5 DEF KeysInv, InFlush
<1>6. CASE Written
  <2> DEFINE t == Head(queue)
  <2>1. \A i \in 1..Len(queue') : \E j \in 1..Len(queue) : queue'[i] = queue[j]
    BY <1>0, <1>6, QueueTail DEF Written, NextTask
  <2>2. t \in Task /\ t.op = "written"
    BY <1>0, <1>6, QueueTail DEF Written, NextTask
  <2>3. t.block \in Block /\ "disk" \in Thread /\ MarkDirty("disk", t.block)
        /\ UNCHANGED <<blockFiles, lastFile, dirtyFiles, savedFiles>>
    BY <1>6, <2>2, TaskFacts DEF Written, Thread, saved
  <2> HIDE DEF t
  <2>4. \A k \in Thread : InFlush(k)' => OneKey(flushing'[k].data)
    BY <2>3, MarkDirtyKeys
  <2>5. QED
    BY <2>1, <2>3, <2>4, KeysQueue DEF KeysInv
<1>7. CASE DoFlush
  <2> DEFINE d == Head(queue).data
  <2>1. \A i \in 1..Len(queue') : \E j \in 1..Len(queue) : queue'[i] = queue[j]
    BY <1>0, <1>7, QueueTail DEF DoFlush, NextTask
  <2>2. OneKey(d)
    BY <1>0, <1>7, QueueTail DEF DoFlush, NextTask, KeysInv
  <2>3. savedFiles' = Records(d.files)
        /\ UNCHANGED <<blockFiles, lastFile, dirtyFiles, flushing>>
    BY <1>7 DEF DoFlush, memory
  <2> HIDE DEF d
  <2>4. DOMAIN savedFiles' \subseteq {0}
    BY <2>2, <2>3 DEF Records, OneKey, KeysInv
  <2>5. QED
    BY <2>1, <2>3, <2>4, KeysQueue DEF KeysInv, InFlush
<1>8. CASE Restart
  <2> DEFINE n == Cardinality(DOMAIN savedFiles)
             key == [i \in 1..n |-> CHOOSE f \in DOMAIN savedFiles :
                                       Cardinality({g \in DOMAIN savedFiles : g < f}) = i - 1]
  <2>1. /\ blockFiles' = LoadedFiles /\ dirtyFiles' = {} /\ queue' = <<>>
        /\ flushing' = [t \in Thread |-> NotFlushing] /\ UNCHANGED savedFiles
    BY <1>8 DEF Restart, saved
  <2>2. LoadedFiles = [i \in 1..n |-> [savedFiles[key[i]] EXCEPT !.fileIndex = key[i]]]
    BY DEF LoadedFiles
  <2>3. DOMAIN savedFiles \in SUBSET (0..FileCount - 1) /\ FileCount \in Nat /\ n \in Nat
    <3>1. FileCount \in Nat /\ 0 \in 0..FileCount - 1
      BY FilesAssumption
    <3>2. DOMAIN savedFiles \in SUBSET {0} /\ IsFiniteSet({0})
      BY FS_Singleton DEF KeysInv
    <3>3. QED
      BY <3>1, <3>2, FS_Subset, FS_CardinalityType
  <2>4. \A f \in DOMAIN savedFiles : savedFiles[f] \in FileInfo
    BY <1>0 DEF TypeOK
  <2>5. ASSUME NEW i \in 1..n
        PROVE  [savedFiles[key[i]] EXCEPT !.fileIndex = key[i]].fileIndex = 0
    <3>1. \E f \in DOMAIN savedFiles : Cardinality({g \in DOMAIN savedFiles : g < f}) = i - 1
      BY <2>3, Ranks
    <3>2. key[i] \in DOMAIN savedFiles
      BY <3>1
    <3> HIDE DEF key
    <3>3. key[i] = 0 /\ savedFiles[key[i]] \in FileInfo
      BY <2>4, <3>2 DEF KeysInv
    <3>4. QED
      BY <3>3 DEF FileInfo
  <2> HIDE DEF n, key
  <2>6. Len(LoadedFiles) = n
    <3>1. LoadedFiles \in Seq({LoadedFiles[i] : i \in 1..n}) /\ DOMAIN LoadedFiles = 1..n
      BY <2>2, <2>3, IsASeq
    <3>2. QED
      BY <2>3, <3>1, LenProperties
  <2>7. \A i \in 1..Len(blockFiles') : blockFiles'[i].fileIndex = 0
    BY <2>1, <2>2, <2>5, <2>6
  <2>8. \A i \in 1..Len(queue') : FALSE
    BY <2>1
  <2>9. \A k \in Thread : ~ InFlush(k)'
    BY <2>1 DEF InFlush, NotFlushing
  <2>10. QED
    BY <2>1, <2>7, <2>8, <2>9 DEF KeysInv
<1>9. CASE UNCHANGED vars
  BY <1>9 DEF KeysInv, InFlush, vars, memory, tasks, saved
<1>10. QED
  BY <1>1, <1>2, <1>3, <1>4, <1>5, <1>6, <1>7, <1>8, <1>9 DEF Next
-----------------------------------------------------------------------------
(* The sizes of the first file in the order in which they are saved. *)

LEMMA TaskSize ==
    ASSUME NEW t \in Task, HasSize(t)
    PROVE  /\ SizeOf(t) \in Nat /\ t.data \in FlushData
           /\ t.data.files \in Seq(FileInfo) /\ t.data.last \in Nat
           /\ t.data.last = 0 => SizeOf(t) < Whole /\ SizeOf(t) = t.data.files[1].size
<1>1. t.data \in FlushData
  BY TaskFacts DEF HasSize
<1>2. t.data.files \in Seq(FileInfo) /\ t.data.last \in Nat
  BY <1>1, FilesAssumption DEF FlushData, File
<1>3. CASE t.data.last > 0
  BY <1>1, <1>2, <1>3, FilesAssumption DEF SizeOf, Whole
<1>4. CASE ~(t.data.last > 0)
  <2>1. t.data.files # <<>>
    BY <1>4 DEF HasSize
  <2>2. 1 \in 1..Len(t.data.files)
    BY <1>2, <2>1, FirstGone
  <2>3. t.data.files[1].size \in Nat /\ t.data.files[1].size < MaxFileSize
    BY <1>2, <2>2, InfoSize
  <2>4. SizeOf(t) = t.data.files[1].size
    BY <1>4 DEF SizeOf
  <2>5. t.data.files[1].size < Whole
    BY <2>3, FilesAssumption DEF Whole
  <2>6. QED
    BY <1>1, <1>2, <2>3, <2>4, <2>5
<1>5. QED
  BY <1>3, <1>4

LEMMA EndType ==
    ASSUME NEW b \in Block, NEW p \in Pos
    PROVE  End(b, p) \in Nat
BY PosFacts DEF End

LEMMA SavesAppend ==
    ASSUME NEW q \in Seq(Task), NEW t \in Task, NEW s, NEW n, NEW v, Saves(s, q, n, v)
    PROVE  Saves(s, Append(q, t), n, v)
<1>1. CASE v <= s
  BY <1>1 DEF Saves
<1>2. CASE \E i \in 1..Len(q) : i <= n /\ HasSize(q[i]) /\ v <= SizeOf(q[i])
  <2>1. PICK i \in 1..Len(q) : i <= n /\ HasSize(q[i]) /\ v <= SizeOf(q[i])
    BY <1>2
  <2>2. Append(q, t)[i] = q[i] /\ Len(Append(q, t)) = Len(q) + 1 /\ Len(q) \in Nat
    BY Appended
  <2>3. i \in 1..Len(Append(q, t))
    BY <2>2
  <2>4. QED
    BY <2>1, <2>2, <2>3 DEF Saves
<1>3. QED
  BY <1>1, <1>2 DEF Saves

LEMMA SavesLater ==
    ASSUME NEW q \in Seq(Task), NEW s, NEW n \in Int, NEW m \in Int, n <= m, NEW v,
           Saves(s, q, n, v)
    PROVE  Saves(s, q, m, v)
<1>1. \A i \in 1..Len(q) : i <= n => i <= m
  <2>1. \A i, a, c \in Int : i <= a /\ a <= c => i <= c
    OBVIOUS
  <2>2. QED
    BY <2>1
<1>2. QED
  BY <1>1 DEF Saves

LEMMA SavesSmaller ==
    ASSUME NEW q \in Seq(Task), NEW s \in Nat, NEW n, NEW v \in Nat, NEW w \in Nat, w <= v,
           Saves(s, q, n, v)
    PROVE  Saves(s, q, n, w)
<1>0. \A x \in Nat : v <= x => w <= x
  OBVIOUS
<1>1. CASE v <= s
  BY <1>0, <1>1 DEF Saves
<1>2. CASE \E i \in 1..Len(q) : i <= n /\ HasSize(q[i]) /\ v <= SizeOf(q[i])
  <2>1. PICK i \in 1..Len(q) : i <= n /\ HasSize(q[i]) /\ v <= SizeOf(q[i])
    BY <1>2
  <2>2. SizeOf(q[i]) \in Nat
    BY <2>1, ElementOfSeq, TaskSize
  <2>3. QED
    BY <1>0, <2>1, <2>2 DEF Saves
<1>3. QED
  BY <1>1, <1>2 DEF Saves

\* The saved size after the first task.
AfterFirst(s, q) == IF HasSize(q[1]) THEN SizeOf(q[1]) ELSE s

LEMMA SavesTail ==
    ASSUME NEW q \in Seq(Task), q # <<>>, NEW s \in Nat, NEW r, Ascending(s, q, r),
           NEW n \in Nat, NEW v \in Nat, Saves(s, q, n + 1, v)
    PROVE  Saves(AfterFirst(s, q), Tail(q), n, v)
<1>1. /\ 1 \in 1..Len(q) /\ Len(q) \in Nat /\ Len(Tail(q)) = Len(q) - 1
      /\ \A i \in 1..Len(Tail(q)) : i + 1 \in 1..Len(q) /\ Tail(q)[i] = q[i + 1]
  BY FirstGone
<1>2. CASE v <= s
  <2>1. HasSize(q[1]) => s <= SizeOf(q[1]) /\ SizeOf(q[1]) \in Nat
    BY <1>1, ElementOfSeq, TaskSize DEF Ascending
  <2>2. v <= AfterFirst(s, q)
    BY <1>2, <2>1 DEF AfterFirst
  <2>3. QED
    BY <2>2 DEF Saves
<1>3. CASE \E i \in 1..Len(q) : i <= n + 1 /\ HasSize(q[i]) /\ v <= SizeOf(q[i])
  <2>1. PICK i \in 1..Len(q) : i <= n + 1 /\ HasSize(q[i]) /\ v <= SizeOf(q[i])
    BY <1>3
  <2>2. CASE i = 1
    BY <2>1, <2>2 DEF Saves, AfterFirst
  <2>3. CASE i # 1
    <3>1. i - 1 \in 1..Len(Tail(q)) /\ i - 1 <= n /\ (i - 1) + 1 = i
      BY <1>1, <2>1, <2>3
    <3>2. Tail(q)[i - 1] = q[i]
      BY <1>1, <3>1
    <3>3. QED
      BY <2>1, <3>1, <3>2 DEF Saves
  <2>4. QED
    BY <2>2, <2>3
<1>4. QED
  BY <1>2, <1>3 DEF Saves

LEMMA AscendingTail ==
    ASSUME NEW q \in Seq(Task), q # <<>>, NEW s \in Nat, NEW r \in Nat, Ascending(s, q, r)
    PROVE  Ascending(AfterFirst(s, q), Tail(q), r)
<1>1. /\ 1 \in 1..Len(q) /\ Len(q) \in Nat /\ Len(Tail(q)) = Len(q) - 1
      /\ \A i \in 1..Len(Tail(q)) : i + 1 \in 1..Len(q) /\ Tail(q)[i] = q[i + 1]
  BY FirstGone
<1>2. AfterFirst(s, q) <= r
  BY <1>1 DEF AfterFirst, Ascending
<1>3. ASSUME NEW i \in 1..Len(Tail(q)), HasSize(Tail(q)[i])
      PROVE  /\ AfterFirst(s, q) <= SizeOf(Tail(q)[i]) /\ SizeOf(Tail(q)[i]) <= r
             /\ \A j \in 1..Len(Tail(q)) :
                   j <= i /\ HasSize(Tail(q)[j]) => SizeOf(Tail(q)[j]) <= SizeOf(Tail(q)[i])
  <2>1. i + 1 \in 1..Len(q) /\ Tail(q)[i] = q[i + 1] /\ HasSize(q[i + 1])
    BY <1>1, <1>3
  <2>2. 1 <= i + 1
    OBVIOUS
  <2>3. AfterFirst(s, q) <= SizeOf(Tail(q)[i]) /\ SizeOf(Tail(q)[i]) <= r
    BY <1>1, <2>1, <2>2 DEF Ascending, AfterFirst
  <2>4. ASSUME NEW j \in 1..Len(Tail(q)), j <= i, HasSize(Tail(q)[j])
        PROVE  SizeOf(Tail(q)[j]) <= SizeOf(Tail(q)[i])
    <3>1. j + 1 \in 1..Len(q) /\ Tail(q)[j] = q[j + 1] /\ j + 1 <= i + 1
      BY <1>1, <2>4
    <3>2. QED
      BY <2>1, <2>4, <3>1 DEF Ascending
  <2>5. QED
    BY <2>3, <2>4
<1>4. QED
  BY <1>2, <1>3 DEF Ascending

LEMMA AscendingAppend ==
    ASSUME NEW q \in Seq(Task), NEW t \in Task, NEW s \in Nat, NEW r \in Nat, NEW x \in Nat,
           Ascending(s, q, r), r <= x, HasSize(t) => SizeOf(t) = x
    PROVE  Ascending(s, Append(q, t), x)
<1> DEFINE p == Append(q, t)
<1>1. /\ Len(q) \in Nat /\ \A i \in 1..Len(q) : p[i] = q[i]
      /\ p[Len(q) + 1] = t /\ \A i \in 1..Len(p) : i \in 1..Len(q) \/ i = Len(q) + 1
  BY Appended
<1> HIDE DEF p
<1>2. \A y \in Nat : y <= r => y <= x
  OBVIOUS
<1>3. s <= x
  BY <1>2 DEF Ascending
<1>4. ASSUME NEW i \in 1..Len(p), HasSize(p[i])
      PROVE  /\ s <= SizeOf(p[i]) /\ SizeOf(p[i]) <= x
             /\ \A j \in 1..Len(p) : j <= i /\ HasSize(p[j]) => SizeOf(p[j]) <= SizeOf(p[i])
  <2>1. \A j \in 1..Len(q) : HasSize(q[j]) => SizeOf(q[j]) <= x
    <3>1. \A j \in 1..Len(q) : HasSize(q[j]) => SizeOf(q[j]) \in Nat /\ SizeOf(q[j]) <= r
      BY ElementOfSeq, TaskSize DEF Ascending
    <3>2. QED
      BY <1>2, <3>1
  <2>2. CASE i \in 1..Len(q)
    <3>1. HasSize(q[i]) /\ s <= SizeOf(q[i]) /\ SizeOf(q[i]) <= x
      BY <1>1, <1>4, <2>1, <2>2 DEF Ascending
    <3>2. ASSUME NEW j \in 1..Len(p), j <= i, HasSize(p[j])
          PROVE  SizeOf(p[j]) <= SizeOf(p[i])
      <4>1. j \in 1..Len(q)
        <5>1. j # Len(q) + 1
          BY <1>1, <2>2, <3>2
        <5>2. QED
          BY <1>1, <5>1
      <4>2. QED
        BY <1>1, <2>2, <3>1, <3>2, <4>1 DEF Ascending
    <3>3. QED
      BY <1>1, <2>2, <3>1, <3>2
  <2>3. CASE i = Len(q) + 1
    <3>1. p[i] = t /\ SizeOf(p[i]) = x
      BY <1>1, <1>4, <2>3
    <3>2. ASSUME NEW j \in 1..Len(p), HasSize(p[j]) PROVE SizeOf(p[j]) <= x
      <4>1. CASE j \in 1..Len(q)
        BY <1>1, <2>1, <3>2, <4>1
      <4>2. CASE j = Len(q) + 1
        <5>1. SizeOf(p[j]) = x
          BY <2>3, <3>1, <4>2
        <5>2. QED
          BY <5>1
      <4>3. QED
        BY <1>1, <4>1, <4>2
    <3>3. x <= x
      OBVIOUS
    <3>4. QED
      BY <1>3, <3>1, <3>2, <3>3
  <2>4. QED
    BY <1>1, <2>2, <2>3
<1>5. QED
  BY <1>3, <1>4 DEF Ascending, p

\* The loss of the first task, whose place may be noted by then.

LEMMA CoversTail ==
    ASSUME NEW q \in Seq(Task), q # <<>>, NEW s \in Nat, NEW r, Ascending(s, q, r),
           NEW P, Covers(s, q, P), NEW N, \A x \in N : IsPair(x),
           \A x \in N : x \in P \/ (q[1].op # "flush" /\ x = <<q[1].block, q[1].pos>>)
    PROVE  Covers(AfterFirst(s, q), Tail(q), N)
<1>1. /\ 1 \in 1..Len(q) /\ Len(q) \in Nat /\ Tail(q) \in Seq(Task)
      /\ \A i \in 1..Len(Tail(q)) : i + 1 \in 1..Len(q) /\ Tail(q)[i] = q[i + 1]
  BY FirstGone
<1>2. \A x \in N : End(x[1], x[2]) \in Nat
  BY EndType DEF IsPair
<1> SUFFICES ASSUME NEW i \in 1..Len(Tail(q)), Tail(q)[i].op = "flush"
             PROVE  /\ \A x \in N : Saves(AfterFirst(s, q), Tail(q), i, End(x[1], x[2]))
                    /\ \A j \in 1..Len(Tail(q)) : j < i /\ Tail(q)[j].op # "flush" =>
                          Saves(AfterFirst(s, q), Tail(q), i, End(Tail(q)[j].block, Tail(q)[j].pos))
  BY DEF Covers
<1>3. i + 1 \in 1..Len(q) /\ q[i + 1].op = "flush" /\ i \in Nat
  BY <1>1
<1>4. ASSUME NEW x \in N
      PROVE  Saves(AfterFirst(s, q), Tail(q), i, End(x[1], x[2]))
  <2>1. Saves(s, q, i + 1, End(x[1], x[2]))
    <3>1. CASE x \in P
      BY <1>3, <3>1 DEF Covers
    <3>2. CASE q[1].op # "flush" /\ x = <<q[1].block, q[1].pos>>
      <4>1. 1 < i + 1 /\ x[1] = q[1].block /\ x[2] = q[1].pos
        BY <3>2
      <4>2. QED
        BY <1>1, <1>3, <3>2, <4>1 DEF Covers
    <3>3. QED
      BY <3>1, <3>2
  <2>2. QED
    BY <1>2, <1>3, <2>1, SavesTail
<1>5. ASSUME NEW j \in 1..Len(Tail(q)), j < i, Tail(q)[j].op # "flush"
      PROVE  Saves(AfterFirst(s, q), Tail(q), i, End(Tail(q)[j].block, Tail(q)[j].pos))
  <2>1. j + 1 \in 1..Len(q) /\ j + 1 < i + 1 /\ Tail(q)[j] = q[j + 1] /\ q[j + 1] \in Task
    BY <1>1, <1>5, ElementOfSeq
  <2>2. Saves(s, q, i + 1, End(q[j + 1].block, q[j + 1].pos))
    BY <1>3, <1>5, <2>1 DEF Covers
  <2>3. End(q[j + 1].block, q[j + 1].pos) \in Nat
    BY <1>5, <2>1, TaskFacts, EndType
  <2>4. QED
    BY <1>3, <2>1, <2>2, <2>3, SavesTail
<1>6. QED
  BY <1>4, <1>5

LEMMA CoversAppend ==
    ASSUME NEW q \in Seq(Task), NEW t \in Task, NEW s, NEW P, Covers(s, q, P),
           t.op = "flush" =>
               /\ \A x \in P : Saves(s, Append(q, t), Len(q) + 1, End(x[1], x[2]))
               /\ \A j \in 1..Len(q) : q[j].op # "flush" =>
                     Saves(s, Append(q, t), Len(q) + 1, End(q[j].block, q[j].pos))
    PROVE  Covers(s, Append(q, t), P)
<1> DEFINE p == Append(q, t)
<1>1. /\ Len(q) \in Nat /\ \A i \in 1..Len(q) : p[i] = q[i]
      /\ p[Len(q) + 1] = t /\ \A i \in 1..Len(p) : i \in 1..Len(q) \/ i = Len(q) + 1
  BY Appended
<1>2. \A n, v : Saves(s, q, n, v) => Saves(s, p, n, v)
  BY SavesAppend
<1>3. t.op = "flush" =>
               /\ \A x \in P : Saves(s, p, Len(q) + 1, End(x[1], x[2]))
               /\ \A j \in 1..Len(q) : q[j].op # "flush" =>
                     Saves(s, p, Len(q) + 1, End(q[j].block, q[j].pos))
  OBVIOUS
<1> HIDE DEF p
<1>4. ASSUME NEW i \in 1..Len(p), p[i].op = "flush"
      PROVE  /\ \A x \in P : Saves(s, p, i, End(x[1], x[2]))
             /\ \A j \in 1..Len(p) : j < i /\ p[j].op # "flush" =>
                   Saves(s, p, i, End(p[j].block, p[j].pos))
  <2>1. \A j \in 1..Len(p) : j < i => j \in 1..Len(q)
    BY <1>1
  <2>2. CASE i \in 1..Len(q)
    BY <1>1, <1>2, <1>4, <2>1, <2>2 DEF Covers
  <2>3. CASE i = Len(q) + 1
    BY <1>1, <1>3, <1>4, <2>1, <2>3
  <2>4. QED
    BY <1>1, <2>2, <2>3
<1>5. QED
  BY <1>4 DEF Covers, p

\* The numbers of a state.

LEMMA Numbers ==
    ASSUME TypeOK
    PROVE  /\ Room \in Nat /\ SavedSize \in Nat /\ SavedRoom \in Nat
           /\ Len(queue) \in Nat /\ queue \in Seq(Task)
           /\ lastFile \in Nat /\ savedLast \in Nat
<1>1. SizeIn(blockFiles, 0) \in Nat /\ Whole \in Nat
  <2>1. 0 \in Nat
    OBVIOUS
  <2>2. SizeIn(blockFiles, 0) \in Nat
    BY <2>1, SizeInType DEF TypeOK
  <2>3. QED
    BY <2>2, FilesAssumption DEF Whole
<1>2. SavedSize \in Nat
  <2>1. PICK S \in SUBSET File : savedFiles \in [S -> FileInfo]
    BY DEF TypeOK
  <2>2. 0 \in DOMAIN savedFiles => savedFiles[0] \in FileInfo
    BY <2>1
  <2>3. \A x \in FileInfo : x.size \in Nat
    BY FilesAssumption DEF FileInfo
  <2>4. QED
    BY <2>2, <2>3 DEF SavedSize
<1>3. lastFile \in Nat /\ savedLast \in Nat
  BY FilesAssumption DEF TypeOK, File
<1>4. QED
  BY <1>1, <1>2, <1>3, LenProperties DEF TypeOK, Room, SavedRoom

\* Nothing is placed beyond the size in use.

LEMMA RoomCovers ==
    ASSUME TypeOK, PlacesInRoom, NEW x \in Places
    PROVE  End(x[1], x[2]) \in Nat /\ End(x[1], x[2]) <= Room
<1>1. x[1] \in Block /\ x[2] \in Pos /\ Inside(blockFiles, lastFile, x[1], x[2])
  BY PlaceFacts DEF IsPair, PlacesInRoom
<1>2. End(x[1], x[2]) \in Nat /\ Room \in Nat /\ lastFile \in Nat
  BY <1>1, EndType, Numbers
<1>3. CASE x[2].file # 0
  BY <1>2, <1>3 DEF End
<1>4. CASE x[2].file = 0 /\ lastFile > 0
  <2>1. x[2].at \in 0..MaxFileSize - 1 /\ Size[x[1]] \in Nat /\ Size[x[1]] < MaxFileSize
        /\ MaxFileSize \in Nat
    BY <1>1, SizeFacts, FilesAssumption DEF Pos
  <2>2. x[2].at + Size[x[1]] <= 2 * MaxFileSize
    BY <2>1
  <2>3. QED
    BY <1>2, <1>4, <2>2 DEF End, Room, Whole
<1>5. CASE x[2].file = 0 /\ ~(lastFile > 0)
  <2>1. lastFile = 0
    BY <1>2, <1>5
  <2>2. x[2].at + Size[x[1]] <= SizeIn(blockFiles, 0)
    BY <1>1, <1>5, <2>1 DEF Inside
  <2>3. QED
    BY <1>2, <1>5, <2>2 DEF End, Room
<1>6. QED
  BY <1>3, <1>4, <1>5
-----------------------------------------------------------------------------
(* The first file in a run whose threads do not meet. *)

\* A flush copies the size in use, or that size is saved already.

LEMMA FlushedRoom ==
    ASSUME TypeInv, KeysInv, NEW S, dirtyFiles = {} => RoomIsSaved
    PROVE  FlushTakesRoom(FlushDataOf(S))
<1> DEFINE d == FlushDataOf(S)
           t == FlushTask(d)
<1>1. /\ d.last = lastFile
      /\ lastFile = 0 /\ dirtyFiles = {} => d.files = <<>>
      /\ lastFile = 0 /\ dirtyFiles # {} =>
            d.files # <<>> /\ d.files[1].size = SizeIn(blockFiles, 0)
  BY CopiedFiles
<1>2. lastFile \in Nat
  BY Numbers DEF TypeInv
<1> HIDE DEF d
<1>3. t.op = "flush" /\ t.data = d
  BY DEF FlushTask
<1> HIDE DEF t
<1>4. CASE lastFile > 0
  BY <1>1, <1>3, <1>4 DEF FlushTakesRoom, HasSize, SizeOf, Room, d, t
<1>5. CASE lastFile = 0 /\ dirtyFiles # {}
  <2>1. ~(d.last > 0) /\ d.files # <<>> /\ d.files[1].size = SizeIn(blockFiles, 0)
    BY <1>1, <1>5
  <2>2. HasSize(t) /\ SizeOf(t) = SizeIn(blockFiles, 0)
    BY <1>3, <2>1 DEF HasSize, SizeOf
  <2>3. Room = SizeIn(blockFiles, 0)
    BY <1>5 DEF Room
  <2>4. QED
    BY <2>2, <2>3 DEF FlushTakesRoom, d, t
<1>6. CASE lastFile = 0 /\ dirtyFiles = {}
  <2>1. ~HasSize(t)
    BY <1>1, <1>3, <1>6 DEF HasSize
  <2>2. QED
    BY <1>6, <2>1 DEF FlushTakesRoom, d, t
<1>7. QED
  BY <1>2, <1>4, <1>5, <1>6

LEMMA MarkDirtyTaken ==
    ASSUME TypeInv, KeysInv, SizeIsTaken, ~raced', NEW t \in Thread, ~InFlush(t),
           NEW b \in Block, MarkDirty(t, b), UNCHANGED <<blockFiles, lastFile, dirtyFiles>>,
           RoomIsSaved => RoomIsSaved'
    PROVE  SizeIsTaken'
<1>1. flushing \in [Thread -> Flush] /\ Room' = Room
  BY DEF TypeInv, TypeOK, Room
<1>2. CASE UNCHANGED flushing
  BY <1>1, <1>2 DEF SizeIsTaken, FlushTakesRoom, InFlush
<1> DEFINE d == FlushDataOf(dirty \cup {b})
           e == [step |-> "clear", data |-> d]
<1>3. CASE flushing' = [flushing EXCEPT ![t] = e] /\ raced' = (raced \/ InFlush(Other(t)))
  <2>1. \A k \in Thread : ~InFlush(k)
    BY <1>3 DEF Thread, Other
  <2>2. dirtyFiles = {} => RoomIsSaved
    BY <2>1 DEF SizeIsTaken
  <2>3. FlushTakesRoom(d)
    BY <2>2, FlushedRoom
  <2>4. e.data = d /\ e.step # "none"
    OBVIOUS
  <2> HIDE DEF d, e
  <2>5. \A k \in Thread : flushing'[k] = IF k = t THEN e ELSE flushing[k]
    BY <1>1, <1>3
  <2>6. \A k \in Thread : InFlush(k)' => k = t /\ flushing'[k].data = d
    BY <2>1, <2>4, <2>5 DEF InFlush
  <2>7. InFlush(t)'
    BY <2>4, <2>5 DEF InFlush
  <2>8. QED
    BY <1>1, <2>3, <2>6, <2>7 DEF SizeIsTaken, FlushTakesRoom
<1>4. QED
  BY <1>2, <1>3 DEF MarkDirty

LEMMA AddHeaderFirst ==
    ASSUME TypeInv, KeysInv, FirstInv, ~raced', NEW b \in Block, AddHeader(b)
    PROVE  FirstInv'
<1>1. /\ MarkDirty("main", b) /\ "main" \in Thread /\ ~InFlush("main")
      /\ UNCHANGED <<blockFiles, lastFile, dirtyFiles, place, queue, savedFiles, savedLast,
                     savedPlace, uncovered>>
  BY DEF AddHeader, Thread, saved
<1>2. SavedRoom' = SavedRoom /\ Room' = Room /\ Noted' = Noted /\ Saved' = Saved
  BY <1>1 DEF SavedRoom, SavedSize, Room, Noted, Saved, SavedPlaces
<1>3. RoomIsSaved' <=> RoomIsSaved
  BY <1>1, <1>2 DEF RoomIsSaved
<1>4. SizeIsTaken'
  BY <1>1, <1>3, MarkDirtyTaken DEF FirstInv
<1>5. QED
  BY <1>1, <1>2, <1>4 DEF FirstInv, SizesAscend, SizesComeFirst

LEMMA WriteBlockFirst ==
    ASSUME TypeInv, TypeInv', FirstInv, ~raced', NEW b \in Block, WriteBlock(b)
    PROVE  FirstInv'
<1> DEFINE f == FileFor(b)
           t == [op |-> "write", block |-> b,
                 pos |-> [file |-> f, at |-> SizeIn(blockFiles, f)]]
<1>1. /\ f \in Nat /\ lastFile \in Nat /\ lastFile <= f /\ lastFile' = f
      /\ SizeIn(blockFiles', f) = SizeIn(blockFiles, f) + Size[b]
      /\ \A g \in Nat : g # f => SizeIn(blockFiles', g) = SizeIn(blockFiles, g)
      /\ dirtyFiles' = dirtyFiles \cup {f}
      /\ [file |-> f, at |-> SizeIn(blockFiles, f)] \in Pos /\ queue' = Append(queue, t)
      /\ SizeIn(blockFiles, f) + Size[b] < MaxFileSize
  BY WriteBlockSizes DEF TypeInv
<1>2. /\ \A k \in Thread : ~InFlush(k)
      /\ UNCHANGED <<flushing, place, savedFiles, savedLast, savedPlace, uncovered>>
  BY DEF WriteBlock, Thread, saved
<1>3. t \in Task /\ ~HasSize(t) /\ t.op # "flush"
  BY <1>1 DEF Task, HasSize
<1>4. Size[b] \in Nat /\ SizeIn(blockFiles, f) \in Nat /\ SizeIn(blockFiles, 0) \in Nat
      /\ MaxFileSize \in Nat
  <2>1. 0 \in Nat /\ blockFiles \in Seq(FileInfo)
    BY DEF TypeInv, TypeOK
  <2>2. QED
    BY <1>1, <2>1, SizeFacts, SizeInType, FilesAssumption
<1>5. Room \in Nat /\ Room' \in Nat /\ SavedRoom \in Nat /\ queue \in Seq(Task)
  <2>1. 0 \in Nat /\ blockFiles' \in Seq(FileInfo) /\ Whole \in Nat
    BY FilesAssumption DEF TypeInv, TypeOK, Whole
  <2>2. SizeIn(blockFiles', 0) \in Nat
    BY <2>1, SizeInType
  <2>3. Room' \in Nat
    BY <2>1, <2>2 DEF Room
  <2>4. QED
    BY <2>3, Numbers DEF TypeInv
<1>6. SavedRoom' = SavedRoom /\ Noted' = Noted /\ Saved' = Saved
  BY <1>2 DEF SavedRoom, SavedSize, Noted, Saved, SavedPlaces
<1> HIDE DEF f, t
<1>7. Room <= Room'
  <2>1. CASE lastFile > 0
    <3>1. lastFile' > 0
      BY <1>1, <2>1
    <3>2. Room' = Room
      BY <2>1, <3>1 DEF Room
    <3>3. QED
      BY <1>5, <3>2
  <2>2. CASE lastFile = 0 /\ f = 0
    <3>1. Room = SizeIn(blockFiles, 0) /\ Room' = SizeIn(blockFiles, 0) + Size[b]
      BY <1>1, <2>2 DEF Room
    <3>2. QED
      BY <1>4, <3>1
  <2>3. CASE lastFile = 0 /\ f # 0
    <3>1. Room = SizeIn(blockFiles, 0) /\ Room' = Whole
      BY <1>1, <2>3 DEF Room
    <3>2. SizeIn(blockFiles, 0) < MaxFileSize
      <4>1. blockFiles \in Seq(FileInfo)
        BY DEF TypeInv, TypeOK
      <4>2. 0 < Len(blockFiles) => 0 + 1 \in 1..Len(blockFiles)
        BY <4>1, LenProperties
      <4>3. 0 < MaxFileSize
        BY SizeFacts, <1>4
      <4>4. QED
        BY <4>1, <4>2, <4>3, InfoSize DEF SizeIn
    <3>3. QED
      BY <1>4, <3>1, <3>2 DEF Whole
  <2>4. QED
    BY <1>1, <2>1, <2>2, <2>3
<1>8. SizesAscend'
  <2>1. Ascending(SavedRoom, queue, Room)
    BY DEF FirstInv, SizesAscend
  <2>2. Ascending(SavedRoom, queue', Room')
    BY <1>1, <1>3, <1>5, <1>7, <2>1, AscendingAppend
  <2>3. QED
    BY <1>6, <2>2 DEF SizesAscend
<1>9. SizeIsTaken'
  BY <1>1, <1>2 DEF SizeIsTaken, InFlush
<1>10. SizesComeFirst'
  <2>1. Covers(SavedRoom, queue, Noted)
    BY DEF FirstInv, SizesComeFirst
  <2>2. Covers(SavedRoom, queue', Noted)
    BY <1>1, <1>3, <1>5, <2>1, CoversAppend
  <2>3. QED
    BY <1>6, <2>2 DEF FirstInv, SizesComeFirst
<1>11. QED
  BY <1>8, <1>9, <1>10 DEF FirstInv

LEMMA ClearFirst ==
    ASSUME TypeInv, FirstInv, NEW t \in Thread, Clear(t)
    PROVE  FirstInv'
<1>1. /\ InFlush(t) /\ flushing' = [flushing EXCEPT ![t].step = "post"]
      /\ UNCHANGED <<blockFiles, lastFile, place, queue, savedFiles, savedLast,
                     savedPlace, uncovered>>
  BY DEF Clear, InFlush, saved, history
<1>2. SavedRoom' = SavedRoom /\ Room' = Room /\ Noted' = Noted /\ Saved' = Saved
  BY <1>1 DEF SavedRoom, SavedSize, Room, Noted, Saved, SavedPlaces
<1>3. RoomIsSaved' <=> RoomIsSaved
  BY <1>1, <1>2 DEF RoomIsSaved
<1> DEFINE e == [flushing[t] EXCEPT !.step = "post"]
<1>4. e.data = flushing[t].data /\ e.step # "none"
  BY <1>1, FlushFacts DEF TypeInv
<1>5. flushing' = [flushing EXCEPT ![t] = e] /\ flushing \in [Thread -> Flush]
  BY <1>1 DEF TypeInv, TypeOK
<1> HIDE DEF e
<1>6. \A k \in Thread : flushing'[k] = IF k = t THEN e ELSE flushing[k]
  BY <1>5
<1>7. SizeIsTaken'
  <2>1. \A k \in Thread : InFlush(k)' => InFlush(k) /\ flushing'[k].data = flushing[k].data
    BY <1>1, <1>4, <1>6 DEF InFlush
  <2>2. InFlush(t)'
    BY <1>4, <1>6 DEF InFlush
  <2>3. QED
    BY <1>2, <1>3, <2>1, <2>2 DEF FirstInv, SizeIsTaken, FlushTakesRoom
<1>8. QED
  BY <1>1, <1>2, <1>7 DEF FirstInv, SizesAscend, SizesComeFirst

\* The post of a flush: its size is the largest so far, and covers every place.

LEMMA PostFirst ==
    ASSUME TypeInv, TypeInv', PlacesInv, FirstInv, NEW t \in Thread, Post(t)
    PROVE  FirstInv'
<1> DEFINE u == FlushTask(flushing[t].data)
           n == Len(queue) + 1
<1>1. /\ InFlush(t) /\ queue' = Append(queue, u)
      /\ flushing' = [flushing EXCEPT ![t] = NotFlushing]
      /\ UNCHANGED <<blockFiles, lastFile, dirtyFiles, place, savedFiles, savedLast,
                     savedPlace, uncovered>>
  BY DEF Post, InFlush, memory, saved, history
<1>2. u \in Task /\ u.op = "flush"
  BY <1>1, FlushFacts, FlushTaskType DEF TypeInv
<1>3. IF HasSize(u) THEN SizeOf(u) = Room ELSE RoomIsSaved
  BY <1>1 DEF FirstInv, SizeIsTaken, FlushTakesRoom
<1>4. /\ Room \in Nat /\ SavedRoom \in Nat /\ Len(queue) \in Nat /\ n \in Nat
      /\ queue \in Seq(Task) /\ queue' \in Seq(Task)
  BY Numbers DEF TypeInv, TypeOK
<1>5. SavedRoom' = SavedRoom /\ Room' = Room /\ Noted' = Noted /\ Saved' = Saved
  BY <1>1 DEF SavedRoom, SavedSize, Room, Noted, Saved, SavedPlaces
<1> HIDE DEF u
<1>6. /\ Len(queue') = n /\ queue'[n] = u /\ n \in 1..Len(queue')
  <2>1. Len(queue') = n /\ queue'[n] = u
    BY <1>1, <1>2, <1>4, Appended
  <2>2. QED
    BY <1>4, <2>1
<1>7. SizesAscend'
  <2>1. Ascending(SavedRoom, queue, Room) /\ Room <= Room
    BY <1>4 DEF FirstInv, SizesAscend
  <2>2. Ascending(SavedRoom, queue', Room)
    BY <1>1, <1>2, <1>3, <1>4, <2>1, AscendingAppend
  <2>3. QED
    BY <1>5, <2>2 DEF SizesAscend
<1>8. Saves(SavedRoom, queue', n, Room)
  <2>1. CASE HasSize(u)
    <3>1. n <= n /\ HasSize(queue'[n]) /\ Room <= SizeOf(queue'[n])
      BY <1>3, <1>4, <1>6, <2>1
    <3>2. QED
      BY <1>6, <3>1 DEF Saves
  <2>2. CASE ~HasSize(u)
    <3>1. Saves(SavedRoom, queue, Len(queue), Room)
      BY <1>3, <2>2 DEF RoomIsSaved
    <3>2. Saves(SavedRoom, queue', Len(queue), Room)
      BY <1>1, <1>2, <1>4, <3>1, SavesAppend
    <3>3. Len(queue) <= n /\ Len(queue) \in Int /\ n \in Int
      BY <1>4
    <3>4. QED
      BY <1>4, <3>2, <3>3, SavesLater
  <2>3. QED
    BY <2>1, <2>2
<1>9. SizeIsTaken'
  <2>1. RoomIsSaved'
    BY <1>5, <1>6, <1>8 DEF RoomIsSaved
  <2>2. \A k \in Thread : flushing'[k] = IF k = t THEN NotFlushing ELSE flushing[k]
    BY <1>1 DEF TypeInv, TypeOK
  <2>3. NotFlushing.step = "none"
    BY DEF NotFlushing
  <2>4. \A k \in Thread : InFlush(k)' => InFlush(k) /\ flushing'[k].data = flushing[k].data
    BY <2>2, <2>3 DEF InFlush
  <2>5. QED
    BY <1>5, <2>1, <2>4 DEF FirstInv, SizeIsTaken, FlushTakesRoom
<1>10. ASSUME NEW x \in Places PROVE Saves(SavedRoom, queue', n, End(x[1], x[2]))
  <2>1. End(x[1], x[2]) \in Nat /\ End(x[1], x[2]) <= Room
    BY RoomCovers DEF TypeInv, PlacesInv
  <2>2. QED
    BY <1>4, <1>8, <2>1, SavesSmaller
<1>11. ASSUME NEW j \in 1..Len(queue), queue[j].op # "flush"
       PROVE  Saves(SavedRoom, queue', n, End(queue[j].block, queue[j].pos))
  <2> DEFINE x == <<queue[j].block, queue[j].pos>>
  <2>1. x \in Places
    BY <1>11, PlacesAre
  <2>2. x[1] = queue[j].block /\ x[2] = queue[j].pos
    OBVIOUS
  <2> HIDE DEF x
  <2>3. QED
    BY <1>10, <2>1, <2>2
<1>12. \A x \in Noted : Saves(SavedRoom, queue', n, End(x[1], x[2]))
  BY <1>10, PlacesAre
<1>13. SizesComeFirst'
  <2>1. Covers(SavedRoom, queue, Noted)
    BY DEF FirstInv, SizesComeFirst
  <2>2. Covers(SavedRoom, queue', Noted)
    BY <1>1, <1>2, <1>4, <1>11, <1>12, <2>1, CoversAppend
  <2>3. QED
    BY <1>5, <2>2 DEF FirstInv, SizesComeFirst
<1>14. QED
  BY <1>7, <1>9, <1>13 DEF FirstInv

\* What the loss of the first task keeps; its size is saved by then.

LEMMA TailKeeps ==
    ASSUME TypeOK, SizesAscend, queue # <<>>
    PROVE  LET s == SavedRoom
               q == Tail(queue)
           IN  /\ Ascending(AfterFirst(s, queue), q, Room)
               /\ RoomIsSaved => Saves(AfterFirst(s, queue), q, Len(q), Room)
               /\ s \in Nat /\ Room \in Nat /\ q \in Seq(Task) /\ queue \in Seq(Task)
               /\ Len(q) \in Nat /\ 1 \in 1..Len(queue) /\ Head(queue) = queue[1]
               /\ queue[1] \in Task /\ Ascending(s, queue, Room)
<1> DEFINE s == SavedRoom
           q == Tail(queue)
<1>1. s \in Nat /\ Room \in Nat /\ queue \in Seq(Task)
  BY Numbers
<1>2. /\ q \in Seq(Task) /\ Head(queue) = queue[1] /\ 1 \in 1..Len(queue)
      /\ Len(queue) \in Nat /\ Len(q) = Len(queue) - 1 /\ Len(q) \in Nat
  BY <1>1, FirstGone
<1>3. queue[1] \in Task
  BY <1>1, <1>2, ElementOfSeq
<1>4. Ascending(s, queue, Room)
  BY DEF SizesAscend
<1>5. Ascending(AfterFirst(s, queue), q, Room)
  BY <1>1, <1>4, AscendingTail
<1>6. ASSUME RoomIsSaved PROVE Saves(AfterFirst(s, queue), q, Len(q), Room)
  <2>1. Saves(s, queue, Len(q) + 1, Room)
    <3>1. Len(queue) = Len(q) + 1
      BY <1>2
    <3>2. QED
      BY <1>6, <3>1 DEF RoomIsSaved
  <2>2. QED
    BY <1>1, <1>2, <1>4, <2>1, SavesTail
<1>7. QED
  BY <1>1, <1>2, <1>3, <1>4, <1>5, <1>6

LEMMA DoWriteBlockFirst ==
    ASSUME TypeInv, TypeInv', FirstInv, DoWriteBlock
    PROVE  FirstInv'
<1> DEFINE t == queue[1]
           u == [t EXCEPT !.op = "written"]
           q == Tail(queue)
           s == SavedRoom
<1>1. /\ Ascending(AfterFirst(s, queue), q, Room)
      /\ RoomIsSaved => Saves(AfterFirst(s, queue), q, Len(q), Room)
      /\ s \in Nat /\ Room \in Nat /\ q \in Seq(Task) /\ queue \in Seq(Task)
      /\ Len(q) \in Nat /\ Head(queue) = t /\ t \in Task
      /\ Ascending(s, queue, Room) /\ queue # <<>>
  BY TailKeeps DEF TypeInv, FirstInv, DoWriteBlock, NextTask
<1>2. /\ t.op = "write" /\ queue' = Append(q, u)
      /\ UNCHANGED <<blockFiles, lastFile, dirtyFiles, place, flushing, savedFiles, savedLast,
                     savedPlace, uncovered>>
  BY <1>1 DEF DoWriteBlock, NextTask, memory, saved, history
<1>3. u \in Task /\ u.op # "flush" /\ ~HasSize(u)
  BY <1>1, <1>2 DEF Task, HasSize
<1>4. AfterFirst(s, queue) = s
  BY <1>2 DEF AfterFirst, HasSize
<1>5. SavedRoom' = s /\ Room' = Room /\ Noted' = Noted /\ Saved' = Saved
  BY <1>2 DEF SavedRoom, SavedSize, Room, Noted, Saved, SavedPlaces
<1>6. Covers(s, q, Noted)
  <2>1. Covers(s, queue, Noted) /\ \A x \in Noted : IsPair(x)
    BY PlaceFacts DEF TypeInv, FirstInv, SizesComeFirst
  <2>2. Covers(AfterFirst(s, queue), q, Noted)
    BY <1>1, <2>1, CoversTail
  <2>3. QED
    BY <1>4, <2>2
<1> HIDE DEF t, u, q, s
<1>7. SizesAscend'
  <2>1. Ascending(s, q, Room) /\ Room <= Room
    BY <1>1, <1>4
  <2>2. Ascending(s, queue', Room)
    BY <1>1, <1>2, <1>3, <2>1, AscendingAppend
  <2>3. QED
    BY <1>5, <2>2 DEF SizesAscend
<1>8. RoomIsSaved => RoomIsSaved'
  <2> SUFFICES ASSUME RoomIsSaved PROVE RoomIsSaved'
    OBVIOUS
  <2>1. Saves(s, queue', Len(q), Room)
    BY <1>1, <1>2, <1>3, <1>4, SavesAppend
  <2>2. Len(queue') = Len(q) + 1
    BY <1>1, <1>2, <1>3, Appended
  <2>3. Len(q) \in Int /\ Len(queue') \in Int /\ Len(q) <= Len(queue')
    BY <1>1, <2>2
  <2>4. queue' \in Seq(Task)
    BY DEF TypeInv, TypeOK
  <2>5. Saves(s, queue', Len(queue'), Room)
    BY <2>1, <2>3, <2>4, SavesLater
  <2>6. QED
    BY <1>5, <2>5 DEF RoomIsSaved
<1>9. SizeIsTaken'
  BY <1>2, <1>5, <1>8 DEF FirstInv, SizeIsTaken, FlushTakesRoom, InFlush
<1>10. SizesComeFirst'
  <2>1. Covers(s, queue', Noted)
    BY <1>1, <1>2, <1>3, <1>6, CoversAppend
  <2>2. \A x \in Saved : End(x[1], x[2]) <= s
    BY DEF FirstInv, SizesComeFirst, s
  <2>3. QED
    BY <1>5, <2>1, <2>2 DEF SizesComeFirst
<1>11. QED
  BY <1>7, <1>9, <1>10 DEF FirstInv

LEMMA WrittenFirst ==
    ASSUME TypeInv, TypeInv', KeysInv, FirstInv, ~raced', Written
    PROVE  FirstInv'
<1> DEFINE t == queue[1]
           q == Tail(queue)
           s == SavedRoom
<1>1. /\ Ascending(AfterFirst(s, queue), q, Room)
      /\ RoomIsSaved => Saves(AfterFirst(s, queue), q, Len(q), Room)
      /\ s \in Nat /\ Room \in Nat /\ q \in Seq(Task) /\ queue \in Seq(Task)
      /\ Len(q) \in Nat /\ Head(queue) = t /\ t \in Task
      /\ Ascending(s, queue, Room) /\ queue # <<>>
  BY TailKeeps DEF TypeInv, FirstInv, Written, NextTask
<1>2. /\ t.op = "written" /\ queue' = q /\ ~InFlush("disk") /\ MarkDirty("disk", t.block)
      /\ UNCHANGED <<blockFiles, lastFile, dirtyFiles, savedFiles, savedLast, savedPlace,
                     uncovered>>
  BY <1>1 DEF Written, NextTask, saved
<1>3. Noted' \subseteq Noted \cup {<<t.block, t.pos>>} /\ Saved' = Saved
  BY <1>1, WrittenNoted
<1>4. AfterFirst(s, queue) = s
  BY <1>2 DEF AfterFirst, HasSize
<1>5. SavedRoom' = s /\ Room' = Room
  BY <1>2 DEF SavedRoom, SavedSize, Room
<1>6. Covers(s, q, Noted')
  <2>1. Covers(s, queue, Noted) /\ \A x \in Noted' : IsPair(x)
    <3>1. \A x \in Noted : IsPair(x)
      BY PlaceFacts DEF TypeInv
    <3>2. IsPair(<<t.block, t.pos>>)
      BY <1>1, <1>2, TaskFacts DEF IsPair
    <3>3. QED
      BY <1>3, <3>1, <3>2 DEF FirstInv, SizesComeFirst
  <2>2. \A x \in Noted' :
            x \in Noted \/ (queue[1].op # "flush" /\ x = <<queue[1].block, queue[1].pos>>)
    BY <1>2, <1>3
  <2> HIDE DEF t, q, s
  <2>3. Covers(AfterFirst(s, queue), Tail(queue), Noted')
    BY <1>1, <2>1, <2>2, CoversTail
  <2>4. QED
    BY <1>4, <2>3 DEF q
<1>7. RoomIsSaved => RoomIsSaved'
  BY <1>1, <1>2, <1>4, <1>5 DEF RoomIsSaved
<1>8. SizeIsTaken'
  <2>1. t.block \in Block /\ "disk" \in Thread
    BY <1>1, <1>2, TaskFacts DEF Thread
  <2> HIDE DEF t, q, s
  <2>2. QED
    BY <1>2, <1>7, <2>1, MarkDirtyTaken DEF FirstInv
<1>9. SizesAscend'
  BY <1>1, <1>2, <1>4, <1>5 DEF SizesAscend
<1>10. SizesComeFirst'
  BY <1>2, <1>3, <1>5, <1>6 DEF FirstInv, SizesComeFirst
<1>11. QED
  BY <1>8, <1>9, <1>10 DEF FirstInv

\* The record of the first file after a flush is the one of its task, if that has one.

LEMMA FlushedRecord ==
    ASSUME NEW d \in FlushData, OneKey(d), d.last = 0, d.files # <<>>
    PROVE  0 \in DOMAIN Records(d.files) /\ Records(d.files)[0] = d.files[1]
<1> DEFINE files == d.files
<1>1. files \in Seq(FileInfo) /\ Len(files) <= 1
  BY DEF FlushData, OneKey
<1>2. 1 \in 1..Len(files) /\ Len(files) \in Nat
  BY <1>1, FirstGone
<1>3. files[1].fileIndex = 0
  BY <1>2 DEF OneKey
<1> HIDE DEF files
<1>4. Len(files) = 1 /\ 1..Len(files) = {1}
  <2>1. \A n \in Nat : n <= 1 /\ 1 \in 1..n => n = 1
    OBVIOUS
  <2>2. Len(files) = 1
    BY <1>1, <1>2, <2>1
  <2>3. QED
    BY <2>2
<1>5. 0 \in DOMAIN Records(files) /\
      Records(files)[0] = files[CHOOSE j \in 1..Len(files) :
                                  /\ files[j].fileIndex = 0
                                  /\ \A k \in j + 1..Len(files) : files[k].fileIndex # 0]
  BY <1>2, <1>3 DEF Records
<1>6. \A k \in 1 + 1..Len(files) : files[k].fileIndex # 0
  BY <1>4
<1>7. Records(files)[0] = files[1]
  BY <1>3, <1>4, <1>5, <1>6
<1>8. QED
  BY <1>5, <1>7 DEF files

\* The size that is saved after a flush is the one of its task, if that has one.

LEMMA FlushedSize ==
    ASSUME TypeOK, KeysInv, SizesAscend, DoFlush
    PROVE  /\ SavedRoom' = AfterFirst(SavedRoom, queue)
           /\ SavedRoom <= SavedRoom'
           /\ savedLast' = 0 => savedLast = 0
<1> DEFINE t == queue[1]
           d == t.data
           s == SavedRoom
<1>1. /\ s \in Nat /\ Head(queue) = t /\ t \in Task /\ 1 \in 1..Len(queue)
      /\ Ascending(s, queue, Room) /\ queue # <<>> /\ SavedRoom \in Nat /\ savedLast \in Nat
      /\ SavedSize \in Nat
  BY TailKeeps, Numbers DEF DoFlush, NextTask
<1>2. /\ t.op = "flush" /\ savedFiles' = Records(d.files)
      /\ savedLast' = IF d.last > 0 THEN d.last ELSE savedLast
  BY <1>1 DEF DoFlush, NextTask
<1>3. d \in FlushData /\ OneKey(d) /\ d.last \in Nat /\ d.files \in Seq(FileInfo)
  <2>1. d \in FlushData /\ OneKey(d)
    BY <1>1, <1>2, TaskFacts DEF KeysInv
  <2>2. QED
    BY <2>1, FilesAssumption DEF FlushData, File
<1>4. HasSize(t) => s <= SizeOf(t) /\ SizeOf(t) \in Nat
                    /\ (d.last = 0 => SizeOf(t) < Whole /\ SizeOf(t) = d.files[1].size)
  BY <1>1, TaskSize DEF Ascending
<1>5. AfterFirst(s, queue) = IF HasSize(t) THEN SizeOf(t) ELSE s
  BY DEF AfterFirst
<1>6. HasSize(t) <=> d.last > 0 \/ d.files # <<>>
  BY <1>2 DEF HasSize
<1>7. s <= AfterFirst(s, queue)
  BY <1>1, <1>4, <1>5
<1>8. savedLast' = 0 => savedLast = 0
  BY <1>1, <1>2, <1>3
<1>9. Whole \in Nat
  BY FilesAssumption DEF Whole
<1>10. CASE d.last > 0
  <2>1. SavedRoom' = Whole
    BY <1>2, <1>10 DEF SavedRoom
  <2>2. SizeOf(t) = Whole
    BY <1>10 DEF SizeOf
  <2>3. QED
    BY <1>5, <1>6, <1>7, <1>8, <1>10, <2>1, <2>2
<1>11. CASE d.last = 0 /\ d.files # <<>>
  <2>1. HasSize(t) /\ SizeOf(t) < Whole /\ SizeOf(t) = d.files[1].size
    BY <1>4, <1>6, <1>11
  <2>2. savedLast = 0
    <3>1. savedLast > 0 => s = Whole
      BY DEF SavedRoom
    <3>2. QED
      BY <1>1, <1>4, <1>9, <2>1, <3>1
  <2>3. savedLast' = 0
    BY <1>2, <1>11, <2>2
  <2>4. SavedSize' = d.files[1].size
    BY <1>2, <1>3, <1>11, FlushedRecord DEF SavedSize
  <2>5. SavedRoom' = SizeOf(t)
    BY <2>1, <2>3, <2>4 DEF SavedRoom
  <2>6. QED
    BY <1>5, <1>7, <1>8, <2>1, <2>5
<1>12. CASE d.last = 0 /\ d.files = <<>>
  <2>1. ~HasSize(t) /\ savedLast' = savedLast
    BY <1>2, <1>6, <1>12
  <2>2. 1..Len(d.files) = {}
    BY <1>12
  <2> HIDE DEF d
  <2>3. savedFiles' = [i \in DOMAIN savedFiles |-> savedFiles[i]]
    BY <1>2, <2>2 DEF Records
  <2>4. SavedSize' = SavedSize
    BY <2>3 DEF SavedSize
  <2>5. SavedRoom' = s
    BY <2>1, <2>4 DEF SavedRoom
  <2>6. QED
    BY <1>1, <1>5, <1>7, <1>8, <2>1, <2>5
<1>13. QED
  BY <1>3, <1>10, <1>11, <1>12

LEMMA DoFlushFirst ==
    ASSUME TypeInv, KeysInv, FirstInv, DoFlush
    PROVE  FirstInv'
<1> DEFINE t == queue[1]
           q == Tail(queue)
           s == SavedRoom
           a == AfterFirst(s, queue)
<1>1. /\ Ascending(a, q, Room)
      /\ RoomIsSaved => Saves(a, q, Len(q), Room)
      /\ s \in Nat /\ Room \in Nat /\ q \in Seq(Task) /\ queue \in Seq(Task)
      /\ Head(queue) = t /\ t \in Task /\ 1 \in 1..Len(queue)
      /\ Ascending(s, queue, Room) /\ queue # <<>>
  BY TailKeeps DEF TypeInv, FirstInv, DoFlush, NextTask
<1>2. /\ t.op = "flush" /\ queue' = q
      /\ UNCHANGED <<blockFiles, lastFile, dirtyFiles, place, flushing, uncovered>>
  BY <1>1 DEF DoFlush, NextTask, memory, history
<1>3. SavedRoom' = a /\ s <= a /\ Room' = Room
  BY <1>2, FlushedSize DEF TypeInv, FirstInv, Room
<1>4. a \in Nat
  BY <1>1, TaskSize DEF AfterFirst
<1>5. Noted' = Noted /\ Saved' \subseteq Saved \cup Noted
  BY FlushedPlaces
<1>6. /\ Covers(s, queue, Noted) /\ \A x \in Saved : End(x[1], x[2]) <= s
      /\ \A x \in Noted \cup Saved : IsPair(x)
  BY PlaceFacts DEF TypeInv, FirstInv, SizesComeFirst
<1>7. Covers(a, q, Noted)
  <2> HIDE DEF q, s
  <2>1. Covers(AfterFirst(s, queue), Tail(queue), Noted)
    BY <1>1, <1>6, CoversTail
  <2>2. QED
    BY <2>1 DEF q
<1>8. ASSUME NEW x \in Noted PROVE End(x[1], x[2]) <= a
  <2>1. Saves(s, queue, 1, End(x[1], x[2]))
    BY <1>1, <1>2, <1>6 DEF Covers
  <2>2. End(x[1], x[2]) \in Nat
    BY <1>6, EndType DEF IsPair
  <2>3. CASE End(x[1], x[2]) <= s
    <3> HIDE DEF a, s
    <3>1. QED
      BY <1>1, <1>3, <1>4, <2>2, <2>3
  <2>4. CASE \E i \in 1..Len(queue) : i <= 1 /\ HasSize(queue[i])
                                      /\ End(x[1], x[2]) <= SizeOf(queue[i])
    <3>1. \A i \in 1..Len(queue) : i <= 1 => i = 1
      OBVIOUS
    <3>2. HasSize(queue[1]) /\ End(x[1], x[2]) <= SizeOf(queue[1])
      BY <2>4, <3>1
    <3>3. QED
      BY <3>2 DEF AfterFirst
  <2>5. QED
    BY <2>1, <2>3, <2>4 DEF Saves
<1>9. ASSUME NEW x \in Saved PROVE End(x[1], x[2]) <= a
  <2>1. End(x[1], x[2]) \in Nat /\ End(x[1], x[2]) <= s
    BY <1>6, EndType DEF IsPair
  <2> HIDE DEF a, s
  <2>2. QED
    BY <1>1, <1>3, <1>4, <2>1
<1> HIDE DEF t, q, s, a
<1>10. SizesAscend'
  BY <1>1, <1>2, <1>3 DEF SizesAscend
<1>11. RoomIsSaved => RoomIsSaved'
  BY <1>1, <1>2, <1>3 DEF RoomIsSaved
<1>12. SizeIsTaken'
  BY <1>2, <1>3, <1>11 DEF FirstInv, SizeIsTaken, FlushTakesRoom, InFlush
<1>13. SizesComeFirst'
  BY <1>2, <1>3, <1>5, <1>7, <1>8, <1>9 DEF SizesComeFirst
<1>14. QED
  BY <1>10, <1>12, <1>13 DEF FirstInv

\* A start loads the record that is saved, if there is one.

LEMMA LoadedSize ==
    ASSUME TypeOK, KeysInv
    PROVE  SizeIn(LoadedFiles, 0) = SavedSize
<1> DEFINE n == Cardinality(DOMAIN savedFiles)
           key == [i \in 1..n |-> CHOOSE f \in DOMAIN savedFiles :
                                     Cardinality({g \in DOMAIN savedFiles : g < f}) = i - 1]
<1>1. DOMAIN savedFiles \in SUBSET {0}
  BY DEF KeysInv
<1>2. LoadedFiles = [i \in 1..n |-> [savedFiles[key[i]] EXCEPT !.fileIndex = key[i]]]
  BY DEF LoadedFiles
<1>3. CASE DOMAIN savedFiles = {}
  <2>1. n = 0
    BY <1>3, FS_EmptySet
  <2> HIDE DEF n, key
  <2>2. 1..n = {}
    BY <2>1
  <2>3. LoadedFiles = <<>>
    BY <1>2, <2>2
  <2>4. QED
    BY <1>3, <2>3 DEF SizeIn, SavedSize
<1>4. CASE DOMAIN savedFiles = {0}
  <2>1. n = 1
    BY <1>4, FS_Singleton
  <2>2. {g \in DOMAIN savedFiles : g < 0} = {}
    BY <1>4
  <2>3. Cardinality({g \in DOMAIN savedFiles : g < 0}) = 1 - 1
    BY <2>2, FS_EmptySet
  <2>4. key[1] = 0
    BY <1>4, <2>1, <2>3
  <2> HIDE DEF n, key
  <2> DEFINE e == [savedFiles[0] EXCEPT !.fileIndex = 0]
  <2>5. savedFiles[0] \in FileInfo
    BY <1>4 DEF TypeOK
  <2>6. e.size = savedFiles[0].size
    BY <2>5 DEF FileInfo
  <2>7. LoadedFiles = [i \in 1..1 |-> [savedFiles[key[i]] EXCEPT !.fileIndex = key[i]]]
    BY <1>2, <2>1
  <2>8. [i \in 1..1 |-> [savedFiles[key[i]] EXCEPT !.fileIndex = key[i]]]
        = <<[savedFiles[key[1]] EXCEPT !.fileIndex = key[1]]>>
    OBVIOUS
  <2>9. LoadedFiles = <<e>>
    BY <2>4, <2>7, <2>8
  <2> HIDE DEF e
  <2>10. Len(<<e>>) = 1 /\ <<e>>[1] = e /\ 0 + 1 = 1 /\ 0 < 1
    OBVIOUS
  <2>11. QED
    BY <1>4, <2>6, <2>9, <2>10 DEF SizeIn, SavedSize
<1>5. QED
  BY <1>1, <1>3, <1>4

\* A saved place of the first file that is beyond the loaded sizes is beyond the

\* size that was saved.
LEMMA BeyondIsBeyond ==
    ASSUME TypeOK, KeysInv, NEW x, IsPair(x), End(x[1], x[2]) <= SavedRoom, x[2].file = 0
    PROVE  Inside(LoadedFiles, savedLast, x[1], x[2])
<1>1. savedLast \in Nat
  BY Numbers
<1>2. CASE savedLast > 0
  BY <1>2 DEF Inside
<1>3. CASE savedLast = 0
  BY <1>3, LoadedSize DEF Inside, SavedRoom, End
<1>4. QED
  BY <1>1, <1>2, <1>3

\* After a restart the size in use is the one that is saved.

LEMMA RestartFirst ==
    ASSUME TypeInv, TypeInv', KeysInv, PlacesInv', Restart
    PROVE  FirstInv'
<1>1. /\ blockFiles' = LoadedFiles /\ lastFile' = savedLast /\ queue' = <<>>
      /\ flushing' = [t \in Thread |-> NotFlushing]
      /\ UNCHANGED <<savedFiles, savedLast>>
  BY DEF Restart, saved
<1>2. SavedRoom \in Nat /\ SavedRoom' = SavedRoom /\ SavedRoom <= SavedRoom
  BY <1>1, Numbers DEF TypeInv, SavedRoom, SavedSize
<1>3. Room' = SavedRoom
  BY <1>1, LoadedSize DEF TypeInv, Room, SavedRoom
<1>4. Len(queue') = 0 /\ \A i \in 1..Len(queue') : FALSE
  BY <1>1
<1>5. SizesAscend'
  BY <1>2, <1>3, <1>4 DEF SizesAscend, Ascending
<1>6. SizeIsTaken'
  <2>1. \A k \in Thread : ~ InFlush(k)'
    BY <1>1 DEF InFlush, NotFlushing
  <2>2. RoomIsSaved'
    BY <1>2, <1>3 DEF RoomIsSaved, Saves
  <2>3. QED
    BY <2>1, <2>2 DEF SizeIsTaken
<1>7. ASSUME NEW x \in Saved' PROVE End(x[1], x[2]) <= SavedRoom
  <2>1. IsPair(x) /\ Inside(LoadedFiles, savedLast, x[1], x[2])
    BY RestartNoted, PlaceFacts DEF TypeInv
  <2>2. /\ x[2].at \in 0..MaxFileSize - 1 /\ Size[x[1]] \in Nat /\ Size[x[1]] < MaxFileSize
        /\ MaxFileSize \in Nat /\ savedLast \in Nat
    BY <2>1, SizeFacts, FilesAssumption, Numbers DEF IsPair, Pos, TypeInv
  <2>3. CASE x[2].file # 0
    BY <1>2, <2>3 DEF End
  <2>4. CASE x[2].file = 0 /\ savedLast > 0
    <3>1. x[2].at + Size[x[1]] <= 2 * MaxFileSize
      BY <2>2
    <3>2. QED
      BY <2>4, <3>1 DEF End, SavedRoom, Whole
  <2>5. CASE x[2].file = 0 /\ savedLast = 0
    <3>1. x[2].at + Size[x[1]] <= SizeIn(LoadedFiles, 0)
      BY <2>1, <2>5 DEF Inside
    <3>2. QED
      BY <2>5, <3>1, LoadedSize DEF End, SavedRoom, TypeInv
  <2>6. QED
    BY <2>2, <2>3, <2>4, <2>5
<1>8. SizesComeFirst'
  BY <1>2, <1>4, <1>7 DEF SizesComeFirst, Covers
<1>9. QED
  BY <1>5, <1>6, <1>8 DEF FirstInv

LEMMA InitFirst ==
    ASSUME Init
    PROVE  KeysInv /\ FirstInv
<1>1. /\ blockFiles = <<>> /\ lastFile = 0 /\ dirtyFiles = {} /\ queue = <<>>
      /\ flushing = [t \in Thread |-> NotFlushing] /\ DOMAIN savedFiles = {} /\ savedLast = 0
      /\ DOMAIN savedPlace = {}
  BY DEF Init, EmptyMap
<1>2. /\ \A i \in 1..Len(queue) : FALSE
      /\ \A i \in 1..Len(blockFiles) : FALSE
      /\ \A t \in Thread : ~InFlush(t)
  BY <1>1 DEF InFlush, NotFlushing
<1>3. Room = 0 /\ SavedRoom = 0
  BY <1>1 DEF Room, SavedRoom, SavedSize, SizeIn
<1>4. Saved = {}
  BY <1>1 DEF Saved, SavedPlaces
<1>5. KeysInv
  BY <1>1, <1>2 DEF KeysInv
<1>6. RoomIsSaved
  BY <1>3 DEF RoomIsSaved, Saves
<1>7. FirstInv
  BY <1>2, <1>3, <1>4, <1>6
  DEF FirstInv, SizesAscend, Ascending, SizeIsTaken, SizesComeFirst, Covers
<1>8. QED
  BY <1>5, <1>7

\* Every step of a run whose threads have not met keeps what is said of the first

\* file.
LEMMA NextFirst ==
    ASSUME IInv, TypeInv', PlacesInv', [Next]_vars, ~raced'
    PROVE  FirstInv'
<1>1. TypeInv /\ KeysInv /\ PlacesInv
  BY DEF IInv
<1>2. CASE Restart
  BY <1>1, <1>2, RestartFirst
<1>3. CASE ~raced
  <2>1. FirstInv
    BY <1>3 DEF IInv
  <2>2. ASSUME NEW b \in Block, AddHeader(b) PROVE FirstInv'
    BY <1>1, <2>1, <2>2, AddHeaderFirst
  <2>3. ASSUME NEW b \in Block, WriteBlock(b) PROVE FirstInv'
    BY <1>1, <2>1, <2>3, WriteBlockFirst
  <2>4. ASSUME NEW t \in Thread, Clear(t) PROVE FirstInv'
    BY <1>1, <2>1, <2>4, ClearFirst
  <2>5. ASSUME NEW t \in Thread, Post(t) PROVE FirstInv'
    BY <1>1, <2>1, <2>5, PostFirst
  <2>6. CASE UNCHANGED vars
    <3>1. UNCHANGED <<blockFiles, lastFile, dirtyFiles, place, queue, flushing, savedFiles,
                      savedLast, savedPlace, uncovered>>
      BY <2>6 DEF vars, memory, tasks, saved, history
    <3>2. SavedRoom' = SavedRoom /\ Room' = Room /\ Noted' = Noted /\ Saved' = Saved
      BY <3>1 DEF SavedRoom, SavedSize, Room, Noted, Saved, SavedPlaces
    <3>3. RoomIsSaved' <=> RoomIsSaved
      BY <3>1, <3>2 DEF RoomIsSaved
    <3>4. QED
      BY <2>1, <3>1, <3>2, <3>3
      DEF FirstInv, SizesAscend, SizeIsTaken, FlushTakesRoom, InFlush, SizesComeFirst
  <2>7. QED
    BY <1>1, <1>2, <2>1, <2>2, <2>3, <2>4, <2>5, <2>6, DoWriteBlockFirst, WrittenFirst,
       DoFlushFirst
    DEF Next
<1>4. raced \in BOOLEAN
  BY <1>1 DEF TypeInv, TypeOK
<1>5. CASE raced /\ ~Restart
  <2>1. raced'
    BY <1>5 DEF Next, AddHeader, MarkDirty, WriteBlock, DoWriteBlock, Written, Clear, Post,
                DoFlush, vars, history
  <2>2. QED
    BY <2>1
<1>6. QED
  BY <1>2, <1>3, <1>4, <1>5

LEMMA Inductive == Spec => []IInv
<1>1. Init => IInv
  BY InitType, InitPlaces, InitFirst DEF IInv
<1>2. IInv /\ [Next]_vars => IInv'
  <2> SUFFICES ASSUME IInv, [Next]_vars PROVE IInv'
    OBVIOUS
  <2>1. TypeInv' /\ KeysInv' /\ PlacesInv'
    BY NextType, NextKeys, NextPlaces DEF IInv
  <2>2. QED
    BY <2>1, NextFirst DEF IInv
<1>3. QED
  BY <1>1, <1>2, PTL DEF Spec

\* A restart finds no block of the first file beyond the sizes it loads, in a run in

\* which neither writeBlock nor a flush came in the middle of the other thread's
\* flush: a batch that saves an entry's place saves a size that covers it, or an
\* earlier batch did (BlockStorage::flush, BlockIndexDB::writeBlocks).
THEOREM FirstFileStaysCovered == Spec => FirstFileIsCovered
<1> DEFINE New == ~ raced => \A x \in uncovered' \ uncovered : x[2].file # 0
<1>1. IInv /\ [Next]_vars => [New]_vars
  <2> SUFFICES ASSUME IInv, [Next]_vars, ~raced, NEW x \in uncovered' \ uncovered,
                      x[2].file = 0
               PROVE  FALSE
    OBVIOUS
  <2>1. TypeInv /\ TypeOK /\ KeysInv /\ FirstInv
    BY DEF IInv, TypeInv
  <2>2. Restart
    BY DEF Next, AddHeader, WriteBlock, DoWriteBlock, Written, Clear, Post, DoFlush, vars,
           history
  <2>3. x \in SavedPlaces /\ ~ Inside(LoadedFiles, savedLast, x[1], x[2])
    BY <2>2 DEF Restart
  <2>4. x \in Saved
    BY <2>3 DEF Saved
  <2>5. IsPair(x) /\ End(x[1], x[2]) <= SavedRoom
    BY <2>1, <2>4, PlaceFacts DEF FirstInv, SizesComeFirst
  <2>6. QED
    BY <2>1, <2>3, <2>5, BeyondIsBeyond
<1>2. QED
  BY <1>1, Inductive, PTL DEF Spec, FirstFileIsCovered

\* Until a second file is saved no step makes the saved size of the first one smaller,

\* in a run as above: flushes of both threads are saved in the order in which they
\* copied it (BlockStorage::flush, BlockIndexDB::writeBlocks).
THEOREM SizesOnlyGrow == Spec => SavedSizesGrow
<1> DEFINE Grow == ~raced /\ savedLast' = 0 =>
                      \A f \in DOMAIN savedFiles :
                         f \in DOMAIN savedFiles' /\ savedFiles'[f].size >= savedFiles[f].size
<1>1. IInv /\ [Next]_vars => [Grow]_vars
  <2> SUFFICES ASSUME IInv, [Next]_vars, ~raced, savedLast' = 0, NEW f \in DOMAIN savedFiles
               PROVE  f \in DOMAIN savedFiles' /\ savedFiles'[f].size >= savedFiles[f].size
    OBVIOUS
  <2>1. TypeInv /\ TypeOK /\ KeysInv /\ FirstInv
    BY DEF IInv, TypeInv
  <2>2. f = 0 /\ savedFiles[0].size \in Nat
    <3>1. f = 0
      BY <2>1 DEF KeysInv
    <3>2. savedFiles[0].size = SavedSize
      BY <3>1 DEF SavedSize
    <3>3. QED
      BY <2>1, <3>1, <3>2, Numbers
  <2>3. CASE DoFlush
    <3>1. 0 \in DOMAIN savedFiles'
      BY <2>2, <2>3 DEF DoFlush, Records
    <3>2. SavedRoom <= SavedRoom' /\ savedLast = 0
      BY <2>1, <2>3, FlushedSize DEF FirstInv
    <3>3. SavedRoom = savedFiles[0].size /\ SavedRoom' = savedFiles'[0].size
      BY <2>2, <3>1, <3>2 DEF SavedRoom, SavedSize
    <3>4. QED
      BY <2>2, <3>1, <3>2, <3>3
  <2>4. CASE UNCHANGED savedFiles
    BY <2>2, <2>4
  <2>5. QED
    BY <2>3, <2>4 DEF Next, AddHeader, WriteBlock, DoWriteBlock, Written, Clear, Post,
                      Restart, vars, saved
<1>2. QED
  BY <1>1, Inductive, PTL DEF Spec, SavedSizesGrow
=============================================================================

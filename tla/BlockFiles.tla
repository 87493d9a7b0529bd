----------------------------- MODULE BlockFiles -----------------------------
(***************************************************************************)
(* Where the bytes of a block go (storage/BlockStorage.cpp) and how the    *)
(* index remembers it (storage/BlockIndexDB.cpp).                          *)
(*                                                                         *)
(* The main thread gives every block a place at the end of the last block  *)
(* file and posts the writing; the disk thread writes, notes the place in  *)
(* the block's index entry and saves entries and the files' sizes in       *)
(* batches.  A restart goes on from the sizes that were saved, so bytes    *)
(* whose size was not saved are overwritten.                               *)
(*                                                                         *)
(* Both threads flush.  No lock is held between copying the records,       *)
(* clearing the set of dirty files and posting the batch, so writeBlock or *)
(* the flush of the other thread may come between; each of the three is    *)
(* one step.                                                               *)
(*                                                                         *)
(* Sizes and positions count units; a block's size includes its 8-byte     *)
(* header.  Opening a file for writing keeps its content.  What a flush    *)
(* does with the coins is in ChainStorage.                                 *)
(***************************************************************************)
EXTENDS Integers, Sequences, FiniteSets

CONSTANTS
    Block,
    NoBlock,        \* what a unit of a file holds that was never written
    Size,           \* a block's length in a file
    MaxFileSize,    \* MAX_BLOCKFILE_SIZE
    FileCount       \* bound: no block is placed beyond so many files

ASSUME FilesAssumption ==
    /\ NoBlock \notin Block
    /\ MaxFileSize \in Nat
    /\ FileCount \in Nat \ {0}
    /\ Size \in [Block -> 1..MaxFileSize - 1]

File == 0..FileCount - 1
FileInfo == [fileIndex : File, size : 0..MaxFileSize - 1]
EmptyInfo == [fileIndex |-> 0, size |-> 0]

\* DiskBlockPos
Pos == [file : File, at : 0..MaxFileSize - 1]
Cell == File \X (0..MaxFileSize - 1)

\* The bytes of a block that is written at p.
Extent(b, p) == {<<p.file, u>> : u \in p.at..p.at + Size[b] - 1}

\* The two threads that call BlockStorage::flush.
Thread == {"main", "disk"}
Other(t) == IF t = "main" THEN "disk" ELSE "main"

PosMap == UNION {[S -> Pos] : S \in SUBSET Block}

VARIABLES
    blockFiles,     \* m_blockFiles: file i is at i + 1
    lastFile,       \* m_lastBlockFile
    dirtyFiles,     \* m_dirtyFiles
    known,          \* m_blocks
    dirty,          \* m_dirtyBlocks
    posted,         \* the blocks this run of the program has posted
    place,          \* the index entries with BLOCK_HAVE_DATA, and where it is
    queue,          \* the disk io_service
    flushing,       \* per thread: what its flush does next, and with what data
    bytes,          \* the block files
    savedFiles,     \* DB_BLOCK_FILES: key to record
    savedLast,      \* DB_LAST_BLOCK
    savedPlace,     \* the saved entries that have BLOCK_HAVE_DATA
    savedKnown,     \* the saved entries
    raced,          \* history: a call of writeBlock or flush met the flush of
                    \* the other thread, in this run of the program
    uncovered       \* history: the saved blocks with their places that were
                    \* beyond the loaded sizes at some restart

memory == <<blockFiles, lastFile, dirtyFiles, known, dirty, posted, place>>
tasks  == <<queue, flushing>>
saved  == <<savedFiles, savedLast, savedPlace, savedKnown>>
history == <<raced, uncovered>>
vars   == <<memory, tasks, bytes, saved, history>>

FlushData == [last : File, files : Seq(FileInfo), blocks : SUBSET Block]
Task == [op : {"write", "written"}, block : Block, pos : Pos]
        \cup [op : {"flush"}, data : FlushData]

NotFlushing == [step |-> "none"]
Flush == {NotFlushing} \cup [step : {"clear", "post"}, data : FlushData]
InFlush(t) == flushing[t].step # "none"

TypeOK ==
    /\ blockFiles \in Seq(FileInfo)
    /\ lastFile \in File
    /\ dirtyFiles \subseteq File
    /\ known \subseteq Block
    /\ dirty \subseteq known
    /\ posted \subseteq known
    /\ place \in PosMap
    /\ queue \in Seq(Task)
    /\ flushing \in [Thread -> Flush]
    /\ bytes \in [Cell -> Block \cup {NoBlock}]
    /\ savedFiles \in UNION {[S -> FileInfo] : S \in SUBSET File}
    /\ savedLast \in File
    /\ savedPlace \in PosMap
    /\ savedKnown \subseteq Block
    /\ raced \in BOOLEAN
    /\ uncovered \subseteq Block \X Pos
-----------------------------------------------------------------------------
\* std::vector::resize to n records.
Resized(files, n) ==
    [i \in 1..n |-> IF i <= Len(files) THEN files[i] ELSE EmptyInfo]

Longer(files, n) == IF Len(files) < n THEN Resized(files, n) ELSE files

\* Faulty variant: the place is one unit inside the block before it.
PlacedInside(files, f) == IF files[f + 1].size = 0 THEN 0 ELSE files[f + 1].size - 1

\* The position findBlockPos answers with in file f.
Placed(files, f) == files[f + 1].size

\* findBlockPos: the first file from the last one on that has room.
HasRoom(files, f, b) ==
    (IF f < Len(files) THEN files[f + 1].size ELSE 0) + Size[b] < MaxFileSize

\* Faulty variant: the search starts at the first file.
FileFromTheStart(b) ==
    CHOOSE f \in 0..FileCount :
        /\ f < FileCount => HasRoom(blockFiles, f, b)
        /\ \A g \in 0..f - 1 : ~ HasRoom(blockFiles, g, b)

FileFor(b) ==
    CHOOSE f \in lastFile..FileCount :
        /\ f < FileCount => HasRoom(blockFiles, f, b)
        /\ \A g \in lastFile..f - 1 : ~ HasRoom(blockFiles, g, b)

\* handleBlock's block b: BlockStorage::writeBlock.
WriteBlock(b) ==
    LET f == FileFor(b)
        files == Longer(blockFiles, f + 1)
    IN  /\ ~ InFlush("main")
        /\ b \in known \ posted
        /\ f < FileCount
        /\ blockFiles' = [files EXCEPT ![f + 1].size = @ + Size[b]]
        /\ lastFile' = f
        /\ dirtyFiles' = dirtyFiles \cup {f}
        /\ posted' = posted \cup {b}
        /\ queue' = Append(queue, [op |-> "write", block |-> b,
                                   pos |-> [file |-> f, at |-> Placed(files, f)]])
        /\ raced' = (raced \/ InFlush("disk"))
        /\ UNCHANGED <<known, dirty, place, flushing, bytes, saved, uncovered>>

\* The records of the dirty files in the order of a std::set, each under the
\* index it holds itself.
DirtyInfos ==
    LET nth[i \in 1..Cardinality(dirtyFiles)] ==
            CHOOSE f \in dirtyFiles :
                Cardinality({g \in dirtyFiles : g < f}) = i - 1
    IN  [i \in 1..Cardinality(dirtyFiles) |-> blockFiles[nth[i] + 1]]

FlushDataOf(S) == [last |-> lastFile, files |-> DirtyInfos, blocks |-> S]
FlushTask(data) == [op |-> "flush", data |-> data]

\* markDirtyBlock on thread t: the entry is dirty; if it is time, a flush takes
\* the dirty entries and copies the records of the dirty files.
MarkDirty(t, b) ==
    \/ /\ dirty' = dirty \cup {b}
       /\ UNCHANGED <<flushing, raced>>
    \/ /\ dirty' = {}
       /\ flushing' = [flushing EXCEPT ![t] =
              [step |-> "clear", data |-> FlushDataOf(dirty \cup {b})]]
       /\ raced' = (raced \/ InFlush(Other(t)))

\* BlockStorage::flush clears the set of dirty files,
Clear(t) ==
    /\ flushing[t].step = "clear"
    /\ dirtyFiles' = {}
    /\ flushing' = [flushing EXCEPT ![t].step = "post"]
    /\ UNCHANGED <<blockFiles, lastFile, known, dirty, posted, place, queue, bytes,
                   saved, history>>

\* and posts the batch.
Post(t) ==
    /\ flushing[t].step = "post"
    /\ queue' = Append(queue, FlushTask(flushing[t].data))
    /\ flushing' = [flushing EXCEPT ![t] = NotFlushing]
    /\ UNCHANGED <<memory, bytes, saved, history>>

\* addBlockIndex: a new header.
AddHeader(b) ==
    /\ ~ InFlush("main")
    /\ b \notin known
    /\ known' = known \cup {b}
    /\ MarkDirty("main", b)
    /\ UNCHANGED <<blockFiles, lastFile, dirtyFiles, posted, place, queue, bytes,
                   saved, uncovered>>
-----------------------------------------------------------------------------
NextTask(op) ==
    /\ ~ InFlush("disk")
    /\ queue # <<>>
    /\ Head(queue).op = op

\* doWriteBlock
DoWriteBlock ==
    /\ NextTask("write")
    /\ LET t == Head(queue)
       IN  /\ bytes' = [c \in Cell |->
                            IF c \in Extent(t.block, t.pos) THEN t.block
                            ELSE bytes[c]]
           /\ queue' = Append(Tail(queue), [t EXCEPT !.op = "written"])
    /\ UNCHANGED <<memory, flushing, saved, history>>

\* onBlockWritten: the entry gets its place.
Written ==
    /\ NextTask("written")
    /\ queue' = Tail(queue)
    /\ LET t == Head(queue)
       IN  /\ place' = [b \in DOMAIN place \cup {t.block} |->
                            IF b = t.block THEN t.pos ELSE place[b]]
           /\ MarkDirty("disk", t.block)
    /\ UNCHANGED <<blockFiles, lastFile, dirtyFiles, known, posted, bytes, saved,
                   uncovered>>

\* Faulty variant: a record that is saved already is not saved again.
NewRecords(files) ==
    [i \in {files[j].fileIndex : j \in 1..Len(files)} \cup DOMAIN savedFiles |->
        IF i \in DOMAIN savedFiles THEN savedFiles[i]
        ELSE files[CHOOSE j \in 1..Len(files) : files[j].fileIndex = i]]

\* The records after a batch: the last one of equal keys wins.
Records(files) ==
    [i \in {files[j].fileIndex : j \in 1..Len(files)} \cup DOMAIN savedFiles |->
        IF \E j \in 1..Len(files) : files[j].fileIndex = i
        THEN files[CHOOSE j \in 1..Len(files) :
                    /\ files[j].fileIndex = i
                    /\ \A k \in j + 1..Len(files) : files[k].fileIndex # i]
        ELSE savedFiles[i]]

\* BlockIndexDB::writeBlocks, with the entries as they are by now.
DoFlush ==
    /\ NextTask("flush")
    /\ LET d == Head(queue).data
       IN  /\ savedLast' = IF d.last > 0 THEN d.last ELSE savedLast
           /\ savedFiles' = Records(d.files)
           /\ savedKnown' = savedKnown \cup d.blocks
           /\ savedPlace' = [b \in DOMAIN savedPlace \cup (DOMAIN place \cap d.blocks) |->
                                IF b \in d.blocks THEN place[b] ELSE savedPlace[b]]
    /\ queue' = Tail(queue)
    /\ UNCHANGED <<memory, flushing, bytes, history>>
-----------------------------------------------------------------------------
\* Faulty variant: the records are not loaded.
ForgottenFiles == <<>>

\* BlockIndexDB::loadAll: the records in the order of their keys, each with its
\* key as its index; a record's file is its position in that order.
LoadedFiles ==
    LET key[i \in 1..Cardinality(DOMAIN savedFiles)] ==
            CHOOSE f \in DOMAIN savedFiles :
                Cardinality({g \in DOMAIN savedFiles : g < f}) = i - 1
    IN  [i \in 1..Cardinality(DOMAIN savedFiles) |->
            [savedFiles[key[i]] EXCEPT !.fileIndex = key[i]]]

SavedPlaces == {<<b, savedPlace[b]>> : b \in DOMAIN savedPlace}

\* A block at p is inside what the records say is in use: in a file before the
\* last one, where nothing is placed again, or before the end of its file.
SizeIn(files, f) == IF f < Len(files) THEN files[f + 1].size ELSE 0
Inside(files, last, b, p) ==
    p.file < last \/ p.at + Size[b] <= SizeIn(files, p.file)

\* The process ends and starts again: BlockStorage::load.
Restart ==
    /\ blockFiles' = LoadedFiles
    /\ lastFile' = savedLast
    /\ dirtyFiles' = {}
    /\ known' = savedKnown
    /\ dirty' = {}
    /\ posted' = {}
    /\ place' = savedPlace
    /\ queue' = <<>>
    /\ flushing' = [t \in Thread |-> NotFlushing]
    /\ raced' = FALSE
    /\ uncovered' = uncovered \cup
          {x \in SavedPlaces : ~ Inside(LoadedFiles, savedLast, x[1], x[2])}
    /\ UNCHANGED <<bytes, saved>>

EmptyMap == [x \in {} |-> EmptyInfo]

Init ==
    /\ blockFiles = <<>>
    /\ lastFile = 0
    /\ dirtyFiles = {}
    /\ known = {}
    /\ dirty = {}
    /\ posted = {}
    /\ place = EmptyMap
    /\ queue = <<>>
    /\ flushing = [t \in Thread |-> NotFlushing]
    /\ bytes = [c \in Cell |-> NoBlock]
    /\ savedFiles = EmptyMap
    /\ savedLast = 0
    /\ savedPlace = EmptyMap
    /\ savedKnown = {}
    /\ raced = FALSE
    /\ uncovered = {}

Next ==
    \/ \E b \in Block : AddHeader(b)
    \/ \E b \in Block : WriteBlock(b)
    \/ DoWriteBlock
    \/ Written
    \/ \E t \in Thread : Clear(t)
    \/ \E t \in Thread : Post(t)
    \/ DoFlush
    \/ Restart

Spec == Init /\ [][Next]_vars
-----------------------------------------------------------------------------
\* data/Block.hpp:52: an entry with BLOCK_HAVE_DATA has the full block in the
\* block files.  Of the saved entries that is so at any time, after any number of
\* restarts, whatever the two threads do: no later block is placed over the
\* bytes, unless a restart found them beyond the sizes it loaded.
SavedBlockIsThere ==
    \A b \in DOMAIN savedPlace :
        <<b, savedPlace[b]>> \notin uncovered =>
            \A c \in Extent(b, savedPlace[b]) : bytes[c] = b

\* No two places share a byte, of those that a block is going to be written
\* at, and of those in memory and those saved that no restart uncovered.
Pending == {queue[i] : i \in {j \in 1..Len(queue) : queue[j].op # "flush"}}
Places ==
    {<<t.block, t.pos>> : t \in Pending}
    \cup (({<<b, place[b]>> : b \in DOMAIN place} \cup SavedPlaces) \ uncovered)

PlacesAreApart ==
    \A x, y \in Places :
        x # y => Extent(x[1], x[2]) \cap Extent(y[1], y[2]) = {}

\* A restart uncovers no block of the first file, unless writeBlock or a flush
\* met the flush of the other thread in the run that ended: the batch that saves
\* an entry's place, or one before it, saves a size that covers the place.
FirstFileIsCovered ==
    [][~ raced => \A x \in uncovered' \ uncovered : x[2].file # 0]_vars

\* Until a second file is saved, a saved file size only grows, in a run without
\* such a meeting: the flushes of both threads copy the sizes in the order in
\* which the disk thread saves them.
SavedSizesGrow ==
    [][~ raced /\ savedLast' = 0 =>
        \A f \in DOMAIN savedFiles :
            f \in DOMAIN savedFiles' /\ savedFiles'[f].size >= savedFiles[f].size]_vars
=============================================================================

----------------------------- MODULE SecureReads -----------------------------
(***************************************************************************)
(* How local files are read: ConfiguredFileRoots of                        *)
(* shared/dataset_registry.py over the POSIX provider of                   *)
(* shared/_posix_local_host.py.  Roots are pinned by a descriptor, a       *)
(* reader walks from a duplicate of it, and meanwhile other threads close  *)
(* the roots or open files of their own, which reuses descriptor numbers,  *)
(* and other processes change the files.                                   *)
(*                                                                         *)
(* A path beneath a root has one directory and one file.  An object is a   *)
(* device and inode; a file's content is its number of chunks.             *)
(***************************************************************************)
EXTENDS Integers, Sequences, FiniteSets, FiniteSetsExt, SequencesExt

CONSTANTS
    Roots,          \* the configured roots, in order
    FolderOf,       \* root -> the directory the path names in it
    Descriptors,    \* bound: descriptor numbers
    Readers,        \* reader -> "beneath" (read_file_beneath) or "path" (read_regular_file)
    MaxChunks,      \* the most chunks a file may have
    MaxChanges,     \* bound: changes other processes make
    Closed, Link, Elsewhere

Entries == {"a", "b", "link", "fifo"}
Folders == {FolderOf[root] : root \in ToSet(Roots)} \cup {Elsewhere}
Objects == ToSet(Roots) \cup Folders \cup (Folders \X Entries)

ASSUME SecureReadsAssumption ==
    /\ Descriptors \subseteq Nat /\ {MaxChunks, MaxChanges} \subseteq Nat
    /\ Roots \in Seq(ToSet(Roots)) /\ Roots # <<>> /\ DOMAIN FolderOf = ToSet(Roots)
    /\ Closed \notin Descriptors \cup Objects /\ Link \notin ToSet(Roots)

VARIABLES
    opened,     \* descriptor -> the object it is open on, or Closed
    pinned,     \* the handles of the roots: descriptor, object, whether closed
    roots,      \* "pinning", "checking", "ready", "closing", "closed" or "denied"
    rootAt,     \* root -> the object at its path, or Link
    entry,      \* directory -> what its name leads to: "a" or "b", "link", "fifo"
    chunks,     \* file -> its size
    reading,    \* reader -> its progress
    other,      \* the descriptor another thread has open, or Closed
    changes

readVars == <<opened, pinned, roots, rootAt, entry, chunks, reading, other, changes>>

FilesIn(folder) == {<<folder, "a">>, <<folder, "b">>}
Object(folder) == <<folder, entry[folder]>>
Files == UNION {FilesIn(folder) : folder \in Folders}
Idle == [pc |-> "start", mine |-> <<>>, meta |-> <<Closed, 0>>, total |-> 0, result |-> "none",
         from |-> Closed]

Unused == {d \in Descriptors : opened[d] = Closed}
\* A new descriptor is the lowest free number.
OpenOn(object) == Unused # {} /\ opened' = [opened EXCEPT ![Min(Unused)] = object]
Close(ds) == [d \in Descriptors |-> IF d \in ds THEN Closed ELSE opened[d]]
ChunksOf(object) == IF object \in Files THEN chunks[object] ELSE 0

ReadsInit ==
    /\ opened = [d \in Descriptors |-> Closed] /\ pinned = <<>> /\ roots = "pinning"
    /\ rootAt = [root \in ToSet(Roots) |-> root]
    /\ entry = [folder \in Folders |-> "a"]
    /\ chunks = [f \in Files |-> 1] 
    /\ reading \in [DOMAIN Readers -> {Idle, [Idle EXCEPT !.pc = "done"]}]
    /\ other = Closed /\ changes = 0

-----------------------------------------------------------------------------
(* The roots *)

Pinning == Roots[Len(pinned) + 1]

\* pin_configured_root up to os.open: a link is denied without a descriptor.
OpenRoot ==
    /\ roots = "pinning" /\ rootAt[Pinning] # Link /\ OpenOn(rootAt[Pinning])
    /\ pinned' = Append(pinned, [at |-> Min(Unused), object |-> rootAt[Pinning], closed |-> FALSE])
    /\ roots' = "checking"
    /\ UNCHANGED <<rootAt, entry, chunks, reading, other, changes>>

\* The path still leads to the object opened; the root is then part of the tuple.
CheckRoot ==
    /\ roots = "checking" /\ rootAt[Roots[Len(pinned)]] = Last(pinned).object
    /\ roots' = IF Len(pinned) = Len(Roots) THEN "ready" ELSE "pinning"
    /\ UNCHANGED <<opened, pinned, rootAt, entry, chunks, reading, other, changes>>

\* Any failure closes what was pinned so far, the root in hand included.
DenyRoots ==
    /\ \/ roots = "pinning" /\ (rootAt[Pinning] = Link \/ Unused = {})
       \/ roots = "checking" /\ rootAt[Roots[Len(pinned)]] # Last(pinned).object
    /\ opened' = Close({pinned[k].at : k \in DOMAIN pinned})
    /\ pinned' = [k \in DOMAIN pinned |-> [pinned[k] EXCEPT !.closed = TRUE]]
    /\ roots' = "denied"
    /\ UNCHANGED <<rootAt, entry, chunks, reading, other, changes>>

\* ConfiguredFileRoots.close: the flag, then handle after handle.
CloseRoots ==
    /\ roots = "ready" /\ roots' = "closing"
    /\ UNCHANGED <<opened, pinned, rootAt, entry, chunks, reading, other, changes>>

\* close_pinned_root
ClosePinnedRoot ==
    /\ roots = "closing"
    /\ LET left == {k \in DOMAIN pinned : ~pinned[k].closed}
       IN  IF left = {} THEN roots' = "closed" /\ UNCHANGED <<opened, pinned>>
           ELSE /\ opened' = Close({pinned[Min(left)].at})
                /\ pinned' = [pinned EXCEPT ![Min(left)].closed = TRUE]
                /\ UNCHANGED roots
    /\ UNCHANGED <<rootAt, entry, chunks, reading, other, changes>>

-----------------------------------------------------------------------------
(* A reader *)

Go(r, pc) == reading' = [reading EXCEPT ![r].pc = pc]
End(r, result) == reading' = [reading EXCEPT ![r].pc = "finally", ![r].result = result]
Held(r) == Last(reading[r].mine)
Take(r, pc) ==
    reading' = [reading EXCEPT ![r].pc = pc, ![r].mine = Append(@, Min(Unused))]
ReaderKeeps == UNCHANGED <<pinned, roots, rootAt, entry, chunks, other, changes>>

\* _lexical_path_parts and _matching_root: a path no root can serve is never opened.
RefusePath(r) ==
    /\ reading[r].pc = "start" /\ Readers[r] = "beneath"
    /\ roots \in {"ready", "closing", "closed"}
    /\ \E result \in {"unsafe_input_path", "unsupported_data_format", "input_root_denied"} :
          End(r, result)
    /\ UNCHANGED opened /\ ReaderKeeps

\* ConfiguredFileRoots.read: the flag is read under the lock, the file is not.
StartRead(r) ==
    /\ reading[r].pc = "start" /\ Readers[r] = "beneath"
    /\ roots \in {"ready", "closing", "closed"}
    /\ IF roots = "ready" THEN Go(r, "dup") ELSE End(r, "input_root_denied")
    /\ UNCHANGED opened /\ ReaderKeeps

\* The handle of the root the path is beneath: the last one.
Handle(r) == Last(pinned)

\* Mutant: the reader walks from the pinned descriptor itself.
DuplicateShared(r) ==
    /\ reading[r].pc = "dup"
    /\ IF Handle(r).closed THEN End(r, "unsafe_input_path")
       ELSE reading' = [reading EXCEPT ![r].pc = "identify", ![r].mine = <<Handle(r).at>>]
    /\ UNCHANGED opened /\ ReaderKeeps

\* read_file_beneath under the handle's lock: an open handle is duplicated.
Duplicate(r) ==
    /\ reading[r].pc = "dup"
    /\ IF Handle(r).closed \/ Unused = {}
       THEN End(r, "unsafe_input_path") /\ UNCHANGED opened
       ELSE OpenOn(opened[Handle(r).at]) /\ Take(r, "identify")
    /\ ReaderKeeps

Identify(r) ==
    /\ reading[r].pc = "identify"
    /\ IF opened[Held(r)] = Handle(r).object THEN Go(r, "folder")
       ELSE End(r, "unsafe_input_path")
    /\ UNCHANGED opened /\ ReaderKeeps

\* Each part is opened relative to the one before and links are not followed.
OpenFolder(r) ==
    /\ reading[r].pc = "folder"
    /\ LET at == opened[Held(r)]
       IN  IF at = Closed \/ Unused = {} THEN End(r, "unsafe_input_path") /\ UNCHANGED opened
           ELSE /\ OpenOn(IF at \in DOMAIN FolderOf THEN FolderOf[at] ELSE at)
                /\ Take(r, "file")
    /\ ReaderKeeps

OpenFile(r) ==
    /\ reading[r].pc = "file"
    /\ LET at == opened[Held(r)]
       IN  IF entry[at] = "link" \/ Unused = {}
           THEN End(r, "unsafe_input_path") /\ UNCHANGED opened
           ELSE OpenOn(Object(at)) /\ Take(r, "stat")
    /\ ReaderKeeps

\* A regular file within the limit; _read_descriptor checks the size first.
Stat(r, object) ==
    IF object \notin Files THEN End(r, "unsupported_data_format")
    ELSE IF chunks[object] > MaxChunks THEN End(r, "input_limit_exceeded")
    ELSE reading' = [reading EXCEPT ![r].pc = "read", ![r].meta = <<object, chunks[object]>>]

StatFile(r) ==
    /\ reading[r].pc = "stat" /\ Stat(r, opened[Held(r)])
    /\ UNCHANGED opened /\ ReaderKeeps

\* read_regular_file: lstat, open without following links, and compare.
LstatPath(r) ==
    /\ reading[r].pc = "start" /\ Readers[r] = "path"
    /\ LET object == Object(FolderOf[Roots[1]])
       IN  IF object \notin Files THEN End(r, "unsupported_data_format")
           ELSE reading' = [reading EXCEPT ![r].pc = "open",
                                           ![r].meta = <<object, chunks[object]>>]
    /\ UNCHANGED opened /\ ReaderKeeps

OpenPath(r) ==
    /\ reading[r].pc = "open"
    /\ LET object == Object(FolderOf[Roots[1]])
       IN  IF object[2] = "link" \/ Unused = {} THEN End(r, "unsafe_input_path") /\ UNCHANGED opened
           ELSE OpenOn(object) /\ Take(r, "compare")
    /\ ReaderKeeps

ComparePath(r) ==
    /\ reading[r].pc = "compare"
    /\ IF opened[Held(r)] # reading[r].meta[1] THEN End(r, "file_changed")
       ELSE IF reading[r].meta[2] > MaxChunks THEN End(r, "input_limit_exceeded")
       ELSE Go(r, "read")
    /\ UNCHANGED opened /\ ReaderKeeps

\* _read_descriptor: chunk after chunk until the end of the file or past the limit.
ReadChunk(r) ==
    /\ reading[r].pc = "read"
    /\ LET object == opened[Held(r)]
           total == reading[r].total
       IN  IF total >= ChunksOf(object) THEN Go(r, "restat")
           ELSE reading' = [reading EXCEPT
                    ![r].total = total + 1, ![r].from = object,
                    ![r].pc = IF total + 1 > MaxChunks THEN "finally" ELSE "read",
                    ![r].result = IF total + 1 > MaxChunks THEN "input_limit_exceeded" ELSE "none"]
    /\ UNCHANGED opened /\ ReaderKeeps

RestatFile(r) ==
    /\ reading[r].pc = "restat"
    /\ LET now == <<opened[Held(r)], ChunksOf(opened[Held(r)])>>
       IN  IF now = reading[r].meta /\ reading[r].total = reading[r].meta[2]
           THEN End(r, "bytes") ELSE End(r, "file_changed")
    /\ UNCHANGED opened /\ ReaderKeeps

\* The finally block closes every descriptor the reader opened.
CloseReader(r) ==
    /\ reading[r].pc = "finally"
    /\ opened' = Close(ToSet(reading[r].mine)) /\ Go(r, "done") /\ ReaderKeeps

-----------------------------------------------------------------------------
(* Other threads and processes *)

OtherOpens ==
    /\ other = Closed /\ changes < MaxChanges /\ OpenOn(Elsewhere)
    /\ other' = Min(Unused) /\ changes' = changes + 1
    /\ UNCHANGED <<pinned, roots, rootAt, entry, chunks, reading>>

FilesChange ==
    /\ changes < MaxChanges /\ changes' = changes + 1
    /\ \/ \E folder \in Folders \ {Elsewhere} :
            /\ entry' \in {[entry EXCEPT ![folder] = e] :
                              e \in Entries \ {entry[folder]}}
            /\ UNCHANGED <<chunks, rootAt>>
       \/ \E folder \in Folders \ {Elsewhere}, n \in 0..(MaxChunks + 1) :
            \E f \in FilesIn(folder) :
                /\ n # chunks[f] /\ chunks' = [chunks EXCEPT ![f] = n]
                /\ UNCHANGED <<entry, rootAt>>
       \/ \E root \in ToSet(Roots) :
            rootAt' = [rootAt EXCEPT ![root] = Link] /\ UNCHANGED <<entry, chunks>>
    /\ UNCHANGED <<opened, pinned, roots, reading, other>>

ReaderStep(r) ==
    \/ RefusePath(r) \/ StartRead(r) \/ Duplicate(r) \/ Identify(r) \/ OpenFolder(r) \/ OpenFile(r) \/ StatFile(r)
    \/ LstatPath(r) \/ OpenPath(r) \/ ComparePath(r)
    \/ ReadChunk(r) \/ RestatFile(r) \/ CloseReader(r)

ReadsNext ==
    \/ OpenRoot \/ CheckRoot \/ DenyRoots \/ CloseRoots \/ ClosePinnedRoot
    \/ \E r \in DOMAIN Readers : ReaderStep(r)
    \/ OtherOpens \/ FilesChange

ReadsSpec == ReadsInit /\ [][ReadsNext]_readVars

-----------------------------------------------------------------------------
(* Properties *)

\* Bytes are answered only from a file that was in the named directory of the pinned
\* root, whole, and within the limit.
Confined(r) ==
    reading[r].result = "bytes" =>
        /\ reading[r].meta[1] \in FilesIn(FolderOf[Roots[IF Readers[r] = "path" THEN 1
                                                         ELSE Len(Roots)]])
        /\ reading[r].total = reading[r].meta[2] /\ reading[r].total <= MaxChunks
        /\ reading[r].total > 0 => reading[r].from = reading[r].meta[1]

\* What is still open belongs to somebody.
Owned ==
    {d \in Descriptors : opened[d] # Closed} =
        {pinned[k].at : k \in {j \in DOMAIN pinned : ~pinned[j].closed}}
        \cup (UNION {ToSet(reading[r].mine) :
                     r \in {q \in DOMAIN Readers : reading[q].pc # "done"}})
        \cup ({other} \ {Closed})

\* Roots may be closed, and their descriptor numbers reused, at any moment of a read:
\* the bytes still come from a whole file beneath the pinned root, nobody closes
\* another's descriptor and none is leaked (ConfiguredFileRoots.read and close,
\* read_file_beneath, read_regular_file, _read_descriptor).
ReadsConfined ==
    /\ \A r \in DOMAIN Readers : Confined(r)
    /\ Owned /\ (other # Closed => opened[other] = Elsewhere)
=============================================================================

------------------------------ MODULE PathOrder ------------------------------
(***************************************************************************)
(* The archive index of memcache_zipserve.py: CompareFilenames, which      *)
(* orders two archive member paths, and MapFileToArchive, which uses the   *)
(* first member recorded for each archive to guess the archive that holds  *)
(* a requested file.  A path is the list file.split('/') returns, a        *)
(* sequence of segments; Python compares two segments byte-wise, which     *)
(* the model keeps as Rank, the position of a segment's text in that       *)
(* order.  Only equality and '<' of segments are ever used by the code.    *)
(*                                                                         *)
(* The packing order the index relies on (MapFileToArchive's docstring:    *)
(* depth first, a directory's own files before its subdirectories, upper   *)
(* case before lower case) is stated here as PackedBefore, the reference   *)
(* that CompareFilenames is checked against.                               *)
(***************************************************************************)
EXTENDS Integers, Sequences, FiniteSets

CONSTANTS
    Segments,   \* the segments paths are made of
    Rank,       \* Rank[s]: position of s's text in Python's string order
    NoFirst,    \* entry given as [name] only: no first member recorded
    NoArchive   \* MapFileToArchive's None

ASSUME Rank \in [Segments -> Nat]
ASSUME \A a, b \in Segments : a # b => Rank[a] # Rank[b]

\* MapFileToArchive's result when CompareFilenames raised IndexError.
Raised == "IndexError"

(***************************************************************************)
(* CompareFilenames (lines 447-454): the while loop that advances          *)
(* segment_ptr over the common leading segments.  ptr counts from 0 as in  *)
(* Python; segment ptr of a path is p[ptr + 1].                            *)
(***************************************************************************)
RECURSIVE SegmentPtr(_, _, _)
SegmentPtr(f1, f2, ptr) ==
    IF ptr < Len(f1) /\ ptr < Len(f2) /\ f1[ptr + 1] = f2[ptr + 1]
    THEN SegmentPtr(f1, f2, ptr + 1)
    ELSE ptr

\* The if/elif/else on the differing segments: 1 when a sorts first.
SegmentOrder(a, b) ==
    IF Rank[a] < Rank[b] THEN 1 ELSE IF Rank[a] > Rank[b] THEN -1 ELSE 0

\* CompareFilenames indexes f1_segments[segment_ptr] past the end of the
\* shorter path when that path is a prefix of the other and at least two
\* segments shorter: Python raises IndexError there (line 482).
CompareRaises(file1, file2) ==
    LET ptr == SegmentPtr(file1, file2, 0) IN
    /\ Len(file1) # Len(file2)
    /\ ptr + 1 # Len(file1)
    /\ ptr + 1 # Len(file2)
    /\ (ptr = Len(file1) \/ ptr = Len(file2))

\* A variant that puts a directory's subdirectories before its own files.
CompareFilenamesDirsFirst(file1, file2) ==
    LET ptr == SegmentPtr(file1, file2, 0) IN
    IF Len(file1) = Len(file2)
    THEN IF ptr = Len(file1) THEN 0
         ELSE SegmentOrder(file1[ptr + 1], file2[ptr + 1])
    ELSE IF ptr + 1 = Len(file1) \/ ptr + 1 = Len(file2)
         THEN Len(file1) - Len(file2)
         ELSE SegmentOrder(file1[ptr + 1], file2[ptr + 1])

\* CompareFilenames: positive when file1 sorts before file2, negative when
\* after, 0 when equal.  Defined where CompareRaises is false.
CompareFilenames(file1, file2) ==
    LET ptr == SegmentPtr(file1, file2, 0) IN
    IF Len(file1) = Len(file2)
    THEN IF ptr = Len(file1) THEN 0
         ELSE SegmentOrder(file1[ptr + 1], file2[ptr + 1])
    ELSE IF ptr + 1 = Len(file1) \/ ptr + 1 = Len(file2)
         THEN Len(file2) - Len(file1)
         ELSE SegmentOrder(file1[ptr + 1], file2[ptr + 1])

(***************************************************************************)
(* MapFileToArchive (lines 419-427).  zipfilenames is the normalised       *)
(* handler argument: a sequence of entries [name |-> archive, first |->    *)
(* first member or NoFirst].  Scanning from the last entry, the first      *)
(* entry with a first member whose comparison with file_path is >= 0       *)
(* wins; an IndexError raised by a comparison ends the scan.               *)
(***************************************************************************)
\* The entries the backward scan stops at: it raises there or it matches.
IndexStops(zipfilenames, file_path) ==
    {i \in 1..Len(zipfilenames) :
        /\ zipfilenames[i].first # NoFirst
        /\ \/ CompareRaises(zipfilenames[i].first, file_path)
           \/ CompareFilenames(zipfilenames[i].first, file_path) >= 0}

\* A variant that scans from the first entry instead of the last.
MapFileToArchiveForward(zipfilenames, file_path) ==
    LET stops == IndexStops(zipfilenames, file_path)
        i == CHOOSE j \in stops : \A k \in stops : j <= k
    IN  IF stops = {} THEN NoArchive
        ELSE IF CompareRaises(zipfilenames[i].first, file_path) THEN Raised
        ELSE zipfilenames[i].name

MapFileToArchive(zipfilenames, file_path) ==
    LET stops == IndexStops(zipfilenames, file_path)
        i == CHOOSE j \in stops : \A k \in stops : j >= k
    IN  IF stops = {} THEN NoArchive
        ELSE IF CompareRaises(zipfilenames[i].first, file_path) THEN Raised
        ELSE zipfilenames[i].name

(***************************************************************************)
(* The packing order (reference): each segment is keyed by whether it is  *)
(* the file itself (0) or a directory on the way to it (1), then by its    *)
(* rank; paths compare lexicographically by these keys.  A directory's     *)
(* files (key 0) come before its subdirectories (key 1), and each group is *)
(* sorted by name, upper case first.                                       *)
(***************************************************************************)
PackKey(p, i) == <<IF i = Len(p) THEN 0 ELSE 1, Rank[p[i]]>>

KeyLess(k1, k2) == k1[1] < k2[1] \/ (k1[1] = k2[1] /\ k1[2] < k2[2])

PackedBefore(p, q) ==
    \E i \in 1..Len(p) :
        /\ i <= Len(q)
        /\ \A j \in 1..(i - 1) : PackKey(p, j) = PackKey(q, j)
        /\ KeyLess(PackKey(p, i), PackKey(q, i))

\* Two paths can be members of the same archive set: neither names, as a
\* directory, what the other names as a file.
Compatible(p, q) ==
    /\ ~(Len(p) < Len(q) /\ SubSeq(q, 1, Len(p)) = p)
    /\ ~(Len(q) < Len(p) /\ SubSeq(p, 1, Len(q)) = q)
=============================================================================

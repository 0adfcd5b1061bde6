----------------------------- MODULE MCPathOrder -----------------------------
(***************************************************************************)
(* The Archive Index operators of PathOrder, checked in one state space    *)
(* with two kinds of state.  A comparison state holds a pair of paths      *)
(* (p, q) of up to PairDepth segments.  A lookup state holds a way of      *)
(* packing a small file set into archives the way MapFileToArchive's       *)
(* docstring assumes, and one member file to look up: the files, sorted    *)
(* in packing order, are cut into consecutive runs, one run per archive,   *)
(* and each archive is listed with or without its first member.  The       *)
(* variables of the other kind hold <<>>.                                  *)
(***************************************************************************)
EXTENDS PathOrder, SequencesExt

CONSTANTS PairDepth, FileDepth, MaxFiles

\* Segment i is the i-th text in string order.
MCRank == [s \in Segments |-> s]

\* The archive names, in the order the handler is given them.
ArchiveNames == <<"a.zip", "b.zip", "c.zip">>

VARIABLES p, q, zipfilenames, members, file

vars == <<p, q, zipfilenames, members, file>>

PairPaths == BoundedSeq(Segments, PairDepth) \ {<<>>}
FilePaths == BoundedSeq(Segments, FileDepth) \ {<<>>}

\* Sets of files that can be packed together.
FileSets ==
    {F \in SUBSET FilePaths :
        /\ Cardinality(F) \in 2..MaxFiles
        /\ \A a, b \in F : Compatible(a, b)}

\* The archive holding the file at position k when the sorted file list
\* is cut before the positions in cuts.
ArchiveOf(cuts, k) == 1 + Cardinality({c \in cuts : c <= k})

\* One packing of F, and a file of it to look up.
PackingInit ==
    \E F \in FileSets :
    LET sorted == SetToSortSeq(F, PackedBefore)
        n == Len(sorted)
    IN  \E cuts \in SUBSET (2..n) :
        \E listed \in SUBSET (1..(Cardinality(cuts) + 1)) :
        /\ Cardinality(cuts) + 1 <= Len(ArchiveNames)
        /\ LET firstOf(a) == sorted[CHOOSE k \in 1..n : ArchiveOf(cuts, k) = a
                                      /\ \A j \in 1..(k - 1) : ArchiveOf(cuts, j) # a]
           IN  /\ zipfilenames =
                    [a \in 1..(Cardinality(cuts) + 1) |->
                        [name |-> ArchiveNames[a],
                         first |-> IF a \in listed THEN firstOf(a) ELSE NoFirst]]
               /\ members =
                    [a \in 1..(Cardinality(cuts) + 1) |->
                        {sorted[k] : k \in {j \in 1..n : ArchiveOf(cuts, j) = a}}]
        /\ file \in F
        /\ p = <<>> /\ q = <<>>

PairInit ==
    /\ p \in PairPaths /\ q \in PairPaths
    /\ zipfilenames = <<>> /\ members = <<>> /\ file = <<>>

Init == PairInit \/ PackingInit

\* Compare another pair.
Probe ==
    /\ p # <<>>
    /\ p' \in PairPaths /\ q' \in PairPaths
    /\ UNCHANGED <<zipfilenames, members, file>>

\* Look up another member of the same packing.
Lookup ==
    /\ file # <<>>
    /\ file' \in UNION {members[a] : a \in DOMAIN members}
    /\ UNCHANGED <<p, q, zipfilenames, members>>

Spec == Init /\ [][Probe \/ Lookup]_vars

(***************************************************************************)
(* CompareFilenames agrees with the depth-first packing order that         *)
(* MapFileToArchive assumes: for two paths that can both be archive        *)
(* members it never raises, it is 0 exactly on equal paths, and it is      *)
(* positive exactly when p is packed before q.  This is what makes the     *)
(* backward scan of MapFileToArchive land on the right archive.            *)
(***************************************************************************)
ComparatorMatchesPackOrder ==
    p # <<>> /\ Compatible(p, q) =>
        /\ ~CompareRaises(p, q)
        /\ (CompareFilenames(p, q) = 0) <=> (p = q)
        /\ (CompareFilenames(p, q) > 0) <=> PackedBefore(p, q)

(***************************************************************************)
(* For a file packed as assumed, MapFileToArchive never raises and never   *)
(* names an archive after the one holding the file, so GetFromStore's      *)
(* fall-back scan, which restarts at the first archive, still reaches it;  *)
(* and when the holding archive lists its first member the index names     *)
(* exactly that archive.                                                   *)
(***************************************************************************)
IndexNeverOvershoots ==
    file # <<>> =>
        LET h == CHOOSE a \in DOMAIN members : file \in members[a]
            got == MapFileToArchive(zipfilenames, file)
        IN  /\ got \in {NoArchive} \cup {zipfilenames[a].name : a \in 1..h}
            /\ zipfilenames[h].first # NoFirst => got = zipfilenames[h].name
=============================================================================

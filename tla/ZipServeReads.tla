---------------------------- MODULE ZipServeReads ----------------------------
(***************************************************************************)
(* ZipServe with a history of its archive reads.  settled[c] holds the     *)
(* names client c's instance looked up with GetFromStore whose outcome     *)
(* CreateResponse then puts in memcache, until memcache evicts an item of  *)
(* that name.  tried[c] counts the archives GetFromStore's loop has read  *)
(* in c's current call.  Each step is a step of ZipServe together with     *)
(* the update of the history, which never constrains it.                   *)
(***************************************************************************)
EXTENDS ZipServe

VARIABLES settled, tried

hvars == <<vars, settled, tried>>

\* c's step in which GetFromStore's while loop exits (lines 356-375).
StoreReturns(c) == pc[c] = "scan" /\ pc'[c] # "scan"

\* The outcomes of GetFromStore that CreateResponse caches (lines 286-296):
\* content that fits in a memcache item, or a miss of a request that is not
\* a valid intl one.
OutcomeCached(x) ==
    \/ x.data # None /\ x.name \notin Large
    \/ x.data = None /\ ~x.valid

\* The names some item of which memcache drops in this step.
Dropped == {k[2] : k \in {k \in Keys : mc[k] # None /\ mc'[k] = None}}

RecordReads ==
    settled' = [c \in Clients |->
                  (IF StoreReturns(c) /\ OutcomeCached(ctx[c])
                   THEN settled[c] \cup {ctx[c].name} ELSE settled[c]) \ Dropped]

\* c's step that enters the loop, and c's steps that read one archive.
StoreEnters(c) == pc[c] = "store" /\ pc'[c] = "scan"
ArchiveRead(c) == pc[c] = "scan" /\ pc'[c] = "scan" /\ ctx'[c] # ctx[c]

RecordTries ==
    tried' = [c \in Clients |->
                IF StoreEnters(c) THEN 0
                ELSE IF ArchiveRead(c) THEN tried[c] + 1 ELSE tried[c]]

InitH ==
    /\ Init
    /\ settled = [c \in Clients |-> {}]
    /\ tried = [c \in Clients |-> 0]

NextH == Next /\ RecordReads /\ RecordTries

SpecH == InitH /\ [][NextH]_hvars

\* Spec 8, negative-cache short-circuit and cache round-trip, across
\* requests, instances and deployments: an instance reads a name from the
\* archives again only when the outcome of its last read was never cached
\* (a file over memcache's item limit, line 530; a miss of a valid intl
\* request, line 291) or memcache has evicted the name since.
NoRedundantArchiveRead ==
    [][\A c \in Clients : StoreReturns(c) => ctx[c].name \notin settled[c]]_hvars

\* The archive holding name in c's version is listed with its first member.
HolderListed(c, name) ==
    \E i \in 1..Len(zipfilenames) :
        zipfilenames[i].first # NoFirst /\ name \in Members(zipfilenames[i].name, iver[c])

\* MapFileToArchive's purpose (docstring, lines 403-411) as GetFromStore
\* uses it (lines 348-354): when no open fails, a file whose archive is
\* listed with its first member is found with one archive read, the one
\* the index names; the fall-back scan from the first archive, which would
\* find it anyway, is never needed.
IndexHintReadsOnce ==
    [][\A c \in Clients :
          StoreReturns(c) /\ ctx[c].data # None /\ HolderListed(c, ctx[c].name)
              => tried[c] = 1]_hvars
=============================================================================

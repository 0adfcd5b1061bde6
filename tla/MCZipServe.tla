----------------------------- MODULE MCZipServe -----------------------------
(***************************************************************************)
(* ZipServe for TLC: the segments, archives and requests of a small        *)
(* documentation site.  Segments carry their text and extension; MCRank    *)
(* lists their texts in Python's string order.                             *)
(***************************************************************************)
EXTENDS ZipServe

Seg(t, x) == [t |-> t, x |-> x]

empty  == Seg("", "")
psd    == Seg("art.psd", "psd")
bin    == Seg("data.bin", "bin")
de     == Seg("de", "")
en     == Seg("en", "")
fav    == Seg("favicon.ico", "ico")
guide  == Seg("guide", "")
index  == Seg("index.html", "html")
intl   == Seg("intl", "")
xx     == Seg("xx", "")

\* Segment texts in string order.
Order == <<empty, psd, bin, de, en, fav, guide, index, intl, xx>>

MCSegments == {Order[i] : i \in 1..Len(Order)}
MCRank == [s \in MCSegments |-> CHOOSE i \in 1..Len(Order) : Order[i] = s]

\* Two archives: the root files, then guide/ and intl/.  The first is
\* given by name only, the second with its first member.
MCZipFilesArg == <<"root.zip", <<"docs.zip", <<guide, index>> >> >>
MCArchiveContent ==
    [a \in {"root.zip", "docs.zip"} |->
        IF a = "root.zip" THEN {<<psd>>, <<bin>>, <<fav>>, <<index>>}
        ELSE {<<guide, index>>, <<intl, de, index>>}]

\* The next version of the site adds guide/art.psd and a German guide page.
MCDeployedContent ==
    [a \in {"root.zip", "docs.zip"} |->
        IF a = "root.zip" THEN MCArchiveContent[a]
        ELSE MCArchiveContent[a] \cup {<<guide, psd>>, <<intl, de, guide, index>>}]

\* Request sets.  Basic: a directory, a page with a German version, a
\* page under an unsupported language.  Types: the content-type branches
\* and a path below a file that the index's comparison cannot handle.
\* Nested: an intl path inside an intl path, and the inner path itself.
StartsBasic == {<<guide>>, <<index>>, <<intl, xx, index>>}
StartsTypes == {<<fav>>, <<psd>>, <<bin>>, <<guide, index, guide, index>>, <<guide>>}
StartsLive == {<<guide>>, <<index>>, <<guide, index, guide, index>>, <<intl, de, guide, index>>}
StartsNested == {<<intl, de, intl, en, index>>, <<intl, en, index>>}
StartsFlaky == {<<guide>>, <<intl, xx, index>>}
\* Deploy: a guide page that gets a German version, a file added later.
StartsDeploy == {<<guide>>, <<guide, psd>>}

\* Every name CreateResponse can be called with from these requests.
MCKeyPaths ==
    {<<index>>, <<guide, index>>, <<intl, de, index>>, <<intl, de, guide, index>>,
     <<intl, xx, index>>, <<fav>>, <<psd>>, <<bin>>, <<guide, index, guide, index>>,
     <<intl, de, guide, index, guide, index>>, <<intl, de, intl, en, index>>,
     <<intl, en, index>>, <<intl, xx, guide, index>>, <<guide, psd>>}
MCLarge == {<<index>>}
MCValidLangs == {en, de}
MCCookieValues == {en, de}
\* A cookie left by another site section, or edited: a language not served.
MCCookieAny == {en, de, xx}

\* 2026-09-21, and 2028-04-22, past the day (2028-01-22) from which now
\* plus ten years no longer fits a 32-bit time_t.
Now2026 == 1790000000
Now2028 == 1840000000
ClockToday == {Now2026}
ClockPast2028 == {Now2026, Now2028}

(***************************************************************************)
(* Properties.                                                             *)
(***************************************************************************)
Ctx == [name : KeyPaths, lang : Segments, valid : BOOLEAN, reset : BOOLEAN,
        caller : {"clean", "intl", "fallback"}, content : KeyPaths \cup {None},
        data : {Content(p, v) : p \in KeyPaths, v \in 0..MaxDeploys} \cup {None},
        arch : DOMAIN ArchiveContent \cup {None}, itr : 1..(Len(zipfilenames) + 1)]

TypeOK ==
    /\ mc \in [Keys -> {Content(p, v) : p \in KeyPaths, v \in 0..MaxDeploys} \cup {NegSentinel, None}]
    /\ zcache \in [Clients -> SUBSET DOMAIN ArchiveContent]
    /\ cookie \in [Clients -> Segments \cup {NoCookie}]
    /\ pc \in [Clients -> {"idle", "get", "neg", "store", "scan", "add",
                           "replace", "negadd", "emit"}]
    /\ ctx \in [Clients -> Ctx \cup {None}]
    /\ resp \in [Clients -> Response \cup {None}]
    /\ live \in 0..MaxDeploys
    /\ iver \in [Clients -> 0..live]
    /\ now \in Clock

\* A negative memcache entry is only ever written for a name that no
\* archive holds (StoreInNegativeCache after GetFromStore's full scan).
\* Once written it answers 404 for the name until memcache evicts it.
NegativeCacheSound ==
    \A k \in Keys : k[1] = NEG_CACHE_PREFIX /\ mc[k] # None => k[2] \notin AllFiles

\* The page a request path stands for: its index.html for a directory.
PageOf(p) == IF PreprocessRedirect(p) # None THEN PreprocessRedirect(p) ELSE p

\* A browser that asks for a page the archives hold ends its redirect
\* chain (PreprocessUrl, RedirToIntl, the intl fall-back to the default
\* language) with a 200, whatever supported language its cookie holds, or
\* none, and whatever other clients did to the shared memcache meanwhile.
ExistingPagesReachable ==
    \A c \in Clients :
        /\ pc[c] = "idle"
        /\ resp[c] # None
        /\ resp[c].status # 302
        /\ PageOf(origin[c]) \in AllFiles
        => resp[c].status = 200

\* Spec 4.5 and 8: a request for intl/<lang>/<path> with a supported lang
\* is answered 404 only when neither that file nor <path> exists.
IntlMissFallsBack ==
    \A c \in Clients :
        /\ pc[c] = "idle"
        /\ resp[c] # None
        /\ resp[c].status = 404
        /\ Len(req[c]) > 2 /\ req[c][1] = IntlSeg /\ req[c][2] \in ValidLangs
        => /\ req[c] \notin AllFiles
           /\ SubSeq(req[c], 3, Len(req[c])) \notin AllFiles

\* A request for intl/<lang>/<path> whose localized file an archive holds
\* is answered with that file, not with the default-language page that
\* CreateResponse falls back to when GetFromStore returns None (line 163).
LocalizedPageServed ==
    \A c \in Clients :
        /\ pc[c] = "idle"
        /\ resp[c] # None
        /\ resp[c].status = 200
        /\ resp[c].body # None
        /\ Len(req[c]) > 2 /\ req[c][1] = IntlSeg /\ req[c][2] \in ValidLangs
        /\ req[c] \in FilesAt(resp[c].ver)
        => resp[c].body.bytes = req[c]

\* Spec 8, cookie reset: after a 200 for intl/<lang>/<path> with a supported
\* lang, the browser's cookie holds lang, whatever it held before; the
\* default-language page served by the fall-back (line 163) included.
\* TrueGet decides the reset before CreateResponse runs, Emit applies it.
CookieFollowsUrlLanguage ==
    \A c \in Clients :
        /\ pc[c] = "idle"
        /\ resp[c] # None
        /\ resp[c].status = 200
        /\ Len(req[c]) > 2 /\ req[c][1] = IntlSeg /\ req[c][2] \in ValidLangs
        => cookie[c] = req[c][2]

\* Spec 7: no exception propagates past the handler; every request ends
\* in a redirect, a 404 or content.
NoServerError == \A c \in Clients : resp[c] # None => resp[c].status # 500

\* create_handler's max_age and public arguments (lines 49-50) set the
\* Cache-Control of every response that carries content.
CacheControlHonoursConfig ==
    \A c \in Clients :
        resp[c] # None /\ resp[c].cc # None =>
            /\ resp[c].cc.maxage = IF MaxAgeArg = NoArg THEN MAX_AGE ELSE MaxAgeArg
            /\ resp[c].cc.public = IF PublicArg = NoArg THEN PUBLIC ELSE PublicArg

\* After a new version is deployed, an instance of that version answers
\* with what the new archives hold: a page they hold ends in a 200 that
\* carries the new version's bytes.  CreateResponse trusts memcache
\* (GetFromCache, GetFromNegativeCache) before the archives, and nothing
\* drops the items the old version wrote.
FreshAfterDeploy ==
    \A c \in Clients :
        /\ pc[c] = "idle"
        /\ resp[c] # None
        /\ resp[c].status # 302
        /\ resp[c].ver = live
        /\ PageOf(origin[c]) \in FilesAt(live)
        => /\ resp[c].status = 200
           /\ resp[c].body # None => resp[c].body.ver = live

(***************************************************************************)
(* ZipServe implements ZipServeSpec: a request is pending while its        *)
(* handler runs, and a response is seen through its status, redirect       *)
(* target, the file its body holds and the cookie it sets.                 *)
(***************************************************************************)
View(r) ==
    [status |-> r.status, loc |-> r.loc,
     body |-> IF r.body = None THEN None ELSE r.body.bytes,
     setcookie |-> r.setcookie]

Abs == INSTANCE ZipServeSpec WITH
    asked <- req,
    pending <- [c \in Clients |-> IF pc[c] = "idle" THEN None ELSE req[c]],
    resp <- [c \in Clients |-> IF resp[c] = None THEN None ELSE View(resp[c])],
    Files <- AllFiles

\* Whatever memcache holds, whatever it evicts and however the requests of
\* different instances interleave, every response is the one the archives
\* and the request's cookie determine without any cache: the two-tier
\* cache in CreateResponse and the index in GetFromStore change only how
\* fast an answer comes, never what it is.
ImplementsSpec == Abs!Spec

\* Every redirect chain ends: a request is answered, and a browser that
\* follows the handler's redirects (PreprocessUrl's index.html, RedirToIntl)
\* reaches a final answer.
ChainOpen(c) == pc[c] # "idle" \/ (resp[c] # None /\ resp[c].status = 302)

RedirectChainTerminates == \A c \in Clients : ChainOpen(c) ~> ~ChainOpen(c)
=============================================================================

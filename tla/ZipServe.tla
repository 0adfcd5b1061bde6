------------------------------ MODULE ZipServe ------------------------------
(***************************************************************************)
(* MemcachedZipHandler (memcache_zipserve.py): TrueGet's locale dispatch,  *)
(* CreateResponse's cache / negative cache / archive lookup, GetFromStore's *)
(* scan over the zip files with the per-process zipfile_cache, and the     *)
(* response it emits.  Each client is a browser talking to its own server  *)
(* instance (own zipfile_cache); all instances share one memcache.  Every  *)
(* memcache call is one atomic step, so requests of different clients     *)
(* interleave between them; the rest of the handler is local computation   *)
(* and is folded into the step that follows the last memcache call.       *)
(***************************************************************************)
EXTENDS PathOrder, SequencesExt

CONSTANTS
    Clients,       \* browsers, each served by its own instance
    ZipFilesArg,   \* create_handler's zip_files argument
    ArchiveContent,\* ArchiveContent[a]: member paths of archive a
    DeployedContent,\* the same after a new version of the site is deployed
    MaxDeploys,    \* how many deployments a behaviour may see (0 or 1)
    Large,         \* files larger than memcache's item limit
    OpenMayFail,   \* zipfile.ZipFile() may raise IOError / RuntimeError
    IntlSeg,       \* the segment 'intl'
    EnSeg,         \* the segment 'en', the default language
    EmptySeg,      \* the empty segment: the text after a trailing '/'
    IndexSeg,      \* the segment 'index.html'
    FaviconSeg,    \* the segment 'favicon.ico'
    ValidLangs,    \* validLangs, as segments
    TypedExts,     \* extensions mimetypes.guess_type knows
    CookieValues,  \* values a pref_lang cookie may hold (segments)
    NoCookie,      \* no android_developer_pref_lang cookie in the request
    StartPaths,    \* request paths (reqUri, no leading '/') clients issue
    KeyPaths,      \* every name CreateResponse may be called with
    MaxAgeArg,     \* create_handler's max_age argument
    PublicArg,     \* create_handler's public argument
    NoArg,         \* an argument left as None
    NegSentinel,   \* the int -1 StoreInNegativeCache stores
    None,          \* Python None
    TimeTBits,     \* the width of the C time_t the Python build uses
    Clock          \* instants (seconds since the epoch) a handler runs at

ASSUME TimeTBits \in {32, 64} /\ Clock \subseteq Nat /\ Clock # {}

\* A segment is a record: its text t and x, the text after its last '.',
\* or "" when it has none.
ASSUME \A s \in Segments : s.x = "" \/ s.t # ""

MAX_AGE == 600
PUBLIC == TRUE
CACHE_PREFIX == "cache://"
NEG_CACHE_PREFIX == "noncache://"

(***************************************************************************)
(* create_handler (lines 58-67): every entry given as a bare file name     *)
(* becomes a one-element list; a [name, first] list is kept.               *)
(***************************************************************************)
NormalizeZipFiles(zip_files) ==
    [i \in 1..Len(zip_files) |->
        IF zip_files[i] \in DOMAIN ArchiveContent
        THEN [name |-> zip_files[i], first |-> NoFirst]
        ELSE [name |-> zip_files[i][1],
              first |-> IF Len(zip_files[i]) > 1 THEN zip_files[i][2] ELSE NoFirst]]

\* create_handler raises ValueError for an empty or non-list zip_files
\* (lines 60, 66-67): no handler class exists, and nothing is served.
CreateHandlerRaises(zip_files) == zip_files = <<>>

ASSUME ~CreateHandlerRaises(ZipFilesArg)

zipfilenames == NormalizeZipFiles(ZipFilesArg)

\* The members of archive a in deployed version v of the site.
Members(a, v) == IF v = 0 THEN ArchiveContent[a] ELSE DeployedContent[a]

FilesAt(v) == UNION {Members(a, v) : a \in DOMAIN ArchiveContent}

\* The files of the site as first deployed.
AllFiles == FilesAt(0)

\* The bytes of a member file as version v of the site has it.
Content(path, v) == [bytes |-> path, ver |-> v]

VARIABLES
    mc,        \* memcache: mc[<<prefix, name>>] is the stored value or None
    zcache,    \* zcache[c]: archives in zipfile_cache of c's instance
    cookie,    \* cookie[c]: the pref_lang cookie c's browser holds
    pc,        \* pc[c]: where c's current request is in the handler
    req,       \* req[c]: the path c's current or last request asked for
    ctx,       \* ctx[c]: CreateResponse's arguments and locals
    resp,      \* resp[c]: the last response c received, or None
    origin,    \* origin[c]: the path that started c's redirect chain
    live,      \* the version of the site last deployed
    iver,      \* iver[c]: the version c's instance was started with
    now        \* the wall-clock time, time.mktime(localtime())

vars == <<mc, zcache, cookie, pc, req, ctx, resp, origin, live, iver, now>>

Keys == {CACHE_PREFIX, NEG_CACHE_PREFIX} \X KeyPaths

\* A response; ver is the version of the instance that gave it, set when it
\* is given.
Response == [status : {200, 302, 404, 500}, loc : Seq(Segments) \cup {None},
             body : {Content(p, v) : p \in KeyPaths, v \in 0..MaxDeploys} \cup {None}, ctype : STRING \cup {None},
             setcookie : Segments \cup {None}, vary : BOOLEAN,
             cc : [public : BOOLEAN, maxage : Nat, revalidate : BOOLEAN] \cup {None},
             ver : 0..MaxDeploys]

Redirect(uri) ==
    [status |-> 302, loc |-> uri, body |-> None, ctype |-> None,
     setcookie |-> None, vary |-> FALSE, cc |-> None, ver |-> 0]

\* Write404Error (lines 533-539).
NotFound ==
    [status |-> 404, loc |-> None, body |-> None, ctype |-> None,
     setcookie |-> None, vary |-> FALSE, cc |-> None, ver |-> 0]

\* An exception escaping TrueGet: webapp answers 500.
ServerError ==
    [status |-> 500, loc |-> None, body |-> None, ctype |-> None,
     setcookie |-> None, vary |-> FALSE, cc |-> None, ver |-> 0]

(***************************************************************************)
(* Path predicates, on name as a list of segments.                         *)
(***************************************************************************)
\* '.html' in name: some segment's extension is html.
HasHtml(name) == \E i \in 1..Len(name) : name[i].x = "html"

\* A variant whose redirect target is the directory itself, with no
\* index.html: a browser following it is sent to the same target again.
PreprocessRedirectNoIndex(name) ==
    LET ends_slash == Last(name) = EmptySeg
        n == IF ~ends_slash /\ Last(name).x = "" THEN Append(name, EmptySeg) ELSE name
    IN  IF Last(n) = EmptySeg THEN n ELSE None

\* A variant that appends index.html after the trailing '/' instead of in
\* place of the empty segment: the target holds an empty segment ('//').
PreprocessRedirectDoubleSlash(name) ==
    LET ends_slash == Last(name) = EmptySeg
        n == IF ~ends_slash /\ Last(name).x = "" THEN Append(name, EmptySeg) ELSE name
    IN  IF Last(n) = EmptySeg THEN Append(n, IndexSeg) ELSE None

\* PreprocessUrl (lines 209-223): a final segment without '.' gets a '/'
\* appended; a name that then ends with '/' (or is empty) is redirected to
\* its index.html.  Returns the redirect target, or None to go on.
PreprocessRedirect(name) ==
    LET ends_slash == Last(name) = EmptySeg
        n == IF ~ends_slash /\ Last(name).x = "" THEN Append(name, EmptySeg) ELSE name
    IN  IF Last(n) = EmptySeg THEN Append(Front(n), IndexSeg) ELSE None

\* A variant without the default-language clause.
isCleanUrlNoDefault(name, langName, isValidIntl) ==
    \/ isValidIntl
    \/ ~HasHtml(name)
    \/ (~isValidIntl /\ langName = EmptySeg)

\* isCleanUrl (lines 190-191); langName '' is the empty segment.
isCleanUrl(name, langName, isValidIntl) ==
    \/ langName = EnSeg
    \/ isValidIntl
    \/ ~HasHtml(name)
    \/ (~isValidIntl /\ langName = EmptySeg)

\* RedirToIntl (lines 239-242): the path part of the redirect target.
RedirToIntl(name, langName) == <<IntlSeg, langName>> \o name

(***************************************************************************)
(* Memcache calls, each one atomic at the service.                         *)
(***************************************************************************)
\* memcache.add: stores only when the key is absent.
McAdd(m, key, value) == IF m[key] = None THEN [m EXCEPT ![key] = value] ELSE m

\* memcache.replace: stores only when the key is present.
McReplace(m, key, value) == IF m[key] # None THEN [m EXCEPT ![key] = value] ELSE m

(***************************************************************************)
(* Client c's request for path p, with the cookie its browser holds:       *)
(* TrueGet (lines 113-179) up to the first memcache call, or to the        *)
(* redirect it answers with.                                               *)
(***************************************************************************)
\* Start CreateResponse(name, langName, isValidIntl, resetLangCookie).
BeginCreate(c, name, langName, isValidIntl, reset, caller, contentUri) ==
    /\ ctx' = [ctx EXCEPT ![c] =
                 [name |-> name, lang |-> langName, valid |-> isValidIntl,
                  reset |-> reset, caller |-> caller, content |-> contentUri,
                  data |-> None, arch |-> None, itr |-> 1]]
    /\ pc' = [pc EXCEPT ![c] = "get"]
    /\ UNCHANGED resp

Answer(c, r) ==
    /\ resp' = [resp EXCEPT ![c] = [r EXCEPT !.ver = iver[c]]]
    /\ UNCHANGED <<pc, ctx>>

\* The language of a request's cookie, 'en' when it has none (line 113).
CookieLang(ck) == IF ck = NoCookie THEN EnSeg ELSE ck

\* A variant that resets the cookie only when the request has none.
ResetLangCookieNoIntl(ck, isValidIntl, urlLang) == ck = NoCookie

\* resetLangCookie (lines 121-125, 146-150): set when the request has no
\* cookie, or when a valid intl path names another language.
ResetLangCookie(ck, isValidIntl, urlLang) ==
    ck = NoCookie \/ (isValidIntl /\ CookieLang(ck) # urlLang)

TrueGet(c, p) ==
    LET isIntl == Len(p) > 1 /\ p[1] = IntlSeg
        isValidIntl == isIntl /\ p[2] \in ValidLangs
        urlLang == IF isValidIntl THEN p[2] ELSE None
        langName == IF isValidIntl THEN urlLang ELSE CookieLang(cookie[c])
        reset == ResetLangCookie(cookie[c], isValidIntl, urlLang)
        contentUri == IF isValidIntl THEN SubSeq(p, 3, Len(p)) ELSE None
    IN  /\ req' = [req EXCEPT ![c] = p]
        /\ \/ /\ PreprocessRedirect(p) # None
              /\ Answer(c, Redirect(PreprocessRedirect(p)))
           \/ /\ PreprocessRedirect(p) = None
              /\ isCleanUrl(p, langName, isValidIntl)
              /\ BeginCreate(c, p, langName, isValidIntl, reset, "clean", contentUri)
           \/ /\ PreprocessRedirect(p) = None
              /\ ~isCleanUrl(p, langName, isValidIntl)
              /\ isIntl
              /\ BeginCreate(c, p, langName, isValidIntl, reset, "intl", contentUri)
           \/ /\ PreprocessRedirect(p) = None
              /\ ~isCleanUrl(p, langName, isValidIntl)
              /\ ~isIntl
              /\ Answer(c, Redirect(RedirToIntl(p, langName)))
        /\ UNCHANGED <<mc, zcache, cookie, live, iver, now>>

\* The browser asks for a new page once its last redirect chain ended.
Issue(c) ==
    /\ pc[c] = "idle"
    /\ IF resp[c] = None THEN TRUE ELSE resp[c].status # 302
    /\ \E p \in StartPaths : TrueGet(c, p) /\ origin' = [origin EXCEPT ![c] = p]

\* The browser follows a 302.
Follow(c) ==
    /\ pc[c] = "idle"
    /\ resp[c] # None
    /\ resp[c].status = 302
    /\ TrueGet(c, resp[c].loc)
    /\ UNCHANGED origin
(***************************************************************************)
(* CreateResponse (lines 277-331) and what it calls.                       *)
(***************************************************************************)
SetCtx(c, field, v) == ctx' = [ctx EXCEPT ![c][field] = v]

Goto(c, label) == pc' = [pc EXCEPT ![c] = label]

\* The handler returns with response r; its locals are gone.
Finish(c, r) ==
    /\ pc' = [pc EXCEPT ![c] = "idle"]
    /\ resp' = [resp EXCEPT ![c] = [r EXCEPT !.ver = iver[c]]]
    /\ ctx' = [ctx EXCEPT ![c] = None]

\* GetFromCache (line 511): a hit goes on to emit the content.
CacheGet(c) ==
    LET v == mc[<<CACHE_PREFIX, ctx[c].name>>] IN
    /\ pc[c] = "get"
    /\ \/ v # None /\ SetCtx(c, "data", v) /\ Goto(c, "emit")
       \/ v = None /\ Goto(c, "neg") /\ UNCHANGED ctx
    /\ UNCHANGED <<mc, zcache, cookie, req, resp, origin, live, iver, now>>

\* A variant that reads the negative entry but goes on to the archives
\* whatever it holds.
NegGetIgnoresEntry(c) ==
    /\ pc[c] = "neg"
    /\ Goto(c, "store")
    /\ UNCHANGED <<mc, zcache, cookie, req, ctx, resp, origin, live, iver, now>>

\* GetFromNegativeCache (line 564): a hit is a 404 (lines 297-300).
NegGet(c) ==
    /\ pc[c] = "neg"
    /\ \/ /\ mc[<<NEG_CACHE_PREFIX, ctx[c].name>>] = None
          /\ Goto(c, "store")
          /\ UNCHANGED <<ctx, resp>>
       \/ /\ mc[<<NEG_CACHE_PREFIX, ctx[c].name>>] # None
          /\ Finish(c, NotFound)
    /\ UNCHANGED <<mc, zcache, cookie, req, origin, live, iver, now>>

\* A variant that ignores the index and always scans from the first archive.
StoreStartNoHint(c) ==
    /\ pc[c] = "store"
    /\ ctx' = [ctx EXCEPT ![c].arch = zipfilenames[1].name, ![c].itr = 2, ![c].data = None]
    /\ Goto(c, "scan")
    /\ UNCHANGED <<mc, zcache, cookie, req, resp, origin, live, iver, now>>

\* GetFromStore (lines 348-354): the index, if it names an archive, is
\* tried first; file_itr then walks the whole list from its start.  An
\* IndexError from the index escapes to webapp as a 500.
StoreStart(c) ==
    LET m == MapFileToArchive(zipfilenames, ctx[c].name) IN
    /\ pc[c] = "store"
    /\ \/ /\ m = Raised
          /\ Finish(c, ServerError)
       \/ /\ m # Raised
          /\ ctx' = [ctx EXCEPT
                       ![c].arch = IF m # NoArchive THEN m ELSE zipfilenames[1].name,
                       ![c].itr = IF m # NoArchive THEN 1 ELSE 2,
                       ![c].data = None]
          /\ Goto(c, "scan")
          /\ UNCHANGED resp
    /\ UNCHANGED <<mc, zcache, cookie, req, origin, live, iver, now>>

\* A variant whose loop runs while archive_name is set, even after the
\* file was read: a later archive's miss overwrites the data with None.
ScanArchiveKeepsReading(c) ==
    LET x == ctx[c]
        next == IF x.itr <= Len(zipfilenames) THEN zipfilenames[x.itr].name ELSE None
    IN
    /\ pc[c] = "scan"
    /\ x.arch # None
    /\ ctx' = [ctx EXCEPT
                 ![c].data = IF x.name \in Members(x.arch, iver[c])
                             THEN Content(x.name, iver[c]) ELSE None,
                 ![c].arch = next,
                 ![c].itr = IF x.itr <= Len(zipfilenames) THEN x.itr + 1 ELSE x.itr]
    /\ zcache' = [zcache EXCEPT ![c] = @ \cup {x.arch}]
    /\ UNCHANGED <<mc, cookie, pc, req, resp, origin, live, iver, now>>

\* One iteration of GetFromStore's while loop (lines 356-373) with
\* LoadZipFile (lines 391-400): an archive already in zipfile_cache is
\* reused; otherwise it is opened and cached, or the open raises and the
\* archive is skipped.  A member that is not there raises KeyError, which
\* is ignored.  archive_name then moves to the next entry of file_itr.
ScanArchive(c) ==
    LET x == ctx[c]
        next == IF x.itr <= Len(zipfilenames) THEN zipfilenames[x.itr].name ELSE None
        read(loaded) ==
            ctx' = [ctx EXCEPT
                      ![c].data = IF loaded /\ x.name \in Members(x.arch, iver[c])
                                  THEN Content(x.name, iver[c]) ELSE None,
                      ![c].arch = next,
                      ![c].itr = IF x.itr <= Len(zipfilenames) THEN x.itr + 1 ELSE x.itr]
    IN
    /\ pc[c] = "scan"
    /\ x.data = None
    /\ x.arch # None
    /\ \/ x.arch \in zcache[c] /\ read(TRUE) /\ UNCHANGED zcache
       \/ /\ x.arch \notin zcache[c]
          /\ zcache' = [zcache EXCEPT ![c] = @ \cup {x.arch}]
          /\ read(TRUE)
       \/ OpenMayFail /\ x.arch \notin zcache[c] /\ read(FALSE) /\ UNCHANGED zcache
    /\ UNCHANGED <<mc, cookie, pc, req, resp, origin, live, iver, now>>

\* A variant without the fall-back: a valid intl miss is cached negatively
\* and answered 404 like any other miss.
StoreDoneNoFallback(c) ==
    LET x == ctx[c] IN
    /\ pc[c] = "scan"
    /\ x.data # None \/ x.arch = None
    /\ \/ x.data # None /\ Goto(c, "add") /\ UNCHANGED <<ctx, resp>>
       \/ x.data = None /\ Goto(c, "negadd") /\ UNCHANGED <<ctx, resp>>
    /\ UNCHANGED <<mc, zcache, cookie, req, origin, live, iver, now>>

\* CreateResponse after GetFromStore returns (lines 286-296): found
\* content is cached; a valid intl miss returns False, on which TrueGet
\* retries with contentUri (line 163, not intl any more); any other miss
\* is cached negatively and answered with 404.
StoreDone(c) ==
    LET x == ctx[c] IN
    /\ pc[c] = "scan"
    /\ x.data # None \/ x.arch = None
    /\ \/ x.data # None /\ Goto(c, "add") /\ UNCHANGED <<ctx, resp>>
       \/ /\ x.data = None
          /\ x.valid
          /\ x.caller = "clean"
          /\ BeginCreate(c, x.content, x.lang, FALSE, x.reset, "fallback", None)
       \/ x.data = None /\ ~x.valid /\ Goto(c, "negadd") /\ UNCHANGED <<ctx, resp>>
    /\ UNCHANGED <<mc, zcache, cookie, req, origin, live, iver, now>>

\* StoreOrUpdateInCache (lines 527-531), first call: memcache.add.  Data
\* over the item limit raises ValueError, which is logged and skipped.
CacheAdd(c) ==
    LET key == <<CACHE_PREFIX, ctx[c].name>> IN
    /\ pc[c] = "add"
    /\ \/ ctx[c].name \in Large /\ Goto(c, "emit") /\ UNCHANGED mc
       \/ /\ ctx[c].name \notin Large
          /\ mc[key] = None
          /\ mc' = McAdd(mc, key, ctx[c].data)
          /\ Goto(c, "emit")
       \/ ctx[c].name \notin Large /\ mc[key] # None /\ Goto(c, "replace") /\ UNCHANGED mc
    /\ UNCHANGED <<zcache, cookie, req, ctx, resp, origin, live, iver, now>>

\* StoreOrUpdateInCache, after add returned False: memcache.replace.
CacheReplace(c) ==
    /\ pc[c] = "replace"
    /\ mc' = McReplace(mc, <<CACHE_PREFIX, ctx[c].name>>, ctx[c].data)
    /\ Goto(c, "emit")
    /\ UNCHANGED <<zcache, cookie, req, ctx, resp, origin, live, iver, now>>

\* StoreInNegativeCache (line 553), then Write404Error.
StoreInNegativeCache(c) ==
    /\ pc[c] = "negadd"
    /\ mc' = McAdd(mc, <<NEG_CACHE_PREFIX, ctx[c].name>>, NegSentinel)
    /\ Finish(c, NotFound)
    /\ UNCHANGED <<zcache, cookie, req, origin, live, iver, now>>

\* SetCachingHeaders (lines 491-500): always the class attributes, since
\* HandlerWrapper.get (lines 77-80) only binds locals MAX_AGE and PUBLIC.
CachingHeaders(revalidate) == [public |-> PUBLIC, maxage |-> MAX_AGE, revalidate |-> revalidate]

\* The content type CreateResponse settles on (lines 318-330), or None.
ContentType(name) ==
    IF Last(name).x \in TypedExts THEN Last(name).x
    ELSE IF name = <<FaviconSeg>> THEN "image/x-icon"
    ELSE IF Last(name).x = "psd" THEN "application/octet-stream"
    ELSE None

\* The response for found content (lines 304-331): Set-Cookie when the
\* cookie is reset, Vary and must-revalidate for html; with no content
\* type nothing else is written and the answer is an empty 200.
Emission(name, langName, reset, data) ==
    LET ct == ContentType(name) IN
    [status |-> 200, loc |-> None,
     body |-> IF ct # None THEN data ELSE None,
     ctype |-> ct,
     setcookie |-> IF reset THEN langName ELSE None,
     vary |-> HasHtml(name),
     cc |-> IF ct # None THEN CachingHeaders(HasHtml(name)) ELSE None,
     ver |-> 0]

\* The Set-Cookie expiry (lines 307-309): now plus ten years, in seconds,
\* converted by localtime(), which raises ValueError for an instant past
\* the largest time_t of the build.
TEN_YEARS == 60 * 60 * 24 * 365 * 10
MAX_TIME_T32 == 2147483647
ExpiryOverflows(t) == TimeTBits = 32 /\ t > MAX_TIME_T32 - TEN_YEARS

\* Emission (lines 302-331).  A cookie reset whose expiry localtime()
\* cannot convert raises out of TrueGet before anything is written.
Emit(c) ==
    LET x == ctx[c] IN
    /\ pc[c] = "emit"
    /\ \/ /\ ~(x.reset /\ ExpiryOverflows(now))
          /\ Finish(c, Emission(x.name, x.lang, x.reset, x.data))
          /\ cookie' = [cookie EXCEPT ![c] = IF x.reset THEN x.lang ELSE @]
       \/ /\ x.reset /\ ExpiryOverflows(now)
          /\ Finish(c, ServerError)
          /\ UNCHANGED cookie
    /\ UNCHANGED <<mc, zcache, req, origin, live, iver, now>>

\* Memcache may drop any item at any time.
Evict(k) ==
    /\ mc[k] # None
    /\ mc' = [mc EXCEPT ![k] = None]
    /\ UNCHANGED <<zcache, cookie, pc, req, ctx, resp, origin, live, iver, now>>

\* A new version of the site is deployed: new instances will serve the new
\* archives; memcache, shared by all versions, is left as it is.
Deploy ==
    /\ live < MaxDeploys
    /\ live' = live + 1
    /\ UNCHANGED <<mc, zcache, cookie, pc, req, ctx, resp, origin, iver, now>>

\* Time passes, to a later instant of Clock.
Tick ==
    /\ now' \in {t \in Clock : t > now}
    /\ UNCHANGED <<mc, zcache, cookie, pc, req, ctx, resp, origin, live, iver>>

\* Between two requests, the runtime replaces c's instance by a new process
\* of the version last deployed, whose class attribute zipfile_cache
\* (line 92) starts empty.  Within one version a recycle matters only when
\* opens may fail: the new process opens its archives again, and may fail
\* on one the old process held open.
Restart(c) ==
    /\ pc[c] = "idle"
    /\ iver[c] # live \/ (OpenMayFail /\ zcache[c] # {})
    /\ zcache' = [zcache EXCEPT ![c] = {}]
    /\ iver' = [iver EXCEPT ![c] = live]
    /\ UNCHANGED <<mc, cookie, pc, req, ctx, resp, origin, live, now>>

(***************************************************************************)
(* The specification.                                                      *)
(***************************************************************************)
Init ==
    /\ mc = [k \in Keys |-> None]
    /\ zcache = [c \in Clients |-> {}]
    /\ cookie \in [Clients -> CookieValues \cup {NoCookie}]
    /\ pc = [c \in Clients |-> "idle"]
    /\ req = [c \in Clients |-> None]
    /\ ctx = [c \in Clients |-> None]
    /\ resp = [c \in Clients |-> None]
    /\ origin = [c \in Clients |-> None]
    /\ live = 0
    /\ iver = [c \in Clients |-> 0]
    /\ now = Min(Clock)

ServerStep(c) ==
    \/ CacheGet(c)
    \/ NegGet(c)
    \/ StoreStart(c)
    \/ ScanArchive(c)
    \/ StoreDone(c)
    \/ CacheAdd(c)
    \/ CacheReplace(c)
    \/ StoreInNegativeCache(c)
    \/ Emit(c)

Next ==
    \/ \E c \in Clients : Issue(c) \/ Follow(c) \/ ServerStep(c)
    \/ \E k \in Keys : Evict(k)
    \/ Deploy
    \/ \E c \in Clients : Restart(c)
    \/ Tick

\* The runtime runs a handler to completion and the browser follows
\* redirects; a client need not issue new requests, memcache need not
\* evict, the runtime need not deploy or restart and time need not pass.
Fairness == \A c \in Clients : WF_vars(ServerStep(c)) /\ WF_vars(Follow(c))

Spec == Init /\ [][Next]_vars /\ Fairness

=============================================================================

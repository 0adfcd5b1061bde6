# TLA+ models of memcache_zipserve.py

`src/tools/scripts/app_engine_server/memcache_zipserve.py` is an App Engine
request handler. It serves documentation pages out of a list of zip
archives, keeps what it reads in memcache, remembers misses in a negative
cache, and sends browsers to the `intl/<lang>/` copy of a page according to
a language cookie. This directory holds TLA+ models of the handler, the TLC
configurations that check them, and the results.

## The system and its parts

| Part | Code | What it does |
|---|---|---|
| Archive Index | `MapFileToArchive` (402-427), `CompareFilenames` (429-487) | Guesses the archive holding a path from each archive's first member, assuming the archives were packed in one depth-first order. |
| Archive Reader | `GetFromStore` (333-375), `LoadZipFile` (377-400) | Tries the guessed archive, then every archive from the first. Opened archives are kept in the per-process `zipfile_cache`. An open failure is logged and the archive is skipped. |
| Two-Tier Cache Client | `GetFromCache`, `StoreOrUpdateInCache`, `StoreInNegativeCache`, `GetFromNegativeCache` (502-564) | `cache://path` holds content and `noncache://path` holds the sentinel -1. Content is stored with `add`, then `replace` if the add fails. Items over the size limit raise ValueError, which is logged. |
| Locale Resolver | `TrueGet` (100-179), `isCleanUrl`, `PreprocessUrl`, `RedirToIntl` (181-243) | Directories are redirected to their `index.html`. The language comes from the cookie or from the `intl/<lang>/` prefix. A page that is not clean is redirected to its intl copy. A valid intl miss is retried with the prefix stripped (line 163). |
| Response Builder | `CreateResponse` (245-331), `SetCachingHeaders`, `Write404Error` | Looks in the cache, then the negative cache, then the archives. Fills the right cache tier. Emits Set-Cookie, Vary, the content type and Cache-Control, or a 404. |
| Configuration | `create_handler`, `HandlerWrapper` (42-82) | Normalises the `zip_files` argument and raises ValueError for an empty or non-list one. Takes `max_age` and `public` arguments. |
| Entry point | `main` (566-573) | WSGI routing only. Not modelled. |

How the parts interact: each request runs `TrueGet` in some server instance.
Instances share one memcache. An instance keeps its own `zipfile_cache`, a
class attribute, so there is one per process. A browser follows the
redirects it receives and keeps the cookie a response sets.

## Modules

* **`PathOrder`** has pure operators for the Archive Index.
  * `SegmentPtr` (RECURSIVE) is the while loop at 447-454.
  * `CompareFilenames` is the comparison at 456-487.
  * `CompareRaises` is the condition under which line 482 indexes past the end of a list and raises IndexError.
  * `MapFileToArchive` is the backward scan.
  * The reference is `PackedBefore`, the packing order described in the docstring at 403-411. A path's segments are keyed by (file or directory, name), and paths are compared lexicographically by those keys.
* **`MCPathOrder`** checks these operators in one state space with two kinds of state:
  * a comparison state holds a pair of paths of at most 3 segments over 3 segment names;
  * a lookup state holds a packing of a compatible set of 2-4 files, in packing order, into up to 3 archives, with and without first members, and one file to look up.
* **`ZipServe`** models the handler as a state machine. The state is:
  * `mc`: memcache, a function from (prefix, path) to a value or None.
  * `zcache`: the archives in each instance's `zipfile_cache`.
  * `cookie`: each browser's language cookie.
  * `pc`, `ctx`: where each handler is, with `CreateResponse`'s arguments and locals.
  * `req`, `resp`, `origin`: the last request, the last response, and the page that started the redirect chain.

  Each memcache call is its own atomic step, because other instances interleave between them. Archive reads are one step per archive. Local computation is folded into the step around it. The actions are:
  * `Issue`, `Follow`: a browser request. Each runs `TrueGet` up to its first memcache call or its redirect.
  * `CacheGet`, `NegGet`: line 277 and lines 280-300.
  * `StoreStart`: the index hint, lines 348-354. A raised IndexError becomes a 500.
  * `ScanArchive`: one loop iteration together with `LoadZipFile`. An open may fail when `OpenMayFail` is TRUE.
  * `StoreDone`: lines 286-296, including the fall-back `CreateResponse` of line 163.
  * `CacheAdd`, `CacheReplace`: the two memcache calls of `StoreOrUpdateInCache`. Large files skip both.
  * `StoreInNegativeCache`: the negative entry, then the 404.
  * `Emit`: the response of lines 302-331. The browser keeps the cookie it sets. When the cookie is reset, the expiry `time.mktime(localtime())` plus ten years is passed to `localtime()` (lines 307-310). On a build whose `time_t` has `TimeTBits = 32` bits, that raises ValueError for an instant past 2^31 - 1 (`ExpiryOverflows`), and the request fails with 500 before anything is written.
  * `Tick`: time passes to a later instant of the constant `Clock`. `now` is the handler's `time.mktime(localtime())`.
  * `Evict`: memcache may drop any item at any time.
  * `Deploy`: a new version of the site goes live. Its archives are `DeployedContent`, and memcache is left as it is.
  * `Restart`: between two requests, an instance left on an older version is replaced by a process of the live version. The new process's class-level `zipfile_cache` (line 92) starts empty. When opens may fail (`OpenMayFail`), an instance can also be recycled within its version. The new process opens its archives again and may fail on one the old process held open. Without open failures, no answer depends on `zipfile_cache`, so that recycle is left out.

  `ResetLangCookie` is TrueGet's `resetLangCookie` (lines 121-125 and 146-150). An empty `zip_files` makes `create_handler` raise, so the model assumes a non-empty one (`CreateHandlerRaises`).

  File content is `Content(path, version)`. Each response records the version of the instance that gave it (`ver`).

  Paths are sequences of segments. A segment is a record of its text and its extension, and `Rank` orders segment texts as Python compares strings. `'.html' in name` becomes "some segment has extension html". `mimetypes.guess_type` becomes membership of the extension in `TypedExts`.
* **`ZipServeReads`** adds a history variable to `ZipServe`. Each step is a `ZipServe` step conjoined with the history update, which never constrains the step. `settled[c]` holds the names that c's instance read from the archives and whose outcome `CreateResponse` caches. A name leaves `settled` when memcache evicts one of its items. `tried[c]` counts the archives that c's current `GetFromStore` call has read. `MCZipServeReads` instantiates it.
* **`ZipServeSpec`** is the abstract specification, written from spec sections 4.4-4.5. There are no caches. Each request gets `Resolve(path, cookie)`, the answer the archives and the cookie determine. A request is answered either in the step that receives it or in a later step.
* **`MCZipServe`** instantiates `ZipServe` with a small site:
  * `root.zip` holds `art.psd`, `data.bin`, `favicon.ico` and `index.html`. It is given by name only.
  * `docs.zip` holds `guide/index.html` and `intl/de/index.html`. Its first member is given.
  * The supported languages are `en` and `de`.

  `MCZipServe` also holds the properties and the refinement mapping: `asked <- req`; a request is pending while the handler runs; a response is seen through its status, target, body file and Set-Cookie.

## Runs

| Run | Config | Expect | Shows |
|---|---|---|---|
| archive_index | MCPathOrder.cfg | pass | `ComparatorMatchesPackOrder`: CompareFilenames never raises on paths that can share an archive set, and agrees with the packing order. `IndexNeverOvershoots`: the index never names an archive after the holder, and names the holder when it lists its first member. |
| serve | MCZipServe.cfg | pass | `TypeOK`, `NegativeCacheSound`, `ExistingPagesReachable`, `ImplementsSpec`. Two instances, any evictions, reliable opens, and the basic requests (no nested intl paths). Under these conditions, caching never changes an answer. The negpoison, nested_intl, intl_open_failure and stale_after_deploy runs show answers that caching does change outside them. |
| chains_live | MCZipServe_live.cfg | pass | `CookieFollowsUrlLanguage`: after a 200 for `intl/<lang>/...`, the browser's cookie holds `<lang>`. That includes the English fall-back page served for `intl/de/guide/index.html` before the deploy adds it. `RedirectChainTerminates`: every request and redirect chain ends. The run includes open failures, recycled instances, the IndexError path, a deployment, restarts, and a clock passing 2028 on a 32-bit build. A 500 also ends a chain, so this property does not catch the expiry failure. |
| archive_reads | MCZipServeReads.cfg | pass | `NoRedundantArchiveRead`: with two instances and any evictions, a name is read from the archives again only after an eviction, or when the last read's outcome is never cached. Those outcomes are a file over the item limit (line 530) and a valid-intl miss (line 291). This bounds the rescan cost to exactly these cases and checks the short-circuit claims of spec section 8. It does not catch those two rescans, which are the code's design. `IndexHintReadsOnce`: without open failures, a file whose archive is listed with its first member is found with one archive read, the one the index names. A wrong hint would be hidden from every answer by the fall-back scan, so this checks the index where it matters. |
| negpoison | MCZipServe_negpoison.cfg | violation | A failed open negative-caches an existing page. |
| nested_intl | MCZipServe_nested.cfg | violation | `intl/de/intl/en/index.html` poisons `intl/en/index.html`. |
| bad_cookie | MCZipServe_badcookie.cfg | violation | An unsupported cookie language makes every html page 404. |
| config_ignored | MCZipServe_config.cfg | violation | `max_age=3600` never reaches Cache-Control. |
| index_crash | MCZipServe_crash.cfg | violation | `guide/index.html/guide/index.html` raises IndexError and gets a 500. |
| stale_after_deploy | MCZipServe_deploy.cfg | violation | `guide/art.psd` is negative-cached by the old version. After the deploy, a new instance still answers 404. |
| intl_open_failure | MCZipServe_intlfail.cfg | violation | The archive holding `intl/de/index.html` fails to open, and the English `index.html` is served with a German cookie. |
| cookie_expiry | MCZipServe_expiry.cfg | violation | `NoServerError`: on a 32-bit `time_t` build, a browser without a cookie asks for `index.html` after 2028-01-22 and gets a 500. |

### Findings

* **Open failure poisons the negative cache** (lines 294 and 397). `LoadZipFile` swallows the error, `GetFromStore` returns None, and the page is cached as absent until memcache evicts the entry. If another instance has cached the page, its positive and negative entries then coexist, which spec section 3 rules out.
* **Nested intl paths** (line 163). The fall-back call negative-caches the inner intl path. A later request for that path then gets a 404 instead of the default-language page.
* **Unsupported cookie language** (line 123). Every html page ends in a 404. The cookie is only reset by a 200 that resets it. Browsing html pages never repairs it; only a visit to a valid `intl/<lang>/` path does. The comment at 177-178 says the redirected request is handled as a clean url, which is not what happens.
* **Configuration ignored** (lines 77-80). `MAX_AGE = max_age` binds a local.
* **IndexError in CompareFilenames** (line 482). Spec section 7 says no exception escapes, but this one does.
* **Stale items after a deployment** (lines 511 and 564). Nothing drops what the old version wrote, so new files stay 404 and changed files keep their old bytes until memcache evicts them. During a rollout, an old instance's `replace` (line 529) can also overwrite newer content. The spec rules invalidation out of scope, so this is recorded as a spec gap.
* **Wrong language after an open failure** (line 291). A skipped archive turns a present localized page into a valid-intl miss. The fall-back then serves the default-language page, as if no localized document existed (the comment at 159-161).
* **Cookie expiry overflows a 32-bit `time_t`** (line 310). On a build with a 32-bit `time_t`, `localtime(now + ten years)` raises ValueError from 2028-01-22 on. Every response that resets the cookie then fails with 500: first visits, and every switch to another `intl/<lang>/`. The cookie is never set, so such a browser gets a 500 for every page that would be served with content. Spec section 7 says no exception propagates.
* **Not modelled.** Line 494 is indented with a tab among space-indented lines. Python 2 expands the tab to column 8, which does not match the enclosing block's indentation. That is an IndentationError when the module is loaded. The models assume the intended indentation.

## Bounds

* **Segments.** Three segment names and depth 3 give 1521 ordered pairs in archive_index. That covers every case of the comparator: equal paths, a difference in the last segment, a difference in a directory, a file against a directory, and a prefix one or two or more segments shorter.
* **Archive sets.** Four files over three archives, of depth 2, allow every position of a file relative to the archive boundaries.
* **The handler model.** The site has:
  * both kinds of archive entry;
  * a file listed before the index's first member and one after it;
  * a Large file;
  * a page with and without a German copy;
  * an unsupported intl prefix;
  * all three content-type branches, plus a type-less file;
  * a path that makes the comparator raise;
  * a next version that adds `guide/art.psd` and a German guide page;
  * two instants of the clock: 2026-09-21, and 2028-04-22, which is past the day from which the cookie expiry no longer fits a 32-bit `time_t`. Runs other than chains_live and cookie_expiry use the first instant only.

  Two clients are enough for every two-party race on one key: add against add, add against replace, and positive against negative. A third client would only add permutations. The liveness and deploy runs use one client; fairness is per client, and other clients cannot stop a handler. At most one deployment happens (`MaxDeploys`).

The archive_reads run uses two start paths, and `guide/index.html` is the Large file there. That way every outcome of `GetFromStore` occurs: cached content, content too large, a valid-intl miss and a negative miss. With the two exceptions removed from the property, TLC finds it violated under this configuration, so both kinds of rescan really occur there.

## Fairness

`WF_vars(ServerStep(c))`: a handler that has started runs to completion. The
code does not block; every step is a memcache call or an archive read that
returns.

`WF_vars(Follow(c))`: the browser follows a 302.

`ZipServeReads` checks only safety properties and states no fairness.

Nothing is assumed about issuing new requests, eviction, deployments, restarts or the passing of time.

## Not modelled, and the plan

Not modelled:
* Exceptions other than IOError and RuntimeError from `zipfile.ZipFile()` or `read()`, such as BadZipfile. They would escape as a 500; the archives are assumed well formed.
* The WSGI routing in `main`. It maps `/([^/]+)/(.*)` to `MemcachedZipHandler` itself, not to a class made by `create_handler`. That class defines no `get`, so `main` as written answers no GET. The models start from `HandlerWrapper.get`, which is how the module is meant to be used.
* Logging and the text of headers and of the 404 page.
* The text of the cookie expiry date (`strftime`). Only whether `localtime()` can convert the instant is modelled.
* Query strings appended by `RedirToIntl`.
* An instance killed in the middle of a request. Every memcache call is atomic, and no pair of writes has to happen together, so an interrupted request only loses its own response.
* `'.html'` occurring in a segment other than as its extension.

Plan for later sittings:
1. **Separate Archive Reader.** Split it into its own module with an abstract "fetch returns the file iff some archive holds it", shown to be refined by the scan when no open fails.
2. **More clients.** Run the refinement with three clients and with `OpenMayFail` TRUE. The abstract spec would then need a failure case.
3. **Two instances with open failures.** Check the spec section 3 exclusivity of positive and negative entries. This is the interleaving at line 553 that no run reaches yet.

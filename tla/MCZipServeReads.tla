--------------------------- MODULE MCZipServeReads ---------------------------
(***************************************************************************)
(* ZipServeReads for TLC, over the site of MCZipServe.                     *)
(***************************************************************************)
EXTENDS MCZipServe, ZipServeReads

\* Requests for the read history: a directory whose page is over
\* memcache's item limit and has no German version, and a page under an
\* unsupported language.  Between them every outcome of GetFromStore
\* occurs: content cached, content too large, a valid intl miss, a miss
\* cached negatively.
StartsReads == {<<guide>>, <<intl, xx, index>>}
LargeReads == {<<guide, index>>}
=============================================================================

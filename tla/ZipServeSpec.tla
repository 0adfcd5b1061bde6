---------------------------- MODULE ZipServeSpec ----------------------------
(***************************************************************************)
(* What the handler promises, with no caches: every request is answered    *)
(* with what the archives and the request's cookie determine (spec 4.4    *)
(* and 4.5).  A request may be answered in the step that receives it or   *)
(* in a later one; browsers follow redirects and take the cookie a        *)
(* response sets.  A response is seen through its status, redirect        *)
(* target, the file whose content is the body, and the cookie it sets.    *)
(***************************************************************************)
EXTENDS Sequences, SequencesExt

CONSTANTS
    Clients, Segments, IntlSeg, EnSeg, EmptySeg, IndexSeg, FaviconSeg,
    ValidLangs, TypedExts, NoCookie, StartPaths, None,
    Files          \* every member path of every archive

VARIABLES
    cookie,    \* cookie[c]: the language cookie c's browser holds
    asked,     \* asked[c]: the path of c's latest request
    pending,   \* pending[c]: the path of c's unanswered request, or None
    resp,      \* resp[c]: the last response c received, or None
    origin     \* origin[c]: the path that started c's redirect chain

vars == <<cookie, asked, pending, resp, origin>>

RespView(status, loc, body, setcookie) ==
    [status |-> status, loc |-> loc, body |-> body, setcookie |-> setcookie]

\* Content is emitted only when a content type can be found for it.
Typed(p) == Last(p).x \in TypedExts \/ p = <<FaviconSeg>> \/ Last(p).x = "psd"

Found(p, lang, reset) ==
    RespView(200, None, IF Typed(p) THEN p ELSE None, IF reset THEN lang ELSE None)

Resolve(p, ck) ==
    LET lang0 == IF ck = NoCookie THEN EnSeg ELSE ck
        reset0 == ck = NoCookie
        intl == Len(p) > 2 /\ p[1] = IntlSeg /\ p[2] \in ValidLangs
        rest == SubSeq(p, 3, Len(p))
        html == \E i \in 1..Len(p) : p[i].x = "html"
        direct == (Len(p) > 1 /\ p[1] = IntlSeg) \/ lang0 \in {EnSeg, EmptySeg} \/ ~html
        index == IF Last(p) = EmptySeg THEN Append(Front(p), IndexSeg)
                 ELSE Append(p, IndexSeg)
    IN  CASE Last(p).x = "" -> RespView(302, index, None, None)
          [] intl /\ p \in Files -> Found(p, p[2], reset0 \/ p[2] # lang0)
          [] intl /\ rest \in Files -> Found(rest, p[2], reset0 \/ p[2] # lang0)
          [] intl -> RespView(404, None, None, None)
          [] direct /\ p \in Files -> Found(p, lang0, reset0)
          [] direct -> RespView(404, None, None, None)
          [] OTHER -> RespView(302, <<IntlSeg, lang0>> \o p, None, None)

ChainEnded(c) == IF resp[c] = None THEN TRUE ELSE resp[c].status # 302

\* The path c's browser asks for next: a new page, or the redirect target.
NextPath(c, p) ==
    IF ChainEnded(c) THEN p \in StartPaths /\ origin' = [origin EXCEPT ![c] = p]
    ELSE p = resp[c].loc /\ UNCHANGED origin

Answer(c, p) ==
    LET r == Resolve(p, cookie[c]) IN
    /\ resp' = [resp EXCEPT ![c] = r]
    /\ cookie' = [cookie EXCEPT ![c] = IF r.setcookie # None THEN r.setcookie ELSE @]

\* The request is received; the answer comes in a later step.
Request(c) ==
    /\ pending[c] = None
    /\ asked' \in [Clients -> Seq(Segments) \cup {None}]
    /\ NextPath(c, asked'[c])
    /\ asked' = [asked EXCEPT ![c] = asked'[c]]
    /\ pending' = [pending EXCEPT ![c] = asked'[c]]
    /\ UNCHANGED <<cookie, resp>>

Respond(c) ==
    /\ pending[c] # None
    /\ Answer(c, pending[c])
    /\ pending' = [pending EXCEPT ![c] = None]
    /\ UNCHANGED <<asked, origin>>

\* The request is answered in the step that receives it.
RequestAndRespond(c) ==
    /\ pending[c] = None
    /\ asked' \in [Clients -> Seq(Segments) \cup {None}]
    /\ asked' = [asked EXCEPT ![c] = asked'[c]]
    /\ NextPath(c, asked'[c])
    /\ Answer(c, asked'[c])
    /\ UNCHANGED pending

Init ==
    /\ cookie \in [Clients -> Segments \cup {NoCookie}]
    /\ asked = [c \in Clients |-> None]
    /\ pending = [c \in Clients |-> None]
    /\ resp = [c \in Clients |-> None]
    /\ origin = [c \in Clients |-> None]

Next == \E c \in Clients : Request(c) \/ Respond(c) \/ RequestAndRespond(c)

Spec == Init /\ [][Next]_vars
=============================================================================

----------------------------- MODULE HttpActuator -----------------------------
(***************************************************************************)
(* One call of http_request, safa-core/src/actuator/http.rs, and the       *)
(* allowlist it consults, AllowlistedUrl of safa-core/src/newtypes.rs.     *)
(*                                                                         *)
(* What follows https:// is a sequence of pieces: parts of host names, the *)
(* dot, and the marks at which the host, the port and the path end.        *)
(***************************************************************************)
EXTENDS Naturals, SequencesExt, FiniteSetsExt

CONSTANTS
    Pieces,         \* what URLs are made of
    InHost,         \* the pieces that end in a letter, a digit, a dot or a hyphen
    LowerCase,      \* a piece in lower case
    Urls,           \* the URLs that are asked for or redirected to
    Methods,
    Allowlist,      \* a sequence of [prefix, wild, methods]
    MaxRedirects,
    MaxResponse,    \* MAX_RESPONSE_BYTES
    MaxSent         \* bound on the body of a response (model checking only)

Boundaries == {"/", "?", "#", ":"}

\* Any pattern goes.  One that ends before the host name, such as * or https://*, has
\* the empty prefix; one that no https URL can match is left out.
ASSUME HttpAssumption ==
    /\ Boundaries \subseteq Pieces /\ InHost \cap Boundaries = {}
    /\ LowerCase \in [Pieces -> Pieces]
    /\ Urls \subseteq Seq(Pieces)
    /\ \A i \in DOMAIN Allowlist : Allowlist[i].prefix \in Seq(Pieces)
    /\ MaxRedirects \in Nat \ {0} /\ MaxResponse \in Nat /\ MaxSent \in Nat

VARIABLES
    hpc,
    method,
    url,       \* as requested
    place,     \* the URL that the client library is at, as it spells it
    peer,      \* the address that sent the response
    hops,      \* redirects followed
    width,     \* bytes of a character of the body; 0: it is not UTF-8
    sent,      \* history: bytes of the body that were read
    received,  \* len of body_bytes
    cut,       \* truncated
    answer     \* "none" until http_request returns

request == <<method, url>>
response == <<place, peer, hops>>
body == <<width, sent, received, cut>>
httpVars == <<hpc, request, response, body, answer>>

HttpStages == {"canonicalize", "resolve", "send", "verify", "body", "returned", "dropped"}

Addresses == {"public", "private", "unknown"}

\* AmaError's classes, and the HttpResult.
Answers == {"response", "unavailable", "invalid_target", "redirect_error", "not_text"}

-------------------------------------------------------------------------------
(* The allowlist *)

\* The pieces of u before the first that is one of marks, and those after the first n.
Before(marks, u) == SubSeq(u, 1, Min({i \in DOMAIN u : u[i] \in marks} \cup {Len(u) + 1}) - 1)
After(n, u) == SubSeq(u, n + 1, Len(u))

Host(u) == Before(Boundaries, u)

\* Mutant: a pattern with a star matches whatever it is a prefix of.
MatchesPrefix(e, u) == IF e.wild THEN IsPrefix(e.prefix, u) ELSE u = e.prefix

\* glob_match: the star of a pattern that ends inside a host name matches from a
\* boundary on.
Matches(e, u) ==
    IF ~e.wild THEN u = e.prefix
    ELSE /\ IsPrefix(e.prefix, u)
         /\ e.prefix # <<>> /\ Last(e.prefix) \in InHost =>
               \A n \in DOMAIN u : n = Len(e.prefix) + 1 => u[n] \in Boundaries

\* The first entry that matches decides, ...
Decides(i, u) == Matches(Allowlist[i], u) /\ \A j \in 1..(i - 1) : ~Matches(Allowlist[j], u)

\* ... by its methods; and AllowlistedUrl::new takes no userinfo and no fragment.
Permitted(u, m) ==
    /\ \A i \in DOMAIN u : u[i] \notin {"@", "#"}
    /\ \E i \in DOMAIN Allowlist : Decides(i, u) /\ m \in Allowlist[i].methods

\* A path without its last segment.
Parent(path) == SubSeq(path, 1, Max({i \in DOMAIN path : path[i] = "/"} \cup {1}) - 1)

\* A path whose last segment is followed by another: one dot stands for nothing, two
\* take the segment before them away.
Entered(path) ==
    CASE IsSuffix(<<"/", ".">>, path)  -> Parent(path)
      [] IsSuffix(<<"/", "..">>, path) -> Parent(Parent(path))
      [] OTHER -> path

Normal(path) ==
    LET Extend(done, piece) == (IF piece = "/" THEN Entered(done) ELSE done) \o <<piece>>
        walked == FoldLeft(Extend, <<>>, path)
    IN  IF Entered(walked) = walked /\ path # <<>> THEN walked ELSE Entered(walked) \o <<"/">>

\* A URL as the client library spells it: the host name in lower case, no port if it is
\* the default one, and a path that is not empty and has no dot segments.
Spelt(u) ==
    LET host == Host(u)
        authority == Before({"/", "?", "#"}, u)
        port == After(Len(host), authority)
        path == Before({"?", "#"}, After(Len(authority), u))
        query == After(Len(authority) + Len(path), u)
    IN  [i \in DOMAIN host |-> LowerCase[host[i]]]
            \o (IF port \in {<<":">>, <<":", "443">>} THEN <<>> ELSE port)
            \o Normal(path) \o query

Spellings == {Spelt(u) : u \in Urls}

ASSUME SpellingAssumption == Spellings \subseteq Seq(Pieces)

-------------------------------------------------------------------------------
HttpInit ==
    /\ hpc = "canonicalize"
    /\ method = "none"
    /\ url = <<>>
    /\ place = <<>>
    /\ peer = "unknown"
    /\ hops = 0
    /\ width = 0
    /\ sent = 0
    /\ received = 0
    /\ cut = FALSE
    /\ answer = "none"

HttpReturn(a) == hpc' = "returned" /\ answer' = a

\* The request names a URL and a method that the list permits, or is refused.
Canonicalize(u, m) ==
    /\ hpc = "canonicalize"
    /\ method' = m
    /\ url' = u
    /\ place' = Spelt(u)
    /\ \/ Permitted(u, m) /\ hpc' = "resolve" /\ UNCHANGED answer
       \/ ~Permitted(u, m) /\ HttpReturn("invalid_target")
    /\ UNCHANGED <<peer, hops, body>>

\* validate_dns: no address, or one that is private, ends the call.
Resolve ==
    /\ hpc = "resolve"
    /\ \/ hpc' = "send" /\ UNCHANGED answer
       \/ HttpReturn("unavailable")
       \/ HttpReturn("invalid_target")
    /\ UNCHANGED <<request, response, body>>

\* The client library, at place: a redirect, followed or one too many; ...
Redirect ==
    /\ hpc = "send"
    /\ \/ /\ hops < MaxRedirects
          /\ hops' = hops + 1
          /\ place' \in Spellings
          /\ UNCHANGED <<hpc, answer>>
       \/ /\ hops = MaxRedirects
          /\ HttpReturn("redirect_error")
          /\ UNCHANGED <<place, hops>>
    /\ UNCHANGED <<request, peer, body>>

\* ... the head of a response, from whichever address the name has by now, and a
\* body of some sort; or an error or its timeout.
Respond ==
    /\ hpc = "send"
    /\ \/ hpc' = "verify" /\ peer' \in Addresses /\ width' \in 0..2 /\ UNCHANGED answer
       \/ HttpReturn("unavailable") /\ UNCHANGED <<peer, width>>
    /\ UNCHANGED <<request, place, hops, sent, received, cut>>

\* The final URL is another, and not listed for the request's method.
Unlisted == place # url /\ ~Permitted(place, method)

\* remote_addr and the allowlist, once the redirects are over.
Verify ==
    /\ hpc = "verify"
    /\ \/ peer # "public" /\ HttpReturn("invalid_target")
       \/ peer = "public" /\ Unlisted /\ HttpReturn("redirect_error")
       \/ peer = "public" /\ ~Unlisted /\ hpc' = "body" /\ UNCHANGED answer
    /\ UNCHANGED <<request, response, body>>

\* from_utf8 of what was kept: what was cut off may have been at fault, and a
\* character that was cut in two is.
Decode(kept, more) ==
    \/ /\ IF width = 0 THEN more ELSE kept % width = 0
       /\ HttpReturn("response")
    \/ /\ IF width = 0 THEN TRUE ELSE kept % width # 0
       /\ HttpReturn("not_text")

\* Mutant: a body that fills the buffer counts as truncated.
AppendToCap(n, kept) == received + kept = MaxResponse

\* append_bounded_bytes: bytes of the chunk were left over.
Overflows(n, kept) == kept < n

\* A chunk; what overflows the buffer ends the loop.
ReadChunk ==
    /\ hpc = "body"
    /\ \E n \in 1..(MaxSent - sent) :
          LET kept == Min({MaxResponse - received, n})
          IN  /\ sent' = sent + n
              /\ received' = received + kept
              /\ cut' = Overflows(n, kept)
              /\ IF Overflows(n, kept) THEN Decode(received + kept, TRUE)
                 ELSE UNCHANGED <<hpc, answer>>
    /\ UNCHANGED <<request, response, width>>

\* The body ends, with a whole character if it is text, or breaks off.
EndBody ==
    /\ hpc = "body"
    /\ \/ (width # 0 => sent % width = 0) /\ Decode(received, FALSE)
       \/ HttpReturn("unavailable")
    /\ UNCHANGED <<request, response, body>>

InHttp == hpc \notin {"canonicalize", "returned", "dropped"}

\* actuate's timeout or the client library's.
TimeOut ==
    /\ InHttp
    /\ HttpReturn("unavailable")
    /\ UNCHANGED <<request, response, body>>

\* The handler is dropped, and the connection with it.
HttpDrop ==
    /\ InHttp
    /\ hpc' = "dropped"
    /\ UNCHANGED <<request, response, body, answer>>

HttpRequest ==
    \/ \E u \in Urls, m \in Methods : Canonicalize(u, m)
    \/ Resolve \/ Redirect \/ Respond \/ Verify \/ ReadChunk \/ EndBody \/ TimeOut

HttpNext == HttpRequest \/ HttpDrop

-------------------------------------------------------------------------------
(* Properties *)

\* The pattern says where the host name ends: it goes beyond it, has no star, or stops
\* in it at a letter, a digit, a dot or a hyphen.
FixesHost(e) ==
    \/ ~e.wild
    \/ \E i \in DOMAIN e.prefix : e.prefix[i] \in Boundaries
    \/ e.prefix # <<>> /\ Last(e.prefix) \in InHost

\* An answer has come from a public address, and from where the list's deciding entry
\* allows the method, wherever redirects led; if that entry's pattern says where the
\* host name ends, the answer came from that very host.  And a call that met no redirect
\* is refused by the list only if the client library spells its URL otherwise.
TheListDecides ==
    /\ answer = "response" =>
          /\ peer = "public"
          /\ \E i \in DOMAIN Allowlist :
                /\ Decides(i, place) /\ method \in Allowlist[i].methods
                /\ FixesHost(Allowlist[i]) => Host(place) = Host(Allowlist[i].prefix)
    /\ answer = "redirect_error" => hops > 0 \/ Spelt(url) # url

\* An answer holds the body up to the cap, marked exactly if there was more; and
\* text is found not to be UTF-8 only if it was cut.
BodyIsFaithful ==
    /\ answer = "response" =>
          /\ received = Min({sent, MaxResponse})
          /\ cut <=> sent > MaxResponse
    /\ answer = "not_text" /\ width # 0 => cut
===============================================================================

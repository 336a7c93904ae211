---------------------------- MODULE FetchEngine ----------------------------
(***************************************************************************)
(* Fetching: origins (security/origin.cpp), the content security policy    *)
(* (security/csp_enforcer.cpp), the HTTP cache (network/http_cache.cpp)    *)
(* and FetchEngine::fetch (network/fetch_engine.cpp), over a transport and *)
(* servers whose representations change.                                   *)
(*                                                                         *)
(* A URL is a record of scheme, host (a sequence of labels), port (0 when  *)
(* none is written) and path; a source of a policy is a record of its      *)
(* kind and of the parts it names. Letter case is left out.                *)
(***************************************************************************)
EXTENDS Integers, Sequences, FiniteSets, SequencesExt

None == [none |-> TRUE]

(***************************************************************************)
(* Origins.                                                                *)
(***************************************************************************)
Authority == {"http", "https", "ws", "wss", "ftp", "file"}

DefaultPort(scheme) ==
  CASE scheme \in {"http", "ws"} -> 80 [] scheme \in {"https", "wss"} -> 443 [] scheme = "ftp" -> 21 [] OTHER -> 0

\* Two opaque origins differ; only the scheme of one is ever looked at.
Opaque == [scheme |-> "null", host |-> <<"opaque">>, port |-> 0]

OriginOf(url) ==
  IF url.scheme \notin Authority \/ url.host = <<>> THEN Opaque
  ELSE [scheme |-> url.scheme, host |-> url.host,
        port |-> IF url.port = 0 THEN DefaultPort(url.scheme) ELSE IF url.port > 65535 THEN 0 ELSE url.port]

IsOpaque(o) == o.scheme = "null"
SameOrigin(o, p) == ~IsOpaque(o) /\ ~IsOpaque(p) /\ o = p

(***************************************************************************)
(* The policy: a function from directives to lists, empty where none is.   *)
(***************************************************************************)
FetchDirectives == {"default-src", "script-src", "img-src", "connect-src"}
NoPolicy == [given |-> FALSE, list |-> [d \in FetchDirectives |-> <<>>], violations |-> <<>>]

\* A later directive of the same name takes the place of an earlier one.
WithPolicy(csp, directives) ==
  [csp EXCEPT !.given = TRUE,
     !.list = FoldLeft(LAMBDA l, d : IF d.name \in FetchDirectives THEN [l EXCEPT ![d.name] = d.sources] ELSE l,
                       @, directives)]

HostMatches(pattern, host) ==
  IF pattern # <<>> /\ pattern[1] = "*" /\ Len(pattern) > 1
  THEN Len(host) >= Len(pattern) /\ IsSuffix(Tail(pattern), host)
  ELSE pattern = host

SourceAllows(src, document, target) ==
  CASE src.kind = "*"      -> ~IsOpaque(target)
    [] src.kind = "self"   -> SameOrigin(document, target)
    [] src.kind = "inline" -> FALSE
    [] src.kind = "scheme" -> target.scheme = src.scheme
    [] src.kind = "origin" -> LET o == OriginOf(src)
                              IN  /\ ~IsOpaque(o) /\ o.scheme = target.scheme
                                  /\ HostMatches(o.host, target.host)
                                  /\ src.port # 0 => o.port = target.port
    [] src.kind = "host"   -> /\ HostMatches(src.host, target.host)
                              /\ src.port # 0 => src.port % 65536 = target.port
    [] OTHER -> FALSE

SourceListAllows(list, document, url) ==
  /\ \A i \in 1..Len(list) : list[i].kind # "none"
  /\ \E i \in 1..Len(list) : SourceAllows(list[i], document, OriginOf(url))

Allows(csp, directive, document, url) ==
  LET own  == csp.list[directive]
      list == IF own = <<>> /\ directive # "default-src" THEN csp.list["default-src"] ELSE own
  IN  csp.given /\ list # <<>> => SourceListAllows(list, document, url)

(***************************************************************************)
(* The cache, a function from URLs. Cache-Control is a set of tokens, of   *)
(* which max-age stands for one above zero.                                *)
(***************************************************************************)
Store(cache, url, resp) ==
  IF "no-store" \in resp.control THEN [cache EXCEPT ![url] = None]
  ELSE [cache EXCEPT ![url] = [response |-> resp, etag |-> resp.etag, no_cache |-> "no-cache" \in resp.control,
                               max_age |-> "max-age" \in resp.control]]

NetworkError == [type |-> "error"]

\* The directive to ask again before use is forgotten.
ServesUnasked(entry, mode) == entry.max_age /\ mode # "no-cache"   \* mutant

\* fresh: serve without touching the network. No age is kept.
Serves(entry, mode) == ~entry.no_cache /\ mode # "no-cache" /\ entry.max_age

(***************************************************************************)
(* allow of a response is the set of origins it admits.                    *)
(* fetch on an engine of a policy and a cache: answer is what a transport  *)
(* returns for a request with the validator it is given, NetworkError when *)
(* it cannot connect. The result also says whether it was asked.           *)
(***************************************************************************)
Fetch(csp, cache, request, origin, answer) ==
  LET cross     == ~SameOrigin(origin, OriginOf(request.url))
      cacheable == request.method = "GET"
      entry     == IF cacheable /\ request.mode \notin {"no-store", "reload"} THEN cache[request.url] ELSE None
      resp      == answer[IF entry # None THEN entry.etag ELSE ""]
      allowed   == ~cross \/ origin \in resp.allow
      final     == [resp EXCEPT !.type = IF cross THEN "cors" ELSE "basic"]
  IN  CASE csp.given /\ ~Allows(csp, "connect-src", origin, request.url) ->
             [response |-> NetworkError, asked |-> FALSE, cache |-> cache,
              csp |-> [csp EXCEPT !.violations = Append(@, request.url)]]
        [] OTHER ->
             IF entry # None /\ Serves(entry, request.mode)
             THEN [response |-> entry.response, asked |-> FALSE, cache |-> cache, csp |-> csp]
             ELSE IF resp = NetworkError THEN [response |-> resp, asked |-> TRUE, cache |-> cache, csp |-> csp]
             ELSE IF resp.status = 304 /\ entry # None
             THEN [response |-> entry.response, asked |-> TRUE, cache |-> cache, csp |-> csp]
             ELSE IF ~allowed THEN [response |-> NetworkError, asked |-> TRUE, cache |-> cache, csp |-> csp]
             ELSE [response |-> final, asked |-> TRUE, csp |-> csp,
                   cache |-> IF cacheable /\ request.mode # "no-store" THEN Store(cache, request.url, final) ELSE cache]
=============================================================================

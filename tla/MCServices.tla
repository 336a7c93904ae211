----------------------------- MODULE MCServices -----------------------------
(***************************************************************************)
(* The services of a page, each with a bounded world around it: pages that *)
(* fetch, documents that store, an Electron program and service workers.   *)
(***************************************************************************)
EXTENDS FetchEngine, Storage

CONSTANTS MaxVersion,    \* of the representation of a URL
          MaxFetches,    \* one after the other
          MaxWrites,     \* steps that change a store
          MaxOps,        \* of the main script and of the page, each
          MaxListeners   \* of a service worker

VARIABLE subject

-----------------------------------------------------------------------------
(* Fetches. Pages of two origins fetch two URLs from servers whose         *)
(* representations and headers change, some of the time without a          *)
(* connection.                                                             *)

Here  == [scheme |-> "https", host |-> <<"app", "site">>, port |-> 0, path |-> "x"]
Api   == [scheme |-> "http", host |-> <<"api", "site">>, port |-> 8080, path |-> "x"]
Data  == [scheme |-> "data", host |-> <<>>, port |-> 0, path |-> ""]
Urls  == {Here, Api}
Pages == {OriginOf(Here), OriginOf(Data)}

Source(kind, scheme, host, port) == [kind |-> kind, scheme |-> scheme, host |-> host, port |-> port]
Self == Source("self", "", <<>>, 0)
Site == Source("host", "", <<"*", "site">>, 8080)
Policies == {
  <<>>, <<[name |-> "default-src", sources |-> <<Self>>]>>,
  <<[name |-> "connect-src", sources |-> <<Self, Site>>], [name |-> "default-src", sources |-> <<Source("none", "", <<>>, 0)>>]>>,
  <<[name |-> "connect-src", sources |-> <<>>], [name |-> "default-src", sources |-> <<Source("scheme", "http", <<>>, 0)>>]>>,
  <<[name |-> "connect-src", sources |-> <<Source("origin", "http", <<"api", "site">>, 0), Source("none", "", <<>>, 0)>>]>>,
  <<[name |-> "connect-src", sources |-> <<Source("host", "", <<"api", "site">>, 8081), Source("inline", "", <<>>, 0), Source("*", "", <<>>, 0)>>]>>}

Representation(v, tagged, control, allow) ==
  [type |-> "", status |-> 200, version |-> v, etag |-> IF tagged THEN "tag" ELSE "", control |-> control, allow |-> allow]

Headers == {<<FALSE, {"max-age"}, Pages>>, <<TRUE, {"no-cache", "max-age"}, Pages>>, <<TRUE, {"no-store"}, Pages>>,
            <<TRUE, {}, {}>>}

Requests == {r \in [url : Urls, method : {"GET", "POST"}, mode : {"default", "no-store", "reload", "no-cache"}] :
               r.method = "POST" => r.mode = "default"}

FetchInit ==
  \E p \in Policies, o \in Pages :
    subject = [of |-> "fetch", page |-> o, fetches |-> 0,
               csp |-> IF p = <<>> THEN NoPolicy ELSE WithPolicy(NoPolicy, p),
               cache |-> [u \in Urls |-> None],
               server |-> [u \in Urls |-> Representation(1, u = Here, {}, Pages)],
               last |-> None]

FetchNext ==
  /\ subject.of = "fetch"
  /\ \/ \E u \in Urls, h \in Headers :
          /\ subject.server[u].version < MaxVersion
          /\ subject' = [subject EXCEPT !.server[u] = Representation(@.version + 1, h[1], h[2], h[3]), !.last = None]
     \/ \E r \in Requests, up \in BOOLEAN :
          /\ subject.fetches < MaxFetches
          /\ LET server == subject.server
                 \* The tag of a representation is its own.
                 Tagged == [tag \in {"", "tag"} |->
                   IF ~up THEN NetworkError
                   ELSE IF /\ tag # "" /\ server[r.url].etag # "" /\ subject.cache[r.url] # None
                           /\ subject.cache[r.url].response.version = server[r.url].version
                        THEN [server[r.url] EXCEPT !.status = 304] ELSE server[r.url]]
                 f == Fetch(subject.csp, subject.cache, r, subject.page, Tagged)
             IN  subject' = [subject EXCEPT !.csp = f.csp, !.cache = f.cache, !.fetches = @ + 1,
                               !.last = [request |-> r, response |-> f.response, asked |-> f.asked, up |-> up,
                                         stored |-> subject.cache[r.url]]]

Fresh(stored) == stored # None /\ stored.response.control = {"max-age"}

\* A page gets what the server holds now, or, when it did not insist, what was
\* stored with leave to use it unasked; a stored response never answers a POST
\* or a reload, and nothing is asked of a URL the policy keeps from it.
\* FetchEngine::fetch, HttpCache::store, CspEnforcer::allows.
FetchesAreCurrent ==
  subject.of = "fetch" /\ subject.last # None =>
    LET last == subject.last
        url  == last.request.url
        list == IF subject.csp.list["connect-src"] # <<>> THEN subject.csp.list["connect-src"]
                ELSE subject.csp.list["default-src"]
        Named(s) == CASE s.kind = "*" -> TRUE [] s.kind = "self" -> url = Here /\ ~IsOpaque(subject.page)
                      [] s.kind \in {"scheme", "origin"} -> url.scheme = s.scheme
                      [] s.kind = "host" -> url = Api /\ s.port = 8080 [] OTHER -> FALSE
        barred == \/ \E i \in 1..Len(list) : list[i].kind = "none"
                  \/ list # <<>> /\ \A i \in 1..Len(list) : ~Named(list[i])
    IN  /\ barred => ~last.asked /\ last.response = NetworkError /\ Last(subject.csp.violations) = url
        /\ last.response # NetworkError =>
             \/ last.response.version = subject.server[url].version /\ (last.asked \/ Fresh(last.stored))
             \/ /\ ~last.asked /\ Fresh(last.stored) /\ last.request.mode = "default" /\ last.request.method = "GET"
                /\ last.response = last.stored.response
        /\ last.response = NetworkError =>
             barred \/ ~last.up \/ (subject.server[url].allow = {} /\ ~SameOrigin(subject.page, OriginOf(url)))

-----------------------------------------------------------------------------
(* Stores. Documents of two origins on one host and of one on a subdomain  *)
(* write, delete and clear, and time passes. The history of what they did  *)
(* says what should be there.                                              *)

A == [scheme |-> "https", host |-> <<"site">>]
B == [scheme |-> "http", host |-> <<"site">>]
C == [scheme |-> "https", host |-> <<"sub", "site">>]
Origins == {A, B, C}
Sessions == {"s", "t"}
Url(o, path) == [scheme |-> o.scheme, host |-> o.host, path |-> path]
Paths == {<<"/">>, <<"/", "a">>, <<"/", "a", "/", "b">>}
Places == {<<"x", "k">>, <<"y", "k">>}

Attr(k, v) == [key |-> k, value |-> v]
Root == <<"/">>
Deep == <<"/", "a", "/", "b">>
Assignments == <<
  <<A, Deep, <<>>>>, <<A, Deep, <<Attr("path", Root)>>>>, <<A, Root, <<>>>>, <<C, Root, <<Attr("domain", <<"site">>), Attr("secure", "")>>>>,
  <<B, Root, <<Attr("secure", "")>>>>, <<B, Root, <<Attr("max-age", 1), Attr("samesite", "none")>>>>, <<A, Root, <<Attr("max-age", 0)>>>>,
  <<A, Root, <<Attr("domain", <<"sub", "site">>)>>>>, <<C, Root, <<Attr("path", <<"/", "a">>), Attr("domain", <<"site">>)>>>>,
  <<C, Deep, <<Attr("domain", <<"site">>), Attr("max-age", 0)>>>>, <<C, <<"/", "a">>, <<Attr("path", <<"b">>), Attr("other", "")>>>> >>

StorageInit == subject = [of |-> "storage", e |-> NewEngine(Origins, Sessions), now |-> 1, did |-> <<>>]

Does(e, event) == subject' = [subject EXCEPT !.e = e, !.did = Append(@, event)]

StorageNext ==
  /\ subject.of = "storage" /\ Len(subject.did) < MaxWrites
  /\ LET e == subject.e
         v == Len(subject.did) + 1
     IN  \/ \E k \in DOMAIN Assignments : LET a == Assignments[k] IN
              Does([e EXCEPT !.jar = FromDocument(@, Url(a[1], a[2]), subject.now, "n", v, a[3])],
                   [what |-> "assign", url |-> Url(a[1], a[2]), attrs |-> a[3], now |-> subject.now])
         \/ \E o \in {A, C} :
              Does([e EXCEPT !.jar = SetCookie(@, Url(o, <<"/">>),
                      [name |-> "n", value |-> v, domain |-> <<>>, path |-> <<>>, expires |-> 0, secure |-> FALSE,
                       http_only |-> TRUE, same_site |-> "strict"])],
                   [what |-> "header", url |-> Url(o, <<"/">>)])
         \/ \E o \in Origins : Does([e EXCEPT !.jar = DeleteCookie(@, Url(o, <<"/">>), "n")], [what |-> "delete", o |-> o])
         \/ \E o \in Origins : Does(ClearOrigin(e, o), [what |-> "clear", o |-> o])
         \/ \E o \in {B}, k \in {"k", "l"} :
              Does([e EXCEPT !.local[o] = SetItem(@, k, v), !.session[<<o, "s">>] = RemoveItem(@, k),
                             !.session[<<o, "t">>] = SetItem(@, k, v)], [what |-> "item", o |-> o, k |-> k])
         \/ \E o \in {A}, p \in Places :
              Does([e EXCEPT !.idb[o] = Put(@, p, v), !.caches[o] = Delete(@, p), !.versions[o] = OpenDatabase(@, "db", 3 - v)],
                   [what |-> "put", o |-> o, p |-> p])
         \/ subject.now = 1 /\ subject' = [subject EXCEPT !.now = 2]

(***************************************************************************)
(* What the history says: the cookie a step is about, whether it is        *)
(* accepted, and which later steps end it.                                 *)
(***************************************************************************)
LastOf(attrs, key, default) ==
  LET at == {i \in 1..Len(attrs) : attrs[i].key = key}
  IN  IF at = {} THEN default ELSE attrs[CHOOSE i \in at : \A j \in at : j <= i].value
Has(attrs, key) == \E i \in 1..Len(attrs) : attrs[i].key = key

DirectoryOf(path) == IF Len(path) <= 2 THEN <<"/">> ELSE SubSeq(path, 1, Len(path) - 2)
Accepted(d) == d.what = "header" \/ /\ d.what = "assign" /\ IsSuffix(LastOf(d.attrs, "domain", d.url.host), d.url.host)
                                    /\ Has(d.attrs, "secure") => d.url.scheme = "https"
Where(d) == IF d.what = "header" THEN <<d.url.host, <<"/">>>>
            ELSE <<LastOf(d.attrs, "domain", d.url.host),
                   LET p == LastOf(d.attrs, "path", DirectoryOf(d.url.path)) IN IF p[1] = "/" THEN p ELSE <<"/">>>>
Expires(d) == d.what = "assign" /\ LastOf(d.attrs, "max-age", 2) < 2 /\ LastOf(d.attrs, "max-age", 2) + d.now <= subject.now
Ends(d, place) ==
  \/ d.what \in {"assign", "header"} /\ Accepted(d) /\ Where(d) = place
  \/ d.what \in {"delete", "clear"} /\ IsSuffix(place[1], d.o.host)
Written == {i \in 1..Len(subject.did) :
              LET d == subject.did[i]
              IN  /\ d.what \in {"assign", "header"} /\ Accepted(d) /\ ~Expires(d)
                  /\ d.what = "assign" => LastOf(d.attrs, "max-age", 1) # 0
                  /\ \A j \in (i + 1)..Len(subject.did) : ~Ends(subject.did[j], Where(d))}

\* For a script of url: the directory of a cookie is url's path or above it.
Shown(url) == {i \in Written : LET d == subject.did[i] IN
                 /\ d.what = "assign" /\ IsSuffix(Where(d)[1], url.host)
                 /\ Where(d)[2] = <<"/">> \/ IsPrefix(Where(d)[2], url.path)
                 /\ Has(d.attrs, "secure") => url.scheme = "https"}

LastWrite(o, Wrote(_)) ==
  LET at == {i \in 1..Len(subject.did) : subject.did[i].what \in {"item", "put"} /\ subject.did[i].o = o /\ Wrote(subject.did[i])}
      i  == CHOOSE x \in at : \A y \in at : y <= x
  IN  IF at = {} \/ (\E j \in (i + 1)..Len(subject.did) : subject.did[j].what = "clear" /\ subject.did[j].o = o) THEN <<>> ELSE <<i>>

\* Each store holds the last write of each of its keys that nothing removed since:
\* a document reads the cookies of its host and directory, each once, and clearing
\* an origin empties all its stores and no other's, but for the shared cookies.
\* CookieStore::set_cookie_from_document, get_cookies, StorageEngine::clear_origin.
StoresAreLastWrites ==
  subject.of = "storage" =>
    /\ \A o \in Origins, path \in Paths :
         LET read == GetCookieString(subject.e.jar, Url(o, path), subject.now)
         IN  {read[i].value : i \in 1..Len(read)} = Shown(Url(o, path)) /\ Len(read) = Cardinality(Shown(Url(o, path)))
    /\ \A o \in Origins :
         /\ \A k \in {"k", "l"} : LET last == LastWrite(o, LAMBDA d : d.what = "item" /\ d.k = k)
                                  IN  GetItem(subject.e.local[o], k) = last /\ GetItem(subject.e.session[<<o, "t">>], k) = last
         /\ \A p \in Places : LET last == LastWrite(o, LAMBDA d : d.what = "put" /\ d.p = p)
                              IN  Get(subject.e.idb[o], p) = last /\ Count(subject.e.idb[o], p[1]) = Len(last)
         /\ subject.e.session[<<o, "s">>] = <<>> /\ Key(subject.e.local[o], 2) = <<>>

-----------------------------------------------------------------------------
(* Hosts. Bounded programs for ElectronRuntime and listeners for           *)
(* ServiceWorker.                                                          *)

E == INSTANCE ElectronRuntime
W == INSTANCE ServiceWorker

(***************************************************************************)
(* Electron: a main script and a page are written operation by operation.  *)
(***************************************************************************)
Op(do, ops) == [do |-> do, ops |-> ops]
Throw == Op("throw", <<>>)
Push(w) == [do |-> "push", w |-> w]
Listen(id, ops) == [do |-> "listen", id |-> id, ops |-> ops]
Handle(by, with, ops) == [do |-> "handle", handler |-> [by |-> by, with |-> with, ops |-> ops]]
PageInvoke(id) == [do |-> "invoke", id |-> id, then |-> <<Listen(id + 20, <<>>)>>]
MainOps(page) == {
  Op("on", <<Push("w")>>), Op("on", <<Op("job", <<Push("w")>>), Push("w"), Throw>>), Op("quit", <<>>), Throw,
  Handle("value", "result", <<Push("w")>>), Handle("value", "result", <<Op("job", <<Push("w")>>), Throw>>),
  Handle("async", "rejected", <<Op("job", <<Push("w")>>)>>), Handle("job", "result", <<Push("w")>>),
  Handle("job", "rejected", <<>>), Handle("job", "result", <<Throw>>), Handle("timer", "result", <<>>),
  [do |-> "load", w |-> "w", ops |-> page], Push("w"),
  Op("job", <<[do |-> "load", w |-> "w", ops |-> page], Throw>>),
  Op("ready", <<[do |-> "load", w |-> "w", ops |-> page], Push("w"), Throw>>)}
PageOps(id) == {
  Listen(id, <<>>), Listen(id, <<Listen(id + 10, <<>>), Throw>>), Listen(id, <<Op("job", <<Listen(id + 30, <<>>)>>)>>),
  [do |-> "send", id |-> id], Op("job", <<[do |-> "send", id |-> id]>>),
  PageInvoke(id), Op("job", <<PageInvoke(id), Throw>>), Throw}

(***************************************************************************)
(* The worker: its listeners, then its life.                               *)
(***************************************************************************)
Promise(when, value) == [when |-> when, value |-> value]
Listeners == {[type |-> t, ops |-> o] :
  t \in {"install", "activate", "fetch"},
  o \in {<<[do |-> "throw"]>>, <<[do |-> "wait", p |-> Promise("job", "a")], [do |-> "throw"], [do |-> "wait", p |-> Promise("later", "b")]>>,
         <<[do |-> "nothing"], [do |-> "respond", p |-> Promise("job", "c")], [do |-> "throw"]>>,
         <<[do |-> "respond", p |-> Promise("now", "d")], [do |-> "nothing"]>>, <<[do |-> "respond", p |-> Promise("later", "e")]>>,
         <<[do |-> "respond", p |-> Promise("job", "rejected")]>>}}

HostsInit ==
  \/ subject = [of |-> "electron", main |-> <<>>, page |-> <<>>, ran |-> E!NewRuntime({"w"})]
  \/ subject = [of |-> "worker", w |-> W!NewWorker, listeners |-> <<>>, answer |-> "unasked"]

HostsNext ==
  \/ /\ subject.of = "electron"
     /\ \/ \E op \in PageOps(Len(subject.page) + 1) :
             subject.main = <<>> /\ Len(subject.page) < MaxOps /\ subject' = [subject EXCEPT !.page = Append(@, op)]
        \/ \E op \in MainOps(subject.page) :
             /\ Len(subject.main) < MaxOps
             /\ LET script == Append(subject.main, op)
                IN  subject' = [subject EXCEPT !.main = script,
                                  !.ran = E!RunMain({"w"}, <<[do |-> "window", w |-> "w"]>> \o script)]
  \/ /\ subject.of = "worker"
     /\ \/ /\ subject.w.state = "parsed" /\ Len(subject.listeners) < MaxListeners
           /\ \E l \in Listeners, ok \in BOOLEAN :
                subject' = [subject EXCEPT !.w = W!Register(@, <<l>>, ok), !.listeners = Append(@, l)]
        \/ subject.w.state \in {"parsed", "failed"} /\ subject' = [subject EXCEPT !.w = W!Install(@)]
        \/ subject.w.state = "installed" /\ subject' = [subject EXCEPT !.w = W!Activate(@)]
        \/ subject.answer = "unasked" /\ subject.w.state = "activated" /\ LET f == W!HandleFetch(subject.w) IN subject' = [subject EXCEPT !.w = f.s, !.answer = f.answer]

(***************************************************************************)
(* A message to a page reaches the handlers the page had when it was sent, *)
(* each once and in the order of their registration, also after one that   *)
(* throws, before the sender goes on, however deep the calls between the   *)
(* realms go. Every invoke is answered: with "null" when nothing handles   *)
(* it or its handler throws or rejects; with undefined, though the handler *)
(* may be asynchronous, when its promise waits for a timer, or for a job   *)
(* while the call comes from inside a job of the main realm, whose         *)
(* checkpoint is under way; else with the result. What is thrown stays in  *)
(* its realm: a page that throws nothing runs to its end. No checkpoint    *)
(* stays marked as under way, no job of a page is left over, and of the    *)
(* main realm only those of a script that threw. main_send, renderer_send, *)
(* renderer_invoke, Interpreter::run_microtasks.                           *)
(***************************************************************************)
Throws(ops) == \E i \in DOMAIN ops : ops[i] = Throw
\* Whether a job of the main realm runs at index i of the log.
InMainJob(log, i) ==
  Cardinality({k \in 1..i : log[k] = <<"job", "main">>}) > Cardinality({k \in 1..i : log[k] = <<"done", "main">>})
Waits(handler, inJob) == ~Throws(handler.ops) /\ (handler.by = "timer" \/ (handler.by = "job" /\ inJob))
Expected(handle, inJob) ==
  IF handle = <<>> THEN "null"
  ELSE IF Waits(handle[1], inJob) THEN "undefined"
  ELSE IF Throws(handle[1].ops) \/ handle[1].with = "rejected" THEN "null" ELSE "result"

RECURSIVE OwnDeliveries(_, _)
\* The handlers that got the message pushed at index i of the log, without those of pushes inside it.
OwnDeliveries(log, i) ==
  IF log[i][1] = "pushed" THEN <<>>
  ELSE IF log[i][1] = "push"
       THEN LET inner == {j \in i + 1..Len(log) : log[j][1] = "pushed" /\
                            Cardinality({k \in i..j : log[k][1] = "push"}) = Cardinality({k \in i..j : log[k][1] = "pushed"})}
            IN  OwnDeliveries(log, (CHOOSE j \in inner : \A k \in inner : j <= k) + 1)
       ELSE (IF log[i][1] = "got" THEN <<log[i][3]>> ELSE <<>>) \o OwnDeliveries(log, i + 1)

MessagesReachHandlers ==
  subject.of = "electron" =>
    LET log == subject.ran.log
    IN  /\ \A i \in 1..Len(log) : log[i][1] = "push" =>
             OwnDeliveries(log, i + 1) = [n \in 1..Len(log[i][3]) |-> log[i][3][n].id]
        /\ \A i \in 1..Len(log) : log[i][1] = "asked" =>
             LET answers == {k \in 1..Len(log) : log[k][1] = "answer" /\ log[k][2] = log[i][2]}
             IN  Cardinality(answers) = 1 /\ \A k \in answers : log[k][3] = Expected(log[i][3], InMainJob(log, i))
        /\ Contains(log, <<"load", "w">>) /\ ~Throws(subject.page) =>
             \A n \in DOMAIN subject.page : subject.page[n].do = "listen" =>
               \E m \in DOMAIN subject.ran.listeners["w"] : subject.ran.listeners["w"][m].id = n
        /\ subject.ran.draining = {} /\ subject.ran.jobs["w"] = <<>>
        /\ ~subject.ran.thrown => /\ subject.ran.jobs["main"] = <<>>
                                  /\ \A n \in DOMAIN subject.ran.promises : subject.ran.promises[n] # "pending"

\* Every listener of an event is called, also when one before it throws; the last
\* promise given to respondWith answers, with what jobs settle it with, and nothing
\* answers before the worker is active. What was held for waiting is let go.
\* ServiceWorkerHost::dispatch_event, install, handle_fetch.
FetchesAreAnswered ==
  subject.of = "worker" =>
    LET given == [n \in 1..Len(subject.listeners) |->
                    LET l == subject.listeners[n]
                        r == SelectInSeq(l.ops, LAMBDA o : o.do = "respond")
                    IN  IF l.type = "fetch" /\ r > 0 THEN l.ops[r].p ELSE Promise("never", "none")]
        last  == SelectLastInSeq(given, LAMBDA p : p.when # "never")
    IN  /\ subject.w.state # "activated" => W!HandleFetch(subject.w).answer = "none"
        /\ subject.answer # "unasked" =>
             subject.answer = IF last = 0 THEN "none" ELSE IF given[last].when = "later" THEN "undefined"
                              ELSE IF given[last].value = "rejected" THEN "none" ELSE given[last].value
        /\ subject.w.state \in {"installed", "activated"} /\ subject.answer = "unasked" =>
             subject.w.roots = subject.listeners /\ subject.w.waits = <<>>
=============================================================================

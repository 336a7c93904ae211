------------------------------ MODULE Storage ------------------------------
(***************************************************************************)
(* The stores of a StorageEngine (storage/*.cpp): the jar of cookies that  *)
(* all origins share, and the Web Storage, databases and response caches   *)
(* of each origin.                                                         *)
(*                                                                         *)
(* A host is a sequence of labels; a path the sequence of its slashes and  *)
(* names; a URL [scheme, host, path]. The syntax of an assignment to       *)
(* document.cookie is left out: it is a name, a value and a sequence of    *)
(* attributes [key, value].                                                *)
(***************************************************************************)
EXTENDS Naturals, Sequences, FiniteSets, SequencesExt

DomainMatches(host, domain) == IsSuffix(domain, host)

PathMatches(request, path) ==
  \/ request = path
  \/ IsPrefix(path, request) /\ (path[Len(path)] = "/" \/ request[Len(path) + 1] = "/")

\* The directory of the request.
DefaultCookiePath(path) ==
  LET slashes == {i \in 1..Len(path) : path[i] = "/"}
      last    == CHOOSE i \in slashes : \A j \in slashes : j <= i
  IN  IF path = <<>> \/ path[1] # "/" \/ last = 1 THEN <<"/">> ELSE SubSeq(path, 1, last - 1)

\* The path is not part of what a cookie is.
SameName(c, d) == c.name = d.name /\ c.domain = d.domain           \* mutant
SameCookie(c, d) == c.name = d.name /\ c.domain = d.domain /\ c.path = d.path

SetCookie(jar, url, cookie) ==
  LET c  == [cookie EXCEPT !.domain = IF @ = <<>> THEN url.host ELSE @, !.path = IF @ = <<>> THEN <<"/">> ELSE @]
      at == SelectInSeq(jar, LAMBDA d : SameCookie(d, c))
  IN  IF at = 0 THEN Append(jar, c) ELSE [jar EXCEPT ![at] = c]

\* One attribute of an assignment, on [cookie, delete, ok].
WithAttribute(url, now, acc, a) ==
  LET c == acc.cookie
  IN  CASE ~acc.ok -> acc
        [] a.key = "domain" -> IF a.value # <<>> /\ DomainMatches(url.host, a.value)
                               THEN [acc EXCEPT !.cookie.domain = a.value] ELSE [acc EXCEPT !.ok = FALSE]
        [] a.key = "path"   -> [acc EXCEPT !.cookie.path = IF a.value # <<>> /\ a.value[1] = "/" THEN a.value ELSE <<"/">>]
        [] a.key = "secure" -> IF url.scheme = "https" THEN [acc EXCEPT !.cookie.secure = TRUE] ELSE [acc EXCEPT !.ok = FALSE]
        [] a.key = "samesite" -> [acc EXCEPT !.cookie.same_site = IF a.value \in {"none", "strict"} THEN a.value ELSE "lax"]
        [] a.key = "max-age"  -> IF a.value = 0 THEN [acc EXCEPT !.delete = TRUE] ELSE [acc EXCEPT !.cookie.expires = now + a.value]
        [] OTHER -> acc

FromDocument(jar, url, now, name, value, attributes) ==
  LET plain == [name |-> name, value |-> value, domain |-> url.host, path |-> DefaultCookiePath(url.path), expires |-> 0,
                secure |-> FALSE, http_only |-> FALSE, same_site |-> "lax"]
      acc   == FoldLeft(LAMBDA x, a : WithAttribute(url, now, x, a), [cookie |-> plain, delete |-> FALSE, ok |-> TRUE], attributes)
  IN  IF url.host = <<>> \/ name = "" \/ ~acc.ok THEN jar
      ELSE IF acc.delete THEN SelectSeq(jar, LAMBDA c : ~SameCookie(c, acc.cookie))
      ELSE SetCookie(jar, url, acc.cookie)

GetCookies(jar, url, now, secure_transport, same_site, script) ==
  SelectSeq(jar, LAMBDA c : /\ c.expires = 0 \/ c.expires > now
                            /\ DomainMatches(url.host, c.domain) /\ PathMatches(url.path, c.path)
                            /\ c.secure => secure_transport
                            /\ ~(c.http_only /\ script)
                            /\ same_site \/ c.same_site = "none")

GetCookieString(jar, url, now) == GetCookies(jar, url, now, url.scheme \in {"https", "wss"}, TRUE, TRUE)

DeleteCookie(jar, url, name) == SelectSeq(jar, LAMBDA c : c.name # name \/ ~DomainMatches(url.host, c.domain))
ClearHost(jar, host) == SelectSeq(jar, LAMBDA c : ~DomainMatches(host, c.domain))

(***************************************************************************)
(* Web Storage: pairs in the order in which their keys first came.         *)
(***************************************************************************)
Index(items, k) == SelectInSeq(items, LAMBDA p : p[1] = k)
GetItem(items, k) == IF Index(items, k) = 0 THEN <<>> ELSE <<items[Index(items, k)][2]>>
SetItem(items, k, v) == IF Index(items, k) = 0 THEN Append(items, <<k, v>>) ELSE [items EXCEPT ![Index(items, k)] = <<k, v>>]
RemoveItem(items, k) == IF Index(items, k) = 0 THEN items ELSE RemoveAt(items, Index(items, k))
Key(items, i) == IF i < Len(items) THEN <<items[i + 1][1]>> ELSE <<>>

(***************************************************************************)
(* Databases of object stores and caches of responses: functions from the  *)
(* places that hold something, <<container, key>>, made on first use.      *)
(***************************************************************************)
Put(records, place, v) == [p \in DOMAIN records \cup {place} |-> IF p = place THEN v ELSE records[p]]
Get(records, place) == IF place \in DOMAIN records THEN <<records[place]>> ELSE <<>>
Delete(records, place) == [p \in DOMAIN records \ {place} |-> records[p]]
Count(records, container) == Cardinality({p \in DOMAIN records : p[1] = container})

\* Databases keep the highest version they were opened with.
OpenDatabase(versions, db, version) ==
  Put(versions, db, IF db \in DOMAIN versions /\ versions[db] >= version THEN versions[db] ELSE version)

(***************************************************************************)
(* The engine: [local, session, idb, versions, caches] by origin, and jar. *)
(***************************************************************************)
Empty == [x \in {} |-> x]
NewEngine(origins, sessions) ==
  [local |-> [o \in origins |-> <<>>], session |-> [o \in origins, s \in sessions |-> <<>>],
   idb |-> [o \in origins |-> Empty], versions |-> [o \in origins |-> Empty], caches |-> [o \in origins |-> Empty],
   jar |-> <<>>]

\* Every storage type, with all sessions, and the cookies the host is sent.
ClearOrigin(e, o) ==
  [local |-> [e.local EXCEPT ![o] = <<>>],
   session |-> [p \in DOMAIN e.session |-> IF p[1] = o THEN <<>> ELSE e.session[p]],
   idb |-> [e.idb EXCEPT ![o] = Empty], versions |-> [e.versions EXCEPT ![o] = Empty],
   caches |-> [e.caches EXCEPT ![o] = Empty], jar |-> ClearHost(e.jar, o.host)]
=============================================================================

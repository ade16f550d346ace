------------------------------- MODULE Routes -------------------------------
(***************************************************************************)
(* The check-in path of internal/cli and the routes of internal/routes.    *)
(*                                                                         *)
(* Dot segments and the wildcards of http.ServeMux are left out.           *)
(***************************************************************************)
EXTENDS Text

LOCAL INSTANCE SequencesExt

\* MUTANT: at most one trailing separator is removed
TrimOneSeparator(s) ==
    IF Len(s) > 1 /\ s[Len(s)] = Separator THEN SubSeq(s, 1, Len(s) - 1) ELSE s

\* All trailing separators of a non-empty path, except the first character.
TrimSeparators(s) ==
    LET last == SelectLastInSeq(s, LAMBDA c : c # Separator)
    IN  SubSeq(s, 1, IF last = 0 THEN 1 ELSE last)

NormalizePath(raw) ==
    LET p == TrimSpace(raw)
    IN  IF p = <<>> THEN <<Separator, "checkin">>
        ELSE TrimSeparators(Rooted(p))

ValidPath(path) == path # <<Separator>>

-----------------------------------------------------------------------------
Route(method, name, handler) ==
    [method |-> method, path |-> <<Separator, name>>, handler |-> handler]

FixedRoutes ==
    <<Route("GET", "status", "Status"),
      Route("GET", "version", "Version"),
      Route("GET", "metrics", "Metrics"),
      Route("GET", "healthz", "Healthz"),
      Route("POST", "healthz", "Healthz"),
      Route("GET", "readyz", "Readyz"),
      Route("POST", "readyz", "Readyz")>>

CheckInBy(method, path) == <<[method |-> method, path |-> path, handler |-> "CheckIn"]>>

\* The patterns in the order in which NewRouter registers them.
RegisteredRoutes(path, allowGET) ==
    (IF allowGET THEN CheckInBy("GET", path) ELSE <<>>)
        \o CheckInBy("POST", path) \o FixedRoutes

\* http.ServeMux: Handle panics on a pattern that can never match, such as one
\* with an empty segment, and on a pattern that is registered already.
Unclean(path) ==
    \E i \in 1..Len(path) - 1 : path[i] = Separator /\ path[i + 1] = Separator

RegistrationPanics(routes) ==
    \/ \E i \in DOMAIN routes : Unclean(routes[i].path)
    \/ \E i, j \in DOMAIN routes :
           /\ i < j
           /\ routes[i].method = routes[j].method
           /\ routes[i].path = routes[j].path

\* http.ServeMux: the handlers of a request.  A pattern for GET matches HEAD
\* too, and one that ends with a separator all paths below it.
HandlersOf(routes, method, path) ==
    {routes[i].handler : i \in {j \in DOMAIN routes :
        /\ \/ routes[j].path = path
           \/ EndsWith(routes[j].path, <<Separator>>) /\ StartsWith(path, routes[j].path)
        /\ \/ routes[j].method = method
           \/ routes[j].method = "GET" /\ method = "HEAD"}}

\* httpprefix.MountUnderPrefix: the prefix is stripped from every request.
HandlersUnder(prefix, routes, method, target) ==
    IF StartsWith(target, prefix)
    THEN HandlersOf(routes, method, SubSeq(target, Len(prefix) + 1, Len(target)))
    ELSE {}

=============================================================================

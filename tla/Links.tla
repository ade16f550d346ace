-------------------------------- MODULE Links --------------------------------
(***************************************************************************)
(* The links of notification templates: --public-url and --route-prefix    *)
(* (internal/cli), and how internal/config builds the links from them.  An *)
(* absolute URL is an origin (scheme and host, one character here) and a   *)
(* path; queries and fragments are left out.                               *)
(***************************************************************************)
EXTENDS Text

Origin == "https://host"

NormalizePublicURL(raw) == TrimRight(TrimSpace(raw), Separator)

\* Empty, or absolute: a host is followed by a path or by nothing.
ValidPublicURL(url) ==
    LET u == TrimSpace(url)
    IN  u = <<>> \/ u = <<Origin>> \/ StartsWith(u, <<Origin, Separator>>)

\* httpprefix: a rooted path without trailing separator; empty for the root,
\* and only the path of a URL.
NormalizeRoutePrefix(raw) ==
    LET given == TrimSpace(raw)
        path  == TrimRight(IF StartsWith(given, <<Origin>>) THEN Tail(given) ELSE given,
                           Separator)
    IN  IF path = <<>> THEN <<>> ELSE Rooted(path)

JoinURLPath(base, path) ==
    LET b == TrimRight(TrimSpace(base), Separator)
        p == TrimSpace(path)
    IN  IF p \in {<<>>, <<Separator>>} THEN b ELSE b \o Rooted(p)

HasURLPathSuffix(url, path) ==
    EndsWith(TrimRight(Tail(url), Separator), TrimRight(path, Separator))

\* MUTANT: a prefix that the public URL already has is added again
PublicAppRootWithPrefix(siteRoot, routePrefix) == JoinURLPath(siteRoot, routePrefix)

PublicAppRoot(siteRoot, routePrefix) ==
    LET root   == TrimRight(TrimSpace(siteRoot), Separator)
        prefix == TrimSpace(routePrefix)
    IN  IF prefix \in {<<>>, <<Separator>>} \/ HasURLPathSuffix(root, prefix)
        THEN root
        ELSE JoinURLPath(root, prefix)

NoLinks == [siteRoot |-> <<>>, checkInURL |-> <<>>, statusURL |-> <<>>]

NewAppData(siteRoot, routePrefix, checkInPath) ==
    IF TrimSpace(siteRoot) = <<>>
    THEN NoLinks
    ELSE LET root == PublicAppRoot(siteRoot, routePrefix)
         IN  [siteRoot   |-> root,
              checkInURL |-> JoinURLPath(root, checkInPath),
              statusURL  |-> JoinURLPath(root, <<Separator, "status">>)]

=============================================================================

----------------------------- MODULE MCStartup -----------------------------
(***************************************************************************)
(* Command lines for TLC.  Each varies the flags of one concern: the path, *)
(* the links, the token or the targets.                                    *)
(***************************************************************************)
EXTENDS Startup

TextsUpTo(length, characters) == UNION {[1..n -> characters] : n \in 0..length}

Plain == [path |-> <<>>, allowGET |-> FALSE, startActive |-> FALSE,
          publicURL |-> <<>>, routePrefix |-> <<>>, authToken |-> <<>>, targets |-> {}]

\* Every --path of at most four characters; the names are a route served by
\* GET, one served by GET and POST, and no route.
PathLines ==
    {[Plain EXCEPT !.path = p, !.allowGET = g, !.startActive = a] :
        p \in TextsUpTo(4, {Separator, Space, "status", "healthz", "heartbeat"}),
        g \in BOOLEAN, a \in BOOLEAN}

PublicURLs == {<<Space>>, <<"heartbeat">>} \cup
    {<<Origin, Separator, Space, Separator, Space, Separator>>} \cup
    {<<Origin>> \o s : s \in TextsUpTo(3, {Separator, Space, "overdue", "watchdog"})}

RoutePrefixes == {<<>>, <<Separator>>, <<Separator, "overdue">>, <<"overdue", Separator>>,
                  <<Origin, Separator, "watchdog", Separator, "overdue", Separator>>,
                  <<"overdue", Space, Separator>>, <<Separator, Space, Separator>>}

LinkLines ==
    {[Plain EXCEPT !.path = p, !.publicURL = u, !.routePrefix = r] :
        p \in {<<>>, <<"overdue">>, <<"heartbeat", Space, Separator>>},
        u \in PublicURLs, r \in RoutePrefixes}

\* Tokens from one character too short to one too long.
TokenLines ==
    {[Plain EXCEPT !.authToken = t] : t \in TextsUpTo(4, {"a", "b", Space, "control"})}

Fields(key, values) == {<<key, v>> : v \in values}

HeaderFields == {<<>>} \cup
    {<<f>> : f \in Fields(<<"User-Agent">>, {"x"}) \cup {<<<<"X-Team">>>>}} \cup
    {<<f, g>> : f \in Fields(<<"X-Team">>, {"x", "y"}),
                g \in Fields(<<"X-Team">>, {"x"}) \cup Fields(<<"X-Mailer">>, {"y"})}

CustomFields == {<<>>, <<<<<<Space>>, "x">>>>} \cup
    {<<f, g>> : f \in Fields(<<"owner">>, {"x", "y"}),
                g \in Fields(<<Space, "owner">>, {"x", "y"}) \cup Fields(<<"channel">>, {"y"})} \cup
    {<<f, g, h>> : f \in Fields(<<"owner">>, {"x", "y"}), g \in Fields(<<"owner">>, {"x"}),
                   h \in Fields(<<"owner">>, {"y"}) \cup Fields(<<"channel">>, {"x", "y"})}

Targets(names, headers, customData) ==
    [kind : {"webhook", "email"}, name : names, headers : headers,
     customData : customData, sendResolved : BOOLEAN, template : SUBSET EventStatuses]

SimpleTargets ==
    {t \in Targets({"ops", "team"}, {<<>>}, {<<>>}) : "alerting" \in t.template}

\* One target with any fields, or two with any templates, or one of each name
\* and kind.
TargetLines ==
    {[Plain EXCEPT !.targets = {t}] : t \in Targets({"ops"}, HeaderFields, CustomFields)}
    \cup {[Plain EXCEPT !.targets = {s, t}] : s, t \in
             {u \in SimpleTargets : u.kind = "email" => u.name = "ops"}}
    \cup {[Plain EXCEPT !.targets = {t \in SimpleTargets :
                  t.template = EventStatuses /\ t.sendResolved = (t.kind = k)}] :
             k \in {"webhook", "email", "none"}}

AllLines ==
    PathLines \cup LinkLines \cup TokenLines \cup
        {line \in TargetLines : \A s, t \in line.targets :
            s.kind = t.kind /\ s.name = t.name => s = t}

=============================================================================

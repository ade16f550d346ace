------------------------------ MODULE Receivers ------------------------------
(***************************************************************************)
(* Notification targets, from their flags (internal/cli) to the receivers  *)
(* and the routing of events (internal/notify).                            *)
(*                                                                         *)
(* A target is one instance of the webhook or email flags.  Its headers    *)
(* and custom data are sequences of fields: <<key, value>>, or <<key>> for *)
(* a value without "=".  Its template stands for the statuses whose sample *)
(* event it renders; none if it cannot be loaded or parsed.                *)
(***************************************************************************)
EXTENDS Text

EventStatuses == {"alerting", "resolved"}

\* The version part of User-Agent and X-Mailer.
Identity == "overdue/version"

IdentityHeader(kind) == IF kind = "webhook" THEN <<"User-Agent">> ELSE <<"X-Mailer">>

-----------------------------------------------------------------------------
(* From flags to configuration.                                            *)

FieldKey(field) == TrimSpace(field[1])

FieldKeys(fields) == {FieldKey(fields[i]) : i \in DOMAIN fields}

MalformedField(field) == Len(field) # 2 \/ FieldKey(field) = <<>>

\* MUTANT: the first value of a key is kept
FirstFieldValue(fields, key) ==
    LET first == CHOOSE i \in DOMAIN fields :
                     /\ FieldKey(fields[i]) = key
                     /\ \A j \in DOMAIN fields : FieldKey(fields[j]) = key => i <= j
    IN  fields[first][2]

\* The value of the last field with a key: a map filled in the fields' order.
FieldValue(fields, key) ==
    LET last == CHOOSE i \in DOMAIN fields :
                    /\ FieldKey(fields[i]) = key
                    /\ \A j \in DOMAIN fields : FieldKey(fields[j]) = key => j <= i
    IN  fields[last][2]

KeyValueMap(fields) == [key \in FieldKeys(fields) |-> FieldValue(fields, key)]

\* MUTANT: a header may be given again in another flag value
RefusedUnlessFields(fields) == \E i \in DOMAIN fields : MalformedField(fields[i])

\* A header may be given once, in one flag value or across several.
RefusedHeaders(fields) ==
    \/ \E i \in DOMAIN fields : MalformedField(fields[i])
    \/ \E i, j \in DOMAIN fields : i # j /\ FieldKey(fields[i]) = FieldKey(fields[j])

RefusedTarget(target) ==
    \/ RefusedHeaders(target.headers)
    \/ \E i \in DOMAIN target.customData : MalformedField(target.customData[i])

\* MUTANT: the map is made anew for the identity header
IdentityAlone(kind, headers) == [key \in {IdentityHeader(kind)} |-> Identity]

\* The identity header replaces a configured one.
WithIdentity(kind, headers) ==
    [key \in DOMAIN headers \cup {IdentityHeader(kind)} |->
        IF key = IdentityHeader(kind) THEN Identity ELSE headers[key]]

TargetConfig(target) ==
    [kind         |-> target.kind,
     name         |-> target.name,
     headers      |-> WithIdentity(target.kind, KeyValueMap(target.headers)),
     customData   |-> KeyValueMap(target.customData),
     sendResolved |-> target.sendResolved,
     template     |-> target.template]

-----------------------------------------------------------------------------
(* From configuration to receivers and routing.                            *)

ReceiverID(config) == <<config.kind, config.name>>

\* validateWebhookTarget, validateEmailTarget: both samples must render.
ValidTarget(config) == EventStatuses \subseteq config.template

\* webhookReceiver, emailReceiver: headers and custom data are copied.
Receiver(config) ==
    [kind       |-> config.kind,
     name       |-> config.name,
     headers    |-> config.headers,
     customData |-> config.customData,
     template   |-> config.template]

\* The receivers by ID.
BuiltReceivers(configs) ==
    [id \in {ReceiverID(c) : c \in configs} |->
        Receiver(CHOOSE c \in configs : ReceiverID(c) = id)]

ResolvedReceivers(configs) == {ReceiverID(c) : c \in {d \in configs : d.sendResolved}}

\* MUTANT: resolved events are routed like alerts when no receiver wants them
RoutesToNobody(status, resolved) ==
    IF status = "alerting" THEN [ids |-> {}, ok |-> TRUE] ELSE [ids |-> resolved, ok |-> TRUE]

\* ids is nil when the event is not restricted to some receivers.
ReceiverIDsForEvent(status, resolved) ==
    IF status = "alerting" THEN [ids |-> {}, ok |-> TRUE]
    ELSE IF resolved = {} THEN [ids |-> {}, ok |-> FALSE]
    ELSE [ids |-> resolved, ok |-> TRUE]

\* notifykit: a notification that names no receivers goes to all of them.
Addressed(ids, receivers) == IF ids = {} THEN DOMAIN receivers ELSE ids

\* The receivers that get an event of a status; none if it is not enqueued.
Recipients(status, receivers, resolved) ==
    LET route == ReceiverIDsForEvent(status, resolved)
    IN  IF route.ok THEN Addressed(route.ids, receivers) ELSE {}

=============================================================================

------------------------------ MODULE MCReports -----------------------------
EXTENDS Reports

CONSTANTS k1, k2, t1, t2, s1, q1, q2, None

MCExtras ==
    {NewProviderByType("groq", [type |-> "openai", prefix |-> None, upstream |-> <<"openai">>], None),
     NewProviderByType("azure", [type |-> "azure", prefix |-> None, upstream |-> None], None),
     NewProviderByType("cohere", [type |-> "cohere", prefix |-> None, upstream |-> None], None)}

MCMappings == <<[pattern |-> {k1}, tenant |-> t1], [pattern |-> {k1, k2}, tenant |-> t2]>>

call(path, model) ==
    [path |-> path, model |-> model, version |-> FALSE, tenant |-> NoTenant, session |-> NoSession,
     bearer |-> NoKey, xApiKey |-> NoKey, goog |-> NoKey, apiKey |-> NoKey]

mini     == <<"gpt-", "4", "o", "-mini">>
unlisted == <<"unlisted">>
claude   == <<"claude", "-next">>

chat == [call(<<"v1", "chat", "completions">>, mini) EXCEPT !.bearer = k1]

MCTraffic ==
    q1 :> {[call(<<"v1", "responses">>, gpt4) EXCEPT !.bearer = k2, !.tenant = t1],
           [call(<<"v1", "messages">>, claude) EXCEPT !.xApiKey = k2, !.version = TRUE,
                                                     !.session = s1],
           [call(<<"groq", "v1", "chat", "completions">>, unlisted) EXCEPT !.bearer = k2],
           [call(<<"azure", "openai", "deployments", "d">>, mini) EXCEPT !.apiKey = k1],
           [call(<<"cohere", "v2", "chat">>, unlisted) EXCEPT !.bearer = EmptyBearer, !.goog = k2],
           call(<<"v1", "files">>, NoModel),
           call(<<"groq">>, NoModel)}
    @@ q2 :> {chat}

report(kind, by, tenant) == [kind |-> kind, by |-> by, tenant |-> tenant]

MCQueries ==
    "sqlite" :> {report("summary", "model", AnyTenant), report("status", "key", AnyTenant),
                 report("keys", "key", AnyTenant), report("costs", "model", t1),
                 report("cli", "key", t2), report("timeseries", "hour", t1), report("tokens", "day", AnyTenant),
                 report("expensive", "", AnyTenant), report("stats", "", AnyTenant),
                 report("latency", "", AnyTenant), report("history", "active", AnyTenant)}
    @@ "postgres" :> {report("status", "key", AnyTenant), report("latency", "", AnyTenant),
                      report("costs", "key", AnyTenant)}
=============================================================================

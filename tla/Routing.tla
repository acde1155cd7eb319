------------------------------ MODULE Routing -------------------------------
(***************************************************************************)
(* Whose request is it: which provider serves it (internal/provider), by   *)
(* which key and tenant it is accounted (internal/tenant), and which       *)
(* handler of the server's mux gets it (cmd/agentledger/serve.go).         *)
(*                                                                         *)
(* A path is the sequence of its segments.  A request is a record of its   *)
(* path and of the headers that are looked at.                             *)
(***************************************************************************)
EXTENDS RuleMatch, SequencesExt

CONSTANTS NoKey, NoTenant, NoProvider

\* A provider: its name, the Go type behind it, the path prefix it serves
\* and the base path of its upstream URL.
provider(name, style, prefix, base) ==
    [name |-> name, style |-> style, prefix |-> prefix, base |-> base]

\* An entry of config.Extra: prefix and upstream may be left out (None).
\* NewProviderByType: Azure, Gemini and Cohere have prefixes of their own,
\* an Anthropic provider has none, an unknown type needs an upstream.
NewProviderByType(name, pc, None) ==
    LET base   == IF pc.upstream = None THEN <<>> ELSE pc.upstream
        prefix == IF pc.prefix = None THEN <<name>> ELSE pc.prefix
    IN  CASE pc.type = "openai"    -> provider(name, "openai", prefix, base)
          [] pc.type = "anthropic" -> provider("anthropic", "anthropic", <<>>, base)
          [] pc.type \in {"azure", "gemini", "cohere"} ->
                provider(pc.type, pc.type, <<pc.type>>, base)
          [] OTHER -> IF pc.upstream = None THEN NoProvider
                      ELSE provider(name, "openai", prefix, base)

\* NewRegistry: OpenAI and Anthropic, then what the enabled extras make, in the
\* order in which the map of the configuration happens to be iterated.
NewRegistry(openai, anthropic, extras) ==
    (IF openai THEN <<provider("openai", "openai", <<>>, <<>>)>> ELSE <<>>)
    \o (IF anthropic THEN <<provider("anthropic", "anthropic", <<>>, <<>>)>> ELSE <<>>)
    \o extras

under(prefix, path) == IsPrefix(prefix, path) /\ Len(path) > Len(prefix)

openaiMatch(p, r) ==
    \/ under(p.prefix \o <<"v1", "chat">>, r.path)
    \/ \E api \in {"completions", "embeddings", "models", "responses"} :
          IsPrefix(p.prefix \o <<"v1", api>>, r.path)

anthropicMatch(r) ==
    IsPrefix(<<"v1", "messages">>, r.path) /\ (r.version \/ r.xApiKey # NoKey)

azureMatch(p, r) == under(p.prefix \o <<"openai", "deployments">>, r.path)

Match(p, r) ==
    CASE p.style = "openai"    -> openaiMatch(p, r)
      [] p.style = "anthropic" -> anthropicMatch(r)
      [] p.style = "azure"     -> azureMatch(p, r)
      [] OTHER                 -> under(p.prefix, r.path)   \* Gemini and Cohere

\* The first match in the order of registration.
Detect(registry, r) == first(registry, LAMBDA p : Match(p, r), NoProvider)

PathPrefixes(registry) == {p.prefix : p \in ToSet(registry)} \ {<<>>}

\* The mux: /v1/ and the providers' prefixes go to the proxy, /metrics, /mcp/
\* and the API paths elsewhere, the rest to the dashboard; patterns are
\* disjoint, so that the longest one that fits is the only one but "/".
routed(registry, path) ==
    \/ path = <<"health">>
    \/ \E prefix \in PathPrefixes(registry) \cup {<<"v1">>} : under(prefix, path)

\* rewrite: SetURL puts the upstream's base path in front, and only then is
\* the provider's prefix trimmed - off the start of the joined path.
rewrite(p, path) ==
    LET joined == p.base \o path
    IN  IF p.prefix # <<>> /\ IsPrefix(p.prefix, joined)
        THEN SubSeq(joined, Len(p.prefix) + 1, Len(joined))
        ELSE joined

-----------------------------------------------------------------------------
(* Keys and tenants.  A bearer header is a key, NoKey (none, or another    *)
(* scheme), or the word "Bearer " with nothing behind it.                  *)

EmptyBearer == "Bearer "

firstKey(keys) == first(keys, LAMBDA k : k # NoKey, NoKey)

\* ExtractAPIKey: an empty bearer token ends the search.
ExtractAPIKey(r) ==
    IF r.bearer = EmptyBearer THEN NoKey
    ELSE firstKey(<<r.bearer, r.xApiKey, r.goog, r.apiKey>>)

\* extractRawKey: an empty bearer token is passed over, and Azure's api-key
\* header is not looked at.
extractRawKey(r) ==
    firstKey(<<IF r.bearer = EmptyBearer THEN NoKey ELSE r.bearer, r.xApiKey, r.goog>>)

\* ConfigResolver: the first mapping whose pattern, the set of keys it
\* matches, has the key.
configTenant(mappings, r) ==
    first(mappings, LAMBDA m : extractRawKey(r) \in m.pattern, [tenant |-> NoTenant]).tenant

\* The chain serve.go builds: the header first, then the mappings.
ResolveTenant(enabled, mappings, r) ==
    IF ~enabled THEN NoTenant
    ELSE IF r.tenant # NoTenant THEN r.tenant
    ELSE configTenant(mappings, r)
=============================================================================

---------------------------- MODULE EgressPolicy ----------------------------
(***************************************************************************)
(* core/ai_egress.py: where a request to an AI provider may go.  A URL is  *)
(* a record of its parts, a path the sequence of its segments; a spelling  *)
(* that the code refuses whatever the policy says (user information, a     *)
(* fragment, an escape, white space, a numeric or malformed host name) is  *)
(* "odd".                                                                  *)
(***************************************************************************)
EXTENDS Integers, Sequences, FiniteSets, SequencesExt

CONSTANTS
    Fixed,          \* FIXED_PROVIDER_DESTINATIONS; a provider is its own host
    SelfHosted,     \* AI_EGRESS_MODE = self_hosted
    AllowedUrls,    \* AI_EGRESS_ALLOWED_BASE_URLS
    Addresses,      \* addresses a name may resolve to, as records Address
    NoUrl           \* None, and what a refused URL is normalised to

ASSUME EgressAssumption ==
    /\ SelfHosted \in BOOLEAN
    /\ "ollama" \notin Fixed

Providers == Fixed \cup {"ollama"}

\* An address by what the policy asks of it: its class, whether it is an
\* IPv6 address with a scope or one that stands for an IPv4 address, and
\* whether some network of AI_EGRESS_ALLOWED_CIDRS contains it.
Address ==
    [class : {"global", "private", "loopback", "shared", "link_local",
              "multicast", "unspecified", "reserved"},
     scoped : BOOLEAN, allowed : BOOLEAN]

DefaultPort(scheme) == IF scheme = "http" THEN 80 ELSE 443

NoPort == 0

-----------------------------------------------------------------------------
(* Normalisation                                                           *)

\* Path segments after the leading slash; a trailing slash is an empty last
\* segment.
NormalPath(path) == SelectSeq(path, LAMBDA s : s # "")

PathRefused(path) ==
    \/ \E i \in DOMAIN path : path[i] \in {".", ".."}
    \/ \E i \in 1..(Len(path) - 1) : path[i] = ""

\* _normalise_url
Normalise(url, allowQuery) ==
    IF \/ url = NoUrl
       \/ url.odd
       \/ url.scheme \notin {"http", "https"}
       \/ url.query /\ ~allowQuery
       \/ PathRefused(url.path)
    THEN NoUrl
    ELSE [scheme |-> url.scheme, host |-> url.host,
          port |-> IF url.port = NoPort THEN DefaultPort(url.scheme) ELSE url.port,
          path |-> NormalPath(url.path)]

AllowedBases == {Normalise(u, FALSE) : u \in AllowedUrls}

-----------------------------------------------------------------------------
(* Addresses                                                               *)

\* _is_permitted_address_class.  An IPv4-mapped address is judged by the
\* address it stands for, so it has the class of that one.
PermittedClass(a, internal) ==
    /\ ~a.scoped
    /\ \/ a.class = "global"
       \/ internal /\ a.class \in {"loopback", "private"}

\* _validated_addresses: every answer has to be good.
Permitted(answers, configurable) ==
    LET internal == configurable /\ SelfHosted IN
    /\ answers # {}
    /\ \A a \in answers : PermittedClass(a, internal) /\ (internal => a.allowed)

-----------------------------------------------------------------------------
(* The policy                                                              *)

\* _configurable_base
ConfigurableBase(base) ==
    LET b == Normalise(base, FALSE) IN IF b \in AllowedBases THEN b ELSE NoUrl

\* _require_under_base
UnderBase(d, b) ==
    /\ d.scheme = b.scheme
    /\ d.host = b.host
    /\ d.port = b.port
    /\ IsPrefix(b.path, d.path)

\* The origin and the base path of a fixed provider.
FixedBase(p) == [scheme |-> "https", host |-> p, port |-> 443, path |-> <<"v1">>]

\* validate_config, at save time; dns is what the names resolve to now.
ValidConfig(provider, base, dns) ==
    IF provider \in Fixed THEN base = NoUrl
    ELSE LET b == ConfigurableBase(base)
         IN  b # NoUrl /\ Permitted(dns[b.host], TRUE)

\* The URL that the providers and list_models build.
RequestUrl(provider, base) ==
    IF provider \in Fixed
    THEN [scheme |-> "https", host |-> provider, port |-> NoPort,
          path |-> <<"v1", "chat">>, query |-> FALSE, odd |-> FALSE]
    ELSE IF base = NoUrl THEN NoUrl
    ELSE [base EXCEPT !.path = NormalPath(@) \o <<"api", "chat">>]

\* prepare_request: the destination, or NoUrl when it is refused.
Destination(provider, base) ==
    LET d == Normalise(RequestUrl(provider, base), TRUE)
        b == IF provider \in Fixed
             THEN IF base = NoUrl THEN FixedBase(provider) ELSE NoUrl
             ELSE ConfigurableBase(base)
    IN  IF d # NoUrl /\ b # NoUrl /\ UnderBase(d, b) THEN d ELSE NoUrl

Prepared(provider, base, dns) ==
    LET d == Destination(provider, base)
    IN  d # NoUrl /\ Permitted(dns[d.host], provider \notin Fixed)
=============================================================================

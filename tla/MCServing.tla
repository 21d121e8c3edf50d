----------------------------- MODULE MCServing -----------------------------
(* Projects for module Serving: each differs from a plain one in what one    *)
(* question needs.                                                           *)
EXTENDS Serving, TLC

CONSTANTS alice, bob, theme, hotfix

MCPorts == 8080..8083

\* A descriptor at the top that says nothing more than its kind.
Descriptor(name) ==
  [NoMetadata EXCEPT !.type = IF name = "yaml" THEN "service" ELSE "unset"] @@
  [file |-> name, top |-> TRUE]

Contents(files) == [files |-> files, docker |-> "top"]

\* A client extension with a Dockerfile, on port 8080 unless it says otherwise.
Ext(id, lcp) ==
  Scanned(id, [built |-> Contents(<<Descriptor("yaml"), lcp>>), unpacked |-> NoContents], 1)

LCP == Descriptor("LCP.json")

Custom(name) == [name |-> name, image |-> TRUE, needs |-> {}, ports |-> {}, mounts |-> {},
                 answersOn |-> 80, scale |-> 1]

Plain ==
  [host |-> "localhost", ssl |-> "unset", modeArg |-> "unset", mode |-> "unset",
   old |-> FALSE, defaultMode |-> "isolated", search |-> "unset", useShared |-> FALSE,
   defaultSearch |-> "sidecar", jdbcUrl |-> "unset", engine |-> "postgresql",
   jdbcEnv |-> FALSE, esConfig |-> FALSE, exts |-> {}, customs |-> {}, port |-> 8080,
   scale |-> 1, scaleDb |-> 1, persistOsgi |-> FALSE, kibana |-> FALSE, expose |-> FALSE,
   ngrokToken |-> FALSE, share |-> FALSE, provider |-> "unset", providerArg |-> "unset",
   tunnelToken |-> FALSE, inspector |-> FALSE, configsDir |-> TRUE,
   domainArg |-> "unset", domain |-> "unset", globalDomain |-> "unset",
   gatewayEnv |-> "unset", announced |-> "unset", ownDomains |-> <<>>,
   advertised |-> <<>>, tunnelCors |-> FALSE, archetype |-> "none", lean |-> FALSE,
   memory |-> 16384, heap |-> <<>>, heapArgs |-> <<>>,
   noUp |-> FALSE, patches |-> {}, initializers |-> {}, commands |-> 1, others |-> FALSE]

Behind == [Plain EXCEPT !.host = "portal.local"]

\* What is only generated: modes of databases and search, old and new.
Databases ==
  {[Plain EXCEPT !.noUp = TRUE, !.engine = engine, !.jdbcUrl = url, !.mode = mode,
                 !.modeArg = arg, !.old = old, !.defaultMode = default, !.jdbcEnv = env] :
     engine \in Engines, url \in {"unset", "mysql"}, mode \in {"unset", "shared"},
     arg \in {"unset", "isolated", "external"}, old \in BOOLEAN,
     default \in {"isolated", "shared"}, env \in BOOLEAN}

Searches ==
  {[Plain EXCEPT !.noUp = TRUE, !.search = search, !.useShared = shared, !.old = old,
                 !.defaultSearch = default, !.esConfig = config, !.configsDir = dir] :
     search \in {"unset", "shared", "sidecar"}, shared, old, config, dir \in BOOLEAN,
     default \in {"shared", "sidecar"}}

\* Containers beside the portal.
Helpers ==
  {[project EXCEPT !.noUp = TRUE, !.kibana = kibana, !.expose = expose, !.ngrokToken = TRUE,
                   !.share = share, !.tunnelToken = TRUE, !.provider = provider,
                   !.archetype = archetype, !.scale = scale,
                   !.customs = {Custom("redis"),
                                [Custom("worker") EXCEPT !.needs = {"redis"}, !.mounts = {"jobs"}]}] :
     project \in {Plain, Behind}, kibana, expose, share \in BOOLEAN,
     provider \in {"unset", "lfr-tunnel-docker"},
     archetype \in {"none", "keycloak-sso"}, scale \in {1, 2}}

\* Domains for a tunnel: one or two that are known, one of a gateway of the
\* user's own, one that is nobody's.
Tunnels ==
  {[Plain EXCEPT !.noUp = TRUE, !.engine = "hypersonic", !.share = TRUE,
                 !.tunnelToken = TRUE, !.provider = "lfr-tunnel-docker",
                 !.domainArg = arg, !.domain = recorded, !.globalDomain = global,
                 !.gatewayEnv = env, !.announced = announced, !.ownDomains = own,
                 !.advertised = <<"se", "edge">>] :
     arg \in {"unset", "default", "se", "edge", "vanity", HostOnSe},
     recorded \in {"unset", "se", "vanity"}, global \in {"unset", "se", "edge"},
     env \in {"unset", "edge", "own"}, announced \in {"unset", "edge"},
     own \in {<<>>, <<"own", "se">>}}

Clustered == [Plain EXCEPT !.noUp = TRUE, !.archetype = "clustered"]

\* Two extensions that want one port of the host.
Extended ==
  {[project EXCEPT !.engine = engine, !.commands = IF project = Plain THEN 3 ELSE 2,
                   !.others = (project = Plain),
                   !.exts = {Ext("etc", LCP),
                             Ext("spa", [LCP EXCEPT !.probe = TRUE,
                                           !.ports = <<[port |-> 8080, external |-> FALSE],
                                                       [port |-> 8082, external |-> TRUE]>>])}] :
     project \in {Plain, Behind}, engine \in {"hypersonic"}}

\* An extension built anew: its descriptors in any order, at the top or below,
\* over what an earlier build of it left.
Reports == Descriptor("config")
Earlier == {NoContents, Contents(<<LCP>>),
            Contents(<<[LCP EXCEPT !.ports = <<[port |-> 8081, external |-> TRUE]>>]>>)}

Rebuilt ==
  {[Plain EXCEPT !.noUp = TRUE, !.engine = "hypersonic",
                 !.exts = {Scanned("etc", [built |-> [files |-> found, docker |-> docker],
                                           unpacked |-> earlier], 1)}] :
     earlier \in Earlier, docker \in {"none", "top", "below"},
     found \in UNION {{<<Descriptor("yaml"), lcp>>, <<lcp, Reports, Descriptor("yaml")>>,
                       <<lcp>>, <<[lcp EXCEPT !.top = FALSE], lcp>>,
                       <<[lcp EXCEPT !.top = FALSE]>>} :
                        lcp \in {LCP, [LCP EXCEPT !.kind = "Job"], [LCP EXCEPT !.deploy = FALSE],
                                 [LCP EXCEPT !.erc = "lcp", !.balancer = 8082,
                                    !.ports = <<[port |-> 8081, external |-> FALSE]>>]}}}

\* Projects that are served.
Served ==
  {[Plain EXCEPT !.engine = "hypersonic", !.commands = 3],
   [Plain EXCEPT !.patches = {hotfix, theme}, !.commands = 3],
   [Plain EXCEPT !.engine = "hypersonic", !.initializers = {theme}, !.commands = 3]}

MCConfigs == Databases \cup Searches \cup Helpers \cup Tunnels \cup {Clustered} \cup Extended \cup Rebuilt \cup Served

\* What the proofs ask of a project is so of these.
ASSUME UsualProjects == \A k \in Configs : Usual(k)

MCSymmetry == Permutations({alice, bob})
=============================================================================

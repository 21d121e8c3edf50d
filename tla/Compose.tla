------------------------------ MODULE Compose ------------------------------
(***************************************************************************)
(* What `ldm run` writes to docker-compose.yml: handlers/composer.py, with *)
(* the resolution of modes it leans on.  A function from settings to a     *)
(* file; module Serving says when it is evaluated and with which ports.    *)
(*                                                                         *)
(* A setting that is not given is "unset".  `c` is what a run knows of a   *)
(* project: its arguments, metadata, defaults and the client extensions    *)
(* that are there.  A file is a function from the names of services to     *)
(* what other parts rely on: which services each waits for, which ports of *)
(* the host it publishes, which volumes it mounts, whom it talks to.       *)
(***************************************************************************)
EXTENDS Integers, Sequences, FiniteSets, Extensions

\* The key wins that is asked first: the argument, the metadata, the default.
Given(x, y) == IF x # "unset" THEN x ELSE y

-----------------------------------------------------------------------------
(* Modes                                                                   *)

Servers == {"postgresql", "mysql", "mariadb"}
Engines == Servers \cup {"hypersonic", "external"}
Modes == {"isolated", "shared", "external"}

\* _is_ssl_active: never for plain localhost, whatever was asked.
SslActive(c) == c.host # "localhost" /\ Given(c.ssl, "on") = "on"

\* resolve_infrastructure_mode("database_mode", ..)
DatabaseMode(c) ==
  Given(c.modeArg, Given(c.mode, IF c.old THEN "isolated" ELSE c.defaultMode))

\* resolve_infrastructure_mode("search_mode", ..): `use_shared_search` comes
\* before the version, so that it carries over what older versions recorded.
SearchMode(c) ==
  Given(c.search, IF c.useShared THEN "shared"
                  ELSE IF c.old THEN "sidecar" ELSE c.defaultSearch)

\* infer_db_engine_from_jdbc_url
EngineOfUrl(c) ==
  CASE c.jdbcUrl = "postgresql" -> "postgresql"
    [] c.jdbcUrl \in {"mysql", "mariadb"} -> "mysql"
    [] OTHER -> "external"

\* normalize_database_selection: two engines imply their mode.
DatabaseOf(c) ==
  CASE c.engine = "hypersonic" -> [engine |-> "hypersonic", mode |-> "embedded"]
    [] c.engine = "external" -> [engine |-> EngineOfUrl(c), mode |-> "external"]
    [] OTHER -> [engine |-> c.engine, mode |-> DatabaseMode(c)]

\* The run dies with exit 1 on a pair that is not in DB_ENGINE_MODES.
Accepted(c) == c.engine \in Servers => DatabaseMode(c) \in Modes

-----------------------------------------------------------------------------
(* Names on the network                                                    *)

Portal == <<"liferay">>
Database == <<"project", "db">>
KibanaName == <<"kibana">>
NgrokName == <<"ngrok">>
TunnelName == <<"lfr-tunnel">>
ExtName(e) == <<"project", e.id>>
CustomName(k) == <<k.name>>

Global(service) == <<"global", service>>
SharedServer(engine) == IF engine \in Servers THEN engine ELSE "postgresql"

\* What the settings of the user name, and nothing of LDM has to provide.
Elsewhere == <<"elsewhere">>

ServiceExts(c) == {e \in c.exts : e.service}

\* _resolve_container_port: the first external port, else the load balancer's.
ContainerPort(e) ==
  LET info == e.says
      external == {i \in DOMAIN info.ports : info.ports[i].external}
  IN  IF external # {}
      THEN info.ports[CHOOSE i \in external : \A j \in external : i <= j].port
      ELSE IF info.balancer # 0 THEN info.balancer ELSE 8080

\* _resolve_and_persist_cx_port: where the search for a port of the host begins.
WantedPort(e) ==
  LET info == e.wants
  IN  IF info.ports # <<>> THEN info.ports[1].port
      ELSE IF info.balancer # 0 THEN info.balancer ELSE 8080

-----------------------------------------------------------------------------
(* Memory                                                                  *)

\* _adaptive_tuning, in MB: a tier for each size of the machine (or of the
\* Docker engine, if that has less), its upper one in whole gigabytes.
Largest(x, y) == IF x >= y THEN x ELSE y
Smallest(x, y) == IF x <= y THEN x ELSE y

Heap(low, high, metaspace) ==
  [min |-> low, max |-> high, new |-> Largest(512, (high * 33) \div 100),
   metaspace |-> metaspace]

CalculatedHeap(mb) ==
  LET half == mb \div 2048
      quarter == mb \div 4096
  IN  CASE mb <= 4096 -> Heap(1024, 2048, 384)
        [] mb > 4096 /\ mb <= 8192 -> Heap(2048, 3072, 512)
        [] OTHER ->
             Heap(1024 * Smallest(Largest(2, quarter), 4),
                  1024 * Smallest(Largest(4, half), IF mb < 24576 THEN 12 ELSE 32),
                  IF mb <= 16384 THEN 768 ELSE 1024)

\* The "lean" profile has no size for the new generation: 0.
LeanHeap == [min |-> 1536, max |-> 2048, new |-> 0, metaspace |-> 512]

\* When nothing about the machine can be found out.
FallbackHeap == [min |-> 4096, max |-> 12288, new |-> 0, metaspace |-> 768]

\* _resolve_tuning: settings replace single values of the profile, project
\* metadata those of `ldm config`, arguments both; what cannot be read as a
\* size is left out of them.
Tuning(c) ==
  LET base == CASE c.lean -> LeanHeap
                [] ~c.lean /\ c.memory = 0 -> FallbackHeap
                [] OTHER -> CalculatedHeap(c.memory)
  IN  [key \in DOMAIN base |->
         IF key \in DOMAIN c.heapArgs THEN c.heapArgs[key]
         ELSE IF key \in DOMAIN c.heap THEN c.heap[key] ELSE base[key]]

-----------------------------------------------------------------------------
(* The portal                                                              *)

\* _write_shared_search_config: what the portal goes by.  The variables that are
\* set beside it have no effect, and a directory that cannot be made only warns.
WritesSearchConfig(c) == SearchMode(c) = "shared" /\ c.configsDir

\* The run and the composer each ask for the mode; `--sidecar` only reaches
\* the composer because the run has stored what it made of it.
SearchHost(c) ==
  CASE WritesSearchConfig(c) -> Global("search")
    [] SearchMode(c) # "shared" /\ c.esConfig -> Elsewhere
    [] OTHER -> Portal

DatabaseHost(c) ==
  LET db == DatabaseOf(c)
  IN  CASE c.jdbcEnv \/ db.mode = "external" -> Elsewhere
        [] ~c.jdbcEnv /\ db.mode = "embedded" -> Portal
        [] ~c.jdbcEnv /\ db.mode = "shared" -> Global(SharedServer(db.engine))
        [] OTHER -> Database

\* LIFERAY_ROUTES_CLIENT_EXTENSION_<ID>
Routes(c) == {[host |-> ExtName(e), port |-> ContainerPort(e)] : e \in ServiceExts(c)}

\* Behind the proxy the portal publishes nothing.
PortalPorts(c) == IF SslActive(c) THEN {} ELSE {c.port}

OwnsDatabase(c) == DatabaseOf(c).mode = "isolated"

Healthy == "service_healthy"
Started == "service_started"

\* Only what other definitions ask of a service is in its record.
Service(needs, ports, mounts, healthcheck, answersOn, replicas) ==
  [needs |-> needs, ports |-> ports, mounts |-> mounts,
   healthcheck |-> healthcheck, answersOn |-> answersOn, replicas |-> replicas]

WaitFor(names, condition) == [s \in names |-> condition]

\* What decides whether `up` replaces the portal's container is its `reindex`;
\* everything else of its settings stays.
PortalService(c) ==
  Service(IF OwnsDatabase(c) THEN WaitFor({Database}, Healthy) ELSE <<>>,
          PortalPorts(c),
          {"data"} \cup (IF c.scale = 1 /\ ~c.persistOsgi THEN {"state"} ELSE {}),
          TRUE, 8080, c.scale)

-----------------------------------------------------------------------------
(* The other services                                                      *)

DatabasePort(engine) == IF engine = "postgresql" THEN 5432 ELSE 3306

DatabaseService(c) ==
  Service(<<>>, {}, {"db-data"}, TRUE, DatabasePort(DatabaseOf(c).engine), c.scaleDb)

\* Mutant: the ports that the extensions asked for.
ExtPortsAsWanted(c, e, ports) == IF SslActive(c) THEN {} ELSE {ContainerPort(e)}

\* Without a proxy an extension is reached through a port of the host; `ports`
\* is what the scan found for it.
ExtPorts(c, e, ports) == IF SslActive(c) THEN {} ELSE {ports[e.id]}

\* Waits for the portal; a probe becomes a healthcheck.
ExtService(c, e, ports) ==
  Service(WaitFor({Portal}, Healthy), ExtPorts(c, e, ports), {},
          e.says.probe, ContainerPort(e), e.scale)

\* What the container itself declares comes first; otherwise it waits for the
\* portal.  Entries without an image or a name are passed over.
CustomService(k) ==
  Service(IF k.needs # {} THEN WaitFor({<<n>> : n \in k.needs}, Started)
          ELSE WaitFor({Portal}, Healthy),
          k.ports, k.mounts, FALSE, k.answersOn, k.scale)

KibanaService == Service(<<>>, {5601}, {}, FALSE, 5601, 1)

NgrokService == Service(<<>>, {}, {}, FALSE, 4040, 1)

TunnelService(c) ==
  Service(WaitFor({Portal}, Healthy), IF c.inspector THEN {4040} ELSE {},
          {}, FALSE, 4040, 1)

TunnelProvider(c) == Given(c.providerArg, Given(c.provider, "lfr-tunnel"))

HasTunnel(c) ==
  c.share /\ TunnelProvider(c) = "lfr-tunnel-docker" /\ c.tunnelToken

-----------------------------------------------------------------------------
(* The tunnel's address, which the portal and the sidecar each work out.   *)

\* DEFAULT_TUNNEL_BASE_DOMAINS
SeedDomains == <<"online", "se">>

\* get_known_tunnel_base_domains: the user's list replaces the seed, what the
\* gateway advertises only comes after it.
Known(c) ==
  LET all(domains) == {domains[i] : i \in DOMAIN domains}
  IN  IF c.ownDomains # <<>> THEN all(c.ownDomains)
      ELSE all(SeedDomains) \cup all(c.advertised)

\* The first of them.
DefaultDomain(c) == IF c.ownDomains # <<>> THEN c.ownDomains[1] ELSE SeedDomains[1]

\* split_share_host: a host on a known domain stands for that domain.
HostOnSe == "host.se"
BaseOf(c, value) == IF value = HostOnSe /\ "se" \in Known(c) THEN "se" ELSE value

\* resolve_share_config
ShareDomain(c, recorded) ==
  LET asked == IF c.domainArg = "default" THEN DefaultDomain(c) ELSE c.domainArg
  IN  BaseOf(c, Given(asked, Given(recorded, Given(c.globalDomain, DefaultDomain(c)))))

\* What the run records before the file is composed.
RecordedDomain(c) == ShareDomain(c, c.domain)

\* resolve_public_tunnel_url: what a client says that is running, else the
\* gateway of the environment, else the settings.  The composer does not say
\* for which project, so that the project's own domain is not among them.
PublicDomain(c) ==
  BaseOf(c, Given(c.announced, Given(c.gatewayEnv, ShareDomain(c, "unset"))))

\* resolve_tunnel_gateway_url: a domain of the user's own is only public.
GatewayOf(c, domain) == IF domain \in Known(c) THEN domain ELSE DefaultDomain(c)

\* _build_lfr_tunnel_service takes the argument as it was typed.
SidecarGateway(c) ==
  Given(c.gatewayEnv, GatewayOf(c, Given(c.domainArg, RecordedDomain(c))))

\* _update_tunnel_env_file: over what an earlier run has left in .env.
EnvFileGateway(c) == SidecarGateway(c)

\* LFT_CLIENT_SERVER: the environment of `up`, the .env file, the file's default.
DialledGateway(c) == Given(c.gatewayEnv, Given(EnvFileGateway(c), SidecarGateway(c)))

IsTunnel(c) == c.share /\ TunnelProvider(c) \in {"lfr-tunnel", "lfr-tunnel-docker"}

\* _inject_liferay_share_env: the host in the portal's addresses; "unset" leaves
\* it to the request.
WebHost(c) ==
  CASE ~c.tunnelCors /\ IsTunnel(c) -> PublicDomain(c)
    [] ~c.tunnelCors /\ ~IsTunnel(c) /\ SslActive(c) -> c.host
    [] OTHER -> "unset"

\* virtual.hosts.valid.hosts
ValidHosts(c) == {"localhost", c.host} \cup (IF c.tunnelCors THEN {} ELSE Known(c))

-----------------------------------------------------------------------------
(* The file                                                                *)

Customs(c) == {k \in c.customs : k.image}

\* Later services replace earlier ones of the same name: the custom containers
\* are keyed by the bare name their user chose.
Services(c, ports) ==
  LET own == {Portal} \cup (IF OwnsDatabase(c) THEN {Database} ELSE {})
      exts == {ExtName(e) : e \in ServiceExts(c)}
      customs == {CustomName(k) : k \in Customs(c)}
      helpers == (IF c.kibana THEN {KibanaName} ELSE {})
                 \cup (IF c.expose /\ c.ngrokToken THEN {NgrokName} ELSE {})
                 \cup (IF HasTunnel(c) THEN {TunnelName} ELSE {})
  IN  [s \in own \cup exts \cup customs \cup helpers |->
         CASE s \in helpers /\ s = KibanaName -> KibanaService
           [] s \in helpers /\ s = NgrokName -> NgrokService
           [] s \in helpers /\ s = TunnelName -> TunnelService(c)
           [] s \in customs \ helpers ->
                CustomService(CHOOSE k \in Customs(c) : CustomName(k) = s)
           [] s \in exts \ (customs \cup helpers) ->
                ExtService(c, CHOOSE e \in ServiceExts(c) : ExtName(e) = s, ports)
           [] s = Portal /\ s \notin customs -> PortalService(c)
           [] OTHER -> DatabaseService(c)]

\* Mutant: only the portal has volumes of its own.
VolumesOfThePortal(services) == services[Portal].mounts

\* The named volumes are collected from the services before an overlay joins.
Volumes(services) == UNION {services[s].mounts : s \in DOMAIN services}

Generated(c, ports) ==
  LET services == Services(c, ports)
  IN  [services |-> services, volumes |-> Volumes(services)]

-----------------------------------------------------------------------------
(* Archetypes                                                              *)

KeycloakName == <<"keycloak">>
SecondPortal == <<"liferay2">>

\* compose-overlay.yml of the two archetypes.
Overlay(archetype) ==
  CASE archetype = "keycloak-sso" ->
         [services |-> [s \in {KeycloakName} |->
                          Service(<<>>, {8081}, {}, FALSE, 8080, 1)],
          volumes |-> {}]
    [] archetype = "clustered" ->
         [services |-> [s \in {SecondPortal} |->
                          Service(WaitFor({Portal, <<"db">>}, Healthy), {},
                                  {"document-library"}, FALSE, 8080, 1)],
          volumes |-> {"document-library"}]
    [] OTHER -> [services |-> <<>>, volumes |-> {}]

\* deep_merge; the clustered overlay also mounts its library in the portal.
Merged(c, file) ==
  LET overlay == Overlay(c.archetype)
      all == DOMAIN file.services \cup DOMAIN overlay.services
  IN  [services |->
         [s \in all |->
            CASE s \in DOMAIN overlay.services -> overlay.services[s]
              [] s = Portal /\ s \notin DOMAIN overlay.services ->
                   [file.services[s] EXCEPT !.mounts = @ \cup overlay.volumes]
              [] OTHER -> file.services[s]],
       volumes |-> file.volumes \cup overlay.volumes]

\* write_docker_compose
ComposeFile(c, ports) == Merged(c, Generated(c, ports))
=============================================================================

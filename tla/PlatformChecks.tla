----------------------------- MODULE PlatformChecks -----------------------------
(***************************************************************************)
(* The reports of `clawops verify-platform`: what the shipped files of an  *)
(* asset tree say, and which listeners the host has.  A tree is a record   *)
(* of its compose services, the facts its observability overlay and its    *)
(* channel files fulfil, and the sender ids of its sample allowlist.       *)
(*                                                                         *)
(* A listener is a record of an address, a port and whether it answers a   *)
(* GET with 2xx.  The wording of a check is left out: a report is ok when  *)
(* every check is.                                                         *)
(***************************************************************************)
EXTENDS Naturals, Sequences

\* The services of the aux stack that verify_sidecars asks for.
RequiredServices == {
  [service |-> "postgres",       port |-> 5432, health |-> TRUE],
  [service |-> "litellm",        port |-> 4000, health |-> TRUE],
  [service |-> "otel-collector", port |-> 4318, health |-> FALSE],
  [service |-> "otel-collector", port |-> 9464, health |-> FALSE],
  [service |-> "qdrant",         port |-> 6333, health |-> TRUE],
  [service |-> "neo4j",          port |-> 7474, health |-> TRUE],
  [service |-> "neo4j",          port |-> 7687, health |-> TRUE]}

LabServices == {
  [service |-> "browserlab-proxy",      port |-> 3128, health |-> FALSE],
  [service |-> "browserlab-playwright", port |-> 9222, health |-> FALSE]}

\* Ports that are probed with a GET; the others with a connect.
Spoken == {4000, 9464, 6333, 7474}

Loopback == {"127.0.0.1", "localhost", "[::1]", "::1"}

-------------------------------------------------------------------------------
\* The mappings of a service to one of its container ports, in file order.
Published(compose, want) ==
  IF want.service \in DOMAIN compose
  THEN SelectSeq(compose[want.service].ports, LAMBDA p : p.container = want.port)
  ELSE <<>>

\* _check_required_service
Contract(compose, want) ==
  /\ Published(compose, want) # <<>>
  /\ Head(Published(compose, want)).host \in Loopback
  /\ want.health => compose[want.service].health

\* The first mapping of every wanted port that has one: what gets probed.
Probed(compose, wanted) ==
  {Head(Published(compose, want)) : want \in {w \in wanted : Published(compose, w) # <<>>}}

ProbedPorts(compose, wanted) == {p.hostPort : p \in Probed(compose, wanted)}

Answers(listeners, host, port, spoken) ==
  \E l \in listeners : l.port = port /\ l.address \in {host, "0.0.0.0"} /\ (spoken => l.sound)

\* listener.split(":")[0] of an IPv6 address is "[" or empty, and not loopback.
CountsAsLoopback(listener) == listener.address \in {"127.0.0.1", "localhost"}

\* _check_loopback_ports
LoopbackPorts(listeners, ports) == \A l \in listeners : l.port \in ports => CountsAsLoopback(l)

ProbesPass(compose, wanted, listeners) ==
  /\ \A p \in Probed(compose, wanted) : Answers(listeners, p.host, p.hostPort, p.container \in Spoken)
  /\ LoopbackPorts(listeners, ProbedPorts(compose, wanted))

SidecarsReport(tree, listeners, skip) ==
  /\ \A want \in RequiredServices : Contract(tree.compose, want)
  /\ skip \/ ProbesPass(tree.compose, RequiredServices, listeners)

LabReport(tree, listeners, skip) ==
  /\ \A want \in LabServices : Contract(tree.lab, want)
  /\ skip \/ ProbesPass(tree.lab, LabServices, listeners)

-------------------------------------------------------------------------------
(* verify_observability: a block that is missing ends the report at once.   *)

OverlayFacts == {"diagnostics", "logging", "plugins", "otel", "diagnostics-enabled", "otel-enabled",
                 "otel-protocol", "otel-signals", "logging-redaction", "diagnostics-plugin"}

OverlayContract(tree) ==
  /\ OverlayFacts \subseteq tree.overlay
  /\ tree.endpoint.host \in Loopback

\* The collector of the compose file, and the endpoint that must be its port.
CollectorContract(tree) ==
  LET otlp    == [service |-> "otel-collector", port |-> 4318, health |-> FALSE]
      metrics == [service |-> "otel-collector", port |-> 9464, health |-> FALSE]
  IN  /\ Contract(tree.compose, otlp) /\ Contract(tree.compose, metrics)
      /\ tree.endpoint.port = Head(Published(tree.compose, otlp)).hostPort

MetricsPort(tree) ==
  LET found == Published(tree.compose, [service |-> "otel-collector", port |-> 9464, health |-> FALSE])
  IN  IF found = <<>> THEN 9464 ELSE Head(found).hostPort

ObservabilityReport(tree, listeners, skip) ==
  /\ OverlayContract(tree) /\ CollectorContract(tree)
  /\ skip \/ /\ Answers(listeners, tree.endpoint.host, tree.endpoint.port, FALSE)
             /\ Answers(listeners, tree.endpoint.host, MetricsPort(tree), TRUE)

-------------------------------------------------------------------------------
(* verify_channels.                                                         *)

\* Any of the three spellings of a Telegram id becomes tg:<id>; a WhatsApp id
\* stays as it is; any other text ends the rendering with an error.
Spellings == {"", "tg:", "telegram:"}
Normalized(channel, sender) ==
  IF channel = "telegram" THEN [prefix |-> "tg:", id |-> sender.id] ELSE sender
Valid(channel, sender) ==
  IF channel = "telegram" THEN sender.prefix \in Spellings ELSE sender.prefix = "+"

RenderFragment(source) ==
  [channel \in DOMAIN source |-> {Normalized(channel, s) : s \in source[channel]}]

ChannelPolicy(channels) ==
  /\ {"telegram", "whatsapp", "defaults"} \subseteq DOMAIN channels
  /\ \A c \in {"telegram", "whatsapp"} :
       channels[c].dmPolicy = "pairing" /\ channels[c].groupPolicy = "allowlist"
  /\ channels["telegram"].senders > 0
  /\ channels["defaults"].groupPolicy = "allowlist"

Guidance == {"approve first DM pairing", "durable allowlist", "clawops allowlists",
             "telegram pairing approve", "whatsapp pairing", "whatsapp allowlist"}

ChannelsReport(tree) ==
  /\ ChannelPolicy(tree.channels)
  /\ Guidance \subseteq tree.guidance
  /\ \A c \in DOMAIN tree.allowlist : \A s \in tree.allowlist[c] : Valid(c, s)
  /\ RenderFragment(tree.allowlist) =
       [telegram |-> {[prefix |-> "tg:", id |-> "12345678"]},
        whatsapp |-> {[prefix |-> "+", id |-> "5511999999999"]}]

-------------------------------------------------------------------------------
\* What listens on the host once the services of a compose file run; the port
\* forwarder of docker accepts connections, whatever the container does.
Listeners(compose, services) ==
  {[address |-> p.host, port |-> p.hostPort, sound |-> TRUE] :
     p \in UNION {{compose[s].ports[i] : i \in DOMAIN compose[s].ports} : s \in services \cap DOMAIN compose}}
===============================================================================

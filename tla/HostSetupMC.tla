------------------------------ MODULE HostSetupMC ------------------------------
EXTENDS HostSetup, TLC

At127(port) == [host |-> "127.0.0.1", hostPort |-> port, container |-> port]
Service(ports, health) == [ports |-> [i \in DOMAIN ports |-> At127(ports[i])], health |-> health]

\* platform/compose, platform/configs and platform/docs as they are shipped.
ShippedTree ==
  [compose |-> [s \in {"postgres", "litellm", "otel-collector", "qdrant", "neo4j"} |->
                  CASE s = "postgres" -> Service(<<5432>>, TRUE)
                    [] s = "litellm"  -> Service(<<4000>>, TRUE)
                    [] s = "otel-collector" -> Service(<<4318, 9464>>, FALSE)
                    [] s = "qdrant"   -> Service(<<6333>>, TRUE)
                    [] s = "neo4j"    -> Service(<<7474, 7687>>, TRUE)],
   lab |-> [s \in {"browserlab-proxy", "browserlab-playwright"} |->
              Service(IF s = "browserlab-proxy" THEN <<3128>> ELSE <<9222>>, FALSE)],
   overlay |-> OverlayFacts,
   endpoint |-> [host |-> "127.0.0.1", port |-> 4318],
   channels |-> [c \in {"telegram", "whatsapp", "defaults"} |->
                   IF c = "defaults" THEN [groupPolicy |-> "allowlist"]
                   ELSE [dmPolicy |-> "pairing", groupPolicy |-> "allowlist", senders |-> 1]],
   guidance |-> Guidance,
   allowlist |-> [telegram |-> {[prefix |-> "", id |-> "12345678"]},
                  whatsapp |-> {[prefix |-> "+", id |-> "5511999999999"]}]]

\* One that publishes qdrant on every address.
OpenTree == [ShippedTree EXCEPT !.compose["qdrant"].ports[1].host = "0.0.0.0"]

TwoTrees == {ShippedTree, OpenTree}

ASSUME TreesAreShipped == TreesAgreeOnPorts /\ ShippedTreeIsSound
===============================================================================

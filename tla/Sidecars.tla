-------------------------------- MODULE Sidecars --------------------------------
(***************************************************************************)
(* The auxiliary containers: `clawops ops sidecars up`, `sidecars down`    *)
(* and `reset-compose-state`, run by the service unit, by setup and by     *)
(* people, on one compose project.  Without a compose variant the project  *)
(* is the same whether the state lives on the host or in the repository,   *)
(* so a command moves the containers that another one started.             *)
(*                                                                         *)
(* A service other than postgres and litellm is like qdrant.  Passwords,   *)
(* images, ports and the polling interval are left out.                    *)
(***************************************************************************)
EXTENDS Naturals, FiniteSets

CONSTANTS
  Procs,      \* commands that may run at the same time
  Dirs,       \* compose state directories: the host's and the repository's
  Runtime,    \* SIDECAR_RUNTIME_SERVICE_NAMES without litellm
  Required,   \* the services whose readiness the rendered profile requires
  Kinds,      \* the commands that are given: "up", "down", "reset"
  MaxEvents   \* bound: commands, docker failures and timeouts, together

Services == {"postgres", "litellm"} \cup Runtime

ASSUME SidecarsAssumption ==
  /\ {"postgres", "litellm"} \subseteq Required /\ Required \subseteq Services
  /\ Dirs # {}
  /\ Kinds \subseteq {"up", "down", "reset"} /\ MaxEvents \in Nat

VARIABLES
  ctr,        \* the container of each service and the directory it mounts
  data,       \* what is in postgres' directory: nothing, a database, its schema
  cmd,        \* the command of each process
  replaced,   \* history: postgres got another or an empty directory since the
              \* last schema bootstrap
  alone,      \* history: the process has been the only command since it began
  served,     \* history: the last `up` that returned 0 found the schema
  events      \* how much of the bound is used

sidecarVars == <<ctr, data, cmd, replaced, alone, served>>

\* A container with a failing health check that only a new one can mend is "stuck".
Container == [state : {"none", "running", "healthy", "stuck"}, dir : Dirs]

\* at: the next step; dir: the state directory; force: `reset --force-stop`;
\* again: postgres was recreated; dep: compose waits for a dependency; ready:
\* litellm was healthy; met: services it has waited for; seen: what `ps -q` said.
Idle == [at |-> "rest", dir |-> CHOOSE d \in Dirs : TRUE, force |-> FALSE, again |-> FALSE,
         dep |-> FALSE, ready |-> FALSE, met |-> {}, seen |-> "nothing"]

SidecarsInit ==
  /\ ctr = [s \in Services |-> [state |-> "none", dir |-> CHOOSE d \in Dirs : TRUE]]
  /\ data = [d \in Dirs |-> "empty"]
  /\ cmd = [p \in Procs |-> Idle]
  /\ replaced = FALSE /\ served = TRUE
  /\ alone = [p \in Procs |-> FALSE]
  /\ events = 0

Event == events < MaxEvents /\ events' = events + 1

Go(p, step) == cmd' = [cmd EXCEPT ![p].at = step, ![p].dep = FALSE]
Done(p)     == cmd' = [cmd EXCEPT ![p] = Idle]

\* _service_matches
Matches(s) == ctr[s].state = "healthy"
Ready == \A s \in Required : Matches(s)

-------------------------------------------------------------------------------
(* docker compose.                                                          *)

\* `up -d`: creates what is missing, and recreates what mounts another directory
\* or is named by --force-recreate.
Upped(S, d, force) ==
  [s \in Services |->
     IF s \in S /\ (ctr[s].state = "none" \/ ctr[s].dir # d \/ force)
     THEN [state |-> "running", dir |-> d] ELSE ctr[s]]

Moves(S, d) == "postgres" \in S /\ ctr["postgres"].dir # d

\* litellm depends on a healthy postgres: compose brings it up first, and waits.
Depends(S) == "litellm" \in S
Waits(p) == cmd[p].dep \/ Upped({"postgres"}, cmd[p].dir, FALSE) = ctr

ComposeUp(p, S, force, next) ==
  LET now == IF Depends(S) /\ ~Waits(p) THEN {"postgres"} ELSE S IN
  /\ ctr' = Upped(now, cmd[p].dir, force /\ now = S)
  /\ replaced' = (replaced \/ Moves(now, cmd[p].dir))
  /\ IF now = S THEN (Depends(S) => Matches("postgres")) /\ Go(p, next)
                ELSE cmd' = [cmd EXCEPT ![p].dep = TRUE]

\* A started container passes its health check; a first start of postgres makes
\* an empty database, and litellm's check asks for liveliness only.
HealthPasses(s) ==
  /\ ctr[s].state = "running"
  /\ ctr' = [ctr EXCEPT ![s].state = "healthy"]
  /\ data' = IF s = "postgres" /\ data[ctr[s].dir] = "empty"
             THEN [data EXCEPT ![ctr[s].dir] = "cold"] ELSE data
  /\ UNCHANGED <<cmd, replaced, alone, served, events>>

\* A restart, or a container that gets stuck.
HealthLost(s) ==
  /\ ctr[s].state \in {"running", "healthy"} /\ Event
  /\ \E state \in {"running", "stuck"} : ctr' = [ctr EXCEPT ![s].state = state]
  /\ UNCHANGED <<data, cmd, replaced, alone, served>>

-------------------------------------------------------------------------------
(* sidecars up: _sidecars_up_report.                                        *)

Begin(p, kind) ==
  /\ cmd[p].at = "rest" /\ kind \in Kinds
  /\ alone' = LET others == {q \in Procs \ {p} : cmd[q].at # "rest"} IN
              [q \in Procs |-> IF q = p THEN others = {} ELSE alone[q] /\ q \notin others]
  /\ \E d \in Dirs, force \in BOOLEAN :
       /\ kind # "reset" => ~force
       /\ cmd' = [cmd EXCEPT ![p] = [Idle EXCEPT !.at = kind, !.dir = d, !.force = force]]
  /\ UNCHANGED <<ctr, data, replaced, served>>

StartPostgres(p) ==
  /\ cmd[p].at = "up"
  /\ ComposeUp(p, {"postgres"}, FALSE, "wait postgres")
  /\ UNCHANGED <<data, alone, served, events>>

WaitPostgres(p) ==
  /\ cmd[p].at = "wait postgres" /\ Matches("postgres")
  /\ Go(p, "check litellm")
  /\ UNCHANGED <<ctr, data, replaced, alone, served, events>>

\* The first timeout recreates the container, the second ends the command.
PostgresTimesOut(p) ==
  /\ cmd[p].at = "wait postgres"
  /\ ~Matches("postgres")
  /\ IF ctr["postgres"].state \in {"stuck", "none"} THEN UNCHANGED events ELSE Event
  /\ IF cmd[p].again THEN Done(p)
     ELSE cmd' = [cmd EXCEPT ![p].at = "recreate", ![p].again = TRUE]
  /\ UNCHANGED <<ctr, data, replaced, alone, served>>

RecreatePostgres_Plain(p) ==
  /\ cmd[p].at = "recreate"
  /\ ComposeUp(p, {"postgres"}, FALSE, "wait postgres")
  /\ UNCHANGED <<data, alone, served, events>>

RecreatePostgres(p) ==
  /\ cmd[p].at = "recreate"
  /\ ComposeUp(p, {"postgres"}, TRUE, "wait postgres")
  /\ UNCHANGED <<data, alone, served, events>>

\* A healthy litellm is taken as proof that the schema is there.
CheckLitellm(p) ==
  /\ cmd[p].at = "check litellm"
  /\ LET ready == Matches("litellm") IN
     cmd' = [cmd EXCEPT ![p].ready = ready,
                        ![p].at = IF ready THEN "start runtime" ELSE "bootstrap"]
  /\ UNCHANGED <<ctr, data, replaced, alone, served, events>>

Bootstrap_Unchecked(p) ==
  /\ cmd[p].at = "bootstrap"
  /\ \E ok \in BOOLEAN :
       /\ data' = IF ok /\ Matches("postgres")
                  THEN [data EXCEPT ![ctr["postgres"].dir] = "schema"] ELSE data
       /\ replaced' = (replaced /\ ~ok)
  /\ Go(p, "start litellm")
  /\ UNCHANGED <<ctr, alone, served, events>>

\* `run --rm --no-deps litellm --skip_server_startup` on the database that
\* postgres serves now; without one it fails.
Bootstrap(p) ==
  /\ cmd[p].at = "bootstrap" /\ Matches("postgres")
  /\ data' = [data EXCEPT ![ctr["postgres"].dir] = "schema"]
  /\ replaced' = FALSE
  /\ Go(p, "start litellm")
  /\ UNCHANGED <<ctr, alone, served, events>>

BootstrapFails(p) ==
  /\ cmd[p].at = "bootstrap" /\ ~Matches("postgres")
  /\ Done(p)
  /\ UNCHANGED <<ctr, data, replaced, alone, served, events>>

StartLitellm(p) ==
  /\ cmd[p].at = "start litellm"
  /\ ComposeUp(p, {"litellm"}, TRUE, "start runtime")
  /\ UNCHANGED <<data, alone, served, events>>

StartRuntime(p) ==
  /\ cmd[p].at = "start runtime"
  /\ ComposeUp(p, IF cmd[p].ready THEN Runtime \cup {"litellm"} ELSE Runtime, FALSE, "wait")
  /\ UNCHANGED <<data, alone, served, events>>

\* compose gives up on a dependency that does not get healthy.
DependencyFails(p) ==
  /\ cmd[p].at = "start litellm" \/ (cmd[p].at = "start runtime" /\ cmd[p].ready)
  /\ ctr["postgres"].state = "stuck" \/ (cmd[p].dep /\ ctr["postgres"].state = "none")
  /\ Done(p)
  /\ UNCHANGED <<ctr, data, replaced, alone, served, events>>

\* The required services are waited for one after the other.
Awaited(p, s) ==
  /\ cmd[p].at = "wait" /\ s \in Required \ cmd[p].met
  /\ s # "postgres" => "postgres" \in cmd[p].met
  /\ s \in Runtime => "litellm" \in cmd[p].met

WaitFor(p, s) ==
  /\ Awaited(p, s) /\ Matches(s)
  /\ cmd' = [cmd EXCEPT ![p].met = @ \cup {s}]
  /\ UNCHANGED <<ctr, data, replaced, alone, served, events>>

WaitTimesOut(p) ==
  /\ \E s \in Services :
       /\ Awaited(p, s) /\ ~Matches(s)
       /\ IF ctr[s].state \in {"stuck", "none"} THEN UNCHANGED events ELSE Event
  /\ Done(p)
  /\ UNCHANGED <<ctr, data, replaced, alone, served>>

\* Returns 0; with --json only if the services still match in a last inspection.
Report(p) ==
  /\ cmd[p].at = "wait" /\ Required \subseteq cmd[p].met
  /\ \E json \in BOOLEAN :
       served' = IF json /\ ~Ready THEN served
                 ELSE data[ctr["postgres"].dir] = "schema" \/ replaced
  /\ Done(p)
  /\ UNCHANGED <<ctr, data, replaced, alone, events>>

\* A docker command of the sequence fails, an inspection raises, or the command
\* is killed: nothing is undone.
UpFails(p) ==
  /\ cmd[p].at \in {"up", "recreate", "check litellm", "bootstrap", "start litellm",
                    "start runtime", "wait"}
  /\ Event
  /\ Done(p)
  /\ UNCHANGED <<ctr, data, replaced, alone, served>>

-------------------------------------------------------------------------------
(* sidecars down and reset-compose-state.                                   *)

Down(p) ==
  /\ cmd[p].at = "down"
  /\ ctr' = [s \in Services |-> [ctr[s] EXCEPT !.state = "none"]]
  /\ Done(p)
  /\ UNCHANGED <<data, replaced, alone, served, events>>

\* `ps -q postgres`: its exit code is not looked at.
InspectFails(p) ==
  /\ cmd[p].at = "reset" /\ Event
  /\ cmd' = [cmd EXCEPT ![p].at = "remove", ![p].seen = "error"]
  /\ UNCHANGED <<ctr, data, replaced, alone, served>>

Inspect_IgnoreRunning(p) ==
  /\ cmd[p].at = "reset"
  /\ cmd' = [cmd EXCEPT ![p].at = IF cmd[p].force THEN "stop" ELSE "remove"]
  /\ UNCHANGED <<ctr, data, replaced, alone, served, events>>

Inspect(p) ==
  /\ cmd[p].at = "reset"
  /\ IF ctr["postgres"].state = "none" THEN Go(p, "remove")
     ELSE IF cmd[p].force THEN Go(p, "stop") ELSE Done(p)
  /\ UNCHANGED <<ctr, data, replaced, alone, served, events>>

Stop(p) ==
  /\ cmd[p].at = "stop"
  /\ ctr' = [ctr EXCEPT !["postgres"].state = "none"]
  /\ Go(p, "remove")
  /\ UNCHANGED <<data, replaced, alone, served, events>>

StopFails(p) ==
  /\ cmd[p].at = "stop" /\ Event
  /\ Done(p)
  /\ UNCHANGED <<ctr, data, replaced, alone, served>>

Remove(p) ==
  /\ cmd[p].at = "remove"
  /\ data' = [data EXCEPT ![cmd[p].dir] = "empty"]
  /\ replaced' = (replaced \/ cmd[p].dir = ctr["postgres"].dir)
  /\ Done(p)
  /\ UNCHANGED <<ctr, alone, served, events>>

-------------------------------------------------------------------------------
Step(p) ==
  \/ StartPostgres(p) \/ WaitPostgres(p) \/ RecreatePostgres(p)
  \/ CheckLitellm(p) \/ Bootstrap(p) \/ BootstrapFails(p)
  \/ StartLitellm(p) \/ StartRuntime(p) \/ DependencyFails(p)
  \/ Report(p)
  \/ \E s \in Services : WaitFor(p, s)
  \/ Down(p) \/ Inspect(p) \/ Stop(p) \/ Remove(p)

Docker == \E s \in Services : HealthPasses(s)

\* `sidecars status` is ok when docker answers and every required service is
\* ready; an inspection that fails is reported, and asked for again.
StatusOk == Ready

\* The operator repeats `up` while the status is not ok.
Repeat(p) ==
  /\ ~StatusOk /\ \A q \in Procs : cmd[q].at = "rest"
  /\ Begin(p, "up")
  /\ UNCHANGED events

SidecarsNext ==
  \/ Docker
  \/ \E s \in Services : HealthLost(s)
  \/ \E p \in Procs :
       \/ Step(p) \/ PostgresTimesOut(p) \/ WaitTimesOut(p) \/ UpFails(p)
       \/ InspectFails(p) \/ StopFails(p) \/ Repeat(p)
       \/ \E kind \in Kinds : Begin(p, kind) /\ Event

SidecarsSpec == SidecarsInit /\ [][SidecarsNext]_<<sidecarVars, events>>

SidecarsFairSpec ==
  /\ SidecarsSpec
  /\ \A s \in Services : WF_<<sidecarVars, events>>(HealthPasses(s))
  /\ \A p \in Procs : WF_<<sidecarVars, events>>(Step(p) \/ PostgresTimesOut(p) \/ WaitTimesOut(p))
  /\ WF_<<sidecarVars, events>>(\E p \in Procs : Repeat(p))
-------------------------------------------------------------------------------
(* Properties.                                                              *)

SidecarsTypeOK ==
  /\ ctr \in [Services -> Container]
  /\ data \in [Dirs -> {"empty", "cold", "schema"}]
  /\ \A p \in Procs : cmd[p].dir \in Dirs /\ cmd[p].met \subseteq Required

\* `sidecars up` owns the schema bootstrap: whenever one returns 0, the database
\* that postgres serves has the schema, over failures, timeouts and other
\* commands, unless postgres got another directory since the last bootstrap.
SchemaServed == served

\* A directory is never emptied under the container that mounts it, when the
\* reset ran alone and `docker compose ps` answered it.
NeverEmptiedInUse ==
  [][\A p \in Procs :
       cmd[p].at = "remove" /\ cmd'[p].at = "rest" /\ alone[p] /\ cmd[p].seen # "error" =>
         ctr["postgres"].state = "none"]_<<sidecarVars, events>>

\* An operator who repeats `up` gets the required services, whatever failed
\* before: a stuck postgres or litellm is recreated.  Exception: one of the other
\* services that is stuck; `up` starts these and never recreates them, but it
\* brings the rest up beside them.
Recovers ==
  <>[](\A s \in Required : Matches(s) \/ (s \in Runtime /\ ctr[s].state = "stuck"))
===============================================================================

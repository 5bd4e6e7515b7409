------------------------------- MODULE HostSetup -------------------------------
(***************************************************************************)
(* `clawops setup` on a Linux host, and the commands it is made of, given  *)
(* one at a time by a person who answers prompts, is interrupted, opens a  *)
(* new login shell and runs them again.  A command is the sequence of the  *)
(* steps that it has left; a failed or killed one leaves what its steps    *)
(* wrote.                                                                  *)
(*                                                                         *)
(* macOS, OPENCLAW_MODEL_SETUP_MODE=skip, --no-verify, the timers and the  *)
(* contents of the rendered files are left out; of the secrets the model   *)
(* keeps LITELLM_DB_PASSWORD, with which postgres makes its database.      *)
(***************************************************************************)
EXTENDS PlatformChecks

CONSTANTS
  Profiles,    \* configuration profiles, each with its own assets
  Default,     \* resolve_profile(None)
  Reinstalled, \* profiles whose assets are installed again by every command
  Hypermemory, \* profiles that need an embedding model
  Commands,    \* "setup", "bootstrap", "configure", "activate", "doctor"
  Trees,       \* asset trees a doctor may be given
  Shipped,     \* the tree that comes with the code
  MaxCommands, \* bound: commands, beside the guided setup that is repeated
  MaxFaults    \* bound: failures, kills and half installations

ASSUME HostSetupAssumption ==
  /\ Default \in Profiles /\ Reinstalled \subseteq Profiles /\ Hypermemory \subseteq Profiles
  /\ Commands \subseteq {"setup", "bootstrap", "configure", "activate", "doctor"}
  /\ Shipped \in Trees
  /\ MaxCommands \in Nat /\ MaxFaults \in Nat

VARIABLES
  docker,   \* "absent", "no compose" or "here": what is on the PATH
  group,    \* the user is in the docker group
  shell,    \* the login shell has the group
  flag,     \* the docker refresh state file
  mark,     \* the bootstrap state file
  tools,    \* which of node, varlock, uv and openclaw (with acpx) are installed
  assets,   \* of each profile: "none", "partial" or "whole"
  config,   \* openclaw.json: its profile ("torn": half a file), its agents' models
  env,      \* .env.local: backend, model chain, embedding model, secret (0: none)
  overlay,  \* .env.plugins: "none", or whether it resolves the chain's key
  units,    \* services enabled, and "files" once their definitions are rendered
  stack,    \* the secret with which postgres made its database (0: none yet)
  run,      \* the command that is running
  locked,   \* history: a bootstrap installed docker and ended before the grant
  torn,     \* history: a command was killed while it rewrote .env.local
  delivered,\* history: the last setup or doctor that returned 0 was right to
  used      \* how much of the bounds is used

hostVars == <<docker, group, shell, flag, mark, tools>>
envVars  == <<env, overlay>>
vars == <<hostVars, assets, config, envVars, units, stack, run, locked, torn, delivered, used>>

Blank == [backend |-> "local", chain |-> "none", embed |-> FALSE, secret |-> 0]
NoRun == [cmd |-> "none", todo |-> <<>>, profile |-> Default, asks |-> FALSE,
          review |-> FALSE, activate |-> FALSE, installed |-> FALSE, added |-> FALSE]

Init ==
  /\ docker \in {"absent", "here"} /\ group \in BOOLEAN /\ shell = group
  /\ docker = "here" => group
  /\ flag = FALSE /\ mark = FALSE /\ tools = {}
  /\ assets = [p \in Profiles |-> "none"]
  /\ config = [profile |-> "none", models |-> "none"]
  /\ env = Blank /\ overlay = "none"
  /\ units = {} /\ stack = 0
  /\ run = NoRun
  /\ locked = FALSE /\ torn = FALSE /\ delivered = TRUE
  /\ used = [commands |-> 0, faults |-> 0]

-------------------------------------------------------------------------------
(* The steps of a command.                                                  *)

Reachable == docker = "here" /\ shell

BootSteps_MarkFirst == <<"node", "docker", "varlock", "uv", "assets", "fetch", "openclaw",
                         "render", "doctor", "mark", "grant", "probe">>
BootSteps == <<"node", "docker", "varlock", "uv", "assets", "fetch", "openclaw",
               "render", "doctor", "grant", "probe", "mark">>

Configure(asks) ==
  <<"defaults">> \o (IF asks THEN <<"backend", "overlay", "prompt">> ELSE <<"ollama">>)
                 \o <<"embed", "validate">>

Activation == <<"units", "services", "sidecars", "gateway">>

Steps_KeepConfig(cmd, skip, given, asks, activate) ==
  CASE cmd = "bootstrap" -> BootSteps
    [] cmd = "configure" -> Configure(asks)
    [] cmd = "activate"  -> Activation
    [] cmd = "setup" ->
         (IF skip THEN <<"assets", "fetch">> ELSE BootSteps)
         \o Configure(asks)
         \o (IF given THEN <<"render", "doctor">> ELSE <<>>)
         \o (IF activate THEN <<"models", "refresh">> \o Activation \o <<"verify">> ELSE <<"units">>)
         \o <<"done">>

\* skip: the bootstrap is recorded, or --skip-bootstrap; given: --profile.
Steps(cmd, skip, given, asks, activate) ==
  CASE cmd = "bootstrap" -> BootSteps
    [] cmd = "configure" -> Configure(asks)
    [] cmd = "activate"  -> Activation
    [] cmd = "setup" ->
         (IF skip THEN <<"assets", "fetch">> ELSE BootSteps)
         \o Configure(asks)
         \o (IF given \/ skip THEN <<"render", "doctor">> ELSE <<>>)
         \o (IF activate THEN <<"models", "refresh">> \o Activation \o <<"verify">> ELSE <<"units">>)
         \o <<"done">>

At(step) == run.todo # <<>> /\ Head(run.todo) = step
Onward   == run' = [run EXCEPT !.todo = Tail(@)] /\ UNCHANGED locked

\* The command ends early: it raised or was killed.
Raise ==
  /\ run' = NoRun
  /\ locked' = (locked \/ (run.installed /\ ~group))

Command == used.commands < MaxCommands /\ used' = [used EXCEPT !.commands = @ + 1]
Fault   == used.faults < MaxFaults /\ used' = [used EXCEPT !.faults = @ + 1]

Start(cmd, profile, given, asks, review, bootstrap, activate) ==
  /\ run.todo = <<>>
  /\ run' = [NoRun EXCEPT !.cmd = cmd, !.profile = IF given THEN profile ELSE Default,
                          !.asks = asks, !.review = review, !.activate = activate,
                          !.todo = Steps(cmd, bootstrap = "skip" \/ (bootstrap = "auto" /\ mark), given, asks, activate)]
  /\ UNCHANGED <<hostVars, assets, config, envVars, units, stack, locked, torn, delivered>>

Begin ==
  \E cmd \in Commands \ {"doctor"}, profile \in Profiles, bootstrap \in {"auto", "skip", "force"},
     given, asks, activate \in BOOLEAN :
    /\ Command
    /\ given \/ profile = Default
    /\ cmd \in {"configure", "activate"} => ~given
    /\ cmd \in {"activate", "bootstrap"} => ~asks
    /\ cmd # "setup" => activate /\ bootstrap = "auto"
    /\ Start(cmd, profile, given, asks, FALSE, bootstrap, activate)

-------------------------------------------------------------------------------
(* Bootstrap.                                                               *)

\* ensure_docker_compatible_runtime: it says whether it installed docker.
Docker ==
  /\ At("docker")
  /\ CASE docker = "here" -> Onward /\ UNCHANGED docker
       [] docker = "no compose" -> Raise /\ UNCHANGED docker
       [] docker = "absent" ->
            /\ docker' = "here" /\ UNCHANGED locked
            /\ run' = [run EXCEPT !.todo = Tail(@), !.installed = TRUE]
  /\ UNCHANGED <<group, shell, flag, mark, tools, assets, config, envVars, units, stack, torn, delivered, used>>

\* apt-get installs docker.io and not the plugin.
DockerHalfInstalled ==
  /\ At("docker") /\ docker = "absent" /\ Fault
  /\ docker' = "no compose"
  /\ run' = NoRun /\ locked' = (locked \/ ~group)
  /\ UNCHANGED <<group, shell, flag, mark, tools, assets, config, envVars, units, stack, torn, delivered>>

\* A tool that is there in its version is left alone; every installer tries a
\* few times, and the command ends when the last attempt fails.
Install(tool) ==
  /\ At(tool)
  /\ tools' = tools \cup {tool}
  /\ Onward
  /\ UNCHANGED <<docker, group, shell, flag, mark, assets, config, envVars, units, stack, torn, delivered, used>>

NodeRuntime == Install("node")
Varlock     == Install("varlock")
UvSync      == Install("uv")
GlobalTools == Install("openclaw")

\* install_profile_assets, up to the download: npm ci empties what it installs.
Assets ==
  /\ At("assets")
  /\ assets' = [assets EXCEPT ![run.profile] =
                  IF @ = "whole" /\ run.profile \notin Reinstalled THEN @ ELSE "partial"]
  /\ Onward
  /\ UNCHANGED <<hostVars, config, envVars, units, stack, torn, delivered, used>>

Fetch ==
  /\ At("fetch")
  /\ assets' = [assets EXCEPT ![run.profile] = "whole"]
  /\ Onward
  /\ UNCHANGED <<hostVars, config, envVars, units, stack, torn, delivered, used>>

\* Writes the configuration of the profile anew, without models.
Render ==
  /\ At("render")
  /\ config' = [profile |-> run.profile, models |-> "none"]
  /\ Onward
  /\ UNCHANGED <<hostVars, assets, envVars, units, stack, torn, delivered, used>>

\* _doctor_host_payload: the tools, and a rendered configuration that is valid
\* and whose assets are at hand.
HostReady ==
  /\ {"openclaw", "varlock"} \subseteq tools
  /\ config.profile \in Profiles /\ assets[config.profile] # "none"

Doctor ==
  /\ At("doctor")
  /\ IF HostReady THEN Onward ELSE Raise
  /\ UNCHANGED <<hostVars, assets, config, envVars, units, stack, torn, delivered, used>>

\* The refresh file says that a new login shell is needed.
MarkRefresh  == flag' = TRUE
ClearRefresh == flag' = FALSE

\* repair_linux_runtime_user_docker_access: usermod, then the refresh file.
Grant ==
  /\ At("grant")
  /\ IF run.installed /\ ~group
     THEN /\ group' = TRUE /\ MarkRefresh
          /\ run' = [run EXCEPT !.todo = Tail(@), !.added = TRUE] /\ UNCHANGED locked
     ELSE Onward /\ UNCHANGED <<group, flag>>
  /\ UNCHANGED <<docker, shell, mark, tools, assets, config, envVars, units, stack, torn, delivered, used>>

\* Killed between the two.
GrantUnmarked ==
  /\ At("grant") /\ run.installed /\ ~group /\ Fault
  /\ group' = TRUE
  /\ run' = NoRun
  /\ UNCHANGED <<docker, shell, flag, mark, tools, assets, config, envVars, units, stack, locked, torn, delivered>>

Granted ==
  /\ run' = [run EXCEPT !.todo = Tail(@), !.installed = FALSE, !.added = FALSE]
  /\ UNCHANGED locked

Probe ==
  /\ At("probe")
  /\ CASE ~run.installed -> Granted /\ UNCHANGED flag
       [] run.installed /\ Reachable -> Granted /\ ClearRefresh
       [] run.installed /\ ~Reachable /\ run.added -> Granted /\ UNCHANGED flag
       [] run.installed /\ ~Reachable /\ ~run.added -> Raise /\ UNCHANGED flag
  /\ UNCHANGED <<docker, group, shell, mark, tools, assets, config, envVars, units, stack, torn, delivered, used>>

Mark ==
  /\ At("mark")
  /\ mark' = TRUE
  /\ Onward
  /\ UNCHANGED <<docker, group, shell, flag, tools, assets, config, envVars, units, stack, torn, delivered, used>>

-------------------------------------------------------------------------------
(* configure_varlock_env.                                                   *)

\* A new secret differs from every other one; all that counts is whether it is
\* the one postgres has.
Secret(new) ==
  env' = IF new THEN [env EXCEPT !.secret = IF stack = 0 THEN 1 ELSE 2] ELSE env

Defaults_Fresh ==
  /\ At("defaults")
  /\ Secret(TRUE)
  /\ Onward
  /\ UNCHANGED <<hostVars, assets, config, overlay, units, stack, torn, delivered, used>>

\* _ensure_required_defaults: only what is blank, a placeholder or too short.
Defaults ==
  /\ At("defaults")
  /\ Secret(env.secret = 0)
  /\ Onward
  /\ UNCHANGED <<hostVars, assets, config, overlay, units, stack, torn, delivered, used>>

Resolves == env.chain # "cloud" \/ overlay = "keys"

Configured == (env.backend = "managed" /\ overlay # "none") \/ env.chain # "none"

\* _prompt_secret_backend writes the choice, and then the overlay for the chain
\* that .env.local has by then.  Whether it is reviewed is up to the person.
Backend ==
  /\ At("backend")
  /\ \/ /\ Configured /\ ~run.review
        /\ run' = [run EXCEPT !.todo = Tail(Tail(@))] /\ UNCHANGED env
     \/ /\ \E choice \in {"local", "managed"} : env' = [env EXCEPT !.backend = choice]
        /\ run' = [run EXCEPT !.todo = Tail(@), !.review = FALSE]
  /\ UNCHANGED locked
  /\ UNCHANGED <<hostVars, assets, config, overlay, units, stack, torn, delivered, used>>

Saved == IF env.chain = "cloud" THEN "keys" ELSE "bare"

Overlay ==
  /\ At("overlay")
  /\ overlay' = IF env.backend = "local" THEN "none" ELSE Saved
  /\ Onward
  /\ UNCHANGED <<hostVars, assets, config, env, units, stack, torn, delivered, used>>

\* _prompt_model_chain, and _ensure_non_interactive_model_chain.
Prompt ==
  /\ At("prompt")
  /\ \E chain \in {"none", "ollama", "cloud"} :
       env' = IF env.chain = "none" THEN [env EXCEPT !.chain = chain] ELSE env
  /\ Onward
  /\ UNCHANGED <<hostVars, assets, config, overlay, units, stack, torn, delivered, used>>

Ollama ==
  /\ At("ollama")
  /\ \E found \in BOOLEAN :
       env' = IF env.chain = "none" /\ found THEN [env EXCEPT !.chain = "ollama"] ELSE env
  /\ Onward
  /\ UNCHANGED <<hostVars, assets, config, overlay, units, stack, torn, delivered, used>>

\* _ensure_hypermemory_embedding_model: it asks for the profile of the
\* environment, not for that of the command, and takes a blank answer.
Embed ==
  /\ At("embed")
  /\ \E given \in BOOLEAN :
       IF Default \in Hypermemory /\ ~env.embed
       THEN IF run.asks \/ given THEN env' = [env EXCEPT !.embed = given] /\ Onward
                                 ELSE UNCHANGED env /\ Raise
       ELSE UNCHANGED env /\ Onward
  /\ UNCHANGED <<hostVars, assets, config, overlay, units, stack, torn, delivered, used>>

\* _validate_secret_backend_configuration: a command that may ask repairs an
\* overlay that is missing or left over, and none repairs one without the key.
Validate ==
  /\ At("validate")
  /\ CASE (env.backend = "local") # (overlay = "none") ->
            IF run.asks THEN Onward /\ overlay' = (IF env.backend = "local" THEN "none" ELSE Saved)
                        ELSE Raise /\ UNCHANGED overlay
       [] env.backend = "managed" /\ overlay # "none" /\ ~Resolves -> Raise /\ UNCHANGED overlay
       [] OTHER -> Onward /\ UNCHANGED overlay
  /\ UNCHANGED <<hostVars, assets, config, env, units, stack, torn, delivered, used>>

-------------------------------------------------------------------------------
(* Models, services, verification.                                          *)

\* _effective_env_assignments: .env.local, and what the overlay resolves.
Keyed == env.backend = "local" \/ overlay = "keys"

\* _build_model_chain: the chain of .env.local, else the models of the keys.
ModelChain ==
  IF env.chain # "none" THEN env.chain
  ELSE IF env.backend = "managed" /\ overlay = "keys" THEN "cloud" ELSE "none"

\* _all_agents_have_models: `openclaw models status --check` for every agent.
AgentsHaveModels == config.profile \in Profiles /\ config.models # "none" /\ (config.models = "cloud" => Keyed)

\* _apply_model_chain gives all agents the chain.
ApplyModelChain(chain) == [config EXCEPT !.models = chain]

\* ensure_model_auth: agents without a usable model get the chain of the
\* environment, and the OpenClaw wizard where that does not help.
Models ==
  /\ At("models")
  /\ UNCHANGED <<hostVars, assets, envVars, units, stack, torn, delivered, used>>
  /\ \/ AgentsHaveModels /\ Onward /\ UNCHANGED config
     \/ /\ config.profile \in Profiles /\ ~AgentsHaveModels /\ ModelChain # "none"
        /\ config' = ApplyModelChain(ModelChain)
        /\ IF AgentsHaveModels' THEN Onward
           ELSE run' = [run EXCEPT !.todo = <<"wizard">> \o Tail(@)] /\ UNCHANGED locked
     \/ /\ config.profile \in Profiles /\ ~AgentsHaveModels /\ ModelChain = "none"
        /\ run' = [run EXCEPT !.todo = <<"wizard">> \o Tail(@)]
        /\ UNCHANGED <<config, locked>>
     \/ config.profile \notin Profiles /\ Raise /\ UNCHANGED config

Wizard ==
  /\ At("wizard")
  /\ IF run.asks THEN config' = [config EXCEPT !.models = "wizard"] /\ Onward
                 ELSE UNCHANGED config /\ Raise
  /\ UNCHANGED <<hostVars, assets, envVars, units, stack, torn, delivered, used>>

Refresh_Unprobed ==
  /\ At("refresh")
  /\ IF flag THEN Raise ELSE Onward
  /\ UNCHANGED <<hostVars, assets, config, envVars, units, stack, torn, delivered, used>>

\* setup_main pauses until a shell has the group.
Refresh ==
  /\ At("refresh")
  /\ IF flag /\ ~Reachable THEN UNCHANGED flag /\ Raise ELSE ClearRefresh /\ Onward
  /\ UNCHANGED <<docker, group, shell, mark, tools, assets, config, envVars, units, stack, torn, delivered, used>>

\* render_service_files
RenderUnits ==
  /\ At("units")
  /\ units' = units \cup {"files"}
  /\ Onward
  /\ UNCHANGED <<hostVars, assets, config, envVars, stack, torn, delivered, used>>

\* activate_services calls ensure_docker_backend_ready.
Services ==
  /\ At("services")
  /\ IF Reachable THEN ClearRefresh /\ Onward ELSE UNCHANGED flag /\ Raise
  /\ UNCHANGED <<docker, group, shell, mark, tools, assets, config, envVars, units, stack, torn, delivered, used>>

\* The units are enabled one by one; the sidecars' first start makes the
\* database with the secret of the environment, and postgres refuses a blank one.
Sidecars ==
  /\ At("sidecars")
  /\ IF env.secret = 0 /\ "sidecars" \notin units
     THEN Raise /\ UNCHANGED <<units, stack>>
     ELSE /\ units' = units \cup {"sidecars"}
          /\ stack' = IF stack = 0 THEN env.secret ELSE stack
          /\ Onward
  /\ UNCHANGED <<hostVars, assets, config, envVars, torn, delivered, used>>

Gateway ==
  /\ At("gateway")
  /\ units' = units \cup {"gateway"}
  /\ Onward
  /\ UNCHANGED <<hostVars, assets, config, envVars, stack, torn, delivered, used>>

Served == IF "sidecars" \in units THEN Listeners(Shipped.compose, DOMAIN Shipped.compose) ELSE {}

\* The index is built where the profile has one and its status asks for it,
\* which takes an embedding model.
HypermemoryReady == config.profile \in Hypermemory => env.embed

\* verify_baseline: the reports include the browser lab, which setup does not
\* start: they pass if it happens to run, or with --degraded-verify.
Verify ==
  /\ At("verify")
  /\ \E degraded, lab \in BOOLEAN :
       LET here == Served \cup (IF lab THEN Listeners(Shipped.lab, DOMAIN Shipped.lab) ELSE {})
       IN  IF /\ "openclaw" \in tools /\ AgentsHaveModels
              /\ HypermemoryReady
              /\ SidecarsReport(Shipped, here, degraded)
              /\ ObservabilityReport(Shipped, here, degraded)
              /\ ChannelsReport(Shipped)
              /\ LabReport(Shipped, here, degraded)
           THEN Onward ELSE Raise
  /\ UNCHANGED <<hostVars, assets, config, envVars, units, stack, torn, delivered, used>>

Complete == {"sidecars", "gateway"} \subseteq units /\ AgentsHaveModels /\ ~flag

Wired == IF env.backend = "local" THEN overlay = "none" ELSE overlay # "none" /\ Resolves

\* Setup returns 0.
Done ==
  /\ At("done")
  /\ delivered' = /\ HostReady /\ config.profile = run.profile
                  /\ assets[config.profile] = "whole"
                  /\ env.secret # 0 /\ Wired /\ "files" \in units
                  /\ run.activate => Complete
  /\ run' = [NoRun EXCEPT !.cmd = IF run.activate THEN "activated" ELSE "none"]
  /\ UNCHANGED <<hostVars, assets, config, envVars, units, stack, locked, torn, used>>

-------------------------------------------------------------------------------
(* clawops doctor.  An exception of a check is its failure.                 *)

\* configure_varlock_env(check_only)
EnvContract ==
  /\ "varlock" \in tools
  /\ env.secret # 0 /\ (Default \in Hypermemory => env.embed) /\ Wired

SessionCheck(skip) == ~skip /\ flag => Reachable

OpenClawChecks(skip, alive) ==
  /\ "openclaw" \in tools /\ AgentsHaveModels
  /\ skip \/ ("gateway" \in units /\ alive)

PlatformReports(tree, listeners, skip) ==
  /\ SidecarsReport(tree, listeners, skip)
  /\ ObservabilityReport(tree, listeners, skip)
  /\ ChannelsReport(tree)

\* The exit code is 0 only for "pass": skipped checks make it "degraded".
DoctorPasses(tree, listeners, alive, skip) ==
  /\ ~skip
  /\ EnvContract /\ HostReady /\ SessionCheck(skip)
  /\ OpenClawChecks(skip, alive)
  /\ PlatformReports(tree, listeners, skip)

\* The containers may be down, or still be those of another tree.  A check of
\* the environment adds an embedding model that the process has been given.
DoctorScan ==
  /\ "doctor" \in Commands /\ run.todo = <<>> /\ Command
  /\ run' = NoRun
  /\ UNCHANGED <<docker, group, shell, mark, tools, assets, config, overlay, units, stack, locked, torn>>
  /\ \E tree \in Trees, other \in Trees, alive, skip, given \in BOOLEAN :
       /\ flag' = (flag /\ (skip \/ ~Reachable))
       /\ env' = [env EXCEPT !.embed = @ \/ (given /\ Default \in Hypermemory /\ env.secret # 0)]
       /\ LET here == IF alive /\ "sidecars" \in units
                      THEN Listeners(other.compose, DOMAIN other.compose) ELSE {}
              pass == DoctorPasses(tree, here, alive, skip)'
          IN  delivered' = /\ pass => Complete' /\ \A l \in here : l.address \in Loopback
                           /\ (/\ run.cmd = "activated" /\ tree = Shipped /\ other = Shipped
                               /\ alive /\ ~skip /\ (Default \in Hypermemory => env'.embed)) => pass

-------------------------------------------------------------------------------
(* The rest of the world.                                                   *)

\* Any step may fail, or be the last before a kill.
Fails ==
  /\ run.todo # <<>> /\ Fault
  /\ Raise
  /\ UNCHANGED <<hostVars, assets, config, envVars, units, stack, torn, delivered>>

\* set_env_assignment truncates .env.local before it writes it.
Torn ==
  /\ \/ At("defaults") /\ env.secret = 0
     \/ At("backend") \/ At("prompt") \/ At("ollama") \/ At("embed")
  /\ Fault
  /\ env' = Blank /\ torn' = TRUE
  /\ Raise
  /\ UNCHANGED <<hostVars, assets, config, overlay, units, stack, delivered>>

\* _apply_model_chain, and the rendering, truncate openclaw.json likewise.
TornConfig ==
  /\ At("render") \/ (At("models") /\ ModelChain # "none" /\ config.profile \in Profiles)
  /\ Fault
  /\ config' = [profile |-> "torn", models |-> "none"]
  /\ Raise
  /\ UNCHANGED <<hostVars, assets, envVars, units, stack, torn, delivered>>

FreshShell ==
  /\ run.todo = <<>> /\ group /\ ~shell
  /\ shell' = TRUE
  /\ UNCHANGED <<docker, group, flag, mark, tools, assets, config, envVars, units, stack, run, locked, torn, delivered, used>>

\* The person installs the plugin that docker lacks.
AddCompose ==
  /\ run.todo = <<>> /\ docker = "no compose"
  /\ docker' = "here"
  /\ UNCHANGED <<group, shell, flag, mark, tools, assets, config, envVars, units, stack, run, locked, torn, delivered, used>>

\* A person who wants the host to be complete repeats the guided setup, and
\* reviews the secret backend when asked.
Again ==
  /\ ~Complete
  /\ Start("setup", Default, FALSE, TRUE, TRUE, "auto", TRUE)
  /\ UNCHANGED used

-------------------------------------------------------------------------------
Step ==
  \/ NodeRuntime \/ Docker \/ Varlock \/ UvSync \/ GlobalTools \/ Assets \/ Fetch \/ Render \/ Doctor \/ Grant \/ Probe \/ Mark
  \/ Defaults \/ Backend \/ Overlay \/ Prompt \/ Ollama \/ Embed \/ Validate
  \/ Models \/ Wizard \/ RenderUnits \/ Refresh \/ Services \/ Sidecars \/ Gateway \/ Verify \/ Done

Next ==
  \/ Begin \/ Again \/ Step \/ DoctorScan \/ DockerHalfInstalled \/ GrantUnmarked \/ Fails \/ Torn \/ TornConfig
  \/ FreshShell \/ AddCompose

Spec == Init /\ [][Next]_vars
FairSpec == Spec /\ WF_vars(Step) /\ WF_vars(Again) /\ SF_vars(FreshShell) /\ SF_vars(AddCompose)
-------------------------------------------------------------------------------
(* Properties.                                                              *)

TypeOK ==
  /\ docker \in {"absent", "no compose", "here"}
  /\ assets \in [Profiles -> {"none", "partial", "whole"}]
  /\ tools \subseteq {"node", "varlock", "uv", "openclaw"}
  /\ config.profile \in Profiles \cup {"none", "torn"}
  /\ config.models \in {"none", "ollama", "cloud", "wizard"}
  /\ env.backend \in {"local", "managed"} /\ env.chain \in {"none", "ollama", "cloud"}
  /\ overlay \in {"none", "bare", "keys"}
  /\ units \subseteq {"files", "sidecars", "gateway"}
  /\ flag => group

\* Whatever earlier commands were interrupted, a setup that returns 0 leaves
\* the configuration and the whole assets of its own profile, the tools that
\* they need, a usable secret, an overlay that fits the backend, and if it was
\* to activate, the services with models and no pause outstanding.  A doctor
\* that passes read a complete host, and one right after a full setup passes.
SetupDelivers == delivered

\* What it takes of the trees: they publish the same ports, and the shipped one
\* passes the reports when its own services run.
TreesAgreeOnPorts ==
  \A tree, other \in Trees : \A l \in Listeners(other.compose, DOMAIN other.compose) :
    l.port \in ProbedPorts(tree.compose, RequiredServices)

ShippedTreeIsSound ==
  PlatformReports(Shipped, Listeners(Shipped.compose, DOMAIN Shipped.compose), FALSE)

\* A bootstrap that is recorded, and so never run again, has done what later
\* setups rely on: docker, the tools and the user's access to docker -- except
\* where an earlier one that installed docker ended before it gave access.
MarkedHostWorks == mark => tools = {"node", "varlock", "uv", "openclaw"} /\ docker = "here" /\ (locked \/ group)

\* The environment keeps the secret with which the database was made, over every
\* interrupted command but one that was killed in the middle of a rewrite.
DatabaseOpens == stack # 0 /\ ~torn => env.secret = stack

\* A person who repeats the guided setup and opens a new shell gets the host
\* complete, unless docker access is lost for good.
Recovers == <>[]Complete \/ <>[](locked /\ ~group)

\* README.md: setup offers managed secret backends and prompts for what is
\* missing, so a guided configuration is not refused for want of an answer.
GuidedConfigures == [][At("validate") /\ run.asks /\ run'.cmd = "none" => used' # used]_vars
===============================================================================

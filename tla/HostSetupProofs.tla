---------------------------- MODULE HostSetupProofs ----------------------------
(***************************************************************************)
(* Proofs about HostSetup, for every set of profiles and commands and any  *)
(* bounds: what a recorded bootstrap stands for, that the database opens   *)
(* with the secret that the environment keeps, and what a setup or doctor  *)
(* that reports success leaves behind.                                     *)
(*                                                                         *)
(* A command is the sequence of the steps it has left, so what a step may  *)
(* rely on is stated over that sequence: a fact holds already, or a step   *)
(* that establishes it comes first.                                        *)
(***************************************************************************)
EXTENDS HostSetup, SequenceTheorems, TLAPS

-------------------------------------------------------------------------------
(***************************************************************************)
(* Types.                                                                  *)
(***************************************************************************)

AllTools == {"node", "varlock", "uv", "openclaw"}

\* The steps of the bootstrap that what is recorded relies on, and all others.
BootStep == AllTools \cup {"docker", "grant", "probe", "mark"}
PlainStep == {"assets", "fetch", "render", "doctor", "defaults", "backend", "overlay", "prompt", "ollama",
              "embed", "validate", "models", "wizard", "refresh", "units", "services", "sidecars",
              "gateway", "verify", "done"}

Env == [backend : {"local", "managed"}, chain : {"none", "ollama", "cloud"}, embed : BOOLEAN, secret : Nat]

Run == [cmd : Commands \cup {"setup", "none", "activated"}, todo : Seq(BootStep \cup PlainStep),
        profile : Profiles, asks : BOOLEAN, review : BOOLEAN, activate : BOOLEAN, installed : BOOLEAN,
        added : BOOLEAN]

Typed ==
  /\ docker \in {"absent", "no compose", "here"}
  /\ group \in BOOLEAN /\ shell \in BOOLEAN /\ flag \in BOOLEAN /\ mark \in BOOLEAN
  /\ locked \in BOOLEAN /\ torn \in BOOLEAN
  /\ tools \subseteq AllTools
  /\ env \in Env /\ stack \in Nat
  /\ run \in Run

(***************************************************************************)
(* What the order of the steps of a command guarantees.                    *)
(***************************************************************************)

\* The choice of a backend is followed by the overlay that belongs to it.
BackendThenOverlay(todo) ==
  \A i \in 1..Len(todo) : todo[i] = "backend" => i < Len(todo) /\ todo[i + 1] = "overlay"

Earlier(todo, i, step) == \E k \in 1..(i - 1) : todo[k] = step

\* The step that gives the user access to docker, before any that relies on it.
GrantFrom(todo, i) ==
  \E k \in i..Len(todo) :
    todo[k] = "grant" /\ \A j \in i..k : todo[j] \notin {"probe", "mark", "done"}

GrantAhead(todo) == \A i \in 1..Len(todo) : todo[i] = "docker" => GrantFrom(todo, i)

\* When the bootstrap comes to record itself, the tools and docker are there.
ToolsBeforeMark(todo) ==
  \A j \in 1..Len(todo) : todo[j] = "mark" =>
    /\ \A tool \in AllTools : tool \in tools \/ Earlier(todo, j, tool)
    /\ docker = "here" \/ Earlier(todo, j, "docker")

\* Who installed docker gives its user access before anything relies on it.
AccessAhead(todo) == run.installed /\ ~group => GrantFrom(todo, 1)

\* Docker came with the host, or its user has access to it, or a command that
\* installed it is running, or one ended too early.
AccessToDocker == docker # "absent" => group \/ locked \/ run.installed

MarkInv ==
  /\ Typed
  /\ BackendThenOverlay(run.todo) /\ GrantAhead(run.todo)
  /\ ToolsBeforeMark(run.todo) /\ AccessAhead(run.todo)
  /\ AccessToDocker /\ MarkedHostWorks

\* Postgres never started without a secret.
StartedWithSecret == "sidecars" \in units => stack # 0

SecretInv == Typed /\ StartedWithSecret /\ DatabaseOpens

-------------------------------------------------------------------------------
(***************************************************************************)
(* The order of the steps.                                                 *)
(***************************************************************************)

StepName == BootStep \cup PlainStep

LEMMA TailFacts ==
  ASSUME NEW S, NEW s \in Seq(S), s # <<>>
  PROVE  /\ Tail(s) \in Seq(S) /\ Len(s) \in Nat \ {0} /\ Len(Tail(s)) = Len(s) - 1
         /\ Head(s) = s[1] /\ \A i \in 1..(Len(s) - 1) : Tail(s)[i] = s[i + 1]
OBVIOUS

LEMMA ConcatFacts ==
  ASSUME NEW S, NEW a \in Seq(S), NEW b \in Seq(S), NEW s, s = a \o b
  PROVE  /\ s \in Seq(S) /\ Len(a) \in Nat /\ Len(b) \in Nat /\ Len(s) = Len(a) + Len(b)
         /\ \A i \in 1..Len(a) : s[i] = a[i]
         /\ \A i \in (Len(a) + 1)..Len(s) : s[i] = b[i - Len(a)]
OBVIOUS

LEMMA WizardFacts ==
  ASSUME NEW s \in Seq(StepName), s # <<>>, NEW w, w = <<"wizard">> \o Tail(s)
  PROVE  /\ w \in Seq(StepName) /\ Len(w) = Len(s) /\ w[1] = "wizard" /\ Len(s) \in Nat
         /\ \A i \in 2..Len(s) : w[i] = s[i]
<1>1. Tail(s) \in Seq(StepName) /\ Len(Tail(s)) = Len(s) - 1 /\ Len(s) \in Nat \ {0}
      /\ \A i \in 1..(Len(s) - 1) : Tail(s)[i] = s[i + 1]
  BY TailFacts
<1>2. <<"wizard">> \in Seq(StepName) /\ Len(<<"wizard">>) = 1 /\ <<"wizard">>[1] = "wizard"
  BY DEF StepName, PlainStep
<1> QED
  BY <1>1, <1>2

LEMMA OrderTail ==
  ASSUME NEW s \in Seq(StepName), s # <<>>, BackendThenOverlay(s), GrantAhead(s)
  PROVE  /\ BackendThenOverlay(Tail(s)) /\ GrantAhead(Tail(s))
         /\ \A i \in 2..Len(s) : GrantFrom(s, i) => GrantFrom(Tail(s), i - 1)
<1> DEFINE t == Tail(s)
<1>1. /\ Len(s) \in Nat \ {0} /\ Len(t) = Len(s) - 1
      /\ \A i \in 1..(Len(s) - 1) : t[i] = s[i + 1]
  BY TailFacts
<1> HIDE DEF t
<1>2. BackendThenOverlay(t)
  BY <1>1 DEF BackendThenOverlay
<1>3. ASSUME NEW i \in 2..Len(s), GrantFrom(s, i) PROVE GrantFrom(t, i - 1)
  <2>1. PICK k \in i..Len(s) : s[k] = "grant" /\ \A j \in i..k : s[j] \notin {"probe", "mark", "done"}
    BY <1>3 DEF GrantFrom
  <2>2. k - 1 \in (i - 1)..Len(t) /\ t[k - 1] = "grant"
    BY <1>1, <2>1
  <2>3. ASSUME NEW j \in (i - 1)..(k - 1) PROVE t[j] \notin {"probe", "mark", "done"}
    <3>1. j + 1 \in i..k /\ t[j] = s[j + 1]
      BY <1>1, <2>1
    <3> QED
      BY <2>1, <3>1
  <2> QED
    BY <2>2, <2>3 DEF GrantFrom
<1>4. ASSUME NEW i \in 1..Len(t), t[i] = "docker" PROVE GrantFrom(t, i)
  <2>1. i + 1 \in 2..Len(s) /\ s[i + 1] = "docker" /\ (i + 1) - 1 = i
    BY <1>1, <1>4
  <2>2. GrantFrom(s, i + 1)
    BY <2>1 DEF GrantAhead
  <2> QED
    BY <1>3, <2>1, <2>2
<1> QED
  BY <1>2, <1>3, <1>4 DEF GrantAhead, t

LEMMA OrderWizard ==
  ASSUME NEW s \in Seq(StepName), s # <<>>, s[1] = "models", BackendThenOverlay(s), GrantAhead(s),
         NEW w, w = <<"wizard">> \o Tail(s)
  PROVE  /\ BackendThenOverlay(w) /\ GrantAhead(w)
         /\ GrantFrom(s, 1) => GrantFrom(w, 1)
<1>1. /\ Len(w) = Len(s) /\ w[1] = "wizard" /\ Len(s) \in Nat
      /\ \A i \in 2..Len(s) : w[i] = s[i]
  BY WizardFacts
<1>2. BackendThenOverlay(w)
  BY <1>1 DEF BackendThenOverlay
<1>3. ASSUME NEW i \in 1..Len(w), GrantFrom(s, i) PROVE GrantFrom(w, i)
  <2>1. PICK k \in i..Len(s) : s[k] = "grant" /\ \A j \in i..k : s[j] \notin {"probe", "mark", "done"}
    BY <1>3 DEF GrantFrom
  <2>2. k \in 2..Len(s) /\ \A j \in i..k : j = 1 \/ j \in 2..Len(s)
    BY <1>1, <2>1
  <2> QED
    BY <1>1, <2>1, <2>2 DEF GrantFrom
<1>4. GrantAhead(w)
  BY <1>1, <1>3 DEF GrantAhead
<1>5. GrantFrom(s, 1) => GrantFrom(w, 1)
  <2>1. Len(s) # 0
    OBVIOUS
  <2> QED
    BY <1>1, <1>3, <2>1
<1> QED
  BY <1>2, <1>4, <1>5

\* A program, before its first step.
Ordered(s) ==
  /\ s \in Seq(StepName)
  /\ BackendThenOverlay(s) /\ GrantAhead(s)
  /\ \A j \in 1..Len(s) : s[j] = "mark" =>
       (\A tool \in AllTools : Earlier(s, j, tool)) /\ Earlier(s, j, "docker")

LEMMA PlainIsOrdered ==
  ASSUME NEW s \in Seq(PlainStep), BackendThenOverlay(s) PROVE Ordered(s)
<1>1. \A i \in 1..Len(s) : s[i] \in PlainStep
  OBVIOUS
<1>2. s \in Seq(StepName)
  BY DEF StepName
<1> QED
  BY <1>1, <1>2 DEF Ordered, GrantAhead, PlainStep

LEMMA BootFacts ==
  /\ BootSteps \in Seq(StepName) /\ Len(BootSteps) = 12
  /\ BootSteps[1] = "node" /\ BootSteps[2] = "docker" /\ BootSteps[3] = "varlock" /\ BootSteps[4] = "uv"
  /\ BootSteps[5] = "assets" /\ BootSteps[6] = "fetch" /\ BootSteps[7] = "openclaw"
  /\ BootSteps[8] = "render" /\ BootSteps[9] = "doctor" /\ BootSteps[10] = "grant"
  /\ BootSteps[11] = "probe" /\ BootSteps[12] = "mark"
BY DEF BootSteps, StepName, BootStep, PlainStep, AllTools

LEMMA BootIsOrdered == Ordered(BootSteps)
<1> DEFINE s == BootSteps
<1>1. /\ s \in Seq(StepName) /\ Len(s) = 12
      /\ s[1] = "node" /\ s[2] = "docker" /\ s[3] = "varlock" /\ s[4] = "uv" /\ s[5] = "assets"
      /\ s[6] = "fetch" /\ s[7] = "openclaw" /\ s[8] = "render" /\ s[9] = "doctor" /\ s[10] = "grant"
      /\ s[11] = "probe" /\ s[12] = "mark"
  BY BootFacts
<1> HIDE DEF s
<1>2. \A j \in 1..12 : j = 1 \/ j = 2 \/ j = 3 \/ j = 4 \/ j = 5 \/ j = 6 \/ j = 7 \/ j = 8 \/ j = 9
                       \/ j = 10 \/ j = 11 \/ j = 12
  OBVIOUS
<1>3. \A j \in 1..12 : /\ s[j] = "mark" => j = 12
                       /\ s[j] \in {"probe", "mark", "done"} => j \in {11, 12}
                       /\ s[j] = "docker" => j = 2
                       /\ s[j] # "backend"
  BY <1>1, <1>2
<1>4. ASSUME NEW i \in 1..12, s[i] = "docker" PROVE GrantFrom(s, i)
  <2>1. i = 2 /\ 10 \in i..Len(s) /\ s[10] = "grant"
    BY <1>1, <1>3, <1>4
  <2>2. \A j \in i..10 : s[j] \notin {"probe", "mark", "done"}
    BY <1>3, <2>1
  <2> QED
    BY <2>1, <2>2 DEF GrantFrom
<1>5. ASSUME NEW j \in 1..12, s[j] = "mark"
      PROVE  (\A tool \in AllTools : Earlier(s, j, tool)) /\ Earlier(s, j, "docker")
  <2>1. 1 \in 1..(j - 1) /\ 2 \in 1..(j - 1) /\ 3 \in 1..(j - 1) /\ 4 \in 1..(j - 1) /\ 7 \in 1..(j - 1)
    BY <1>3, <1>5
  <2> QED
    BY <1>1, <2>1 DEF Earlier, AllTools
<1>7. Ordered(s)
  BY <1>1, <1>3, <1>4, <1>5 DEF Ordered, BackendThenOverlay, GrantAhead
<1> QED
  BY <1>7 DEF s

\* Plain steps may follow.
LEMMA PlainMayFollow ==
  ASSUME NEW a, Ordered(a), NEW b \in Seq(PlainStep), BackendThenOverlay(b) PROVE Ordered(a \o b)
<1>1. PICK s : s = a \o b
  OBVIOUS
<1>2. /\ s \in Seq(StepName) /\ Len(a) \in Nat /\ Len(b) \in Nat /\ Len(s) = Len(a) + Len(b)
      /\ \A i \in 1..Len(a) : s[i] = a[i]
      /\ \A i \in (Len(a) + 1)..Len(s) : s[i] = b[i - Len(a)]
  <2>1. a \in Seq(StepName) /\ b \in Seq(StepName)
    BY DEF Ordered, StepName
  <2> QED
    BY <1>1, <2>1, ConcatFacts
<1>3. PICK m \in Nat, n \in Nat : m = Len(a) /\ n = Len(b)
  BY <1>2
<1>4. ASSUME NEW i \in 1..(m + n), s[i] = "backend" PROVE i < m + n /\ s[i + 1] = "overlay"
  <2>1. CASE i \in 1..m
    <3>1. i < m /\ a[i + 1] = "overlay"
      BY <1>2, <1>3, <1>4, <2>1 DEF Ordered, BackendThenOverlay
    <3>2. i + 1 \in 1..m
      BY <2>1, <3>1
    <3>3. i < m + n
      BY <3>1
    <3> QED
      BY <1>2, <1>3, <3>1, <3>2, <3>3
  <2>2. CASE i \notin 1..m
    <3>1. i - m \in 1..n /\ b[i - m] = "backend"
      BY <1>2, <1>3, <1>4, <2>2
    <3>2. i - m < n /\ b[i - m + 1] = "overlay"
      BY <1>3, <3>1 DEF BackendThenOverlay
    <3>3. i + 1 \in (m + 1)..(m + n) /\ i + 1 - m = i - m + 1 /\ i < m + n
      BY <2>2, <3>2
    <3>4. s[i + 1] = b[i + 1 - m]
      BY <1>2, <1>3, <3>3
    <3> QED
      BY <3>2, <3>3, <3>4
  <2> QED
    BY <2>1, <2>2
<1>5. ASSUME NEW j \in 1..(m + n), s[j] \in BootStep PROVE j \in 1..m /\ s[j] = a[j]
  <2>1. CASE j \notin 1..m
    <3>1. j - m \in 1..n /\ s[j] = b[j - m]
      BY <1>2, <1>3, <2>1
    <3>2. b[j - m] \in PlainStep
      BY <1>3, <3>1
    <3> QED
      BY <1>5, <3>1, <3>2 DEF PlainStep, BootStep, AllTools
  <2> QED
    BY <1>2, <1>3, <2>1
<1>6. ASSUME NEW i \in 1..(m + n), s[i] = "docker" PROVE GrantFrom(s, i)
  <2>1. i \in 1..m /\ a[i] = "docker"
    BY <1>5, <1>6 DEF BootStep
  <2>2. PICK k \in i..m : a[k] = "grant" /\ \A j \in i..k : a[j] \notin {"probe", "mark", "done"}
    BY <1>3, <2>1 DEF Ordered, GrantAhead, GrantFrom
  <2>3. \A j \in i..k : s[j] = a[j]
    BY <1>2, <1>3, <2>1
  <2>4. k \in i..Len(s) /\ k \in i..k
    BY <1>2, <1>3, <2>1
  <2> QED
    BY <2>2, <2>3, <2>4 DEF GrantFrom
<1>7. ASSUME NEW j \in 1..(m + n), s[j] = "mark", NEW step, Earlier(a, j, step)
      PROVE  Earlier(s, j, step)
  <2>1. j \in 1..m
    BY <1>5, <1>7 DEF BootStep
  <2>2. \A k \in 1..(j - 1) : s[k] = a[k]
    BY <1>2, <1>3, <2>1
  <2> QED
    BY <1>7, <2>2 DEF Earlier
<1>8. \A j \in 1..(m + n) : s[j] = "mark" =>
        (\A tool \in AllTools : Earlier(s, j, tool)) /\ Earlier(s, j, "docker")
  BY <1>3, <1>5, <1>7 DEF Ordered, BootStep
<1> QED
  <2>1. Len(s) = m + n
    BY <1>2, <1>3
  <2>2. BackendThenOverlay(s)
    BY <1>4, <2>1 DEF BackendThenOverlay
  <2>3. GrantAhead(s)
    BY <1>6, <2>1 DEF GrantAhead
  <2>4. Ordered(s)
    BY <1>2, <1>8, <2>1, <2>2, <2>3 DEF Ordered
  <2> QED
    BY <1>1, <2>4

LEMMA ConcatBackend ==
  ASSUME NEW a \in Seq(PlainStep), NEW b \in Seq(PlainStep), BackendThenOverlay(a), BackendThenOverlay(b)
  PROVE  a \o b \in Seq(PlainStep) /\ BackendThenOverlay(a \o b)
<1>1. Ordered(a \o b)
  BY PlainIsOrdered, PlainMayFollow
<1> QED
  BY <1>1 DEF Ordered

LEMMA EmptyIsOrdered == <<>> \in Seq(PlainStep) /\ BackendThenOverlay(<<>>)
<1>0. <<>> \in Seq(PlainStep) /\ Len(<<>>) = 0
  OBVIOUS
<1>1. PICK s \in Seq(PlainStep) : s = <<>> /\ Len(s) = 0
  BY <1>0
<1>2. 1..Len(s) = {}
  BY <1>1
<1> QED
  BY <1>1, <1>2 DEF BackendThenOverlay

LEMMA ConfigureIsPlain ==
  ASSUME NEW asks \in BOOLEAN
  PROVE  Configure(asks) \in Seq(PlainStep) /\ BackendThenOverlay(Configure(asks))
<1>1. <<"defaults">> \in Seq(PlainStep) /\ BackendThenOverlay(<<"defaults">>)
  BY DEF PlainStep, BackendThenOverlay
<1>2. <<"backend", "overlay", "prompt">> \in Seq(PlainStep)
      /\ BackendThenOverlay(<<"backend", "overlay", "prompt">>)
  BY DEF PlainStep, BackendThenOverlay
<1>3. <<"ollama">> \in Seq(PlainStep) /\ BackendThenOverlay(<<"ollama">>)
  BY DEF PlainStep, BackendThenOverlay
<1>4. <<"embed", "validate">> \in Seq(PlainStep) /\ BackendThenOverlay(<<"embed", "validate">>)
  BY DEF PlainStep, BackendThenOverlay
<1>5. PICK q \in Seq(PlainStep) : /\ BackendThenOverlay(q)
                                 /\ q = IF asks THEN <<"backend", "overlay", "prompt">> ELSE <<"ollama">>
  BY <1>2, <1>3
<1>6. PICK x \in Seq(PlainStep) : x = <<"defaults">> \o q /\ BackendThenOverlay(x)
  BY <1>1, <1>5, ConcatBackend
<1>7. PICK y \in Seq(PlainStep) : y = x \o <<"embed", "validate">> /\ BackendThenOverlay(y)
  BY <1>4, <1>6, ConcatBackend
<1>8. Configure(asks) = y
  BY <1>5, <1>6, <1>7 DEF Configure
<1> QED
  BY <1>7, <1>8

LEMMA ActivationIsPlain ==
  Activation \in Seq(PlainStep) /\ BackendThenOverlay(Activation)
BY DEF Activation, PlainStep, BackendThenOverlay

LEMMA ProgramIsOrdered ==
  ASSUME NEW cmd \in {"setup", "bootstrap", "configure", "activate"}, NEW skip \in BOOLEAN,
         NEW given \in BOOLEAN, NEW asks \in BOOLEAN, NEW activate \in BOOLEAN
  PROVE  Ordered(Steps(cmd, skip, given, asks, activate))
<1>1. CASE cmd = "bootstrap"
  BY <1>1, BootIsOrdered DEF Steps
<1>2. CASE cmd = "configure"
  BY <1>2, ConfigureIsPlain, PlainIsOrdered DEF Steps
<1>3. CASE cmd = "activate"
  BY <1>3, ActivationIsPlain, PlainIsOrdered DEF Steps
<1>4. CASE cmd = "setup"
  <2>1. PICK s1 : s1 = (IF skip THEN <<"assets", "fetch">> ELSE BootSteps) /\ Ordered(s1)
    <3>1. <<"assets", "fetch">> \in Seq(PlainStep) /\ BackendThenOverlay(<<"assets", "fetch">>)
      BY DEF PlainStep, BackendThenOverlay
    <3> QED
      BY <3>1, PlainIsOrdered, BootIsOrdered
  <2>2. PICK s2 : s2 = s1 \o Configure(asks) /\ Ordered(s2)
    BY <2>1, ConfigureIsPlain, PlainMayFollow
  <2>3. PICK s3 : s3 = s2 \o (IF given \/ skip THEN <<"render", "doctor">> ELSE <<>>) /\ Ordered(s3)
    <3>1. <<"render", "doctor">> \in Seq(PlainStep) /\ BackendThenOverlay(<<"render", "doctor">>)
      BY DEF PlainStep, BackendThenOverlay
    <3>2. <<>> \in Seq(PlainStep) /\ BackendThenOverlay(<<>>)
      BY EmptyIsOrdered
    <3>3. CASE given \/ skip
      BY <2>2, <3>1, <3>3, PlainMayFollow
    <3>4. CASE ~(given \/ skip)
      BY <2>2, <3>2, <3>4, PlainMayFollow
    <3> QED
      BY <3>3, <3>4
  <2>4. PICK act \in Seq(PlainStep) :
          /\ BackendThenOverlay(act)
          /\ act = IF activate THEN <<"models", "refresh">> \o Activation \o <<"verify">> ELSE <<"units">>
    <3>1. <<"models", "refresh">> \in Seq(PlainStep) /\ BackendThenOverlay(<<"models", "refresh">>)
      BY DEF PlainStep, BackendThenOverlay
    <3>2. <<"verify">> \in Seq(PlainStep) /\ BackendThenOverlay(<<"verify">>)
      BY DEF PlainStep, BackendThenOverlay
    <3>3. <<"units">> \in Seq(PlainStep) /\ BackendThenOverlay(<<"units">>)
      BY DEF PlainStep, BackendThenOverlay
    <3>4. PICK x \in Seq(PlainStep) : x = <<"models", "refresh">> \o Activation /\ BackendThenOverlay(x)
      BY <3>1, ActivationIsPlain, ConcatBackend
    <3>5. PICK y \in Seq(PlainStep) : y = x \o <<"verify">> /\ BackendThenOverlay(y)
      BY <3>2, <3>4, ConcatBackend
    <3> QED
      BY <3>3, <3>4, <3>5
  <2>5. PICK s4 : s4 = s3 \o act /\ Ordered(s4)
    BY <2>3, <2>4, PlainMayFollow
  <2>6. PICK s5 : s5 = s4 \o <<"done">> /\ Ordered(s5)
    <3>1. <<"done">> \in Seq(PlainStep) /\ BackendThenOverlay(<<"done">>)
      BY DEF PlainStep, BackendThenOverlay
    <3> QED
      BY <2>5, <3>1, PlainMayFollow
  <2>7. Steps(cmd, skip, given, asks, activate) = s5
    BY <1>4, <2>1, <2>2, <2>3, <2>4, <2>5, <2>6 DEF Steps
  <2> QED
    BY <2>6, <2>7
<1> QED
  BY <1>1, <1>2, <1>3, <1>4

-------------------------------------------------------------------------------
(***************************************************************************)
(* Types.                                                                  *)
(***************************************************************************)

LEMMA RunFacts ==
  ASSUME Typed
  PROVE  /\ NoRun \in Run /\ NoRun.todo = <<>> /\ NoRun.installed = FALSE
         /\ run.todo \in Seq(StepName) /\ run.installed \in BOOLEAN
         /\ \A s \in Seq(StepName) : [run EXCEPT !.todo = s] \in Run /\ [run EXCEPT !.todo = s].todo = s
         /\ \A s \in Seq(StepName) : LET r == [run EXCEPT !.todo = s, !.installed = TRUE] IN
              r \in Run /\ r.todo = s /\ r.installed = TRUE
         /\ \A s \in Seq(StepName) : LET r == [run EXCEPT !.todo = s, !.added = TRUE] IN
              r \in Run /\ r.todo = s /\ r.installed = run.installed
         /\ \A s \in Seq(StepName) : LET r == [run EXCEPT !.todo = s, !.installed = FALSE, !.added = FALSE] IN
              r \in Run /\ r.todo = s /\ r.installed = FALSE
         /\ run.todo # <<>> => Tail(run.todo) \in Seq(StepName)
<1>1. NoRun \in Run /\ NoRun.todo = <<>> /\ NoRun.installed = FALSE
  BY HostSetupAssumption DEF NoRun, Run
<1>2. run.todo \in Seq(StepName) /\ run.installed \in BOOLEAN
  BY DEF Typed, Run, StepName
<1>3. \A s \in Seq(StepName) : [run EXCEPT !.todo = s] \in Run /\ [run EXCEPT !.todo = s].todo = s
  BY DEF Typed, Run, StepName
<1>4. \A s \in Seq(StepName) : LET r == [run EXCEPT !.todo = s, !.installed = TRUE] IN
        r \in Run /\ r.todo = s /\ r.installed = TRUE
  BY DEF Typed, Run, StepName
<1>5. \A s \in Seq(StepName) : LET r == [run EXCEPT !.todo = s, !.added = TRUE] IN
        r \in Run /\ r.todo = s /\ r.installed = run.installed
  BY DEF Typed, Run, StepName
<1>6. \A s \in Seq(StepName) : LET r == [run EXCEPT !.todo = s, !.installed = FALSE, !.added = FALSE] IN
        r \in Run /\ r.todo = s /\ r.installed = FALSE
  BY DEF Typed, Run, StepName
<1> QED
  BY <1>1, <1>2, <1>3, <1>4, <1>5, <1>6, TailFacts

LEMMA OnwardFacts ==
  ASSUME Typed, run.todo # <<>>, Onward
  PROVE  run' \in Run /\ run'.todo = Tail(run.todo) /\ run'.installed = run.installed /\ locked' = locked
BY RunFacts DEF Onward, Typed, Run

LEMMA RaiseFacts ==
  ASSUME Typed, Raise
  PROVE  /\ run' \in Run /\ run'.todo = <<>> /\ run'.installed = FALSE /\ locked' \in BOOLEAN
         /\ locked' = (locked \/ (run.installed /\ ~group))
BY RunFacts DEF Raise, Typed

\* Which of the steps move on to the next one, or end the command.
OnOrOut == run.todo # <<>> /\ (Onward \/ Raise)

LEMMA OnOrOutTyped == Typed /\ OnOrOut => run' \in Run /\ locked' \in BOOLEAN
BY OnwardFacts, RaiseFacts DEF OnOrOut, Typed

LEMMA InitTyped == Init => Typed
<1> SUFFICES ASSUME Init PROVE Typed
  OBVIOUS
<1>1. run \in Run
  BY HostSetupAssumption DEF Init, NoRun, Run
<1>2. env \in Env
  BY DEF Init, Blank, Env
<1> QED
  BY <1>1, <1>2 DEF Init, Typed

LEMMA BootTyped ==
  ASSUME Typed, NodeRuntime \/ Docker \/ Varlock \/ UvSync \/ GlobalTools \/ Grant \/ Probe \/ Mark
  PROVE  Typed'
<1> USE DEF hostVars, envVars
<1>1. CASE NodeRuntime \/ Varlock \/ UvSync \/ GlobalTools
  <2>1. OnOrOut
    BY <1>1 DEF NodeRuntime, Varlock, UvSync, GlobalTools, Install, At, OnOrOut
  <2> QED
    BY <1>1, <2>1, OnOrOutTyped DEF NodeRuntime, Varlock, UvSync, GlobalTools, Install, Typed, AllTools
<1>2. CASE Docker
  <2>1. CASE docker = "absent"
    <3>1. run' \in Run
      BY ZenonT(60), <1>2, <2>1, RunFacts DEF Docker, At
    <3> QED
      BY <1>2, <2>1, <3>1 DEF Docker, Typed
  <2>2. CASE docker # "absent"
    <3>1. OnOrOut
      BY <1>2, <2>2 DEF Docker, At, OnOrOut, Typed
    <3> QED
      BY <1>2, <2>2, <3>1, OnOrOutTyped DEF Docker, Typed
  <2> QED
    BY <2>1, <2>2
<1>3. CASE Grant
  <2>1. CASE run.installed /\ ~group
    <3>1. run' \in Run
      BY <1>3, <2>1, RunFacts DEF Grant, At
    <3> QED
      BY <1>3, <2>1, <3>1 DEF Grant, MarkRefresh, Typed
  <2>2. CASE ~(run.installed /\ ~group)
    <3>1. OnOrOut
      BY <1>3, <2>2 DEF Grant, At, OnOrOut
    <3> QED
      BY <1>3, <2>2, <3>1, OnOrOutTyped DEF Grant, Typed
  <2> QED
    BY <2>1, <2>2
<1>4. CASE Probe
  <2>1. flag' \in BOOLEAN
    BY <1>4 DEF Probe, ClearRefresh, Typed, Run
  <2>2. run' \in Run /\ locked' \in BOOLEAN
    <3>1. CASE Raise
      BY <3>1, RaiseFacts
    <3>2. CASE Granted
      BY <1>4, <3>2, RunFacts DEF Granted, Probe, At, Typed, Run, StepName
    <3> QED
      BY <1>4, <3>1, <3>2 DEF Probe, Typed, Run
  <2> QED
    BY <1>4, <2>1, <2>2 DEF Probe, Typed
<1>5. CASE Mark
  <2>1. OnOrOut
    BY <1>5 DEF Mark, At, OnOrOut
  <2> QED
    BY <1>5, <2>1, OnOrOutTyped DEF Mark, Typed
<1> QED
  BY <1>1, <1>2, <1>3, <1>4, <1>5

\* A plain step moves on or ends the command, and leaves docker and tools alone.
PlainMove ==
  /\ OnOrOut /\ Head(run.todo) \in PlainStep
  /\ docker' = docker /\ group' = group /\ mark' = mark /\ tools' = tools

LEMMA EnvironmentSteps ==
  ASSUME Typed, Defaults \/ Prompt \/ Ollama \/ Embed PROVE Typed' /\ PlainMove
<1> USE DEF hostVars
<1>1. env' \in Env
  <2>0. env \in Env
    BY DEF Typed
  <2>1. CASE Defaults
    BY <2>0, <2>1 DEF Defaults, Secret, Env
  <2>2. CASE Prompt
    BY <2>0, <2>2 DEF Prompt, Env
  <2>3. CASE Ollama
    BY <2>0, <2>3 DEF Ollama, Env
  <2>4. CASE Embed
    BY <2>0, <2>4 DEF Embed, Env
  <2> QED
    BY <2>1, <2>2, <2>3, <2>4
<1>2. OnOrOut /\ Head(run.todo) \in PlainStep
  BY DEF Defaults, Prompt, Ollama, Embed, At, OnOrOut, PlainStep
<1>3. UNCHANGED <<docker, group, shell, flag, mark, tools, stack, torn>>
  BY DEF Defaults, Prompt, Ollama, Embed
<1> QED
  BY <1>1, <1>2, <1>3, OnOrOutTyped DEF Typed, PlainMove

LEMMA QuietSteps ==
  ASSUME Typed,
         \/ Assets \/ Fetch \/ Render \/ Doctor \/ Overlay \/ Validate \/ Wizard \/ RenderUnits
         \/ Refresh \/ Services \/ Gateway \/ Verify
  PROVE  Typed' /\ PlainMove /\ UNCHANGED <<env, stack, torn>> /\ ("sidecars" \in units' => "sidecars" \in units)
<1> USE DEF hostVars, envVars
<1>1. OnOrOut /\ Head(run.todo) \in PlainStep
  <2>1. CASE Assets \/ Fetch \/ Render \/ Doctor \/ Overlay \/ RenderUnits \/ Refresh \/ Services \/ Gateway
    BY <2>1 DEF Assets, Fetch, Render, Doctor, Overlay, RenderUnits, Refresh, Services, Gateway, At, OnOrOut,
       PlainStep
  <2>2. CASE Validate
    BY <2>2 DEF Validate, At, OnOrOut, PlainStep
  <2>3. CASE Wizard
    BY <2>3 DEF Wizard, At, OnOrOut, PlainStep
  <2>4. CASE Verify
    BY <2>4 DEF Verify, At, OnOrOut, PlainStep
  <2> QED
    BY <2>1, <2>2, <2>3, <2>4
<1>2. UNCHANGED <<docker, group, shell, mark, tools, env, stack, torn>>
  BY DEF Assets, Fetch, Render, Doctor, Overlay, Validate, Wizard, RenderUnits, Refresh, Services, Gateway,
     Verify
<1>3. flag' \in BOOLEAN
  BY DEF Assets, Fetch, Render, Doctor, Overlay, Validate, Wizard, RenderUnits, Refresh, Services, Gateway,
     Verify, ClearRefresh, Typed
<1>4. "sidecars" \in units' => "sidecars" \in units
  BY DEF Assets, Fetch, Render, Doctor, Overlay, Validate, Wizard, RenderUnits, Refresh, Services, Gateway,
     Verify
<1> QED
  BY <1>1, <1>2, <1>3, <1>4, OnOrOutTyped DEF Typed, PlainMove

LEMMA SidecarsStep == ASSUME Typed, Sidecars PROVE Typed' /\ PlainMove
<1>1. OnOrOut /\ Head(run.todo) \in PlainStep
  BY DEF Sidecars, At, OnOrOut, PlainStep
<1>2. stack' \in Nat
  BY DEF Sidecars, Typed, Env
<1> QED
  BY <1>1, <1>2, OnOrOutTyped DEF Sidecars, Typed, PlainMove, hostVars, envVars

\* A program that is over, by its last step or for another reason.
Ended == run'.todo = <<>> /\ run'.installed = FALSE

\* The choice of the secret backend may go past the overlay that belongs to it.
LEMMA BackendStep ==
  ASSUME Typed, BackendThenOverlay(run.todo), Backend
  PROVE  /\ Typed' /\ UNCHANGED <<docker, group, mark, tools, locked>> /\ run'.installed = run.installed
         /\ run.todo # <<>> /\ Head(run.todo) = "backend"
         /\ \/ run'.todo = Tail(run.todo)
            \/ Tail(run.todo) # <<>> /\ Head(Tail(run.todo)) = "overlay" /\ run'.todo = Tail(Tail(run.todo))
<1> USE DEF hostVars, envVars
<1>0. PICK s \in Seq(StepName) : s = run.todo /\ s # <<>> /\ Head(s) = "backend"
  BY RunFacts DEF Backend, At
<1>1. /\ Tail(s) \in Seq(StepName) /\ Len(s) \in Nat \ {0} /\ Len(Tail(s)) = Len(s) - 1
      /\ s[1] = "backend" /\ \A i \in 1..(Len(s) - 1) : Tail(s)[i] = s[i + 1]
  BY <1>0, TailFacts
<1>2. Tail(s) # <<>> /\ Head(Tail(s)) = "overlay" /\ Tail(Tail(s)) \in Seq(StepName)
  <2>1. 1 < Len(s) /\ s[2] = "overlay"
    BY <1>0, <1>1 DEF BackendThenOverlay
  <2>2. Tail(s) # <<>>
    BY <1>1, <2>1
  <2>3. Head(Tail(s)) = Tail(s)[1] /\ Tail(Tail(s)) \in Seq(StepName)
    BY <1>1, <2>2, TailFacts
  <2> QED
    BY <1>1, <2>1, <2>2, <2>3
<1>3. CASE run' = [run EXCEPT !.todo = Tail(Tail(@))] /\ env' = env
  <2>1. run' = [run EXCEPT !.todo = Tail(Tail(s))]
    BY <1>0, <1>3
  <2>2. run' \in Run /\ run'.todo = Tail(Tail(s)) /\ run'.installed = run.installed
    BY <1>2, <2>1 DEF Typed, Run, StepName
  <2> QED
    BY <1>0, <1>2, <1>3, <2>2 DEF Backend, Typed
<1>4. CASE /\ run' = [run EXCEPT !.todo = Tail(@), !.review = FALSE]
           /\ \E choice \in {"local", "managed"} : env' = [env EXCEPT !.backend = choice]
  <2>1. run' = [run EXCEPT !.todo = Tail(s), !.review = FALSE]
    BY <1>0, <1>4
  <2>2. run' \in Run /\ run'.todo = Tail(s) /\ run'.installed = run.installed
    BY <1>1, <2>1 DEF Typed, Run, StepName
  <2>3. env' \in Env
    BY <1>4 DEF Typed, Env
  <2> QED
    BY <1>0, <1>4, <2>2, <2>3 DEF Backend, Typed
<1> QED
  BY <1>3, <1>4 DEF Backend

LEMMA ModelsStep ==
  ASSUME Typed, Models
  PROVE  /\ Typed' /\ UNCHANGED <<env, stack, torn, units>>
         /\ \/ PlainMove
            \/ /\ UNCHANGED <<docker, group, mark, tools, locked>> /\ run'.installed = run.installed
               /\ run.todo # <<>> /\ Head(run.todo) = "models" /\ run'.todo = <<"wizard">> \o Tail(run.todo)
<1> USE DEF hostVars, envVars
<1>1. UNCHANGED <<docker, group, shell, flag, mark, tools, env, stack, torn, units>>
  BY DEF Models
<1>2. run.todo # <<>> /\ Head(run.todo) = "models"
  BY DEF Models, At
<1>3. CASE OnOrOut
  BY <1>1, <1>2, <1>3, OnOrOutTyped DEF Typed, PlainMove, PlainStep
<1>4. CASE run' = [run EXCEPT !.todo = <<"wizard">> \o Tail(@)] /\ locked' = locked
  <2>1. PICK s \in Seq(StepName) : s = <<"wizard">> \o Tail(run.todo)
    BY <1>2, RunFacts, WizardFacts
  <2>2. run' \in Run /\ run'.todo = s /\ run'.installed = run.installed
    BY <1>4, <2>1 DEF Typed, Run, StepName
  <2> QED
    BY <1>1, <1>2, <1>4, <2>1, <2>2 DEF Typed
<1> QED
  BY <1>2, <1>3, <1>4 DEF Models, OnOrOut

LEMMA DoneStep ==
  ASSUME Typed, Done
  PROVE  /\ Typed' /\ Ended /\ UNCHANGED <<docker, group, mark, tools, locked, env, stack, torn, units>>
         /\ run.todo # <<>> /\ Head(run.todo) = "done"
<1>1. run' \in Run /\ Ended
  <2>1. NoRun \in Run /\ NoRun.todo = <<>> /\ NoRun.installed = FALSE
    BY RunFacts
  <2>2. run' = [NoRun EXCEPT !.cmd = IF run.activate THEN "activated" ELSE "none"]
    BY DEF Done
  <2> QED
    BY <2>1, <2>2 DEF Run, Ended
<1> QED
  BY <1>1 DEF Done, At, Typed, hostVars, envVars

-------------------------------------------------------------------------------
(***************************************************************************)
(* What is recorded.                                                       *)
(***************************************************************************)

TodoInv ==
  /\ BackendThenOverlay(run.todo) /\ GrantAhead(run.todo)
  /\ ToolsBeforeMark(run.todo) /\ AccessAhead(run.todo)

\* A step is done: what it establishes holds, and the others are still ahead.
LEMMA StepDone ==
  ASSUME Typed, TodoInv, run.todo # <<>>, run'.todo = Tail(run.todo),
         run.installed \in BOOLEAN, run'.installed \in BOOLEAN, group' \in BOOLEAN,
         tools \subseteq tools', docker = "here" => docker' = "here", group => group',
         Head(run.todo) \in AllTools => Head(run.todo) \in tools',
         Head(run.todo) = "docker" => docker' = "here",
         run'.installed /\ ~group' =>
           Head(run.todo) = "docker" \/ (run.installed /\ Head(run.todo) # "grant")
  PROVE  TodoInv'
<1>0. PICK s \in Seq(StepName) : s = run.todo
  BY RunFacts
<1>1. /\ Len(s) \in Nat \ {0} /\ Len(Tail(s)) = Len(s) - 1 /\ Head(s) = s[1]
      /\ \A i \in 1..(Len(s) - 1) : Tail(s)[i] = s[i + 1]
  BY <1>0, TailFacts
<1>2. /\ BackendThenOverlay(Tail(s)) /\ GrantAhead(Tail(s))
      /\ \A i \in 2..Len(s) : GrantFrom(s, i) => GrantFrom(Tail(s), i - 1)
  BY <1>0, OrderTail DEF TodoInv
<1>3. PICK t : t = Tail(s) /\ t = run'.todo
  BY <1>0
<1>4. ASSUME NEW j \in 1..Len(t), NEW step, Earlier(s, j + 1, step), Head(s) # step
      PROVE  Earlier(t, j, step)
  <2>1. PICK k \in 1..j : s[k] = step
    BY <1>4 DEF Earlier
  <2>2. k - 1 \in 1..(j - 1) /\ t[k - 1] = s[k]
    BY <1>1, <1>3, <1>4, <2>1
  <2> QED
    BY <2>1, <2>2 DEF Earlier
<1>5. ASSUME NEW j \in 1..Len(t), t[j] = "mark"
      PROVE  /\ \A tool \in AllTools : tool \in tools' \/ Earlier(t, j, tool)
             /\ docker' = "here" \/ Earlier(t, j, "docker")
  <2>1. j + 1 \in 1..Len(s) /\ s[j + 1] = "mark"
    BY <1>1, <1>3, <1>5
  <2>2. /\ \A tool \in AllTools : tool \in tools \/ Earlier(s, j + 1, tool)
        /\ docker = "here" \/ Earlier(s, j + 1, "docker")
    BY <1>0, <2>1 DEF TodoInv, ToolsBeforeMark
  <2> QED
    BY <1>0, <1>4, <2>2
<1>6. ASSUME run'.installed, ~group' PROVE GrantFrom(t, 1)
  <2>1. GrantFrom(s, 1) /\ s[1] # "grant"
    BY <1>0, <1>1, <1>6 DEF TodoInv, GrantAhead, AccessAhead
  <2>2. 2 \in 2..Len(s) /\ GrantFrom(s, 2)
    BY <1>1, <2>1 DEF GrantFrom
  <2> QED
    BY <1>2, <1>3, <2>2
<1> QED
  <2>1. BackendThenOverlay(run.todo)'
    BY <1>2, <1>3 DEF BackendThenOverlay
  <2>2. GrantAhead(run.todo)'
    BY <1>2, <1>3 DEF GrantAhead, GrantFrom
  <2>3. ToolsBeforeMark(run.todo)'
    <3>1. \A j \in 1..Len(t) : t[j] = "mark" =>
            /\ \A tool \in AllTools : tool \in tools' \/ \E k \in 1..(j - 1) : t[k] = tool
            /\ docker' = "here" \/ \E k \in 1..(j - 1) : t[k] = "docker"
      BY <1>5 DEF Earlier
    <3>2. t = run'.todo
      BY <1>3
    <3> HIDE <1>3
    <3> QED
      BY SMTT(30), <3>1, <3>2 DEF ToolsBeforeMark, Earlier
  <2>4. AccessAhead(run.todo)'
    BY <1>3, <1>6 DEF AccessAhead, GrantFrom
  <2> QED
    BY <2>1, <2>2, <2>3, <2>4 DEF TodoInv

LEMMA TodoEnded == Ended => TodoInv'
<1> SUFFICES ASSUME Ended PROVE TodoInv'
  OBVIOUS
<1>1. Len(run'.todo) = 0 /\ ~run'.installed
  BY DEF Ended
<1>2. 1..Len(run'.todo) = {}
  BY <1>1
<1> QED
  BY <1>1, <1>2 DEF TodoInv, BackendThenOverlay, GrantAhead, ToolsBeforeMark, AccessAhead

\* Access is given by whoever stops relying on having installed docker.
LEMMA RelyingOnAccess ==
  ASSUME Typed, TodoInv, run.todo # <<>>, Head(run.todo) \in {"probe", "mark", "done"}
  PROVE  ~run.installed \/ group
<1>1. PICK s \in Seq(StepName) : s = run.todo /\ s # <<>>
  BY RunFacts
<1>2. s[1] \in {"probe", "mark", "done"} /\ Len(s) \in Nat
  BY <1>1, TailFacts
<1> QED
  BY <1>1, <1>2 DEF TodoInv, AccessAhead, GrantFrom

LEMMA PlainMoveInv == ASSUME MarkInv, Typed', PlainMove PROVE MarkInv'
<1> USE DEF MarkInv
<1>1. TodoInv
  BY DEF TodoInv
<1>2. CASE Onward
  <2>1. run'.todo = Tail(run.todo) /\ run'.installed = run.installed /\ locked' = locked /\ run.todo # <<>>
    BY <1>2, OnwardFacts DEF PlainMove, OnOrOut
  <2>2. Head(run.todo) \notin AllTools /\ Head(run.todo) # "docker" /\ Head(run.todo) # "grant"
    BY DEF PlainMove, PlainStep, AllTools
  <2>3. TodoInv'
    BY <1>1, <2>1, <2>2, StepDone, RunFacts DEF PlainMove, Typed
  <2> QED
    BY <2>1, <2>3 DEF PlainMove, TodoInv, AccessToDocker, MarkedHostWorks
<1>3. CASE Raise
  <2>1. Ended /\ locked' = (locked \/ (run.installed /\ ~group))
    BY <1>3, RaiseFacts DEF Ended
  <2>2. TodoInv'
    BY <2>1, TodoEnded
  <2> QED
    BY <2>1, <2>2 DEF PlainMove, TodoInv, AccessToDocker, MarkedHostWorks, Ended
<1> QED
  BY <1>2, <1>3 DEF PlainMove, OnOrOut

\* The same of a sequence, where nothing else changes.
TodoHolds(s) == BackendThenOverlay(s) /\ GrantAhead(s) /\ ToolsBeforeMark(s) /\ AccessAhead(s)

LEMMA PlainTail ==
  ASSUME NEW s \in Seq(StepName), s # <<>>, Head(s) \in PlainStep, TodoHolds(s) PROVE TodoHolds(Tail(s))
<1>1. /\ Len(s) \in Nat \ {0} /\ Len(Tail(s)) = Len(s) - 1 /\ Head(s) = s[1]
      /\ \A i \in 1..(Len(s) - 1) : Tail(s)[i] = s[i + 1]
  BY TailFacts
<1>2. /\ BackendThenOverlay(Tail(s)) /\ GrantAhead(Tail(s))
      /\ \A i \in 2..Len(s) : GrantFrom(s, i) => GrantFrom(Tail(s), i - 1)
  BY OrderTail DEF TodoHolds
<1>3. PICK t : t = Tail(s)
  OBVIOUS
<1>4. ASSUME NEW j \in 1..Len(t), NEW step \in BootStep, Earlier(s, j + 1, step) PROVE Earlier(t, j, step)
  <2>1. PICK k \in 1..j : s[k] = step
    BY <1>4 DEF Earlier
  <2>2. k # 1
    BY <1>1, <2>1 DEF PlainStep, BootStep, AllTools
  <2>3. k - 1 \in 1..(j - 1) /\ t[k - 1] = s[k]
    BY <1>1, <1>3, <1>4, <2>1, <2>2
  <2> QED
    BY <2>1, <2>3 DEF Earlier
<1>5. ToolsBeforeMark(t)
  <2> SUFFICES ASSUME NEW j \in 1..Len(t), t[j] = "mark"
               PROVE  /\ \A tool \in AllTools : tool \in tools \/ Earlier(t, j, tool)
                      /\ docker = "here" \/ Earlier(t, j, "docker")
    BY DEF ToolsBeforeMark
  <2>1. j + 1 \in 1..Len(s) /\ s[j + 1] = "mark"
    BY <1>1, <1>3
  <2>2. /\ \A tool \in AllTools : tool \in tools \/ Earlier(s, j + 1, tool)
        /\ docker = "here" \/ Earlier(s, j + 1, "docker")
    BY <2>1 DEF TodoHolds, ToolsBeforeMark
  <2> QED
    BY <1>4, <2>2 DEF BootStep
<1>6. AccessAhead(t)
  <2> SUFFICES ASSUME GrantFrom(s, 1) PROVE GrantFrom(t, 1)
    BY DEF TodoHolds, AccessAhead
  <2>1. s[1] # "grant"
    BY <1>1 DEF PlainStep
  <2>2. 2 \in 2..Len(s) /\ GrantFrom(s, 2)
    BY <1>1, <2>1 DEF GrantFrom
  <2> QED
    BY <1>2, <1>3, <2>2
<1> QED
  BY <1>2, <1>3, <1>5, <1>6 DEF TodoHolds

LEMMA TodoReplaced ==
  ASSUME NEW t, TodoHolds(t), run'.todo = t, run'.installed = run.installed,
         UNCHANGED <<docker, group, tools>>
  PROVE  TodoInv'
<1>1. BackendThenOverlay(run.todo)' /\ GrantAhead(run.todo)'
  BY DEF TodoHolds, BackendThenOverlay, GrantAhead, GrantFrom
<1>2. ToolsBeforeMark(run.todo)'
  BY DEF TodoHolds, ToolsBeforeMark, Earlier
<1>3. AccessAhead(run.todo)'
  BY DEF TodoHolds, AccessAhead, GrantFrom
<1> QED
  BY <1>1, <1>2, <1>3 DEF TodoInv

LEMMA BackendInv == ASSUME MarkInv, Backend PROVE MarkInv'
<1> USE DEF MarkInv
<1>1. PICK s \in Seq(StepName) : s = run.todo /\ TodoHolds(s)
  BY RunFacts DEF TodoHolds
<1>2. /\ Typed' /\ UNCHANGED <<docker, group, mark, tools, locked>> /\ run'.installed = run.installed
      /\ s # <<>> /\ Head(s) = "backend"
      /\ \/ run'.todo = Tail(s)
         \/ Tail(s) # <<>> /\ Head(Tail(s)) = "overlay" /\ run'.todo = Tail(Tail(s))
  BY <1>1, BackendStep
<1>3. TodoHolds(Tail(s)) /\ Tail(s) \in Seq(StepName)
  BY <1>1, <1>2, PlainTail, TailFacts DEF PlainStep
<1>4. Tail(s) # <<>> /\ Head(Tail(s)) = "overlay" => TodoHolds(Tail(Tail(s)))
  BY <1>3, PlainTail DEF PlainStep
<1>5. TodoInv'
  BY <1>2, <1>3, <1>4, TodoReplaced
<1> QED
  BY <1>2, <1>5 DEF TodoInv, AccessToDocker, MarkedHostWorks

LEMMA ModelsInv == ASSUME MarkInv, Models PROVE MarkInv'
<1> USE DEF MarkInv
<1>1. PICK s \in Seq(StepName) : s = run.todo /\ TodoHolds(s)
  BY RunFacts DEF TodoHolds
<1>2. CASE PlainMove
  BY <1>2, ModelsStep, PlainMoveInv
<1>3. CASE ~PlainMove
  <2>1. /\ Typed' /\ UNCHANGED <<docker, group, mark, tools, locked>> /\ run'.installed = run.installed
        /\ s # <<>> /\ Head(s) = "models" /\ run'.todo = <<"wizard">> \o Tail(s)
    BY <1>1, <1>3, ModelsStep
  <2>2. PICK w : w = <<"wizard">> \o Tail(s)
    OBVIOUS
  <2>3. /\ Len(w) = Len(s) /\ w[1] = "wizard" /\ Len(s) \in Nat /\ s[1] = "models"
        /\ \A i \in 2..Len(s) : w[i] = s[i]
    BY <2>1, <2>2, WizardFacts, TailFacts
  <2>4. /\ BackendThenOverlay(w) /\ GrantAhead(w)
        /\ GrantFrom(s, 1) => GrantFrom(w, 1)
    BY <1>1, <2>1, <2>2, <2>3, OrderWizard DEF TodoHolds
  <2>5. ASSUME NEW j \in 1..Len(w), w[j] = "mark", NEW step \in BootStep, Earlier(s, j, step)
        PROVE  Earlier(w, j, step)
    <3>1. PICK k \in 1..(j - 1) : s[k] = step
      BY <2>5 DEF Earlier
    <3>2. k # 1
      BY <2>3, <3>1 DEF BootStep, AllTools
    <3>3. w[k] = s[k]
      BY <2>3, <3>1, <3>2
    <3> QED
      BY <3>1, <3>3 DEF Earlier
  <2>6. ToolsBeforeMark(w)
    <3> SUFFICES ASSUME NEW j \in 1..Len(w), w[j] = "mark"
                 PROVE  /\ \A tool \in AllTools : tool \in tools \/ Earlier(w, j, tool)
                        /\ docker = "here" \/ Earlier(w, j, "docker")
      BY DEF ToolsBeforeMark
    <3>1. j \in 1..Len(s) /\ s[j] = "mark"
      BY <2>3
    <3> QED
      BY <1>1, <2>5, <3>1 DEF TodoHolds, ToolsBeforeMark, BootStep
  <2>7. TodoHolds(w)
    BY <1>1, <2>4, <2>6 DEF TodoHolds, AccessAhead
  <2>8. TodoInv'
    BY <2>1, <2>2, <2>7, TodoReplaced
  <2> QED
    BY <2>1, <2>8 DEF TodoInv, AccessToDocker, MarkedHostWorks
<1> QED
  BY <1>2, <1>3

LEMMA DoneInv == ASSUME MarkInv, Done PROVE MarkInv'
<1> USE DEF MarkInv
<1>1. /\ Typed' /\ Ended /\ UNCHANGED <<docker, group, mark, tools, locked>>
      /\ run.todo # <<>> /\ Head(run.todo) = "done"
  BY DoneStep
<1>2. TodoInv /\ (~run.installed \/ group)
  BY <1>1, RelyingOnAccess DEF TodoInv
<1>3. TodoInv'
  BY <1>1, TodoEnded
<1> QED
  BY <1>1, <1>2, <1>3 DEF TodoInv, AccessToDocker, MarkedHostWorks, Ended

LEMMA InstallInv == ASSUME MarkInv, NodeRuntime \/ Varlock \/ UvSync \/ GlobalTools PROVE MarkInv'
<1> USE DEF MarkInv, hostVars
<1>1. PICK tool \in AllTools : Install(tool)
  BY DEF NodeRuntime, Varlock, UvSync, GlobalTools, AllTools
<1>2. run.todo # <<>> /\ Head(run.todo) = tool /\ Onward /\ tools' = tools \cup {tool}
      /\ docker' = docker /\ group' = group /\ mark' = mark
  BY <1>1 DEF Install, At
<1>3. run'.todo = Tail(run.todo) /\ run'.installed = run.installed /\ locked' = locked
  BY <1>2, OnwardFacts
<1>4. Typed'
  BY BootTyped
<1>5. TodoInv'
  BY <1>2, <1>3, StepDone, RunFacts DEF TodoInv, Typed, AllTools
<1>6. MarkedHostWorks'
  BY <1>2, <1>3, <1>4 DEF MarkedHostWorks, Typed, AllTools
<1> QED
  BY <1>2, <1>3, <1>4, <1>5, <1>6 DEF TodoInv, AccessToDocker

LEMMA DockerInv == ASSUME MarkInv, Docker PROVE MarkInv'
<1> USE DEF MarkInv, hostVars
<1>0. run.todo # <<>> /\ Head(run.todo) = "docker" /\ UNCHANGED <<group, mark, tools>> /\ Typed'
  BY BootTyped DEF Docker, At
<1>1. CASE Raise
  <2>1. Ended /\ locked' = (locked \/ (run.installed /\ ~group))
    BY <1>1, RaiseFacts DEF Ended
  <2>2. docker' = docker
    <3>1. docker # "absent" \/ docker' = "here"
      BY DEF Docker
    <3>2. docker = "absent" => run'.todo = Tail(run.todo) /\ locked' = locked /\ run'.installed
      BY ZenonT(60), <1>0, RunFacts DEF Docker
    <3> QED
      BY <2>1, <3>2 DEF Docker, Ended, Typed
  <2>3. TodoInv'
    BY <2>1, TodoEnded
  <2> QED
    BY <1>0, <2>1, <2>2, <2>3 DEF TodoInv, AccessToDocker, MarkedHostWorks, Ended
<1>2. CASE ~Raise
  <2>1. docker' = "here" /\ run'.todo = Tail(run.todo) /\ locked' = locked
        /\ run'.installed = (run.installed \/ docker = "absent")
    <3>1. CASE docker = "absent"
      BY ZenonT(60), <1>0, <3>1, RunFacts DEF Docker
    <3>2. CASE docker = "here"
      <4>1. Onward /\ docker' = docker
        BY <3>2 DEF Docker
      <4> QED
        BY <1>0, <3>2, <4>1, OnwardFacts DEF Typed, Run
    <3> QED
      BY <1>2, <3>1, <3>2 DEF Docker, Typed
  <2>2. TodoInv'
    BY <1>0, <2>1, StepDone, RunFacts DEF TodoInv, Typed, AllTools
  <2>3. AccessToDocker'
    BY <1>0, <2>1 DEF AccessToDocker
  <2> QED
    BY <1>0, <2>1, <2>2, <2>3 DEF TodoInv, MarkedHostWorks
<1> QED
  BY <1>1, <1>2

LEMMA GrantInv == ASSUME MarkInv, Grant PROVE MarkInv'
<1> USE DEF MarkInv, hostVars
<1>0. run.todo # <<>> /\ Head(run.todo) = "grant" /\ UNCHANGED <<docker, mark, tools>> /\ Typed'
  BY BootTyped DEF Grant, At
<1>1. /\ run'.todo = Tail(run.todo) /\ locked' = locked /\ run'.installed = run.installed
      /\ group' = (group \/ run.installed)
  <2>1. CASE run.installed /\ ~group
    BY ZenonT(60), <1>0, <2>1, RunFacts DEF Grant
  <2>2. CASE ~(run.installed /\ ~group)
    <3>1. Onward /\ group' = group
      BY <2>2 DEF Grant
    <3> QED
      BY <1>0, <2>2, <3>1, OnwardFacts DEF Typed, Run
  <2> QED
    BY <2>1, <2>2
<1>2. TodoInv'
  BY <1>0, <1>1, StepDone, RunFacts DEF TodoInv, Typed, AllTools
<1> QED
  BY <1>0, <1>1, <1>2 DEF TodoInv, AccessToDocker, MarkedHostWorks

LEMMA ProbeInv == ASSUME MarkInv, Probe PROVE MarkInv'
<1> USE DEF MarkInv, hostVars
<1>0. /\ run.todo # <<>> /\ Head(run.todo) = "probe" /\ UNCHANGED <<docker, group, mark, tools>> /\ Typed'
      /\ Granted \/ Raise
  BY BootTyped DEF Probe, At, Typed, Run
<1>1. ~run.installed \/ group
  BY <1>0, RelyingOnAccess DEF TodoInv
<1>2. CASE Raise
  <2>1. Ended /\ locked' = (locked \/ (run.installed /\ ~group))
    BY <1>2, RaiseFacts DEF Ended
  <2>2. TodoInv'
    BY <2>1, TodoEnded
  <2> QED
    BY <1>0, <2>1, <2>2 DEF TodoInv, AccessToDocker, MarkedHostWorks, Ended
<1>3. CASE Granted
  <2>1. run'.todo = Tail(run.todo) /\ run'.installed = FALSE /\ locked' = locked
    BY <1>0, <1>3, RunFacts DEF Granted
  <2>2. TodoInv'
    BY <1>0, <2>1, StepDone, RunFacts DEF TodoInv, Typed, AllTools
  <2> QED
    BY <1>0, <1>1, <2>1, <2>2 DEF TodoInv, AccessToDocker, MarkedHostWorks
<1> QED
  BY <1>0, <1>2, <1>3

LEMMA MarkStepInv == ASSUME MarkInv, Mark PROVE MarkInv'
<1> USE DEF MarkInv, hostVars
<1>0. run.todo # <<>> /\ Head(run.todo) = "mark" /\ Onward /\ UNCHANGED <<docker, group, tools>> /\ Typed'
  BY BootTyped DEF Mark, At
<1>1. run'.todo = Tail(run.todo) /\ run'.installed = run.installed /\ locked' = locked
  BY <1>0, OnwardFacts
<1>2. TodoInv'
  BY <1>0, <1>1, StepDone, RunFacts DEF TodoInv, Typed, AllTools
<1>3. tools = AllTools /\ docker = "here"
  <2>1. PICK s \in Seq(StepName) : s = run.todo /\ s # <<>>
    BY <1>0, RunFacts
  <2>2. 1 \in 1..Len(s) /\ s[1] = "mark"
    BY <1>0, <2>1, TailFacts
  <2>3. \A step : ~Earlier(s, 1, step)
    BY DEF Earlier
  <2>4. (\A tool \in AllTools : tool \in tools) /\ docker = "here"
    BY <2>1, <2>2, <2>3 DEF ToolsBeforeMark
  <2> QED
    BY <2>4 DEF Typed
<1>4. ~run.installed \/ group
  BY <1>0, RelyingOnAccess DEF TodoInv
<1> QED
  BY <1>0, <1>1, <1>2, <1>3, <1>4 DEF TodoInv, AccessToDocker, MarkedHostWorks, AllTools

\* The commands that start, and what happens beside them.
StartsCommand ==
  /\ run.todo = <<>>
  /\ Ordered(run'.todo) /\ run'.installed = FALSE /\ run' \in Run
  /\ UNCHANGED <<hostVars, env, stack, torn, locked, units>>

LEMMA StartStarts ==
  ASSUME Typed, NEW cmd \in {"setup", "bootstrap", "configure", "activate"},
         cmd \in Commands \cup {"setup"}, NEW profile \in Profiles, NEW bootstrap,
         NEW given \in BOOLEAN, NEW asks \in BOOLEAN, NEW review \in BOOLEAN, NEW activate \in BOOLEAN,
         Start(cmd, profile, given, asks, review, bootstrap, activate)
  PROVE  StartsCommand
<1>1. PICK skip \in BOOLEAN : skip = (bootstrap = "skip" \/ (bootstrap = "auto" /\ mark))
  OBVIOUS
<1>2. PICK s : s = Steps(cmd, skip, given, asks, activate) /\ Ordered(s)
  BY ProgramIsOrdered
<1>3. run' = [NoRun EXCEPT !.cmd = cmd, !.profile = IF given THEN profile ELSE Default, !.asks = asks,
                           !.review = review, !.activate = activate, !.todo = s]
  BY <1>1, <1>2 DEF Start
<1>4. s \in Seq(StepName)
  BY <1>2 DEF Ordered
<1>5. run' = [cmd |-> cmd, todo |-> s, profile |-> IF given THEN profile ELSE Default, asks |-> asks,
              review |-> review, activate |-> activate, installed |-> FALSE, added |-> FALSE]
  BY <1>3 DEF NoRun
<1>6. run' \in Run
  BY <1>4, <1>5, HostSetupAssumption DEF Run, StepName
<1>7. run.todo = <<>> /\ UNCHANGED <<hostVars, env, stack, torn, locked, units>>
  BY DEF Start, envVars
<1> QED
  BY <1>2, <1>5, <1>6, <1>7 DEF StartsCommand

LEMMA BeginStarts == ASSUME Typed, Begin \/ Again PROVE StartsCommand
<1>1. CASE Begin
  <2>1. PICK cmd \in Commands \ {"doctor"}, profile \in Profiles, bootstrap \in {"auto", "skip", "force"},
             given \in BOOLEAN, asks \in BOOLEAN, activate \in BOOLEAN :
          /\ Command
          /\ given \/ profile = Default
          /\ cmd \in {"configure", "activate"} => ~given
          /\ cmd \in {"activate", "bootstrap"} => ~asks
          /\ cmd # "setup" => activate /\ bootstrap = "auto"
          /\ Start(cmd, profile, given, asks, FALSE, bootstrap, activate)
    BY <1>1, Zenon DEF Begin
  <2>2. cmd \in {"setup", "bootstrap", "configure", "activate"} /\ cmd \in Commands \cup {"setup"}
    BY HostSetupAssumption
  <2>3. FALSE \in BOOLEAN
    OBVIOUS
  <2> QED
    BY <2>1, <2>2, <2>3, StartStarts, ZenonT(60)
<1>2. CASE Again
  <2>1. Start("setup", Default, FALSE, TRUE, TRUE, "auto", TRUE)
    BY <1>2 DEF Again
  <2>2. FALSE \in BOOLEAN /\ TRUE \in BOOLEAN /\ Default \in Profiles /\ "setup" \in Commands \cup {"setup"}
        /\ "setup" \in {"setup", "bootstrap", "configure", "activate"}
    BY HostSetupAssumption
  <2> QED
    BY <2>1, <2>2, StartStarts, Zenon
<1> QED
  BY <1>1, <1>2

LEMMA StartsInv == ASSUME MarkInv, StartsCommand PROVE MarkInv'
<1> USE DEF MarkInv, hostVars
<1>1. ~run.installed \/ group
  <2>1. Len(run.todo) = 0
    BY DEF StartsCommand
  <2> QED
    BY <2>1 DEF AccessAhead, GrantFrom
<1>2. Typed'
  BY DEF StartsCommand, Typed
<1>3. TodoInv'
  <2>1. PICK s : s = run'.todo /\ Ordered(s)
    BY DEF StartsCommand
  <2>2. BackendThenOverlay(run.todo)'
    BY <2>1 DEF Ordered, BackendThenOverlay
  <2>3. GrantAhead(run.todo)'
    BY <2>1 DEF Ordered, GrantAhead, GrantFrom
  <2>4. ToolsBeforeMark(run.todo)'
    <3>1. \A j \in 1..Len(s) : s[j] = "mark" =>
            /\ \A tool \in AllTools : \E k \in 1..(j - 1) : s[k] = tool
            /\ \E k \in 1..(j - 1) : s[k] = "docker"
      BY <2>1, Zenon DEF Ordered, Earlier
    <3> QED
      BY <2>1, <3>1 DEF ToolsBeforeMark, Earlier
  <2>5. AccessAhead(run.todo)'
    BY DEF StartsCommand, AccessAhead
  <2> QED
    BY <2>2, <2>3, <2>4, <2>5 DEF TodoInv
<1> QED
  BY <1>1, <1>2, <1>3 DEF StartsCommand, TodoInv, AccessToDocker, MarkedHostWorks

\* Of what a doctor finds only two answers decide what it writes.
LEMMA DoctorWrites ==
  ASSUME DoctorScan
  PROVE  \E skip \in BOOLEAN, given \in BOOLEAN :
           /\ flag' = (flag /\ (skip \/ ~Reachable))
           /\ env' = [env EXCEPT !.embed = @ \/ (given /\ Default \in Hypermemory /\ env.secret # 0)]
BY ZenonT(60) DEF DoctorScan

LEMMA OutsideInv ==
  ASSUME MarkInv, \/ DoctorScan \/ DockerHalfInstalled \/ GrantUnmarked \/ Fails \/ Torn \/ TornConfig
                  \/ FreshShell \/ AddCompose
  PROVE  MarkInv'
<1> USE DEF MarkInv, hostVars, envVars
<1>0. TodoInv
  BY DEF TodoInv
<1>1. CASE Fails \/ Torn \/ TornConfig
  <2>1. UNCHANGED <<docker, group, shell, flag, mark, tools, stack>> /\ Raise
    BY <1>1 DEF Fails, Torn, TornConfig
  <2>2. Ended /\ run' \in Run /\ locked' \in BOOLEAN /\ locked' = (locked \/ (run.installed /\ ~group))
    BY <2>1, RaiseFacts DEF Ended
  <2>3. env' \in Env /\ torn' \in BOOLEAN
    <3>1. Blank \in Env
      BY DEF Blank, Env
    <3>2. env' = env \/ env' = Blank
      BY <1>1 DEF Fails, Torn, TornConfig
    <3>3. torn' = torn \/ torn' = TRUE
      BY <1>1 DEF Fails, Torn, TornConfig
    <3> QED
      BY <3>1, <3>2, <3>3 DEF Typed
  <2>4. TodoInv'
    BY <2>2, TodoEnded
  <2>5. Typed'
    BY <2>1, <2>2, <2>3 DEF Typed
  <2> QED
    BY <2>1, <2>2, <2>4, <2>5 DEF TodoInv, AccessToDocker, MarkedHostWorks, Ended
<1>2. CASE DockerHalfInstalled \/ GrantUnmarked
  <2>1. run' = NoRun /\ UNCHANGED <<shell, flag, mark, tools, env, stack, torn>>
    BY <1>2 DEF DockerHalfInstalled, GrantUnmarked
  <2>2. Ended /\ run' \in Run
    BY <2>1, RunFacts DEF Ended
  <2>3. TodoInv'
    BY <2>2, TodoEnded
  <2>4. CASE DockerHalfInstalled
    <3>1. docker = "absent" /\ docker' = "no compose" /\ locked' = (locked \/ ~group) /\ group' = group
      BY <2>4 DEF DockerHalfInstalled
    <3>2. ~mark
      BY <3>1 DEF MarkedHostWorks
    <3>3. Typed'
      BY <2>1, <2>2, <3>1 DEF Typed
    <3> QED
      BY <2>1, <2>2, <2>3, <3>1, <3>2, <3>3 DEF TodoInv, AccessToDocker, MarkedHostWorks, Ended
  <2>5. CASE GrantUnmarked
    <3>1. docker' = docker /\ locked' = locked /\ group' = TRUE
      BY <2>5 DEF GrantUnmarked
    <3>2. Typed'
      BY <2>1, <2>2, <3>1 DEF Typed
    <3> QED
      BY <2>1, <2>2, <2>3, <3>1, <3>2 DEF TodoInv, AccessToDocker, MarkedHostWorks, Ended
  <2> QED
    BY <1>2, <2>4, <2>5
<1>3. CASE DoctorScan
  <2>1. /\ run.todo = <<>> /\ run' = NoRun
        /\ UNCHANGED <<docker, group, shell, mark, tools, stack, locked, torn>>
    BY <1>3 DEF DoctorScan
  <2>2. Ended /\ run' \in Run
    BY <2>1, RunFacts DEF Ended
  <2>3. flag' \in BOOLEAN /\ env' \in Env
    <3>1. PICK skip \in BOOLEAN, given \in BOOLEAN :
            /\ flag' = (flag /\ (skip \/ ~Reachable))
            /\ env' = [env EXCEPT !.embed = @ \/ (given /\ Default \in Hypermemory /\ env.secret # 0)]
      BY <1>3, DoctorWrites
    <3>2. env.embed \/ (given /\ Default \in Hypermemory /\ env.secret # 0) \in BOOLEAN
      BY DEF Typed, Env
    <3> QED
      BY <3>1, <3>2 DEF Typed, Env
  <2>4. Typed'
    BY <2>1, <2>2, <2>3 DEF Typed
  <2>5. TodoInv'
    BY <2>2, TodoEnded
  <2>6. ~run.installed \/ group
    <3>1. Len(run.todo) = 0
      BY <2>1
    <3> QED
      BY <3>1 DEF AccessAhead, GrantFrom
  <2> QED
    BY <2>1, <2>2, <2>4, <2>5, <2>6 DEF TodoInv, AccessToDocker, MarkedHostWorks, Ended
<1>4. CASE FreshShell \/ AddCompose
  <2>1. /\ UNCHANGED <<group, flag, mark, tools, env, stack, run, locked, torn>>
        /\ (docker' = docker \/ (docker = "no compose" /\ docker' = "here")) /\ shell' \in BOOLEAN
    BY <1>4 DEF FreshShell, AddCompose, Typed
  <2>2. Typed'
    BY <2>1 DEF Typed
  <2>3. TodoInv'
    <3>1. BackendThenOverlay(run.todo)' /\ GrantAhead(run.todo)'
      BY <1>0, <2>1 DEF TodoInv, BackendThenOverlay, GrantAhead, GrantFrom
    <3>2. ToolsBeforeMark(run.todo)'
      <4>1. ASSUME NEW j \in 1..Len(run.todo), run.todo[j] = "mark"
            PROVE  /\ \A tool \in AllTools : tool \in tools \/ Earlier(run.todo, j, tool)
                   /\ docker' = "here" \/ Earlier(run.todo, j, "docker")
        BY <1>0, <2>1, <4>1 DEF TodoInv, ToolsBeforeMark
      <4>2. run' = run /\ tools' = tools
        BY <2>1
      <4> QED
        BY <4>1, <4>2 DEF ToolsBeforeMark, Earlier
    <3>3. AccessAhead(run.todo)'
      BY <1>0, <2>1 DEF TodoInv, AccessAhead, GrantFrom
    <3> QED
      BY <3>1, <3>2, <3>3 DEF TodoInv
  <2> QED
    BY <2>1, <2>2, <2>3 DEF TodoInv, AccessToDocker, MarkedHostWorks
<1> QED
  BY <1>1, <1>2, <1>3, <1>4

LEMMA MarkInvStep == MarkInv /\ [Next]_vars => MarkInv'
<1> SUFFICES ASSUME MarkInv, [Next]_vars PROVE MarkInv'
  OBVIOUS
<1>1. CASE UNCHANGED vars
  <2>1. UNCHANGED <<docker, group, shell, flag, mark, tools, env, stack, run, locked, torn>>
    BY <1>1 DEF vars, hostVars, envVars
  <2>2. TodoHolds(run.todo) /\ run'.todo = run.todo /\ run'.installed = run.installed
    BY <2>1 DEF MarkInv, TodoHolds
  <2>3. TodoInv'
    BY <2>1, <2>2, TodoReplaced
  <2>4. Typed'
    BY <2>1 DEF MarkInv, Typed
  <2> QED
    BY <2>1, <2>3, <2>4 DEF MarkInv, TodoInv, AccessToDocker, MarkedHostWorks
<1>2. CASE Begin \/ Again
  BY <1>2, BeginStarts, StartsInv DEF MarkInv
<1>3. CASE NodeRuntime \/ Docker \/ Varlock \/ UvSync \/ GlobalTools \/ Grant \/ Probe \/ Mark
  BY <1>3, InstallInv, DockerInv, GrantInv, ProbeInv, MarkStepInv
<1>4. CASE \/ Assets \/ Fetch \/ Render \/ Doctor \/ Overlay \/ Validate \/ Wizard \/ RenderUnits
           \/ Refresh \/ Services \/ Gateway \/ Verify \/ Sidecars
           \/ Defaults \/ Prompt \/ Ollama \/ Embed
  BY <1>4, QuietSteps, SidecarsStep, EnvironmentSteps, PlainMoveInv DEF MarkInv
<1>5. CASE Backend \/ Models \/ Done
  BY <1>5, BackendInv, ModelsInv, DoneInv
<1>6. CASE \/ DoctorScan \/ DockerHalfInstalled \/ GrantUnmarked \/ Fails \/ Torn \/ TornConfig
           \/ FreshShell \/ AddCompose
  BY <1>6, OutsideInv
<1> QED
  BY <1>1, <1>2, <1>3, <1>4, <1>5, <1>6 DEF Next, Step

LEMMA MarkInvInit == Init => MarkInv
<1> SUFFICES ASSUME Init PROVE MarkInv
  OBVIOUS
<1>1. run.todo = <<>> /\ ~run.installed /\ ~mark
  BY DEF Init, NoRun
<1>2. Len(run.todo) = 0 /\ 1..Len(run.todo) = {}
  BY <1>1
<1>3. AccessToDocker
  BY DEF Init, AccessToDocker
<1> QED
  BY <1>1, <1>2, <1>3, InitTyped DEF MarkInv, BackendThenOverlay, GrantAhead, ToolsBeforeMark, AccessAhead,
     MarkedHostWorks

\* A host whose bootstrap is recorded, so that setup will not run it again
\* (bootstrap_main, save_bootstrap_state), has all its tools and docker, and its user
\* has access to docker unless an earlier bootstrap ended before it gave it --
\* whatever commands were interrupted, half installed or repeated before.
THEOREM RecordedBootstrapWorks == Spec => []MarkedHostWorks
<1>1. Spec => []MarkInv
  BY MarkInvInit, MarkInvStep, PTL DEF Spec
<1>2. MarkInv => MarkedHostWorks
  BY DEF MarkInv
<1> QED
  BY <1>1, <1>2, PTL

-------------------------------------------------------------------------------
(***************************************************************************)
(* The database and its secret.                                            *)
(***************************************************************************)

LEMMA TypedStep == MarkInv /\ [Next]_vars => Typed'
BY MarkInvStep DEF MarkInv

LEMMA SecretStep == SecretInv /\ MarkInv /\ [Next]_vars => SecretInv'
<1> SUFFICES ASSUME SecretInv, MarkInv, [Next]_vars PROVE SecretInv'
  OBVIOUS
<1> USE DEF SecretInv, hostVars, envVars
<1>0. Typed'
  BY TypedStep
<1>1. CASE UNCHANGED <<stack, torn>> /\ env'.secret = env.secret
           /\ ("sidecars" \in units' => "sidecars" \in units)
  BY <1>0, <1>1 DEF StartedWithSecret, DatabaseOpens
<1>2. CASE UNCHANGED vars
  BY <1>1, <1>2 DEF vars
<1>3. CASE Begin \/ Again
  BY <1>1, <1>3, BeginStarts DEF StartsCommand
<1>4. CASE NodeRuntime \/ Docker \/ Varlock \/ UvSync \/ GlobalTools \/ Grant \/ Probe \/ Mark
  <2>1. UNCHANGED <<env, stack, torn, units>>
    BY <1>4 DEF NodeRuntime, Docker, Varlock, UvSync, GlobalTools, Install, Grant, Probe, Mark
  <2> QED
    BY <1>1, <2>1
<1>5. CASE \/ Assets \/ Fetch \/ Render \/ Doctor \/ Overlay \/ Validate \/ Wizard \/ RenderUnits
           \/ Refresh \/ Services \/ Gateway \/ Verify
  BY <1>1, <1>5, QuietSteps
<1>6. CASE Prompt \/ Ollama \/ Embed \/ Backend
  <2>1. UNCHANGED <<stack, torn, units>>
    BY <1>6 DEF Prompt, Ollama, Embed, Backend
  <2>2. env'.secret = env.secret
    <3>0. env \in Env
      BY DEF Typed
    <3>1. CASE Prompt
      BY <3>0, <3>1 DEF Prompt, Env
    <3>2. CASE Ollama
      BY <3>0, <3>2 DEF Ollama, Env
    <3>3. CASE Embed
      BY <3>0, <3>3 DEF Embed, Env
    <3>4. CASE Backend
      BY <3>0, <3>4 DEF Backend, Env
    <3> QED
      BY <1>6, <3>1, <3>2, <3>3, <3>4
  <2> QED
    BY <1>1, <2>1, <2>2
<1>7. CASE Models \/ Done
  BY <1>1, <1>7, ModelsStep, DoneStep
<1>8. CASE DockerHalfInstalled \/ GrantUnmarked \/ Fails \/ TornConfig \/ FreshShell \/ AddCompose
  <2>1. UNCHANGED <<env, stack, torn, units>>
    BY <1>8 DEF DockerHalfInstalled, GrantUnmarked, Fails, TornConfig, FreshShell, AddCompose
  <2> QED
    BY <1>1, <2>1
<1>9. CASE DoctorScan
  <2>1. UNCHANGED <<stack, torn, units>>
    BY <1>9 DEF DoctorScan
  <2>2. PICK given \in BOOLEAN :
          env' = [env EXCEPT !.embed = @ \/ (given /\ Default \in Hypermemory /\ env.secret # 0)]
    BY <1>9, DoctorWrites
  <2>3. env'.secret = env.secret
    BY <2>2 DEF Typed, Env
  <2> QED
    BY <1>1, <2>1, <2>3
<1>10. CASE Torn
  BY <1>0, <1>10 DEF Torn, StartedWithSecret, DatabaseOpens
\* Only a blank secret is replaced, and a database is never made with one.
<1>11. CASE Defaults
  <2>1. UNCHANGED <<stack, torn, units>>
    BY <1>11 DEF Defaults
  <2>2. env'.secret = env.secret \/ env.secret = 0
    BY <1>11 DEF Defaults, Secret, Typed, Env
  <2> QED
    BY <1>0, <2>1, <2>2 DEF StartedWithSecret, DatabaseOpens
<1>12. CASE Sidecars
  <2>1. UNCHANGED <<env, torn>> /\ (stack' = stack \/ (stack = 0 /\ stack' = env.secret))
    BY <1>12 DEF Sidecars
  <2>2. "sidecars" \in units' => stack' # 0
    <3>1. CASE env.secret = 0 /\ "sidecars" \notin units
      BY <1>12, <3>1 DEF Sidecars
    <3>2. CASE ~(env.secret = 0 /\ "sidecars" \notin units)
      BY <1>12, <3>2 DEF Sidecars, StartedWithSecret
    <3> QED
      BY <3>1, <3>2
  <2> QED
    BY <1>0, <2>1, <2>2 DEF StartedWithSecret, DatabaseOpens
<1> QED
  BY <1>2, <1>3, <1>4, <1>5, <1>6, <1>7, <1>8, <1>9, <1>10, <1>11, <1>12 DEF Next, Step

\* Over every interrupted, failed and repeated setup, .env.local keeps the secret
\* with which postgres made its database (_ensure_required_defaults,
\* activate_services), unless a command was killed in the middle of a rewrite.
THEOREM SecretStays == Spec => []DatabaseOpens
<1>1. Init => MarkInv /\ SecretInv
  <2>1. Init => StartedWithSecret /\ DatabaseOpens
    BY DEF Init, StartedWithSecret, DatabaseOpens
  <2> QED
    BY <2>1, MarkInvInit DEF SecretInv, MarkInv
<1>2. MarkInv /\ SecretInv /\ [Next]_vars => (MarkInv /\ SecretInv)'
  BY MarkInvStep, SecretStep
<1>3. SecretInv => DatabaseOpens
  BY DEF SecretInv
<1> QED
  BY <1>1, <1>2, <1>3, PTL DEF Spec

-------------------------------------------------------------------------------
(***************************************************************************)
(* What a setup that returns 0 has delivered: each thing it promises holds *)
(* already or a step that establishes it is still ahead, and the steps that *)
(* disturb it come before that one.                                        *)
(***************************************************************************)

Ahead(s, step) == \E i \in 1..Len(s) : s[i] = step

\* Each of some steps is followed by one that repairs what they disturb.
Before(s, steps, last) ==
  \A i \in 1..Len(s) : s[i] \in steps => \E j \in (i + 1)..Len(s) : s[j] = last

Ends(s) == \A i \in 1..Len(s) : s[i] = "done" => i = Len(s)

Lacks(s, steps) == \A i \in 1..Len(s) : s[i] \notin steps

Wiring == {"backend", "overlay", "prompt", "ollama"}
Modelling == {"render", "models", "wizard", "backend", "overlay", "validate"}

Plan(s, activate) ==
  Ahead(s, "done") =>
    /\ Ends(s)
    /\ Before(s, {"assets"}, "fetch") /\ Before(s, {"render"}, "doctor")
    /\ Before(s, Wiring, "validate")
    /\ activate => Before(s, Modelling, "verify") /\ Before(s, {"grant"}, "services")

\* A setup, before its first step.
Whole(s, activate) ==
  /\ \A step \in {"render", "fetch", "doctor", "defaults", "validate", "units"} : Ahead(s, step)
  /\ activate => \A step \in {"verify", "services", "sidecars", "gateway"} : Ahead(s, step)

Promised(s) ==
  Ahead(s, "done") =>
    /\ Ahead(s, "render") \/ config.profile = run.profile
    /\ Ahead(s, "fetch") \/ assets[run.profile] = "whole"
    /\ Ahead(s, "doctor") \/ HostReady
    /\ Ahead(s, "defaults") \/ env.secret # 0
    /\ Ahead(s, "validate") \/ Wired
    /\ Ahead(s, "units") \/ "files" \in units
    /\ run.activate => /\ Ahead(s, "verify") \/ AgentsHaveModels
                       /\ Ahead(s, "services") \/ ~flag
                       /\ Ahead(s, "sidecars") \/ "sidecars" \in units
                       /\ Ahead(s, "gateway") \/ "gateway" \in units

\* Nothing happens between a full setup and the doctor after it.
AfterSetup ==
  run.cmd = "activated" => run.todo = <<>> /\ Complete /\ HostReady /\ env.secret # 0 /\ Wired

FilesTyped ==
  /\ assets \in [Profiles -> {"none", "partial", "whole"}]
  /\ config \in [profile : Profiles \cup {"none", "torn"}, models : {"none", "ollama", "cloud", "wizard"}]

DeliverInv ==
  /\ FilesTyped
  /\ Plan(run.todo, run.activate) /\ Promised(run.todo)
  /\ AfterSetup /\ SetupDelivers

LEMMA AheadTail ==
  ASSUME NEW s \in Seq(StepName), s # <<>>, NEW step
  PROVE  /\ Ahead(Tail(s), step) => Ahead(s, step)
         /\ Ahead(s, step) => Head(s) = step \/ Ahead(Tail(s), step)
<1> DEFINE t == Tail(s)
<1>1. /\ Len(s) \in Nat \ {0} /\ Len(t) = Len(s) - 1 /\ Head(s) = s[1]
      /\ \A i \in 1..(Len(s) - 1) : t[i] = s[i + 1]
  BY TailFacts
<1> HIDE DEF t
<1>2. ASSUME NEW i \in 1..Len(t), t[i] = step PROVE Ahead(s, step)
  <2>1. i + 1 \in 1..Len(s) /\ s[i + 1] = step
    BY <1>1, <1>2
  <2> QED
    BY <2>1 DEF Ahead
<1>3. ASSUME NEW i \in 1..Len(s), s[i] = step, i # 1 PROVE Ahead(t, step)
  <2>1. i - 1 \in 1..Len(t) /\ t[i - 1] = step
    BY <1>1, <1>3
  <2> QED
    BY <2>1 DEF Ahead
<1> QED
  BY <1>1, <1>2, <1>3 DEF Ahead, t

LEMMA BeforeTail ==
  ASSUME NEW s \in Seq(StepName), s # <<>>, NEW steps, NEW last, Before(s, steps, last)
  PROVE  /\ Before(Tail(s), steps, last)
         /\ Head(s) \in steps => Ahead(Tail(s), last)
<1> DEFINE t == Tail(s)
<1>1. /\ Len(s) \in Nat \ {0} /\ Len(t) = Len(s) - 1 /\ Head(s) = s[1]
      /\ \A i \in 1..(Len(s) - 1) : t[i] = s[i + 1]
  BY TailFacts
<1> HIDE DEF t
<1>2. ASSUME NEW i \in 1..Len(t), t[i] \in steps PROVE \E j \in (i + 1)..Len(t) : t[j] = last
  <2>1. i + 1 \in 1..Len(s) /\ s[i + 1] \in steps
    BY <1>1, <1>2
  <2>2. PICK j \in (i + 2)..Len(s) : s[j] = last
    BY <2>1 DEF Before
  <2>3. j - 1 \in (i + 1)..Len(t) /\ t[j - 1] = last
    BY <1>1, <2>2
  <2> QED
    BY <2>3
<1>3. ASSUME s[1] \in steps PROVE Ahead(t, last)
  <2>1. PICK j \in 2..Len(s) : s[j] = last
    BY <1>1, <1>3 DEF Before
  <2>2. j - 1 \in 1..Len(t) /\ t[j - 1] = last
    BY <1>1, <2>1
  <2> QED
    BY <2>2 DEF Ahead
<1> QED
  BY <1>1, <1>2, <1>3 DEF Before, t

LEMMA EndsTail ==
  ASSUME NEW s \in Seq(StepName), s # <<>>, Ends(s)
  PROVE  Ends(Tail(s)) /\ (Head(s) = "done" => \A step : Ahead(s, step) => step = "done")
<1> DEFINE t == Tail(s)
<1>1. /\ Len(s) \in Nat \ {0} /\ Len(t) = Len(s) - 1 /\ Head(s) = s[1]
      /\ \A i \in 1..(Len(s) - 1) : t[i] = s[i + 1]
  BY TailFacts
<1> HIDE DEF t
<1>2. ASSUME NEW i \in 1..Len(t), t[i] = "done" PROVE i = Len(t)
  <2>1. i + 1 \in 1..Len(s) /\ s[i + 1] = "done"
    BY <1>1, <1>2
  <2> QED
    BY <1>1, <2>1 DEF Ends
<1>3. ASSUME s[1] = "done", NEW step, Ahead(s, step) PROVE step = "done"
  <2>1. Len(s) = 1
    BY <1>1, <1>3 DEF Ends
  <2> QED
    BY <1>3, <2>1 DEF Ahead
<1> QED
  BY <1>1, <1>2, <1>3 DEF Ends, t

LEMMA PlanTail ==
  ASSUME NEW s \in Seq(StepName), s # <<>>, NEW activate, Plan(s, activate)
  PROVE  Plan(Tail(s), activate)
<1> SUFFICES ASSUME Ahead(Tail(s), "done") PROVE Plan(Tail(s), activate)
  BY DEF Plan
<1>1. Ahead(s, "done")
  BY AheadTail
<1> QED
  BY <1>1, BeforeTail, EndsTail DEF Plan


\* The wizard takes the place of the step that calls it.
LEMMA PlanWizard ==
  ASSUME NEW s \in Seq(StepName), s # <<>>, s[1] = "models", NEW activate, Plan(s, activate),
         NEW w, w = <<"wizard">> \o Tail(s)
  PROVE  /\ Plan(w, activate)
         /\ \A step : step \notin {"models", "wizard"} => (Ahead(w, step) <=> Ahead(s, step))
<1>1. /\ w \in Seq(StepName) /\ Len(w) = Len(s) /\ w[1] = "wizard" /\ Len(s) \in Nat
      /\ \A i \in 2..Len(s) : w[i] = s[i]
  BY WizardFacts
<1>2. ASSUME NEW step, step \notin {"models", "wizard"} PROVE Ahead(w, step) <=> Ahead(s, step)
  <2>1. \A i \in 1..Len(s) : w[i] = step <=> s[i] = step
    <3>1. \A i \in 1..Len(s) : i = 1 \/ i \in 2..Len(s)
      BY <1>1
    <3> QED
      BY <1>1, <1>2, <3>1
  <2> QED
    BY <1>1, <2>1 DEF Ahead
<1>3. ASSUME NEW steps, NEW last, Before(s, steps, last), "wizard" \in steps => "models" \in steps
      PROVE  Before(w, steps, last)
  <2>1. ASSUME NEW i \in 1..Len(w), w[i] \in steps PROVE \E j \in (i + 1)..Len(w) : w[j] = last
    <3>1. s[i] \in steps
      BY <1>1, <1>3, <2>1
    <3>2. PICK j \in (i + 1)..Len(s) : s[j] = last
      BY <1>1, <1>3, <2>1, <3>1 DEF Before
    <3>3. j \in 2..Len(s)
      BY <1>1, <2>1, <3>2
    <3> QED
      BY <1>1, <3>2, <3>3
  <2> QED
    BY <2>1 DEF Before
<1>4. Ends(s) => Ends(w)
  <2>1. \A i \in 1..Len(s) : w[i] = "done" => s[i] = "done"
    <3>1. \A i \in 1..Len(s) : i = 1 \/ i \in 2..Len(s)
      BY <1>1
    <3> QED
      BY <1>1, <3>1
  <2> QED
    BY <1>1, <2>1 DEF Ends
<1>5. Plan(w, activate)
  <2> SUFFICES ASSUME Ahead(w, "done") PROVE Plan(w, activate)
    BY DEF Plan
  <2>1. Ahead(s, "done")
    BY <1>2
  <2>2. Before(w, {"assets"}, "fetch") /\ Before(w, {"render"}, "doctor") /\ Before(w, Wiring, "validate")
    BY <1>3, <2>1 DEF Plan, Wiring
  <2>3. activate => Before(w, Modelling, "verify") /\ Before(w, {"grant"}, "services")
    BY <1>3, <2>1 DEF Plan, Modelling
  <2> QED
    BY <1>4, <2>1, <2>2, <2>3 DEF Plan
<1> QED
  BY <1>2, <1>5

\* A program is made of parts.
LEMMA Concatenated ==
  ASSUME NEW a \in Seq(StepName), NEW b \in Seq(StepName), NEW s, s = a \o b
  PROVE  /\ s \in Seq(StepName)
         /\ \A step : Ahead(a, step) \/ Ahead(b, step) => Ahead(s, step)
         /\ \A steps : Lacks(a, steps) /\ Lacks(b, steps) => Lacks(s, steps)
         /\ \A steps, last :
              (Before(a, steps, last) \/ Ahead(b, last)) /\ Before(b, steps, last) => Before(s, steps, last)
<1>1. /\ s \in Seq(StepName) /\ Len(a) \in Nat /\ Len(b) \in Nat /\ Len(s) = Len(a) + Len(b)
      /\ \A i \in 1..Len(a) : s[i] = a[i]
      /\ \A i \in (Len(a) + 1)..Len(s) : s[i] = b[i - Len(a)]
  BY ConcatFacts
<1>2. PICK m \in Nat, n \in Nat : m = Len(a) /\ n = Len(b)
  BY <1>1
<1>3. \A i \in 1..m : i \in 1..Len(s) /\ s[i] = a[i]
  BY <1>1, <1>2
<1>4. ASSUME NEW i \in 1..n PROVE i + m \in 1..Len(s) /\ s[i + m] = b[i]
  <2>1. i + m \in (m + 1)..Len(s) /\ (i + m) - m = i
    BY <1>1, <1>2
  <2>2. s[i + m] = b[(i + m) - m]
    BY <1>1, <1>2, <2>1
  <2> QED
    BY <2>1, <2>2
<1>5. ASSUME NEW i \in 1..Len(s)
      PROVE  (i \in 1..m /\ s[i] = a[i]) \/ (i - m \in 1..n /\ s[i] = b[i - m])
  BY <1>1, <1>2
<1>6. ASSUME NEW step, Ahead(a, step) \/ Ahead(b, step) PROVE Ahead(s, step)
  <2>1. CASE Ahead(a, step)
    BY <1>2, <1>3, <2>1 DEF Ahead
  <2>2. CASE Ahead(b, step)
    <3>1. PICK i \in 1..n : b[i] = step
      BY <1>2, <2>2 DEF Ahead
    <3> QED
      BY <1>4, <3>1 DEF Ahead
  <2> QED
    BY <1>6, <2>1, <2>2
<1>7. ASSUME NEW steps, Lacks(a, steps), Lacks(b, steps) PROVE Lacks(s, steps)
  BY <1>2, <1>5, <1>7 DEF Lacks
<1>8. ASSUME NEW steps, NEW last, Before(a, steps, last) \/ Ahead(b, last), Before(b, steps, last)
      PROVE  Before(s, steps, last)
  <2>1. ASSUME NEW i \in 1..Len(s), s[i] \in steps PROVE \E j \in (i + 1)..Len(s) : s[j] = last
    <3>1. CASE i \in 1..m /\ Ahead(b, last)
      <4>1. PICK j \in 1..n : b[j] = last
        BY <1>2, <3>1 DEF Ahead
      <4>2. s[j + m] = last /\ j + m \in 1..Len(s) /\ j + m > i
        BY <1>4, <3>1, <4>1
      <4>3. j + m \in (i + 1)..Len(s)
        BY <1>1, <3>1, <4>1, <4>2
      <4> QED
        BY <4>2, <4>3
    <3>2. CASE i \in 1..m /\ s[i] = a[i] /\ Before(a, steps, last)
      <4>1. PICK j \in (i + 1)..m : a[j] = last
        BY <1>2, <2>1, <3>2 DEF Before
      <4>2. j \in 1..m /\ s[j] = last /\ j \in (i + 1)..Len(s)
        BY <1>3, <1>1, <1>2, <3>2, <4>1
      <4> QED
        BY <4>2
    <3>3. CASE i - m \in 1..n /\ s[i] = b[i - m]
      <4>1. PICK j \in ((i - m) + 1)..n : b[j] = last
        BY <1>2, <1>8, <2>1, <3>3 DEF Before
      <4>2. j \in 1..n /\ j + m > i
        BY <3>3, <4>1
      <4>3. s[j + m] = last /\ j + m \in 1..Len(s)
        BY <1>4, <4>1, <4>2
      <4> QED
        BY <1>1, <4>2, <4>3
    <3> QED
      BY <1>3, <1>5, <1>8, <3>1, <3>2, <3>3
  <2> QED
    BY <2>1 DEF Before
<1> QED
  BY <1>1, <1>6, <1>7, <1>8

LEMMA ConcatParts ==
  ASSUME NEW a \in Seq(StepName), NEW b \in Seq(StepName), NEW s, s = a \o b
  PROVE  /\ s \in Seq(StepName)
         /\ \A step : Ahead(a, step) => Ahead(s, step)
         /\ \A step : Ahead(b, step) => Ahead(s, step)
         /\ \A steps : Lacks(a, steps) /\ Lacks(b, steps) => Lacks(s, steps)
BY Concatenated

LEMMA ConcatBefore ==
  ASSUME NEW a \in Seq(StepName), NEW b \in Seq(StepName), NEW s, s = a \o b, NEW steps, NEW last,
         Before(a, steps, last) \/ Ahead(b, last), Before(b, steps, last)
  PROVE  Before(s, steps, last)
BY Concatenated

LEMMA LackingIsBefore ==
  ASSUME NEW s, NEW steps, NEW last, Lacks(s, steps) PROVE Before(s, steps, last)
BY DEF Lacks, Before


-------------------------------------------------------------------------------
(* The program of a setup.                                                  *)

LEMMA BootParts ==
  /\ BootSteps \in Seq(StepName)
  /\ Ahead(BootSteps, "render") /\ Ahead(BootSteps, "doctor") /\ Ahead(BootSteps, "fetch")
  /\ Before(BootSteps, {"assets"}, "fetch") /\ Before(BootSteps, {"render"}, "doctor")
  /\ Lacks(BootSteps, Wiring \cup {"done"})
<1> DEFINE s == BootSteps
<1>1. /\ s \in Seq(StepName) /\ Len(s) = 12
      /\ s[1] = "node" /\ s[2] = "docker" /\ s[3] = "varlock" /\ s[4] = "uv" /\ s[5] = "assets"
      /\ s[6] = "fetch" /\ s[7] = "openclaw" /\ s[8] = "render" /\ s[9] = "doctor" /\ s[10] = "grant"
      /\ s[11] = "probe" /\ s[12] = "mark"
  BY BootFacts
<1> HIDE DEF s
<1>2. \A j \in 1..12 : j = 1 \/ j = 2 \/ j = 3 \/ j = 4 \/ j = 5 \/ j = 6 \/ j = 7 \/ j = 8 \/ j = 9
                       \/ j = 10 \/ j = 11 \/ j = 12
  OBVIOUS
<1>3. \A j \in 1..12 : /\ s[j] = "assets" => j = 5
                       /\ s[j] = "render" => j = 8
                       /\ s[j] \notin Wiring \cup {"done"}
  BY <1>1, <1>2 DEF Wiring
<1>4. Ahead(s, "render") /\ Ahead(s, "doctor") /\ Ahead(s, "fetch")
  <2>1. 8 \in 1..Len(s) /\ 9 \in 1..Len(s) /\ 6 \in 1..Len(s)
    BY <1>1
  <2> QED
    BY <1>1, <2>1 DEF Ahead
<1>5. Before(s, {"assets"}, "fetch") /\ Before(s, {"render"}, "doctor")
  <2>1. 6 \in (5 + 1)..Len(s) /\ 9 \in (8 + 1)..Len(s)
    BY <1>1
  <2> QED
    BY <1>1, <1>3, <2>1 DEF Before
<1>6. Lacks(s, Wiring \cup {"done"})
  BY <1>1, <1>3 DEF Lacks
<1> QED
  BY <1>1, <1>4, <1>5, <1>6 DEF s

LEMMA OnePart ==
  ASSUME NEW a \in StepName
  PROVE  /\ <<a>> \in Seq(StepName) /\ Ahead(<<a>>, a)
         /\ \A steps : a \notin steps => Lacks(<<a>>, steps)
<1>1. <<a>> \in Seq(StepName) /\ Len(<<a>>) = 1 /\ <<a>>[1] = a
  OBVIOUS
<1>2. PICK s \in Seq(StepName) : s = <<a>> /\ Len(s) = 1 /\ s[1] = a
  BY <1>1
<1>3. Ahead(s, a) /\ \A steps : a \notin steps => Lacks(s, steps)
  BY <1>2 DEF Ahead, Lacks
<1> QED
  BY <1>2, <1>3

LEMMA TwoParts ==
  ASSUME NEW a \in StepName, NEW b \in StepName
  PROVE  /\ <<a, b>> \in Seq(StepName) /\ Ahead(<<a, b>>, a) /\ Ahead(<<a, b>>, b)
         /\ \A steps : a \notin steps /\ b \notin steps => Lacks(<<a, b>>, steps)
         /\ \A steps : b \notin steps => Before(<<a, b>>, steps, b)
<1>1. <<a, b>> \in Seq(StepName) /\ Len(<<a, b>>) = 2 /\ <<a, b>>[1] = a /\ <<a, b>>[2] = b
  OBVIOUS
<1>2. PICK s \in Seq(StepName) : s = <<a, b>> /\ Len(s) = 2 /\ s[1] = a /\ s[2] = b
  BY <1>1
<1>3. \A i \in 1..Len(s) : i = 1 \/ i = 2
  BY <1>2
<1>4. 1 \in 1..Len(s) /\ 2 \in 1..Len(s) /\ 2 \in (1 + 1)..Len(s)
  BY <1>2
<1>5. /\ Ahead(s, a) /\ Ahead(s, b)
      /\ \A steps : a \notin steps /\ b \notin steps => Lacks(s, steps)
      /\ \A steps : b \notin steps => Before(s, steps, b)
  BY <1>2, <1>3, <1>4 DEF Ahead, Lacks, Before
<1> QED
  BY <1>2, <1>5

LEMMA ConfigureParts ==
  ASSUME NEW asks \in BOOLEAN
  PROVE  /\ Configure(asks) \in Seq(StepName)
         /\ Ahead(Configure(asks), "defaults") /\ Ahead(Configure(asks), "validate")
         /\ Before(Configure(asks), Wiring, "validate")
         /\ Lacks(Configure(asks), {"assets", "render", "done"})
<1> DEFINE Others == {"assets", "render", "done"}
<1>1. PICK d \in Seq(StepName) : d = <<"defaults">> /\ Ahead(d, "defaults") /\ Lacks(d, Others)
  <2>1. "defaults" \in StepName /\ "defaults" \notin Others
    BY DEF StepName, PlainStep
  <2> HIDE DEF Others
  <2> QED
    BY <2>1, OnePart
<1>2. PICK v \in Seq(StepName) :
        /\ v = <<"embed", "validate">> /\ Ahead(v, "validate") /\ Lacks(v, Others) /\ Before(v, Wiring, "validate")
  <2>1. /\ "embed" \in StepName /\ "validate" \in StepName /\ "embed" \notin Others /\ "validate" \notin Others
        /\ "validate" \notin Wiring
    BY DEF StepName, PlainStep, Wiring
  <2> HIDE DEF Others
  <2> QED
    BY <2>1, TwoParts
<1>3. PICK q \in Seq(StepName) : /\ q = (IF asks THEN <<"backend", "overlay", "prompt">> ELSE <<"ollama">>)
                                 /\ Lacks(q, Others)
  <2>1. <<"backend", "overlay", "prompt">> \in Seq(StepName) /\ Lacks(<<"backend", "overlay", "prompt">>, Others)
    BY DEF StepName, PlainStep, Lacks
  <2>2. <<"ollama">> \in Seq(StepName) /\ Lacks(<<"ollama">>, Others)
    BY DEF StepName, PlainStep, Lacks
  <2> QED
    BY <2>1, <2>2
<1>4. PICK x \in Seq(StepName) : x = d \o q /\ Ahead(x, "defaults") /\ Lacks(x, Others)
  <2>1. PICK x : x = d \o q
    OBVIOUS
  <2> HIDE DEF Others
  <2>2. Ahead(d, "defaults") /\ Lacks(d, Others) /\ Lacks(q, Others)
    BY <1>1, <1>3
  <2>3. x \in Seq(StepName) /\ Ahead(x, "defaults")
    BY <2>1, <2>2, ConcatParts
  <2>4. Lacks(x, Others)
    BY <2>1, <2>2, ConcatParts
  <2> QED
    BY <2>1, <2>3, <2>4
<1>5. PICK y \in Seq(StepName) : /\ y = x \o v
                                 /\ Ahead(y, "defaults") /\ Ahead(y, "validate") /\ Lacks(y, Others)
                                 /\ Before(y, Wiring, "validate")
  <2>1. PICK y : y = x \o v
    OBVIOUS
  <2> HIDE DEF Others
  <2>2. y \in Seq(StepName) /\ Ahead(y, "defaults") /\ Ahead(y, "validate") /\ Lacks(y, Others)
    BY <1>2, <1>4, <2>1, ConcatParts
  <2>3. Before(y, Wiring, "validate")
    BY <1>2, <2>1, ConcatBefore
  <2> QED
    BY <2>1, <2>2, <2>3
<1>6. Configure(asks) = y
  BY <1>1, <1>2, <1>3, <1>4, <1>5 DEF Configure
<1> QED
  BY <1>5, <1>6

LEMMA ActivationParts ==
  ASSUME NEW act, act = <<"models", "refresh">> \o Activation \o <<"verify">>
  PROVE  /\ act \in Seq(StepName)
         /\ Ahead(act, "units") /\ Ahead(act, "services") /\ Ahead(act, "sidecars") /\ Ahead(act, "gateway")
         /\ Ahead(act, "verify") /\ Before(act, Modelling, "verify")
         /\ Lacks(act, Wiring \cup {"assets", "render", "grant", "done"})
<1> DEFINE Others == Wiring \cup {"assets", "render", "grant", "done"}
<1>1. PICK u \in Seq(StepName) :
        /\ u = Activation /\ Ahead(u, "units") /\ Ahead(u, "services") /\ Ahead(u, "sidecars")
        /\ Ahead(u, "gateway") /\ Lacks(u, Others)
  <2>0. /\ Activation \in Seq(StepName) /\ Len(Activation) = 4 /\ Activation[1] = "units"
        /\ Activation[2] = "services" /\ Activation[3] = "sidecars" /\ Activation[4] = "gateway"
    BY DEF Activation, StepName, PlainStep
  <2>1. PICK u \in Seq(StepName) : /\ u = Activation /\ Len(u) = 4 /\ u[1] = "units" /\ u[2] = "services"
                                   /\ u[3] = "sidecars" /\ u[4] = "gateway"
    BY <2>0
  <2>2. /\ 1 \in 1..Len(u) /\ 2 \in 1..Len(u) /\ 3 \in 1..Len(u) /\ 4 \in 1..Len(u)
        /\ \A i \in 1..Len(u) : i = 1 \/ i = 2 \/ i = 3 \/ i = 4
    BY <2>1
  <2> QED
    BY <2>1, <2>2 DEF Ahead, Lacks, Wiring
<1>2. PICK m \in Seq(StepName) : m = <<"models", "refresh">> /\ Lacks(m, Others)
  <2>1. "models" \in StepName /\ "refresh" \in StepName /\ "models" \notin Others /\ "refresh" \notin Others
    BY DEF StepName, PlainStep, Wiring
  <2> HIDE DEF Others
  <2> QED
    BY <2>1, TwoParts
<1>3. PICK v \in Seq(StepName) :
        v = <<"verify">> /\ Lacks(v, Others) /\ Ahead(v, "verify") /\ Before(v, Modelling, "verify")
  <2>1. "verify" \in StepName /\ "verify" \notin Others /\ "verify" \notin Modelling
    BY DEF StepName, PlainStep, Wiring, Modelling
  <2> HIDE DEF Others
  <2> QED
    BY <2>1, OnePart, LackingIsBefore
<1> HIDE DEF Others
<1>4. PICK x \in Seq(StepName) :
        /\ x = m \o u /\ Ahead(x, "units") /\ Ahead(x, "services") /\ Ahead(x, "sidecars")
        /\ Ahead(x, "gateway") /\ Lacks(x, Others)
  <2>1. PICK x : x = m \o u
    OBVIOUS
  <2>2. /\ Ahead(u, "units") /\ Ahead(u, "services") /\ Ahead(u, "sidecars") /\ Ahead(u, "gateway")
        /\ Lacks(u, Others) /\ Lacks(m, Others)
    BY <1>1, <1>2
  <2>3. /\ x \in Seq(StepName) /\ Ahead(x, "units") /\ Ahead(x, "services") /\ Ahead(x, "sidecars")
        /\ Ahead(x, "gateway") /\ Lacks(x, Others)
    BY <2>1, <2>2, ConcatParts
  <2> QED
    BY <2>1, <2>3
<1>5. act = x \o v
  BY <1>1, <1>2, <1>3, <1>4
<1>6. /\ act \in Seq(StepName) /\ Ahead(act, "units") /\ Ahead(act, "services") /\ Ahead(act, "sidecars")
      /\ Ahead(act, "gateway") /\ Ahead(act, "verify") /\ Lacks(act, Others)
  BY <1>3, <1>4, <1>5, ConcatParts
<1>7. Before(act, Modelling, "verify")
  BY <1>3, <1>5, ConcatBefore
<1> QED
  BY <1>6, <1>7 DEF Others

LEMMA SetupParts ==
  ASSUME NEW skip \in BOOLEAN, NEW given \in BOOLEAN, NEW asks \in BOOLEAN, NEW activate \in BOOLEAN,
         NEW s, s = Steps("setup", skip, given, asks, activate)
  PROVE  s \in Seq(StepName) /\ Plan(s, activate) /\ Whole(s, activate)
<1>1. PICK s1 \in Seq(StepName) :
        /\ s1 = (IF skip THEN <<"assets", "fetch">> ELSE BootSteps)
        /\ Ahead(s1, "fetch") /\ Before(s1, {"assets"}, "fetch") /\ Before(s1, {"render"}, "doctor")
        /\ ~skip => Ahead(s1, "render") /\ Ahead(s1, "doctor")
        /\ Lacks(s1, {"done"})
  <2>1. CASE skip
    <3>1. /\ "assets" \in StepName /\ "fetch" \in StepName /\ "fetch" \notin {"assets"}
          /\ "assets" \notin {"render"} /\ "fetch" \notin {"render"}
          /\ "assets" \notin {"done"} /\ "fetch" \notin {"done"}
      BY DEF StepName, PlainStep
    <3>2. PICK x : x = <<"assets", "fetch">>
      OBVIOUS
    <3>3. /\ x \in Seq(StepName)
          /\ Ahead(x, "fetch") /\ Before(x, {"assets"}, "fetch") /\ Lacks(x, {"render"}) /\ Lacks(x, {"done"})
      BY <3>1, <3>2, TwoParts
    <3> QED
      BY <2>1, <3>2, <3>3, LackingIsBefore
  <2>2. CASE ~skip
    <3>1. Lacks(BootSteps, {"done"})
      BY BootParts DEF Lacks
    <3> QED
      BY <2>2, <3>1, BootParts
  <2> QED
    BY <2>1, <2>2
<1>2. PICK s2 \in Seq(StepName) :
        /\ s2 = s1 \o Configure(asks)
        /\ Ahead(s2, "fetch") /\ Before(s2, {"assets"}, "fetch") /\ Before(s2, {"render"}, "doctor")
        /\ ~skip => Ahead(s2, "render") /\ Ahead(s2, "doctor")
        /\ Lacks(s2, {"done"})
        /\ Ahead(s2, "defaults") /\ Ahead(s2, "validate") /\ Before(s2, Wiring, "validate")
  <2>1. PICK c \in Seq(StepName) :
          /\ c = Configure(asks) /\ Ahead(c, "defaults") /\ Ahead(c, "validate") /\ Before(c, Wiring, "validate")
          /\ Lacks(c, {"assets"}) /\ Lacks(c, {"render"}) /\ Lacks(c, {"done"})
    BY ConfigureParts DEF Lacks
  <2>2. PICK x : x = s1 \o c
    OBVIOUS
  <2>3. /\ x \in Seq(StepName) /\ Ahead(x, "fetch") /\ Ahead(x, "defaults") /\ Ahead(x, "validate")
        /\ ~skip => Ahead(x, "render") /\ Ahead(x, "doctor")
        /\ Lacks(x, {"done"})
    BY <1>1, <2>1, <2>2, ConcatParts
  <2>4. Before(x, {"assets"}, "fetch")
    BY <1>1, <2>1, <2>2, LackingIsBefore, ConcatBefore
  <2>5. Before(x, {"render"}, "doctor")
    BY <1>1, <2>1, <2>2, LackingIsBefore, ConcatBefore
  <2>6. Before(x, Wiring, "validate")
    BY <1>1, <2>1, <2>2, ConcatBefore
  <2> QED
    BY <2>1, <2>2, <2>3, <2>4, <2>5, <2>6
<1>3. PICK s3 \in Seq(StepName) :
        /\ s3 = s2 \o (IF given \/ skip THEN <<"render", "doctor">> ELSE <<>>)
        /\ Ahead(s3, "fetch") /\ Before(s3, {"assets"}, "fetch") /\ Before(s3, {"render"}, "doctor")
        /\ Ahead(s3, "render") /\ Ahead(s3, "doctor")
        /\ Lacks(s3, {"done"})
        /\ Ahead(s3, "defaults") /\ Ahead(s3, "validate") /\ Before(s3, Wiring, "validate")
  <2>1. CASE given \/ skip
    <3>1. /\ "render" \in StepName /\ "doctor" \in StepName /\ "doctor" \notin {"render"}
          /\ "render" \notin {"assets"} /\ "doctor" \notin {"assets"}
          /\ "render" \notin {"done"} /\ "doctor" \notin {"done"}
          /\ "render" \notin Wiring /\ "doctor" \notin Wiring
      BY DEF StepName, PlainStep, Wiring
    <3>2. PICK r : r = <<"render", "doctor">>
      OBVIOUS
    <3>3. /\ r \in Seq(StepName)
          /\ Ahead(r, "render") /\ Ahead(r, "doctor") /\ Before(r, {"render"}, "doctor")
          /\ Lacks(r, {"assets"}) /\ Lacks(r, {"done"}) /\ Lacks(r, Wiring)
      BY <3>1, <3>2, TwoParts
    <3>4. PICK x : x = s2 \o r
      OBVIOUS
    <3>5. /\ x \in Seq(StepName) /\ Ahead(x, "fetch") /\ Ahead(x, "defaults") /\ Ahead(x, "validate")
          /\ Ahead(x, "render") /\ Ahead(x, "doctor") /\ Lacks(x, {"done"})
      BY <1>2, <3>3, <3>4, ConcatParts
    <3>6. Before(x, {"assets"}, "fetch")
      BY <1>2, <3>3, <3>4, LackingIsBefore, ConcatBefore
    <3>7. Before(x, {"render"}, "doctor")
      BY <1>2, <3>3, <3>4, ConcatBefore
    <3>8. Before(x, Wiring, "validate")
      BY <1>2, <3>3, <3>4, LackingIsBefore, ConcatBefore
    <3> QED
      BY <2>1, <3>2, <3>4, <3>5, <3>6, <3>7, <3>8
  <2>2. CASE ~(given \/ skip)
    <3>1. s2 = s2 \o <<>>
      OBVIOUS
    <3> QED
      BY <1>2, <2>2, <3>1
  <2> QED
    BY <2>1, <2>2
<1>4. PICK s4 \in Seq(StepName) :
        /\ s4 = s3 \o (IF activate THEN <<"models", "refresh">> \o Activation \o <<"verify">> ELSE <<"units">>)
        /\ Ahead(s4, "fetch") /\ Before(s4, {"assets"}, "fetch") /\ Before(s4, {"render"}, "doctor")
        /\ Ahead(s4, "render") /\ Ahead(s4, "doctor")
        /\ Lacks(s4, {"done"})
        /\ Ahead(s4, "defaults") /\ Ahead(s4, "validate") /\ Before(s4, Wiring, "validate")
        /\ Ahead(s4, "units")
        /\ activate => /\ Ahead(s4, "services") /\ Ahead(s4, "sidecars") /\ Ahead(s4, "gateway")
                       /\ Ahead(s4, "verify")
                       /\ Before(s4, Modelling, "verify") /\ Before(s4, {"grant"}, "services")
  <2>1. PICK act \in Seq(StepName) :
          /\ act = (IF activate THEN <<"models", "refresh">> \o Activation \o <<"verify">> ELSE <<"units">>)
          /\ Ahead(act, "units")
          /\ Lacks(act, {"assets"}) /\ Lacks(act, {"render"}) /\ Lacks(act, {"done"}) /\ Lacks(act, Wiring)
          /\ activate => /\ Ahead(act, "services") /\ Ahead(act, "sidecars") /\ Ahead(act, "gateway")
                         /\ Ahead(act, "verify")
                         /\ Before(act, Modelling, "verify") /\ Lacks(act, {"grant"})
    <3>1. CASE activate
      <4>1. PICK act : act = <<"models", "refresh">> \o Activation \o <<"verify">>
        OBVIOUS
      <4>2. /\ Lacks(act, {"assets"}) /\ Lacks(act, {"render"}) /\ Lacks(act, {"done"}) /\ Lacks(act, Wiring)
            /\ Lacks(act, {"grant"})
        BY <4>1, ActivationParts DEF Lacks
      <4> QED
        BY <3>1, <4>1, <4>2, ActivationParts
    <3>2. CASE ~activate
      <4>1. /\ "units" \in StepName /\ "units" \notin {"assets"} /\ "units" \notin {"render"}
            /\ "units" \notin {"done"} /\ "units" \notin Wiring
        BY DEF StepName, PlainStep, Wiring
      <4>2. PICK u : u = <<"units">>
        OBVIOUS
      <4>3. /\ u \in Seq(StepName) /\ Ahead(u, "units")
            /\ Lacks(u, {"assets"}) /\ Lacks(u, {"render"}) /\ Lacks(u, {"done"}) /\ Lacks(u, Wiring)
        BY <4>1, <4>2, OnePart
      <4> QED
        BY <3>2, <4>2, <4>3
    <3> QED
      BY <3>1, <3>2
  <2>2. PICK x : x = s3 \o act
    OBVIOUS
  <2>10. /\ Ahead(act, "units")
         /\ Lacks(act, {"assets"}) /\ Lacks(act, {"render"}) /\ Lacks(act, {"done"}) /\ Lacks(act, Wiring)
    BY <2>1
  <2>11. /\ Ahead(s3, "fetch") /\ Before(s3, {"assets"}, "fetch") /\ Before(s3, {"render"}, "doctor")
         /\ Ahead(s3, "render") /\ Ahead(s3, "doctor") /\ Lacks(s3, {"done"})
         /\ Ahead(s3, "defaults") /\ Ahead(s3, "validate") /\ Before(s3, Wiring, "validate")
    BY <1>3
  <2>3. /\ x \in Seq(StepName) /\ Ahead(x, "fetch") /\ Ahead(x, "defaults") /\ Ahead(x, "validate")
        /\ Ahead(x, "render") /\ Ahead(x, "doctor") /\ Lacks(x, {"done"}) /\ Ahead(x, "units")
    BY <2>2, <2>10, <2>11, ConcatParts
  <2>4. Before(x, {"assets"}, "fetch")
    BY <2>2, <2>10, <2>11, LackingIsBefore, ConcatBefore
  <2>5. Before(x, {"render"}, "doctor")
    BY <2>2, <2>10, <2>11, LackingIsBefore, ConcatBefore
  <2>6. Before(x, Wiring, "validate")
    BY <2>2, <2>10, <2>11, LackingIsBefore, ConcatBefore
  <2>7. ASSUME activate
        PROVE  Ahead(x, "services") /\ Ahead(x, "sidecars") /\ Ahead(x, "gateway") /\ Ahead(x, "verify")
    BY <2>1, <2>2, <2>7, ConcatParts
  <2>8. ASSUME activate PROVE Before(x, Modelling, "verify")
    BY <2>1, <2>2, <2>8, ConcatBefore
  <2>9. ASSUME activate PROVE Before(x, {"grant"}, "services")
    <3>1. Before(s3, {"grant"}, "services") \/ Ahead(act, "services")
      BY <2>1, <2>9
    <3>2. Before(act, {"grant"}, "services")
      BY <2>1, <2>9, LackingIsBefore
    <3> QED
      BY <2>2, <3>1, <3>2, ConcatBefore
  <2> QED
    BY <2>1, <2>2, <2>3, <2>4, <2>5, <2>6, <2>7, <2>8, <2>9
<1>5. PICK d : d = <<"done">> /\ Len(d) = 1
  <2>1. Len(<<"done">>) = 1
    OBVIOUS
  <2> QED
    BY <2>1
<1>12. /\ d \in Seq(StepName) /\ Lacks(d, {"assets"}) /\ Lacks(d, {"render"}) /\ Lacks(d, Wiring)
       /\ Lacks(d, {"grant"}) /\ Lacks(d, Modelling)
  <2>1. /\ "done" \in StepName /\ "done" \notin {"assets"} /\ "done" \notin {"render"} /\ "done" \notin Wiring
        /\ "done" \notin {"grant"} /\ "done" \notin Modelling
    BY DEF StepName, PlainStep, Wiring, Modelling
  <2> QED
    BY <1>5, <2>1, OnePart
<1>13. /\ s4 \in Seq(StepName)
       /\ Ahead(s4, "fetch") /\ Before(s4, {"assets"}, "fetch") /\ Before(s4, {"render"}, "doctor")
       /\ Ahead(s4, "render") /\ Ahead(s4, "doctor") /\ Ahead(s4, "units")
       /\ Ahead(s4, "defaults") /\ Ahead(s4, "validate") /\ Before(s4, Wiring, "validate")
  BY <1>4
<1>6. s = s4 \o d
  BY <1>1, <1>2, <1>3, <1>4, <1>5 DEF Steps
<1>7. Ends(s)
  <2>1. /\ Len(s4) \in Nat /\ Len(s) = Len(s4) + 1
        /\ \A i \in 1..Len(s4) : s[i] = s4[i]
    BY <1>5, <1>6, <1>12, <1>13, ConcatFacts
  <2>2. \A i \in 1..Len(s4) : s4[i] # "done"
    BY <1>4 DEF Lacks
  <2>3. \A i \in 1..Len(s) : i \in 1..Len(s4) \/ i = Len(s)
    BY <2>1
  <2> QED
    BY <2>1, <2>2, <2>3 DEF Ends
<1>8. Before(s, {"assets"}, "fetch") /\ Before(s, {"render"}, "doctor") /\ Before(s, Wiring, "validate")
  <2>1. Before(d, {"assets"}, "fetch") /\ Before(d, {"render"}, "doctor") /\ Before(d, Wiring, "validate")
    BY <1>12, LackingIsBefore
  <2> QED
    BY <1>6, <1>12, <1>13, <2>1, ConcatBefore
<1>9. ASSUME activate PROVE Before(s, Modelling, "verify") /\ Before(s, {"grant"}, "services")
  BY <1>4, <1>6, <1>9, <1>12, LackingIsBefore, ConcatBefore
<1>10. /\ s \in Seq(StepName) /\ Ahead(s, "render") /\ Ahead(s, "fetch") /\ Ahead(s, "doctor")
       /\ Ahead(s, "defaults") /\ Ahead(s, "validate") /\ Ahead(s, "units")
  BY <1>6, <1>12, <1>13, ConcatParts
<1>11. ASSUME activate
       PROVE  Ahead(s, "verify") /\ Ahead(s, "services") /\ Ahead(s, "sidecars") /\ Ahead(s, "gateway")
  BY <1>4, <1>6, <1>11, <1>12, ConcatParts
<1> QED
  BY <1>7, <1>8, <1>9, <1>10, <1>11 DEF Plan, Whole

\* No other command ends with the last step of a setup.
LEMMA OthersAreNoSetup ==
  ASSUME NEW cmd \in {"bootstrap", "configure", "activate"}, NEW skip, NEW given, NEW asks \in BOOLEAN, NEW activate
  PROVE  ~Ahead(Steps(cmd, skip, given, asks, activate), "done")
<1>1. Lacks(BootSteps, {"done"}) /\ Lacks(Configure(asks), {"done"})
  BY BootParts, ConfigureParts DEF Lacks
<1>2. Lacks(Activation, {"done"})
  BY DEF Activation, Lacks
<1>3. Lacks(Steps(cmd, skip, given, asks, activate), {"done"})
  BY <1>1, <1>2 DEF Steps
<1> QED
  BY <1>3 DEF Lacks, Ahead


-------------------------------------------------------------------------------
(* A step of a setup keeps what is promised.                                *)

\* What a step establishes, or keeps unless it is one of those that disturb it.
Keeps(step) ==
  /\ config.profile = run.profile \/ step = "render" => config'.profile = run.profile
  /\ step # "assets" /\ (assets[run.profile] = "whole" \/ step = "fetch") => assets'[run.profile] = "whole"
  /\ step # "render" /\ (HostReady \/ step = "doctor") => HostReady'
  /\ env.secret # 0 \/ step = "defaults" => env'.secret # 0
  /\ step \notin Wiring /\ (Wired \/ step = "validate") => Wired'
  /\ "files" \in units \/ step = "units" => "files" \in units'
  /\ step \notin Modelling /\ (AgentsHaveModels \/ step = "verify") => AgentsHaveModels'
  /\ step # "grant" /\ (~flag \/ step = "services") => ~flag'
  /\ "sidecars" \in units \/ step = "sidecars" => "sidecars" \in units'
  /\ "gateway" \in units \/ step = "gateway" => "gateway" \in units'

LEMMA PromisesKept ==
  ASSUME NEW s \in Seq(StepName), s # <<>>, Plan(s, run.activate), Promised(s), Keeps(Head(s)),
         NEW t, t = Tail(s), run'.todo = t, run'.profile = run.profile, run'.activate = run.activate
  PROVE  Plan(run.todo, run.activate)' /\ Promised(run.todo)'
<1>1. Plan(t, run.activate)
  BY PlanTail
<1>2. Plan(run.todo, run.activate)'
  BY <1>1 DEF Plan, Ends, Before, Ahead
<1>3. ASSUME Ahead(t, "done") PROVE Promised(t)'
  <2>1. Ahead(s, "done") /\ \A step : Ahead(s, step) => Head(s) = step \/ Ahead(t, step)
    BY <1>3, AheadTail
  <2>2. /\ Head(s) = "assets" => Ahead(t, "fetch")
        /\ Head(s) = "render" => Ahead(t, "doctor")
        /\ Head(s) \in Wiring => Ahead(t, "validate")
    BY <2>1, BeforeTail DEF Plan
  <2>3. run.activate => /\ Head(s) \in Modelling => Ahead(t, "verify")
                        /\ Head(s) = "grant" => Ahead(t, "services")
    BY <2>1, BeforeTail DEF Plan
  <2>4. Ahead(t, "render") \/ config'.profile = run.profile
    BY <2>1 DEF Promised, Keeps
  <2>5. Ahead(t, "fetch") \/ assets'[run.profile] = "whole"
    BY <2>1, <2>2 DEF Promised, Keeps
  <2>6. Ahead(t, "doctor") \/ HostReady'
    BY <2>1, <2>2 DEF Promised, Keeps
  <2>7. Ahead(t, "defaults") \/ env'.secret # 0
    BY <2>1 DEF Promised, Keeps
  <2>8. Ahead(t, "validate") \/ Wired'
    BY <2>1, <2>2 DEF Promised, Keeps
  <2>9. Ahead(t, "units") \/ "files" \in units'
    BY <2>1 DEF Promised, Keeps
  <2>10. ASSUME run.activate
         PROVE  /\ Ahead(t, "verify") \/ AgentsHaveModels'
                /\ Ahead(t, "services") \/ ~flag'
                /\ Ahead(t, "sidecars") \/ "sidecars" \in units'
                /\ Ahead(t, "gateway") \/ "gateway" \in units'
    BY <2>1, <2>3, <2>10 DEF Promised, Keeps
  <2> QED
    BY <2>4, <2>5, <2>6, <2>7, <2>8, <2>9, <2>10 DEF Promised
<1>4. Promised(run.todo)'
  BY <1>3 DEF Promised, Ahead
<1> QED
  BY <1>2, <1>4

\* A step that nothing depends on may be passed over.
LEMMA PromisesOfTail ==
  ASSUME NEW s \in Seq(StepName), s # <<>>, Head(s) = "backend", Promised(s) PROVE Promised(Tail(s))
<1> SUFFICES ASSUME Ahead(Tail(s), "done") PROVE Promised(Tail(s))
  BY DEF Promised
<1>1. Ahead(s, "done") /\ \A step : Ahead(s, step) => Head(s) = step \/ Ahead(Tail(s), step)
  BY AheadTail
<1> QED
  BY <1>1 DEF Promised

\* The wizard stands for the models it provides.
LEMMA PromisesOfWizard ==
  ASSUME NEW s \in Seq(StepName), s # <<>>, s[1] = "models", Plan(s, run.activate), Promised(s),
         NEW w, w = <<"wizard">> \o Tail(s)
  PROVE  Plan(w, run.activate) /\ Promised(w)
<1>1. /\ Plan(w, run.activate)
      /\ \A step : step \notin {"models", "wizard"} => (Ahead(w, step) <=> Ahead(s, step))
  BY PlanWizard
<1>2. Promised(w)
  BY <1>1 DEF Promised
<1> QED
  BY <1>1, <1>2

LEMMA NothingPromised == run'.todo = <<>> => Plan(run.todo, run.activate)' /\ Promised(run.todo)'
<1> SUFFICES ASSUME run'.todo = <<>> PROVE Plan(run.todo, run.activate)' /\ Promised(run.todo)'
  OBVIOUS
<1>1. ~Ahead(run.todo, "done")'
  <2>1. Len(run'.todo) = 0
    OBVIOUS
  <2> QED
    BY <2>1 DEF Ahead
<1> QED
  BY <1>1 DEF Plan, Promised


Proceeds ==
  /\ run.todo # <<>> /\ run'.todo = Tail(run.todo)
  /\ run'.cmd = run.cmd /\ run'.profile = run.profile /\ run'.activate = run.activate

\* A step of a command, but for the last one: it keeps the promises, or ends it.
Delivers ==
  /\ FilesTyped' /\ delivered' = delivered
  /\ (Proceeds /\ Keeps(Head(run.todo))) \/ run' = NoRun

LEMMA GivenUp ==
  ASSUME run' = NoRun PROVE Plan(run.todo, run.activate)' /\ Promised(run.todo)' /\ AfterSetup'
<1>1. run'.todo = <<>> /\ run'.cmd = "none"
  BY DEF NoRun
<1>2. Plan(run.todo, run.activate)' /\ Promised(run.todo)'
  BY <1>1, NothingPromised
<1>3. AfterSetup'
  BY <1>1 DEF AfterSetup
<1> QED
  BY <1>2, <1>3

LEMMA DeliversInv == ASSUME Typed, DeliverInv, Delivers PROVE DeliverInv'
<1> USE DEF DeliverInv, SetupDelivers
<1>1. CASE run' = NoRun
  BY <1>1, GivenUp DEF Delivers
<1>2. CASE Proceeds /\ Keeps(Head(run.todo))
  <2>1. PICK s, t : s \in Seq(StepName) /\ s = run.todo /\ t = Tail(s) /\ s # <<>>
    BY <1>2, RunFacts DEF Proceeds
  <2>2. Plan(run.todo, run.activate)' /\ Promised(run.todo)'
    BY <1>2, <2>1, PromisesKept DEF Proceeds
  <2>3. AfterSetup'
    BY <1>2 DEF AfterSetup, Proceeds
  <2> QED
    BY <2>2, <2>3 DEF Delivers
<1> QED
  BY <1>1, <1>2 DEF Delivers

LEMMA OnwardProceeds == ASSUME Typed, run.todo # <<>>, Onward PROVE Proceeds
<1>1. run' = [run EXCEPT !.todo = Tail(run.todo)]
  BY DEF Onward
<1> QED
  BY <1>1 DEF Proceeds, Typed, Run

\* A step that touches neither the environment nor the files.
LEMMA KeepsFiles ==
  ASSUME NEW step, UNCHANGED <<config, assets, env, overlay>>, tools \subseteq tools', units \subseteq units',
         step \notin {"render", "fetch", "defaults"},
         step = "doctor" => HostReady,
         step = "validate" => Wired,
         step = "verify" => AgentsHaveModels,
         step # "grant" => (flag' => flag) /\ (step = "services" => ~flag'),
         step \in {"units", "sidecars", "gateway"} => (IF step = "units" THEN "files" ELSE step) \in units'
  PROVE  Keeps(step)
<1>1. HostReady => HostReady'
  BY DEF HostReady
<1>2. Wired => Wired'
  BY DEF Wired, Resolves
<1>3. AgentsHaveModels => AgentsHaveModels'
  BY DEF AgentsHaveModels, Keyed
<1> QED
  BY <1>1, <1>2, <1>3 DEF Keeps

LEMMA RaiseIsNoRun == Raise => run' = NoRun
BY DEF Raise

LEMMA BootDelivers ==
  ASSUME Typed, FilesTyped, NodeRuntime \/ Docker \/ Varlock \/ UvSync \/ GlobalTools \/ Grant \/ Probe \/ Mark
  PROVE  Delivers
<1>1. /\ run.todo # <<>> /\ Head(run.todo) \in BootStep
      /\ UNCHANGED <<assets, config, env, overlay, units, delivered>> /\ tools \subseteq tools'
      /\ Head(run.todo) # "grant" => (flag' => flag)
  <2>1. CASE NodeRuntime \/ Varlock \/ UvSync \/ GlobalTools
    BY <2>1 DEF NodeRuntime, Varlock, UvSync, GlobalTools, Install, At, BootStep, AllTools, envVars
  <2>2. CASE Docker
    BY <2>2 DEF Docker, At, BootStep, envVars
  <2>3. CASE Grant
    BY <2>3 DEF Grant, At, BootStep, envVars
  <2>4. CASE Probe
    <3>1. flag' = flag \/ flag' = FALSE
      BY <2>4 DEF Probe, ClearRefresh, Typed, Run
    <3> QED
      BY <2>4, <3>1 DEF Probe, At, BootStep, envVars
  <2>5. CASE Mark
    BY <2>5 DEF Mark, At, BootStep, envVars
  <2> QED
    BY <2>1, <2>2, <2>3, <2>4, <2>5
<1>2. Keeps(Head(run.todo))
  BY <1>1, KeepsFiles DEF BootStep, AllTools
<1>3. Proceeds \/ run' = NoRun
  <2>1. CASE NodeRuntime \/ Varlock \/ UvSync \/ GlobalTools \/ Mark
    BY <1>1, <2>1, OnwardProceeds DEF NodeRuntime, Varlock, UvSync, GlobalTools, Install, Mark
  <2>2. CASE Docker
    <3>1. CASE docker = "absent"
      <4>1. run' = [run EXCEPT !.todo = Tail(run.todo), !.installed = TRUE]
        BY <2>2, <3>1 DEF Docker
      <4> QED
        BY <1>1, <4>1 DEF Proceeds, Typed, Run
    <3>2. CASE docker # "absent"
      BY <1>1, <2>2, <3>2, OnwardProceeds, RaiseIsNoRun DEF Docker, Typed
    <3> QED
      BY <3>1, <3>2
  <2>3. CASE Grant
    <3>1. CASE run.installed /\ ~group
      <4>1. run' = [run EXCEPT !.todo = Tail(run.todo), !.added = TRUE]
        BY <2>3, <3>1 DEF Grant
      <4> QED
        BY <1>1, <4>1 DEF Proceeds, Typed, Run
    <3>2. CASE ~(run.installed /\ ~group)
      BY <1>1, <2>3, <3>2, OnwardProceeds DEF Grant
    <3> QED
      BY <3>1, <3>2
  <2>4. CASE Probe
    <3>1. Granted \/ Raise
      BY <2>4 DEF Probe, Typed, Run
    <3>2. Granted => Proceeds
      <4> SUFFICES ASSUME Granted PROVE Proceeds
        OBVIOUS
      <4>1. run' = [run EXCEPT !.todo = Tail(run.todo), !.installed = FALSE, !.added = FALSE]
        BY DEF Granted
      <4> QED
        BY <1>1, <4>1 DEF Proceeds, Typed, Run
    <3> QED
      BY <3>1, <3>2, RaiseIsNoRun
  <2> QED
    BY <2>1, <2>2, <2>3, <2>4
<1>4. FilesTyped'
  BY <1>1 DEF FilesTyped
<1> QED
  BY <1>1, <1>2, <1>3, <1>4 DEF Delivers


LEMMA FileDelivers ==
  ASSUME Typed, FilesTyped, Assets \/ Fetch \/ Render PROVE Delivers
<1>0. run.profile \in Profiles /\ assets \in [Profiles -> {"none", "partial", "whole"}]
  BY DEF Typed, Run, FilesTyped
<1>1. run.todo # <<>> /\ Proceeds /\ UNCHANGED <<tools, env, overlay, units, flag, delivered>>
  BY OnwardProceeds DEF Assets, Fetch, Render, At, hostVars, envVars
<1>2. Wired => Wired'
  BY <1>1 DEF Wired, Resolves
<1>3. CASE Assets
  <2>1. /\ config' = config /\ Head(run.todo) = "assets"
        /\ assets' = [assets EXCEPT ![run.profile] = IF assets[run.profile] = "whole" /\ run.profile \notin Reinstalled
                                                    THEN assets[run.profile] ELSE "partial"]
    BY <1>3 DEF Assets, At
  <2>2. /\ assets' \in [Profiles -> {"none", "partial", "whole"}]
        /\ \A p \in Profiles : assets[p] # "none" => assets'[p] # "none"
    BY <1>0, <2>1
  <2>3. HostReady => HostReady'
    BY <1>1, <2>1, <2>2 DEF HostReady
  <2>4. AgentsHaveModels => AgentsHaveModels'
    BY <1>1, <2>1 DEF AgentsHaveModels, Keyed
  <2>5. FilesTyped'
    BY <2>1, <2>2 DEF FilesTyped
  <2> QED
    BY <1>1, <1>2, <2>1, <2>3, <2>4, <2>5 DEF Delivers, Keeps
<1>4. CASE Fetch
  <2>1. config' = config /\ Head(run.todo) = "fetch" /\ assets' = [assets EXCEPT ![run.profile] = "whole"]
    BY <1>4 DEF Fetch, At
  <2>2. /\ assets' \in [Profiles -> {"none", "partial", "whole"}] /\ assets'[run.profile] = "whole"
        /\ \A p \in Profiles : assets[p] # "none" => assets'[p] # "none"
    BY <1>0, <2>1
  <2>3. HostReady => HostReady'
    BY <1>1, <2>1, <2>2 DEF HostReady
  <2>4. AgentsHaveModels => AgentsHaveModels'
    BY <1>1, <2>1 DEF AgentsHaveModels, Keyed
  <2>5. FilesTyped'
    BY <2>1, <2>2 DEF FilesTyped
  <2> QED
    BY <1>1, <1>2, <2>1, <2>2, <2>3, <2>4, <2>5 DEF Delivers, Keeps
<1>5. CASE Render
  <2>1. assets' = assets /\ Head(run.todo) = "render" /\ config' = [profile |-> run.profile, models |-> "none"]
    BY <1>5 DEF Render, At
  <2>2. FilesTyped' /\ config'.profile = run.profile
    BY <1>0, <2>1 DEF FilesTyped
  <2>3. Keeps("render")
    BY <1>1, <1>2, <2>1, <2>2 DEF Keeps, Modelling
  <2> QED
    BY <1>1, <2>1, <2>2, <2>3 DEF Delivers
<1> QED
  BY <1>3, <1>4, <1>5

LEMMA ServiceDelivers ==
  ASSUME Typed, FilesTyped, Doctor \/ RenderUnits \/ Refresh \/ Services \/ Sidecars \/ Gateway \/ Verify
  PROVE  Delivers
<1>1. run.todo # <<>> /\ UNCHANGED <<config, assets, tools, env, overlay, delivered>>
  BY DEF Doctor, RenderUnits, Refresh, Services, Sidecars, Gateway, Verify, At, hostVars, envVars
<1>2. FilesTyped'
  BY <1>1 DEF FilesTyped
<1>3. CASE Raise
  BY <1>1, <1>2, <1>3, RaiseIsNoRun DEF Delivers
<1>4. CASE Onward
  <2>1. Proceeds
    BY <1>1, <1>4, OnwardProceeds
  <2>2. ASSUME Doctor /\ HostReady PROVE Keeps(Head(run.todo))
    BY <1>1, <2>2, KeepsFiles DEF Doctor, At, hostVars
  <2>3. ASSUME RenderUnits PROVE Keeps(Head(run.todo))
    BY <1>1, <2>3, KeepsFiles DEF RenderUnits, At, hostVars
  <2>4. ASSUME Refresh /\ flag' = FALSE PROVE Keeps(Head(run.todo))
    BY <1>1, <2>4, KeepsFiles DEF Refresh, At
  <2>5. ASSUME Services /\ flag' = FALSE PROVE Keeps(Head(run.todo))
    BY <1>1, <2>5, KeepsFiles DEF Services, At
  <2>6. ASSUME Sidecars /\ units' = units \cup {"sidecars"} PROVE Keeps(Head(run.todo))
    BY <1>1, <2>6, KeepsFiles DEF Sidecars, At, hostVars
  <2>7. ASSUME Gateway PROVE Keeps(Head(run.todo))
    BY <1>1, <2>7, KeepsFiles DEF Gateway, At, hostVars
  <2>8. ASSUME Verify /\ AgentsHaveModels PROVE Keeps(Head(run.todo))
    BY <1>1, <2>8, KeepsFiles DEF Verify, At, hostVars
  <2>9. \/ Raise
        \/ (Doctor /\ HostReady) \/ RenderUnits \/ (Refresh /\ flag' = FALSE) \/ (Services /\ flag' = FALSE)
        \/ (Sidecars /\ units' = units \cup {"sidecars"}) \/ Gateway \/ (Verify /\ AgentsHaveModels)
    <3>1. CASE Doctor
      BY <3>1 DEF Doctor
    <3>2. CASE Refresh
      BY <3>2 DEF Refresh, ClearRefresh
    <3>3. CASE Services
      BY <3>3 DEF Services, ClearRefresh
    <3>4. CASE Sidecars
      BY <3>4 DEF Sidecars
    <3>5. CASE Verify
      BY <3>5 DEF Verify
    <3> QED
      BY <3>1, <3>2, <3>3, <3>4, <3>5
  <2>10. Keeps(Head(run.todo)) \/ Raise
    BY <2>2, <2>3, <2>4, <2>5, <2>6, <2>7, <2>8, <2>9
  <2> QED
    BY <1>1, <1>2, <1>3, <2>1, <2>10 DEF Delivers
<1>5. Onward \/ Raise
  BY DEF Doctor, RenderUnits, Refresh, Services, Sidecars, Gateway, Verify
<1> QED
  BY <1>3, <1>4, <1>5

\* The steps of configure_varlock_env after the first.
LEMMA WiringDelivers ==
  ASSUME Typed, FilesTyped, Defaults \/ Overlay \/ Prompt \/ Ollama \/ Embed \/ Validate PROVE Delivers
<1>0. env \in Env
  BY DEF Typed
<1>1. run.todo # <<>> /\ UNCHANGED <<config, assets, tools, units, flag, delivered>>
  BY DEF Defaults, Overlay, Prompt, Ollama, Embed, Validate, At, hostVars
<1>2. FilesTyped'
  BY <1>1 DEF FilesTyped
<1>3. HostReady => HostReady'
  BY <1>1 DEF HostReady
<1>4. CASE Raise
  BY <1>1, <1>2, <1>4, RaiseIsNoRun DEF Delivers
<1>5. CASE Onward
  <2>1. Proceeds
    BY <1>1, <1>5, OnwardProceeds
  <2>2. ASSUME Defaults PROVE Keeps(Head(run.todo))
    <3>1. /\ Head(run.todo) = "defaults" /\ overlay' = overlay /\ env' \in Env /\ env'.secret # 0
          /\ env'.backend = env.backend /\ env'.chain = env.chain
      BY <1>0, <2>2 DEF Defaults, At, Secret, Env
    <3>2. (Wired => Wired') /\ (AgentsHaveModels => AgentsHaveModels')
      BY <1>1, <3>1 DEF Wired, Resolves, AgentsHaveModels, Keyed
    <3> QED
      BY <1>1, <1>3, <3>1, <3>2 DEF Keeps
  <2>3. ASSUME Overlay PROVE Keeps(Head(run.todo))
    <3>1. Head(run.todo) = "overlay" /\ env' = env
      BY <2>3 DEF Overlay, At
    <3> QED
      BY <1>1, <1>3, <3>1 DEF Keeps, Wiring, Modelling
  <2>4. ASSUME Prompt \/ Ollama PROVE Keeps(Head(run.todo))
    <3>1. /\ Head(run.todo) \in {"prompt", "ollama"} /\ overlay' = overlay
          /\ env'.secret = env.secret /\ env'.backend = env.backend
      <4>1. CASE Prompt
        BY <1>0, <4>1 DEF Prompt, At, Env
      <4>2. CASE Ollama
        BY <1>0, <4>2 DEF Ollama, At, Env
      <4> QED
        BY <2>4, <4>1, <4>2
    <3>2. AgentsHaveModels => AgentsHaveModels'
      BY <1>1, <3>1 DEF AgentsHaveModels, Keyed
    <3> QED
      BY <1>1, <1>3, <3>1, <3>2 DEF Keeps, Wiring
  <2>5. ASSUME Embed PROVE Keeps(Head(run.todo))
    <3>1. /\ Head(run.todo) = "embed" /\ overlay' = overlay
          /\ env'.secret = env.secret /\ env'.backend = env.backend /\ env'.chain = env.chain
      BY <1>0, <2>5 DEF Embed, At, Env
    <3>2. (Wired => Wired') /\ (AgentsHaveModels => AgentsHaveModels')
      BY <1>1, <3>1 DEF Wired, Resolves, AgentsHaveModels, Keyed
    <3> QED
      BY <1>1, <1>3, <3>1, <3>2 DEF Keeps
  <2>6. ASSUME Validate /\ ~Raise PROVE Keeps(Head(run.todo))
    <3>1. Head(run.todo) = "validate" /\ env' = env
      BY <2>6 DEF Validate, At
    <3>2. Wired'
      BY <1>0, <2>6, <3>1 DEF Validate, Wired, Resolves, Saved, Env
    <3> QED
      BY <1>1, <1>3, <3>1, <3>2 DEF Keeps, Modelling
  <2>7. Keeps(Head(run.todo)) \/ Raise
    BY <2>2, <2>3, <2>4, <2>5, <2>6
  <2> QED
    BY <1>1, <1>2, <1>4, <2>1, <2>7 DEF Delivers
<1>6. Onward \/ Raise
  BY DEF Defaults, Overlay, Prompt, Ollama, Embed, Validate
<1> QED
  BY <1>4, <1>5, <1>6

LEMMA WizardDelivers == ASSUME Typed, FilesTyped, Wizard PROVE Delivers
<1>1. run.todo # <<>> /\ Head(run.todo) = "wizard" /\ UNCHANGED <<assets, tools, env, overlay, units, flag, delivered>>
  BY DEF Wizard, At, hostVars, envVars
<1>2. CASE ~run.asks
  <2>1. FilesTyped'
    BY <1>1, <1>2 DEF Wizard, FilesTyped
  <2> QED
    BY <1>1, <1>2, <2>1, RaiseIsNoRun DEF Wizard, Delivers
<1>3. CASE run.asks
  <2>1. Onward /\ config' = [config EXCEPT !.models = "wizard"]
    BY <1>3 DEF Wizard
  <2>2. FilesTyped' /\ config'.profile = config.profile
    BY <1>1, <2>1 DEF FilesTyped
  <2>3. (HostReady => HostReady') /\ (Wired => Wired')
    BY <1>1, <2>2 DEF HostReady, Wired, Resolves
  <2>4. Keeps("wizard")
    BY <1>1, <2>2, <2>3 DEF Keeps, Modelling
  <2> QED
    BY <1>1, <2>1, <2>2, <2>4, OnwardProceeds DEF Delivers
<1>4. run.asks \in BOOLEAN
  BY DEF Typed, Run
<1> QED
  BY <1>2, <1>3, <1>4


LEMMA BackendDelivers ==
  ASSUME Typed, BackendThenOverlay(run.todo), DeliverInv, Backend PROVE DeliverInv'
<1> USE DEF DeliverInv, SetupDelivers
<1>0. PICK s \in Seq(StepName) : s = run.todo /\ s # <<>> /\ Head(s) = "backend"
  BY BackendStep, RunFacts
<1>1. PICK u \in Seq(StepName) : u = Tail(s)
  BY <1>0, TailFacts
<1>2. UNCHANGED <<config, assets, tools, overlay, units, flag, delivered>>
  BY DEF Backend, hostVars
<1>3. FilesTyped'
  BY <1>2 DEF FilesTyped
<1>4. CASE run' = [run EXCEPT !.todo = Tail(Tail(@))] /\ env' = env
  <2>1. u # <<>> /\ Head(u) = "overlay"
    <3>1. 1 < Len(s) /\ s[2] = "overlay" /\ Len(s) \in Nat /\ Len(u) = Len(s) - 1 /\ u[1] = s[2]
      <4>1. Len(s) \in Nat \ {0} /\ Len(u) = Len(s) - 1 /\ s[1] = "backend" /\ \A i \in 1..(Len(s) - 1) : u[i] = s[i + 1]
        BY <1>0, <1>1, TailFacts
      <4>2. 1 < Len(s) /\ s[2] = "overlay"
        BY <1>0, <4>1 DEF BackendThenOverlay
      <4> QED
        BY <4>1, <4>2
    <3>2. u # <<>>
      BY <3>1
    <3> QED
      BY <3>1, <3>2, TailFacts
  <2>2. PICK t : t = Tail(u)
    OBVIOUS
  <2>3. run' = [run EXCEPT !.todo = t]
    BY <1>0, <1>1, <1>4, <2>2
  <2>4. run'.todo = t /\ run'.cmd = run.cmd /\ run'.profile = run.profile /\ run'.activate = run.activate
    BY <2>3 DEF Typed, Run
  <2>5. Plan(u, run.activate) /\ Promised(u)
    BY <1>0, <1>1, PlanTail, PromisesOfTail
  <2>6. Keeps(Head(u))
    BY <1>2, <1>4, <2>1, KeepsFiles
  <2>7. Plan(run.todo, run.activate)' /\ Promised(run.todo)'
    BY <2>1, <2>2, <2>4, <2>5, <2>6, PromisesKept
  <2>8. AfterSetup'
    BY <1>0, <2>4 DEF AfterSetup
  <2> QED
    BY <1>2, <1>3, <2>7, <2>8
<1>5. CASE /\ run' = [run EXCEPT !.todo = Tail(@), !.review = FALSE]
           /\ \E choice \in {"local", "managed"} : env' = [env EXCEPT !.backend = choice]
  <2>1. run' = [run EXCEPT !.todo = u, !.review = FALSE]
    BY <1>0, <1>1, <1>5
  <2>2. run'.todo = u /\ run'.cmd = run.cmd /\ run'.profile = run.profile /\ run'.activate = run.activate
    BY <2>1 DEF Typed, Run
  <2>3. env'.secret = env.secret
    BY <1>5 DEF Typed, Env
  <2>4. HostReady => HostReady'
    BY <1>2 DEF HostReady
  <2>5. Keeps(Head(run.todo))
    BY <1>0, <1>2, <2>3, <2>4 DEF Keeps, Wiring, Modelling
  <2>6. Proceeds
    BY <1>0, <1>1, <2>2 DEF Proceeds
  <2> QED
    BY <1>2, <1>3, <2>5, <2>6, DeliversInv DEF Delivers
<1> QED
  BY <1>4, <1>5 DEF Backend

LEMMA ModelsDelivers == ASSUME Typed, DeliverInv, Models PROVE DeliverInv'
<1> USE DEF DeliverInv, SetupDelivers
<1>0. PICK s \in Seq(StepName) : s = run.todo /\ s # <<>> /\ Head(s) = "models" /\ s[1] = "models"
  <2>1. run.todo \in Seq(StepName) /\ run.todo # <<>> /\ Head(run.todo) = "models"
    BY RunFacts DEF Models, At
  <2> QED
    BY <2>1, TailFacts
<1>1. UNCHANGED <<assets, tools, env, overlay, units, flag, delivered>>
  BY DEF Models, hostVars, envVars
<1>2. FilesTyped' /\ (config' = config \/ config'.profile = config.profile)
  <2>1. config' = config \/ (ModelChain # "none" /\ config' = [config EXCEPT !.models = ModelChain])
    BY DEF Models, ApplyModelChain
  <2>2. ModelChain \in {"none", "ollama", "cloud"}
    BY DEF ModelChain, Typed, Env
  <2> QED
    BY <1>1, <2>1, <2>2 DEF FilesTyped
<1>3. (HostReady => HostReady') /\ (Wired => Wired')
  BY <1>1, <1>2 DEF HostReady, Wired, Resolves
<1>4. CASE Raise
  BY <1>0, <1>1, <1>2, <1>4, RaiseIsNoRun, DeliversInv DEF Delivers
<1>5. CASE Onward
  <2>1. Keeps(Head(run.todo))
    BY <1>0, <1>1, <1>2, <1>3 DEF Keeps, Modelling
  <2> QED
    BY <1>0, <1>1, <1>2, <1>5, <2>1, OnwardProceeds, DeliversInv DEF Delivers
<1>6. CASE run' = [run EXCEPT !.todo = <<"wizard">> \o Tail(@)]
  <2>1. PICK w : w = <<"wizard">> \o Tail(s)
    OBVIOUS
  <2>2. run' = [run EXCEPT !.todo = w]
    BY <1>0, <1>6, <2>1
  <2>3. run'.todo = w /\ run'.cmd = run.cmd /\ run'.profile = run.profile /\ run'.activate = run.activate
    BY <2>2 DEF Typed, Run
  <2>4. Plan(w, run.activate) /\ Promised(w)
    BY <1>0, <2>1, PromisesOfWizard
  <2>5. Plan(run.todo, run.activate)'
    BY <2>3, <2>4 DEF Plan, Ends, Before, Ahead
  <2>6. ASSUME Ahead(w, "done"), run.activate PROVE Ahead(w, "verify")
    <3>1. /\ w \in Seq(StepName) /\ Len(w) = Len(s) /\ w[1] = "wizard" /\ Len(s) \in Nat
      BY <1>0, <2>1, WizardFacts
    <3>2. Before(w, Modelling, "verify") /\ 1 \in 1..Len(w)
      BY <2>4, <2>6, <3>1 DEF Plan, Ahead
    <3>3. PICK j \in 2..Len(w) : w[j] = "verify"
      BY <3>1, <3>2 DEF Before, Modelling
    <3> QED
      BY <3>1, <3>3 DEF Ahead
  <2>7. ASSUME Ahead(w, "done")
        PROVE  Promised(w)'
    BY <1>1, <1>2, <1>3, <2>3, <2>4, <2>6, <2>7 DEF Promised
  <2>8. Promised(run.todo)'
    BY <2>3, <2>7 DEF Promised, Ahead
  <2>9. AfterSetup'
    BY <1>0, <2>3 DEF AfterSetup
  <2> QED
    BY <1>1, <1>2, <2>5, <2>8, <2>9
<1> QED
  BY <1>4, <1>5, <1>6 DEF Models

LEMMA DoneDelivers == ASSUME Typed, DeliverInv, Done PROVE DeliverInv'
<1> USE DEF DeliverInv, SetupDelivers
<1>0. PICK s \in Seq(StepName) : s = run.todo /\ s # <<>> /\ Head(s) = "done"
  BY RunFacts, DoneStep
<1>1. Ahead(s, "done")
  <2>1. Len(s) \in Nat \ {0} /\ s[1] = "done"
    BY <1>0, TailFacts
  <2> QED
    BY <2>1 DEF Ahead
<1>2. \A step : Ahead(s, step) => step = "done"
  BY <1>0, <1>1, EndsTail DEF Plan
<1>3. /\ config.profile = run.profile /\ assets[run.profile] = "whole" /\ HostReady
      /\ env.secret # 0 /\ Wired /\ "files" \in units
      /\ run.activate => AgentsHaveModels /\ ~flag /\ "sidecars" \in units /\ "gateway" \in units
  BY <1>0, <1>1, <1>2 DEF Promised
<1>4. UNCHANGED <<tools, flag, config, assets, env, overlay, units>>
  BY DEF Done, hostVars, envVars
<1>5. run.activate => Complete
  BY <1>3 DEF Complete
<1>6. delivered'
  BY <1>3, <1>5 DEF Done
<1>7. run'.todo = <<>> /\ (run'.cmd = "activated" => run.activate)
  <2>1. run' = [NoRun EXCEPT !.cmd = IF run.activate THEN "activated" ELSE "none"]
    BY DEF Done
  <2> QED
    BY <2>1 DEF NoRun
<1>8. Plan(run.todo, run.activate)' /\ Promised(run.todo)'
  BY <1>7, NothingPromised
<1>9. AfterSetup'
  <2>1. /\ Complete => Complete'
        /\ HostReady => HostReady'
        /\ Wired => Wired'
    BY <1>4 DEF Complete, AgentsHaveModels, Keyed, HostReady, Wired, Resolves
  <2> QED
    BY <1>3, <1>4, <1>5, <1>7, <2>1 DEF AfterSetup
<1>10. FilesTyped'
  BY <1>4 DEF FilesTyped
<1> QED
  BY <1>6, <1>8, <1>9, <1>10

LEMMA StartDelivers ==
  ASSUME DeliverInv, NEW cmd \in {"setup", "bootstrap", "configure", "activate"},
         NEW profile, NEW bootstrap,
         NEW given \in BOOLEAN, NEW asks \in BOOLEAN, NEW review \in BOOLEAN, NEW activate \in BOOLEAN,
         Start(cmd, profile, given, asks, review, bootstrap, activate)
  PROVE  DeliverInv'
<1> USE DEF DeliverInv, SetupDelivers
<1>1. PICK skip \in BOOLEAN : skip = (bootstrap = "skip" \/ (bootstrap = "auto" /\ mark))
  OBVIOUS
<1>2. PICK s : s = Steps(cmd, skip, given, asks, activate)
  OBVIOUS
<1>3. run' = [NoRun EXCEPT !.cmd = cmd, !.profile = IF given THEN profile ELSE Default, !.asks = asks,
                           !.review = review, !.activate = activate, !.todo = s]
  BY <1>1, <1>2 DEF Start
<1>4. run'.todo = s /\ run'.cmd = cmd /\ run'.activate = activate
  BY <1>3 DEF NoRun
<1>5. Ahead(s, "done") => Plan(s, activate) /\ Whole(s, activate)
  <2>1. CASE cmd = "setup"
    BY <1>2, <2>1, SetupParts
  <2>2. CASE cmd \in {"bootstrap", "configure", "activate"}
    BY <1>2, <2>2, OthersAreNoSetup
  <2> QED
    BY <2>1, <2>2
<1>6. Plan(run.todo, run.activate)'
  BY <1>4, <1>5 DEF Plan, Ends, Before, Ahead
<1>7. Promised(run.todo)'
  BY <1>4, <1>5 DEF Promised, Whole, Ahead
<1>8. AfterSetup'
  BY <1>4 DEF AfterSetup
<1>9. FilesTyped' /\ delivered' = delivered
  BY DEF Start, FilesTyped
<1> QED
  BY <1>6, <1>7, <1>8, <1>9


-------------------------------------------------------------------------------
(* The doctor.                                                              *)

\* A report on the sidecars that passes without skipping has found them, and
\* nothing that listens on a port it looks at beyond the loopback.
LEMMA ReportFinds ==
  ASSUME NEW tree, NEW here, SidecarsReport(tree, here, FALSE)
  PROVE  /\ here # {}
         /\ \A l \in here : l.port \in ProbedPorts(tree.compose, RequiredServices) => l.address \in Loopback
<1>1. /\ \A want \in RequiredServices : Contract(tree.compose, want)
      /\ ProbesPass(tree.compose, RequiredServices, here)
  BY DEF SidecarsReport
<1>2. PICK want \in RequiredServices : want = [service |-> "postgres", port |-> 5432, health |-> TRUE]
  BY DEF RequiredServices
<1>3. PICK p : p = Head(Published(tree.compose, want))
  OBVIOUS
<1>4. p \in Probed(tree.compose, RequiredServices)
  BY <1>1, <1>3 DEF Contract, Probed
<1>5. Answers(here, p.host, p.hostPort, p.container \in Spoken)
  BY <1>1, <1>4 DEF ProbesPass
<1>6. here # {}
  BY <1>5 DEF Answers
<1>7. \A l \in here : l.port \in ProbedPorts(tree.compose, RequiredServices) => l.address \in Loopback
  BY <1>1 DEF ProbesPass, LoopbackPorts, CountsAsLoopback, Loopback
<1> QED
  BY <1>6, <1>7

LEMMA DoctorDelivers ==
  ASSUME TreesAgreeOnPorts, ShippedTreeIsSound, Typed, DeliverInv, DoctorScan PROVE DeliverInv'
<1>1. PICK tree \in Trees, other \in Trees, alive \in BOOLEAN, skip \in BOOLEAN, given \in BOOLEAN :
        /\ flag' = (flag /\ (skip \/ ~Reachable))
        /\ env' = [env EXCEPT !.embed = @ \/ (given /\ Default \in Hypermemory /\ env.secret # 0)]
        /\ LET here == IF alive /\ "sidecars" \in units
                       THEN Listeners(other.compose, DOMAIN other.compose) ELSE {}
               pass == DoctorPasses(tree, here, alive, skip)'
           IN  delivered' = /\ pass => Complete' /\ \A l \in here : l.address \in Loopback
                            /\ (/\ run.cmd = "activated" /\ tree = Shipped /\ other = Shipped
                                /\ alive /\ ~skip /\ (Default \in Hypermemory => env'.embed)) => pass
  BY ZenonT(60) DEF DoctorScan
<1>2. /\ run' = NoRun
      /\ UNCHANGED <<docker, group, shell, tools, assets, config, overlay, units>>
  BY DEF DoctorScan
<1>3. env'.secret = env.secret /\ env'.backend = env.backend /\ env'.chain = env.chain
  BY <1>1 DEF Typed, Env
<1>4. PICK here : here = IF alive /\ "sidecars" \in units
                         THEN Listeners(other.compose, DOMAIN other.compose) ELSE {}
  OBVIOUS
<1>5. PICK pass : pass = (/\ ~skip
                          /\ EnvContract' /\ HostReady' /\ SessionCheck(skip)'
                          /\ OpenClawChecks(skip, alive)'
                          /\ PlatformReports(tree, here, skip))
  OBVIOUS
<1>6. delivered' = /\ pass => Complete' /\ \A l \in here : l.address \in Loopback
                   /\ (/\ run.cmd = "activated" /\ tree = Shipped /\ other = Shipped
                       /\ alive /\ ~skip /\ (Default \in Hypermemory => env'.embed)) => pass
  BY <1>1, <1>2, <1>4, <1>5 DEF DoctorPasses
<1>7. ASSUME pass PROVE Complete' /\ \A l \in here : l.address \in Loopback
  <2>1. ~skip /\ SessionCheck(skip)' /\ OpenClawChecks(skip, alive)' /\ SidecarsReport(tree, here, FALSE)
    BY <1>5, <1>7 DEF PlatformReports
  <2>2. /\ here # {}
        /\ \A l \in here : l.port \in ProbedPorts(tree.compose, RequiredServices) => l.address \in Loopback
    BY <2>1, ReportFinds
  <2>3. "sidecars" \in units /\ here = Listeners(other.compose, DOMAIN other.compose)
    BY <1>4, <2>2
  <2>4. \A l \in here : l.port \in ProbedPorts(tree.compose, RequiredServices)
    BY <2>3 DEF TreesAgreeOnPorts
  <2>5. ~flag'
    BY <1>1, <1>2, <2>1 DEF SessionCheck, Reachable
  <2>6. "gateway" \in units' /\ AgentsHaveModels'
    BY <2>1 DEF OpenClawChecks
  <2> QED
    BY <1>2, <2>2, <2>3, <2>4, <2>5, <2>6 DEF Complete
<1>8. ASSUME run.cmd = "activated", tree = Shipped, other = Shipped, alive, ~skip,
             Default \in Hypermemory => env'.embed
      PROVE  pass
  <2>1. Complete /\ HostReady /\ env.secret # 0 /\ Wired
    BY <1>8 DEF DeliverInv, AfterSetup
  <2>2. HostReady' /\ Wired' /\ AgentsHaveModels' /\ ~flag'
    BY <1>1, <1>2, <1>3, <2>1 DEF Complete, HostReady, Wired, Resolves, AgentsHaveModels, Keyed
  <2>3. EnvContract'
    BY <1>2, <1>3, <1>8, <2>1, <2>2 DEF EnvContract, HostReady
  <2>4. SessionCheck(skip)'
    BY <2>2 DEF SessionCheck
  <2>5. OpenClawChecks(skip, alive)'
    BY <1>2, <1>8, <2>1, <2>2 DEF OpenClawChecks, Complete, HostReady
  <2>6. PlatformReports(tree, here, skip)
    <3>1. here = Listeners(Shipped.compose, DOMAIN Shipped.compose) /\ skip = FALSE
      BY <1>4, <1>8, <2>1 DEF Complete
    <3> QED
      BY <1>8, <3>1 DEF ShippedTreeIsSound
  <2> QED
    BY <1>5, <1>8, <2>2, <2>3, <2>4, <2>5, <2>6
<1>9. delivered'
  BY <1>6, <1>7, <1>8
<1>10. FilesTyped'
  BY <1>2 DEF DeliverInv, FilesTyped
<1> QED
  BY <1>2, <1>9, <1>10, GivenUp DEF DeliverInv, SetupDelivers

LEMMA OutsideDelivers ==
  ASSUME Typed, DeliverInv, \/ DockerHalfInstalled \/ GrantUnmarked \/ Fails \/ Torn \/ TornConfig
                            \/ FreshShell \/ AddCompose
  PROVE  DeliverInv'
<1> USE DEF DeliverInv, SetupDelivers
<1>1. CASE DockerHalfInstalled \/ GrantUnmarked \/ Fails \/ Torn \/ TornConfig
  <2>1. run' = NoRun /\ delivered' = delivered /\ assets' = assets
    BY <1>1, RaiseIsNoRun DEF DockerHalfInstalled, GrantUnmarked, Fails, Torn, TornConfig
  <2>2. config' = config \/ config' = [profile |-> "torn", models |-> "none"]
    BY <1>1 DEF DockerHalfInstalled, GrantUnmarked, Fails, Torn, TornConfig
  <2>3. FilesTyped'
    BY <2>1, <2>2 DEF FilesTyped
  <2> QED
    BY <2>1, <2>3, GivenUp
<1>2. CASE FreshShell \/ AddCompose
  <2>1. UNCHANGED <<flag, tools, assets, config, env, overlay, units, run, delivered>>
    BY <1>2 DEF FreshShell, AddCompose, envVars
  <2> QED
    BY <2>1 DEF FilesTyped, Plan, Promised, AfterSetup, Complete, HostReady, Wired, Resolves, AgentsHaveModels,
       Keyed, Ahead, Before, Ends
<1> QED
  BY <1>1, <1>2

LEMMA BeginDelivers == ASSUME DeliverInv, Begin \/ Again PROVE DeliverInv'
<1>1. CASE Begin
  <2>1. PICK cmd \in Commands \ {"doctor"}, profile \in Profiles, bootstrap \in {"auto", "skip", "force"},
             given \in BOOLEAN, asks \in BOOLEAN, activate \in BOOLEAN :
          /\ Command
          /\ given \/ profile = Default
          /\ cmd \in {"configure", "activate"} => ~given
          /\ cmd \in {"activate", "bootstrap"} => ~asks
          /\ cmd # "setup" => activate /\ bootstrap = "auto"
          /\ Start(cmd, profile, given, asks, FALSE, bootstrap, activate)
    BY <1>1, Zenon DEF Begin
  <2>2. cmd \in {"setup", "bootstrap", "configure", "activate"}
    BY HostSetupAssumption
  <2>3. FALSE \in BOOLEAN
    OBVIOUS
  <2> QED
    BY <2>1, <2>2, <2>3, StartDelivers, ZenonT(60)
<1>2. CASE Again
  <2>1. Start("setup", Default, FALSE, TRUE, TRUE, "auto", TRUE)
    BY <1>2 DEF Again
  <2>2. FALSE \in BOOLEAN /\ TRUE \in BOOLEAN /\ "setup" \in {"setup", "bootstrap", "configure", "activate"}
    OBVIOUS
  <2> QED
    BY <2>1, <2>2, StartDelivers, Zenon
<1> QED
  BY <1>1, <1>2

LEMMA DeliverInvInit == Init => DeliverInv
<1> SUFFICES ASSUME Init PROVE DeliverInv
  OBVIOUS
<1>1. run.todo = <<>> /\ run.cmd = "none"
  BY DEF Init, NoRun
<1>2. ~Ahead(run.todo, "done")
  <2>1. Len(run.todo) = 0
    BY <1>1
  <2> QED
    BY <2>1 DEF Ahead
<1>3. FilesTyped
  BY DEF Init, FilesTyped
<1> QED
  BY <1>1, <1>2, <1>3 DEF Init, DeliverInv, Plan, Promised, AfterSetup, SetupDelivers

LEMMA DeliverInvStep ==
  ASSUME TreesAgreeOnPorts, ShippedTreeIsSound, MarkInv, DeliverInv, [Next]_vars PROVE DeliverInv'
<1>0. Typed /\ FilesTyped /\ BackendThenOverlay(run.todo)
  BY DEF MarkInv, DeliverInv
<1>1. CASE UNCHANGED vars
  <2>1. UNCHANGED <<flag, tools, assets, config, env, overlay, units, run, delivered>>
    BY <1>1 DEF vars, hostVars, envVars
  <2> QED
    BY <2>1 DEF DeliverInv, SetupDelivers, FilesTyped, Plan, Promised, AfterSetup, Complete, HostReady, Wired,
       Resolves, AgentsHaveModels, Keyed, Ahead, Before, Ends
<1>2. CASE Begin \/ Again
  BY <1>2, BeginDelivers
<1>3. CASE NodeRuntime \/ Docker \/ Varlock \/ UvSync \/ GlobalTools \/ Grant \/ Probe \/ Mark
  BY <1>0, <1>3, BootDelivers, DeliversInv
<1>4. CASE Assets \/ Fetch \/ Render
  BY <1>0, <1>4, FileDelivers, DeliversInv
<1>5. CASE Doctor \/ RenderUnits \/ Refresh \/ Services \/ Sidecars \/ Gateway \/ Verify
  BY <1>0, <1>5, ServiceDelivers, DeliversInv
<1>6. CASE Defaults \/ Overlay \/ Prompt \/ Ollama \/ Embed \/ Validate
  BY <1>0, <1>6, WiringDelivers, DeliversInv
<1>7. CASE Wizard
  BY <1>0, <1>7, WizardDelivers, DeliversInv
<1>8. CASE Backend \/ Models \/ Done
  BY <1>0, <1>8, BackendDelivers, ModelsDelivers, DoneDelivers
<1>9. CASE DoctorScan
  BY <1>0, <1>9, DoctorDelivers
<1>10. CASE DockerHalfInstalled \/ GrantUnmarked \/ Fails \/ Torn \/ TornConfig \/ FreshShell \/ AddCompose
  BY <1>0, <1>10, OutsideDelivers
<1> QED
  BY <1>1, <1>2, <1>3, <1>4, <1>5, <1>6, <1>7, <1>8, <1>9, <1>10 DEF Next, Step

\* Over every interrupted, failed, skipped and repeated command, a setup that returns 0
\* (setup_main) leaves its profile's configuration and assets, the tools they need, a
\* usable secret, a fitting overlay, rendered units and, if it activates, services with
\* models; a doctor that passes (setup_cli.doctor_main) read a complete host behind the
\* loopback, and the one right after a full setup does pass.  It takes that the trees a
\* doctor is given publish the ports its reports look at, and that the shipped one passes
\* them when its own services run; both are checked for the trees of the run.
THEOREM SetupKeepsItsWord ==
  ASSUME TreesAgreeOnPorts, ShippedTreeIsSound
  PROVE  Spec => []SetupDelivers
<1>1. Init => MarkInv /\ DeliverInv
  BY MarkInvInit, DeliverInvInit
<1>2. MarkInv /\ DeliverInv /\ [Next]_vars => (MarkInv /\ DeliverInv)'
  BY MarkInvStep, DeliverInvStep
<1>3. DeliverInv => SetupDelivers
  BY DEF DeliverInv
<1> QED
  BY <1>1, <1>2, <1>3, PTL DEF Spec

===============================================================================

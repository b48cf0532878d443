----------------------------- MODULE Provision -----------------------------
(***************************************************************************)
(* How a server's row becomes a container: the configuration the Panel      *)
(* builds from the row (panel/internal/api/remote/servers.go), its copy in  *)
(* the daemon (Server.Sync), the settings and variables of the environment  *)
(* (SyncWithEnvironment) and the container and installer made from them     *)
(* (environment/docker/container.go, install.go), while administrators edit *)
(* the row and several syncs run at once.                                   *)
(*                                                                         *)
(* A command is a sequence of tokens: literals and placeholders, guarded    *)
(* when they stand in a [[segment]].  A mebibyte has MiB bytes.             *)
(***************************************************************************)
EXTENDS Integers, Sequences, FiniteSets

CONSTANTS
  Names,            \* variables of the egg
  Rows,             \* rows an administrator may have made
  Startups,         \* commands
  Images,           \* images
  Builds,           \* limits: [memory, swap, disk, cpu]
  AllocationAt,     \* the address of each allocation: [ip, port]
  MountAt,          \* what the node says of each mount: [exists, home, allowed]
  MiB,              \* bytes of a mebibyte
  Multipliers,      \* percentages by the greatest memory limit they are for
  DefaultMultiplier,
  MaxPort,          \* the greatest valid port
  InstallerMemory, InstallerCpu,  \* Docker.InstallerLimits
  ISPN, BlockBaseDirMount,        \* the daemon's configuration
  Requests,         \* bound: requests to sync at the same time
  MaxEdits          \* bound: edits of the row

Allocs == DOMAIN AllocationAt
Mounts == DOMAIN MountAt

\* A row: what an administrator sets of a server.
RowSet == [suspended : BOOLEAN, image : Images, startup : Startups, values : {r.values : r \in Rows},
           build : Builds, primary : Allocs, allocs : SUBSET Allocs, mounts : SUBSET Mounts]

ASSUME BoundAssumption == MaxEdits \in Nat
ASSUME NamesAssumption == IsFiniteSet(Names)
ASSUME StartupsAssumption ==    \* a placeholder is guarded or not
  \A s \in Startups : \A i \in DOMAIN s : s[i][1] = "hole" => s[i][3] \in BOOLEAN
ASSUME UnitAssumption == MiB \in Nat \ {0}
ASSUME BuildsAssumption ==      \* the Panel does not refuse a negative memory
  Builds \subseteq [memory : Nat, swap : Int, disk : Nat, cpu : Nat]
ASSUME RowsAssumption == Rows \subseteq RowSet
ASSUME MountsAssumption == "/home/container" \notin Mounts  \* names of mounts, not paths
ASSUME MultiplierAssumption ==
  /\ DOMAIN Multipliers \subseteq Nat /\ IsFiniteSet(DOMAIN Multipliers)
  /\ \A t \in DOMAIN Multipliers : Multipliers[t] \in Nat /\ Multipliers[t] >= 100
  /\ DefaultMultiplier \in Nat /\ DefaultMultiplier >= 100
ASSUME InstallerAssumption == InstallerMemory \in Nat /\ InstallerCpu \in Nat

Start  == "start"             \* the start under the power lock
Procs  == Requests \union {Start}

VARIABLES
  row,        \* the Panel's row, with its variables, allocations and mounts
  edits,      \* edits so far
  up,         \* the daemon serves
  cfg,        \* Server.cfg
  limit,      \* the disk limit of the filesystem, in bytes
  settings,   \* the settings of the environment
  image,      \* and its image
  variables,  \* the environment's variables
  container,  \* the container, or <<>>
  installer,  \* the resources of the last installation container, or <<>>
  proc,       \* the syncs under way
  clean       \* the start under way has fetched the current row, and no sync
              \* that fetched an older one was under way then

vars == <<row, edits, up, cfg, limit, settings, image, variables, container, installer, proc, clean>>

NoProc == [pc |-> "idle", round |-> 1, got |-> <<>>, read |-> <<>>]

-----------------------------------------------------------------------------
(* Commands.                                                                *)

Lit(n)   == <<"lit", n>>
Hole(x)  == <<"hole", x, FALSE>>    \* {{x}}
Guard(x) == <<"hole", x, TRUE>>     \* the same in a protected segment

\* t with the placeholder of x replaced by v; a replacement stays in its segment.
Replaced(t, x, v, inside) ==
  IF t[1] = "hole" /\ t[2] = x /\ (t[3] => inside)
  THEN IF v[1] = "hole" THEN <<"hole", v[2], t[3]>> ELSE v
  ELSE t

\* strings.ReplaceAll of one placeholder.
ReplaceAll(cmd, x, v, inside) == [i \in DOMAIN cmd |-> Replaced(cmd[i], x, v, inside)]

\* Ranging over a map replaces its variables in any order.
Orders == {o \in [1..Cardinality(Names) -> Names] : \A x \in Names : \E i \in DOMAIN o : o[i] = x}
Substitute(cmd, env, order, inside) ==
  LET After[n \in 0..Len(order)] ==
        IF n = 0 THEN cmd ELSE ReplaceAll(After[n - 1], order[n], env[order[n]], inside)
  IN After[Len(order)]

\* parseInvocation: the egg's variables outside of protected segments, then the
\* server's own anywhere.  A value refers to a variable as ${x}: {{x}} is converted once,
\* before the values are put in.
ParseInvocation(cmd, env, order, memory, default) ==
  ReplaceAll(ReplaceAll(ReplaceAll(Substitute(cmd, env, order, FALSE),
    "SERVER_PORT", Lit(default.port), TRUE),
    "SERVER_MEMORY", Lit(memory), TRUE),
    "SERVER_IP", <<"ip", default.ip>>, TRUE)

-----------------------------------------------------------------------------
(* The Panel.                                                               *)

\* The allocation sent as the default: the server's, if it still has it, or the
\* first the database returns; null without any.
Defaults(r) ==
  IF r.primary \in r.allocs THEN {<<AllocationAt[r.primary]>>}
  ELSE IF r.allocs = {} THEN {<<>>} ELSE {<<AllocationAt[a]>> : a \in r.allocs}

\* buildServerConfig: what one request may be answered.
Config(r, order, default) ==
  [suspended |-> r.suspended, image |-> r.image,
   env |-> r.values, invocation |-> Substitute(r.startup, r.values, order, TRUE),
   build |-> [r.build EXCEPT !.memory = @ * MiB, !.disk = @ * MiB],
   default |-> default, mappings |-> {AllocationAt[a] : a \in r.allocs},
   mounts |-> r.mounts]
Answers(r) == {Config(r, o, d) : o \in Orders, d \in Defaults(r)}

\* List reads the parts of all servers at once and picks each one's by its row:
\* what it says of a server is what Get answers.
Listed(r) == Answers(r)

-----------------------------------------------------------------------------
(* What the daemon derives.                                                 *)

\* Overhead.GetMultiplier, in percent.
Multiplier(m) ==
  LET fits == {t \in DOMAIN Multipliers : m <= t}
  IN IF fits = {} THEN DefaultMultiplier
     ELSE Multipliers[CHOOSE t \in fits : \A u \in fits : t <= u]

BoundedMemoryLimit(l) == (l.memory * Multiplier(l.memory) * MiB + 50) \div 100

\* Mutant: the swap is not added to the memory.
ConvertedSwapAlone(l) == IF l.swap < 0 THEN -1 ELSE l.swap * MiB

ConvertedSwap(l) == IF l.swap < 0 THEN -1 ELSE l.swap * MiB + BoundedMemoryLimit(l)

AsContainerResources(l) ==
  [memory |-> BoundedMemoryLimit(l), reservation |-> l.memory * MiB,
   swap |-> ConvertedSwap(l), quota |-> IF l.cpu > 0 THEN l.cpu * 1000 ELSE 0]

\* The limits of an installation container.
ResourceLimits(l) ==
  AsContainerResources(
    [l EXCEPT !.memory = IF @ < InstallerMemory THEN InstallerMemory ELSE @,
              !.cpu = IF InstallerCpu = 0 THEN 0
                      ELSE IF @ # 0 /\ @ < InstallerCpu THEN InstallerCpu ELSE @])

DiskSpace(c) == c.build.disk * MiB

\* Server.Mounts: the data directory, and the mounts the node allows.
MountsOf(c) ==
  {"/home/container"} \union
  {m \in c.mounts : /\ MountAt[m].exists /\ MountAt[m].allowed
                    /\ ~(MountAt[m].home /\ BlockBaseDirMount)}

Settings(c) == [mounts |-> MountsOf(c), mappings |-> c.mappings, default |-> c.default,
                limits |-> c.build]

\* GetEnvironmentVariables, from one configuration; it dereferences the default mapping.
EnvironmentVariables(c, order) ==
  [startup |-> ParseInvocation(c.invocation, c.env, order, c.build.memory, c.default[1]),
   memory |-> c.build.memory, ip |-> c.default[1].ip, port |-> c.default[1].port, own |-> c.env]

\* 127.0.0.1 stands for the interface of the daemon's network.
Host(ip) == IF ip = "lo" THEN "iface" ELSE ip

\* DockerBindings.
DockerBindings(s) ==
  {[ip |-> Host(m.ip), port |-> m.port] :
     m \in {x \in s.mappings : x.port \in 1..MaxPort /\ ~(ISPN /\ x.ip = "lo")}}

\* Environment.Create from the settings, image and variables at hand.
NewContainer(s, i, e) ==
  [image |-> i, mounts |-> s.mounts, ports |-> DockerBindings(s),
   env |-> [e EXCEPT !.ip = IF s.default[1].port # 0 THEN Host(@) ELSE @],
   resources |-> AsContainerResources(s.limits)]

-----------------------------------------------------------------------------
(* Initially an administrator has made the row, and the daemon has not      *)
(* booted.                                                                  *)

Init ==
  /\ row \in Rows
  /\ edits = 0 /\ up = FALSE /\ clean = FALSE
  /\ cfg = <<>> /\ limit = 0 /\ settings = <<>> /\ image = <<>> /\ variables = <<>>
  /\ container = <<>> /\ installer = <<>>
  /\ proc = [p \in Procs |-> NoProc]

daemon == <<up, cfg, limit, settings, image, variables, container, installer, proc>>

Edit(r) ==
  /\ edits < MaxEdits /\ edits' = edits + 1
  /\ r # row /\ row' = r /\ clean' = FALSE
  /\ UNCHANGED daemon

UpdateBuild   == \E b \in Builds : Edit([row EXCEPT !.build = b])
UpdatePrimary == \E a \in Allocs : Edit([row EXCEPT !.primary = a])
UpdateStartup == \E s \in Startups, i \in Images : Edit([row EXCEPT !.startup = s, !.image = i])
Suspend       == Edit([row EXCEPT !.suspended = ~@])
DeleteAllocation == \E a \in row.allocs : Edit([row EXCEPT !.allocs = @ \ {a}])
DeleteMount      == \E m \in row.mounts : Edit([row EXCEPT !.mounts = @ \ {m}])

-----------------------------------------------------------------------------
(* The daemon.                                                              *)

\* NewManager loads the server; without an allocation it panics, and the daemon
\* is down as before.
Boot ==
  /\ ~up
  /\ \E c \in Listed(row), o \in Orders :
       /\ c.default # <<>>
       /\ up' = TRUE /\ cfg' = c /\ limit' = DiskSpace(c)
       /\ settings' = Settings(c) /\ image' = c.image /\ variables' = EnvironmentVariables(c, o)
  /\ UNCHANGED <<row, edits, container, installer, proc, clean>>

\* The daemon ends; containers stay.
Down ==
  /\ up' = FALSE /\ clean' = FALSE
  /\ cfg' = <<>> /\ limit' = 0 /\ settings' = <<>> /\ image' = <<>> /\ variables' = <<>>
  /\ proc' = [p \in Procs |-> NoProc]
  /\ UNCHANGED <<row, edits, container, installer>>

Goto(p, l) == proc' = [proc EXCEPT ![p] = [@ EXCEPT !.pc = l, !.read = <<>>]]
Read(p, l, x) == proc' = [proc EXCEPT ![p] = [@ EXCEPT !.pc = l, !.read = x]]
End(p) == proc' = [proc EXCEPT ![p] = NoProc]
At(p, l) == up /\ proc[p].pc = l

\* postServerSync, or HandlePowerAction with the lock.
Begin(p) ==
  /\ At(p, "idle") /\ Goto(p, "fetch")
  /\ UNCHANGED <<row, edits, up, cfg, limit, settings, image, variables, container, installer, clean>>

\* GetServerConfiguration, which may fail.
Fetch(p) ==
  /\ At(p, "fetch")
  /\ \/ /\ \E c \in Answers(row) : proc' = [proc EXCEPT ![p] = [@ EXCEPT !.pc = "apply", !.got = c]]
        /\ clean' = IF p = Start
                    THEN \A q \in Requests : proc[q].pc \in {"idle", "fetch"} ELSE clean
     \/ End(p) /\ UNCHANGED clean
  /\ UNCHANGED <<row, edits, up, cfg, limit, settings, image, variables, container, installer>>

\* SyncWithConfiguration.
Apply(p) ==
  /\ At(p, "apply") /\ cfg' = proc[p].got
  /\ proc' = [proc EXCEPT ![p] = [@ EXCEPT !.pc = "read disk", !.got = <<>>]]
  /\ UNCHANGED <<row, edits, up, limit, settings, image, variables, container, installer, clean>>

ReadDisk(p) ==
  /\ At(p, "read disk") /\ Read(p, "set disk", <<DiskSpace(cfg)>>)
  /\ UNCHANGED <<row, edits, up, cfg, limit, settings, image, variables, container, installer, clean>>

SetDiskLimit(p) ==
  /\ At(p, "set disk") /\ limit' = proc[p].read[1] /\ Goto(p, "read settings")
  /\ UNCHANGED <<row, edits, up, cfg, settings, image, variables, container, installer, clean>>

\* SyncWithEnvironment.
ReadSettings(p) ==
  /\ At(p, "read settings") /\ Read(p, "set settings", Settings(cfg))
  /\ UNCHANGED <<row, edits, up, cfg, limit, settings, image, variables, container, installer, clean>>

SetSettings(p) ==
  /\ At(p, "set settings") /\ settings' = proc[p].read /\ Goto(p, "read image")
  /\ UNCHANGED <<row, edits, up, cfg, limit, image, variables, container, installer, clean>>

\* The configuration is a pointer: its image may be a later one than its settings.
ReadImage(p) ==
  /\ At(p, "read image") /\ Read(p, "set image", <<cfg.image>>)
  /\ UNCHANGED <<row, edits, up, cfg, limit, settings, image, variables, container, installer, clean>>

\* Mutant: the image stays the one of the boot.
SetImageOnce(p) ==
  /\ At(p, "set image") /\ Goto(p, "read env")
  /\ UNCHANGED <<row, edits, up, cfg, limit, settings, image, variables, container, installer, clean>>

SetImage(p) ==
  /\ At(p, "set image") /\ image' = proc[p].read[1] /\ Goto(p, "read env")
  /\ UNCHANGED <<row, edits, up, cfg, limit, settings, variables, container, installer, clean>>

\* Mutant: without a default mapping there are no variables.
ReadEnvNone(p) ==
  /\ At(p, "read env")
  /\ IF cfg.default = <<>> THEN Read(p, "set env", <<>>)
     ELSE \E o \in Orders : Read(p, "set env", EnvironmentVariables(cfg, o))
  /\ UNCHANGED <<row, edits, up, cfg, limit, settings, image, variables, container, installer, clean>>

\* Without a default mapping a request panics and is recovered; the start, in a
\* goroutine of its own, takes the daemon down.
ReadEnv(p) ==
  /\ At(p, "read env")
  /\ \/ /\ cfg.default # <<>>
        /\ \E o \in Orders : Read(p, "set env", EnvironmentVariables(cfg, o))
        /\ UNCHANGED <<row, edits, up, cfg, limit, settings, image, variables, container, installer, clean>>
     \/ /\ cfg.default = <<>> /\ p # Start /\ End(p)
        /\ UNCHANGED <<row, edits, up, cfg, limit, settings, image, variables, container, installer, clean>>
     \/ cfg.default = <<>> /\ p = Start /\ Down

SetEnv(p) ==
  /\ At(p, "set env") /\ variables' = proc[p].read /\ Goto(p, "update")
  /\ UNCHANGED <<row, edits, up, cfg, limit, settings, image, container, installer, clean>>

\* InSituUpdate of a container that exists; Docker may refuse it.  A start whose
\* server is suspended ends, another syncs the environment once more.
Update(p) ==
  /\ At(p, "update")
  /\ container' \in IF cfg.suspended \/ container = <<>> THEN {container}
                    ELSE {container, [container EXCEPT !.resources = AsContainerResources(settings.limits)]}
  /\ IF p # Start \/ cfg.suspended THEN End(p)
     ELSE IF proc[p].round = 1
          THEN proc' = [proc EXCEPT ![p] = [@ EXCEPT !.pc = "read settings", !.round = 2]]
          ELSE Goto(p, "remove")
  /\ UNCHANGED <<row, edits, up, cfg, limit, settings, image, variables, installer, clean>>

\* OnBeforeStart removes the container, which fails when it runs.
Remove(p) ==
  /\ At(p, "remove")
  /\ \/ container' = <<>> /\ Goto(p, "create")
     \/ End(p) /\ UNCHANGED container
  /\ UNCHANGED <<row, edits, up, cfg, limit, settings, image, variables, installer, clean>>

\* Create, after the image was pulled; a default mapping that is gone panics.
Create(p) ==
  /\ At(p, "create")
  /\ \/ /\ settings.default # <<>>
        /\ container' = NewContainer(settings, image, variables) /\ Goto(p, "created")
        /\ UNCHANGED <<row, edits, up, cfg, limit, settings, image, variables, installer, clean>>
     \/ settings.default = <<>> /\ Down
     \/ End(p) /\ UNCHANGED <<row, edits, up, cfg, limit, settings, image, variables, container, installer, clean>>

\* The container starts and the start ends.
Created(p) ==
  /\ At(p, "created") /\ End(p) /\ clean' = FALSE
  /\ UNCHANGED <<row, edits, up, cfg, limit, settings, image, variables, container, installer>>

\* InstallationProcess.Execute, in a goroutine of its own.
Install ==
  /\ up
  /\ \/ /\ cfg.default # <<>> /\ installer' = <<ResourceLimits(cfg.build)>>
        /\ UNCHANGED <<row, edits, up, cfg, limit, settings, image, variables, container, proc, clean>>
     \/ cfg.default = <<>> /\ Down

Sync(p) ==
  \/ Fetch(p) \/ Apply(p) \/ ReadDisk(p) \/ SetDiskLimit(p) \/ ReadSettings(p) \/ SetSettings(p)
  \/ ReadImage(p) \/ SetImage(p)
  \/ ReadEnv(p) \/ SetEnv(p) \/ Update(p)

Edits == UpdateBuild \/ UpdatePrimary \/ UpdateStartup \/ Suspend \/ DeleteAllocation \/ DeleteMount

Next ==
  \/ Edits \/ Boot \/ (up /\ Down) \/ Install
  \/ \E p \in Procs : Begin(p) \/ Sync(p)
  \/ Remove(Start) \/ Create(Start) \/ Created(Start)

Spec == Init /\ [][Next]_vars

-----------------------------------------------------------------------------
(* Properties.                                                              *)

TypeOK ==
  /\ edits \in 0..MaxEdits /\ up \in BOOLEAN /\ clean \in BOOLEAN
  /\ row \in RowSet
  /\ limit \in Nat
  /\ up <=> cfg # <<>>
  /\ up <=> variables # <<>>
  /\ \A p \in Procs : proc[p].pc # "idle" => up

\* Commands with every placeholder of a variable filled in.
Resolved(cmd, known) == \A i \in DOMAIN cmd : cmd[i][1] # "hole" \/ cmd[i][3] \/ cmd[i][2] \notin known

\* What the row asks of its container, but for the command: its image and mounts, each
\* valid address of the server and no other, its variables and its share of the
\* processors, and the server's own allocation as SERVER_IP and SERVER_PORT.  Once that
\* is gone the answers name any allocation, and the container may take its address
\* from one (a) and what it does with a loopback from another (b).
AsTheRowSays ==
  LET kept  == {a \in row.allocs : AllocationAt[a].port \in 1..MaxPort /\ ~(ISPN /\ AllocationAt[a].ip = "lo")}
      mine  == IF row.primary \in row.allocs THEN {row.primary} ELSE row.allocs
      e     == container.env
  IN /\ container.image = row.image
     /\ container.ports = {[ip |-> Host(AllocationAt[a].ip), port |-> AllocationAt[a].port] : a \in kept}
     /\ \E a, b \in mine :
          /\ e.port = AllocationAt[a].port
          /\ e.ip = IF AllocationAt[b].port # 0 THEN Host(AllocationAt[a].ip) ELSE AllocationAt[a].ip
     /\ \A m \in row.mounts : m \in container.mounts <=>
          MountAt[m].exists /\ MountAt[m].allowed /\ (MountAt[m].home => ~BlockBaseDirMount)
     /\ e.own = row.values
     /\ container.resources.quota = row.build.cpu * 1000

\* A start that fetched the current row while no sync with an older one was under way.
CleanlyMade == proc[Start].pc = "created" /\ clean

\* A container made by a start that fetched the current row while no sync with an
\* older one was under way is what the row asks for, whatever the other syncs did
\* meanwhile, and its command has no open placeholders (buildServerConfig,
\* SyncWithEnvironment, Environment.Create).
Fresh ==
  CleanlyMade =>
    /\ AsTheRowSays
    /\ Resolved(container.env.startup, Names \union {"SERVER_PORT", "SERVER_MEMORY", "SERVER_IP"})

\* Docker accepts the resources: what is reserved fits the memory, and the memory
\* fits what it shares with the swap, in the container, also after an update in
\* place, and in the installer, which gets at least its own memory (Limits,
\* resourceLimits).
LimitsOrdered ==
  LET Ordered(r) == r.reservation <= r.memory /\ (r.swap = -1 \/ r.memory <= r.swap)
  IN /\ container # <<>> => Ordered(container.resources)
     /\ installer # <<>> => Ordered(installer[1]) /\ installer[1].memory >= InstallerMemory * MiB

\* Settings say the memory and the disk space are in mebibytes: what is reserved
\* and what may be stored is what the row says (settings.go).
LimitsInMebibytes ==
  up /\ edits = 0 =>
    /\ limit = row.build.disk * MiB
    /\ AsContainerResources(settings.limits).reservation = row.build.memory * MiB
=============================================================================

---------------------------- MODULE ServerPower ----------------------------
(***************************************************************************)
(* One game server under Wings: the power actions and the lock that orders  *)
(* them (wings/server/power.go, wings/system/locker.go), the Docker         *)
(* environment they drive (wings/environment/docker), the state-change      *)
(* handlers and the crash handler (wings/server/server.go, crash.go), the   *)
(* console and disk-space listeners (wings/server/listeners.go) and the     *)
(* reinstall routine that stops the server behind the lock's back           *)
(* (wings/server/install.go).                                               *)
(*                                                                         *)
(* Every goroutine is an actor with a program counter, and a step is one    *)
(* load, one store or one Docker call, so every interleaving of them is a   *)
(* behaviour.  The Docker daemon and the game process are external: a       *)
(* container is a name in five states, a Docker or Panel call may fail when *)
(* Faults is TRUE.                                                          *)
(***************************************************************************)
EXTENDS Naturals, FiniteSets

CONSTANTS
  Users,       \* goroutines of postServerPower and of the websocket handler
  Crashers,    \* bound: crash handlers at work at the same time
  Stoppers,    \* goroutines of the disk-space limiter and of a suspension
  Installers,  \* goroutines of postServerReinstall
  Handlers,    \* bound: state-change events in flight (none: they are not followed)
  MaxReaders,  \* bound: output readers alive at the same time
  MaxBusy,     \* bound: users, stoppers and installers at work at the same time
  Actions,     \* power actions users ask for
  StopTypes,   \* stop configurations the egg may have
  Faults,      \* Docker and Panel calls may fail or time out
  SelfExit,    \* the game process may exit without having been told to
  DetectClean, \* system.crash_detection.detect_clean_exit_as_crash
  CrashDetect  \* crash_detection_enabled

Actors == Users \union Crashers \union Stoppers \union Installers

ASSUME ActionsAssumption ==
  Actions \subseteq {"start", "stop", "restart", "kill", "command"}
ASSUME StopTypesAssumption == StopTypes \subseteq {"signal", "command", "native"}
ASSUME BoundsAssumption == MaxReaders \in Nat /\ MaxBusy \in Nat
ASSUME FlagsAssumption ==
  {Faults, SelfExit, DetectClean, CrashDetect} \subseteq BOOLEAN
ASSUME DisjointAssumption ==
  /\ Users \intersect (Crashers \union Stoppers \union Installers) = {}
  /\ Crashers \intersect (Stoppers \union Installers) = {}
  /\ Stoppers \intersect Installers = {}

VARIABLES
  \* the power lock and the goroutines that act on the server
  locked,     \* the Locker's channel holds a value
  own,        \* actors that deferred the release of the lock
  pc,         \* program counter of each actor
  act,        \* what each actor is doing
  forced,     \* actors whose WaitForStop gave up and terminates
  \* the Docker environment
  st,         \* e.st, the environment state
  stream,     \* e.stream: number of the attachment, 0 for nil
  reader,     \* the goroutine of each attachment
  \* the Docker daemon (external)
  container,  \* none, created, running, clean (exit 0) or failed
  signal,     \* strongest signal the container has been sent
  \* the server
  tracked,    \* s.resources.State
  handler,    \* goroutines handling state-change events
  recent,     \* the last crash lies within the crash timeout
  console,    \* onConsoleOutput between its check and its write
  once,       \* the disk limiter has been triggered since the last boot
  installing  \* s.installing

powerVars  == <<locked, own, pc, act, forced>>
envVars    == <<st, stream, reader>>
dockerVars == <<container, signal>>
serverVars == <<tracked, handler, recent, console, once, installing>>
vars == <<powerVars, envVars, dockerVars, serverVars>>

States  == {"offline", "starting", "running", "stopping"}
Readers == 1..MaxReaders

\* Booting: from onBeforeStart to the end of Environment.Start.
LaunchPCs == {"starting", "remove", "create", "attach", "cstart"}
BootPCs == {"preboot", "inspect", "adopt", "adoptAttach", "unwind1", "unwind2"}
             \union LaunchPCs
StopPCs == {"stop", "check_command", "check_native", "mark_command", "mark_native",
            "command", "send", "write", "cstop", "nilstream", "niloff", "wait"}
TermPCs == {"t_inspect", "t_down", "t_mark", "t_kill", "t_poll", "t_last", "t_off"}
CrashPCs == {"c_state", "c_exit", "c_recent", "c_set"}
InstallPCs == {"r_state", "r_sync", "r_claim", "r_run", "r_off"}
PCs == {"idle", "acquire", "state", "release", "panic"}
         \union BootPCs \union StopPCs \union TermPCs \union CrashPCs \union InstallPCs

Acts == {"none", "start", "stop", "restart", "kill", "command", "halt", "reinstall"}

\* A handler remembers whether the state it replaces was an online one, and the
\* state it is about to store.
NoEvent == [pc |-> "idle", online |-> FALSE, cur |-> "offline"]

Init ==
  /\ locked = FALSE /\ own = {} /\ forced = {}
  /\ pc = [a \in Actors |-> "idle"]
  /\ act = [a \in Actors |-> "none"]
  /\ st = "offline" /\ stream = 0
  /\ reader = [k \in Readers |-> "none"]
  /\ container = "none" /\ signal = "none"
  /\ tracked = "offline"
  /\ handler = [h \in Handlers |-> NoEvent]
  /\ recent = FALSE /\ console = "idle" /\ once = FALSE /\ installing = FALSE

-----------------------------------------------------------------------------
(* Helpers.                                                                 *)

At(a, l)   == pc[a] = l
Goto(a, l) == pc' = [pc EXCEPT ![a] = l]

\* Bound: another goroutine may go to work.
Room == Cardinality({a \in Actors \ Crashers : ~At(a, "idle")}) < MaxBusy

\* Environment.SetState: stores a new state and publishes it on the event bus;
\* the server's listener starts one goroutine per event.  The load, the store
\* and the publication are one step: splitting them only lets two actors that
\* store the same state publish it twice.
SetState(s) ==
  /\ st' = s
  /\ \/ (st = s \/ Handlers = {}) /\ UNCHANGED handler
     \/ /\ st # s
        /\ \E h \in Handlers :
             /\ handler[h].pc = "idle"
             /\ handler' = [handler EXCEPT ![h].pc = IF s = "starting" THEN "boot" ELSE "recv"]

\* One step of actor a that stores state s and goes on at l.
Mark(a, from, s, to) ==
  /\ At(a, from)
  /\ SetState(s)
  /\ Goto(a, to)
  /\ UNCHANGED <<locked, own, act, forced, stream, reader, dockerVars,
                 tracked, recent, console, once, installing>>

\* One step of actor a that only looks at the state and goes on at l.
Step(a, from, to) ==
  /\ At(a, from)
  /\ Goto(a, to)
  /\ UNCHANGED <<locked, own, act, forced, envVars, dockerVars, serverVars>>

IsAttached == stream # 0
IsRunning  == st \in {"starting", "running"}

\* ContainerAttach succeeds: the stream is set and its reader goroutine starts.
Connect ==
  \E k \in Readers :
    /\ reader[k] = "none"
    /\ \A j \in Readers : j < k => reader[j] # "none"
    /\ reader' = [reader EXCEPT ![k] = "scan"]
    /\ stream' = k

\* Where a WaitForStop that returned without error leaves its caller.
AfterStop(x) == CASE x = "restart" -> "preboot"
                  [] x = "reinstall" -> "r_sync"
                  [] OTHER -> "release"

\* Where Terminate returns to without error: HandlePowerAction, WaitForStop
\* after its doTermination, or Stop, whose caller then waits.
AfterTerminate(a) == IF act[a] = "kill" THEN "release"
                     ELSE IF a \in forced THEN AfterStop(act[a]) ELSE "wait"

-----------------------------------------------------------------------------
(* HandlePowerAction: the gate, the lock, the release.                      *)

\* A power action is refused while the server is being installed.
HandlePowerAction(u, x) ==
  /\ x # "command"
  /\ At(u, "idle") /\ Room
  /\ ~installing
  /\ act' = [act EXCEPT ![u] = x]
  /\ Goto(u, "acquire")
  /\ UNCHANGED <<locked, own, forced, envVars, dockerVars, serverVars>>

\* What HandlePowerAction does once it is past the lock.
Body(x) == CASE x = "start" -> "state"
             [] x \in {"stop", "restart"} -> "stop"
             [] OTHER -> "t_inspect"

\* Mutation of Acquire: the length of the channel is not looked at.
AcquireAlways(a) ==
  /\ At(a, "acquire")
  /\ locked' = TRUE
  /\ own' = own \union {a}
  /\ Goto(a, Body(act[a]))
  /\ UNCHANGED <<act, forced, envVars, dockerVars, serverVars>>

\* Locker.Acquire or Locker.TryAcquire gets the lock.
Acquire(a) ==
  /\ At(a, "acquire")
  /\ ~locked
  /\ locked' = TRUE
  /\ own' = own \union {a}
  /\ Goto(a, Body(act[a]))
  /\ UNCHANGED <<act, forced, envVars, dockerVars, serverVars>>

\* Mutation of AcquireFails: a kill waits until the lock is free.
KillWaits(a) ==
  /\ locked
  /\ act[a] # "kill"
  /\ Step(a, "acquire", "release")

\* Acquire fails at once, or TryAcquire after its timeout; a kill goes ahead
\* without the lock and will not release it.
AcquireFails(a) ==
  /\ locked
  /\ Step(a, "acquire", IF act[a] = "kill" THEN "t_inspect" ELSE "release")

\* Mutation of Release: the cleanup is deferred for every action, a kill that
\* did not get the lock included.
ReleaseAlways(a) ==
  /\ At(a, "release")
  /\ locked' = FALSE
  /\ own' = own \ {a}
  /\ forced' = forced \ {a}
  /\ act' = [act EXCEPT ![a] = "none"]
  /\ Goto(a, "idle")
  /\ UNCHANGED <<envVars, dockerVars, serverVars>>

\* The deferred cleanup: only an actor that acquired the lock releases it.
Release(a) ==
  /\ At(a, "release")
  /\ locked' = IF a \in own THEN FALSE ELSE locked
  /\ own' = own \ {a}
  /\ forced' = forced \ {a}
  /\ act' = [act EXCEPT ![a] = "none"]
  /\ Goto(a, "idle")
  /\ UNCHANGED <<envVars, dockerVars, serverVars>>

\* A start is refused unless the environment is offline.
CheckOffline(a) == Step(a, "state", IF st = "offline" THEN "preboot" ELSE "release")

-----------------------------------------------------------------------------
(* onBeforeStart and Environment.Start.                                     *)

\* The Panel cannot be reached, the server is suspended or its disk is full.
PreBoot(a) ==
  \/ Step(a, "preboot", "inspect")
  \/ Faults /\ Step(a, "preboot", "release")

\* Mutation of Inspect: the state of the container is not looked at.
InspectBlind(a) ==
  \/ Step(a, "inspect", "starting")
  \/ Faults /\ Step(a, "inspect", "release")

\* A running container is adopted; otherwise the boot goes on.
Inspect(a) ==
  \/ Step(a, "inspect", IF container = "running" THEN "adopt" ELSE "starting")
  \/ Faults /\ Step(a, "inspect", "release")

Adopt(a) == Mark(a, "adopt", "running", "adoptAttach")

\* Attach: nothing to do when the stream is set, else attach to the container;
\* to is where the caller goes on without error, fail where it goes with one.
Attach(a, from, to, fail) ==
  \/ IsAttached /\ Step(a, from, to)
  \/ /\ ~IsAttached /\ container # "none"
     /\ At(a, from)
     /\ Connect
     /\ Goto(a, to)
     /\ UNCHANGED <<locked, own, act, forced, st, dockerVars, serverVars>>
  \/ ~IsAttached /\ (Faults \/ container = "none") /\ Step(a, from, fail)

AdoptAttach(a) == Attach(a, "adoptAttach", "release", "release")

Starting(a) == Mark(a, "starting", "starting", "remove")

\* OnBeforeStart: ContainerRemove without Force refuses a running container.
\* The output of a removed container ends.
Remove(a) ==
  \/ /\ At(a, "remove")
     /\ container # "running"
     /\ container' = "none"
     /\ reader' = [k \in Readers |-> IF reader[k] = "scan" THEN "orphan" ELSE reader[k]]
     /\ Goto(a, "create")
     /\ UNCHANGED <<locked, own, act, forced, st, stream, signal, serverVars>>
  \/ (Faults \/ container = "running") /\ Step(a, "remove", "unwind1")

\* OnBeforeStart: Create returns silently when the container exists.
Create(a) ==
  \/ /\ At(a, "create")
     /\ container' = IF container = "none" THEN "created" ELSE container
     /\ signal' = IF container = "none" THEN "none" ELSE signal
     /\ Goto(a, "attach")
     /\ UNCHANGED <<locked, own, act, forced, envVars, serverVars>>
  \/ Faults /\ Step(a, "create", "unwind1")

AttachFirst(a) == Attach(a, "attach", "cstart", "unwind1")

\* ContainerStart; when the call times out the container may run all the same.
ContainerStart(a) ==
  \/ /\ At(a, "cstart")
     /\ container # "none"
     /\ container' = "running"
     /\ \E to \in {"release"} \union (IF Faults THEN {"unwind1"} ELSE {}) : Goto(a, to)
     /\ UNCHANGED <<locked, own, act, forced, envVars, signal, serverVars>>
  \/ (Faults \/ container = "none") /\ Step(a, "cstart", "unwind1")

\* The deferred function of Start after an error.
Unwind(a) ==
  \/ Mark(a, "unwind1", "stopping", "unwind2")
  \/ Mark(a, "unwind2", "offline", "release")

Boot(a) ==
  \/ CheckOffline(a) \/ PreBoot(a) \/ Inspect(a) \/ Adopt(a) \/ AdoptAttach(a)
  \/ Starting(a) \/ Remove(a) \/ Create(a) \/ AttachFirst(a)
  \/ ContainerStart(a) \/ Unwind(a)

-----------------------------------------------------------------------------
(* Environment.WaitForStop: Stop, then wait for the container.              *)

Stop(a) ==
  \E t \in StopTypes :
    Step(a, "stop", CASE t = "signal" -> "t_inspect"
                      [] t = "command" -> "check_command"
                      [] OTHER -> "check_native")

\* A process that is offline already is not marked as stopping.
CheckStopping(a) ==
  \/ Step(a, "check_command", IF st = "offline" THEN "command" ELSE "mark_command")
  \/ Step(a, "check_native", IF st = "offline" THEN "cstop" ELSE "mark_native")

MarkStopping(a) ==
  \/ Mark(a, "mark_command", "stopping", "command")
  \/ Mark(a, "mark_native", "stopping", "cstop")

\* The stop command is sent only when there is a stream to send it to.
StopCommand(a) == Step(a, "command", IF IsAttached THEN "send" ELSE "cstop")

\* SendCommand, up to the read lock of the environment.
SendCommand(a) == Step(a, "send", IF IsAttached THEN "write" ELSE "release")

\* SendCommand under the read lock: the stop command marks the server as
\* stopping and is written to the stream, which may have become nil.
WriteCommand(a) ==
  /\ At(a, "write")
  /\ SetState("stopping")
  /\ signal' = IF IsAttached /\ signal = "none" /\ container = "running" THEN "stop" ELSE signal
  /\ \E to \in {IF ~IsAttached THEN "panic" ELSE IF act[a] = "command" THEN "release" ELSE "wait"}
                 \union (IF Faults /\ IsAttached THEN {"release"} ELSE {}) : Goto(a, to)
  /\ UNCHANGED <<locked, own, act, forced, stream, reader, container,
                 tracked, recent, console, once, installing>>

\* ContainerStop without a time limit of its own: it sends the signal, and its
\* wait for the container is the one WaitForStop goes on with.
ContainerStop(a) ==
  \/ /\ At(a, "cstop")
     /\ container # "none"
     /\ signal' = IF container = "running" /\ signal = "none" THEN "stop" ELSE signal
     /\ Goto(a, "wait")
     /\ UNCHANGED <<locked, own, act, forced, envVars, container, serverVars>>
  \/ container = "none" /\ Step(a, "cstop", "nilstream")
  \/ Faults /\ Step(a, "cstop", "release")

\* The container does not exist: SetStream(nil), then SetState.
ForgetStream(a) ==
  /\ At(a, "nilstream")
  /\ stream' = 0
  /\ Goto(a, "niloff")
  /\ UNCHANGED <<locked, own, act, forced, st, reader, dockerVars, serverVars>>

ForgetState(a) == Mark(a, "niloff", "offline", "wait")

\* ContainerWait: the container is not running any more.
WaitStopped(a) ==
  /\ container # "running"
  /\ Step(a, "wait", AfterStop(act[a]))

\* The time limit passes, or the wait fails: doTermination.
WaitTimeout(a) ==
  /\ At(a, "wait")
  /\ Faults \/ container = "running"
  /\ forced' = forced \union {a}
  /\ Goto(a, "t_inspect")
  /\ UNCHANGED <<locked, own, act, envVars, dockerVars, serverVars>>

\* A Docker call of Stop meets the time limit: doTermination as well.
StopTimeout(a) ==
  /\ Faults
  /\ pc[a] \in {"cstop", "t_inspect", "t_kill", "t_poll", "t_last"}
  /\ act[a] # "kill" /\ a \notin forced
  /\ forced' = forced \union {a}
  /\ Goto(a, "t_inspect")
  /\ UNCHANGED <<locked, own, act, envVars, dockerVars, serverVars>>

WaitForStop(a) ==
  \/ Stop(a) \/ CheckStopping(a) \/ MarkStopping(a)
  \/ StopCommand(a) \/ SendCommand(a) \/ WriteCommand(a)
  \/ ContainerStop(a) \/ ForgetStream(a) \/ ForgetState(a)
  \/ WaitStopped(a) \/ WaitTimeout(a) \/ StopTimeout(a)

-----------------------------------------------------------------------------
(* Environment.Terminate.                                                   *)

TermInspect(a) ==
  \/ Step(a, "t_inspect",
          CASE container = "running" -> "t_mark"
            [] container # "running" /\ container # "none" /\ st # "offline" -> "t_down"
            [] OTHER -> AfterTerminate(a))
  \/ Faults /\ Step(a, "t_inspect", "release")

TermMark(a) ==
  \/ Mark(a, "t_down", "stopping", "t_off")
  \/ Mark(a, "t_mark", "stopping", "t_kill")

\* SIGKILL, or the signal a stop is configured with.
Signals(a) == IF act[a] = "kill" \/ a \in forced THEN {"kill"} ELSE {"stop", "kill"}

Stronger(s) == IF signal = "kill" THEN "kill" ELSE s

\* ContainerKill: Docker refuses when the container is not running; that the
\* container is gone is no error.
Kill(a, from, to, sigs) ==
  \/ /\ At(a, from)
     /\ container = "running"
     /\ \E s \in sigs : signal' = Stronger(s)
     /\ Goto(a, to)
     /\ UNCHANGED <<locked, own, act, forced, envVars, container, serverVars>>
  \/ container = "none" /\ Step(a, from, to)
  \/ (Faults \/ container \notin {"none", "running"}) /\ Step(a, from, "release")

TermKill(a) == Kill(a, "t_kill", "t_poll", Signals(a))

\* Mutation of TermPoll: the poll has no time limit.
TermPollForever(a) ==
  \/ container # "running" /\ Step(a, "t_poll", "t_off")
  \/ Faults /\ Step(a, "t_poll", "release")

\* One tick of the ten second poll, and its end.
TermPoll(a) ==
  \/ container # "running" /\ Step(a, "t_poll", "t_off")
  \/ container = "running" /\ Step(a, "t_poll", "t_last")
  \/ Faults /\ Step(a, "t_poll", "release")

\* The last resort: SIGKILL, then offline whatever the container does.
TermLast(a) == Kill(a, "t_last", "t_off", {"kill"})

TermOff(a) == Mark(a, "t_off", "offline", AfterTerminate(a))

Terminate(a) ==
  \/ TermInspect(a) \/ TermMark(a) \/ TermKill(a)
  \/ TermPoll(a) \/ TermLast(a) \/ TermOff(a)

-----------------------------------------------------------------------------
(* The game process, its output and the goroutines that watch them.         *)

\* The process ends: by itself, or because it has been told to.
ContainerExits ==
  /\ container = "running"
  /\ SelfExit \/ signal # "none"
  /\ \E c \in {"clean", "failed"} : (signal = "kill" => c = "failed") /\ container' = c
  /\ UNCHANGED <<powerVars, envVars, signal, serverVars>>

\* The goroutine of Attach meets the end of the output, or an error.
ReaderEnds(k) ==
  /\ \/ reader[k] = "orphan"
     \/ reader[k] = "scan" /\ (Faults \/ container \notin {"created", "running"})
  /\ SetState("offline")
  /\ reader' = [reader EXCEPT ![k] = "eof"]
  /\ UNCHANGED <<powerVars, stream, dockerVars, tracked, recent, console, once, installing>>

\* Its deferred SetStream(nil), whichever stream is set by now.
ReaderDetaches(k) ==
  /\ reader[k] = "eof"
  /\ stream' = 0
  /\ reader' = [reader EXCEPT ![k] = "none"]
  /\ UNCHANGED <<powerVars, st, dockerVars, serverVars>>

Output == \E k \in Readers : \/ reader[k] = "orphan"
                             \/ reader[k] = "scan" /\ container # "created"

\* onConsoleOutput sees a line that marks the end of the startup (state
\* starting) or an echo of the stop command (state starting or running) ...
ConsoleLine ==
  /\ Output
  /\ console = "idle"
  /\ \/ st = "starting" /\ console' = "started"
     \/ IsRunning /\ "command" \in StopTypes /\ console' = "echo"
  /\ UNCHANGED <<powerVars, envVars, dockerVars, tracked, handler, recent, once, installing>>

\* ... and stores the state that goes with it.
ConsoleMark ==
  /\ console # "idle"
  /\ SetState(IF console = "started" THEN "running" ELSE "offline")
  /\ console' = "idle"
  /\ UNCHANGED <<powerVars, stream, reader, dockerVars, tracked, recent, once, installing>>

\* WaitForStop outside the power lock: diskSpaceLimiter.Trigger, once per boot,
\* on a resource event of a running container ...
DiskTrigger(d) ==
  /\ At(d, "idle") /\ Room
  /\ container = "running" /\ IsAttached /\ ~once
  /\ once' = TRUE
  /\ act' = [act EXCEPT ![d] = "halt"]
  /\ Goto(d, "stop")
  /\ UNCHANGED <<locked, own, forced, envVars, dockerVars, tracked, handler,
                 recent, console, installing>>

\* ... and SyncWithEnvironment, when the server has been suspended.
Suspend(d) ==
  /\ At(d, "idle") /\ Room
  /\ st # "offline"
  /\ act' = [act EXCEPT ![d] = "halt"]
  /\ Goto(d, "stop")
  /\ UNCHANGED <<locked, own, forced, envVars, dockerVars, serverVars>>

\* A user sends the stop command over the websocket or the commands endpoint.
UserCommand(u, x) ==
  /\ x = "command" /\ "command" \in StopTypes
  /\ At(u, "idle") /\ Room
  /\ st # "offline" \/ container = "running"
  /\ act' = [act EXCEPT ![u] = x]
  /\ Goto(u, "send")
  /\ UNCHANGED <<locked, own, forced, envVars, dockerVars, serverVars>>

-----------------------------------------------------------------------------
(* State-change events: OnStateChange and handleServerCrash.                *)

\* A boot resets the disk limiter.
HandlerReset(h) ==
  /\ handler[h].pc = "boot"
  /\ once' = FALSE
  /\ handler' = [handler EXCEPT ![h].pc = "recv"]
  /\ UNCHANGED <<powerVars, envVars, dockerVars, tracked, recent, console, installing>>

\* OnStateChange: load the tracked state, load the environment's, store it.
HandlerLoadPrev(h) ==
  /\ handler[h].pc = "recv"
  /\ handler' = [handler EXCEPT ![h] =
                   [@ EXCEPT !.pc = "prev", !.online = tracked \in {"starting", "running"}]]
  /\ UNCHANGED <<powerVars, envVars, dockerVars, tracked, recent, console, once, installing>>

HandlerLoadCur(h) ==
  /\ handler[h].pc = "prev"
  /\ handler' = [handler EXCEPT ![h] = [@ EXCEPT !.pc = "cur", !.cur = st]]
  /\ UNCHANGED <<powerVars, envVars, dockerVars, tracked, recent, console, once, installing>>

HandlerStore(h) ==
  /\ handler[h].pc = "cur"
  /\ tracked' = handler[h].cur
  /\ handler' = [handler EXCEPT ![h] = [@ EXCEPT !.pc = "stored", !.cur = "offline"]]
  /\ UNCHANGED <<powerVars, envVars, dockerVars, recent, console, once, installing>>

\* A server that was online and is offline now has crashed: a crash handler
\* starts (bound: none does while every one of Crashers is at work).
HandlerDecide(h) ==
  /\ handler[h].pc = "stored"
  /\ handler' = [handler EXCEPT ![h] = NoEvent]
  /\ LET free == {c \in Crashers : At(c, "idle")} IN
     IF handler[h].online /\ st = "offline" /\ free # {}
     THEN \E c \in free : Goto(c, "c_state") /\ act' = [act EXCEPT ![c] = "start"]
     ELSE UNCHANGED <<pc, act>>
  /\ UNCHANGED <<locked, own, forced, envVars, dockerVars, tracked, recent, console, once, installing>>

Handle(h) ==
  \/ HandlerReset(h) \/ HandlerLoadPrev(h) \/ HandlerLoadCur(h)
  \/ HandlerStore(h) \/ HandlerDecide(h)

\* handleServerCrash.
CrashCheck(c) == Step(c, "c_state", IF st = "offline" /\ CrashDetect THEN "c_exit" ELSE "release")

\* A container that does not exist counts as one that failed; one that runs
\* or has been created has exit code 0.
CrashExit(c) ==
  \/ Step(c, "c_exit", IF container \in {"none", "failed"} \/ DetectClean THEN "c_recent" ELSE "release")
  \/ Faults /\ Step(c, "c_exit", "release")

CrashRecent(c) == Step(c, "c_recent", IF recent THEN "release" ELSE "c_set")

\* Mutation of CrashStart: the server is started without HandlePowerAction.
CrashStartUnlocked(c) ==
  /\ At(c, "c_set")
  /\ recent' = TRUE
  /\ Goto(c, "preboot")
  /\ UNCHANGED <<locked, own, act, forced, envVars, dockerVars, tracked, handler,
                 console, once, installing>>

\* SetLastCrash, and HandlePowerAction's gate.
CrashStart(c) ==
  /\ At(c, "c_set")
  /\ recent' = TRUE
  /\ Goto(c, IF installing THEN "release" ELSE "acquire")
  /\ UNCHANGED <<locked, own, act, forced, envVars, dockerVars, tracked, handler,
                 console, once, installing>>

HandleCrash(c) == CrashCheck(c) \/ CrashExit(c) \/ CrashRecent(c) \/ CrashStart(c)

\* Sixty seconds have passed since the last crash.
CrashWindowEnds ==
  /\ recent
  /\ recent' = FALSE
  /\ UNCHANGED <<powerVars, envVars, dockerVars, tracked, handler, console, once, installing>>

-----------------------------------------------------------------------------
(* Reinstall.                                                               *)

\* postServerReinstall is refused while the power lock is held.
Reinstall(i) ==
  /\ At(i, "idle") /\ Room
  /\ ~locked
  /\ act' = [act EXCEPT ![i] = "reinstall"]
  /\ Goto(i, "r_state")
  /\ UNCHANGED <<locked, own, forced, envVars, dockerVars, serverVars>>

InstallCheck(i) == Step(i, "r_state", IF st = "offline" THEN "r_sync" ELSE "stop")

\* Sync, whose error ends the reinstall; then the installation script is
\* fetched, unless the scripts are skipped or the Panel does not hand it out.
InstallSync(i) ==
  \/ Step(i, "r_sync", "r_claim")
  \/ Step(i, "r_sync", "r_off")
  \/ Faults /\ Step(i, "r_sync", "release")

\* InstallationProcess.Run: installing.SwapIf(true).
InstallClaim(i) ==
  /\ At(i, "r_claim")
  /\ installing' = TRUE
  /\ Goto(i, IF installing THEN "r_off" ELSE "r_run")
  /\ UNCHANGED <<locked, own, act, forced, envVars, dockerVars, tracked, handler,
                 recent, console, once>>

InstallDone(i) ==
  /\ At(i, "r_run")
  /\ installing' = FALSE
  /\ Goto(i, "r_off")
  /\ UNCHANGED <<locked, own, act, forced, envVars, dockerVars, tracked, handler,
                 recent, console, once>>

\* Mutation of InstallOffline: the state is left blank.
InstallBlank(i) == Mark(i, "r_off", "", "release")

InstallOffline(i) == Mark(i, "r_off", "offline", "release")

Install(i) ==
  \/ InstallCheck(i) \/ InstallSync(i) \/ InstallClaim(i) \/ InstallDone(i) \/ InstallOffline(i)

-----------------------------------------------------------------------------
\* A nil dereference in a goroutine of the daemon ends the daemon.
Panicked == \E a \in Actors : At(a, "panic")

Lock(a) == Acquire(a) \/ AcquireFails(a) \/ Release(a)

Act(a) == Lock(a) \/ Boot(a) \/ WaitForStop(a) \/ Terminate(a)

\* What starts an actor.
Request ==
  \/ \E u \in Users, x \in Actions : HandlePowerAction(u, x) \/ UserCommand(u, x)
  \/ \E d \in Stoppers : DiskTrigger(d) \/ Suspend(d)
  \/ \E i \in Installers : Reinstall(i)

Next ==
  /\ ~Panicked
  /\ \/ Request
     \/ \E a \in Actors : Act(a)
     \/ \E c \in Crashers : HandleCrash(c)
     \/ \E i \in Installers : Install(i)
     \/ \E h \in Handlers : Handle(h)
     \/ \E k \in Readers : ReaderEnds(k) \/ ReaderDetaches(k)
     \/ ContainerExits \/ ConsoleLine \/ ConsoleMark \/ CrashWindowEnds

Spec == Init /\ [][Next]_vars

\* A goroutine that can run does run.  A step of an actor changes its pc or forced.
Runs(a) ==
  /\ ~Panicked
  /\ pc[a] # "idle"
  /\ Act(a) \/ (a \in Crashers /\ HandleCrash(a)) \/ (a \in Installers /\ Install(a))

\* A kill runs and a process that has been sent SIGKILL ends; whoever else is at
\* work may be stuck for ever.
KillFairness ==
  /\ \A u \in Users : WF_<<pc[u], forced>>(act[u] = "kill" /\ Runs(u))
  /\ WF_container(~Panicked /\ signal = "kill" /\ ContainerExits)

\* Every goroutine that can run does run; a process that has been sent SIGKILL
\* ends.  Nobody has to ask for anything, no process has to end by itself or
\* print anything, and the crash window need not end.
Fairness ==
  /\ \A a \in Actors : WF_<<pc[a], forced>>(Runs(a))
  /\ \A h \in Handlers : WF_handler(~Panicked /\ Handle(h))
  /\ \A k \in Readers : WF_reader(~Panicked /\ (ReaderEnds(k) \/ ReaderDetaches(k)))
  /\ WF_console(~Panicked /\ ConsoleMark)
  /\ WF_container(~Panicked /\ signal = "kill" /\ ContainerExits)

KillSpec == Spec /\ KillFairness

-----------------------------------------------------------------------------
(* Properties.                                                              *)

HandlerState == [pc : {"idle", "boot", "recv", "prev", "cur", "stored"},
                 online : BOOLEAN, cur : States]

\* The variables' types.
TypeOK ==
  /\ locked \in BOOLEAN
  /\ own \subseteq Actors
  /\ pc \in [Actors -> PCs]
  /\ act \in [Actors -> Acts]
  /\ forced \subseteq Actors
  /\ st \in States
  /\ stream \in {0} \union Readers
  /\ reader \in [Readers -> {"none", "scan", "orphan", "eof"}]
  /\ container \in {"none", "created", "running", "clean", "failed"}
  /\ signal \in {"none", "stop", "kill"}
  /\ tracked \in States
  /\ handler \in [Handlers -> HandlerState]
  /\ recent \in BOOLEAN
  /\ console \in {"idle", "started", "echo"}
  /\ once \in BOOLEAN
  /\ installing \in BOOLEAN

\* The power lock has one owner while it is held and none while it is free,
\* although kills run without it and Release takes whatever is in the channel:
\* a kill that did not get the lock never releases somebody else's.
LockOwned ==
  /\ locked <=> own # {}
  /\ \A a, b \in own : a = b

\* Two goroutines are never inside onBeforeStart or Environment.Start together:
\* "This guards against someone calling Start() twice at the same time, or
\* trying to restart while another restart process is currently running"
\* (server/power.go), with crash handlers, kills, the disk limiter and the
\* reinstall going on at the same time.
BootExclusive ==
  \A a, b \in Actors : pc[a] \in BootPCs /\ pc[b] \in BootPCs => a = b

\* Once Start has decided to build a new container, nobody gets the old one
\* running again: the state is not set to starting, the container not removed,
\* created or attached to, over a running process.
NoLaunchOverRunning ==
  \A a \in Actors : pc[a] \in LaunchPCs => container # "running"

\* How the lock protects a boot: whoever boots owns the lock, and so does a
\* restart while it stops the server; a reinstall never turns into a boot.
LockDiscipline ==
  \A a \in Actors :
    /\ pc[a] \in BootPCs \union {"state"} => a \in own
    /\ act[a] = "restart" /\ pc[a] \in StopPCs \union TermPCs => a \in own
    /\ pc[a] \in InstallPCs => act[a] = "reinstall"

\* The inductive invariant behind LockOwned, BootExclusive and
\* NoLaunchOverRunning.
LockInv == LockOwned /\ LockDiscipline /\ NoLaunchOverRunning

\* When every goroutine runs, every power action, crash handler, forced stop and
\* reinstall comes to its end, and the lock is released ("the code ... can get
\* stuck" is what the kill action is for; it is not needed for this).
ActionsEnd == Fairness => \A a \in Actors : pc[a] # "idle" ~> pc[a] = "idle"

\* A kill that is asked for while the process runs ends it, whoever holds the
\* lock and however stuck that goroutine is: "If a server is currently trying to
\* process a power action but has gotten stuck you still should be able to pass
\* through the terminate event" (server/power.go).
KillAsked == \E u \in Users : act[u] = "kill" /\ pc[u] = "acquire"
KillEndsProcess == KillAsked /\ container = "running" ~> container # "running"

\* The server does what OneBoot promises.
Booting == {a \in Actors : pc[a] \in BootPCs}
Boots == INSTANCE OneBoot WITH Booters <- Actors, booter <- Booting, up <- (container = "running")
ImplementsOneBoot == Boots!Spec

-----------------------------------------------------------------------------
(* What comments of the code say, which the code does not do.               *)

\* "We set it to stopping then offline to prevent crash detection from being
\* triggered" (environment/docker/power.go): checked where the process ends
\* only when a user kills it, no crash handler boots the server.
KilledStaysDown == \A c \in Crashers : pc[c] \notin BootPCs

\* "If the command sent to the server is one that should stop the server we
\* will need to set the server to be in a stopping state, otherwise crash
\* detection will kick in" (server/listeners.go, onConsoleOutput).
NoCrashDetected == \A c \in Crashers : pc[c] = "idle"

\* Nothing is under way.
Quiet ==
  /\ \A a \in Actors : pc[a] = "idle"
  /\ \A h \in Handlers : handler[h].pc = "idle"
  /\ \A k \in Readers : \/ reader[k] = "none"
                        \/ reader[k] = "scan" /\ container \in {"created", "running"}
  /\ console = "idle"

\* "Start will start the server environment and begins piping output to the
\* event listeners for the console" (environment/docker/power.go): when all is
\* quiet, a container that runs has its output read.
RunningIsAttached == Quiet /\ container = "running" => IsAttached

\* "If the specific line of output is one that would mark the server as started,
\* set the server to that state. Only do this if the server is not currently
\* stopped or stopping" (server/listeners.go, onConsoleOutput): when all is quiet,
\* the state of a server whose container has stopped is offline.
StoppedIsOffline == Quiet /\ container \in {"clean", "failed"} => st = "offline"

\* "Update the currently tracked state for the server" (server/server.go,
\* OnStateChange): when all is quiet the tracked state is the environment's.
TrackedIsCurrent == Quiet => tracked = st

\* "Only attempt to send the stop command to the instance if we are actually
\* attached to the instance" (environment/docker/power.go, Stop).
SentWhenAttached == ~Panicked

=============================================================================

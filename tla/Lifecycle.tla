----------------------------- MODULE Lifecycle -----------------------------
(***************************************************************************)
(* The servers of one Wings daemon over its life: the boot that loads them  *)
(* and returns them to their last state (wings/cmd/root.go), the manager    *)
(* and the file of saved states (wings/server/manager.go), creation,        *)
(* installation and reinstallation (wings/router/router_system.go,          *)
(* wings/server/install.go), a start from the lock to Docker's answer, the  *)
(* deletion (wings/router/router_server.go), crashes of the daemon and of   *)
(* the machine, and the status the Panel keeps of each server               *)
(* (panel/internal/api/remote/install.go, application/servers.go).          *)
(*                                                                         *)
(* A job is one goroutine of a request, working for one instance of a       *)
(* server; the deletion of the instance cancels its context and may leave   *)
(* it running.  A step is one store or one call to Docker, the disk or the  *)
(* Panel.  The races of power actions with each other are the subject of    *)
(* ServerPower, and sessions that of Sessions.                              *)
(***************************************************************************)
EXTENDS Naturals, FiniteSets

CONSTANTS
  Servers,     \* uuids
  Jobs,        \* bound: goroutines of requests at work at the same time
  MaxBoots,    \* bound: boots of the daemon
  Requests,    \* the requests that arrive
  Faults       \* Docker, disk and Panel calls may fail

ASSUME BootsAssumption == MaxBoots \in Nat
ASSUME FaultsAssumption == Faults \in BOOLEAN
ASSUME RequestsAssumption ==
  Requests \subseteq {"create", "install", "reinstall", "start", "delete"}
ASSUME JobsAssumption == Servers \intersect Jobs = {} /\ {"nobody", "wedged"} \intersect (Servers \union Jobs) = {}

VARIABLES
  status,      \* Panel: models.Server.Status; "new" or "absent" without a row
  \* the daemon
  phase,       \* down, restoring the servers, or serving requests
  boots,       \* boots so far
  inst,        \* the manager's entry: none, live, or gone (its context is cancelled)
  est,         \* the state of the entry's environment
  holder,      \* who holds the entry's power lock
  installing,  \* s.installing of the entry
  read,        \* the states a boot has read from the file
  pending,     \* servers whose boot worker is not done
  revived,     \* servers the boot has tried to start, or attached to
  job,         \* the goroutines of requests, and the boot workers
  saving,      \* PersistStates has truncated the file
  snap,        \* the states it is about to write
  \* what survives the daemon
  file,        \* the states file
  data,        \* servers whose directory exists
  container,   \* the server's container
  installer,   \* the installation container
  \* observed by the properties
  owed,        \* servers the file recorded as online when the daemon went down
  waits,       \* the job that started the installation container
  cut,         \* jobs whose installation container was removed while it ran
  wiped        \* servers destroyed since they were last loaded or created

entryVars == <<inst, est, holder, installing>>
bootVars  == <<phase, boots, read, pending, revived, owed>>
fileVars  == <<saving, snap, file>>
dockVars  == <<container, installer, waits, cut>>
vars == <<status, entryVars, bootVars, job, fileVars, data, dockVars, wiped>>

Statuses == {"new", "absent", "ok", "suspended", "install_failed", "reinstall_failed"}
States   == {"offline", "online"}  \* online: starting or running
Saved    == [Servers -> States \union {"none"}]
Nobody   == "nobody"
Wedged   == "wedged"               \* the lock's mutex was never released

StartPCs  == {"acquire", "sync", "remove", "create", "run", "fail"}
DeletePCs == {"cancel", "destroy", "files"}
PCs == {"idle", "env", "pull", "halt", "fetch", "script", "claim", "before", "exec", "launch", "wait",
        "after", "report", "mark"} \union StartPCs \union DeletePCs

\* The worker that returns a server to its last state at boot has the server's name.
Workers == Jobs \union Servers

Blank == [s \in Servers |-> "none"]

\* live: its context is not cancelled; then: what follows an installation, or
\* "again" for a reinstallation; good: the installation has succeeded.
NoJob == [pc |-> "idle", srv |-> Nobody, live |-> FALSE, then |-> "none", good |-> FALSE]

Init ==
  /\ status \in [Servers -> {"new", "ok"}]
  /\ phase = "down" /\ boots = 0
  /\ inst = Blank
  /\ est = [s \in Servers |-> "offline"]
  /\ holder = [s \in Servers |-> Nobody]
  /\ installing = {}
  /\ read = Blank /\ pending = {} /\ revived = {} /\ owed = {}
  /\ job = [w \in Workers |-> NoJob]
  /\ saving = FALSE /\ snap = Blank /\ file = Blank /\ data = {}
  /\ container = Blank /\ installer = Blank
  /\ waits = [s \in Servers |-> Nobody] /\ cut = {} /\ wiped = {}

-----------------------------------------------------------------------------
(* Helpers.                                                                 *)

At(w, l)   == job[w].pc = l
Known(s)   == status[s] \notin {"new", "absent"}  \* the Panel has a row
Advance(w, l, ok) == job' = [job EXCEPT ![w].pc = l, ![w].good = ok]
Goto(w, l) == IF l = "idle" THEN job' = [job EXCEPT ![w] = NoJob]
                            ELSE Advance(w, l, job[w].good)

\* A call under the server's context succeeds only while it is not cancelled.
Succeeds(w) == job[w].live
Fails(w)    == ~job[w].live \/ Faults

\* A request takes a free goroutine and is bound to the entry it found.
Request(kind, w, s, l, t, lv) ==
  /\ phase = "serving" /\ kind \in Requests
  /\ At(w, "idle")
  /\ job' = [job EXCEPT ![w] = [pc |-> l, srv |-> s, live |-> lv, then |-> t, good |-> FALSE]]

Hit(kind, w, s, l, t) ==
  /\ inst[s] # "none"
  /\ Request(kind, w, s, l, t, inst[s] = "live")
  /\ UNCHANGED <<status, entryVars, bootVars, fileVars, data, dockVars, wiped>>

\* InstallationProcess.RemoveContainer, under the server's context: whoever waits
\* for the container sees it stop.
RemoveContainer(w, s) ==
  /\ Succeeds(w)
  /\ installer' = [installer EXCEPT ![s] = "none"]
  /\ waits' = [waits EXCEPT ![s] = Nobody]
  /\ cut' = IF installer[s] = "running"
            THEN cut \union {v \in Workers \ {w} : v = waits[s] /\ At(v, "wait")} ELSE cut

\* The same when its error is ignored.
TryRemoveContainer(w, s) ==
  \/ RemoveContainer(w, s)
  \/ /\ Fails(w)
     /\ waits' = [waits EXCEPT ![s] = IF @ = w THEN Nobody ELSE @]
     /\ UNCHANGED <<installer, cut>>

-----------------------------------------------------------------------------
(* The Panel's rows.                                                        *)

\* ServerHandler.Store of the application API.
CreateRow(s) ==
  /\ status[s] = "new"
  /\ status' = [status EXCEPT ![s] = "ok"]
  /\ UNCHANGED <<entryVars, bootVars, job, fileVars, data, dockVars, wiped>>

\* ServerHandler.Suspend and Unsuspend of the application API.
Suspend(s) ==
  /\ Known(s)
  /\ \E v \in {"suspended", "ok"} : status' = [status EXCEPT ![s] = v]
  /\ UNCHANGED <<entryVars, bootVars, job, fileVars, data, dockVars, wiped>>

\* ServerHandler.Delete of the application API.
DeleteRow(s) ==
  /\ Known(s)
  /\ status' = [status EXCEPT ![s] = "absent"]
  /\ UNCHANGED <<entryVars, bootVars, job, fileVars, data, dockVars, wiped>>

\* Mutant: a status the Panel does not know.
StoreOther(s, ok, again) ==
  status' = [status EXCEPT ![s] = IF ok THEN "ok" ELSE "failed"]

\* InstallHandler.Store: the result of an installation replaces the status.
Store(s, ok, again) ==
  status' = IF ~Known(s) THEN status
            ELSE [status EXCEPT ![s] = IF ok THEN "ok"
                                       ELSE IF again THEN "reinstall_failed" ELSE "install_failed"]

-----------------------------------------------------------------------------
(* Creation and installation.                                               *)

\* postCreateServer: the configuration is fetched, the instance initialised and
\* added to the manager; the rest is a goroutine.  A uuid comes back only when
\* nothing works for its last instance any more.
Create(w, s) ==
  /\ inst[s] = "none" /\ Known(s)
  /\ \A v \in Workers : job[v].srv # s
  /\ \E t \in {"none", "start"} : Request("create", w, s, "env", t, TRUE)
  /\ inst' = [inst EXCEPT ![s] = "live"]
  /\ est' = [est EXCEPT ![s] = "offline"]
  /\ holder' = [holder EXCEPT ![s] = Nobody]
  /\ installing' = installing \ {s}
  /\ wiped' = wiped \ {s}
  /\ UNCHANGED <<status, bootVars, fileVars, data, dockVars>>

\* Install: the egg's script runs unless the server skips it.
Begin(w) ==
  \/ Advance(w, "script", FALSE)
  \/ Advance(w, "report", TRUE)

\* CreateEnvironment up to the inspection of the container.
CreateEnvironment(w) ==
  LET s == job[w].srv IN
  /\ At(w, "env")
  /\ \/ Faults /\ Goto(w, "idle") /\ UNCHANGED data
     \/ /\ data' = data \union {s}
        /\ \/ container[s] # "none" /\ Begin(w)
           \/ container[s] = "none" /\ Goto(w, "pull")
  /\ UNCHANGED <<status, entryVars, bootVars, fileVars, dockVars, wiped>>

\* Environment.Create after the image has been pulled.  It runs under no
\* context: a deletion does not stop it.
CreateContainer(w) ==
  LET s == job[w].srv IN
  /\ At(w, "pull")
  /\ \/ (Faults \/ container[s] # "none") /\ Goto(w, "idle") /\ UNCHANGED container
     \/ /\ container[s] = "none"
        /\ container' = [container EXCEPT ![s] = "created"]
        /\ Begin(w)
  /\ UNCHANGED <<status, entryVars, bootVars, fileVars, data, installer, waits, cut, wiped>>

PostInstall(w, s)   == Hit("install", w, s, "fetch", "none")
PostReinstall(w, s) ==
  /\ holder[s] = Nobody  \* ExecutingPowerAction
  /\ Hit("reinstall", w, s, "halt", "again")

\* Reinstall: WaitForStop ends the process, or fails.
Halt(w) ==
  LET s == job[w].srv IN
  /\ At(w, "halt")
  /\ \/ est[s] = "offline" /\ Goto(w, "fetch") /\ UNCHANGED <<est, container>>
     \/ /\ est[s] # "offline" /\ Succeeds(w) /\ Goto(w, "fetch")
        /\ est' = [est EXCEPT ![s] = "offline"]
        /\ container' = [container EXCEPT ![s] = IF @ = "running" THEN "created" ELSE @]
     \/ est[s] # "offline" /\ Fails(w) /\ Goto(w, "idle") /\ UNCHANGED <<est, container>>
  /\ UNCHANGED <<status, inst, holder, installing, bootVars,
                 fileVars, data, installer, waits, cut, wiped>>

\* The sync before an installation that was asked for.
Fetch(w) ==
  LET s == job[w].srv IN
  /\ At(w, "fetch")
  /\ \/ Succeeds(w) /\ Known(s) /\ Begin(w)
     \/ (Fails(w) \/ ~Known(s)) /\ Goto(w, "idle")
  /\ UNCHANGED <<status, inst, est, holder, installing, bootVars, fileVars, data,
                 dockVars, wiped>>

\* GetInstallationScript.
Script(w) ==
  /\ At(w, "script")
  /\ \/ Succeeds(w) /\ Known(job[w].srv) /\ Goto(w, "claim")
     \/ (Fails(w) \/ ~Known(job[w].srv)) /\ Goto(w, "report")
  /\ UNCHANGED <<status, entryVars, bootVars, fileVars, data, dockVars, wiped>>

\* Mutant: the lock is taken without looking whether it is free.
ClaimUnchecked(w) ==
  LET s == job[w].srv IN
  /\ At(w, "claim") /\ Goto(w, "before") /\ installing' = installing \union {s}
  /\ UNCHANGED <<status, inst, est, holder, bootVars, fileVars, data, dockVars, wiped>>

\* InstallationProcess.Run takes the installation lock of the server.
Claim(w) ==
  LET s == job[w].srv IN
  /\ At(w, "claim")
  /\ \/ s \in installing /\ Goto(w, "report") /\ UNCHANGED installing
     \/ s \notin installing /\ Goto(w, "before") /\ installing' = installing \union {s}
  /\ UNCHANGED <<status, inst, est, holder, bootVars, fileVars, data,
                 dockVars, wiped>>

\* BeforeExecute: script and image are fetched, an old container is removed.
BeforeExecute(w) ==
  LET s == job[w].srv IN
  /\ At(w, "before")
  /\ \/ Goto(w, "exec") /\ RemoveContainer(w, s) /\ UNCHANGED installing
     \/ /\ Fails(w) /\ Goto(w, "report") /\ installing' = installing \ {s}
        /\ UNCHANGED <<installer, waits, cut>>
  /\ UNCHANGED <<status, inst, est, holder, bootVars, fileVars, data,
                 container, wiped>>

\* The deferred end of Run when Execute has failed.
GiveUp(w, s) ==
  /\ TryRemoveContainer(w, s)
  /\ Goto(w, "report") /\ installing' = installing \ {s}

\* Execute up to the creation of the container.  The directory is made before
\* the context matters.
Execute(w) ==
  LET s == job[w].srv IN
  /\ At(w, "exec")
  /\ \/ Faults /\ GiveUp(w, s) /\ UNCHANGED data
     \/ /\ data' = data \union {s}
        /\ \/ /\ Succeeds(w) /\ installer[s] = "none"
              /\ installer' = [installer EXCEPT ![s] = "stopped"]
              /\ Goto(w, "launch") /\ UNCHANGED <<installing, waits, cut>>
           \/ (Fails(w) \/ installer[s] # "none") /\ GiveUp(w, s)
  /\ UNCHANGED <<status, inst, est, holder, bootVars, fileVars, container, wiped>>

\* ContainerStart.
Launch(w) ==
  LET s == job[w].srv IN
  /\ At(w, "launch")
  /\ \/ /\ Succeeds(w) /\ installer[s] = "stopped"
        /\ installer' = [installer EXCEPT ![s] = "running"]
        /\ waits' = [waits EXCEPT ![s] = w]
        /\ Goto(w, "wait") /\ UNCHANGED <<installing, cut>>
     \/ (Fails(w) \/ installer[s] # "stopped") /\ GiveUp(w, s)
  /\ UNCHANGED <<status, inst, est, holder, bootVars, fileVars, data, container, wiped>>

\* ContainerWait: the container has stopped, for whatever reason and with
\* whatever exit code; or the call fails and the container is removed.
Wait(w) ==
  LET s == job[w].srv IN
  /\ At(w, "wait")
  /\ \/ /\ Succeeds(w) /\ ~(installer[s] = "running" /\ waits[s] = w)
        /\ Goto(w, "after")
        /\ UNCHANGED <<installing, installer, waits, cut>>
     \/ Fails(w) /\ GiveUp(w, s)
  /\ UNCHANGED <<status, inst, est, holder, bootVars, fileVars, data,
                 container, wiped>>

\* AfterExecute: the log is kept, the container removed; errors are only logged.
AfterExecute(w) ==
  LET s == job[w].srv IN
  /\ At(w, "after")
  /\ TryRemoveContainer(w, s)
  /\ installing' = installing \ {s}
  /\ Advance(w, "report", TRUE)
  /\ UNCHANGED <<status, inst, est, holder, bootVars, fileVars, data,
                 container, wiped>>

\* SyncInstallState: a failure is only logged.
Report(w) ==
  /\ At(w, "report")
  /\ Goto(w, "mark") /\ cut' = cut \ {w}
  /\ \/ Succeeds(w) /\ Store(job[w].srv, job[w].good, job[w].then = "again")
     \/ Fails(w) /\ UNCHANGED status
  /\ UNCHANGED <<entryVars, bootVars, fileVars, data, container, installer, waits, wiped>>

\* The end of install, and of the goroutine that called it.
Mark(w) ==
  /\ At(w, "mark")
  /\ est' = [est EXCEPT ![job[w].srv] = "offline"]
  /\ Goto(w, IF job[w].good /\ job[w].then = "start" THEN "acquire" ELSE "idle")
  /\ UNCHANGED <<status, inst, holder, installing, bootVars, fileVars,
                 data, dockVars, wiped>>

-----------------------------------------------------------------------------
(* Starting a server: by a request, after an installation, or at boot.      *)

PostStart(w, s) == Hit("start", w, s, "acquire", "none")

\* HandlePowerAction up to the check of the state.  On a destroyed lock it
\* panics (see Panic); with a time to wait it may still see its context end.
Acquire(w) ==
  LET s == job[w].srv IN
  /\ At(w, "acquire")
  /\ \/ /\ Succeeds(w) /\ s \notin installing /\ holder[s] = Nobody /\ est[s] = "offline"
        /\ holder' = [holder EXCEPT ![s] = w]
        /\ Goto(w, "sync")
     \/ /\ \/ s \in installing
           \/ job[w].live /\ (holder[s] # Nobody \/ est[s] # "offline")
           \/ ~job[w].live /\ job[w].then = "start"
        /\ Goto(w, "idle") /\ UNCHANGED holder
  /\ UNCHANGED <<status, inst, est, installing, bootVars, fileVars, data,
                 dockVars, wiped>>

Release(w) == holder' = [holder EXCEPT ![job[w].srv] = IF @ = w THEN Nobody ELSE @]

\* onBeforeStart and the inspection that opens Environment.Start.
Sync(w) ==
  LET s == job[w].srv IN
  /\ At(w, "sync")
  /\ \/ /\ Succeeds(w) /\ Known(s)
        /\ \/ status[s] = "suspended" /\ Goto(w, "idle") /\ Release(w) /\ UNCHANGED est
           \/ /\ status[s] # "suspended"
              /\ est' = [est EXCEPT ![s] = "online"]
              /\ IF container[s] = "running" THEN Goto(w, "idle") /\ Release(w)
                 ELSE Goto(w, "remove") /\ UNCHANGED holder
     \/ /\ Fails(w) \/ ~Known(s)
        /\ Goto(w, "idle") /\ Release(w) /\ UNCHANGED est
  /\ UNCHANGED <<status, inst, installing, bootVars, fileVars, data, dockVars, wiped>>

\* OnBeforeStart removes the container unless it runs.
Remove(w) ==
  LET s == job[w].srv IN
  /\ At(w, "remove")
  /\ \/ /\ Succeeds(w) /\ container[s] # "running"
        /\ container' = [container EXCEPT ![s] = "none"] /\ Goto(w, "create")
     \/ (Fails(w) \/ container[s] = "running") /\ Goto(w, "fail") /\ UNCHANGED container
  /\ UNCHANGED <<status, entryVars, bootVars, fileVars, data, installer, waits, cut, wiped>>

\* Environment.Create, under no context.
Recreate(w) ==
  LET s == job[w].srv IN
  /\ At(w, "create")
  /\ \/ /\ container' = [container EXCEPT ![s] = IF @ = "none" THEN "created" ELSE @]
        /\ Goto(w, "run")
     \/ Faults /\ Goto(w, "fail") /\ UNCHANGED container
  /\ UNCHANGED <<status, entryVars, bootVars, fileVars, data, installer, waits, cut, wiped>>

\* Mutant: the container is started under no context.
RunDetached(w) ==
  LET s == job[w].srv IN
  /\ At(w, "run")
  /\ \/ /\ container[s] # "none"
        /\ container' = [container EXCEPT ![s] = "running"]
        /\ Goto(w, "idle") /\ Release(w)
     \/ (Faults \/ container[s] = "none") /\ Goto(w, "fail") /\ UNCHANGED <<container, holder>>
  /\ UNCHANGED <<status, inst, est, installing, bootVars, fileVars, data, installer, waits, cut, wiped>>

\* Attach and ContainerStart, under the server's context.
Run(w) ==
  LET s == job[w].srv IN
  /\ At(w, "run")
  /\ \/ /\ Succeeds(w) /\ container[s] # "none"
        /\ container' = [container EXCEPT ![s] = "running"]
        /\ Goto(w, "idle") /\ Release(w)
     \/ (Fails(w) \/ container[s] = "none") /\ Goto(w, "fail") /\ UNCHANGED <<container, holder>>
  /\ UNCHANGED <<status, inst, est, installing, bootVars, fileVars, data,
                 installer, waits, cut, wiped>>

\* The deferred function of Environment.Start.
Unwind(w) ==
  /\ At(w, "fail")
  /\ est' = [est EXCEPT ![job[w].srv] = "offline"]
  /\ Goto(w, "idle") /\ Release(w)
  /\ UNCHANGED <<status, inst, installing, bootVars, fileVars, data,
                 dockVars, wiped>>

-----------------------------------------------------------------------------
(* Deleting a server.                                                       *)

PostDelete(w, s) == Hit("delete", w, s, "cancel", "none")

\* deleteServer up to the removal of the backups: suspension, and
\* CleanupForDestroy, which cancels the context and destroys the lock.  A
\* second destruction of the lock panics, which ends the request with the lock's
\* mutex held.
Cancel(w) ==
  LET s == job[w].srv IN
  /\ At(w, "cancel")
  /\ inst' = [inst EXCEPT ![s] = IF @ = "none" THEN @ ELSE "gone"]
  /\ holder' = [holder EXCEPT ![s] = IF inst[s] = "live" THEN Nobody ELSE Wedged]
  /\ job' = [v \in Workers |->
              IF v = w THEN IF inst[s] = "live" THEN [job[w] EXCEPT !.pc = "destroy", !.live = FALSE]
                                                ELSE NoJob
              ELSE IF job[v].srv = s THEN [job[v] EXCEPT !.live = FALSE] ELSE job[v]]
  /\ UNCHANGED <<status, est, installing, bootVars, fileVars, data, dockVars, wiped>>

\* Environment.Destroy and Manager.Remove.  A failure leaves the entry behind.
Destroy(w) ==
  LET s == job[w].srv IN
  /\ At(w, "destroy")
  /\ est' = [est EXCEPT ![s] = "offline"]
  /\ \/ /\ container' = [container EXCEPT ![s] = "none"]
        /\ inst' = [inst EXCEPT ![s] = "none"]
        /\ wiped' = wiped \union {s}
        /\ Goto(w, "files")
     \/ Faults /\ Goto(w, "idle") /\ UNCHANGED <<container, inst, wiped>>
  /\ UNCHANGED <<status, holder, installing, bootVars, fileVars, data,
                 installer, waits, cut>>

\* The goroutine that removes the server's files.
RemoveFiles(w) ==
  /\ At(w, "files")
  /\ data' = data \ {job[w].srv}
  /\ Goto(w, "idle")
  /\ UNCHANGED <<status, entryVars, bootVars, fileVars, dockVars, wiped>>

-----------------------------------------------------------------------------
(* The boot, the saved states and the end of the daemon.                    *)

\* NewManager: the servers the Panel lists and whose configuration can be used
\* are loaded, all of them offline; ReadStates keeps what the file says of them.
Load(loaded) ==
  /\ inst' = [s \in Servers |-> IF s \in loaded THEN "live" ELSE "none"]
  /\ wiped' = wiped \ loaded
  /\ pending' = loaded

ReadStates(loaded) ==
  read' = [s \in Servers |-> IF s \in loaded THEN file[s] ELSE "none"]

\* rootCmdRun up to the workers; GetServers, Docker or the database may fail,
\* which ends the daemon.
Boot ==
  /\ phase = "down" /\ boots < MaxBoots
  /\ boots' = boots + 1
  /\ \/ /\ phase' = "restoring"
        /\ \E loaded \in SUBSET {s \in Servers : Known(s)} :
             /\ Faults \/ loaded = {s \in Servers : Known(s)}
             /\ Load(loaded) /\ ReadStates(loaded)
     \/ Faults /\ UNCHANGED <<phase, inst, wiped, pending, read>>
  /\ revived' = {}
  /\ UNCHANGED <<status, est, holder, installing, owed, job, fileVars, data, dockVars>>

\* The boot worker of s is idle and has not looked at s yet.
Fresh(s) == phase = "restoring" /\ s \in pending /\ At(s, "idle") /\ s \notin revived

\* The directory cannot be made: the server stays offline, with its entry.
NoDirectory(s) ==
  /\ Fresh(s) /\ Faults /\ s \notin data
  /\ pending' = pending \ {s}
  /\ UNCHANGED <<status, entryVars, phase, boots, read, revived, owed, job, fileVars, data, dockVars, wiped>>

\* Mutant: a server Docker cannot be asked about is skipped.
RestoreUnlessUnknown(s) ==
  /\ Fresh(s)
  /\ data' = data \union {s}
  /\ \/ /\ container[s] # "running" /\ read[s] = "online"
        /\ revived' = revived \union {s}
        /\ job' = [job EXCEPT ![s] = [NoJob EXCEPT !.pc = "acquire", !.srv = s, !.live = TRUE]]
        /\ UNCHANGED <<est, pending>>
     \/ /\ container[s] = "running"
        /\ revived' = revived \union {s}
        /\ est' = [est EXCEPT ![s] = "online"]
        /\ UNCHANGED <<job, pending>>
     \/ /\ Faults \/ (container[s] # "running" /\ read[s] # "online")
        /\ pending' = pending \ {s}
        /\ UNCHANGED <<est, job, revived>>
  /\ UNCHANGED <<status, inst, holder, installing, phase, boots, read, owed, fileVars, dockVars, wiped>>

\* The worker looks for a running container (Docker may not answer) and starts
\* the server, attaches to it, or leaves it offline.
Restore(s) ==
  /\ Fresh(s)
  /\ data' = data \union {s}
  /\ \E running \in {container[s] = "running"} \union (IF Faults THEN {FALSE} ELSE {}) :
       \/ /\ ~running /\ read[s] = "online"
          /\ revived' = revived \union {s}
          /\ job' = [job EXCEPT ![s] = [NoJob EXCEPT !.pc = "acquire", !.srv = s, !.live = TRUE]]
          /\ UNCHANGED <<est, pending>>
       \/ /\ running
          /\ revived' = revived \union {s}
          /\ est' = [est EXCEPT ![s] = "online"]
          /\ UNCHANGED <<job, pending>>
       \/ /\ ~running /\ read[s] # "online"
          /\ pending' = pending \ {s}
          /\ UNCHANGED <<est, job, revived>>
  /\ UNCHANGED <<status, inst, holder, installing, phase, boots, read, owed,
                 fileVars, dockVars, wiped>>

\* A server that came back is synced once more; a failure is only logged.
Resync(s) ==
  /\ phase = "restoring" /\ s \in pending /\ s \in revived /\ At(s, "idle")
  /\ pending' = pending \ {s}
  /\ UNCHANGED <<status, entryVars, phase, boots, read, revived, owed, job,
                 fileVars, data, dockVars, wiped>>

\* All workers are done: crons, the SFTP server and the API start.
Serve ==
  /\ phase = "restoring" /\ pending = {}
  /\ phase' = "serving"
  /\ read' = Blank /\ revived' = {} /\ owed' = {}
  /\ UNCHANGED <<status, entryVars, boots, pending, job, fileVars, data, dockVars, wiped>>

\* PersistStates, by the ticker that runs from before the workers start: the
\* states of the manager's servers are collected and the file is truncated.
SaveBegins ==
  /\ phase # "down" /\ ~saving
  /\ saving' = TRUE
  /\ snap' = [s \in Servers |-> IF inst[s] = "none" THEN "none" ELSE est[s]]
  /\ file' = Blank
  /\ UNCHANGED <<status, entryVars, bootVars, job, data, dockVars, wiped>>

\* The write, which may fail.
SaveEnds ==
  /\ saving
  /\ \/ file' = snap
     \/ Faults /\ UNCHANGED file
  /\ saving' = FALSE /\ snap' = Blank
  /\ UNCHANGED <<status, entryVars, bootVars, job, data, dockVars, wiped>>

\* The daemon is gone with everything in its memory.
Down ==
  /\ phase' = "down"
  /\ inst' = Blank /\ est' = [s \in Servers |-> "offline"]
  /\ holder' = [s \in Servers |-> Nobody] /\ installing' = {}
  /\ pending' = {} /\ revived' = {} /\ read' = Blank
  /\ job' = [w \in Workers |-> NoJob]
  /\ saving' = FALSE /\ snap' = Blank
  /\ owed' = {s \in Servers : file[s] = "online"}
  /\ waits' = [s \in Servers |-> Nobody] /\ cut' = {}
  /\ UNCHANGED <<status, boots, file, data, wiped>>

\* The daemon is killed; the containers run on.
Crash == phase # "down" /\ Down /\ UNCHANGED <<container, installer>>

\* The machine goes down.
PowerCut ==
  /\ phase # "down" /\ Down
  /\ container' = [s \in Servers |-> IF container[s] = "running" THEN "created" ELSE container[s]]
  /\ installer' = [s \in Servers |-> IF installer[s] = "running" THEN "stopped" ELSE installer[s]]

\* A send on the closed channel of a destroyed lock, in a goroutine of its own.
Panic(w) ==
  /\ At(w, "acquire") /\ ~job[w].live /\ job[w].srv \notin installing /\ holder[job[w].srv] # Wedged
  /\ Down /\ UNCHANGED <<container, installer>>

-----------------------------------------------------------------------------
(* Docker (external).                                                       *)

\* The game process ends; the reader of its output, when one is attached, says so.
Exit(s) ==
  /\ container[s] = "running"
  /\ container' = [container EXCEPT ![s] = "created"]
  /\ est' = [est EXCEPT ![s] = IF phase = "down" THEN @ ELSE "offline"]
  /\ UNCHANGED <<status, inst, holder, installing, bootVars, job, fileVars, data,
                 installer, waits, cut, wiped>>

\* The installation script ends.
ScriptEnds(s) ==
  /\ installer[s] = "running"
  /\ installer' = [installer EXCEPT ![s] = "stopped"]
  /\ waits' = [waits EXCEPT ![s] = Nobody]
  /\ UNCHANGED <<status, entryVars, bootVars, job, fileVars, data, container, cut, wiped>>

-----------------------------------------------------------------------------
Asked(w, s) ==
  Create(w, s) \/ PostInstall(w, s) \/ PostReinstall(w, s) \/ PostStart(w, s) \/ PostDelete(w, s)

Installs(w) ==
  \/ CreateEnvironment(w) \/ CreateContainer(w) \/ Halt(w) \/ Fetch(w) \/ Script(w) \/ Claim(w)
  \/ BeforeExecute(w) \/ Execute(w) \/ Launch(w) \/ Wait(w) \/ AfterExecute(w) \/ Report(w) \/ Mark(w)

Starts(w) == Acquire(w) \/ Sync(w) \/ Remove(w) \/ Recreate(w) \/ Run(w) \/ Unwind(w)

Deletes(w) == Cancel(w) \/ Destroy(w) \/ RemoveFiles(w)

Work(w) == Installs(w) \/ Starts(w) \/ Deletes(w) \/ Panic(w)

Restores(s) == NoDirectory(s) \/ Restore(s) \/ Resync(s)

Panel(s) == CreateRow(s) \/ Suspend(s) \/ DeleteRow(s)

Docker(s) == Exit(s) \/ ScriptEnds(s)

Daemon == Boot \/ Serve \/ SaveBegins \/ SaveEnds \/ Crash \/ PowerCut

Next ==
  \/ \E w \in Jobs, s \in Servers : Asked(w, s)
  \/ \E w \in Workers : Work(w)
  \/ \E s \in Servers : Restores(s) \/ Panel(s) \/ Docker(s)
  \/ Daemon

Spec == Init /\ [][Next]_vars

-----------------------------------------------------------------------------
(* Properties.                                                              *)

TypeOK ==
  /\ status \in [Servers -> Statuses]
  /\ phase \in {"down", "restoring", "serving"} /\ boots \in 0..MaxBoots
  /\ inst \in [Servers -> {"none", "live", "gone"}]
  /\ est \in [Servers -> States]
  /\ holder \in [Servers -> Workers \union {Nobody, Wedged}]
  /\ installing \subseteq Servers
  /\ read \in Saved /\ file \in Saved /\ snap \in Saved /\ saving \in BOOLEAN
  /\ pending \subseteq Servers /\ revived \subseteq Servers /\ owed \subseteq Servers
  /\ job \in [Workers -> [pc : PCs, srv : Servers \union {Nobody}, live : BOOLEAN,
                           then : {"none", "start", "again"}, good : BOOLEAN]]
  /\ data \subseteq Servers
  /\ container \in [Servers -> {"none", "created", "running"}]
  /\ installer \in [Servers -> {"none", "running", "stopped"}]
  /\ waits \in [Servers -> Workers \union {Nobody}]
  /\ cut \subseteq Workers /\ wiped \subseteq Servers

\* A server that has been destroyed does not run again until it is created or
\* loaded again, although starts and installations of the deleted instance may
\* still be under way (deleteServer, Environment.Start).
DeletedNeverRuns == \A s \in wiped : container[s] # "running"

\* A boot whose workers are done has tried to start, or attached to,
\* every loaded server that the file recorded as online when the last daemon
\* went down, whatever the ticker has written since (rootCmdRun).
Recovered ==
  phase = "restoring" /\ pending = {}
    => \A s \in owed : inst[s] = "live" /\ s \in data => s \in revived

\* The Panel is not told that an installation has succeeded whose container was
\* removed while the script ran (InstallationProcess.Run).
NoCutInstallReported ==
  \A w \in Jobs : At(w, "report") /\ job[w].good => w \notin cut
=============================================================================

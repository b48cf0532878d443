# TLA+ models of pelican-go

pelican-go runs game servers. The **Panel** (`panel/`) is the web application that
knows users, nodes and servers. **Wings** (`wings/`) is the daemon on every node that
runs the servers in Docker containers, serves their files and consoles, and talks to
the Panel. This directory holds TLA+ specifications of the parts of Wings where
goroutines, containers, nodes and users meet, and of the Panel's side of it, the TLC models that check them on small
instances, and TLAPS proofs of the most important properties for every instance.

`PROJECT.json` is the index: components, runs, the mutants that each property must
detect, the source lines behind every definition, hazards, findings, theorems.

| module | what it models | run with | proofs |
|---|---|---|---|
| `SinkPool` | `system/sink_pool.go`, the fan-out under every event bus and console sink | `MCSinkPool` | `SharedStateProofs` |
| `OneBoot` | abstract: one booter, one process | – | – |
| `ServerPower` | power actions and lock, Docker environment, state changes, crash detection, console, reinstall | `MCServerPower` | `ServerPowerProofs` |
| `Sessions` | websocket and SFTP sessions, tokens and denials, suspension, deletion, daemon restarts | `MCSessions` | `SessionsProofs` |
| `Transfer` | moving a server between two nodes | `MCTransfer` | `TransferProofs` |
| `DiskQuota` | disk usage accounting under concurrent file requests | `MCDiskQuota` | `SharedStateProofs` |
| `Lifecycle` | boot of the daemon, manager and states file, creation, installation, deletion, crashes, the Panel's status | `MCLifecycle` | `LifecycleProofs` |
| `Backups` | backups to disk and to a bucket, their report to the Panel, deletions, restores | `MCBackups` | `BackupsProofs` |
| `Provision` | from the Panel's row to the container: configuration, sync, settings, variables, resources | `MCProvision` | `ProvisionProofs` |
| `Delivery` | the activity log and the two jobs that report it | `MCDelivery` | `DeliveryProofs` |

To check: `tlc -config ServerPower_crash.cfg MCServerPower`, and so on for every `.cfg`;
`tlapm SharedStateProofs.tla` and so on for the proofs.

## 1. Inventory of the system

Paths are relative to `src/wings/` unless they start with `panel/`.

**Event bus and sink pools** (`system/sink_pool.go`, `events/`). State: a slice of
channels under a read-write lock. `Push` starts one send goroutine per channel and
waits for them with the read lock held; a full channel loses its oldest message after
10 ms. Used by every other part to reach the websockets. Hard: closing a channel
somebody sends on; blocking for ever with the lock held. Correct when no send meets a
closed channel, a subscriber sees messages in order, and `Push` returns.

**Power actions and the power lock** (`server/power.go`, `system/locker.go`). State: a
one-place channel. `HandlePowerAction` takes it (kill goes on without it), then drives
the environment. Called by the HTTP API, the websocket handler, crash detection and the
boot of the daemon. Correct when one goroutine boots at a time, no container is
launched over a running process, the lock has one owner and is always given back, and
a kill always gets through.

**Docker environment** (`environment/docker/`). State: the environment's state string,
the attached stream, the container in Docker. Start, Stop, WaitForStop, Terminate,
Attach (a reader goroutine per attachment), SendCommand. Every call to Docker can fail;
the process can exit between any two steps.

**State changes and crash detection** (`server/server.go`, `server/crash.go`). Each
state change is an event handled in its own goroutine, which reads the state *again*,
stores it as the tracked one and may call the crash handler, which starts the server.
Correct when a server that was stopped on purpose stays down.

**Console output and disk limiter** (`server/listeners.go`). A line can mark the server
started, or, when it echoes the stop command, offline; exceeding the disk limit stops
the server outside the lock.

**Installation** (`server/install.go`, `server/installer/`). Creation makes an entry, an
environment and an installation goroutine; the script runs in a container of its own,
which a deletion or a second installation removes. The result is reported to the Panel.
Reinstall stops the server outside the lock. Correct when no success is reported for a
script that was cut short.

**Configuration sync** (`server/server.go` Sync, `server/update.go`, `environment/`,
`panel/internal/api/remote/servers.go`). The Panel builds a configuration from the
server's row; a sync fetches it, replaces the server's, sets the disk limit, the
environment's settings, image and variables one after the other, and ends the sessions of
a suspended server. Called by starts, API requests and restores, concurrently. Correct
when a container is what the row asks for and its limits are ones Docker accepts.

**Websocket sessions** (`router/router_server_ws.go`, `router/websocket/`,
`server/websockets.go`). State: a bag of connections with cancel functions, a token per
connection, listeners. One goroutine per message. Ended by suspension, deletion and
deauthorisation. Correct when no session outlives what ends it and revoked tokens do
nothing.

**Signed tokens** (`router/tokens/`). Denied tokens per user and per JTI, in memory; the
boot time stands in for denials of an earlier daemon. One-time tokens in a store.

**SFTP server** (`sftp/`). One context per user and server; ended like websockets.

**Transfers** (`router/router_server_transfer.go`, `router/router_transfer.go`,
`server/transfer/`). Two nodes, one multipart stream, checksums, two cancellations and
a verdict sent to the Panel by either node. Correct when a server the Panel takes for
transferred is complete on the target, and the source is usable after a failure.

**Filesystem and disk quota** (`server/filesystem/`, `internal/ufs/`). State: directory,
usage counter, limit, cached lookups. Requests check, change the disk and add to the
counter in separate steps. Correct when nothing gets lost between directory and counter
and overruns are bounded.

**Backups and restores** (`server/backup.go`, `server/backup/`,
`router/router_server_backup.go`, `panel/internal/api/remote/backups.go`). A goroutine per
backup archives files that change meanwhile, uploads parts (S3) with retries and reports
to the Panel; a restore stops and suspends the server, truncates, extracts and lifts the
suspension. Correct when what the Panel has recorded is what is stored, an archive stays
until somebody deletes it, and a restore leaves its flags as it found them.

**Server manager and boot** (`server/manager.go`, `cmd/root.go`). The list of servers, the
file of their last states, written by a ticker, and a pool of goroutines that restores the
servers at boot. Correct when a server that was online is started again.

**Deletion and deauthorisation** (`router/router_server.go`, `router/router_system.go`).
Destroys the power lock, cancels the context, removes container, entry and files while
starts and installations of the server are under way. Correct when nothing of the
deleted server runs afterwards.

**Remote downloads** (`router/downloader/`). Download slots, cancellation, redirects.

**Activity crons** (`server/activity.go`, `internal/cron/`). Rows in SQLite are sent in
batches to the Panel and deleted afterwards, by two jobs that the scheduler may fire while
they run. Correct when no event is lost, none is sent twice without a failure, and
none is left behind for ever.

**Panel client** (`remote/`). Requests with exponential retries, paging.

**Configuration file parser** (`parser/`). Rewrites properties, YAML, JSON, INI, XML.

**Sandboxed file access** (`internal/ufs/fs_unix.go`). `openat2` and path checks.

**Panel backend** (`panel/`). The API for Wings (`panel/internal/api/remote`), client and
application APIs, sessions, a job queue, a hub that forwards consoles. Its transfer
endpoints (`panel/internal/api/remote/transfers.go`) and some jobs are stubs.

**Installers** (`install.sh`, `kaneil-installer/`), **commands and diagnostics** (`cmd/`),
**daemon configuration** (`config/`): I/O and data.

## 2. The modules and the code

### SinkPool

Subscribers own one channel each (`On`, `Receive`, `Off`), pushers call `Push`, one
goroutine destroys the pool. `CallOn`, `CallOff` and `CallDestroy` are the request for
the write lock: as in Go, a waiting writer keeps new readers out. A send goroutine
(`send[p][c]`) selects, and after 10 ms reads the oldest message and sends again, as in
`Push`; the length check and the read are two steps, as in the code. Messages carry the
pusher and a number. Bound: `MaxPush` messages per pusher.

### ServerPower and OneBoot

Each goroutine that acts on the server is an actor with a program counter: `Users`
(`HandlePowerAction` from the API and the websocket), `Crashers` (`handleServerCrash`),
`Stoppers` (disk limiter, suspension), `Installers` (`Reinstall`). A step is one load,
one store or one Docker call. `MaxBusy` bounds how many users, stoppers and installers are
at work at once (`Room`); it bounds instances, nothing in the code does. `Handlers` are the goroutines of state-change events,
`reader` the goroutines of `Attach`. The sections of the module follow the code: lock
(`Acquire`, `AcquireFails`, `Release`), `Boot` (`onBeforeStart` and `Environment.Start`),
`WaitForStop` and `Stop`, `Terminate`, the container and its readers, the console, the
disk limiter, the handlers, the crash handler, the reinstall. Docker and the game's
process are external: a container is absent, created, running, or has exited cleanly or
not; with `Faults` any Docker or Panel call may fail.

Abstractions: `SetState` (store and publish) is one step, and waits for a free handler
slot, so `Handlers` bounds the events in flight (with none, events are not followed);
the goroutine `Attach` starts begins with it; at most `MaxReaders` readers are alive; a
console line is looked at while its reader is; there is one console goroutine; a crash
found while all `Crashers` are busy is dropped; the transferring and restoring flags are
false; the stops without termination of a restore and of a transfer are not actions;
dropped events of the sink pool are not composed with this module.

`OneBoot` is the promise: at most one goroutine boots, only it brings the process up,
and only when none is up. `ServerPower` implements it with `booter` as the set of actors
whose program counter is in a boot and `up` as "the container runs"
(`ImplementsOneBoot`).

### Sessions

A websocket connection is counted, tracked (`Push`), checked against the suspension
(`Enter`) and read in a loop; each message is a goroutine (`work`) that walks through
`HandleInbound`: suspension, throttle, token, suspension again, then authentication in
four steps (parse, look for an earlier token, store, register listeners) or a permitted
action. `sftp` are SFTP channels, whose credentials are checked before they take their
user's context. `Fetch`, `Apply` and `Finish` are `Server.Sync`; `BeginRestore` and
`EndRestore` the suspension of `RestoreBackup`; `Deauthorize`, `DenyForServer` and
`DenyJTI` the endpoints of the Panel; `DeleteSuspends`, `CtxCancel` and `DeleteCancels`
`deleteServer`, which can fail and be tried again; `Restart` a restart of the daemon.

Time is in whole seconds, the unit of a token's issue time. A denial and the boot are
instants inside a second, so a token of the same second counts as older, as
`IssuedAt.Before` has it. `lastDenial` is a history variable: the latest denial by any
daemon.

Abstractions: one server and tokens for it (the comparison of server UUIDs is left out);
clocks of Panel and node agree; `DenyJTI` and `DenyForServer` share one entry per user;
permissions are "connect" and "control", wildcards are left out; requests for logs and
statistics change nothing; rate limits are a choice; a listener that cannot write closes
the connection (`Leave`); a listener that ends can always leave the pools (`ListenerEnds`:
`Off` waits for the pool's write lock, `router/websocket/listeners.go:156-158`, and does not
get it once a `Push` blocks as `SinkPool!PushReturns` shows; `DeletedEnds` assumes that none
does); the two cancellations of `postDeauthorizeUser` are one step;
the suspension the Panel answers with is a choice.

### Transfer

An attempt is one request of the Panel with its push on the source (`spc`), its writer
goroutine (`stream`) and its handler on the target (`tpc`). Parts are numbered: archive,
checksum, then each backup with its checksum; `sent` and `recvd` count them and `bad`
names those that arrived damaged. Either side can be cancelled. Faults (disk, network,
Panel calls that fail or whose answer is lost) are bounded by `MaxFaults`.

Abstractions: the Panel is external (the repository's own Panel has stubs for these
endpoints): it asks for a transfer when it knows of none pending, and keeps the first
verdict on a pending one; the manager's entry and the incoming transfer's are added in
one step; the part with installation logs is left out, so that errors there, which are only
logged, can end the writer with a broken body (`WriteEnds`).

### DiskQuota

Each request kind (write, copy, compress, decompress, delete, rename, wipe, SFTP upload)
is a worker that goes through the steps of its code between which others can act: stat,
check, change on disk, and the two halves of `Quota.Add`. The server's own process
writes files. A lookup takes the lock, visits the entries one by one, and replaces the
counter. `drift` and `undisturbed` are history variables that record whether something
happened that the code does not account for: the comment of `Accounted` lists these events.
After one of them the counter may be off by any amount and `Accounted` claims nothing, until a
lookup that nothing disturbs has replaced the counter. `Pending` is what a worker has done to the
directory and not to the counter yet, less the other way round; `Accounted` adds it up.

Abstractions: the directory is flat (deleting a directory deletes its files one after
the other); `CanFit` is one step; hard links, ownership and symbolic links are left out;
extracting an archive is several single files, without the check beforehand; an archive
that is given a name gets one that is free (`findCopySuffix` falls back to a timestamp after
fifty copies, `server/filesystem/filesystem.go:268-301`, which then need not be); a chunk of
a decompression cannot fail to be written; the counter, the time of the lookup and its
flag are stored in one step.

### Lifecycle

The servers of a daemon over its life. `Boot` loads the Panel's servers and reads the
states file; a worker per server (`NoDirectory`, `Restore`, `Resync`) starts it, attaches
to it or marks it offline; `Serve` opens the API. `SaveBegins` truncates the states file
and `SaveEnds` writes it, so a crash between them leaves none. A job is the goroutine of
a request: `Create` and its environment and image, the installation (`Halt`, `Fetch`,
`Script`, `Claim`, `BeforeExecute`, `Execute`, `Launch`, `Wait`, `AfterExecute`, `Report`,
`Mark`), a start from `Acquire` to `Run` with `Unwind`, and the deletion (`Cancel`,
`Destroy`, `RemoveFiles`). A job belongs to one instance of its server: when the deletion
cancels the context, `job[w].live` turns false and calls that take the context fail, but
the goroutine goes on. `Crash` ends the daemon and leaves the containers, `PowerCut` ends
them too, `Panic` is a start on a destroyed lock. `Store` is the Panel's
`InstallHandler.Store`.

Abstractions: a state is online (starting or running) or offline; a start's steps between
lock and container are the ones a deletion can meet; the Panel's handler reads and saves
the row in one step; a second entry for a uuid (a repeated create) is not followed.
Bounds: `Jobs` requests at once, `MaxBoots` boots.

### Backups

`job[u]` is the goroutine of a backup: directory, archive file, `Header` and `Copy` per
file (a file that shrinks in between tears the tar stream), `CloseArchive`, then for S3
`GetUploadURLs` and one `UploadPart` per part with its retries, `Details` (checksum and
size), the report (`Attempt`, with the Panel's answer lost or not), and what the code
removes when one of them fails. Removal is `Unlink`, `ReadDir` and `Rmdir` in the three steps
of `LocalBackup.Remove`. A restore (`res[r]`) truncates, locates the archive, suspends and
stops the server, extracts file by file, reports, and clears its flags; `stray` is a history
variable, the files that others have written since the restore did. `row` is the
Panel's row, whose status the report sets.

Abstractions: a file's content is a version, an archive the versions it holds, a checksum
the archive itself; a file is read in one step after its header; compression levels,
the ignore file and the progress events are left out; nobody asks for the restore of a
backup whose goroutine is still at work, which neither `postServerRestoreBackup` nor the Panel
prevents; the end of the tar and gzip streams that the deferred `Close` calls write into an
archive that failed (`server/filesystem/archive.go:146-150`) is left out, so that such an
archive, which is removed or never recorded, is unreadable in the model. Bounds: `Casts` names the sets of
backups and restores that meet in one behaviour, `MaxAttempts` the attempts of a request,
`MaxWrites` the writes of the game.

### Provision

From the row to the container. `Answers(row)` are the configurations `buildServerConfig`
may return (Go's maps are iterated in any order, so the order of substitution and the
default among several allocations are choices); a start or a request then goes through
`Server.Sync` (`Fetch`, `Apply`) and `SyncWithEnvironment`, each value read under one lock
and set under another (`ReadDisk`/`SetDiskLimit`, `ReadSettings`/`SetSettings`,
`ReadImage`/`SetImage`, `ReadEnv`/`SetEnv`), and a running container is updated in place.
`Create` is the container made from settings, image and variables; `Install` the
resources of the installer. Commands are sequences of literals and placeholders, and
`ParseInvocation` substitutes as `parseInvocation` does, protected segments included.
`AsContainerResources`, `BoundedMemoryLimit` and `ConvertedSwap` are the arithmetic of
`settings.go`, with a mebibyte of `MiB` bytes.

Abstractions: an address is public, the loopback or another name; `Create` reads settings,
image and variables at one instant; `EnvironmentVariables` reads one configuration, where the
code calls `Config()` for each variable (`server/server.go:219-224`) and a sync
in between could mix two; a value that refers to another variable is written `${x}`, since
`parseInvocation` converts `{{x}}` only once, before it substitutes, and one that the daemon
brings in stays as it is; memory is not negative, which the Panel does not check
(`panel/internal/api/application/servers.go:64`): a negative limit would put the reservation
above it; limits beyond memory, swap, CPU and disk are passed on as they are. Bounds: `Rows`, `MaxEdits`
edits, `Requests` syncs besides the start.

### Delivery

`SaveActivity` stores an event or gives up. Each job (`activity`, `sftp`) has a flag and the
runs that the scheduler fires (`Fire`); `Find` and `Purge` are the query and the first
deletion of `activityCron.Run`, `FetchRecords` one page of `sftpCron.Run` with what `Push`
takes of it, `Send` the request with its retries, `Delete` one statement of the chunked
deletion. What is sent are the groups of the rows in `ids`; the merged files are data.
`Crash` ends the daemon; the table is a file and stays.

Abstractions: queries without an order (or with equal events) return any of the possible
sets; the time limit of a query and of the retries is a fault; the Panel's handler, which
accepts and drops what it gets, is external to the question and records it in `reported`.
Bounds: `Rows`, the set `Runs` of firings at once, `Max` and `Chunk`, `MaxFaults`.

## 3. What the runs check

All passing runs are exhaustive for their constants. Every action of the next-state
relations is taken in some passing run, and every property fails for a
mutant of the code's model (`PROJECT.json`, `mutants`).

| run | instance | shows |
|---|---|---|
| `pool_safety` | 2 pushers of 2 messages, one channel of capacity 2 and one unbuffered, Off and Destroy any time | `NoPanic`, `ReceivedInOrder` |
| `power_crash` | one user with all four actions, one crash handler, one event handler, faults, self-exits | `LockOwned`, `BootExclusive`, `NoLaunchOverRunning`, refinement of `OneBoot` |
| `power_reinstall` | a user's restarts and console commands, a reinstall, two readers, both other stop types, faults | `LockInv`, the invariant of the proofs |
| `power_ends` | two users with restarts and kills and a forced stop, two of the three at work at once, no faults | `ActionsEnd` under fair scheduling; `KillEndsProcess` when only the kill is scheduled fairly |
| `sessions_ended` | one connection, one message goroutine, one SFTP channel, one user, syncer and restorer, restarts | `SuspendedSettled`, `DeletedSettled`, `NoneRevoked`, `DeletedEnds` |
| `transfer_one` | one attempt with a backup, two faults, cancellations | `AcceptedIsHeld`, `FailureFreesSource`, `EndsOrSticks`, `HandlerEnds` |
| `quota_account` | two files, sizes up to 2, limits none and 1, two requests of any kind, a lookup | `Accounted`, `BoundedOverrun` |
| `lifecycle_boots` | one server, two requests at once of any kind, two boots, faults, crashes and power cuts | `DeletedNeverRuns`, `Recovered`, `NoCutInstallReported` |
| `backups_kept` | two local backups, or one backup of either kind with two restores; one file, two writes, faults, crashes | `RecordedMatches`, `KeptUntilDeleted`, `FlagsSettle`, `RestoredFaithfully` |
| `provision_fresh` | two rows, one edit of any kind, a start and a request, an installer, restarts | `Fresh`, `LimitsOrdered` |
| `provision_units` | the same | `LimitsInMebibytes` is violated |
| `delivery_reported` | four SFTP events in three groups and two others, one without an address; requests of two, deletions of one; the jobs fired at will, one fault | `NothingLost`, `ReportedOnce`, `Emptied` |

Why the bounds are enough for what they show: every hazard here is a race of two
goroutines, at most one of which is in its critical part, so two actors of the kinds
that meet are enough to reach it; the properties that are proved do not depend on the
bounds at all. Two messages of one pusher fill a channel of capacity 2 together with the
other pusher's. One fault decides a transfer and a second one hits its clean-up. In
`power_ends` a restart holds the lock while the other user's kill or restart fails to get it or
waits for it; a third goroutine at work adds no new contention, because the forced stop does
not take the lock. In
`sessions_ended` one second passes, so that tokens from before and after a boot and a
denial exist; no token that is otherwise accepted expires in this instance, but an expiry
only forbids steps, and the theorems cover any lifetime. In `quota_account` two requests at one file, or at two, meet in every order.
`transfer_one` has one attempt: what two attempts at the target do to each other is what the
refuted formulas below show, and `Alone` keeps it out of the properties.
In `lifecycle_boots` two requests are what it takes for a deletion to meet a start or an
installation, and two boots for a daemon to come back to a file another one wrote. In
`backups_kept` two backups share a directory that each may remove, and two restores share
the flags; two writes change a file between header and copy and again before a restore, and one
file is enough because `RestoredFaithfully` speaks of each file by itself.
In `provision_fresh` one edit separates an old configuration from the current one, and the
start and one request are the two syncs that overtake each other; memory limits fall
below, between and on the multipliers' thresholds. In `delivery_reported` the SFTP events
fill more than one page and more groups than a request takes, one group holds two events,
and deletions take several statements; one fault can hit any of them, and the theorems
do not depend on the number.

### Finding

| run | violated | what happens |
|---|---|---|
| `provision_units` | `LimitsInMebibytes` | The Panel sends memory and disk limits in bytes (`panel/internal/api/remote/servers.go:270`), the daemon takes them for mebibytes, as its comments say (`environment/settings.go:37`), and multiplies again: limits are 2^20 times too large. |

### Formulas that do not hold

The modules state formulas that comments suggest and TLC refutes within seconds. To see
a trace, take the constants below, the others as in the module's runs.

| formula | comment | constants |
|---|---|---|
| `SinkPool!PushReturns` (under `FairSpec`) | A subscriber empties its channel between `len(c)` and `<-c` and leaves: `Push` blocks for ever with the read lock held (`system/sink_pool.go:112-115`). | Pushers <- MCOnePusher, Chans {c1}, Cap <- MCOneCap, MaxPush 3 |
| `ServerPower!KilledStaysDown` | Terminate publishes stopping and offline; both handlers may read offline while running is tracked, and crash detection starts the killed server (`environment/docker/power.go:297`, `server/server.go:393`). | Users {u1}, Crashers {k1}, Handlers {h1, h2}, Actions {"start", "kill"}, StopTypes {"signal"}, no faults |
| `ServerPower!RunningIsAttached` | A restart finds the old stream set and does not attach; the old reader then forgets it. The container runs with nobody reading its output (`environment/docker/container.go:50`). | Users {u1}, MaxReaders 1, Actions {"start", "restart"}, StopTypes {"signal"}, no faults, no handlers |
| `ServerPower!NoCrashDetected` | `server/listeners.go:239-241`: the echo of the stop command sets offline, not stopping, and so triggers the crash detection it means to avoid (246) | Users {u1}, Crashers {k1}, Handlers {h1}, Actions {"start"}, StopTypes {"command"} |
| `ServerPower!StoppedIsOffline` | `server/listeners.go:187-190`: the state is checked before the line is matched (170) and stored after it | Actions {"start", "kill"}, SelfExit TRUE |
| `ServerPower!TrackedIsCurrent` | `server/server.go:394`: two handlers load and store in opposite orders | Handlers {h1, h2}, Actions {"start", "kill"} |
| `ServerPower!SentWhenAttached` | `environment/docker/container.go:327`: the stream is forgotten after IsAttached; a nil dereference | Actions {"start", "stop"}, StopTypes {"command"}, SelfExit TRUE |
| `Transfer!FilesSurvive` | The handler of a failed attempt removes the files after a second attempt has brought them (`router/router_transfer.go:106`). | Attempts {a1, a2}, NBackups 0, MaxFaults 2, Cancels FALSE |
| `Transfer!FailureFreesSource` without `Alone` | The handler of an attempt that failed on the source reports its failure when the Panel waits for the next one; that one succeeds on the source, which keeps the server claimed (`router/router_transfer.go:111`). Found while proving it. | Attempts {a1, a2}, NBackups 0, MaxFaults 0 |
| `Transfer!CancelledIsNoSuccess` | `router/router_transfer.go:161`: a cancelled upload with archive and checksum read is reported as successful | Attempts {a1}, NBackups 1, MaxFaults 0, Cancels TRUE |
| `Transfer!TransferEnds` | `server/transfer/source.go:106`: the writer's error waits on an unbuffered channel that is read only after `client.Do` | as `transfer_one` |
| `DiskQuota!NeverBelowZero` | Two deletions pass the comparison of `Quota.Add` before either adds (`internal/ufs/fs_quota.go:70-78`). | Files {f1, f2}, MaxSize 1, Limits {0}, Workers {w1, w2}, Lookers {}, Kinds {"remove", "process"}, MaxOps 3 |
| `DiskQuota!SecondReadsCache` | `server/filesystem/disk_space.go:133-135`: the second caller walks the directory again | Lookers {l1, l2} |
| `Sessions!ListenersOnce` | `router/websocket/listeners.go:17-19`: two authentications at once (`websocket.go:316`) | Conns {c1}, Workers {w1, w2} |
| `Sessions!WithinCap` | `router/router_server_ws.go:31-33`: counted before tracked | Conns {c1, c2} |
| `Sessions!DeletedIsSuspended` | `router/router_server.go:228-230`: a sync (`server/server.go:304`) or the end of a restore lifts the suspension | as `sessions_ended` |

The newer modules show the following in their behaviours; the properties that are checked
are stated so as not to claim the opposite.

- **Lifecycle.** The states file is truncated and then written, so a crash in between, or
  a tick during a boot that crashes too, loses the record that a server was online
  (`server/manager.go:156`); that is why `Recovered` speaks of what the file held. `Mark` at
  the end of a reinstall sets offline although a start may have come in between
  (`server/install.go:73`). A deletion whose server is being installed or started may
  leave its directory or a created container behind. The install report lifts a
  suspension the Panel set meanwhile. Of two installations at once the second reports a
  failure while the first goes on and succeeds. A start that finds the lock destroyed ends the
  daemon (`system/locker.go:81`).
- **Backups.** A report that the Panel has recorded but whose answer is lost makes Wings
  remove the archive (`server/backup.go:94`); an upload of no parts succeeds with nothing
  in the bucket; a successful backup may be torn, when a file shrinks while it is copied;
  a failed one may leave its file; the restoring flag is cleared by the first of two
  overlapping restores; an attempt whose body was read cannot be repeated after an error
  of the Panel; a start that has passed the check runs during a restore; after a crash a
  row stays pending.
- **Provision.** A sync with an older configuration can overtake a newer one, which is
  what `clean` rules out in `Fresh`; settings, image and variables may be of different
  versions then, and the disk limit older than the configuration. The Panel substitutes
  variables in protected segments too, where the daemon would not; `STARTUP` may hold
  another address than `SERVER_IP`. A server without memory limit and with swap gets a swap
  limit. A row without allocations has no default mapping, and the daemon panics on it
  (`server/server.go:219`).
- **Delivery.** Pages are read by offset, so that a row stored meanwhile shifts them and a
  row may be listed twice within a request; higher-ordered events that never stop arriving
  would starve the others (`Emptied` has finitely many events).

Met while modelling: an archive without a name is opened, without truncation, under the name
of the second, so that a second one of that second is written over the first and counted in
full again (`server/filesystem/compress.go:69`, `114`, `160`); `CompressFiles` removes an archive that does not fit with
`Quota.Remove`, which subtracts a size never added
(`server/filesystem/compress.go:155-157`); the usage counter starts at 0, though
`fs_quota.go:31` speaks of -1 for "not calculated"; a lookup that fails stores the size it got
so far (`disk_space.go:154`); an SFTP session whose credentials were checked before a
deauthorisation and that takes its context afterwards goes on (`sftp/server.go:167`); a
second request for a transfer of the same server meets the check before the first is
recorded (`router/router_server_transfer.go:39`).

## 4. Fairness

- `SinkPool`: every goroutine that can run does, the 10 ms timer fires, a subscriber in
  its loop receives. Nobody has to push, subscribe, leave or destroy.
- `ServerPower`, `ActionsEnd`: every goroutine runs (`Fairness`, a conjunct per actor whose
  subscript is the actor's own place, so that steps of others do not count as its own), and a
  process that got SIGKILL ends. A process does not end by itself, nobody has to request
  anything. Waiting for the lock has a timeout in the code, so weak fairness is enough.
- `ServerPower`, `KillEndsProcess`: only goroutines with a kill run, and a process that got
  SIGKILL ends (`KillFairness`). Everybody else may stop anywhere, the lock's owner included, so
  the property says that a kill depends on nobody: a kill that waited for the lock would
  violate it, and so does the mutant `KillWaits`. The run checks both properties under
  `KillSpec`; `ActionsEnd` has the stronger `Fairness` as its own hypothesis.
- `Sessions`: the goroutines of connections, of messages and of the deletion run.
  Clients, SFTP channels, syncs, restores and the Panel need not go on.
- `Transfer`: the goroutines of both nodes run; faults, requests and cancellations need
  not happen.

- `Delivery`: for each job, some run of it is fired or goes on: the scheduler's interval
  ends again and again, and a goroutine runs. Events need not happen; failures are finitely
  many (`MaxFaults`), which is the assumption that the Panel comes back.

This is Go's scheduler: a runnable goroutine is run eventually. Nothing else is assumed,
and no strong fairness is needed.

## 5. What is proved

For all values of the constants that satisfy the named assumptions. These say that
bounds are natural numbers, flags Boolean, the kinds of actors disjoint, and `None` not a
member of the sets it is added to. The ones that say more:

- `FilesAssumption`, `WorkersAssumption` and `LimitsAssumption` of `DiskQuota`: finitely many
  of each, at least one, and limits are natural or -1 (none is 0). A sum over all files or all
  workers, and the highest limit, exist only then.
- `RowsAssumption` of `Delivery`: finitely many events (the groups of a request are
  counted). `NamesAssumption` of `Provision`: finitely many variables.
- `MultiplierAssumption` of `Provision`: no memory overhead is below 100 percent. The
  defaults of `config_docker.go` are 105 and more; an administrator can configure less, and
  Docker would then refuse the memory limit because the reservation exceeds it.
- `BoundsAssumption` of `Backups`: the game writes at least once, so that a file can have
  a version at all.

All 34 safety properties that passing runs check are theorems.
Each proof shows that an invariant is kept by every action; what it says beyond the
property is what the property needs of the rest of the state. TLC checked each of these
invariants on the module's run before the proof.

- **SharedStateProofs**, of `SinkPool`: `TypeCorrect`, and `PoolNeverPanics` from `PoolInv`. `NoPanic` alone
  is not inductive: it needs that a send goroutine's pusher holds the read lock and its
  channel is registered, and that a subscriber registers once. The lemmas on `ShiftLeft`
  say that taking a channel out of the slice leaves the others. `PushedInOrder` is an action
  property; its invariant `OrderInv` says that the messages of a pusher in a channel ascend,
  lie above what the subscriber has got and below what is still to be sent.
- **SharedStateProofs**, of `DiskQuota`: `QuotaTypes`, `QuotaAccounted`, `OverrunBounded`. The
  first needs `Fine`, what a request is at each of its places. `Accounted` compares two sums, over
  the files and over the workers; the module begins with what the proofs need of
  `SumFunctionOnSet` (a sum changes by what one member changes by, `SumChange`; members are taken
  out one by one, `SumRemove`; a sum of natural numbers dominates another one that maps into
  its members without meeting itself, `SumInject`), by induction over the subsets of a finite
  set. `QuotaInv` says, whenever the counter is not off, that no two requests are at one file, that
  `Knows` holds of each (the file it created is empty until it writes to it, the size it read is
  still the size, its handle leads to its file), and, of an undisturbed lookup, that what it
  has summed and what it has still to visit make up the directory (`Walk`). An `Effect` of a
  step on its worker's own files is what every action is reduced to, in a lemma each; that an
  effect keeps the invariant is proved once (`EffectQuiet`). The cap of `Quota.Add` at zero would
  break the account; that it is never reached is `NotCapped`, which compares the counter with
  the files that requests are about to subtract, one by one. `OverrunBounded` rests on a
  potential: the counter and all that requests which have passed the check may still add
  (`Claim`) stay within the bound, because a step either adds no more than it had claimed, or
  claims what the check has just found to fit, and the others claim at most a file each.
- **ServerPowerProofs**: `TypeCorrect`, `LockInvariant`, and from it `LockIsOwned`,
  `OneBooter`, `LaunchOverStopped`, and `Refinement` of `OneBoot`. The strengthening,
  `LockDiscipline`, says that whoever boots, and a restart that stops the server, owns
  the lock. Every action is shown to be one of a few kinds of steps (a move of one actor
  to a place it is allowed at, a begin, a launch, an exit, the lock's own steps), and
  the invariant and the refinement are proved once per kind.
- **SessionsProofs**: `TypeCorrect`, `SessionInvariant`, and from it `SuspensionSettles`,
  `DeletionSettles` and `DenialsHold`. `SuspendedSettled` needs `BagInv`, that every tracked
  or read connection is cancelled or in the bag, so that CancelAll reaches it;
  `NoneRevoked` needs `ClockInv`, that every denial is remembered or no later than the
  boot, and `WorkInv`, that a goroutine that has passed the checks has a connection and
  a token; `DeletedSettled` needs that a channel that is served belongs to a user.
- **TransferProofs**: `TransferTypeOK`, `Accepted`, `FailureFrees`. The last two are about
  behaviours in which one attempt has reached the target (`Alone`), with any number of
  attempts that failed before. `AcceptedIsHeld` needs `HeldInv`, which follows the server object
  and the files from the handler's start to its verdict (intact files while the first part
  is undamaged, no removal before the verdict is a failure), and `WonInv`, that the Panel's
  success comes from that handler. `FailureFreesSource` needs `HopeInv`, that an attempt
  which can still succeed is the one the Panel waits for and the only one at work on the
  source, and `ClaimInv`, that a claimed server nobody works on belongs to a success.
- **LifecycleProofs**: `LifecycleTypeOK`, `DeletedStaysDown`, `BootRecovers`,
  `CutNotReported`. `JobInv` and `EntryInv` say that a context which is not cancelled belongs to
  a live entry, so that after the cancellation of a deletion no call of a start succeeds.
  `LockInv` says that one goroutine per server is inside the installation lock, `WaitInv`
  that an installation container runs only for the goroutine that waits for it. `BootInv`
  says that what the boot read is what the file held at the end of the last daemon, although
  the file has been overwritten since, and that workers that are done have acted on it.
- **BackupsProofs**: `BackupsTypeOK`, `RecordsMatch`, `KeptStays`, `FlagsReset`,
  `RestoreFaithful`. `RowInv` says at every step of a backup which of file, object and row
  hold the archive made, in particular that a repeated report repeats the same one.
  `KeptInv` says that a local backup about to be reported is at its path unless its deletion
  was asked for: no other job's unlink or rmdir reaches it. `FlagInv` names, for each
  flag, a restore under way that will reset it. `TreeInv` describes, for each restore, the files
  that nobody else has written since it did: what it has still to extract is absent, the rest is
  the archive's. Every step is one of a restore while the others are `Bystander`s, which at
  most know of fewer files afterwards.
- **ProvisionProofs**: `ProvisionTypeOK`, `LimitsAccepted`, `MadeAsTheRowSays`,
  `FreshContainer`. `LimitInv` follows the limits from the row through configuration,
  settings and every value a sync has read to the container; the arithmetic is that of
  rounding `memory * multiplier / 100`. `CleanInv` is about a start that fetched the current row
  while nothing older was under way: from then on every sync, at whichever of its
  separate reads and stores it is, carries an answer to that row. `FreshContainer` adds
  that no placeholder is left in the command, for commands of any length, any variables and
  any order in which Go ranges over them. It assumes (`Shallow`) that values refer at most to
  variables whose values refer to none: Panel and daemon replace each variable once, so with
  a third level the outcome depends on that order, and a placeholder may remain.
- **DeliveryProofs**: `NoEventLost` and `OnceWithoutFailure` from one invariant, `IInv`.
  `NothingLost` needs `Safe`: what a run is about to delete has been accepted, and what it
  purges has no valid address. `ReportedOnce` needs, as long as nothing has failed, `Single` (one
  run of each job, and the flag is set while it runs), `Own` (a run holds rows of its own kind, in
  the table until it deletes them) and `Due` (a row that was reported and is still there is
  about to be deleted): two runs with the same row would be of the same kind, hence the
  same run. `DeliveryTypeOK` is from `LoadInv`: a run holds at most `Max` events or groups, also
  while it fills a request from several pages, which is a count of the groups `Push` adds.

`ReplaceAll` in `Provision` is a recursive function. The prover has no induction on
operators; the proofs take the set of indices up to which a fact holds, and the least index
outside it (`UpTo`), and the existence of the function comes the same way (`StepsExist`).

Only model-checked:

- liveness (`ActionsEnd`, `KillEndsProcess`, `DeletedEnds`, `EndsOrSticks`, `HandlerEnds`,
  `Emptied`), which the prover does not reach.

Two things came out of the attempts. `Check` was written as a `CASE` whose guards overlap
when a request does not fit, which leaves the outcome to the reader of the formula: TLC takes
the first one that holds, the prover none. It is now an `IF` around the `CASE`. And
`NeverBelowZero` of `DiskQuota`, which TLC refutes once the counter is off, does hold while it is
not: that is the lemma `UsageNat`.

## 6. Plan

The modules were written in the order sink pool, power, sessions, transfers, quota,
lifecycle, backups, provisioning, delivery: first what every other part uses, then what
loses servers or files, then what reports. The proofs came afterwards, in the same order
but for `DiskQuota`, which needed the sums first. What is left are abstract specifications
as `OneBoot` is for `ServerPower`: a register for `Backups` (a row's status with the archive it
stands for) and a reliable queue for `Delivery`.

## 7. Not modelled

- **Configuration file parser, sandboxed file access**: text in six formats, and system
  calls whose guarantees are the kernel's. Nothing runs concurrently with the parser.
- **Remote downloads, one-time tokens**: a map or a set under a mutex, and network I/O. The
  limit of three downloads is compared before a download is added to the map
  (`router/router_server_files.go:338`), so that concurrent requests can exceed it.
- **Panel**: users' sessions, the job queue, the console hub and the web application. The
  endpoints Wings calls are in the modules above.
- **Statistics and image pull progress**: they only publish events.
- **Daemon configuration, commands, diagnostics, installers**: data, and input and output.

-------------------------- MODULE LifecycleProofs --------------------------
(***************************************************************************)
(* Lifecycle, for every number of servers, goroutines and boots.            *)
(*                                                                         *)
(* JobInv and EntryInv tie every goroutine to the entry it works for: a     *)
(* context that is not cancelled belongs to a live entry.  With it a        *)
(* destroyed server cannot be started.  LockInv and WaitInv are about the   *)
(* installation lock: one goroutine is inside it, and the installation      *)
(* container runs only for the goroutine that waits for it.  BootInv        *)
(* follows the saved states from the file to the boot workers.              *)
(***************************************************************************)
EXTENDS Lifecycle, TLAPS

\* A goroutine, its entry and the phase of the daemon.
JobOk(w) ==
  /\ job[w].pc = "idle" => job[w] = NoJob
  /\ job[w].pc # "idle" => job[w].srv \in Servers
  /\ w \in Servers => job[w].pc \in {"idle"} \union StartPCs
  /\ w \in Jobs /\ phase # "serving" => job[w].pc = "idle"
  /\ phase = "down" => job[w].pc = "idle"
  /\ job[w].live => inst[job[w].srv] = "live"
  /\ job[w].pc = "destroy" => inst[job[w].srv] # "live"

JobInv == \A w \in Workers : JobOk(w)

EntryInv ==
  /\ phase = "restoring" => \A s \in pending : inst[s] = "live"
  /\ \A s \in wiped : inst[s] # "live" /\ container[s] # "running"

\* The places of a goroutine that holds the installation lock.
LockPCs == {"before", "exec", "launch", "wait", "after"}

LockInv ==
  \A w \in Workers : job[w].pc \in LockPCs =>
    /\ job[w].srv \in installing
    /\ \A v \in Workers \ {w} : job[v].pc \in LockPCs => job[v].srv # job[w].srv

\* Whoever an installation container runs for waits for it, and none was ever removed
\* under somebody who waited.
WaitInv ==
  /\ cut = {}
  /\ \A s \in Servers : waits[s] # Nobody =>
       /\ waits[s] \in Workers /\ job[waits[s]].pc = "wait" /\ job[waits[s]].srv = s
       /\ installer[s] = "running"

\* What the file said when the daemon went down is what the boot has read, and the
\* boot workers that are done have acted on it.
BootInv ==
  /\ phase = "down" => ~saving /\ \A s \in owed : file[s] = "online"
  /\ phase = "restoring" =>
       \A s \in owed : inst[s] = "live" =>
         /\ read[s] = "online"
         /\ s \notin pending /\ s \in data => s \in revived

IInv == TypeOK /\ JobInv /\ EntryInv /\ LockInv /\ WaitInv /\ BootInv

-----------------------------------------------------------------------------
(* Types.                                                                   *)

JobRec == [pc : PCs, srv : Servers \union {Nobody}, live : BOOLEAN,
           then : {"none", "start", "again"}, good : BOOLEAN]

JobsType == job \in [Workers -> JobRec]

EntryTypes ==
  /\ inst \in [Servers -> {"none", "live", "gone"}]
  /\ est \in [Servers -> States]
  /\ holder \in [Servers -> Workers \union {Nobody, Wedged}]
  /\ installing \subseteq Servers

BootTypes ==
  /\ phase \in {"down", "restoring", "serving"} /\ boots \in 0..MaxBoots
  /\ read \in Saved /\ pending \subseteq Servers /\ revived \subseteq Servers /\ owed \subseteq Servers

DockTypes ==
  /\ container \in [Servers -> {"none", "created", "running"}]
  /\ installer \in [Servers -> {"none", "running", "stopped"}]
  /\ waits \in [Servers -> Workers \union {Nobody}]
  /\ cut \subseteq Workers

DiskTypes ==
  /\ status \in [Servers -> Statuses]
  /\ file \in Saved /\ snap \in Saved /\ saving \in BOOLEAN
  /\ data \subseteq Servers /\ wiped \subseteq Servers

LEMMA TypesAre == TypeOK <=> JobsType /\ EntryTypes /\ BootTypes /\ DockTypes /\ DiskTypes
  BY DEF TypeOK, JobsType, JobRec, EntryTypes, BootTypes, DockTypes, DiskTypes

LEMMA NoJobIs == NoJob \in JobRec /\ NoJob.pc = "idle" /\ NoJob.live = FALSE /\ NoJob.srv = Nobody
  BY DEF NoJob, JobRec, PCs

\* The goroutine w goes to l, or ends; it keeps its server and its context.
Step(w, l) ==
  /\ JobsType'
  /\ \A v \in Workers \ {w} : job'[v] = job[v]
  /\ IF l = "idle" THEN job'[w] = NoJob
     ELSE job'[w].pc = l /\ job'[w].srv = job[w].srv /\ job'[w].live = job[w].live

LEMMA AdvanceIs ==
  ASSUME JobsType, NEW w \in Workers, NEW l \in PCs \ {"idle"}, NEW ok \in BOOLEAN, Advance(w, l, ok)
  PROVE  Step(w, l)
<1>1. job[w] \in JobRec
  BY DEF JobsType
<1> DEFINE x == [job[w] EXCEPT !.pc = l, !.good = ok]
<1>2. x \in JobRec /\ x.pc = l /\ x.srv = job[w].srv /\ x.live = job[w].live
  BY <1>1 DEF JobRec
<1>3. job' = [job EXCEPT ![w] = x]
  BY DEF Advance
<1> HIDE DEF x
<1>4. job'[w] = x
  BY <1>3 DEF JobsType
<1>5. \A v \in Workers \ {w} : job'[v] = job[v]
  BY <1>3 DEF JobsType
<1>6. JobsType'
  BY <1>2, <1>3 DEF JobsType
<1> QED BY <1>2, <1>4, <1>5, <1>6 DEF Step

LEMMA GotoIs ==
  ASSUME JobsType, NEW w \in Workers, NEW l \in PCs, Goto(w, l)
  PROVE  Step(w, l)
<1>1. CASE l = "idle"
  BY <1>1, NoJobIs DEF Goto, Step, JobsType
<1>2. CASE l # "idle"
  <2>1. job[w].good \in BOOLEAN
    BY DEF JobsType, JobRec
  <2> QED BY <1>2, <2>1, AdvanceIs DEF Goto
<1> QED BY <1>1, <1>2

LEMMA BeginIs ==
  ASSUME JobsType, NEW w \in Workers, Begin(w)
  PROVE  \E l \in {"script", "report"} : Step(w, l)
<1>1. {"script", "report"} \subseteq PCs \ {"idle"}
  BY DEF PCs
<1> QED BY <1>1, AdvanceIs DEF Begin

\* Where the steps of an installation, a start and a deletion lead.
LEMMA InstallGoes ==
  ASSUME JobsType, NEW w \in Workers
  PROVE  /\ CreateEnvironment(w) => job[w].pc = "env" /\ \E l \in {"idle", "pull", "script", "report"} : Step(w, l)
         /\ CreateContainer(w) => job[w].pc = "pull" /\ \E l \in {"idle", "script", "report"} : Step(w, l)
         /\ Halt(w) => job[w].pc = "halt" /\ \E l \in {"idle", "fetch"} : Step(w, l)
         /\ Fetch(w) => job[w].pc = "fetch" /\ \E l \in {"idle", "script", "report"} : Step(w, l)
         /\ Script(w) => job[w].pc = "script" /\ \E l \in {"claim", "report"} : Step(w, l)
         /\ AfterExecute(w) => job[w].pc = "after" /\ Step(w, "report")
         /\ Report(w) => job[w].pc = "report" /\ Step(w, "mark")
         /\ Mark(w) => job[w].pc = "mark" /\ \E l \in {"idle", "acquire"} : Step(w, l)
<1>0. {"idle", "pull", "script", "report", "fetch", "claim", "mark", "acquire"} \subseteq PCs
  BY DEF PCs, StartPCs
<1>1. CreateEnvironment(w) => job[w].pc = "env" /\ \E l \in {"idle", "pull", "script", "report"} : Step(w, l)
  BY <1>0, GotoIs, BeginIs DEF CreateEnvironment, At
<1>2. CreateContainer(w) => job[w].pc = "pull" /\ \E l \in {"idle", "script", "report"} : Step(w, l)
  BY <1>0, GotoIs, BeginIs DEF CreateContainer, At
<1>3. Halt(w) => job[w].pc = "halt" /\ \E l \in {"idle", "fetch"} : Step(w, l)
  BY <1>0, GotoIs DEF Halt, At
<1>4. Fetch(w) => job[w].pc = "fetch" /\ \E l \in {"idle", "script", "report"} : Step(w, l)
  BY <1>0, GotoIs, BeginIs DEF Fetch, At
<1>5. Script(w) => job[w].pc = "script" /\ \E l \in {"claim", "report"} : Step(w, l)
  BY <1>0, GotoIs DEF Script, At
<1>6. AfterExecute(w) => job[w].pc = "after" /\ Step(w, "report")
  <2>1. "report" \in PCs \ {"idle"}
    BY DEF PCs
  <2> QED BY <2>1, AdvanceIs DEF AfterExecute, At
<1>7. Report(w) => job[w].pc = "report" /\ Step(w, "mark")
  BY <1>0, GotoIs DEF Report, At
<1>8. Mark(w) => job[w].pc = "mark" /\ \E l \in {"idle", "acquire"} : Step(w, l)
  BY <1>0, GotoIs DEF Mark, At
<1> QED BY <1>1, <1>2, <1>3, <1>4, <1>5, <1>6, <1>7, <1>8

LEMMA StartGoes ==
  ASSUME JobsType, NEW w \in Workers, Starts(w)
  PROVE  job[w].pc \in StartPCs /\ \E l \in StartPCs \union {"idle"} : Step(w, l)
<1>0. StartPCs \union {"idle"} \subseteq PCs
  BY DEF PCs
<1>1. \E l \in StartPCs \union {"idle"} : Goto(w, l)
  BY DEF Starts, Acquire, Sync, Remove, Recreate, Run, Unwind, StartPCs
<1>2. job[w].pc \in StartPCs
  BY DEF Starts, Acquire, Sync, Remove, Recreate, Run, Unwind, StartPCs, At
<1> QED BY <1>0, <1>1, <1>2, GotoIs

LEMMA DeleteGoes ==
  ASSUME JobsType, NEW w \in Workers
  PROVE  /\ Destroy(w) => job[w].pc = "destroy" /\ \E l \in {"idle", "files"} : Step(w, l)
         /\ RemoveFiles(w) => job[w].pc = "files" /\ Step(w, "idle")
<1>0. {"idle", "files"} \subseteq PCs
  BY DEF PCs, DeletePCs
<1> QED BY <1>0, GotoIs DEF Destroy, RemoveFiles, At

\* The steps under the installation lock.
LEMMA LockGoes ==
  ASSUME JobsType, NEW w \in Workers
  PROVE  /\ Claim(w) => /\ job[w].pc = "claim"
                        /\ \/ Step(w, "report") /\ UNCHANGED installing
                           \/ /\ job[w].srv \notin installing /\ Step(w, "before")
                              /\ installing' = installing \union {job[w].srv}
         /\ BeforeExecute(w) => /\ job[w].pc = "before"
                                /\ \/ Step(w, "exec") /\ RemoveContainer(w, job[w].srv) /\ UNCHANGED installing
                                   \/ /\ Step(w, "report") /\ installing' = installing \ {job[w].srv}
                                      /\ UNCHANGED <<installer, waits, cut>>
         /\ GiveUp(w, job[w].srv) => /\ Step(w, "report") /\ installing' = installing \ {job[w].srv}
                                     /\ TryRemoveContainer(w, job[w].srv)
         /\ Goto(w, "launch") => Step(w, "launch")
         /\ Goto(w, "wait") => Step(w, "wait")
         /\ Goto(w, "after") => Step(w, "after")
<1>0. {"report", "before", "exec", "launch", "wait", "after"} \subseteq PCs
  BY DEF PCs
<1> QED BY <1>0, GotoIs DEF Claim, BeforeExecute, GiveUp, At

\* The types of everything but the goroutines.
RestTypes == EntryTypes /\ BootTypes /\ DockTypes /\ DiskTypes

LEMMA StatusTypes ==
  ASSUME TypeOK, NEW s \in Servers
  PROVE  /\ \A ok \in BOOLEAN, again \in BOOLEAN : Store(s, ok, again) => status' \in [Servers -> Statuses]
         /\ Panel(s) => status' \in [Servers -> Statuses]
<1>1. \A ok \in BOOLEAN, again \in BOOLEAN : Store(s, ok, again) => status' \in [Servers -> Statuses]
  BY DEF TypeOK, Store, Statuses
<1>2. Panel(s) => status' \in [Servers -> Statuses]
  BY DEF TypeOK, Panel, CreateRow, Suspend, DeleteRow, Statuses
<1> QED BY <1>1, <1>2

LEMMA RemoveTypes ==
  ASSUME TypeOK, NEW w \in Workers, NEW s \in Servers, RemoveContainer(w, s) \/ TryRemoveContainer(w, s),
         UNCHANGED container
  PROVE  DockTypes'
BY DEF TypeOK, DockTypes, RemoveContainer, TryRemoveContainer

LEMMA InstallTypes ==
  ASSUME TypeOK, NEW w \in Workers, Installs(w), job[w].srv \in Servers
  PROVE  RestTypes'
<1> DEFINE s == job[w].srv
<1>0. s \in Servers
  OBVIOUS
<1>b. job[w].good \in BOOLEAN
  BY DEF TypeOK
<1> USE DEF vars, entryVars, bootVars, fileVars, dockVars
<1>1. CASE CreateEnvironment(w)
  BY <1>0, <1>1 DEF CreateEnvironment, TypeOK, RestTypes, EntryTypes, BootTypes, DockTypes, DiskTypes
<1>2. CASE CreateContainer(w)
  BY <1>0, <1>2 DEF CreateContainer, TypeOK, RestTypes, EntryTypes, BootTypes, DockTypes, DiskTypes
<1>3. CASE Halt(w)
  BY <1>0, <1>3 DEF Halt, TypeOK, RestTypes, EntryTypes, BootTypes, DockTypes, DiskTypes, States
<1>4. CASE Fetch(w)
  BY <1>0, <1>4 DEF Fetch, TypeOK, RestTypes, EntryTypes, BootTypes, DockTypes, DiskTypes
<1>5. CASE Script(w)
  BY <1>0, <1>5 DEF Script, TypeOK, RestTypes, EntryTypes, BootTypes, DockTypes, DiskTypes
<1>6. CASE Claim(w)
  BY <1>0, <1>6 DEF Claim, TypeOK, RestTypes, EntryTypes, BootTypes, DockTypes, DiskTypes
<1>7. CASE BeforeExecute(w)
  <2>1. DockTypes'
    BY <1>0, <1>7, RemoveTypes DEF BeforeExecute, TypeOK, DockTypes
  <2> QED BY <1>0, <1>7, <2>1 DEF BeforeExecute, TypeOK, RestTypes, EntryTypes, BootTypes, DiskTypes
<1>8. CASE Execute(w)
  <2>1. DockTypes'
    BY <1>0, <1>8, RemoveTypes DEF Execute, GiveUp, TypeOK, DockTypes
  <2> QED BY <1>0, <1>8, <2>1 DEF Execute, GiveUp, TypeOK, RestTypes, EntryTypes, BootTypes, DiskTypes
<1>9. CASE Launch(w)
  <2>1. DockTypes'
    BY <1>0, <1>9, RemoveTypes DEF Launch, GiveUp, TypeOK, DockTypes
  <2> QED BY <1>0, <1>9, <2>1 DEF Launch, GiveUp, TypeOK, RestTypes, EntryTypes, BootTypes, DiskTypes
<1>10. CASE Wait(w)
  <2>1. DockTypes'
    BY <1>0, <1>10, RemoveTypes DEF Wait, GiveUp, TypeOK, DockTypes
  <2> QED BY <1>0, <1>10, <2>1 DEF Wait, GiveUp, TypeOK, RestTypes, EntryTypes, BootTypes, DiskTypes
<1>11. CASE AfterExecute(w)
  <2>1. DockTypes'
    BY <1>0, <1>11, RemoveTypes DEF AfterExecute, TypeOK, DockTypes
  <2> QED BY <1>0, <1>11, <2>1 DEF AfterExecute, TypeOK, RestTypes, EntryTypes, BootTypes, DiskTypes
<1>12. CASE Report(w)
  <2>1. status' \in [Servers -> Statuses]
    BY <1>0, <1>b, <1>12, StatusTypes DEF Report, TypeOK
  <2> QED BY <1>0, <1>12, <2>1 DEF Report, TypeOK, RestTypes, EntryTypes, BootTypes, DockTypes, DiskTypes
<1>13. CASE Mark(w)
  BY <1>0, <1>13 DEF Mark, TypeOK, RestTypes, EntryTypes, BootTypes, DockTypes, DiskTypes, States
<1> QED BY <1>1, <1>2, <1>3, <1>4, <1>5, <1>6, <1>7, <1>8, <1>9, <1>10, <1>11, <1>12, <1>13 DEF Installs

LEMMA StartTypes ==
  ASSUME TypeOK, NEW w \in Workers, Starts(w), job[w].srv \in Servers
  PROVE  RestTypes'
<1> DEFINE s == job[w].srv
<1>0. s \in Servers
  OBVIOUS
<1> USE DEF vars, entryVars, bootVars, fileVars, dockVars
<1>1. CASE Acquire(w)
  BY <1>0, <1>1 DEF Acquire, TypeOK, RestTypes, EntryTypes, BootTypes, DockTypes, DiskTypes
<1>2. CASE Sync(w)
  BY <1>0, <1>2 DEF Sync, Release, TypeOK, RestTypes, EntryTypes, BootTypes, DockTypes, DiskTypes, States
<1>3. CASE Remove(w)
  BY <1>0, <1>3 DEF Remove, TypeOK, RestTypes, EntryTypes, BootTypes, DockTypes, DiskTypes
<1>4. CASE Recreate(w)
  BY <1>0, <1>4 DEF Recreate, TypeOK, RestTypes, EntryTypes, BootTypes, DockTypes, DiskTypes
<1>5. CASE Run(w)
  BY <1>0, <1>5 DEF Run, Release, TypeOK, RestTypes, EntryTypes, BootTypes, DockTypes, DiskTypes
<1>6. CASE Unwind(w)
  BY <1>0, <1>6 DEF Unwind, Release, TypeOK, RestTypes, EntryTypes, BootTypes, DockTypes, DiskTypes, States
<1> QED BY <1>1, <1>2, <1>3, <1>4, <1>5, <1>6 DEF Starts

LEMMA DeleteTypes ==
  ASSUME TypeOK, NEW w \in Workers, Deletes(w), job[w].srv \in Servers
  PROVE  RestTypes'
<1> DEFINE s == job[w].srv
<1>0. s \in Servers
  OBVIOUS
<1> USE DEF vars, entryVars, bootVars, fileVars, dockVars
<1>1. CASE Cancel(w)
  BY <1>0, <1>1 DEF Cancel, TypeOK, RestTypes, EntryTypes, BootTypes, DockTypes, DiskTypes
<1>2. CASE Destroy(w)
  BY <1>0, <1>2 DEF Destroy, TypeOK, RestTypes, EntryTypes, BootTypes, DockTypes, DiskTypes, States
<1>3. CASE RemoveFiles(w)
  BY <1>0, <1>3 DEF RemoveFiles, TypeOK, RestTypes, EntryTypes, BootTypes, DockTypes, DiskTypes
<1> QED BY <1>1, <1>2, <1>3 DEF Deletes

LEMMA BlankIs == Blank \in Saved /\ \A s \in Servers : Blank[s] = "none"
  BY DEF Blank, Saved

LEMMA DownTypes ==
  ASSUME TypeOK, Down, DockTypes'
  PROVE  RestTypes'
<1>1. EntryTypes'
  BY DEF Down, EntryTypes, Blank, States
<1>2. BootTypes'
  BY BlankIs DEF Down, BootTypes, TypeOK
<1>3. DiskTypes'
  BY BlankIs DEF Down, DiskTypes, TypeOK
<1> QED BY <1>1, <1>2, <1>3 DEF RestTypes

LEMMA DaemonTypes ==
  ASSUME TypeOK, Daemon \/ \E w \in Workers : Panic(w)
  PROVE  RestTypes'
<1> USE DEF vars, entryVars, bootVars, fileVars, dockVars
<1>1. CASE Boot
  <2>1. boots' \in 0..MaxBoots
    BY <1>1, BootsAssumption DEF Boot, TypeOK
  <2>2. inst' \in [Servers -> {"none", "live", "gone"}] /\ wiped' \subseteq Servers /\ pending' \subseteq Servers
    BY <1>1 DEF Boot, Load, TypeOK
  <2>3. read' \in Saved
    BY <1>1 DEF Boot, ReadStates, TypeOK, Saved
  <2>4. phase' \in {"down", "restoring", "serving"}
    BY <1>1 DEF Boot, TypeOK
  <2> QED BY <1>1, <2>1, <2>2, <2>3, <2>4 DEF Boot, TypeOK, RestTypes, EntryTypes, BootTypes, DockTypes, DiskTypes
<1>2. CASE Serve
  BY <1>2, BlankIs DEF Serve, TypeOK, RestTypes, EntryTypes, BootTypes, DockTypes, DiskTypes
<1>3. CASE SaveBegins
  <2>1. snap' \in Saved /\ file' \in Saved
    BY <1>3, BlankIs DEF SaveBegins, TypeOK, Saved
  <2> QED BY <1>3, <2>1 DEF SaveBegins, TypeOK, RestTypes, EntryTypes, BootTypes, DockTypes, DiskTypes
<1>4. CASE SaveEnds
  BY <1>4, BlankIs DEF SaveEnds, TypeOK, RestTypes, EntryTypes, BootTypes, DockTypes, DiskTypes
<1>5. CASE Crash
  <2>1. DockTypes'
    BY <1>5 DEF Crash, Down, DockTypes, TypeOK
  <2> QED BY <1>5, <2>1, DownTypes DEF Crash
<1>6. CASE PowerCut
  <2>1. DockTypes'
    BY <1>6 DEF PowerCut, Down, DockTypes, TypeOK
  <2> QED BY <1>6, <2>1, DownTypes DEF PowerCut
<1>7. ASSUME NEW w \in Workers, Panic(w) PROVE RestTypes'
  <2>1. DockTypes'
    BY <1>7 DEF Panic, Down, DockTypes, TypeOK
  <2> QED BY <1>7, <2>1, DownTypes DEF Panic
<1> QED BY <1>1, <1>2, <1>3, <1>4, <1>5, <1>6, <1>7 DEF Daemon

LEMMA ServerTypes ==
  ASSUME TypeOK, NEW s \in Servers, Restores(s) \/ Panel(s) \/ Docker(s) \/ \E w \in Jobs : Asked(w, s)
  PROVE  RestTypes'
<1> USE DEF vars, entryVars, bootVars, fileVars, dockVars
<1>1. CASE NoDirectory(s)
  BY <1>1 DEF NoDirectory, TypeOK, RestTypes, EntryTypes, BootTypes, DockTypes, DiskTypes
<1>2. CASE Restore(s)
  BY <1>2 DEF Restore, TypeOK, RestTypes, EntryTypes, BootTypes, DockTypes, DiskTypes, States
<1>3. CASE Resync(s)
  BY <1>3 DEF Resync, TypeOK, RestTypes, EntryTypes, BootTypes, DockTypes, DiskTypes
<1>4. CASE Panel(s)
  <2>1. status' \in [Servers -> Statuses]
    BY <1>4, StatusTypes
  <2> QED BY <1>4, <2>1 DEF Panel, CreateRow, Suspend, DeleteRow, TypeOK, RestTypes, EntryTypes, BootTypes, DockTypes, DiskTypes
<1>5. CASE Exit(s)
  BY <1>5 DEF Exit, TypeOK, RestTypes, EntryTypes, BootTypes, DockTypes, DiskTypes, States
<1>6. CASE ScriptEnds(s)
  BY <1>6 DEF ScriptEnds, TypeOK, RestTypes, EntryTypes, BootTypes, DockTypes, DiskTypes
<1>7. ASSUME NEW w \in Jobs, Asked(w, s) PROVE RestTypes'
  <2>1. CASE Create(w, s)
    BY <1>7, <2>1 DEF Create, TypeOK, RestTypes, EntryTypes, BootTypes, DockTypes, DiskTypes, States
  <2>2. CASE PostInstall(w, s) \/ PostReinstall(w, s) \/ PostStart(w, s) \/ PostDelete(w, s)
    BY <1>7, <2>2 DEF PostInstall, PostReinstall, PostStart, PostDelete, Hit, TypeOK, RestTypes, EntryTypes,
                      BootTypes, DockTypes, DiskTypes
  <2> QED BY <1>7, <2>1, <2>2 DEF Asked
<1> QED BY <1>1, <1>2, <1>3, <1>4, <1>5, <1>6, <1>7 DEF Restores, Docker

-----------------------------------------------------------------------------
(* The goroutines.                                                          *)

LEMMA RequestIs ==
  ASSUME JobsType, NEW kind \in Requests, NEW w \in Workers, NEW s \in Servers, NEW l \in PCs,
         NEW t \in {"none", "start", "again"}, NEW lv \in BOOLEAN, Request(kind, w, s, l, t, lv)
  PROVE  /\ phase = "serving" /\ job[w].pc = "idle" /\ JobsType'
         /\ \A v \in Workers \ {w} : job'[v] = job[v]
         /\ job'[w].pc = l /\ job'[w].srv = s /\ job'[w].live = lv
<1> DEFINE x == [pc |-> l, srv |-> s, live |-> lv, then |-> t, good |-> FALSE]
<1>1. x \in JobRec /\ x.pc = l /\ x.srv = s /\ x.live = lv
  BY DEF JobRec
<1>2. job' = [job EXCEPT ![w] = x]
  BY DEF Request
<1>3. phase = "serving" /\ job[w].pc = "idle"
  BY DEF Request, At
<1> HIDE DEF x
<1>4. job'[w] = x /\ (\A v \in Workers \ {w} : job'[v] = job[v]) /\ JobsType'
  BY <1>1, <1>2 DEF JobsType
<1> QED BY <1>1, <1>3, <1>4

\* The goroutine of a request is bound to the entry it has found.
Posted(w, s) ==
  /\ phase = "serving" /\ job[w].pc = "idle" /\ JobsType'
  /\ \A v \in Workers \ {w} : job'[v] = job[v]
  /\ job'[w].pc \in {"env", "fetch", "halt", "acquire", "cancel"} /\ job'[w].srv = s
  /\ job'[w].live = (inst'[s] = "live")

LEMMA AskedGoes ==
  ASSUME TypeOK, NEW w \in Jobs, NEW s \in Servers, Asked(w, s)
  PROVE  Posted(w, s) /\ UNCHANGED phase
<1>0. w \in Workers /\ {"env", "fetch", "halt", "acquire", "cancel"} \subseteq PCs /\ JobsType
  BY TypesAre DEF Workers, PCs, StartPCs, DeletePCs
<1> USE DEF entryVars, bootVars
<1>1. CASE Create(w, s)
  <2>1. PICK t \in {"none", "start"} : Request("create", w, s, "env", t, TRUE)
    BY <1>1 DEF Create
  <2>2. inst'[s] = "live"
    BY <1>1 DEF Create, TypeOK
  <2>3. "env" \in PCs /\ t \in {"none", "start", "again"} /\ TRUE \in BOOLEAN
    BY <1>0
  <2>4. /\ phase = "serving" /\ job[w].pc = "idle" /\ JobsType'
        /\ \A v \in Workers \ {w} : job'[v] = job[v]
        /\ job'[w].pc = "env" /\ job'[w].srv = s /\ job'[w].live = TRUE
    <3> DEFINE x == [pc |-> "env", srv |-> s, live |-> TRUE, then |-> t, good |-> FALSE]
    <3>1. x \in JobRec /\ x.pc = "env" /\ x.srv = s /\ x.live = TRUE
      BY <2>3 DEF JobRec
    <3>2. job' = [job EXCEPT ![w] = x] /\ phase = "serving" /\ job[w].pc = "idle"
      BY <2>1 DEF Request, At
    <3> HIDE DEF x
    <3> QED BY <1>0, <3>1, <3>2 DEF JobsType
  <2> QED BY <1>1, <2>2, <2>4 DEF Posted, Create
<1>2. CASE \E k \in Requests, l \in {"fetch", "halt", "acquire", "cancel"}, t \in {"none", "again"} :
             Hit(k, w, s, l, t)
  <2>1. PICK k \in Requests, l \in {"fetch", "halt", "acquire", "cancel"}, t \in {"none", "again"} :
             Hit(k, w, s, l, t)
    BY <1>2
  <2>2. Request(k, w, s, l, t, inst[s] = "live") /\ inst' = inst /\ phase' = phase
    BY <2>1 DEF Hit
  <2> DEFINE lv == inst[s] = "live"
  <2>3. lv \in BOOLEAN /\ lv = (inst'[s] = "live") /\ Request(k, w, s, l, t, lv)
    BY <2>2
  <2> HIDE DEF lv
  <2>4. /\ phase = "serving" /\ job[w].pc = "idle" /\ JobsType'
        /\ \A v \in Workers \ {w} : job'[v] = job[v]
        /\ job'[w].pc = l /\ job'[w].srv = s /\ job'[w].live = lv
    <3>1. l \in PCs /\ t \in {"none", "start", "again"}
      BY <1>0, <2>1
    <3>2. w \in Workers /\ JobsType /\ lv \in BOOLEAN /\ Request(k, w, s, l, t, lv)
      BY <1>0, <2>3
    <3> HIDE <1>0
    <3> QED BY <2>1, <3>1, <3>2, RequestIs
  <2> QED BY <2>1, <2>2, <2>3, <2>4 DEF Posted
<1>3. Asked(w, s) => \/ Create(w, s)
                     \/ \E k \in Requests, l \in {"fetch", "halt", "acquire", "cancel"}, t \in {"none", "again"} :
                          Hit(k, w, s, l, t)
  BY DEF Asked, PostInstall, PostReinstall, PostStart, PostDelete, Hit, Request
<1> QED BY <1>1, <1>2, <1>3

\* A boot worker starts its server.
Revived(s) ==
  /\ JobsType'
  /\ \A v \in Workers \ {s} : job'[v] = job[v]
  /\ job'[s].pc = "acquire" /\ job'[s].srv = s /\ job'[s].live = TRUE

LEMMA RestoreGoes ==
  ASSUME TypeOK, NEW s \in Servers, Restore(s)
  PROVE  job' = job \/ Revived(s)
<1> DEFINE x == [NoJob EXCEPT !.pc = "acquire", !.srv = s, !.live = TRUE]
<1>1. x \in JobRec /\ x.pc = "acquire" /\ x.srv = s /\ x.live = TRUE
  BY DEF JobRec, NoJob, PCs, StartPCs
<1>2. job' = job \/ job' = [job EXCEPT ![s] = x]
  BY DEF Restore
<1>3. JobsType /\ s \in Workers
  BY TypesAre DEF Workers
<1> HIDE DEF x
<1> QED BY <1>1, <1>2, <1>3 DEF Revived, JobsType

\* The deletion of an entry cancels every context of it.
Cancelled(w) ==
  /\ JobsType'
  /\ \A v \in Workers \ {w} : /\ job'[v].pc = job[v].pc /\ job'[v].srv = job[v].srv
                              /\ job'[v].live = (job[v].live /\ job[v].srv # job[w].srv)
                              /\ job[v].srv # job[w].srv => job'[v] = job[v]
  /\ \/ job'[w] = NoJob
     \/ job'[w].pc = "destroy" /\ job'[w].srv = job[w].srv /\ job'[w].live = FALSE

LEMMA CancelGoes ==
  ASSUME TypeOK, NEW w \in Workers, Cancel(w)
  PROVE  Cancelled(w)
<1> DEFINE s == job[w].srv
           x == IF inst[s] = "live" THEN [job[w] EXCEPT !.pc = "destroy", !.live = FALSE] ELSE NoJob
           y(v) == [job[v] EXCEPT !.live = FALSE]
           z(v) == IF v = w THEN x ELSE IF job[v].srv = s THEN y(v) ELSE job[v]
<1>0. JobsType /\ "destroy" \in PCs
  BY TypesAre DEF PCs, DeletePCs
<1>1. x \in JobRec /\ (x = NoJob \/ (x.pc = "destroy" /\ x.srv = job[w].srv /\ x.live = FALSE))
  BY <1>0, NoJobIs DEF JobsType, JobRec
<1>2. \A v \in Workers : y(v) \in JobRec /\ y(v).pc = job[v].pc /\ y(v).srv = job[v].srv /\ y(v).live = FALSE
  BY <1>0 DEF JobsType, JobRec
<1>3. \A v \in Workers : job[v] \in JobRec /\ job[v].live \in BOOLEAN
  BY <1>0 DEF JobsType, JobRec
<1>4. job' = [v \in Workers |-> z(v)]
  BY DEF Cancel
<1> HIDE DEF x, y
<1>5. \A v \in Workers : z(v) \in JobRec
  BY <1>1, <1>2, <1>3
<1> HIDE DEF z
<1>6. JobsType' /\ \A v \in Workers : job'[v] = z(v)
  BY <1>4, <1>5 DEF JobsType
<1> USE DEF z
<1>7. job'[w] = x
  BY <1>6
<1>8. ASSUME NEW v \in Workers \ {w}
      PROVE  /\ job'[v].pc = job[v].pc /\ job'[v].srv = job[v].srv
             /\ job'[v].live = (job[v].live /\ job[v].srv # job[w].srv)
             /\ job[v].srv # job[w].srv => job'[v] = job[v]
  <2>1. CASE job[v].srv = s
    BY <1>2, <1>3, <1>6, <2>1
  <2>2. CASE job[v].srv # s
    BY <1>3, <1>6, <2>2
  <2> QED BY <2>1, <2>2
<1> QED BY <1>1, <1>6, <1>7, <1>8 DEF Cancelled

\* A goroutine at work, the entries and the phase staying as they are.
LEMMA StepJobs ==
  ASSUME JobsType, JobInv, NEW w \in Workers, NEW l \in PCs \ {"destroy"}, Step(w, l), job[w].pc # "idle",
         w \in Servers => l \in {"idle"} \union StartPCs, UNCHANGED <<phase, inst>>
  PROVE  JobInv'
<1>1. JobOk(w)'
  <2>1. JobOk(w)
    BY DEF JobInv
  <2>2. CASE l = "idle"
    BY <2>1, <2>2, NoJobIs DEF JobOk, Step
  <2>3. CASE l # "idle"
    BY <2>1, <2>3 DEF JobOk, Step
  <2> QED BY <2>2, <2>3
<1>2. ASSUME NEW v \in Workers \ {w} PROVE JobOk(v)'
  <2>1. JobOk(v) /\ job'[v] = job[v]
    BY DEF JobInv, Step
  <2> QED BY <2>1 DEF JobOk
<1> QED BY <1>1, <1>2 DEF JobInv

\* An installation belongs to a request.
LEMMA InstallerIs ==
  ASSUME JobInv, NEW w \in Workers, Installs(w) \/ Deletes(w)
  PROVE  w \in Jobs /\ phase = "serving" /\ job[w].pc # "idle" /\ job[w].srv \in Servers
<1>1. job[w].pc \notin {"idle"} \union StartPCs
  BY DEF Installs, Deletes, CreateEnvironment, CreateContainer, Halt, Fetch, Script, Claim, BeforeExecute,
         Execute, Launch, Wait, AfterExecute, Report, Mark, Cancel, Destroy, RemoveFiles, At, StartPCs
<1>2. JobOk(w) /\ w \in Jobs \union Servers
  BY DEF JobInv, Workers
<1> QED BY <1>1, <1>2 DEF JobOk

LEMMA StarterIs ==
  ASSUME JobInv, NEW w \in Workers, Starts(w) \/ Panic(w)
  PROVE  phase # "down" /\ job[w].pc # "idle" /\ job[w].srv \in Servers
<1>1. job[w].pc # "idle"
  BY DEF Starts, Acquire, Sync, Remove, Recreate, Run, Unwind, Panic, At
<1>2. JobOk(w)
  BY DEF JobInv
<1> QED BY <1>1, <1>2 DEF JobOk

LEMMA InstallStep ==
  ASSUME JobsType, NEW w \in Workers, Installs(w)
  PROVE  /\ UNCHANGED <<phase, inst, read, pending, revived, owed, saving, file, wiped>>
         /\ \E l \in PCs \ {"destroy"} : Step(w, l)
<1>0. {"idle", "pull", "script", "report", "fetch", "claim", "mark", "acquire", "before", "exec", "launch",
       "wait", "after"} \subseteq PCs \ {"destroy"}
  BY DEF PCs, StartPCs
<1>1. UNCHANGED <<phase, inst, read, pending, revived, owed, saving, file, wiped>>
  BY DEF Installs, CreateEnvironment, CreateContainer, Halt, Fetch, Script, Claim, BeforeExecute,
         Execute, Launch, Wait, AfterExecute, Report, Mark, entryVars, bootVars, fileVars
<1>2. CASE CreateEnvironment(w) \/ CreateContainer(w) \/ Halt(w) \/ Fetch(w)
  BY <1>0, <1>1, <1>2, InstallGoes
<1>3. CASE Script(w) \/ AfterExecute(w) \/ Report(w) \/ Mark(w)
  BY <1>0, <1>1, <1>3, InstallGoes
<1>4. CASE Claim(w) \/ BeforeExecute(w)
  BY <1>0, <1>1, <1>4, LockGoes
<1>5. CASE Execute(w) \/ Launch(w) \/ Wait(w)
  <2>1. GiveUp(w, job[w].srv) \/ Goto(w, "launch") \/ Goto(w, "wait") \/ Goto(w, "after")
    BY <1>5 DEF Execute, Launch, Wait
  <2> QED BY <1>0, <1>1, <2>1, LockGoes
<1> QED BY <1>2, <1>3, <1>4, <1>5 DEF Installs

LEMMA StartStep ==
  ASSUME NEW w \in Workers, Starts(w)
  PROVE  UNCHANGED <<phase, inst, read, pending, revived, owed, saving, file, data, wiped, installing,
                     installer, waits, cut>>
BY DEF Starts, Acquire, Sync, Remove, Recreate, Run, Unwind, entryVars, bootVars, fileVars, dockVars

LEMMA JobsKept ==
  ASSUME TypeOK, JobInv, EntryInv, Next
  PROVE  JobsType' /\ JobInv'
<1>0. JobsType
  BY TypesAre
<1> USE DEF entryVars, bootVars
<1>1. ASSUME UNCHANGED <<phase, inst, job>> PROVE JobsType' /\ JobInv'
  BY <1>0, <1>1 DEF JobsType, JobInv, JobOk
<1>2. ASSUME NEW w \in Jobs, NEW s \in Servers, Asked(w, s) PROVE JobsType' /\ JobInv'
  <2>1. Posted(w, s) /\ UNCHANGED phase /\ w \in Workers /\ w \notin Servers
    BY <1>2, AskedGoes, JobsAssumption DEF Workers
  <2>2. \A u \in Servers \ {s} : inst'[u] = inst[u]
    BY <1>2 DEF Asked, Create, PostInstall, PostReinstall, PostStart, PostDelete, Hit, TypeOK
  <2>3. inst'[s] = inst[s] \/ (inst'[s] = "live" /\ \A v \in Workers : job[v].srv # s)
    BY <1>2 DEF Asked, Create, PostInstall, PostReinstall, PostStart, PostDelete, Hit, TypeOK
  <2>4. JobOk(w)'
    BY <2>1 DEF Posted, JobOk, StartPCs
  <2>5. ASSUME NEW v \in Workers \ {w} PROVE JobOk(v)'
    <3>1. JobOk(v) /\ job'[v] = job[v]
      BY <2>1 DEF JobInv, Posted
    <3>2. CASE job[v].pc = "idle"
      BY <2>1, <3>1, <3>2, NoJobIs DEF JobOk
    <3>3. CASE job[v].pc # "idle"
      <4>1. job[v].srv \in Servers
        BY <3>1, <3>3 DEF JobOk
      <4>2. inst'[job[v].srv] = inst[job[v].srv]
        BY <2>2, <2>3, <4>1
      <4> QED BY <2>1, <3>1, <3>3, <4>1, <4>2 DEF JobOk
    <3> QED BY <3>2, <3>3
  <2> QED BY <2>1, <2>4, <2>5 DEF JobInv, Posted
<1>3. ASSUME NEW w \in Workers, Installs(w) PROVE JobsType' /\ JobInv'
  <2>1. w \in Jobs /\ job[w].pc # "idle" /\ w \notin Servers
    BY <1>3, InstallerIs, JobsAssumption
  <2>2. PICK l \in PCs \ {"destroy"} : Step(w, l)
    BY <1>0, <1>3, InstallStep
  <2>3. UNCHANGED <<phase, inst>>
    BY <1>0, <1>3, InstallStep
  <2> QED BY <1>0, <2>1, <2>2, <2>3, StepJobs DEF Step
<1>4. ASSUME NEW w \in Workers, Starts(w) PROVE JobsType' /\ JobInv'
  <2>1. PICK l \in StartPCs \union {"idle"} : Step(w, l)
    BY <1>0, <1>4, StartGoes
  <2>2. l \in PCs \ {"destroy"} /\ UNCHANGED <<phase, inst>> /\ job[w].pc # "idle"
    BY <1>4, <2>1, StartStep, StarterIs DEF PCs, StartPCs
  <2> QED BY <1>0, <2>1, <2>2, StepJobs DEF Step
<1>5. ASSUME NEW w \in Workers, Cancel(w) PROVE JobsType' /\ JobInv'
  <2>0. Deletes(w)
    BY <1>5 DEF Deletes
  <2>1. Cancelled(w) /\ UNCHANGED phase
    BY <1>5, CancelGoes DEF Cancel
  <2>2. w \in Jobs /\ w \notin Servers /\ phase = "serving" /\ job[w].srv \in Servers
    BY <2>0, InstallerIs, JobsAssumption
  <2>3. inst'[job[w].srv] # "live" /\ \A u \in Servers \ {job[w].srv} : inst'[u] = inst[u]
    BY <1>5, <2>2 DEF Cancel, TypeOK
  <2>4. JobOk(w)'
    BY <2>1, <2>2, <2>3, NoJobIs DEF Cancelled, JobOk
  <2>5. ASSUME NEW v \in Workers \ {w} PROVE JobOk(v)'
    <3>1. JobOk(v)
      BY DEF JobInv
    <3>2. /\ job'[v].pc = job[v].pc /\ job'[v].srv = job[v].srv
          /\ job'[v].live = (job[v].live /\ job[v].srv # job[w].srv)
          /\ job[v].srv # job[w].srv => job'[v] = job[v]
      BY <2>1 DEF Cancelled
    <3>3. CASE job[v].pc = "idle"
      <4>1. job[v].srv = Nobody /\ Nobody \notin Servers
        BY <3>1, <3>3, NoJobIs, JobsAssumption DEF JobOk, Nobody
      <4>2. job'[v] = NoJob
        BY <2>2, <3>1, <3>2, <3>3, <4>1 DEF JobOk
      <4> QED BY <2>1, <4>2, NoJobIs DEF JobOk
    <3>4. CASE job[v].pc # "idle"
      <4>1. job[v].srv \in Servers /\ inst'[job[v].srv] \in {inst[job[v].srv], inst'[job[w].srv]}
        BY <2>2, <2>3, <3>1, <3>4 DEF JobOk
      <4>2. job'[v].live => inst'[job'[v].srv] = "live"
        <5>1. SUFFICES ASSUME job'[v].live PROVE inst'[job'[v].srv] = "live"
          OBVIOUS
        <5>2. job[v].live /\ job[v].srv # job[w].srv
          BY <3>2, <5>1
        <5> QED BY <2>3, <3>1, <3>2, <4>1, <5>2 DEF JobOk
      <4>3. job'[v].pc = "destroy" => inst'[job'[v].srv] # "live"
        BY <2>3, <3>1, <3>2, <4>1 DEF JobOk
      <4> QED BY <2>1, <2>2, <3>1, <3>2, <3>4, <4>1, <4>2, <4>3 DEF JobOk
    <3> QED BY <3>3, <3>4
  <2> QED BY <2>1, <2>4, <2>5 DEF JobInv, Cancelled
<1>6. ASSUME NEW w \in Workers, Destroy(w) PROVE JobsType' /\ JobInv'
  <2>0. Deletes(w)
    BY <1>6 DEF Deletes
  <2>1. PICK l \in {"idle", "files"} : Step(w, l)
    BY <1>0, <1>6, DeleteGoes
  <2>2. w \in Jobs /\ w \notin Servers /\ phase = "serving" /\ job[w].srv \in Servers
    BY <2>0, InstallerIs, JobsAssumption
  <2>3. inst'[job[w].srv] # "live" /\ inst[job[w].srv] # "live" /\ UNCHANGED phase
        /\ \A u \in Servers \ {job[w].srv} : inst'[u] = inst[u]
    <3>1. inst[job[w].srv] # "live"
      BY <1>6 DEF Destroy, At, JobInv, JobOk
    <3> QED BY <1>6, <2>2, <3>1 DEF Destroy, TypeOK
  <2>4. ASSUME NEW v \in Workers PROVE JobOk(v)'
    <3>1. JobOk(v) /\ (v = w \/ job'[v] = job[v]) /\ JobOk(w)
      BY <2>1 DEF JobInv, Step
    <3>2. \A u \in Servers : (inst'[u] = "live") <=> (inst[u] = "live")
      BY <2>3
    <3>3. CASE v = w
      BY <2>1, <2>2, <2>3, <3>1, <3>2, <3>3, NoJobIs DEF JobOk, Step
    <3>4. CASE v # w /\ job[v].pc = "idle"
      BY <2>3, <3>1, <3>4, NoJobIs DEF JobOk
    <3>5. CASE v # w /\ job[v].pc # "idle"
      BY <2>3, <3>1, <3>2, <3>5 DEF JobOk
    <3> QED BY <3>3, <3>4, <3>5
  <2> QED BY <2>1, <2>4 DEF JobInv, Step
<1>7. ASSUME NEW w \in Workers, RemoveFiles(w) PROVE JobsType' /\ JobInv'
  <2>0. Deletes(w) /\ UNCHANGED <<phase, inst>>
    BY <1>7 DEF Deletes, RemoveFiles
  <2>1. Step(w, "idle") /\ "idle" \in PCs \ {"destroy"}
    BY <1>0, <1>7, DeleteGoes DEF PCs
  <2>2. job[w].pc # "idle"
    BY <2>0, InstallerIs
  <2> QED BY <1>0, <2>0, <2>1, <2>2, StepJobs DEF Step
<1>8. ASSUME NEW s \in Servers, Restores(s) PROVE JobsType' /\ JobInv'
  <2>1. UNCHANGED <<phase, inst>>
    BY <1>8 DEF Restores, NoDirectory, Restore, Resync
  <2>2. CASE job' = job
    BY <1>1, <2>1, <2>2
  <2>3. CASE job' # job
    <3>1. Restore(s) /\ Revived(s)
      BY <1>8, <2>3, RestoreGoes DEF Restores, NoDirectory, Resync
    <3>2. phase = "restoring" /\ inst[s] = "live" /\ s \in Workers /\ s \notin Jobs
      BY <3>1, JobsAssumption DEF Restore, Fresh, EntryInv, Workers
    <3>3. JobOk(s)'
      BY <2>1, <3>1, <3>2 DEF Revived, JobOk, StartPCs
    <3>4. ASSUME NEW v \in Workers \ {s} PROVE JobOk(v)'
      BY <2>1, <3>1 DEF Revived, JobInv, JobOk
    <3> QED BY <3>1, <3>3, <3>4 DEF JobInv, Revived
  <2> QED BY <2>2, <2>3
<1>9. ASSUME NEW s \in Servers, Panel(s) \/ Docker(s) PROVE JobsType' /\ JobInv'
  BY <1>1, <1>9 DEF Panel, CreateRow, Suspend, DeleteRow, Docker, Exit, ScriptEnds
<1>10. CASE Boot
  <2>1. UNCHANGED job /\ \A v \in Workers : job[v] = NoJob
    BY <1>10 DEF Boot, JobInv, JobOk
  <2> QED BY <1>0, <2>1, NoJobIs DEF JobsType, JobInv, JobOk
<1>11. CASE Serve
  <2>1. UNCHANGED <<inst, job>> /\ phase = "restoring" /\ phase' = "serving"
    BY <1>11 DEF Serve
  <2> QED BY <1>0, <2>1 DEF JobsType, JobInv, JobOk
<1>12. CASE SaveBegins \/ SaveEnds
  BY <1>1, <1>12 DEF SaveBegins, SaveEnds
<1>13. ASSUME Down PROVE JobsType' /\ JobInv'
  BY <1>13, NoJobIs DEF Down, JobsType, JobInv, JobOk
<1>14. ASSUME NEW w \in Workers, Work(w) PROVE JobsType' /\ JobInv'
  BY <1>3, <1>4, <1>5, <1>6, <1>7, <1>13, <1>14 DEF Work, Deletes, Panic
<1>15. CASE Daemon
  BY <1>10, <1>11, <1>12, <1>13, <1>15 DEF Daemon, Crash, PowerCut
<1> QED BY <1>2, <1>8, <1>9, <1>14, <1>15 DEF Next

LEMMA TypeKept ==
  ASSUME TypeOK, JobInv, EntryInv, Next
  PROVE  TypeOK'
<1>1. JobsType'
  BY JobsKept
<1>2. ASSUME NEW w \in Workers, Work(w) PROVE RestTypes'
  BY <1>2, InstallTypes, StartTypes, DeleteTypes, DaemonTypes, InstallerIs, StarterIs DEF Work
<1>3. ASSUME NEW s \in Servers, Restores(s) \/ Panel(s) \/ Docker(s) \/ \E w \in Jobs : Asked(w, s)
      PROVE  RestTypes'
  BY <1>3, ServerTypes
<1>4. RestTypes'
  BY <1>2, <1>3, DaemonTypes DEF Next
<1> QED BY <1>1, <1>4 DEF RestTypes, TypeOK, JobsType, JobRec, EntryTypes, BootTypes, DockTypes, DiskTypes

-----------------------------------------------------------------------------
(* The entries, and the servers that were destroyed.                        *)

\* A start reaches Docker only under a context that is not cancelled, and no
\* installation starts the server's container.
LEMMA WorkRuns ==
  ASSUME TypeOK, JobInv, EntryInv, NEW w \in Workers, Installs(w) \/ Starts(w), NEW s \in wiped
  PROVE  container'[s] # "running"
<1>0. s \in Servers /\ inst[s] # "live" /\ container[s] # "running" /\ container \in [Servers -> {"none", "created", "running"}]
  BY DEF TypeOK, EntryInv
<1>1. CASE Installs(w)
  <2>1. CASE CreateContainer(w)
    BY <1>0, <2>1 DEF CreateContainer
  <2>2. CASE Halt(w)
    BY <1>0, <2>2 DEF Halt
  <2>3. CASE UNCHANGED container
    BY <1>0, <2>3
  <2> QED BY <1>1, <2>1, <2>2, <2>3 DEF Installs, CreateEnvironment, Fetch, Script, Claim, BeforeExecute, Execute,
                                        Launch, Wait, AfterExecute, Report, Mark, dockVars
<1>2. CASE Starts(w)
  <2>1. CASE Remove(w)
    BY <1>0, <2>1 DEF Remove
  <2>2. CASE Recreate(w)
    BY <1>0, <2>2 DEF Recreate
  <2>3. CASE Run(w)
    <3>1. job[w].live => job[w].srv # s
      BY <1>0 DEF JobInv, JobOk
    <3> QED BY <1>0, <2>3, <3>1 DEF Run, Succeeds
  <2>4. CASE UNCHANGED container
    BY <1>0, <2>4
  <2> QED BY <1>2, <2>1, <2>2, <2>3, <2>4 DEF Starts, Acquire, Sync, Unwind, dockVars
<1> QED BY <1>1, <1>2

LEMMA EntriesKept ==
  ASSUME TypeOK, JobInv, EntryInv, Next
  PROVE  EntryInv'
<1>0. TypeOK'
  BY TypeKept
<1>t. JobsType
  BY TypesAre
<1> USE DEF entryVars, bootVars, dockVars
<1>1. ASSUME UNCHANGED <<phase, inst, pending, wiped>>, \A s \in wiped : container'[s] # "running"
      PROVE  EntryInv'
  BY <1>1 DEF EntryInv
<1>2. ASSUME NEW w \in Jobs, NEW s \in Servers, Asked(w, s) PROVE EntryInv'
  <2>1. phase' = "serving" /\ UNCHANGED container
    BY <1>2, AskedGoes DEF Posted, Asked, Create, PostInstall, PostReinstall, PostStart, PostDelete, Hit
  <2>2. ASSUME NEW u \in wiped' PROVE inst'[u] # "live" /\ container'[u] # "running"
    <3>1. u \in wiped /\ u \in Servers /\ inst'[u] = inst[u]
      BY <1>0, <1>2, ZenonT(60) DEF TypeOK, Asked, Create, PostInstall, PostReinstall, PostStart, PostDelete, Hit
    <3> QED BY <2>1, <3>1 DEF EntryInv
  <2> QED BY <2>1, <2>2 DEF EntryInv
<1>3. ASSUME NEW w \in Workers, Installs(w) \/ Starts(w) PROVE EntryInv'
  <2>1. UNCHANGED <<phase, inst, pending, wiped>>
    BY <1>t, <1>3, InstallStep, StartStep
  <2> QED BY <1>1, <1>3, <2>1, WorkRuns
<1>4. ASSUME NEW w \in Workers, Cancel(w) PROVE EntryInv'
  <2>1. phase' = "serving" /\ job[w].srv \in Servers
    BY <1>4, InstallerIs DEF Deletes, Cancel
  <2> QED BY <1>4, <2>1 DEF Cancel, EntryInv, TypeOK
<1>5. ASSUME NEW w \in Workers, Destroy(w) PROVE EntryInv'
  <2>1. phase' = "serving" /\ job[w].srv \in Servers
    BY <1>5, InstallerIs DEF Deletes, Destroy
  <2> QED BY <1>5, <2>1 DEF Destroy, EntryInv, TypeOK
<1>6. ASSUME NEW w \in Workers, RemoveFiles(w) PROVE EntryInv'
  BY <1>1, <1>6 DEF RemoveFiles, EntryInv
<1>7. ASSUME NEW s \in Servers, Restores(s) PROVE EntryInv'
  <2>1. UNCHANGED <<phase, inst, wiped, container>> /\ pending' \subseteq pending
    BY <1>7 DEF Restores, NoDirectory, Restore, Resync
  <2> QED BY <2>1 DEF EntryInv
<1>8. ASSUME NEW s \in Servers, Panel(s) PROVE EntryInv'
  BY <1>1, <1>8 DEF Panel, CreateRow, Suspend, DeleteRow, EntryInv
<1>9. ASSUME NEW s \in Servers, Docker(s) PROVE EntryInv'
  <2>1. UNCHANGED <<phase, inst, pending, wiped>>
    BY <1>9 DEF Docker, Exit, ScriptEnds
  <2>2. \A u \in wiped : container'[u] # "running"
    BY <1>9 DEF Docker, Exit, ScriptEnds, EntryInv, TypeOK
  <2> QED BY <1>1, <2>1, <2>2
<1>10. CASE Boot
  <2>1. CASE phase' = "restoring"
    <3>1. PICK loaded \in SUBSET Servers : Load(loaded)
      BY <1>10, <2>1 DEF Boot
    <3>2. UNCHANGED container
      BY <1>10 DEF Boot
    <3>3. inst' = [s \in Servers |-> IF s \in loaded THEN "live" ELSE "none"] /\ wiped' = wiped \ loaded
          /\ pending' = loaded
      BY <3>1 DEF Load
    <3>4. \A s \in pending' : inst'[s] = "live"
      BY <3>3
    <3>5. \A s \in wiped' : inst'[s] # "live"
      BY <3>3 DEF TypeOK
    <3>6. \A s \in wiped' : container'[s] # "running"
      BY <3>2, <3>3 DEF EntryInv
    <3> QED BY <3>4, <3>5, <3>6 DEF EntryInv
  <2>2. CASE phase' # "restoring"
    <3>1. UNCHANGED <<inst, wiped, container>>
      BY <1>10, <2>2 DEF Boot
    <3> QED BY <2>2, <3>1 DEF EntryInv
  <2> QED BY <2>1, <2>2
<1>11. CASE Serve
  BY <1>11 DEF Serve, EntryInv
<1>12. CASE SaveBegins \/ SaveEnds
  BY <1>1, <1>12 DEF SaveBegins, SaveEnds, EntryInv
<1>13. ASSUME Down, \A s \in Servers : container'[s] = "running" => container[s] = "running" PROVE EntryInv'
  BY <1>13, BlankIs DEF Down, EntryInv, TypeOK
<1>14. CASE Crash
  BY <1>13, <1>14 DEF Crash
<1>15. CASE PowerCut
  BY <1>13, <1>15 DEF PowerCut
<1>16. ASSUME NEW w \in Workers, Work(w) PROVE EntryInv'
  BY <1>3, <1>4, <1>5, <1>6, <1>13, <1>16 DEF Work, Deletes, Panic
<1> QED BY <1>2, <1>7, <1>8, <1>9, <1>10, <1>11, <1>12, <1>14, <1>15, <1>16 DEF Next, Daemon

-----------------------------------------------------------------------------
(* The installation lock and the installation container.                    *)

\* Nobody enters, and the lock stays taken.
LEMMA LockFrame ==
  ASSUME LockInv, installing \subseteq installing',
         \A v \in Workers : job'[v].pc \in LockPCs => job[v].pc \in LockPCs /\ job'[v].srv = job[v].srv
  PROVE  LockInv'
BY DEF LockInv

\* w is outside after its step, and keeps others where they are.
LEMMA OutsideFrame ==
  ASSUME LockInv, NEW w \in Workers, NEW l \in PCs \ LockPCs, Step(w, l), installing \subseteq installing'
  PROVE  LockInv'
<1>1. job'[w].pc \notin LockPCs
  BY NoJobIs DEF Step, LockPCs
<1>2. \A v \in Workers \ {w} : job'[v] = job[v]
  BY DEF Step
<1> QED BY <1>1, <1>2, LockFrame

\* w leaves the lock.
LEMMA LeaveLock ==
  ASSUME LockInv, NEW w \in Workers, Step(w, "report"), job[w].pc \in LockPCs,
         installing' = installing \ {job[w].srv}
  PROVE  LockInv'
<1>1. job'[w].pc \notin LockPCs
  BY DEF Step, LockPCs
<1>2. \A v \in Workers \ {w} : job'[v] = job[v]
  BY DEF Step
<1> QED BY <1>1, <1>2 DEF LockInv

\* w goes on under the lock.
LEMMA StayLocked ==
  ASSUME LockInv, NEW w \in Workers, NEW l \in LockPCs, Step(w, l), job[w].pc \in LockPCs, UNCHANGED installing
  PROVE  LockInv'
<1>1. l # "idle"
  BY DEF LockPCs
<1>2. job'[w].srv = job[w].srv /\ \A v \in Workers \ {w} : job'[v] = job[v]
  BY <1>1 DEF Step
<1> QED BY <1>2, LockFrame

\* w takes the lock.
LEMMA TakeLock ==
  ASSUME LockInv, NEW w \in Workers, Step(w, "before"), job[w].srv \notin installing,
         installing' = installing \union {job[w].srv}
  PROVE  LockInv'
<1>1. job'[w].srv = job[w].srv /\ \A v \in Workers \ {w} : job'[v] = job[v]
  BY DEF Step
<1>2. \A v \in Workers \ {w} : job[v].pc \in LockPCs => job[v].srv # job[w].srv
  BY DEF LockInv
<1> QED BY <1>1, <1>2 DEF LockInv

LEMMA LocksKept ==
  ASSUME TypeOK, JobInv, EntryInv, LockInv, Next
  PROVE  LockInv'
<1>0. JobsType
  BY TypesAre
<1> USE DEF entryVars
<1>1. ASSUME UNCHANGED <<job, installing>> PROVE LockInv'
  BY <1>1, LockFrame
<1>2. ASSUME NEW w \in Jobs, NEW s \in Servers, Asked(w, s) PROVE LockInv'
  <2>1. Posted(w, s) /\ w \in Workers
    BY <1>2, AskedGoes DEF Workers
  <2>2. job'[w].pc \notin LockPCs /\ \A v \in Workers \ {w} : job'[v] = job[v]
    BY <2>1 DEF Posted, LockPCs
  <2>3. CASE Create(w, s)
    <3>1. installing' = installing \ {s} /\ \A v \in Workers : job[v].srv # s
      BY <2>3 DEF Create
    <3> QED BY <2>2, <3>1 DEF LockInv
  <2>4. CASE UNCHANGED installing
    BY <2>2, <2>4, LockFrame
  <2> QED BY <1>2, <2>3, <2>4 DEF Asked, PostInstall, PostReinstall, PostStart, PostDelete, Hit
<1>3. ASSUME NEW w \in Workers, Installs(w) PROVE LockInv'
  <2>0. {"idle", "pull", "script", "report", "fetch", "claim", "mark", "acquire"} \subseteq PCs \ LockPCs
    BY DEF PCs, StartPCs, LockPCs
  <2>1. CASE CreateEnvironment(w) \/ CreateContainer(w) \/ Halt(w) \/ Fetch(w)
    <3>1. PICK l \in {"idle", "pull", "script", "report", "fetch"} : Step(w, l)
      BY <1>0, <2>1, InstallGoes
    <3>2. UNCHANGED installing
      BY <2>1 DEF CreateEnvironment, CreateContainer, Halt, Fetch
    <3> QED BY <2>0, <3>1, <3>2, OutsideFrame
  <2>2. CASE Script(w) \/ Report(w) \/ Mark(w)
    <3>1. PICK l \in {"idle", "claim", "report", "mark", "acquire"} : Step(w, l)
      BY <1>0, <2>2, InstallGoes
    <3>2. UNCHANGED installing
      BY <2>2 DEF Script, Report, Mark
    <3> QED BY <2>0, <3>1, <3>2, OutsideFrame
  <2>3. CASE Claim(w)
    <3>1. CASE Step(w, "report") /\ UNCHANGED installing
      BY <2>0, <3>1, OutsideFrame
    <3>2. CASE job[w].srv \notin installing /\ Step(w, "before") /\ installing' = installing \union {job[w].srv}
      BY <3>2, TakeLock
    <3> QED BY <1>0, <2>3, <3>1, <3>2, LockGoes
  <2>4. ASSUME GiveUp(w, job[w].srv), job[w].pc \in LockPCs PROVE LockInv'
    BY <1>0, <2>4, LeaveLock, LockGoes
  <2>5. CASE BeforeExecute(w)
    <3>1. job[w].pc \in LockPCs /\ "exec" \in LockPCs
      BY <1>0, <2>5, LockGoes DEF LockPCs
    <3> QED BY <1>0, <2>5, <3>1, LockGoes, StayLocked, LeaveLock
  <2>6. CASE Execute(w)
    <3>1. job[w].pc \in LockPCs /\ "launch" \in LockPCs
      BY <2>6 DEF Execute, At, LockPCs
    <3>2. GiveUp(w, job[w].srv) \/ (Goto(w, "launch") /\ UNCHANGED installing)
      BY <2>6 DEF Execute
    <3> QED BY <1>0, <2>4, <3>1, <3>2, LockGoes, StayLocked
  <2>7. CASE Launch(w)
    <3>1. job[w].pc \in LockPCs /\ "wait" \in LockPCs
      BY <2>7 DEF Launch, At, LockPCs
    <3>2. GiveUp(w, job[w].srv) \/ (Goto(w, "wait") /\ UNCHANGED installing)
      BY <2>7 DEF Launch
    <3> QED BY <1>0, <2>4, <3>1, <3>2, LockGoes, StayLocked
  <2>8. CASE Wait(w)
    <3>1. job[w].pc \in LockPCs /\ "after" \in LockPCs
      BY <2>8 DEF Wait, At, LockPCs
    <3>2. GiveUp(w, job[w].srv) \/ (Goto(w, "after") /\ UNCHANGED installing)
      BY <2>8 DEF Wait
    <3> QED BY <1>0, <2>4, <3>1, <3>2, LockGoes, StayLocked
  <2>9. CASE AfterExecute(w)
    <3>1. job[w].pc \in LockPCs /\ Step(w, "report")
      BY <1>0, <2>9, InstallGoes DEF LockPCs
    <3>2. installing' = installing \ {job[w].srv}
      BY <2>9 DEF AfterExecute
    <3> QED BY <3>1, <3>2, LeaveLock
  <2> QED BY <1>3, <2>1, <2>2, <2>3, <2>5, <2>6, <2>7, <2>8, <2>9 DEF Installs
<1>4. ASSUME NEW w \in Workers, Starts(w) PROVE LockInv'
  <2>1. PICK l \in StartPCs \union {"idle"} : Step(w, l)
    BY <1>0, <1>4, StartGoes
  <2>2. UNCHANGED installing /\ l \in PCs \ LockPCs
    BY <1>4, <2>1, StartStep DEF PCs, StartPCs, LockPCs
  <2> QED BY <2>1, <2>2, OutsideFrame
<1>5. ASSUME NEW w \in Workers, Cancel(w) PROVE LockInv'
  <2>1. Cancelled(w) /\ UNCHANGED installing
    BY <1>5, CancelGoes DEF Cancel
  <2>2. job'[w].pc \notin LockPCs
    BY <2>1, NoJobIs DEF Cancelled, LockPCs
  <2>3. \A v \in Workers \ {w} : job'[v].pc = job[v].pc /\ job'[v].srv = job[v].srv
    BY <2>1 DEF Cancelled
  <2> QED BY <2>1, <2>2, <2>3, LockFrame
<1>6. ASSUME NEW w \in Workers, Destroy(w) \/ RemoveFiles(w) PROVE LockInv'
  <2>1. PICK l \in {"idle", "files"} : Step(w, l)
    BY <1>0, <1>6, DeleteGoes
  <2>2. UNCHANGED installing /\ l \in PCs \ LockPCs
    BY <1>6, <2>1 DEF Destroy, RemoveFiles, PCs, DeletePCs, LockPCs
  <2> QED BY <2>1, <2>2, OutsideFrame
<1>7. ASSUME NEW s \in Servers, Restores(s) PROVE LockInv'
  <2>1. UNCHANGED installing
    BY <1>7 DEF Restores, NoDirectory, Restore, Resync
  <2>2. job' = job \/ Revived(s)
    BY <1>7, RestoreGoes DEF Restores, NoDirectory, Resync
  <2> QED BY <1>1, <2>1, <2>2, LockFrame DEF Revived, LockPCs
<1>8. ASSUME NEW s \in Servers, Panel(s) \/ Docker(s) PROVE LockInv'
  BY <1>1, <1>8 DEF Panel, CreateRow, Suspend, DeleteRow, Docker, Exit, ScriptEnds
<1>9. CASE Boot \/ Serve \/ SaveBegins \/ SaveEnds
  BY <1>1, <1>9 DEF Boot, Serve, SaveBegins, SaveEnds
<1>10. ASSUME Down PROVE LockInv'
  BY <1>10, NoJobIs DEF Down, LockInv, LockPCs
<1>11. ASSUME NEW w \in Workers, Work(w) PROVE LockInv'
  BY <1>3, <1>4, <1>5, <1>6, <1>10, <1>11 DEF Work, Deletes, Panic
<1> QED BY <1>2, <1>7, <1>8, <1>9, <1>10, <1>11 DEF Next, Daemon, Crash, PowerCut

\* Who waits goes on waiting, and the container with it.
LEMMA WaitFrame ==
  ASSUME WaitInv, UNCHANGED <<waits, installer>>, cut' \subseteq cut,
         \A v \in Workers : job[v].pc = "wait" => job'[v].pc = "wait" /\ job'[v].srv = job[v].srv
  PROVE  WaitInv'
BY DEF WaitInv

LEMMA StepWaitFrame ==
  ASSUME WaitInv, UNCHANGED <<waits, installer>>, cut' \subseteq cut, NEW w \in Workers, NEW l, Step(w, l),
         job[w].pc # "wait"
  PROVE  WaitInv'
BY WaitFrame DEF Step

\* Under the lock of s, only w can be waiting for its container.
LEMMA OwnContainer ==
  ASSUME LockInv, WaitInv, NEW w \in Workers, job[w].pc \in LockPCs, job[w].srv \in Servers
  PROVE  /\ waits[job[w].srv] \in {Nobody, w}
         /\ waits[job[w].srv] = w => job[w].pc = "wait" /\ installer[job[w].srv] = "running"
         /\ \A s \in Servers \ {job[w].srv} : waits[s] # w
<1>1. "wait" \in LockPCs
  BY DEF LockPCs
<1>2. w # Nobody
  BY JobsAssumption DEF Workers, Nobody
<1>3. \A s \in Servers : waits[s] = w => s = job[w].srv /\ job[w].pc = "wait" /\ installer[s] = "running"
  BY <1>2 DEF WaitInv
<1>4. waits[job[w].srv] \in {Nobody, w}
  BY <1>1 DEF WaitInv, LockInv
<1> QED BY <1>3, <1>4

\* w moves the container of its own server: the others are not touched.
LEMMA OwnFrame ==
  ASSUME TypeOK, LockInv, WaitInv, NEW w \in Workers, job[w].pc \in LockPCs, job[w].srv \in Servers,
         NEW l, Step(w, l), cut' = {},
         \A s \in Servers \ {job[w].srv} : waits'[s] = waits[s] /\ installer'[s] = installer[s],
         waits'[job[w].srv] # Nobody =>
           waits'[job[w].srv] = w /\ l = "wait" /\ installer'[job[w].srv] = "running"
  PROVE  WaitInv'
<1> DEFINE s == job[w].srv
<1>1. ASSUME NEW u \in Servers \ {s}, waits'[u] # Nobody
      PROVE  /\ waits'[u] \in Workers /\ job'[waits'[u]].pc = "wait" /\ job'[waits'[u]].srv = u
             /\ installer'[u] = "running"
  <2>1. waits[u] # w /\ waits'[u] = waits[u] /\ installer'[u] = installer[u]
    BY OwnContainer
  <2>2. waits[u] \in Workers /\ job[waits[u]].pc = "wait" /\ job[waits[u]].srv = u /\ installer[u] = "running"
    BY <1>1, <2>1 DEF WaitInv
  <2>3. job'[waits[u]] = job[waits[u]]
    BY <2>1, <2>2 DEF Step
  <2> QED BY <2>1, <2>2, <2>3
<1>2. ASSUME waits'[s] # Nobody
      PROVE  /\ waits'[s] \in Workers /\ job'[waits'[s]].pc = "wait" /\ job'[waits'[s]].srv = s
             /\ installer'[s] = "running"
  BY <1>2 DEF Step
<1> QED BY <1>1, <1>2 DEF WaitInv

LEMMA RemoveFrame ==
  ASSUME TypeOK, LockInv, WaitInv, NEW w \in Workers, job[w].pc \in LockPCs, job[w].srv \in Servers,
         NEW l, Step(w, l),
         RemoveContainer(w, job[w].srv) \/ TryRemoveContainer(w, job[w].srv)
  PROVE  WaitInv'
<1> DEFINE s == job[w].srv
<1>1. waits[s] \in {Nobody, w}
  BY OwnContainer
<1>2. cut' = {}
  <2>1. {v \in Workers \ {w} : v = waits[s] /\ At(v, "wait")} = {}
    BY <1>1, JobsAssumption DEF Workers, Nobody
  <2> QED BY <2>1 DEF RemoveContainer, TryRemoveContainer, WaitInv
<1>3. waits'[s] = Nobody
  BY <1>1 DEF RemoveContainer, TryRemoveContainer, TypeOK
<1>4. \A u \in Servers \ {s} : waits'[u] = waits[u] /\ installer'[u] = installer[u]
  BY DEF RemoveContainer, TryRemoveContainer, TypeOK
<1> QED BY <1>2, <1>3, <1>4, OwnFrame

LEMMA WaitsKept ==
  ASSUME TypeOK, JobInv, LockInv, WaitInv, Next
  PROVE  WaitInv'
<1>0. JobsType
  BY TypesAre
<1> USE DEF dockVars
<1>1. ASSUME UNCHANGED <<job, waits, installer, cut>> PROVE WaitInv'
  BY <1>1, WaitFrame
<1>2. ASSUME NEW w \in Jobs, NEW s \in Servers, Asked(w, s) PROVE WaitInv'
  <2>1. Posted(w, s) /\ w \in Workers
    BY <1>2, AskedGoes DEF Workers
  <2>2. UNCHANGED <<waits, installer, cut>>
    BY <1>2 DEF Asked, Create, PostInstall, PostReinstall, PostStart, PostDelete, Hit
  <2>3. \A v \in Workers : job[v].pc = "wait" => job'[v] = job[v]
    BY <2>1 DEF Posted
  <2> QED BY <2>2, <2>3, WaitFrame
<1>3. ASSUME NEW w \in Workers, Installs(w) PROVE WaitInv'
  <2>0. job[w].srv \in Servers
    BY <1>3, InstallerIs
  <2>1. CASE CreateEnvironment(w) \/ CreateContainer(w) \/ Halt(w) \/ Fetch(w)
    <3>1. PICK l \in {"idle", "pull", "script", "report", "fetch"} : Step(w, l)
      BY <1>0, <2>1, InstallGoes
    <3>2. UNCHANGED <<waits, installer, cut>> /\ job[w].pc # "wait"
      BY <2>1 DEF CreateEnvironment, CreateContainer, Halt, Fetch, At
    <3> QED BY <3>1, <3>2, StepWaitFrame
  <2>2. CASE Script(w) \/ Report(w) \/ Mark(w)
    <3>1. PICK l \in {"idle", "claim", "report", "mark", "acquire"} : Step(w, l)
      BY <1>0, <2>2, InstallGoes
    <3>2. UNCHANGED <<waits, installer>> /\ cut' \subseteq cut /\ job[w].pc # "wait"
      BY <2>2 DEF Script, Report, Mark, At
    <3> QED BY <3>1, <3>2, StepWaitFrame
  <2>3. CASE Claim(w)
    <3>1. PICK l \in {"report", "before"} : Step(w, l)
      BY <1>0, <2>3, LockGoes
    <3>2. UNCHANGED <<waits, installer, cut>> /\ job[w].pc # "wait"
      BY <2>3 DEF Claim, At
    <3> QED BY <3>1, <3>2, StepWaitFrame
  <2>4. ASSUME GiveUp(w, job[w].srv), job[w].pc \in LockPCs PROVE WaitInv'
    BY <1>0, <2>0, <2>4, LockGoes, RemoveFrame
  <2>5. CASE BeforeExecute(w)
    <3>1. job[w].pc \in LockPCs /\ job[w].pc # "wait"
      BY <1>0, <2>5, LockGoes DEF LockPCs
    <3>2. CASE Step(w, "exec") /\ RemoveContainer(w, job[w].srv)
      BY <2>0, <3>1, <3>2, RemoveFrame
    <3>3. CASE Step(w, "report") /\ UNCHANGED <<installer, waits, cut>>
      BY <3>1, <3>3, StepWaitFrame
    <3> QED BY <1>0, <2>5, <3>2, <3>3, LockGoes
  <2>6. CASE Execute(w)
    <3>1. job[w].pc = "exec" /\ job[w].pc \in LockPCs
      BY <2>6 DEF Execute, At, LockPCs
    <3>2. CASE GiveUp(w, job[w].srv)
      BY <2>4, <3>1, <3>2
    <3>3. CASE /\ installer' = [installer EXCEPT ![job[w].srv] = "stopped"] /\ Goto(w, "launch")
               /\ UNCHANGED <<installing, waits, cut>>
      <4>1. Step(w, "launch") /\ cut' = {}
        BY <1>0, <3>3, LockGoes DEF WaitInv
      <4>2. waits'[job[w].srv] = Nobody
        BY <2>0, <3>1, <3>3, OwnContainer
      <4>3. \A s \in Servers \ {job[w].srv} : waits'[s] = waits[s] /\ installer'[s] = installer[s]
        BY <2>0, <3>3 DEF TypeOK
      <4> QED BY <2>0, <3>1, <4>1, <4>2, <4>3, OwnFrame
    <3> QED BY <2>6, <3>2, <3>3 DEF Execute
  <2>7. CASE Launch(w)
    <3>1. job[w].pc \in LockPCs
      BY <2>7 DEF Launch, At, LockPCs
    <3>2. CASE GiveUp(w, job[w].srv)
      BY <2>4, <3>1, <3>2
    <3>3. CASE /\ installer' = [installer EXCEPT ![job[w].srv] = "running"]
               /\ waits' = [waits EXCEPT ![job[w].srv] = w]
               /\ Goto(w, "wait") /\ UNCHANGED <<installing, cut>>
      <4>1. Step(w, "wait") /\ cut' = {}
        BY <1>0, <3>3, LockGoes DEF WaitInv
      <4>2. waits'[job[w].srv] = w /\ installer'[job[w].srv] = "running"
        BY <2>0, <3>3 DEF TypeOK
      <4>3. \A s \in Servers \ {job[w].srv} : waits'[s] = waits[s] /\ installer'[s] = installer[s]
        BY <2>0, <3>3 DEF TypeOK
      <4> QED BY <2>0, <3>1, <4>1, <4>2, <4>3, OwnFrame
    <3> QED BY <2>7, <3>2, <3>3 DEF Launch
  <2>8. CASE Wait(w)
    <3>1. job[w].pc \in LockPCs
      BY <2>8 DEF Wait, At, LockPCs
    <3>2. CASE GiveUp(w, job[w].srv)
      BY <2>4, <3>1, <3>2
    <3>3. CASE /\ ~(installer[job[w].srv] = "running" /\ waits[job[w].srv] = w)
               /\ Goto(w, "after") /\ UNCHANGED <<installing, installer, waits, cut>>
      <4>1. Step(w, "after") /\ cut' = {}
        BY <1>0, <3>3, LockGoes DEF WaitInv
      <4>2. waits'[job[w].srv] = Nobody
        BY <2>0, <3>1, <3>3, OwnContainer
      <4> QED BY <2>0, <3>1, <3>3, <4>1, <4>2, OwnFrame
    <3> QED BY <2>8, <3>2, <3>3 DEF Wait
  <2>9. CASE AfterExecute(w)
    <3>1. job[w].pc \in LockPCs /\ Step(w, "report")
      BY <1>0, <2>9, InstallGoes DEF LockPCs
    <3>2. TryRemoveContainer(w, job[w].srv)
      BY <2>9 DEF AfterExecute
    <3> QED BY <2>0, <3>1, <3>2, RemoveFrame
  <2> QED BY <1>3, <2>1, <2>2, <2>3, <2>5, <2>6, <2>7, <2>8, <2>9 DEF Installs
<1>4. ASSUME NEW w \in Workers, Starts(w) PROVE WaitInv'
  <2>1. PICK l \in StartPCs \union {"idle"} : Step(w, l)
    BY <1>0, <1>4, StartGoes
  <2>2. UNCHANGED <<waits, installer, cut>> /\ job[w].pc # "wait"
    BY <1>0, <1>4, StartGoes, StartStep DEF StartPCs
  <2> QED BY <2>1, <2>2, StepWaitFrame
<1>5. ASSUME NEW w \in Workers, Cancel(w) PROVE WaitInv'
  <2>1. Cancelled(w) /\ UNCHANGED <<waits, installer, cut>> /\ job[w].pc # "wait"
    BY <1>5, CancelGoes DEF Cancel, At
  <2>2. \A v \in Workers \ {w} : job'[v].pc = job[v].pc /\ job'[v].srv = job[v].srv
    BY <2>1 DEF Cancelled
  <2> QED BY <2>1, <2>2, WaitFrame
<1>6. ASSUME NEW w \in Workers, Destroy(w) \/ RemoveFiles(w) PROVE WaitInv'
  <2>1. PICK l \in {"idle", "files"} : Step(w, l)
    BY <1>0, <1>6, DeleteGoes
  <2>2. UNCHANGED <<waits, installer, cut>> /\ job[w].pc # "wait"
    BY <1>6 DEF Destroy, RemoveFiles, At
  <2> QED BY <2>1, <2>2, StepWaitFrame
<1>7. ASSUME NEW s \in Servers, Restores(s) PROVE WaitInv'
  <2>1. UNCHANGED <<waits, installer, cut>>
    BY <1>7 DEF Restores, NoDirectory, Restore, Resync
  <2>2. job' = job \/ (Revived(s) /\ job[s].pc = "idle")
    BY <1>7, RestoreGoes DEF Restores, NoDirectory, Restore, Resync, Fresh, At
  <2>3. \A v \in Workers : job[v].pc = "wait" => job'[v] = job[v]
    BY <2>2 DEF Revived
  <2> QED BY <2>1, <2>3, WaitFrame
<1>8. ASSUME NEW s \in Servers, Panel(s) \/ Exit(s) PROVE WaitInv'
  BY <1>1, <1>8 DEF Panel, CreateRow, Suspend, DeleteRow, Exit
<1>9. ASSUME NEW s \in Servers, ScriptEnds(s) PROVE WaitInv'
  <2>1. UNCHANGED <<job, cut>> /\ waits'[s] = Nobody
        /\ \A u \in Servers \ {s} : waits'[u] = waits[u] /\ installer'[u] = installer[u]
    BY <1>9 DEF ScriptEnds, TypeOK
  <2> QED BY <2>1 DEF WaitInv
<1>10. CASE Boot \/ Serve \/ SaveBegins \/ SaveEnds
  BY <1>1, <1>10 DEF Boot, Serve, SaveBegins, SaveEnds
<1>11. ASSUME Down PROVE WaitInv'
  BY <1>11 DEF Down, WaitInv
<1>12. ASSUME NEW w \in Workers, Work(w) PROVE WaitInv'
  BY <1>3, <1>4, <1>5, <1>6, <1>11, <1>12 DEF Work, Deletes, Panic
<1> QED BY <1>2, <1>7, <1>8, <1>9, <1>10, <1>11, <1>12 DEF Next, Daemon, Crash, PowerCut, Docker

-----------------------------------------------------------------------------
(* The boot and the saved states.                                           *)

LEMMA BootKept ==
  ASSUME TypeOK, JobInv, BootInv, Next
  PROVE  BootInv'
<1>0. JobsType
  BY TypesAre
<1> USE DEF entryVars, bootVars, fileVars
<1>1. ASSUME UNCHANGED <<phase, inst, pending, owed, read, revived, saving, file>>,
             phase = "restoring" => data' = data
      PROVE  BootInv'
  BY <1>1 DEF BootInv
<1>2. ASSUME phase' = "serving" PROVE BootInv'
  BY <1>2 DEF BootInv
<1>3. ASSUME NEW w \in Jobs, NEW s \in Servers, Asked(w, s) PROVE BootInv'
  BY <1>2, <1>3, AskedGoes DEF Posted
<1>4. ASSUME NEW w \in Workers, Installs(w) PROVE BootInv'
  BY <1>0, <1>2, <1>4, InstallStep, InstallerIs
<1>5. ASSUME NEW w \in Workers, Starts(w) PROVE BootInv'
  BY <1>1, <1>5, StartStep
<1>6. ASSUME NEW w \in Workers, Deletes(w) PROVE BootInv'
  <2>1. UNCHANGED phase
    BY <1>6 DEF Deletes, Cancel, Destroy, RemoveFiles
  <2> QED BY <1>2, <1>6, <2>1, InstallerIs
<1>7. ASSUME NEW s \in Servers, Panel(s) \/ Docker(s) PROVE BootInv'
  BY <1>1, <1>7 DEF Panel, CreateRow, Suspend, DeleteRow, Docker, Exit, ScriptEnds
<1>8. ASSUME NEW s \in Servers, NoDirectory(s) PROVE BootInv'
  BY <1>8 DEF NoDirectory, BootInv, Fresh
<1>9. ASSUME NEW s \in Servers, Restore(s) PROVE BootInv'
  <2>1. /\ phase = "restoring" /\ UNCHANGED <<phase, inst, owed, read>> /\ s \in pending
        /\ data' = data \union {s}
    BY <1>9 DEF Restore, Fresh
  <2>2. \/ revived' = revived \union {s} /\ UNCHANGED pending
        \/ read[s] # "online" /\ pending' = pending \ {s} /\ UNCHANGED revived
    BY <1>9 DEF Restore
  <2> QED BY <2>1, <2>2 DEF BootInv
<1>10. ASSUME NEW s \in Servers, Resync(s) PROVE BootInv'
  BY <1>10 DEF Resync, BootInv
<1>11. CASE Boot
  <2>1. CASE phase' = "restoring"
    <3>1. PICK loaded \in SUBSET Servers : Load(loaded) /\ ReadStates(loaded)
      BY <1>11, <2>1 DEF Boot
    <3>2. phase = "down" /\ UNCHANGED <<owed, file>>
      BY <1>11 DEF Boot
    <3>3. ASSUME NEW s \in owed', inst'[s] = "live" PROVE read'[s] = "online" /\ s \in pending'
      <4>1. s \in Servers /\ s \in owed /\ file[s] = "online"
        BY <3>2 DEF BootInv, TypeOK
      <4>2. s \in loaded
        BY <3>1, <3>3, <4>1 DEF Load
      <4> QED BY <3>1, <4>1, <4>2 DEF Load, ReadStates
    <3> QED BY <2>1, <3>3 DEF BootInv
  <2>2. CASE phase' # "restoring"
    <3>1. phase = "down" /\ UNCHANGED <<phase, owed, file, saving>>
      BY <1>11, <2>2 DEF Boot
    <3> QED BY <3>1 DEF BootInv
  <2> QED BY <2>1, <2>2
<1>12. CASE Serve
  BY <1>2, <1>12 DEF Serve
<1>13. CASE SaveBegins \/ SaveEnds
  <2>1. phase # "down"
    BY <1>13 DEF SaveBegins, SaveEnds, BootInv
  <2>2. UNCHANGED <<phase, inst, pending, owed, read, revived, data>>
    BY <1>13 DEF SaveBegins, SaveEnds
  <2> QED BY <2>1, <2>2 DEF BootInv
<1>14. ASSUME Down PROVE BootInv'
  BY <1>14 DEF Down, BootInv
<1>15. ASSUME NEW w \in Workers, Work(w) PROVE BootInv'
  BY <1>4, <1>5, <1>6, <1>14, <1>15 DEF Work, Panic
<1> QED BY <1>3, <1>7, <1>8, <1>9, <1>10, <1>11, <1>12, <1>13, <1>14, <1>15
        DEF Next, Daemon, Crash, PowerCut, Restores

-----------------------------------------------------------------------------
(* The theorems.                                                            *)

LEMMA InitHolds == Init => IInv
<1> SUFFICES ASSUME Init PROVE IInv
  OBVIOUS
<1>1. TypeOK
  <2>1. JobsType
    BY NoJobIs DEF Init, JobsType
  <2>2. EntryTypes
    BY DEF Init, EntryTypes, Blank, States
  <2>3. BootTypes
    BY BlankIs, BootsAssumption DEF Init, BootTypes
  <2>4. DockTypes
    BY DEF Init, DockTypes, Blank
  <2>5. DiskTypes
    BY BlankIs DEF Init, DiskTypes, Statuses
  <2> QED BY <2>1, <2>2, <2>3, <2>4, <2>5, TypesAre
<1>2. JobInv
  BY NoJobIs DEF Init, JobInv, JobOk
<1>3. EntryInv
  BY DEF Init, EntryInv
<1>4. LockInv
  BY NoJobIs DEF Init, LockInv, LockPCs
<1>5. WaitInv
  BY DEF Init, WaitInv
<1>6. BootInv
  BY DEF Init, BootInv
<1> QED BY <1>1, <1>2, <1>3, <1>4, <1>5, <1>6 DEF IInv

LEMMA StepHolds == IInv /\ [Next]_vars => IInv'
<1> SUFFICES ASSUME IInv, [Next]_vars PROVE IInv'
  OBVIOUS
<1>1. CASE Next
  <2>1. TypeOK'
    BY <1>1, TypeKept DEF IInv
  <2>2. JobInv'
    BY <1>1, JobsKept DEF IInv
  <2>3. EntryInv'
    BY <1>1, EntriesKept DEF IInv
  <2>4. LockInv'
    BY <1>1, LocksKept DEF IInv
  <2>5. WaitInv'
    BY <1>1, WaitsKept DEF IInv
  <2>6. BootInv'
    BY <1>1, BootKept DEF IInv
  <2> QED BY <2>1, <2>2, <2>3, <2>4, <2>5, <2>6 DEF IInv
<1>2. CASE UNCHANGED vars
  <2> USE <1>2 DEF vars, entryVars, bootVars, fileVars, dockVars
  <2>1. TypeOK'
    BY DEF IInv, TypeOK
  <2>2. JobInv'
    BY DEF IInv, JobInv, JobOk
  <2>3. EntryInv' /\ LockInv' /\ WaitInv' /\ BootInv'
    BY DEF IInv, EntryInv, LockInv, WaitInv, BootInv
  <2> QED BY <2>1, <2>2, <2>3 DEF IInv
<1> QED BY <1>1, <1>2

LEMMA Inductive == Spec => []IInv
BY InitHolds, StepHolds, PTL DEF Spec

\* The daemon's records stay what the code assumes of them: every goroutine of a
\* request or of the boot is at a place of its handler, every lock is free,
\* held by a goroutine or wedged, and the file holds known states (Manager,
\* InstallationProcess.Run, HandlePowerAction, PersistStates).
THEOREM LifecycleTypeOK == Spec => []TypeOK
<1>1. IInv => TypeOK
  BY DEF IInv
<1> QED BY Inductive, <1>1, PTL

\* No start or installation that was under way when a server was deleted makes its
\* container run again: Environment.Start calls Docker under the context that
\* CleanupForDestroy has cancelled (deleteServer).
THEOREM DeletedStaysDown == Spec => []DeletedNeverRuns
<1>1. IInv => DeletedNeverRuns
  BY DEF IInv, EntryInv, DeletedNeverRuns
<1> QED BY Inductive, <1>1, PTL

\* The boot workers of rootCmdRun bring back every loaded server that the states file
\* named as online at the last end of the daemon, although PersistStates may
\* overwrite the file while they run.
THEOREM BootRecovers == Spec => []Recovered
<1>1. IInv => Recovered
  BY DEF IInv, BootInv, Recovered
<1> QED BY Inductive, <1>1, PTL

\* An installation container is removed under nobody who waits for it, so the Panel
\* never hears of a success that was none: InstallationProcess.Run keeps one goroutine
\* inside BeforeExecute, Execute and AfterExecute of a server.
THEOREM CutNotReported == Spec => []NoCutInstallReported
<1>1. IInv => NoCutInstallReported
  BY DEF IInv, WaitInv, NoCutInstallReported
<1> QED BY Inductive, <1>1, PTL
=============================================================================

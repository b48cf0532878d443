------------------------------ MODULE Backups ------------------------------
(***************************************************************************)
(* The backups of one server: the goroutine that archives the server's      *)
(* files on the disk or uploads them to a bucket and tells the Panel        *)
(* (wings/server/backup.go, wings/server/backup, archive.go), restores      *)
(* (wings/router/router_server_backup.go), deletions of archives, and the   *)
(* Panel's rows (panel/internal/api/remote/backups.go), reached through the *)
(* retries of the Panel client (wings/remote/http.go).                      *)
(*                                                                         *)
(* A file's content is a version; an archive is the versions it holds, or   *)
(* is torn when its tar stream ends early.  A checksum is the archive       *)
(* itself.  Users and the game write files at any time, answers of the      *)
(* Panel get lost, the daemon crashes and the server is deleted.            *)
(***************************************************************************)
EXTENDS Naturals

CONSTANTS
  Uuids,        \* backups, each requested at most once
  Adapters,     \* the adapters each of them may be requested with
  Files,        \* files of the server
  Restorers,    \* bound: restores at work at the same time
  Casts,        \* bound: the backups and restores that meet in one behaviour
  PartCounts,   \* numbers of parts the Panel may ask for
  MaxAttempts,  \* bound: attempts of a request within its elapsed time
  MaxWrites,    \* bound: writes of users and the game
  Faults        \* disk operations and the stop of the server may fail

ASSUME BoundsAssumption == MaxAttempts \in Nat \ {0} /\ MaxWrites \in Nat \ {0}
ASSUME PartsAssumption == PartCounts \subseteq Nat /\ PartCounts # {}
ASSUME AdaptersAssumption == Adapters \in [Uuids -> SUBSET {"wings", "s3"}]
ASSUME CastsAssumption == Casts \subseteq SUBSET (Uuids \union Restorers)
ASSUME FaultsAssumption == Faults \in BOOLEAN

VARIABLES
  tree,       \* the server's files; version 0 is no file
  clock,      \* writes so far
  live,       \* the server's context is not cancelled
  restoring,  \* s.restoring
  suspended,  \* s.cfg.Suspended, as restores and the deletion set it
  dir,        \* the server's directory of archives exists
  disk,       \* the archive at a backup's path
  object,     \* the uploaded object
  row,        \* the Panel's row: its state, or the archive's checksum
  job,        \* the goroutine of each backup
  del,        \* a deletion of an archive
  res,        \* the restores
  cast,       \* the member of Casts this behaviour is about
  asked       \* backups under way whose archive was deleted by request

vars == <<tree, clock, live, restoring, suspended, dir, disk, object, row, job, del, res, cast, asked>>

Versions == 0..MaxWrites
Empty    == [f \in Files |-> 0]

\* An archive, or in its place a state without one.
Archive(st, body, torn) == [st |-> st, body |-> body, torn |-> torn]
Is(st)    == Archive(st, Empty, FALSE)
None      == Is("none")
Stored(a) == a.st = "whole"
Archives(st) == [st : st, body : [Files -> Versions], torn : BOOLEAN]

NoJob == [pc |-> "new", adapter |-> "wings", todo |-> {}, head |-> <<>>, body |-> Empty,
          torn |-> FALSE, parts |-> 0, spent |-> FALSE, tries |-> 0]
NoDel == [pc |-> "idle", of |-> "none"]
NoRes == [pc |-> "idle", of |-> "none", adapter |-> "wings", from |-> None, todo |-> {},
          ok |-> FALSE, stray |-> Files]

Init ==
  /\ tree = [f \in Files |-> 1] /\ clock = 1
  /\ live = TRUE /\ restoring = FALSE /\ suspended = FALSE
  /\ dir = FALSE
  /\ disk = [u \in Uuids |-> None] /\ object = [u \in Uuids |-> None]
  /\ row = [u \in Uuids |-> Is("pending")]
  /\ job = [u \in Uuids |-> NoJob]
  /\ del = NoDel /\ asked = {} /\ cast \in Casts
  /\ res = [r \in Restorers |-> NoRes]

-----------------------------------------------------------------------------
(* Users and the game.                                                      *)

\* Restore r after somebody else has written the files fs, or removed them.
Strayed(r, fs) == [res[r] EXCEPT !.stray = @ \union fs]

\* A write of f, or its removal.
Touch(f, v) ==
  /\ tree' = [tree EXCEPT ![f] = v]
  /\ res' = [r \in Restorers |-> Strayed(r, {f})]

Write(f) ==
  /\ clock < MaxWrites /\ clock' = clock + 1
  /\ \E v \in {0, clock'} : v # tree[f] /\ Touch(f, v)
  /\ UNCHANGED <<cast, live, restoring, suspended, dir, disk, object, row, job, del, asked>>

-----------------------------------------------------------------------------
(* The goroutine of a backup.                                               *)

Set(u, upd) == job' = [job EXCEPT ![u] = upd]
Goto(u, l)  == Set(u, [job[u] EXCEPT !.pc = l, !.tries = 0])
Path(u)     == Stored(disk[u])

\* The goroutine goes on, or ends, without what it has archived.
Without(u, l) == [NoJob EXCEPT !.pc = l, !.adapter = job[u].adapter]
Drop(u, l)    == Set(u, Without(u, l))

\* The goroutine of u ends; kept is a confirmed backup nobody has asked to delete.
End(u, ok) ==
  /\ Drop(u, IF ok /\ u \notin asked THEN "kept" ELSE "ended")
  /\ asked' = asked \ {u}

\* Generate has failed: an S3 backup still removes what it has written.  The end
\* that the deferred Close calls write into a failed archive is left out.
GenerateFails(u) == Drop(u, IF job[u].adapter = "s3" THEN "discard" ELSE "failure")

\* postServerBackup and the files to ignore, from the request or .pelicanignore.
PostServerBackup(u) ==
  /\ live /\ job[u].pc = "new" /\ u \in cast
  /\ \E a \in Adapters[u], ignored \in SUBSET Files :
       Set(u, [NoJob EXCEPT !.pc = "stat", !.adapter = a, !.todo = Files \ ignored])
  /\ UNCHANGED <<cast, tree, clock, live, restoring, suspended, dir, disk, object, row, del, asked, res>>

\* Generate looks for the directory.
StatDir(u) ==
  /\ job[u].pc = "stat"
  /\ Goto(u, IF dir THEN "open" ELSE "mkdir")
  /\ UNCHANGED <<cast, tree, clock, live, restoring, suspended, dir, disk, object, row, del, asked, res>>

\* Mkdir fails when another backup has made it by now.
Mkdir(u) ==
  /\ job[u].pc = "mkdir"
  /\ \/ ~dir /\ dir' = TRUE /\ Goto(u, "open")
     \/ (dir \/ Faults) /\ GenerateFails(u) /\ UNCHANGED dir
  /\ UNCHANGED <<cast, tree, clock, live, restoring, suspended, disk, object, row, del, asked, res>>

\* Archive.Create opens the file, unless the directory is gone again.
OpenArchive(u) ==
  /\ job[u].pc = "open"
  /\ \/ dir /\ disk' = [disk EXCEPT ![u] = Is("partial")] /\ Goto(u, "walk")
     \/ (~dir \/ Faults) /\ GenerateFails(u) /\ UNCHANGED disk
  /\ UNCHANGED <<cast, tree, clock, live, restoring, suspended, dir, object, row, del, asked, res>>

\* addToArchive up to the header of f, a file that may have vanished.
Header(u) ==
  /\ job[u].pc = "walk" /\ job[u].head = <<>>
  /\ \E f \in job[u].todo :
       \/ /\ live /\ ~job[u].torn
          /\ Set(u, [job[u] EXCEPT !.todo = @ \ {f},
                                   !.head = IF tree[f] = 0 THEN <<>> ELSE <<f, tree[f]>>])
       \/ (~live \/ job[u].torn \/ Faults) /\ GenerateFails(u)
  /\ UNCHANGED <<cast, tree, clock, live, restoring, suspended, dir, disk, object, row, del, asked, res>>

\* The content is copied.  A file that has vanished or shrunk since the header
\* was written leaves the entry short, which only the next header notices.
Copy(u) ==
  /\ job[u].pc = "walk" /\ job[u].head # <<>>
  /\ LET f == job[u].head[1] IN
     \/ /\ tree[f] # 0
        /\ Set(u, [job[u] EXCEPT !.head = <<>>, !.body[f] = tree[f]])
     \/ /\ tree[f] # job[u].head[2]
        /\ Set(u, [job[u] EXCEPT !.head = <<>>, !.torn = TRUE])
     \/ Faults /\ GenerateFails(u)
  /\ UNCHANGED <<cast, tree, clock, live, restoring, suspended, dir, disk, object, row, del, asked, res>>

Made(u) == Archive("whole", job[u].body, job[u].torn)

\* The end of the walk: the writers are closed, their errors dropped.  A path that
\* was unlinked meanwhile stays gone.
CloseArchive(u) ==
  /\ job[u].pc = "walk" /\ job[u].todo = {} /\ job[u].head = <<>>
  /\ disk' = [disk EXCEPT ![u] = IF @ = None THEN @ ELSE Made(u)]
  /\ Goto(u, IF job[u].adapter = "s3" THEN "urls" ELSE "details")
  /\ UNCHANGED <<cast, tree, clock, live, restoring, suspended, dir, object, row, del, asked, res>>

\* generateRemoteRequest asks the Panel for the parts, with retries.
GetUploadURLs(u) ==
  /\ job[u].pc = "urls"
  /\ \/ /\ Path(u) /\ row[u] # None
        /\ \E n \in PartCounts :
             Set(u, [job[u] EXCEPT !.pc = IF n = 0 THEN "details" ELSE "part", !.parts = n])
     \/ GenerateFails(u)
  /\ UNCHANGED <<cast, tree, clock, live, restoring, suspended, dir, disk, object, row, del, asked, res>>

\* Mutant: a retry that sends nothing counts as an upload.
UploadPartAnyway(u) ==
  /\ job[u].pc = "part"
  /\ \/ /\ live
        /\ IF job[u].parts > 1
           THEN /\ Set(u, [job[u] EXCEPT !.parts = @ - 1, !.tries = 0, !.torn = @ \/ job[u].spent, !.spent = FALSE])
                /\ UNCHANGED object
           ELSE /\ Goto(u, "details")
                /\ object' = [object EXCEPT ![u] = [Made(u) EXCEPT !.torn = @ \/ job[u].spent]]
     \/ /\ job[u].tries < MaxAttempts
        /\ \E s \in {job[u].spent, TRUE} : Set(u, [job[u] EXCEPT !.tries = @ + 1, !.spent = s])
        /\ UNCHANGED object
     \/ GenerateFails(u) /\ UNCHANGED object
  /\ UNCHANGED <<cast, tree, clock, live, restoring, suspended, dir, disk, row, del, asked, res>>

\* uploadPart.  An attempt that fails may have read the part from the archive, and
\* a later one then has nothing to send; S3 refuses it.  The last part completes
\* the object.
UploadPart(u) ==
  /\ job[u].pc = "part"
  /\ \/ /\ live /\ ~job[u].spent
        /\ IF job[u].parts > 1
           THEN Set(u, [job[u] EXCEPT !.parts = @ - 1, !.tries = 0]) /\ UNCHANGED object
           ELSE Goto(u, "details") /\ object' = [object EXCEPT ![u] = Made(u)]
     \/ /\ job[u].tries < MaxAttempts  \* 5xx, or no connection
        /\ \E s \in {job[u].spent, TRUE} : Set(u, [job[u] EXCEPT !.tries = @ + 1, !.spent = s])
        /\ UNCHANGED object
     \/ GenerateFails(u) /\ UNCHANGED object  \* 4xx, the context, or no more attempts
  /\ UNCHANGED <<cast, tree, clock, live, restoring, suspended, dir, disk, row, del, asked, res>>

\* Details reads the archive at its path.
Details(u) ==
  /\ job[u].pc = "details"
  /\ \/ Path(u) /\ Goto(u, IF job[u].adapter = "s3" THEN "discard ok" ELSE "success")
     \/ (~Path(u) \/ Faults) /\ GenerateFails(u)
  /\ UNCHANGED <<cast, tree, clock, live, restoring, suspended, dir, disk, object, row, del, asked, res>>

\* The deferred Remove of an S3 backup; its error is ignored.
Discard(u) ==
  /\ job[u].pc \in {"discard", "discard ok"}
  /\ disk' = [disk EXCEPT ![u] = None]
  /\ Goto(u, IF job[u].pc = "discard" THEN "failure" ELSE "success")
  /\ UNCHANGED <<cast, tree, clock, live, restoring, suspended, dir, object, row, del, asked, res>>

-----------------------------------------------------------------------------
(* Telling the Panel.                                                       *)

\* BackupHandler.Status.
Status(u, v) == row' = [row EXCEPT ![u] = IF @ = None THEN @ ELSE v]

\* Mutant: a request is repeated for ever.
AttemptForever(u, v, ok, err) ==
  \/ live /\ row[u] # None /\ Status(u, v) /\ ok
  \/ /\ live
     /\ Set(u, [job[u] EXCEPT !.tries = @ + 1])
     /\ (Status(u, v) \/ UNCHANGED row)
     /\ UNCHANGED asked
  \/ (~live \/ row[u] = None) /\ err /\ UNCHANGED row

\* An attempt of client.request: it may not arrive, or its answer may get lost, and
\* is then repeated; a cancelled context and a 404 are final.
Attempt(u, v, ok, err) ==
  \/ live /\ row[u] # None /\ Status(u, v) /\ ok
  \/ /\ live /\ job[u].tries < MaxAttempts
     /\ Set(u, [job[u] EXCEPT !.tries = @ + 1])
     /\ (Status(u, v) \/ UNCHANGED row)
     /\ UNCHANGED asked
  \/ /\ ~live \/ row[u] = None \/ job[u].tries = MaxAttempts
     /\ err /\ UNCHANGED row

\* notifyPanelOfBackup of a success, and the removal of the archive when it fails.
NotifySuccess(u) ==
  /\ job[u].pc = "success"
  /\ Attempt(u, Made(u), End(u, TRUE),
             IF job[u].adapter = "s3" THEN End(u, FALSE) ELSE Drop(u, "unlink") /\ UNCHANGED asked)
  /\ UNCHANGED <<cast, tree, clock, live, restoring, suspended, dir, disk, object, del, res>>

\* notifyPanelOfBackup of a failure: its own failure is only logged.
NotifyFailure(u) ==
  /\ job[u].pc = "failure"
  /\ Attempt(u, Is("failed"), End(u, FALSE), End(u, FALSE))
  /\ UNCHANGED <<cast, tree, clock, live, restoring, suspended, dir, disk, object, del, res>>

\* LocalBackup.Remove of an archive the Panel does not know of.
Unlink(u) ==
  /\ job[u].pc = "unlink"
  /\ disk' = [disk EXCEPT ![u] = None]
  /\ IF disk[u] = None THEN End(u, FALSE) ELSE Goto(u, "readdir") /\ UNCHANGED asked
  /\ UNCHANGED <<cast, tree, clock, live, restoring, suspended, dir, object, row, del, res>>

NoArchives == \A u \in Uuids : disk[u] = None

ReadDir(u) ==
  /\ job[u].pc = "readdir"
  /\ IF NoArchives THEN Goto(u, "rmdir") /\ UNCHANGED asked ELSE End(u, FALSE)
  /\ UNCHANGED <<cast, tree, clock, live, restoring, suspended, dir, disk, object, row, del, res>>

\* Mutant: the directory is removed with what it holds by now.
RemoveDirAll == dir' = FALSE /\ disk' = [u \in Uuids |-> None]

\* os.Remove of the directory fails when it is not empty.
RemoveDir ==
  /\ dir' = (dir /\ ~NoArchives)
  /\ UNCHANGED disk

Rmdir(u) ==
  /\ job[u].pc = "rmdir" /\ RemoveDir
  /\ End(u, FALSE)
  /\ UNCHANGED <<cast, tree, clock, live, restoring, suspended, object, row, del, res>>

-----------------------------------------------------------------------------
(* Deleting archives and rows.                                              *)

\* The archives of us are deleted by request.
Asked(us) ==
  /\ job' = [u \in Uuids |-> IF u \in us /\ job[u].pc = "kept" THEN Without(u, "ended") ELSE job[u]]
  /\ asked' = asked \union {u \in us : job[u].pc \notin {"new", "kept", "ended"}}

\* deleteServerBackup up to the location of the archive.
DeleteServerBackup(u) ==
  /\ live /\ del.pc = "idle" /\ disk[u] # None
  /\ del' = [pc |-> "unlink", of |-> u]
  /\ UNCHANGED <<cast, tree, clock, live, restoring, suspended, dir, disk, object, row, job, asked, res>>

\* LocalBackup.Remove.
DeleteUnlinks ==
  /\ del.pc = "unlink"
  /\ disk' = [disk EXCEPT ![del.of] = None] /\ Asked({del.of})
  /\ del' = IF disk[del.of] = None THEN NoDel ELSE [del EXCEPT !.pc = "readdir"]
  /\ UNCHANGED <<cast, tree, clock, live, restoring, suspended, dir, object, row, res>>

DeleteReadsDir ==
  /\ del.pc = "readdir"
  /\ del' = IF NoArchives THEN [pc |-> "rmdir", of |-> "none"] ELSE NoDel
  /\ UNCHANGED <<cast, tree, clock, live, restoring, suspended, dir, disk, object, row, job, asked, res>>

DeleteRmdir ==
  /\ del.pc = "rmdir" /\ RemoveDir
  /\ del' = NoDel
  /\ UNCHANGED <<cast, tree, clock, live, restoring, suspended, object, row, job, asked, res>>

\* RemoveAllServerBackups.
RemoveAll ==
  /\ dir' = FALSE /\ disk' = [u \in Uuids |-> None]
  /\ Asked(Uuids)

DeleteAllServerBackups ==
  /\ live /\ dir /\ RemoveAll
  /\ UNCHANGED <<cast, tree, clock, live, restoring, suspended, object, row, del, res>>

\* deleteServer: the server is suspended and its context ends; the archives go if the
\* daemon is so configured.
DeleteServer ==
  /\ live /\ live' = FALSE /\ suspended' = TRUE
  /\ RemoveAll \/ UNCHANGED <<dir, disk, job, asked>>
  /\ UNCHANGED <<cast, tree, clock, restoring, object, row, del, res>>

\* BackupHandler.Delete of the Panel's client API.
DeleteRow(u) ==
  /\ u \in cast /\ row[u] # None
  /\ row' = [row EXCEPT ![u] = None]
  /\ UNCHANGED <<cast, tree, clock, live, restoring, suspended, dir, disk, object, job, del, asked, res>>

-----------------------------------------------------------------------------
(* Restoring.                                                               *)

Res(r, upd) == res' = [res EXCEPT ![r] = upd]

\* postServerRestoreBackup sets the flag.  That nobody asks for an archive still
\* being written is assumed: the code does not look.
PostServerRestore(r) ==
  /\ live /\ res[r].pc = "idle" /\ r \in cast
  /\ restoring' = TRUE
  /\ \E u \in Uuids, t \in BOOLEAN : \E a \in Adapters[u] :
       /\ job[u].pc \in {"kept", "ended"}
       /\ Res(r, [NoRes EXCEPT !.pc = IF t THEN "truncate" ELSE "locate", !.of = u,
                               !.adapter = a])
  /\ UNCHANGED <<cast, tree, clock, live, suspended, dir, disk, object, row, job, del, asked>>

\* Mutant: the early return forgets the flag.
AbortForgetful(r) == Res(r, NoRes) /\ UNCHANGED restoring

\* The deferred end of a request that has failed.
Abort(r) == Res(r, NoRes) /\ restoring' = FALSE

\* TruncateRootDirectory.
Truncate(r) ==
  /\ res[r].pc = "truncate"
  /\ \/ /\ tree' = Empty
        /\ res' = [q \in Restorers |->
                    IF q = r THEN [res[r] EXCEPT !.pc = "locate", !.stray = {}] ELSE Strayed(q, Files)]
        /\ UNCHANGED restoring
     \/ /\ Faults /\ restoring' = FALSE  \* some of the files are gone
        /\ \E gone \in SUBSET Files : tree' = [f \in Files |-> IF f \in gone THEN 0 ELSE tree[f]]
        /\ res' = [q \in Restorers |-> IF q = r THEN NoRes ELSE Strayed(q, Files)]
  /\ UNCHANGED <<cast, clock, live, suspended, dir, disk, object, row, job, del, asked>>

\* LocateLocal, or the download of an S3 backup, whose stream is open from here on.
Locate(r) ==
  /\ res[r].pc = "locate"
  /\ LET s3 == res[r].adapter = "s3"
         a  == IF s3 THEN object[res[r].of] ELSE disk[res[r].of]
     IN \/ /\ a # None /\ (s3 => live)
           /\ Res(r, [res[r] EXCEPT !.pc = "suspend", !.from = IF s3 THEN a ELSE None])
           /\ UNCHANGED restoring
        \/ (a = None \/ s3) /\ Abort(r)
  /\ UNCHANGED <<cast, tree, clock, live, suspended, dir, disk, object, row, job, del, asked>>

\* RestoreBackup suspends the server and waits for it to stop.
SuspendAndStop(r) ==
  /\ res[r].pc = "suspend"
  /\ suspended' = TRUE
  /\ \/ Res(r, [res[r] EXCEPT !.pc = "open"])
     \/ (~live \/ Faults) /\ Res(r, [NoRes EXCEPT !.pc = "report"])
  /\ UNCHANGED <<cast, tree, clock, live, restoring, dir, disk, object, row, job, del, asked>>

Entries(a) == {f \in Files : a.body[f] # 0}

\* Extraction runs into the end of an unfinished or torn archive.
Broken(a) == a.st = "partial" \/ a.torn

\* LocalBackup.Restore opens the archive.
OpenRestore(r) ==
  /\ res[r].pc = "open"
  /\ LET u == res[r].of
         a == IF res[r].adapter = "s3" THEN res[r].from
              ELSE disk[u]
     IN \/ /\ res[r].adapter = "s3" \/ disk[u] # None
           /\ Res(r, [NoRes EXCEPT !.pc = "extract", !.from = a, !.todo = Entries(a),
                                   !.stray = res[r].stray])
        \/ /\ res[r].adapter = "wings" /\ disk[u] = None
           /\ Res(r, [NoRes EXCEPT !.pc = "report"])
  /\ UNCHANGED <<cast, tree, clock, live, restoring, suspended, dir, disk, object, row, job, del, asked>>

\* Mutant: a file that cannot be written is passed over.
ExtractSkips(r) ==
  /\ res[r].pc = "extract"
  /\ \/ \E f \in res[r].todo :
          /\ \E v \in {tree[f], res[r].from.body[f]} : tree' = [tree EXCEPT ![f] = v]
          /\ res' = [q \in Restorers |->
                      IF q = r THEN [res[r] EXCEPT !.todo = @ \ {f}, !.stray = @ \ {f}] ELSE Strayed(q, {f})]
     \/ /\ res[r].todo = {} /\ live
        /\ Res(r, [res[r] EXCEPT !.pc = "report", !.ok = ~Broken(res[r].from)]) /\ UNCHANGED tree
     \/ ~live /\ Res(r, [NoRes EXCEPT !.pc = "report"]) /\ UNCHANGED tree
  /\ UNCHANGED <<cast, clock, live, restoring, suspended, dir, disk, object, row, job, del, asked>>

\* An entry is written, or an error ends the extraction.
Extract(r) ==
  /\ res[r].pc = "extract"
  /\ \/ \E f \in res[r].todo :
          /\ live
          /\ tree' = [tree EXCEPT ![f] = res[r].from.body[f]]
          /\ res' = [q \in Restorers |->
                      IF q = r THEN [res[r] EXCEPT !.todo = @ \ {f}, !.stray = @ \ {f}] ELSE Strayed(q, {f})]
     \/ /\ res[r].todo = {} /\ live
        /\ Res(r, [res[r] EXCEPT !.pc = "report", !.ok = ~Broken(res[r].from)]) /\ UNCHANGED tree
     \/ (~live \/ Broken(res[r].from) \/ Faults)
        /\ Res(r, [NoRes EXCEPT !.pc = "report"]) /\ UNCHANGED tree
  /\ UNCHANGED <<cast, clock, live, restoring, suspended, dir, disk, object, row, job, del, asked>>

\* SendRestorationStatus, which the Panel ignores, and the end of RestoreBackup.
ReportRestore(r) ==
  /\ res[r].pc = "report"
  /\ suspended' = FALSE
  /\ Res(r, [NoRes EXCEPT !.pc = "clear"])
  /\ UNCHANGED <<cast, tree, clock, live, restoring, dir, disk, object, row, job, del, asked>>

\* The end of the goroutine.
ClearRestoring(r) ==
  /\ res[r].pc = "clear" /\ Abort(r)
  /\ UNCHANGED <<cast, tree, clock, live, suspended, dir, disk, object, row, job, del, asked>>

-----------------------------------------------------------------------------
\* The daemon crashes and comes back; what was under way is lost.
Crash ==
  /\ job' = [u \in Uuids |-> IF job[u].pc \in {"new", "kept"} THEN job[u]
                             ELSE Without(u, "ended")]
  /\ res' = [r \in Restorers |-> NoRes] /\ del' = NoDel
  /\ restoring' = FALSE /\ suspended' = FALSE /\ asked' = {}
  /\ UNCHANGED <<cast, tree, clock, live, dir, disk, object, row>>

Backup(u) ==
  \/ StatDir(u) \/ Mkdir(u) \/ OpenArchive(u) \/ Header(u) \/ Copy(u) \/ CloseArchive(u)
  \/ GetUploadURLs(u) \/ UploadPart(u) \/ Details(u) \/ Discard(u)
  \/ NotifySuccess(u) \/ NotifyFailure(u) \/ Unlink(u) \/ ReadDir(u) \/ Rmdir(u)

Deletes == DeleteUnlinks \/ DeleteReadsDir \/ DeleteRmdir

Restore(r) ==
  \/ Truncate(r) \/ Locate(r) \/ SuspendAndStop(r) \/ OpenRestore(r) \/ Extract(r)
  \/ ReportRestore(r) \/ ClearRestoring(r)

Next ==
  \/ \E f \in Files : Write(f)
  \/ \E u \in Uuids : PostServerBackup(u) \/ Backup(u) \/ DeleteServerBackup(u) \/ DeleteRow(u)
  \/ \E r \in Restorers : PostServerRestore(r) \/ Restore(r)
  \/ Deletes \/ DeleteAllServerBackups \/ DeleteServer \/ Crash

Spec == Init /\ [][Next]_vars

-----------------------------------------------------------------------------
(* Properties.                                                              *)

TypeOK ==
  /\ tree \in [Files -> Versions] /\ clock \in Nat
  /\ live \in BOOLEAN /\ restoring \in BOOLEAN /\ suspended \in BOOLEAN /\ dir \in BOOLEAN
  /\ \A u \in Uuids :
       /\ disk[u] \in Archives({"none", "partial", "whole"})
       /\ object[u] \in Archives({"none", "whole"})
       /\ row[u] \in Archives({"none", "pending", "failed", "whole"})
       /\ job[u].body \in [Files -> Versions] /\ job[u].todo \subseteq Files
       /\ job[u].tries \in 0..MaxAttempts
  /\ asked \subseteq Uuids /\ cast \in Casts
  /\ \A r \in Restorers : res[r].todo \subseteq Files /\ res[r].from \in Archives({"none", "partial", "whole"})

\* What the Panel has recorded as a successful backup has the recorded checksum, in
\* the directory and, once every part was uploaded, in the bucket, whatever was
\* deleted, retried or uploaded again meanwhile (Server.Backup, uploadPart).
RecordedMatches ==
  \A u \in Uuids : Stored(row[u]) =>
    /\ disk[u] \in {None, row[u]}
    /\ object[u] \in {None, row[u]}

\* The archive of a local backup whose success the Panel has confirmed stays until
\* its deletion is asked for: other backups that fail, and the removal of the
\* directory when it seems empty, do not take it away (LocalBackup.Remove).
KeptUntilDeleted ==
  \A u \in Uuids :
    job[u].pc = "kept" /\ job[u].adapter = "wings" => Stored(disk[u])

\* A server without restores is neither restoring nor suspended by one: every early
\* return and every failure resets what the request has set, also when restores
\* overlap (postServerRestoreBackup, RestoreBackup).
FlagsSettle ==
  (\A r \in Restorers : res[r].pc = "idle") => ~restoring /\ (live => ~suspended)

\* A restore that succeeds leaves every file as its archive has it, unless somebody
\* else has written the file after this restore did: what other restores and the game
\* wrote earlier is overwritten, and what was there before a truncation is gone
\* (postServerRestoreBackup, LocalBackup.Restore).
RestoredFaithfully ==
  \A r \in Restorers : res[r].pc = "report" /\ res[r].ok =>
    \A f \in Files \ res[r].stray : tree[f] = res[r].from.body[f]
=============================================================================

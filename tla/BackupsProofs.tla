--------------------------- MODULE BackupsProofs ---------------------------
(***************************************************************************)
(* Backups, for every set of backups, files and restores.                   *)
(*                                                                         *)
(* Four invariants, each inductive with the types of the variables: RowInv  *)
(* follows the archive of a backup through its goroutine, KeptInv says that *)
(* a local backup about to be reported is at its path unless its deletion   *)
(* was asked for, FlagInv names the restores that have set the flags, and   *)
(* TreeInv what an undisturbed restore has made of the files.               *)
(***************************************************************************)
EXTENDS Backups, TLAPS

PCs == {"new", "stat", "mkdir", "open", "walk", "urls", "part", "details", "discard", "discard ok",
        "success", "failure", "unlink", "readdir", "rmdir", "kept", "ended"}
RPCs == {"idle", "truncate", "locate", "suspend", "open", "extract", "report", "clear"}

Kinds == {"none", "partial", "whole"}

JobType == [pc : PCs, adapter : {"wings", "s3"}, todo : SUBSET Files,
            head : {<<>>} \union (Files \X Versions), body : [Files -> Versions],
            torn : BOOLEAN, parts : Nat, spent : BOOLEAN, tries : 0..MaxAttempts]
ResType == [pc : RPCs, of : Uuids \union {"none"}, adapter : {"wings", "s3"},
            from : Archives(Kinds), todo : SUBSET Files, ok : BOOLEAN, stray : SUBSET Files]

\* The types of the variables, with the records in full.
MiscType ==
  /\ tree \in [Files -> Versions] /\ clock \in 1..MaxWrites
  /\ live \in BOOLEAN /\ restoring \in BOOLEAN /\ suspended \in BOOLEAN /\ dir \in BOOLEAN
  /\ asked \subseteq Uuids /\ cast \in Casts
StoreType ==
  /\ disk \in [Uuids -> Archives(Kinds)]
  /\ object \in [Uuids -> Archives({"none", "whole"})]
  /\ row \in [Uuids -> Archives({"none", "pending", "failed", "whole"})]
JobsType == job \in [Uuids -> JobType]
ResOk    == res \in [Restorers -> ResType]
OfOk     == \A r \in Restorers : res[r].pc \in {"truncate", "locate", "suspend", "open"} => res[r].of \in Uuids
DelOk    == /\ del \in [pc : {"idle", "unlink", "readdir", "rmdir"}, of : Uuids \union {"none"}]
            /\ del.pc = "unlink" => del.of \in Uuids

Shape == MiscType /\ StoreType /\ JobsType /\ ResOk /\ OfOk /\ DelOk

\* The archive of u at each place of its goroutine, what is uploaded, and what the
\* Panel can know of it.
RowOk(u) ==
  /\ job[u].pc \in PCs \ {"success", "unlink", "readdir", "rmdir", "kept", "ended"} => ~Stored(row[u])
  /\ job[u].pc \in {"new", "stat", "mkdir", "open"} => disk[u] = None
  /\ job[u].pc = "walk" => disk[u] \in {None, Is("partial")}
  /\ job[u].pc \in {"new", "stat", "mkdir", "open", "walk", "urls", "part"} => object[u] = None
  /\ job[u].pc \in {"urls", "part", "details", "discard ok", "success"} => disk[u] \in {None, Made(u)}
  /\ job[u].pc \in {"details", "discard ok", "success"} => object[u] \in {None, Made(u)}
  /\ job[u].pc = "success" /\ Stored(row[u]) => row[u] = Made(u)
  /\ job[u].pc \in {"unlink", "readdir", "rmdir", "kept", "ended"} /\ Stored(row[u]) =>
       disk[u] \in {None, row[u]} /\ object[u] \in {None, row[u]}

RowInv == \A u \in Uuids : RowOk(u)

\* A local backup that is reported or confirmed is at its path.  The archives that
\* are discarded on the way are those of S3 backups.
KeptOk(u) ==
  /\ job[u].pc = "discard ok" => job[u].adapter = "s3"
  /\ job[u].adapter = "wings" =>
       /\ job[u].pc = "kept" => Stored(disk[u])
       /\ job[u].pc = "success" /\ u \notin asked => Stored(disk[u])

KeptInv == \A u \in Uuids : KeptOk(u)

\* A flag that is set belongs to a restore that will reset it.
FlagInv ==
  /\ restoring => \E r \in Restorers : res[r].pc # "idle"
  /\ live /\ suspended => \E r \in Restorers : res[r].pc \in {"open", "extract", "report"}

\* What a restore knows of the files that nobody else has written since it did.
TreeOk(r) ==
  /\ res[r].pc = "truncate" => res[r].stray = Files
  /\ res[r].pc \in {"locate", "suspend", "open"} => \A f \in Files \ res[r].stray : tree[f] = 0
  /\ res[r].pc = "extract" =>
       \A f \in Files \ res[r].stray : tree[f] = IF f \in res[r].todo THEN 0 ELSE res[r].from.body[f]
  /\ res[r].pc = "report" /\ res[r].ok =>
       \A f \in Files \ res[r].stray : tree[f] = res[r].from.body[f]

TreeInv == \A r \in Restorers : TreeOk(r)

IInv == Shape /\ RowInv /\ KeptInv /\ FlagInv /\ TreeInv

-----------------------------------------------------------------------------
(* Types.                                                                   *)

LEMMA Constant ==
  /\ MaxWrites \in Nat /\ MaxWrites >= 1 /\ MaxAttempts \in Nat
  /\ Versions = 0..MaxWrites /\ 0 \in Versions /\ 1 \in Versions
  /\ Empty \in [Files -> Versions]
  /\ 0 \in 0..MaxAttempts
  BY BoundsAssumption DEF Versions, Empty

LEMMA IsType ==
  ASSUME NEW S, NEW st \in S
  PROVE  Is(st) \in Archives(S)
  BY Constant DEF Is, Archive, Archives

LEMMA NoneType ==
  /\ None \in Archives(Kinds) /\ None \in Archives({"none", "whole"})
  /\ None \in Archives({"none", "pending", "failed", "whole"})
  BY IsType DEF None, Kinds

LEMMA NoJobType == NoJob \in JobType
  BY Constant DEF NoJob, JobType, PCs

LEMMA NoResType == NoRes \in ResType
  BY NoneType DEF NoRes, ResType, RPCs

LEMMA WithoutType ==
  ASSUME JobsType, NEW u \in Uuids, NEW l \in PCs
  PROVE  Without(u, l) \in JobType /\ Without(u, l).pc = l /\ Without(u, l).adapter = job[u].adapter
<1>1. job[u] \in JobType
  BY DEF JobsType
<1> QED BY <1>1, NoJobType DEF Without, JobType

LEMMA MadeType ==
  ASSUME JobsType, NEW u \in Uuids
  PROVE  Made(u) \in Archives({"whole"}) /\ Made(u).st = "whole"
  BY DEF JobsType, JobType, Made, Archive, Archives

\* A step that gives one goroutine a record of the type.
LEMMA SetType ==
  ASSUME JobsType, NEW u \in Uuids, NEW x \in JobType, Set(u, x)
  PROVE  JobsType'
  BY DEF JobsType, Set

LEMMA GotoType ==
  ASSUME JobsType, NEW u \in Uuids, NEW l \in PCs, Goto(u, l)
  PROVE  JobsType'
<1>1. job[u] \in JobType
  BY DEF JobsType
<1>2. [job[u] EXCEPT !.pc = l, !.tries = 0] \in JobType
  BY <1>1, Constant DEF JobType
<1> QED BY <1>2, SetType DEF Goto

LEMMA DropType ==
  ASSUME JobsType, NEW u \in Uuids, NEW l \in PCs, Drop(u, l)
  PROVE  JobsType'
  BY WithoutType, SetType DEF Drop

LEMMA FailsType ==
  ASSUME JobsType, NEW u \in Uuids, GenerateFails(u)
  PROVE  JobsType'
  BY DropType DEF GenerateFails, PCs

LEMMA EndType ==
  ASSUME JobsType, NEW u \in Uuids, NEW ok, End(u, ok)
  PROVE  JobsType'
  BY DropType DEF End, PCs

\* The type of the goroutines is kept by the steps of one.
LEMMA BackupJobs ==
  ASSUME MiscType, JobsType, NEW u \in Uuids, PostServerBackup(u) \/ Backup(u)
  PROVE  JobsType'
<1> job[u] \in JobType /\ tree \in [Files -> Versions]
  BY DEF JobsType, MiscType
<1>0. job[u].tries < MaxAttempts => job[u].tries + 1 \in 0..MaxAttempts
  BY Constant DEF JobType
<1>1. CASE PostServerBackup(u)
  <2>1. PICK a \in Adapters[u], ignored \in SUBSET Files :
          Set(u, [NoJob EXCEPT !.pc = "stat", !.adapter = a, !.todo = Files \ ignored])
    BY <1>1 DEF PostServerBackup
  <2>2. [NoJob EXCEPT !.pc = "stat", !.adapter = a, !.todo = Files \ ignored] \in JobType
    BY NoJobType, AdaptersAssumption DEF JobType, PCs
  <2> QED BY <2>1, <2>2, SetType
<1>2. CASE StatDir(u)
  BY <1>2, GotoType DEF StatDir, PCs
<1>3. CASE Mkdir(u)
  BY <1>3, GotoType, FailsType DEF Mkdir, PCs
<1>4. CASE OpenArchive(u)
  BY <1>4, GotoType, FailsType DEF OpenArchive, PCs
<1>5. CASE Header(u)
  <2>1. PICK f \in job[u].todo :
          \/ Set(u, [job[u] EXCEPT !.todo = @ \ {f}, !.head = IF tree[f] = 0 THEN <<>> ELSE <<f, tree[f]>>])
          \/ GenerateFails(u)
    BY <1>5 DEF Header
  <2>2. f \in Files
    BY DEF JobType
  <2>3. [job[u] EXCEPT !.todo = @ \ {f}, !.head = IF tree[f] = 0 THEN <<>> ELSE <<f, tree[f]>>] \in JobType
    BY <2>2 DEF JobType
  <2> QED BY <2>1, <2>3, SetType, FailsType
<1>6. CASE Copy(u)
  <2> DEFINE f == job[u].head[1]
  <2>1. f \in Files
    BY <1>6 DEF Copy, JobType
  <2>2. [job[u] EXCEPT !.head = <<>>, !.body[f] = tree[f]] \in JobType
    BY <2>1 DEF JobType
  <2>3. [job[u] EXCEPT !.head = <<>>, !.torn = TRUE] \in JobType
    BY DEF JobType
  <2> QED BY <1>6, <2>2, <2>3, SetType, FailsType DEF Copy
<1>7. CASE CloseArchive(u)
  BY <1>7, GotoType DEF CloseArchive, PCs
<1>8. CASE GetUploadURLs(u)
  <2>1. ASSUME NEW n \in PartCounts
        PROVE  [job[u] EXCEPT !.pc = IF n = 0 THEN "details" ELSE "part", !.parts = n] \in JobType
    BY PartsAssumption DEF JobType, PCs
  <2> QED BY <1>8, <2>1, SetType, FailsType DEF GetUploadURLs
<1>9. CASE UploadPart(u)
  <2>1. job[u].parts > 1 => [job[u] EXCEPT !.parts = @ - 1, !.tries = 0] \in JobType
    <3>1. job[u].parts > 1 => job[u].parts - 1 \in Nat
      BY DEF JobType
    <3> QED BY <3>1, Constant DEF JobType
  <2>2. ASSUME job[u].tries < MaxAttempts, NEW s \in {job[u].spent, TRUE}
        PROVE  [job[u] EXCEPT !.tries = @ + 1, !.spent = s] \in JobType
    BY <1>0, <2>2 DEF JobType
  <2> QED BY <1>9, <2>1, <2>2, SetType, GotoType, FailsType DEF UploadPart, PCs
<1>10. CASE Details(u)
  BY <1>10, GotoType, FailsType DEF Details, PCs
<1>11. CASE Discard(u)
  BY <1>11, GotoType DEF Discard, PCs
<1>12. job[u].tries < MaxAttempts => [job[u] EXCEPT !.tries = @ + 1] \in JobType
  BY <1>0 DEF JobType
<1>13. CASE NotifySuccess(u)
  <2> HIDE DEF PCs
  <2>1. "unlink" \in PCs
    BY DEF PCs
  <2> QED BY <1>12, <1>13, <2>1, SetType, EndType, DropType DEF NotifySuccess, Attempt
<1>14. CASE NotifyFailure(u)
  BY <1>12, <1>14, SetType, EndType DEF NotifyFailure, Attempt
<1>15. CASE Unlink(u)
  BY <1>15, EndType, GotoType DEF Unlink, PCs
<1>16. CASE ReadDir(u)
  BY <1>16, EndType, GotoType DEF ReadDir, PCs
<1>17. CASE Rmdir(u)
  BY <1>17, EndType DEF Rmdir
<1> QED BY <1>1, <1>2, <1>3, <1>4, <1>5, <1>6, <1>7, <1>8, <1>9, <1>10, <1>11, <1>13, <1>14, <1>15,
           <1>16, <1>17 DEF Backup

\* Of the other actors, a deletion and a crash end goroutines.
LEMMA AskedJobs ==
  ASSUME JobsType, NEW us, Asked(us)
  PROVE  JobsType'
<1>1. \A u \in Uuids : Without(u, "ended") \in JobType
  BY WithoutType DEF PCs
<1> QED BY <1>1 DEF JobsType, Asked

LEMMA NextJobs ==
  ASSUME Shape, Next
  PROVE  JobsType'
<1> USE DEF Shape
<1>1. ASSUME NEW u \in Uuids, PostServerBackup(u) \/ Backup(u)
      PROVE  JobsType'
  BY <1>1, BackupJobs
<1>2. CASE DeleteUnlinks \/ DeleteAllServerBackups \/ DeleteServer
  <2>1. CASE UNCHANGED job
    BY <2>1 DEF JobsType
  <2> QED BY <1>2, <2>1, AskedJobs DEF DeleteUnlinks, DeleteAllServerBackups, DeleteServer, RemoveAll
<1>3. CASE Crash
  <2>1. \A u \in Uuids : Without(u, "ended") \in JobType
    BY WithoutType, ZenonT(60) DEF PCs
  <2> QED BY <1>3, <2>1 DEF JobsType, Crash
<1>4. CASE UNCHANGED job
  BY <1>4 DEF JobsType
<1>5. ASSUME NEW f \in Files, Write(f) PROVE UNCHANGED job
  BY <1>5 DEF Write
<1>6. ASSUME NEW u \in Uuids, DeleteServerBackup(u) \/ DeleteRow(u) PROVE UNCHANGED job
  BY <1>6 DEF DeleteServerBackup, DeleteRow
<1>7. ASSUME NEW r \in Restorers, PostServerRestore(r) \/ Restore(r) PROVE UNCHANGED job
  BY <1>7 DEF PostServerRestore, Restore, Truncate, Locate, SuspendAndStop, OpenRestore, Extract,
       ReportRestore, ClearRestoring
<1>8. CASE DeleteReadsDir \/ DeleteRmdir
  <2>1. UNCHANGED job
    BY <1>8 DEF DeleteReadsDir, DeleteRmdir
  <2> QED BY <2>1, <1>4
<1> QED BY <1>1, <1>2, <1>3, <1>4, <1>5, <1>6, <1>7, <1>8 DEF Next, Deletes

\* The archives on the disk and in the bucket, and the rows.
LEMMA StatusType ==
  ASSUME StoreType, NEW u \in Uuids, NEW v \in Archives({"none", "pending", "failed", "whole"}),
         Status(u, v) \/ UNCHANGED row
  PROVE  (row \in [Uuids -> Archives({"none", "pending", "failed", "whole"})])'
  BY DEF StoreType, Status

LEMMA BackupStores ==
  ASSUME JobsType, StoreType, NEW u \in Uuids, PostServerBackup(u) \/ Backup(u)
  PROVE  StoreType'
<1> DEFINE A(S) == Archives(S)
           RowKinds == {"none", "pending", "failed", "whole"}
<1>0. Made(u) \in A({"whole"})
  BY MadeType
<1>1. /\ Made(u) \in A(Kinds) /\ Made(u) \in A({"none", "whole"}) /\ Made(u) \in A(RowKinds)
      /\ None \in A(Kinds) /\ Is("partial") \in A(Kinds) /\ Is("failed") \in A(RowKinds)
  <2>1. Made(u) \in A(Kinds) /\ Made(u) \in A({"none", "whole"}) /\ Made(u) \in A(RowKinds)
    BY <1>0 DEF Archives, Kinds
  <2> QED BY <2>1, NoneType, IsType DEF Kinds
<1>2. CASE PostServerBackup(u) \/ StatDir(u) \/ Mkdir(u) \/ Header(u) \/ Copy(u) \/ GetUploadURLs(u) \/ Details(u)
        \/ ReadDir(u)
  <2>1. UNCHANGED <<disk, object, row>>
    BY <1>2 DEF PostServerBackup, StatDir, Mkdir, Header, Copy, GetUploadURLs, Details, ReadDir
  <2> QED BY <2>1, SMTT(60) DEF StoreType
<1>3. CASE OpenArchive(u) \/ CloseArchive(u) \/ Discard(u) \/ Unlink(u) \/ Rmdir(u)
  <2>1. UNCHANGED <<object, row>>
    BY <1>3 DEF OpenArchive, CloseArchive, Discard, Unlink, Rmdir
  <2>2. \/ UNCHANGED disk
        \/ \E a \in {None, Is("partial"), Made(u), disk[u]} : disk' = [disk EXCEPT ![u] = a]
    BY <1>3 DEF OpenArchive, CloseArchive, Discard, Unlink, Rmdir, RemoveDir
  <2> HIDE DEF A
  <2> QED BY <1>1, <2>1, <2>2 DEF StoreType, A
<1>4. CASE UploadPart(u)
  <2>1. UNCHANGED <<disk, row>> /\ (UNCHANGED object \/ object' = [object EXCEPT ![u] = Made(u)])
    BY <1>4 DEF UploadPart
  <2> QED BY <1>1, <2>1 DEF StoreType
<1>5. CASE NotifySuccess(u) \/ NotifyFailure(u)
  <2>1. UNCHANGED <<disk, object>> /\ \E v \in {Made(u), Is("failed")} : Status(u, v) \/ UNCHANGED row
    BY <1>5 DEF NotifySuccess, NotifyFailure, Attempt
  <2> QED BY <1>1, <2>1, StatusType DEF StoreType
<1> QED BY <1>2, <1>3, <1>4, <1>5 DEF Backup

LEMMA NextStores ==
  ASSUME Shape, Next
  PROVE  StoreType'
<1> USE DEF Shape
<1>1. ASSUME NEW u \in Uuids, PostServerBackup(u) \/ Backup(u)
      PROVE  StoreType'
  BY <1>1, BackupStores
<1>2. ASSUME NEW f \in Files, Write(f) PROVE StoreType'
  BY <1>2 DEF Write, StoreType
<1>3. ASSUME NEW u \in Uuids, DeleteServerBackup(u) PROVE StoreType'
  BY <1>3 DEF DeleteServerBackup, StoreType
<1>4. ASSUME NEW u \in Uuids, DeleteRow(u) PROVE StoreType'
  BY <1>4, NoneType DEF DeleteRow, StoreType
<1>5. ASSUME NEW r \in Restorers, PostServerRestore(r) \/ Restore(r) PROVE StoreType'
  <2>1. UNCHANGED <<disk, object, row>>
    BY <1>5 DEF PostServerRestore, Restore, Truncate, Locate, SuspendAndStop, OpenRestore, Extract,
       ReportRestore, ClearRestoring
  <2> QED BY <2>1 DEF StoreType
<1>6. CASE Deletes
  BY <1>6, NoneType DEF Deletes, DeleteUnlinks, DeleteReadsDir, DeleteRmdir, RemoveDir, StoreType
<1>7. CASE DeleteAllServerBackups \/ DeleteServer
  BY <1>7, NoneType DEF DeleteAllServerBackups, DeleteServer, RemoveAll, StoreType
<1>8. CASE Crash
  BY <1>8 DEF Crash, StoreType
<1> QED BY <1>1, <1>2, <1>3, <1>4, <1>5, <1>6, <1>7, <1>8 DEF Next

\* The restores.
LEMMA ResSets ==
  ASSUME ResOk, OfOk, NEW r \in Restorers, NEW x \in ResType, Res(r, x),
         x.pc \in {"truncate", "locate", "suspend", "open"} => x.of \in Uuids
  PROVE  ResOk' /\ OfOk'
  BY DEF ResOk, OfOk, Res

\* A step of r, or of nobody among them, that disturbs the other restores.
LEMMA ResDisturbs ==
  ASSUME ResOk, OfOk, NEW r, NEW x,
         r \in Restorers => /\ x \in ResType
                            /\ x.pc \in {"truncate", "locate", "suspend", "open"} => x.of \in Uuids,
         NEW fs \in SUBSET Files,
         res' = [q \in Restorers |-> IF q = r THEN x ELSE Strayed(q, fs)]
  PROVE  ResOk' /\ OfOk'
<1>1. ASSUME NEW q \in Restorers, q # r
      PROVE  /\ res'[q] \in ResType
             /\ res'[q].pc = res[q].pc /\ res'[q].of = res[q].of
  <2>1. res[q] \in ResType /\ res'[q] = [res[q] EXCEPT !.stray = @ \union fs]
    BY <1>1 DEF ResOk, Strayed
  <2> QED BY <2>1 DEF ResType
<1>2. r \in Restorers => res'[r] = x
  OBVIOUS
<1>3. ResOk'
  BY <1>1, <1>2 DEF ResOk
<1>4. OfOk'
  BY <1>1, <1>2 DEF OfOk
<1> QED BY <1>3, <1>4

\* What each step of a restore makes of it.
LEMMA RestoreRes ==
  ASSUME Shape, NEW r \in Restorers, PostServerRestore(r) \/ Restore(r)
  PROVE  ResOk' /\ OfOk'
<1> res[r] \in ResType
  BY DEF Shape, ResOk
<1> ResOk /\ OfOk
  BY DEF Shape
<1> DEFINE Kept == {"truncate", "locate", "suspend", "open"}
<1>0. NoRes \in ResType /\ NoRes.pc = "idle"
  BY NoResType DEF NoRes
<1>1. CASE PostServerRestore(r)
  <2>1. PICK u \in Uuids, t \in BOOLEAN : \E a \in Adapters[u] :
          Res(r, [NoRes EXCEPT !.pc = IF t THEN "truncate" ELSE "locate", !.of = u, !.adapter = a])
    BY <1>1 DEF PostServerRestore
  <2>2. PICK a \in Adapters[u] :
          Res(r, [NoRes EXCEPT !.pc = IF t THEN "truncate" ELSE "locate", !.of = u, !.adapter = a])
    BY <2>1
  <2> DEFINE x == [NoRes EXCEPT !.pc = IF t THEN "truncate" ELSE "locate", !.of = u, !.adapter = a]
  <2>3. a \in {"wings", "s3"}
    BY AdaptersAssumption
  <2>4. x \in ResType /\ x.of = u
    BY <1>0, <2>3 DEF ResType, RPCs
  <2> HIDE DEF x
  <2> QED BY <2>2, <2>4, ResSets DEF x
<1>2. CASE Truncate(r)
  <2>1. [res[r] EXCEPT !.pc = "locate", !.stray = {}] \in ResType
    BY DEF ResType, RPCs
  <2>2. [res[r] EXCEPT !.pc = "locate", !.stray = {}].of \in Uuids
    BY <1>2 DEF Truncate, ResType, OfOk
  <2>3. CASE res' = [q \in Restorers |->
                      IF q = r THEN [res[r] EXCEPT !.pc = "locate", !.stray = {}] ELSE Strayed(q, Files)]
    BY <2>1, <2>2, <2>3, ResDisturbs
  <2>4. CASE res' = [q \in Restorers |-> IF q = r THEN NoRes ELSE Strayed(q, Files)]
    BY <1>0, <2>4, ResDisturbs
  <2> QED BY <1>2, <2>3, <2>4 DEF Truncate
<1>3. CASE Locate(r)
  <2> DEFINE s3 == res[r].adapter = "s3"
             a  == IF s3 THEN object[res[r].of] ELSE disk[res[r].of]
             x  == [res[r] EXCEPT !.pc = "suspend", !.from = IF s3 THEN a ELSE None]
  <2>1. Res(r, x) \/ Res(r, NoRes)
    BY <1>3 DEF Locate, Abort
  <2>2. res[r].of \in Uuids
    BY <1>3 DEF Locate, OfOk
  <2>3. (IF s3 THEN a ELSE None) \in Archives(Kinds)
    BY <2>2, NoneType DEF Shape, StoreType, Archives, Kinds
  <2>4. x \in ResType /\ x.of = res[r].of
    <3> HIDE DEF a, s3
    <3> QED BY <2>3 DEF ResType, RPCs
  <2> HIDE DEF x
  <2> QED BY <1>0, <2>1, <2>2, <2>4, ResSets
<1>4. CASE SuspendAndStop(r)
  <2>1. [res[r] EXCEPT !.pc = "open"] \in ResType /\ [res[r] EXCEPT !.pc = "open"].of \in Uuids
    BY <1>4 DEF SuspendAndStop, ResType, RPCs, OfOk
  <2>2. [NoRes EXCEPT !.pc = "report"] \in ResType /\ [NoRes EXCEPT !.pc = "report"].pc = "report"
    BY <1>0 DEF ResType, RPCs
  <2> QED BY <1>4, <2>1, <2>2, ResSets DEF SuspendAndStop
<1>5. CASE OpenRestore(r)
  <2> DEFINE a == IF res[r].adapter = "s3" THEN res[r].from ELSE disk[res[r].of]
             x == [NoRes EXCEPT !.pc = "extract", !.from = a, !.todo = Entries(a),
                                !.stray = res[r].stray]
  <2>1. Res(r, x) \/ Res(r, [NoRes EXCEPT !.pc = "report"])
    BY <1>5 DEF OpenRestore
  <2>2. a \in Archives(Kinds)
    BY <1>5 DEF OpenRestore, OfOk, Shape, StoreType, ResType
  <2>3. x \in ResType /\ x.pc = "extract"
    <3> HIDE DEF a
    <3> QED BY <1>0, <2>2 DEF ResType, RPCs, Entries
  <2>4. [NoRes EXCEPT !.pc = "report"] \in ResType /\ [NoRes EXCEPT !.pc = "report"].pc = "report"
    BY <1>0 DEF ResType, RPCs
  <2> HIDE DEF x
  <2> QED BY <2>1, <2>3, <2>4, ResSets
<1>6. CASE Extract(r)
  <2>1. [NoRes EXCEPT !.pc = "report"] \in ResType /\ [NoRes EXCEPT !.pc = "report"].pc = "report"
    BY <1>0 DEF ResType, RPCs
  <2>2. /\ [res[r] EXCEPT !.pc = "report", !.ok = ~Broken(res[r].from)] \in ResType
        /\ [res[r] EXCEPT !.pc = "report", !.ok = ~Broken(res[r].from)].pc = "report"
    <3>1. (~Broken(res[r].from)) \in BOOLEAN
      BY DEF Broken
    <3> QED BY <3>1 DEF ResType, RPCs
  <2>3. ASSUME NEW f \in res[r].todo
        PROVE  /\ [res[r] EXCEPT !.todo = @ \ {f}, !.stray = @ \ {f}] \in ResType
               /\ [res[r] EXCEPT !.todo = @ \ {f}, !.stray = @ \ {f}].pc = "extract"
    BY <1>6 DEF Extract, ResType
  <2>4. CASE \E f \in res[r].todo :
               res' = [q \in Restorers |->
                      IF q = r THEN [res[r] EXCEPT !.todo = @ \ {f}, !.stray = @ \ {f}] ELSE Strayed(q, {f})]
    <3>1. PICK f \in res[r].todo :
            res' = [q \in Restorers |->
                      IF q = r THEN [res[r] EXCEPT !.todo = @ \ {f}, !.stray = @ \ {f}] ELSE Strayed(q, {f})]
      BY <2>4
    <3> DEFINE x == [res[r] EXCEPT !.todo = @ \ {f}, !.stray = @ \ {f}]
    <3>2. x \in ResType /\ x.pc = "extract"
      BY <2>3
    <3>3. res' = [q \in Restorers |-> IF q = r THEN x ELSE Strayed(q, {f})]
      BY <3>1
    <3>4. {f} \in SUBSET Files
      BY DEF ResType
    <3> HIDE DEF x
    <3> QED BY <3>2, <3>3, <3>4, ResDisturbs
  <2> QED BY <1>6, <2>1, <2>2, <2>4, ResSets DEF Extract
<1>7. CASE ReportRestore(r)
  <2>1. [NoRes EXCEPT !.pc = "clear"] \in ResType /\ [NoRes EXCEPT !.pc = "clear"].pc = "clear"
    BY <1>0 DEF ResType, RPCs
  <2> QED BY <1>7, <2>1, ResSets DEF ReportRestore
<1>8. CASE ClearRestoring(r)
  BY <1>0, <1>8, ResSets DEF ClearRestoring, Abort
<1> QED BY <1>1, <1>2, <1>3, <1>4, <1>5, <1>6, <1>7, <1>8 DEF Restore

LEMMA NextRes ==
  ASSUME Shape, Next
  PROVE  ResOk' /\ OfOk'
<1>1. ASSUME NEW r \in Restorers, PostServerRestore(r) \/ Restore(r) PROVE ResOk' /\ OfOk'
  BY <1>1, RestoreRes
<1>2. ASSUME NEW f \in Files, Write(f) PROVE ResOk' /\ OfOk'
  <2>1. res' = [r \in Restorers |-> Strayed(r, {f})]
    BY <1>2 DEF Write, Touch
  <2>2. ASSUME NEW q \in Restorers
        PROVE  res'[q] \in ResType /\ res'[q].pc = res[q].pc /\ res'[q].of = res[q].of
    <3>1. res[q] \in ResType /\ res'[q] = [res[q] EXCEPT !.stray = @ \union {f}]
      BY <2>1 DEF Shape, ResOk, Strayed
    <3> QED BY <3>1 DEF ResType
  <2>3. OfOk'
    BY <2>2 DEF OfOk, Shape
  <2> QED BY <2>1, <2>2, <2>3 DEF ResOk
<1>3. CASE Crash
  <2>1. NoRes.pc = "idle"
    BY DEF NoRes
  <2> QED BY <1>3, <2>1, NoResType DEF Crash, ResOk, OfOk
<1>4. CASE UNCHANGED res
  BY <1>4 DEF Shape, ResOk, OfOk
<1>5. ASSUME NEW u \in Uuids, PostServerBackup(u) \/ Backup(u) \/ DeleteServerBackup(u) \/ DeleteRow(u)
      PROVE UNCHANGED res
  BY <1>5 DEF PostServerBackup, Backup, DeleteServerBackup, DeleteRow, StatDir, Mkdir, OpenArchive, Header, Copy,
       CloseArchive, GetUploadURLs, UploadPart, Details, Discard, NotifySuccess, NotifyFailure, Unlink, ReadDir, Rmdir
<1>6. CASE Deletes \/ DeleteAllServerBackups \/ DeleteServer
  BY <1>4, <1>6 DEF Deletes, DeleteUnlinks, DeleteReadsDir, DeleteRmdir, DeleteAllServerBackups, DeleteServer
<1> QED BY <1>1, <1>2, <1>3, <1>4, <1>5, <1>6 DEF Next

LEMMA NextDel ==
  ASSUME Shape, Next
  PROVE  DelOk'
<1>1. CASE UNCHANGED del
  BY <1>1 DEF Shape, DelOk
<1>2. ASSUME NEW u \in Uuids, DeleteServerBackup(u) PROVE DelOk'
  BY <1>2 DEF DeleteServerBackup, DelOk
<1>3. CASE Deletes
  <2> DEFINE D == [pc : {"idle", "unlink", "readdir", "rmdir"}, of : Uuids \union {"none"}]
  <2>1. NoDel \in D /\ NoDel.pc # "unlink"
    BY DEF NoDel
  <2>2. [pc |-> "rmdir", of |-> "none"] \in D
    OBVIOUS
  <2>3. [del EXCEPT !.pc = "readdir"] \in D /\ [del EXCEPT !.pc = "readdir"].pc = "readdir"
    BY DEF Shape, DelOk
  <2> QED BY <1>3, <2>1, <2>2, <2>3 DEF Deletes, DeleteUnlinks, DeleteReadsDir, DeleteRmdir, DelOk
<1>4. CASE Crash
  BY <1>4 DEF Crash, DelOk, NoDel
<1>5. ASSUME NEW f \in Files, Write(f) PROVE UNCHANGED del
  BY <1>5, SMTT(60) DEF Write
<1>6. ASSUME NEW u \in Uuids, PostServerBackup(u) \/ Backup(u) \/ DeleteRow(u) PROVE UNCHANGED del
  BY <1>6, ZenonT(60) DEF PostServerBackup, Backup, DeleteRow, StatDir, Mkdir, OpenArchive, Header, Copy,
       CloseArchive, GetUploadURLs, UploadPart, Details, Discard, NotifySuccess, NotifyFailure, Unlink, ReadDir, Rmdir
<1>7. ASSUME NEW r \in Restorers, PostServerRestore(r) \/ Restore(r) PROVE UNCHANGED del
  BY <1>7 DEF PostServerRestore, Restore, Truncate, Locate, SuspendAndStop, OpenRestore, Extract,
       ReportRestore, ClearRestoring
<1>8. CASE DeleteAllServerBackups \/ DeleteServer
  BY <1>1, <1>8 DEF DeleteAllServerBackups, DeleteServer
<1> QED BY <1>1, <1>2, <1>3, <1>4, <1>5, <1>6, <1>7, <1>8 DEF Next

LEMMA NextMisc ==
  ASSUME Shape, Next
  PROVE  MiscType'
<1> USE DEF MiscType
<1> MiscType
  BY DEF Shape
<1>1. ASSUME NEW f \in Files, Write(f) PROVE MiscType'
  <2>1. clock' \in 1..MaxWrites /\ UNCHANGED <<live, restoring, suspended, dir, asked, cast>>
    BY <1>1, Constant DEF Write
  <2>2. PICK v \in {0, clock'} : tree' = [tree EXCEPT ![f] = v]
    BY <1>1 DEF Write, Touch
  <2>3. v \in Versions
    BY <2>1, Constant
  <2> QED BY <2>1, <2>2, <2>3
<1>2. ASSUME NEW u \in Uuids, PostServerBackup(u) \/ Backup(u) PROVE MiscType'
  <2>1. /\ UNCHANGED <<tree, clock, live, restoring, suspended, cast>>
        /\ dir' \in {dir, TRUE, dir /\ ~NoArchives} /\ asked' \in {asked, asked \ {u}}
    BY <1>2 DEF PostServerBackup, Backup, StatDir, Mkdir, OpenArchive, Header, Copy, End, Attempt, RemoveDir,
       CloseArchive, GetUploadURLs, UploadPart, Details, Discard, NotifySuccess, NotifyFailure, Unlink, ReadDir, Rmdir
  <2> QED BY <2>1
<1>3. ASSUME NEW u \in Uuids, DeleteServerBackup(u) \/ DeleteRow(u) PROVE MiscType'
  BY <1>3 DEF DeleteServerBackup, DeleteRow
<1>4. CASE Deletes \/ DeleteAllServerBackups \/ DeleteServer
  <2>1. /\ UNCHANGED <<tree, clock, restoring, cast>> /\ live' \in {live, FALSE} /\ suspended' \in {suspended, TRUE}
        /\ dir' \in {dir, FALSE, dir /\ ~NoArchives} /\ (UNCHANGED asked \/ \E us \in SUBSET Uuids : Asked(us))
    <3>1. del.pc = "unlink" => {del.of} \in SUBSET Uuids
      BY DEF Shape, DelOk
    <3> QED BY <1>4, <3>1 DEF Deletes, DeleteUnlinks, DeleteReadsDir, DeleteRmdir, DeleteAllServerBackups, DeleteServer,
          RemoveAll, RemoveDir
  <2>2. asked' \subseteq Uuids
    BY <2>1 DEF Asked
  <2> QED BY <2>1, <2>2
<1>5. CASE Crash
  BY <1>5 DEF Crash
<1>6. ASSUME NEW r \in Restorers, PostServerRestore(r) \/ Restore(r) PROVE MiscType'
  <2>1. UNCHANGED <<clock, live, dir, asked, cast>> /\ restoring' \in {restoring, TRUE, FALSE}
        /\ suspended' \in {suspended, TRUE, FALSE}
    BY <1>6 DEF PostServerRestore, Restore, Truncate, Locate, SuspendAndStop, OpenRestore, Extract,
       ReportRestore, ClearRestoring, Abort
  <2>2. tree' \in [Files -> Versions]
    <3>1. CASE Truncate(r)
      <4>1. CASE tree' = Empty
        BY <4>1, Constant
      <4>2. CASE \E gone \in SUBSET Files : tree' = [f \in Files |-> IF f \in gone THEN 0 ELSE tree[f]]
        BY <4>2, Constant
      <4> QED BY <3>1, <4>1, <4>2 DEF Truncate
    <3>2. CASE Extract(r)
      <4>1. res[r].from.body \in [Files -> Versions] /\ res[r].todo \subseteq Files
        BY DEF Shape, ResOk, ResType, Archives
      <4> QED BY <3>2, <4>1 DEF Extract
    <3>3. CASE UNCHANGED tree
      BY <3>3
    <3> QED BY <1>6, <3>1, <3>2, <3>3 DEF PostServerRestore, Restore, Locate, SuspendAndStop, OpenRestore,
          ReportRestore, ClearRestoring
  <2> QED BY <2>1, <2>2
<1> QED BY <1>1, <1>2, <1>3, <1>4, <1>5, <1>6 DEF Next

LEMMA NextShape ==
  ASSUME Shape, [Next]_vars
  PROVE  Shape'
<1>1. CASE Next
  BY <1>1, NextJobs, NextStores, NextRes, NextDel, NextMisc DEF Shape
<1>2. CASE UNCHANGED vars
  BY <1>2 DEF vars, Shape, MiscType, StoreType, JobsType, ResOk, OfOk, DelOk
<1> QED BY <1>1, <1>2

LEMMA InitShape == Init => Shape
<1> SUFFICES ASSUME Init PROVE Shape
  OBVIOUS
<1> USE DEF Init
<1>1. MiscType
  <2>1. 1 \in 1..MaxWrites
    BY Constant
  <2>2. tree \in [Files -> Versions]
    BY Constant
  <2> QED BY <2>1, <2>2 DEF MiscType
<1>2. StoreType
  <2>1. Is("pending") \in Archives({"none", "pending", "failed", "whole"})
    BY IsType
  <2> QED BY <2>1, NoneType DEF StoreType
<1>3. JobsType
  BY NoJobType DEF JobsType
<1>4. ResOk /\ OfOk
  BY NoResType DEF ResOk, OfOk, NoRes
<1>5. DelOk
  BY DEF DelOk, NoDel
<1> QED BY <1>1, <1>2, <1>3, <1>4, <1>5 DEF Shape

-----------------------------------------------------------------------------
(* The archive of a backup and what the Panel has recorded.                 *)

\* Deletions, crashes and the steps of other backups only take away.
LEMMA RowFrame ==
  ASSUME NEW v \in Uuids, JobsType, RowOk(v), job'[v] \in {job[v], Without(v, "ended")},
         disk'[v] \in {disk[v], None}, object'[v] = object[v], row'[v] \in {row[v], None}
  PROVE  RowOk(v)'
<1>1. ~Stored(None)
  BY DEF None, Is, Archive, Stored
<1>2. CASE job'[v] = job[v]
  <2>1. Made(v)' = Made(v)
    BY <1>2 DEF Made
  <2>2. Stored(row'[v]) => row'[v] = row[v]
    BY <1>1
  <2> QED BY <1>1, <1>2, <2>1, <2>2 DEF RowOk
<1>3. CASE job'[v] = Without(v, "ended")
  <2>1. job'[v].pc = "ended" /\ job[v] \in JobType
    BY <1>3, WithoutType, ZenonT(60) DEF PCs, JobsType
  <2>2. Stored(row[v]) => disk[v] \in {None, row[v]} /\ object[v] \in {None, row[v]}
    BY <2>1 DEF RowOk, PCs, JobType
  <2>3. Stored(row'[v]) => disk'[v] \in {None, row'[v]} /\ object'[v] \in {None, row'[v]}
    BY <1>1, <2>2
  <2> QED BY <2>1, <2>3 DEF RowOk, PCs
<1> QED BY <1>2, <1>3

\* What Goto and Drop make of a goroutine.
LEMMA GotoIs ==
  ASSUME JobsType, NEW u \in Uuids, NEW l, Goto(u, l)
  PROVE  job'[u].pc = l /\ job'[u].adapter = job[u].adapter /\ Made(u)' = Made(u)
<1>1. job[u] \in JobType /\ job'[u] = [job[u] EXCEPT !.pc = l, !.tries = 0]
  BY DEF JobsType, Goto, Set
<1> QED BY <1>1 DEF JobType, Made

LEMMA DropIs ==
  ASSUME JobsType, NEW u \in Uuids, NEW l \in PCs, Drop(u, l)
  PROVE  job'[u].pc = l /\ job'[u].adapter = job[u].adapter
  BY WithoutType DEF Drop, Set, JobsType

LEMMA FailsIs ==
  ASSUME JobsType, NEW u \in Uuids, GenerateFails(u)
  PROVE  /\ job'[u].pc = IF job[u].adapter = "s3" THEN "discard" ELSE "failure"
         /\ job'[u].adapter = job[u].adapter
  BY DropIs DEF GenerateFails, PCs

\* Copying a file keeps the goroutine walking.
LEMMA CopyIs ==
  ASSUME JobsType, NEW u \in Uuids, Copy(u), ~GenerateFails(u)
  PROVE  job'[u].pc = "walk"
<1>1. job[u] \in JobType /\ job[u].pc = "walk"
  BY DEF JobsType, Copy
<1>2. \E f, x : \/ Set(u, [job[u] EXCEPT !.head = <<>>, !.body[f] = x])
               \/ Set(u, [job[u] EXCEPT !.head = <<>>, !.torn = TRUE])
  BY ZenonT(30) DEF Copy
<1>3. CASE \E f, x : Set(u, [job[u] EXCEPT !.head = <<>>, !.body[f] = x])
  <2>1. PICK f, x : job' = [job EXCEPT ![u] = [job[u] EXCEPT !.head = <<>>, !.body[f] = x]]
    BY <1>3 DEF Set
  <2>2. job'[u] = [job[u] EXCEPT !.head = <<>>, !.body[f] = x]
    BY <2>1 DEF JobsType
  <2> QED BY <1>1, <2>2 DEF JobType
<1>4. CASE Set(u, [job[u] EXCEPT !.head = <<>>, !.torn = TRUE])
  <2>1. job'[u] = [job[u] EXCEPT !.head = <<>>, !.torn = TRUE]
    BY <1>4 DEF Set, JobsType
  <2> QED BY <1>1, <2>1 DEF JobType
<1> QED BY <1>2, <1>3, <1>4

LEMMA EndIs ==
  ASSUME JobsType, NEW u \in Uuids, NEW ok \in BOOLEAN, End(u, ok)
  PROVE  /\ job'[u].pc = IF ok /\ u \notin asked THEN "kept" ELSE "ended"
         /\ job'[u].adapter = job[u].adapter
  BY DropIs DEF End, PCs

\* A step of u's goroutine leaves the other backups alone.
LEMMA BackupFrame ==
  ASSUME Shape, NEW u \in Uuids, PostServerBackup(u) \/ Backup(u), NEW v \in Uuids, v # u
  PROVE  job'[v] = job[v] /\ disk'[v] = disk[v] /\ object'[v] = object[v] /\ row'[v] = row[v]
<1>1. job'[v] = job[v]
  <2>1. \E x : Set(u, x)
    BY ZenonT(60) DEF PostServerBackup, Backup, StatDir, Mkdir, OpenArchive, Header, Copy, CloseArchive, GetUploadURLs,
       UploadPart, Details, Discard, NotifySuccess, NotifyFailure, Unlink, ReadDir, Rmdir, Attempt, End,
       GenerateFails, Goto, Drop
  <2> QED BY <2>1 DEF Set, Shape, JobsType
<1>2. disk'[v] = disk[v]
  <2>1. UNCHANGED disk \/ \E x : disk' = [disk EXCEPT ![u] = x]
    BY ZenonT(60) DEF PostServerBackup, Backup, StatDir, Mkdir, OpenArchive, Header, Copy, CloseArchive, GetUploadURLs,
       UploadPart, Details, Discard, NotifySuccess, NotifyFailure, Unlink, ReadDir, Rmdir, RemoveDir
  <2> QED BY <2>1 DEF Shape, StoreType
<1>3. object'[v] = object[v]
  <2>1. UNCHANGED object \/ \E x : object' = [object EXCEPT ![u] = x]
    BY ZenonT(60) DEF PostServerBackup, Backup, StatDir, Mkdir, OpenArchive, Header, Copy, CloseArchive, GetUploadURLs,
       UploadPart, Details, Discard, NotifySuccess, NotifyFailure, Unlink, ReadDir, Rmdir
  <2> QED BY <2>1 DEF Shape, StoreType
<1>4. row'[v] = row[v]
  <2>1. UNCHANGED row \/ \E x : row' = [row EXCEPT ![u] = x]
    BY DEF PostServerBackup, Backup, StatDir, Mkdir, OpenArchive, Header, Copy, CloseArchive, GetUploadURLs,
       UploadPart, Details, Discard, NotifySuccess, NotifyFailure, Unlink, ReadDir, Rmdir, Attempt, Status
  <2> QED BY <2>1 DEF Shape, StoreType
<1> QED BY <1>1, <1>2, <1>3, <1>4

LEMMA BackupRow ==
  ASSUME Shape, NEW u \in Uuids, RowOk(u), PostServerBackup(u) \/ Backup(u)
  PROVE  RowOk(u)'
<1> JobsType /\ job[u] \in JobType
  BY DEF Shape, JobsType
<1> StoreType
  BY DEF Shape
<1>0. /\ ~Stored(None) /\ ~Stored(Is("failed")) /\ Stored(Made(u))
      /\ None # Is("partial")
  BY DEF None, Is, Archive, Stored, Made
\* The goroutine has failed: nothing but the row matters any more.
<1>f. ASSUME GenerateFails(u), UNCHANGED row, ~Stored(row[u])
      PROVE  RowOk(u)'
  BY <1>f, FailsIs DEF RowOk
<1>1. CASE PostServerBackup(u)
  <2>1. job'[u].pc = "stat"
    <3>1. PICK a \in Adapters[u], ignored \in SUBSET Files :
            Set(u, [NoJob EXCEPT !.pc = "stat", !.adapter = a, !.todo = Files \ ignored])
      BY <1>1 DEF PostServerBackup
    <3> QED BY <3>1, NoJobType DEF Set, JobsType, JobType
  <2> QED BY <1>1, <2>1 DEF PostServerBackup, RowOk, PCs
<1>2. CASE StatDir(u)
  BY <1>2, GotoIs DEF StatDir, RowOk, PCs
<1>3. CASE Mkdir(u)
  <2>1. CASE GenerateFails(u)
    BY <1>3, <2>1, <1>f DEF Mkdir, RowOk, PCs
  <2>2. CASE Goto(u, "open")
    BY <1>3, <2>2, GotoIs DEF Mkdir, RowOk, PCs
  <2> QED BY <1>3, <2>1, <2>2 DEF Mkdir
<1>4. CASE OpenArchive(u)
  <2>1. CASE GenerateFails(u)
    BY <1>4, <2>1, <1>f DEF OpenArchive, RowOk, PCs
  <2>2. CASE disk' = [disk EXCEPT ![u] = Is("partial")] /\ Goto(u, "walk")
    <3>1. disk'[u] = Is("partial") /\ job'[u].pc = "walk"
      BY <2>2, GotoIs DEF StoreType
    <3>2. job[u].pc = "open" /\ UNCHANGED <<object, row>>
      BY <1>4 DEF OpenArchive
    <3> QED BY <3>1, <3>2 DEF RowOk, PCs
  <2> QED BY <1>4, <2>1, <2>2 DEF OpenArchive
<1>5. CASE Header(u)
  <2>1. CASE GenerateFails(u)
    BY <1>5, <2>1, <1>f DEF Header, RowOk, PCs
  <2>2. CASE \E f \in job[u].todo :
               Set(u, [job[u] EXCEPT !.todo = @ \ {f}, !.head = IF tree[f] = 0 THEN <<>> ELSE <<f, tree[f]>>])
    <3>1. job'[u].pc = "walk"
      BY <1>5, <2>2 DEF Header, Set, JobsType, JobType
    <3> QED BY <1>5, <3>1 DEF Header, RowOk, PCs
  <2> QED BY <1>5, <2>1, <2>2 DEF Header
<1>6. CASE Copy(u)
  <2>1. CASE GenerateFails(u)
    BY <1>6, <2>1, <1>f DEF Copy, RowOk, PCs
  <2>2. CASE ~GenerateFails(u)
    <3>1. job'[u].pc = "walk"
      BY <1>6, <2>2, CopyIs
    <3> QED BY <1>6, <3>1 DEF Copy, RowOk, PCs
  <2> QED BY <2>1, <2>2
<1>7. CASE CloseArchive(u)
  <2>1. disk'[u] \in {None, Made(u)}
    BY <1>7 DEF CloseArchive, StoreType
  <2>2. job'[u].pc \in {"urls", "details"} /\ Made(u)' = Made(u)
    BY <1>7, GotoIs DEF CloseArchive
  <2> QED BY <1>7, <2>1, <2>2 DEF CloseArchive, RowOk, PCs
<1>8. CASE GetUploadURLs(u)
  <2>1. CASE GenerateFails(u)
    BY <1>8, <2>1, <1>f DEF GetUploadURLs, RowOk, PCs
  <2>2. CASE \E n \in PartCounts : Set(u, [job[u] EXCEPT !.pc = IF n = 0 THEN "details" ELSE "part", !.parts = n])
    <3>1. job'[u].pc \in {"details", "part"} /\ Made(u)' = Made(u)
      BY <2>2 DEF Set, JobsType, JobType, Made
    <3> QED BY <1>8, <3>1 DEF GetUploadURLs, RowOk, PCs
  <2> QED BY <1>8, <2>1, <2>2 DEF GetUploadURLs
<1>9. CASE UploadPart(u)
  <2>0. job[u].pc = "part" /\ UNCHANGED <<disk, row>>
    BY <1>9 DEF UploadPart
  <2>1. CASE GenerateFails(u)
    BY <2>0, <2>1, <1>f DEF RowOk, PCs
  <2>2. ASSUME UNCHANGED object, job'[u].pc = "part", Made(u)' = Made(u)
        PROVE  RowOk(u)'
    BY <2>0, <2>2 DEF RowOk, PCs
  <2>3. CASE object' = [object EXCEPT ![u] = Made(u)] /\ Goto(u, "details")
    <3>1. object'[u] = Made(u) /\ job'[u].pc = "details" /\ Made(u)' = Made(u)
      BY <2>3, GotoIs DEF StoreType
    <3> QED BY <2>0, <3>1 DEF RowOk, PCs
  <2>4. CASE UNCHANGED object /\ Set(u, [job[u] EXCEPT !.parts = @ - 1, !.tries = 0])
    <3>1. job'[u].pc = "part" /\ Made(u)' = Made(u)
      BY <2>0, <2>4 DEF Set, JobsType, JobType, Made
    <3> QED BY <2>2, <2>4, <3>1
  <2>5. ASSUME UNCHANGED object, NEW s, Set(u, [job[u] EXCEPT !.tries = @ + 1, !.spent = s])
        PROVE  RowOk(u)'
    <3>1. job'[u].pc = "part" /\ Made(u)' = Made(u)
      BY <2>0, <2>5 DEF Set, JobsType, JobType, Made
    <3> QED BY <2>2, <2>5, <3>1
  <2> QED BY <1>9, <2>1, <2>3, <2>4, <2>5 DEF UploadPart
<1>10. CASE Details(u)
  <2>0. job[u].pc = "details" /\ UNCHANGED <<disk, object, row>>
    BY <1>10 DEF Details
  <2>1. CASE GenerateFails(u)
    BY <2>0, <2>1, <1>f DEF RowOk, PCs
  <2>2. CASE Goto(u, IF job[u].adapter = "s3" THEN "discard ok" ELSE "success")
    <3>1. job'[u].pc \in {"discard ok", "success"} /\ Made(u)' = Made(u)
      BY <2>2, GotoIs
    <3> QED BY <2>0, <3>1 DEF RowOk, PCs
  <2> QED BY <1>10, <2>1, <2>2 DEF Details
<1>11. CASE Discard(u)
  <2>1. disk'[u] = None
    BY <1>11 DEF Discard, StoreType
  <2>2. /\ job'[u].pc = IF job[u].pc = "discard" THEN "failure" ELSE "success"
        /\ Made(u)' = Made(u)
    BY <1>11, GotoIs, ZenonT(60) DEF Discard
  <2> QED BY <1>11, <2>1, <2>2 DEF Discard, RowOk, PCs
<1>r. ASSUME NEW v, Status(u, v) PROVE row'[u] = IF row[u] = None THEN None ELSE v
  BY <1>r DEF Status, StoreType
<1>t. ASSUME Set(u, [job[u] EXCEPT !.tries = @ + 1])
      PROVE  job'[u].pc = job[u].pc /\ Made(u)' = Made(u)
  BY <1>t DEF Set, JobsType, JobType, Made
<1>13. CASE NotifySuccess(u)
  <2>1. row'[u] \in {row[u], None, Made(u)}
    BY <1>13, <1>r DEF NotifySuccess, Attempt
  <2>2. /\ Stored(row'[u]) => row'[u] = Made(u)
        /\ disk'[u] \in {None, Made(u)} /\ object'[u] \in {None, Made(u)}
    BY <1>0, <1>13, <2>1 DEF NotifySuccess, RowOk
  <2>3. \/ job'[u].pc \in {"kept", "ended", "unlink"}
        \/ job'[u].pc = "success" /\ Made(u)' = Made(u)
    <3>1. CASE Set(u, [job[u] EXCEPT !.tries = @ + 1])
      BY <1>13, <1>t, <3>1 DEF NotifySuccess
    <3>2. CASE \E ok \in BOOLEAN : End(u, ok)
      BY <3>2, EndIs
    <3>3. CASE Drop(u, "unlink")
      BY <3>3, DropIs DEF PCs
    <3> QED BY <1>13, <3>1, <3>2, <3>3 DEF NotifySuccess, Attempt
  <2> QED BY <2>2, <2>3 DEF RowOk, PCs
<1>14. CASE NotifyFailure(u)
  <2>1. ~Stored(row'[u])
    BY <1>0, <1>14, <1>r DEF NotifyFailure, Attempt, RowOk, PCs
  <2>2. job'[u].pc \in {"ended", "failure"}
    <3>1. CASE Set(u, [job[u] EXCEPT !.tries = @ + 1])
      BY <1>14, <1>t, <3>1 DEF NotifyFailure
    <3>2. CASE End(u, FALSE)
      BY <3>2, EndIs
    <3> QED BY <1>14, <3>1, <3>2 DEF NotifyFailure, Attempt
  <2> QED BY <2>1, <2>2 DEF RowOk
<1>15. CASE Unlink(u)
  <2>1. disk'[u] = None
    BY <1>15 DEF Unlink, StoreType
  <2>2. job'[u].pc \in {"ended", "readdir"}
    BY <1>15, EndIs, GotoIs DEF Unlink
  <2> QED BY <1>15, <2>1, <2>2 DEF Unlink, RowOk, PCs
<1>16. CASE ReadDir(u)
  <2>2. job'[u].pc \in {"ended", "rmdir"}
    BY <1>16, EndIs, GotoIs DEF ReadDir
  <2> QED BY <1>16, <2>2 DEF ReadDir, RowOk, PCs
<1>17. CASE Rmdir(u)
  <2>2. job'[u].pc = "ended"
    BY <1>17, EndIs DEF Rmdir
  <2> QED BY <1>17, <2>2 DEF Rmdir, RemoveDir, RowOk, PCs
<1> QED BY <1>1, <1>2, <1>3, <1>4, <1>5, <1>6, <1>7, <1>8, <1>9, <1>10, <1>11, <1>13, <1>14, <1>15,
           <1>16, <1>17 DEF Backup

\* The other actors: what they do to a backup, and to a confirmed one.
LEMMA OthersFrame ==
  ASSUME Shape, NEW v \in Uuids,
         \/ \E f \in Files : Write(f)
         \/ \E u \in Uuids : DeleteServerBackup(u) \/ DeleteRow(u)
         \/ \E r \in Restorers : PostServerRestore(r) \/ Restore(r)
         \/ Deletes \/ DeleteAllServerBackups \/ DeleteServer \/ Crash
  PROVE  /\ job'[v] \in {job[v], Without(v, "ended")} /\ disk'[v] \in {disk[v], None}
         /\ object'[v] = object[v] /\ row'[v] \in {row[v], None}
         /\ \/ job'[v] = Without(v, "ended")
            \/ disk'[v] = disk[v] /\ (job[v].pc = "success" /\ v \in asked => v \in asked')
            \/ job[v].pc # "kept" /\ (job[v].pc = "success" => v \in asked')
<1> JobsType /\ StoreType
  BY DEF Shape
<1>1. ASSUME NEW f \in Files, Write(f) PROVE UNCHANGED <<job, disk, object, row, asked>>
  BY <1>1 DEF Write
<1>2. ASSUME NEW r \in Restorers, PostServerRestore(r) \/ Restore(r) PROVE UNCHANGED <<job, disk, object, row, asked>>
  BY <1>2 DEF PostServerRestore, Restore, Truncate, Locate, SuspendAndStop, OpenRestore, Extract,
       ReportRestore, ClearRestoring
<1>3. ASSUME NEW u \in Uuids, DeleteServerBackup(u) PROVE UNCHANGED <<job, disk, object, row, asked>>
  BY <1>3 DEF DeleteServerBackup
<1>4. ASSUME NEW u \in Uuids, DeleteRow(u) PROVE UNCHANGED <<job, disk, object, asked>> /\ row'[v] \in {row[v], None}
  BY <1>4 DEF DeleteRow, StoreType
<1>5. CASE DeleteReadsDir \/ DeleteRmdir
  BY <1>5 DEF DeleteReadsDir, DeleteRmdir, RemoveDir
<1>6. ASSUME NEW us, Asked(us), disk'[v] \in {disk[v], None}, v \in us \/ disk'[v] = disk[v], UNCHANGED <<object, row>>
      PROVE  /\ job'[v] \in {job[v], Without(v, "ended")}
             /\ \/ job'[v] = Without(v, "ended")
                \/ disk'[v] = disk[v] /\ (job[v].pc = "success" /\ v \in asked => v \in asked')
                \/ job[v].pc # "kept" /\ (job[v].pc = "success" => v \in asked')
  BY <1>6 DEF Asked
<1>7. CASE DeleteUnlinks
  <2>1. disk'[v] \in {disk[v], None} /\ (v \in {del.of} \/ disk'[v] = disk[v])
    BY <1>7 DEF DeleteUnlinks, StoreType
  <2> QED BY <1>6, <1>7, <2>1 DEF DeleteUnlinks
<1>8. CASE DeleteAllServerBackups \/ DeleteServer
  <2>1. CASE RemoveAll
    <3>1. Asked(Uuids) /\ disk'[v] = None
      BY <2>1 DEF RemoveAll
    <3> QED BY <1>6, <1>8, <3>1 DEF DeleteAllServerBackups, DeleteServer
  <2> QED BY <1>8, <2>1 DEF DeleteAllServerBackups, DeleteServer
<1>9. CASE Crash
  <2>1. job'[v] = IF job[v].pc \in {"new", "kept"} THEN job[v] ELSE Without(v, "ended")
    BY <1>9 DEF Crash
  <2>2. UNCHANGED <<disk, object, row>>
    BY <1>9 DEF Crash
  <2>3. CASE job[v].pc = "kept" \/ job[v].pc = "new"
    <3>1. job'[v] = job[v] /\ disk'[v] = disk[v]
      BY <2>1, <2>2, <2>3
    <3> QED BY <2>2, <2>3, <3>1
  <2> QED BY <2>1, <2>2, <2>3
<1> QED BY <1>1, <1>2, <1>3, <1>4, <1>5, <1>7, <1>8, <1>9 DEF Deletes

LEMMA NextRow ==
  ASSUME Shape, RowInv, Next
  PROVE  RowInv'
<1> SUFFICES ASSUME NEW v \in Uuids PROVE RowOk(v)'
  BY DEF RowInv
<1> JobsType /\ RowOk(v)
  BY DEF Shape, RowInv
<1>1. ASSUME NEW u \in Uuids, PostServerBackup(u) \/ Backup(u)
      PROVE  RowOk(v)'
  <2>1. CASE v = u
    BY <1>1, <2>1, BackupRow
  <2>2. CASE v # u
    BY <1>1, <2>2, BackupFrame, RowFrame
  <2> QED BY <2>1, <2>2
<1>2. CASE ~ \E u \in Uuids : PostServerBackup(u) \/ Backup(u)
  BY <1>2, OthersFrame, RowFrame DEF Next
<1> QED BY <1>1, <1>2

-----------------------------------------------------------------------------
(* A confirmed local backup is at its path.                                 *)

LEMMA BackupKept ==
  ASSUME Shape, NEW u \in Uuids, KeptOk(u), PostServerBackup(u) \/ Backup(u)
  PROVE  KeptOk(u)'
<1> JobsType /\ job[u] \in JobType
  BY DEF Shape, JobsType
\* Most steps lead to places KeptOk says nothing of.
<1>1. ASSUME job'[u].pc \notin {"discard ok", "kept", "success"} PROVE KeptOk(u)'
  BY <1>1 DEF KeptOk
<1>f. ASSUME GenerateFails(u) PROVE KeptOk(u)'
  BY <1>1, <1>f, FailsIs
<1>e. ASSUME End(u, FALSE) PROVE KeptOk(u)'
  BY <1>1, <1>e, EndIs
<1>2. CASE PostServerBackup(u)
  <2>1. PICK a \in Adapters[u], ignored \in SUBSET Files :
          Set(u, [NoJob EXCEPT !.pc = "stat", !.adapter = a, !.todo = Files \ ignored])
    BY <1>2 DEF PostServerBackup
  <2>2. job'[u].pc = "stat"
    BY <2>1, NoJobType DEF Set, JobsType, JobType
  <2> QED BY <1>1, <2>2
<1>3. CASE StatDir(u) \/ Mkdir(u) \/ OpenArchive(u) \/ CloseArchive(u)
  <2>1. GenerateFails(u) \/ \E l \in {"open", "mkdir", "walk", "urls", "details"} : Goto(u, l)
    BY <1>3 DEF StatDir, Mkdir, OpenArchive, CloseArchive
  <2> QED BY <1>1, <1>f, <2>1, GotoIs
<1>4. CASE Header(u)
  <2>1. CASE \E f \in job[u].todo :
               Set(u, [job[u] EXCEPT !.todo = @ \ {f}, !.head = IF tree[f] = 0 THEN <<>> ELSE <<f, tree[f]>>])
    <3>1. job'[u].pc = "walk"
      BY <1>4, <2>1 DEF Header, Set, JobsType, JobType
    <3> QED BY <1>1, <3>1
  <2> QED BY <1>4, <1>f, <2>1 DEF Header
<1>5. CASE Copy(u)
  <2>1. CASE ~GenerateFails(u)
    <3>1. job'[u].pc = "walk"
      BY <1>5, <2>1, CopyIs
    <3> QED BY <1>1, <3>1
  <2> QED BY <1>f, <2>1
<1>12. CASE GetUploadURLs(u)
  <2>1. CASE \E n \in PartCounts : Set(u, [job[u] EXCEPT !.pc = IF n = 0 THEN "details" ELSE "part", !.parts = n])
    <3>1. job'[u].pc \in {"details", "part"}
      BY <2>1 DEF Set, JobsType, JobType
    <3> QED BY <1>1, <3>1
  <2> QED BY <1>12, <1>f, <2>1 DEF GetUploadURLs
<1>6. CASE UploadPart(u)
  <2>0. job[u].pc = "part"
    BY <1>6 DEF UploadPart
  <2>1. CASE Set(u, [job[u] EXCEPT !.parts = @ - 1, !.tries = 0])
    BY <1>1, <2>0, <2>1 DEF Set, JobsType, JobType
  <2>2. ASSUME NEW s, Set(u, [job[u] EXCEPT !.tries = @ + 1, !.spent = s])
        PROVE  KeptOk(u)'
    <3>1. job'[u].pc = "part"
      BY <2>0, <2>2 DEF Set, JobsType, JobType
    <3> QED BY <1>1, <3>1
  <2>3. ASSUME Goto(u, "details") PROVE KeptOk(u)'
    <3>1. job'[u].pc = "details"
      BY <2>3, GotoIs
    <3> QED BY <1>1, <3>1
  <2>4. \/ Set(u, [job[u] EXCEPT !.parts = @ - 1, !.tries = 0]) \/ Goto(u, "details") \/ GenerateFails(u)
        \/ \E s \in {job[u].spent, TRUE} : Set(u, [job[u] EXCEPT !.tries = @ + 1, !.spent = s])
    BY <1>6 DEF UploadPart
  <2> QED BY <1>f, <2>1, <2>2, <2>3, <2>4
<1>7. CASE Details(u)
  <2>1. CASE Path(u) /\ Goto(u, IF job[u].adapter = "s3" THEN "discard ok" ELSE "success") /\ UNCHANGED disk
    <3>1. job'[u].pc = (IF job[u].adapter = "s3" THEN "discard ok" ELSE "success") /\ job'[u].adapter = job[u].adapter
      BY <2>1, GotoIs
    <3> QED BY <2>1, <3>1 DEF KeptOk, Path
  <2> QED BY <1>7, <1>f, <2>1 DEF Details
<1>8. CASE Discard(u)
  <2>1. /\ job'[u].pc = IF job[u].pc = "discard" THEN "failure" ELSE "success"
        /\ job'[u].adapter = job[u].adapter /\ job[u].pc \in {"discard", "discard ok"}
    BY <1>8, GotoIs, ZenonT(60) DEF Discard
  <2> QED BY <2>1 DEF KeptOk
<1>t. ASSUME Set(u, [job[u] EXCEPT !.tries = @ + 1])
      PROVE  job'[u].pc = job[u].pc /\ job'[u].adapter = job[u].adapter
  BY <1>t DEF Set, JobsType, JobType
<1>9. CASE NotifySuccess(u)
  <2>0. job[u].pc = "success" /\ UNCHANGED disk
    BY <1>9 DEF NotifySuccess
  <2>1. CASE End(u, TRUE)
    <3>1. job'[u].pc = (IF u \notin asked THEN "kept" ELSE "ended") /\ job'[u].adapter = job[u].adapter
      BY <2>1, EndIs
    <3> QED BY <2>0, <3>1 DEF KeptOk
  <2>2. CASE Set(u, [job[u] EXCEPT !.tries = @ + 1]) /\ UNCHANGED asked
    BY <1>t, <2>0, <2>2 DEF KeptOk
  <2>3. CASE Drop(u, "unlink")
    BY <1>1, <2>3, DropIs DEF PCs
  <2> QED BY <1>9, <1>e, <2>1, <2>2, <2>3 DEF NotifySuccess, Attempt
<1>10. CASE NotifyFailure(u)
  <2>0. job[u].pc = "failure"
    BY <1>10 DEF NotifyFailure
  <2>1. CASE Set(u, [job[u] EXCEPT !.tries = @ + 1])
    BY <1>1, <1>t, <2>0, <2>1
  <2> QED BY <1>10, <1>e, <2>1 DEF NotifyFailure, Attempt
<1>11. CASE Unlink(u) \/ ReadDir(u) \/ Rmdir(u)
  <2>1. End(u, FALSE) \/ \E l \in {"readdir", "rmdir"} : Goto(u, l)
    BY <1>11 DEF Unlink, ReadDir, Rmdir
  <2> QED BY <1>1, <1>e, <2>1, GotoIs
<1> QED BY <1>2, <1>3, <1>4, <1>5, <1>6, <1>7, <1>8, <1>9, <1>10, <1>11, <1>12 DEF Backup

LEMMA NextKept ==
  ASSUME Shape, KeptInv, Next
  PROVE  KeptInv'
<1> SUFFICES ASSUME NEW v \in Uuids PROVE KeptOk(v)'
  BY DEF KeptInv
<1> JobsType /\ KeptOk(v)
  BY DEF Shape, KeptInv
<1>1. ASSUME NEW u \in Uuids, PostServerBackup(u) \/ Backup(u)
      PROVE  KeptOk(v)'
  <2>1. CASE v = u
    BY <1>1, <2>1, BackupKept
  <2>2. CASE v # u
    <3>1. v \in asked' <=> v \in asked
      BY <1>1, <2>2 DEF PostServerBackup, Backup, StatDir, Mkdir, OpenArchive, Header, Copy, CloseArchive, GetUploadURLs,
       UploadPart, Details, Discard, NotifySuccess, NotifyFailure, Unlink, ReadDir, Rmdir, Attempt, End
    <3>2. job'[v] = job[v] /\ disk'[v] = disk[v]
      BY <1>1, <2>2, BackupFrame
    <3> QED BY <3>1, <3>2 DEF KeptOk
  <2> QED BY <2>1, <2>2
<1>2. CASE ~ \E u \in Uuids : PostServerBackup(u) \/ Backup(u)
  <2>1. /\ job'[v] \in {job[v], Without(v, "ended")} /\ disk'[v] \in {disk[v], None}
        /\ \/ job'[v] = Without(v, "ended")
           \/ disk'[v] = disk[v] /\ (job[v].pc = "success" /\ v \in asked => v \in asked')
           \/ job[v].pc # "kept" /\ (job[v].pc = "success" => v \in asked')
    BY <1>2, OthersFrame DEF Next
  <2>2. CASE job'[v] = Without(v, "ended")
    <3>1. job'[v].pc = "ended"
      BY <2>2, WithoutType DEF PCs
    <3> QED BY <3>1 DEF KeptOk
  <2>3. CASE job'[v] = job[v] /\ job'[v] # Without(v, "ended")
    <3>1. CASE disk'[v] = disk[v] /\ (job[v].pc = "success" /\ v \in asked => v \in asked')
      BY <2>3, <3>1 DEF KeptOk
    <3>2. CASE job[v].pc # "kept" /\ (job[v].pc = "success" => v \in asked')
      BY <2>3, <3>2 DEF KeptOk
    <3> QED BY <2>1, <2>3, <3>1, <3>2
  <2> QED BY <2>1, <2>2, <2>3
<1> QED BY <1>1, <1>2

-----------------------------------------------------------------------------
(* The flags, and the files.                                                *)

\* Restore q is as it was, but for files that somebody else may have written.
Bystander(q) ==
  /\ res'[q].stray \in SUBSET Files
  /\ res'[q] = [res[q] EXCEPT !.stray = res'[q].stray]
  /\ \A f \in Files \ res'[q].stray : f \notin res[q].stray /\ tree'[f] = tree[f]

\* A step that gives restore r the record x, while the others stand by.
ResStep(r, x) ==
  /\ res'[r] = x
  /\ \A q \in Restorers \ {r} : Bystander(q)

LEMMA ResStepSets ==
  ASSUME ResOk, NEW r \in Restorers, NEW x, Res(r, x), UNCHANGED tree
  PROVE  ResStep(r, x)
<1>1. res'[r] = x
  BY DEF ResOk, Res
<1>2. ASSUME NEW q \in Restorers \ {r} PROVE Bystander(q)
  <2>1. res[q] \in ResType /\ res'[q] = res[q]
    BY DEF ResOk, Res
  <2> QED BY <2>1 DEF ResType, Bystander
<1> QED BY <1>1, <1>2 DEF ResStep

\* Writing the files fs leaves a bystander that knows of it.
LEMMA StrayedStandsBy ==
  ASSUME ResOk, NEW q \in Restorers, NEW fs \in SUBSET Files, res'[q] = Strayed(q, fs),
         \A f \in Files \ fs : tree'[f] = tree[f]
  PROVE  Bystander(q)
<1>1. res[q] \in ResType
  BY DEF ResOk
<1>2. res'[q].stray = res[q].stray \union fs
  BY <1>1 DEF ResType, Strayed
<1>3. res'[q] = [res[q] EXCEPT !.stray = res'[q].stray]
  BY <1>2 DEF Strayed
<1>4. res'[q].stray \in SUBSET Files
  BY <1>1, <1>2 DEF ResType
<1> QED BY <1>2, <1>3, <1>4 DEF Bystander

LEMMA ResStepDisturbs ==
  ASSUME ResOk, NEW r \in Restorers, NEW x, NEW fs \in SUBSET Files,
         res' = [q \in Restorers |-> IF q = r THEN x ELSE Strayed(q, fs)],
         \A f \in Files \ fs : tree'[f] = tree[f]
  PROVE  ResStep(r, x)
<1>1. res'[r] = x
  OBVIOUS
<1>2. ASSUME NEW q \in Restorers \ {r} PROVE Bystander(q)
  BY StrayedStandsBy
<1> QED BY <1>1, <1>2 DEF ResStep

\* What a bystander knew of the files it still knows.
LEMMA BystanderTree ==
  ASSUME ResOk, NEW q \in Restorers, TreeOk(q), Bystander(q)
  PROVE  TreeOk(q)' /\ res'[q].pc = res[q].pc
<1> DEFINE s == res'[q].stray
<1>1. res[q] \in ResType /\ res'[q] = [res[q] EXCEPT !.stray = s] /\ s \in SUBSET Files
  BY DEF ResOk, Bystander
<1>2. /\ res'[q].pc = res[q].pc /\ res'[q].todo = res[q].todo
      /\ res'[q].from = res[q].from /\ res'[q].ok = res[q].ok
  <2> HIDE DEF s
  <2> QED BY <1>1 DEF ResType
<1>3. \A f \in Files \ res'[q].stray : f \notin res[q].stray /\ tree'[f] = tree[f]
  BY DEF Bystander
<1>4. res[q].stray = Files => res'[q].stray = Files
  BY <1>1, <1>3
<1> QED BY <1>2, <1>3, <1>4 DEF TreeOk

\* The flags after a step of r: it keeps a reason for each flag it leaves set.
LEMMA FlagStep ==
  ASSUME ResOk, FlagInv, NEW r \in Restorers, NEW x, ResStep(r, x), UNCHANGED live,
         restoring' => x.pc # "idle",
         \/ live' /\ suspended' => x.pc \in {"open", "extract", "report"}
         \/ UNCHANGED suspended /\ res[r].pc \notin {"open", "extract", "report"}
  PROVE  FlagInv'
<1>1. restoring' => \E q \in Restorers : res'[q].pc # "idle"
  BY DEF ResStep
<1>2. ASSUME live', suspended' PROVE \E q \in Restorers : res'[q].pc \in {"open", "extract", "report"}
  <2>1. CASE x.pc \in {"open", "extract", "report"}
    BY <2>1 DEF ResStep
  <2>2. CASE UNCHANGED suspended /\ res[r].pc \notin {"open", "extract", "report"}
    <3>1. PICK q \in Restorers : res[q].pc \in {"open", "extract", "report"}
      BY <1>2, <2>2 DEF FlagInv
    <3>2. q # r
      BY <2>2, <3>1
    <3>3. res[q] \in ResType /\ res'[q] = [res[q] EXCEPT !.stray = res'[q].stray]
      BY <3>1, <3>2 DEF ResOk, ResStep, Bystander
    <3>4. res'[q].pc = res[q].pc
      <4> DEFINE s == res'[q].stray
      <4>1. res'[q] = [res[q] EXCEPT !.stray = s]
        BY <3>3
      <4> HIDE DEF s
      <4> QED BY <3>3, <4>1 DEF ResType
    <3> QED BY <3>1, <3>4
  <2> QED BY <1>2, <2>1, <2>2
<1> QED BY <1>1, <1>2 DEF FlagInv

\* The files after a step of r: only r can have written to them as it should.
LEMMA TreeStep ==
  ASSUME ResOk, TreeInv, NEW r \in Restorers, NEW x, ResStep(r, x), TreeOk(r)'
  PROVE  TreeInv'
<1> SUFFICES ASSUME NEW q \in Restorers, q # r PROVE TreeOk(q)'
  BY DEF TreeInv
<1> QED BY BystanderTree DEF TreeInv, ResStep

LEMMA RestoreFlagsTree ==
  ASSUME Shape, FlagInv, TreeInv, NEW r \in Restorers, PostServerRestore(r) \/ Restore(r)
  PROVE  FlagInv' /\ TreeInv'
<1> ResOk /\ MiscType /\ res[r] \in ResType
  BY DEF Shape, ResOk
<1> TreeOk(r)
  BY DEF TreeInv
<1>0. NoRes \in ResType /\ NoRes.pc = "idle" /\ NoRes.stray = Files
  BY NoResType DEF NoRes
\* Steps after which r knows of no file.
<1>u. ASSUME NEW x, ResStep(r, x), x.stray = Files PROVE TreeInv'
  <2>1. TreeOk(r)'
    BY <1>u DEF ResStep, TreeOk
  <2> QED BY <1>u, <2>1, TreeStep
<1>a. ASSUME Res(r, NoRes), UNCHANGED <<tree, live, suspended>>, restoring' = FALSE,
             res[r].pc \notin {"open", "extract", "report"}
      PROVE  FlagInv' /\ TreeInv'
  <2>1. ResStep(r, NoRes)
    BY <1>a, ResStepSets
  <2> QED BY <1>0, <1>a, <1>u, <2>1, FlagStep
<1>p. ASSUME NEW l \in RPCs, Res(r, [NoRes EXCEPT !.pc = l]), UNCHANGED <<tree, live, restoring>>, l # "idle",
             live' /\ suspended' => l \in {"open", "extract", "report"}
      PROVE  FlagInv' /\ TreeInv'
  <2> DEFINE x == [NoRes EXCEPT !.pc = l]
  <2>1. x.pc = l /\ x.stray = Files
    BY <1>0 DEF ResType
  <2> HIDE DEF x
  <2>2. ResStep(r, x)
    BY <1>p, ResStepSets DEF x
  <2> QED BY <1>p, <1>u, <2>1, <2>2, FlagStep
<1>1. CASE PostServerRestore(r)
  <2>1. PICK u \in Uuids, t \in BOOLEAN : \E a \in Adapters[u] :
          Res(r, [NoRes EXCEPT !.pc = IF t THEN "truncate" ELSE "locate", !.of = u, !.adapter = a])
    BY <1>1 DEF PostServerRestore
  <2>2. PICK a \in Adapters[u] :
          Res(r, [NoRes EXCEPT !.pc = IF t THEN "truncate" ELSE "locate", !.of = u, !.adapter = a])
    BY <2>1
  <2> DEFINE x == [NoRes EXCEPT !.pc = IF t THEN "truncate" ELSE "locate", !.of = u, !.adapter = a]
  <2>4. x.pc \in {"truncate", "locate"} /\ x.stray = Files
    BY <1>0 DEF ResType
  <2> HIDE DEF x
  <2>5. ResStep(r, x)
    BY <1>1, <2>2, ResStepSets DEF x, PostServerRestore
  <2>6. FlagInv'
    BY <1>1, <2>4, <2>5, FlagStep DEF PostServerRestore
  <2> QED BY <1>u, <2>4, <2>5, <2>6
<1>2. CASE Truncate(r)
  <2>0. res[r].pc = "truncate" /\ UNCHANGED <<live, suspended>>
    BY <1>2 DEF Truncate
  <2>1. CASE restoring' = FALSE
             /\ res' = [q \in Restorers |-> IF q = r THEN NoRes ELSE Strayed(q, Files)]
    <3>1. ResStep(r, NoRes)
      BY <2>1, ResStepDisturbs
    <3> QED BY <1>0, <1>u, <2>0, <2>1, <3>1, FlagStep
  <2>2. CASE /\ tree' = Empty /\ UNCHANGED restoring
             /\ res' = [q \in Restorers |->
                      IF q = r THEN [res[r] EXCEPT !.pc = "locate", !.stray = {}] ELSE Strayed(q, Files)]
    <3> DEFINE x == [res[r] EXCEPT !.pc = "locate", !.stray = {}]
    <3>1. x.pc = "locate"
      BY DEF ResType
    <3> HIDE DEF x
    <3>2. ResStep(r, x)
      BY <2>2, ResStepDisturbs DEF x
    <3>3. TreeOk(r)'
      BY <2>2, <3>1, <3>2 DEF TreeOk, ResStep, Empty
    <3> QED BY <2>0, <3>1, <3>2, <3>3, FlagStep, TreeStep
  <2> QED BY <1>2, <2>1, <2>2 DEF Truncate
<1>3. CASE Locate(r)
  <2>0. res[r].pc = "locate" /\ UNCHANGED <<live, suspended, tree>>
    BY <1>3 DEF Locate
  <2>1. CASE Abort(r)
    BY <1>a, <2>0, <2>1 DEF Abort
  <2>2. ASSUME NEW a, Res(r, [res[r] EXCEPT !.pc = "suspend", !.from = a]), UNCHANGED restoring
        PROVE  FlagInv' /\ TreeInv'
    <3> DEFINE x == [res[r] EXCEPT !.pc = "suspend", !.from = a]
    <3>1. x.pc = "suspend" /\ x.stray = res[r].stray
      BY DEF ResType
    <3> HIDE DEF x
    <3>2. ResStep(r, x)
      BY <2>0, <2>2, ResStepSets DEF x
    <3>3. TreeOk(r)'
      BY <2>0, <3>1, <3>2 DEF TreeOk, ResStep
    <3> QED BY <2>0, <3>1, <3>2, <3>3, FlagStep, TreeStep
  <2> QED BY <1>3, <2>1, <2>2 DEF Locate
<1>4. CASE SuspendAndStop(r)
  <2>0. res[r].pc = "suspend" /\ UNCHANGED <<live, restoring, tree>>
    BY <1>4 DEF SuspendAndStop
  <2>1. CASE Res(r, [NoRes EXCEPT !.pc = "report"])
    BY <1>p, <2>0, <2>1 DEF RPCs
  <2>2. CASE Res(r, [res[r] EXCEPT !.pc = "open"])
    <3> DEFINE x == [res[r] EXCEPT !.pc = "open"]
    <3>1. x.pc = "open" /\ x.stray = res[r].stray
      BY DEF ResType
    <3> HIDE DEF x
    <3>2. ResStep(r, x)
      BY <2>0, <2>2, ResStepSets DEF x
    <3>3. TreeOk(r)'
      BY <2>0, <3>1, <3>2 DEF TreeOk, ResStep
    <3> QED BY <2>0, <3>1, <3>2, <3>3, FlagStep, TreeStep
  <2> QED BY <1>4, <2>1, <2>2 DEF SuspendAndStop
<1>5. CASE OpenRestore(r)
  <2>0. res[r].pc = "open" /\ UNCHANGED <<live, restoring, tree>>
    BY <1>5 DEF OpenRestore
  <2>1. CASE Res(r, [NoRes EXCEPT !.pc = "report"])
    BY <1>p, <2>0, <2>1 DEF RPCs
  <2>2. ASSUME NEW a, Res(r, [NoRes EXCEPT !.pc = "extract", !.from = a, !.todo = Entries(a),
                                !.stray = res[r].stray])
        PROVE  FlagInv' /\ TreeInv'
    <3> DEFINE x == [NoRes EXCEPT !.pc = "extract", !.from = a, !.todo = Entries(a),
                                !.stray = res[r].stray]
    <3>1. x.pc = "extract" /\ x.from = a /\ x.todo = Entries(a) /\ x.stray = res[r].stray
      BY <1>0 DEF ResType
    <3> HIDE DEF x
    <3>2. ResStep(r, x)
      BY <2>0, <2>2, ResStepSets DEF x
    <3>3. TreeOk(r)'
      <4>1. ASSUME NEW f \in Files, tree[f] = 0
            PROVE  tree[f] = IF f \in Entries(a) THEN 0 ELSE a.body[f]
        BY <4>1 DEF Entries
      <4> QED BY <2>0, <3>1, <3>2, <4>1 DEF TreeOk, ResStep
    <3> QED BY <2>0, <3>1, <3>2, <3>3, FlagStep, TreeStep
  <2> QED BY <1>5, <2>1, <2>2 DEF OpenRestore
<1>6. CASE Extract(r)
  <2>0. res[r].pc = "extract" /\ UNCHANGED <<live, restoring, suspended>>
    BY <1>6 DEF Extract
  <2>1. CASE Res(r, [NoRes EXCEPT !.pc = "report"]) /\ UNCHANGED tree
    BY <1>p, <2>0, <2>1 DEF RPCs
  <2>2. CASE res[r].todo = {} /\ Res(r, [res[r] EXCEPT !.pc = "report", !.ok = ~Broken(res[r].from)]) /\ UNCHANGED tree
    <3> DEFINE x == [res[r] EXCEPT !.pc = "report", !.ok = ~Broken(res[r].from)]
    <3>1. x.pc = "report" /\ x.stray = res[r].stray /\ x.from = res[r].from
      BY DEF ResType
    <3> HIDE DEF x
    <3>2. ResStep(r, x)
      BY <2>2, ResStepSets DEF x
    <3>3. TreeOk(r)'
      BY <2>0, <2>2, <3>1, <3>2 DEF TreeOk, ResStep
    <3> QED BY <2>0, <3>1, <3>2, <3>3, FlagStep, TreeStep
  <2>3. ASSUME NEW f \in res[r].todo, tree' = [tree EXCEPT ![f] = res[r].from.body[f]],
               res' = [q \in Restorers |->
                      IF q = r THEN [res[r] EXCEPT !.todo = @ \ {f}, !.stray = @ \ {f}] ELSE Strayed(q, {f})]
        PROVE  FlagInv' /\ TreeInv'
    <3> DEFINE x == [res[r] EXCEPT !.todo = @ \ {f}, !.stray = @ \ {f}]
    <3>1. /\ x.pc = "extract" /\ x.stray = res[r].stray \ {f} /\ x.from = res[r].from
          /\ x.todo = res[r].todo \ {f}
      BY <2>0 DEF ResType
    <3>2. res' = [q \in Restorers |-> IF q = r THEN x ELSE Strayed(q, {f})]
      BY <2>3
    <3> HIDE DEF x
    <3>a. f \in Files /\ tree' = [tree EXCEPT ![f] = res[r].from.body[f]] /\ tree \in [Files -> Versions]
      BY <2>3 DEF ResType, MiscType
    <3>b. {f} \in SUBSET Files /\ \A g \in Files \ {f} : tree'[g] = tree[g]
      BY <3>a
    <3>3. ResStep(r, x)
      BY <3>2, <3>b, ResStepDisturbs
    <3>4. TreeOk(r)'
      <4>1. ASSUME NEW g \in Files, g \notin res[r].stray \ {f}
            PROVE  tree'[g] = IF g \in res[r].todo \ {f} THEN 0 ELSE res[r].from.body[g]
        <5>1. CASE g = f
          BY <3>a, <5>1
        <5>2. CASE g # f
          BY <2>0, <3>a, <4>1, <5>2 DEF TreeOk
        <5> QED BY <5>1, <5>2
      <4> QED BY <3>1, <3>3, <4>1 DEF TreeOk, ResStep
    <3> QED BY <2>0, <3>1, <3>3, <3>4, FlagStep, TreeStep
  <2> QED BY <1>6, <2>1, <2>2, <2>3 DEF Extract
<1>7. CASE ReportRestore(r)
  BY <1>7, <1>p DEF ReportRestore, RPCs
<1>8. CASE ClearRestoring(r)
  BY <1>8, <1>a DEF ClearRestoring, Abort
<1> QED BY <1>1, <1>2, <1>3, <1>4, <1>5, <1>6, <1>7, <1>8 DEF Restore

LEMMA NextFlagsTree ==
  ASSUME Shape, FlagInv, TreeInv, Next
  PROVE  FlagInv' /\ TreeInv'
<1> ResOk
  BY DEF Shape
<1>1. ASSUME NEW r \in Restorers, PostServerRestore(r) \/ Restore(r) PROVE FlagInv' /\ TreeInv'
  BY <1>1, RestoreFlagsTree
<1>2. ASSUME NEW f \in Files, Write(f) PROVE FlagInv' /\ TreeInv'
  <2>1. /\ res' = [r \in Restorers |-> Strayed(r, {f})] /\ UNCHANGED <<live, restoring, suspended>>
        /\ \A g \in Files \ {f} : tree'[g] = tree[g]
    BY <1>2 DEF Write, Touch, Shape, MiscType
  <2>2. ASSUME NEW q \in Restorers
        PROVE  res'[q].pc = res[q].pc /\ TreeOk(q)'
    BY <2>1, BystanderTree, StrayedStandsBy DEF TreeInv
  <2> QED BY <2>1, <2>2 DEF FlagInv, TreeInv
<1>3. CASE Crash
  <2>1. NoRes.pc = "idle"
    BY DEF NoRes
  <2> QED BY <1>3, <2>1 DEF Crash, FlagInv, TreeInv, TreeOk
<1>4. ASSUME UNCHANGED <<res, tree, restoring>>, live' => live /\ suspended' = suspended PROVE FlagInv' /\ TreeInv'
  BY <1>4 DEF FlagInv, TreeInv, TreeOk
<1>5. ASSUME NEW u \in Uuids, PostServerBackup(u) \/ Backup(u) \/ DeleteServerBackup(u) \/ DeleteRow(u)
      PROVE UNCHANGED <<res, tree, restoring, live, suspended>>
  BY <1>5 DEF PostServerBackup, Backup, DeleteServerBackup, DeleteRow, StatDir, Mkdir, OpenArchive, Header, Copy,
       CloseArchive, GetUploadURLs, UploadPart, Details, Discard, NotifySuccess, NotifyFailure, Unlink, ReadDir, Rmdir
<1>6. CASE Deletes \/ DeleteAllServerBackups
  BY <1>4, <1>6 DEF Deletes, DeleteUnlinks, DeleteReadsDir, DeleteRmdir, DeleteAllServerBackups
<1>7. CASE DeleteServer
  BY <1>4, <1>7 DEF DeleteServer
<1> QED BY <1>1, <1>2, <1>3, <1>4, <1>5, <1>6, <1>7 DEF Next

-----------------------------------------------------------------------------
(* The theorems.                                                            *)

LEMMA InitInv == Init => IInv
<1> SUFFICES ASSUME Init PROVE IInv
  OBVIOUS
<1> USE DEF Init
<1>1. ASSUME NEW u \in Uuids
      PROVE  job[u].pc = "new" /\ disk[u] = None /\ object[u] = None /\ ~Stored(row[u])
  BY DEF NoJob, Stored, Is, Archive
<1>2. RowInv /\ KeptInv
  BY <1>1 DEF RowInv, RowOk, KeptInv, KeptOk
<1>3. FlagInv
  BY DEF FlagInv
<1>4. TreeInv
  BY DEF TreeInv, TreeOk, NoRes
<1> QED BY <1>2, <1>3, <1>4, InitShape DEF IInv

LEMMA NextInv == IInv /\ [Next]_vars => IInv'
<1> SUFFICES ASSUME IInv, [Next]_vars PROVE IInv'
  OBVIOUS
<1>1. Shape'
  BY NextShape DEF IInv
<1>2. CASE Next
  BY <1>1, <1>2, NextRow, NextKept, NextFlagsTree DEF IInv
<1>3. CASE UNCHANGED vars
  <2>1. RowInv'
    <3>1. ASSUME NEW u \in Uuids, RowOk(u) PROVE RowOk(u)'
      BY <1>3, <3>1 DEF vars, RowOk, Made
    <3> QED BY <3>1 DEF IInv, RowInv
  <2>2. KeptInv'
    BY <1>3 DEF vars, IInv, KeptInv, KeptOk
  <2>3. FlagInv'
    BY <1>3 DEF vars, IInv, FlagInv
  <2>4. TreeInv'
    <3>1. ASSUME NEW r \in Restorers, TreeOk(r) PROVE TreeOk(r)'
      BY <1>3, <3>1 DEF vars, TreeOk
    <3> QED BY <3>1 DEF IInv, TreeInv
  <2> QED BY <1>1, <2>1, <2>2, <2>3, <2>4 DEF IInv
<1> QED BY <1>2, <1>3

LEMMA Invariance == Spec => []IInv
  BY InitInv, NextInv, PTL DEF Spec

\* The variables of the backups, restores and deletions keep their types: no request
\* is attempted more often than its elapsed time allows, and every archive, object
\* and row is of a known kind (Server.Backup, RestoreBackup).
THEOREM BackupsTypeOK == Spec => []TypeOK
<1>1. IInv => TypeOK
  <2> SUFFICES ASSUME Shape PROVE TypeOK
    BY DEF IInv
  <2>1. clock \in Nat
    BY Constant DEF Shape, MiscType
  <2>2. ASSUME NEW u \in Uuids
        PROVE  job[u].body \in [Files -> Versions] /\ job[u].todo \subseteq Files /\ job[u].tries \in 0..MaxAttempts
    BY DEF Shape, JobsType, JobType
  <2>3. ASSUME NEW r \in Restorers
        PROVE  res[r].todo \subseteq Files /\ res[r].from \in Archives(Kinds)
    BY DEF Shape, ResOk, ResType
  <2> QED BY <2>1, <2>2, <2>3 DEF Shape, MiscType, StoreType, TypeOK, Kinds
<1> QED BY <1>1, Invariance, PTL

\* What the Panel has recorded as a successful backup is what the directory and the
\* bucket hold, if they hold anything: whatever the requests that are repeated, the
\* uploads, deletions and crashes do (Server.Backup, uploadPart, BackupHandler.Status).
THEOREM RecordsMatch == Spec => []RecordedMatches
<1>1. IInv => RecordedMatches
  <2> SUFFICES ASSUME IInv, NEW u \in Uuids, Stored(row[u])
               PROVE  disk[u] \in {None, row[u]} /\ object[u] \in {None, row[u]}
    BY DEF RecordedMatches
  <2>1. job[u].pc \in PCs /\ RowOk(u)
    BY DEF IInv, Shape, JobsType, JobType, RowInv
  <2> QED BY <2>1 DEF RowOk, PCs
<1> QED BY <1>1, Invariance, PTL

\* The archive of a confirmed local backup stays at its path until its deletion is
\* asked for, whatever other backups, deletions and the removal of a directory that
\* seems empty do meanwhile (LocalBackup.Remove).
THEOREM KeptStays == Spec => []KeptUntilDeleted
<1>1. IInv => KeptUntilDeleted
  BY DEF IInv, KeptInv, KeptOk, KeptUntilDeleted
<1> QED BY <1>1, Invariance, PTL

\* A server without a restore under way is neither restoring nor suspended by one,
\* however many restores have overlapped, failed or been cut by a crash
\* (postServerRestoreBackup, RestoreBackup).
THEOREM FlagsReset == Spec => []FlagsSettle
<1>1. IInv => FlagsSettle
  BY DEF IInv, FlagInv, FlagsSettle
<1> QED BY <1>1, Invariance, PTL

\* A restore that succeeds leaves every file that nobody else has written since it did
\* as its archive has it, for any number of overlapping restores
\* (postServerRestoreBackup, LocalBackup.Restore).
THEOREM RestoreFaithful == Spec => []RestoredFaithfully
<1>1. IInv => RestoredFaithfully
  BY DEF IInv, TreeInv, TreeOk, RestoredFaithfully
<1> QED BY <1>1, Invariance, PTL
=============================================================================

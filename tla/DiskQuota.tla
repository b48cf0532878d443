------------------------------ MODULE DiskQuota ------------------------------
(***************************************************************************)
(* The disk quota of a server's data directory.                             *)
(*                                                                         *)
(* Requests that write, copy, compress, decompress, delete, rename or wipe  *)
(* files run concurrently and account for what they do in one counter       *)
(* (wings/server/filesystem, wings/internal/ufs/fs_quota.go); an SFTP client *)
(* and the server's own process change files without accounting for it, and *)
(* from time to time a lookup walks the directory and replaces the counter  *)
(* (disk_space.go).  Sizes are in units of the model; directories are left   *)
(* out: deleting one deletes the files in it one after the other.           *)
(*                                                                         *)
(* drift and undisturbed are history variables: they record whether         *)
(* something the code does not account for has happened.                    *)
(***************************************************************************)
EXTENDS Integers, FiniteSets, FiniteSetsExt

CONSTANTS
  Files,    \* names in the data directory
  MaxSize,  \* bound: the largest file that is written
  Limits,   \* disk limits the Panel sets
  Workers,  \* goroutines that serve file requests
  Lookers,  \* goroutines that look up the disk usage
  Kinds,    \* kinds of requests that are made
  MaxOps,   \* bound: requests made, and files changed by the process
  None      \* no name

ASSUME FilesAssumption == IsFiniteSet(Files) /\ Files # {} /\ None \notin Files
ASSUME WorkersAssumption == IsFiniteSet(Workers) /\ Workers # {}
ASSUME LimitsAssumption == Limits \subseteq Nat \union {-1} /\ IsFiniteSet(Limits) /\ Limits # {}
ASSUME BoundsAssumption == MaxSize \in Nat /\ MaxOps \in Nat

VARIABLES
  disk,             \* the files that exist, with their sizes
  limit, usage,     \* ufs.Quota
  lookupInProgress, \* a lookup is walking the directory
  fresh,            \* lastLookupTime is within the check interval
  op,               \* what each worker is doing
  look,             \* each looker: idle, waiting for the lock, or walking
  todo, sum,        \* the walk: entries to visit, size so far
  begun,            \* requests made
  drift,            \* never, now or healed: is the counter off?
  undisturbed       \* nothing else has happened since the walk began

counterVars == <<limit, usage>>
lookVars  == <<lookupInProgress, fresh, look, todo, sum>>
quotaVars == <<disk, counterVars, lookVars, op, begun, drift, undisturbed>>

Sizes == 0..MaxSize
NoOp  == [at |-> "idle", kind |-> None, file |-> None, to |-> None, held |-> None,
          cur |-> 0, len |-> 0, delta |-> 0]

Total == SumFunction(disk)

\* The directory has been looked up, or the daemon has just been started and
\* counts from zero.
QuotaInit ==
  /\ disk \in UNION {[S -> Sizes] : S \in SUBSET Files}
  /\ limit \in Limits
  /\ 0 \in Limits \/ Total <= Max(Limits \union {0})
  /\ fresh \in BOOLEAN /\ lookupInProgress = FALSE
  /\ usage = IF fresh THEN Total ELSE 0
  /\ drift = IF usage = Total THEN "never" ELSE "now"
  /\ op = [w \in Workers |-> NoOp]
  /\ look = [l \in Lookers |-> "idle"]
  /\ todo = {} /\ sum = 0 /\ begun = 0 /\ undisturbed = FALSE

-----------------------------------------------------------------------------
Size(f) == IF f \in DOMAIN disk THEN disk[f] ELSE 0

Busy == {w \in Workers : op[w].at # "idle"}
Names(w) == IF op[w].kind = "truncate" THEN Files ELSE {op[w].file, op[w].to} \ {None}
Clash == \E v, w \in Busy : v # w /\ Names(v) \intersect Names(w) # {}

\* A step of a request: cause says that it is not accounted for.
Drifts(cause) ==
  /\ drift' = IF cause \/ Clash' THEN "now" ELSE drift
  /\ undisturbed' = FALSE
  /\ UNCHANGED <<limit, lookVars>>

Arrives(kind) == kind \in Kinds /\ begun < MaxOps /\ begun' = begun + 1

Begin(w, at, kind, file) ==
  /\ op[w] = NoOp
  /\ Arrives(kind)
  /\ op' = [op EXCEPT ![w] = [NoOp EXCEPT !.at = at, !.kind = kind, !.file = file]]

Goto(w, at) == op' = [op EXCEPT ![w] = IF at = "idle" THEN NoOp ELSE [@ EXCEPT !.at = at]]

\* Quota.CanFit.
CanFit(size) ==
  \/ limit = 0
  \/ limit > 0 /\ (usage = -1 \/ usage + size <= limit)

\* Filesystem.HasSpaceAvailable, of the cached value.
HasSpaceAvailable == limit = 0 \/ usage <= limit

\* Mutation of Grow: what is written is appended.
GrowAppends(w, n) ==
  disk' = IF op[w].held \notin DOMAIN disk THEN disk ELSE [disk EXCEPT ![op[w].held] = @ + n]

\* The file behind w's handle has at least n units; it may have been unlinked.
Grow(w, n) ==
  disk' = IF op[w].held \notin DOMAIN disk THEN disk
          ELSE [disk EXCEPT ![op[w].held] = IF @ < n THEN n ELSE @]

Put(f, n) == disk' = [g \in DOMAIN disk \union {f} |-> IF g = f THEN n ELSE disk[g]]
Without(gone) == disk' = [g \in DOMAIN disk \ gone |-> disk[g]]

\* The handles of files that have been unlinked lead nowhere.
Unheld(ops, gone) ==
  [w \in Workers |-> IF ops[w].held \in gone THEN [ops[w] EXCEPT !.held = None] ELSE ops[w]]

-----------------------------------------------------------------------------
(* Quota.Add: the counter is read, then changed.                            *)

AddLoad(w) ==
  /\ op[w].at = "load"
  /\ Goto(w, IF usage + op[w].delta < 0 THEN "zero" ELSE "add")
  /\ Drifts(FALSE)
  /\ UNCHANGED <<disk, usage, begun>>

\* What a request does after Add: a chunk may follow, or the unlink.
AfterAdd(w) ==
  CASE op[w].kind = "unlinkat" -> "unlink"
    [] op[w].kind = "inflate" /\ op[w].cur < op[w].len -> "check"
    [] OTHER -> "idle"

AddStore(w) ==
  /\ \/ op[w].at = "zero" /\ usage' = 0
     \/ op[w].at = "add" /\ usage' = usage + op[w].delta
  /\ Goto(w, AfterAdd(w))
  /\ Drifts(FALSE)
  /\ UNCHANGED <<disk, begun>>

-----------------------------------------------------------------------------
(* Filesystem.Write and Filesystem.Copy.                                    *)

WriteStat(w, f, len) ==
  /\ op[w] = NoOp /\ Arrives("write")
  /\ op' = [op EXCEPT ![w] = [NoOp EXCEPT !.at = "check", !.kind = "write", !.file = f,
                                          !.cur = Size(f), !.len = len]]
  /\ Drifts(FALSE)
  /\ UNCHANGED <<disk, usage>>

CopyStat(w, f) ==
  /\ f \in DOMAIN disk
  /\ op[w] = NoOp /\ Arrives("copy")
  /\ op' = [op EXCEPT ![w] = [NoOp EXCEPT !.at = "check", !.kind = "copy", !.len = disk[f]]]
  /\ Drifts(FALSE)
  /\ UNCHANGED <<disk, usage>>

\* What the request asks to fit: a chunk, or the growth of the file.
Need(w) == IF op[w].kind = "inflate" THEN 1 ELSE op[w].len - op[w].cur

\* Mutation of Check: the answer is ignored.
CheckNothing(w) ==
  /\ op[w].at = "check"
  /\ Goto(w, CASE op[w].kind = "write" -> "touch" [] op[w].kind = "copy" -> "suffix" [] OTHER -> "chunk")
  /\ Drifts(FALSE)
  /\ UNCHANGED <<disk, usage, begun>>

\* A request that does not fit is refused.
Check(w) ==
  /\ op[w].at = "check"
  /\ Goto(w, IF ~CanFit(Need(w)) THEN "idle"
             ELSE CASE op[w].kind = "write" -> "touch"
                    [] op[w].kind = "copy" -> "suffix"
                    [] OTHER -> "chunk")
  /\ Drifts(FALSE)
  /\ UNCHANGED <<disk, usage, begun>>

\* The file is created or truncated.  A length of zero needs no copying.
Touch(w) ==
  /\ op[w].at = "touch"
  /\ Put(op[w].file, 0)
  /\ op' = [op EXCEPT ![w] = [@ EXCEPT !.held = op[w].file,
                                       !.at = IF op[w].len = 0 THEN "load" ELSE "copy",
                                       !.delta = -op[w].cur]]
  /\ Drifts(FALSE)
  /\ UNCHANGED <<usage, begun>>

TouchFails(w) ==
  /\ op[w].at \in {"touch", "open"}
  /\ Goto(w, "idle")
  /\ Drifts(FALSE)
  /\ UNCHANGED <<disk, usage, begun>>

\* findCopySuffix: a name that does not exist.
Suffix(w, g) ==
  /\ op[w].at = "suffix"
  /\ g \notin DOMAIN disk
  /\ op' = [op EXCEPT ![w] = [@ EXCEPT !.file = g, !.at = "open"]]
  /\ Drifts(FALSE)
  /\ UNCHANGED <<disk, usage, begun>>

\* The copy or the archive is created; a file that exists is not truncated.
Open(w) ==
  /\ op[w].at = "open"
  /\ IF op[w].file \in DOMAIN disk THEN UNCHANGED disk ELSE Put(op[w].file, 0)
  /\ op' = [op EXCEPT ![w] = [@ EXCEPT !.held = op[w].file, !.at = "copy"]]
  /\ Drifts(FALSE)
  /\ UNCHANGED <<usage, begun>>

\* Mutation of CopyBytes: the size of the file that was replaced is forgotten.
CopyBytesNew(w, n) ==
  /\ op[w].at = "copy" /\ n <= op[w].len
  /\ Grow(w, n)
  /\ op' = [op EXCEPT ![w] = [@ EXCEPT !.at = "load", !.delta = n]]
  /\ Drifts(FALSE)
  /\ UNCHANGED <<usage, begun>>

\* io.Copy: n units arrive; fewer than announced if the reader ends or fails.
CopyBytes(w, n) ==
  /\ op[w].at = "copy" /\ op[w].kind # "compress"
  /\ n <= op[w].len
  /\ Grow(w, n)
  /\ op' = [op EXCEPT ![w] = [@ EXCEPT !.at = "load", !.delta = n - op[w].cur]]
  /\ Drifts(FALSE)
  /\ UNCHANGED <<usage, begun>>

-----------------------------------------------------------------------------
(* Filesystem.CompressFiles and the decompression of a single file.         *)

\* An archive that is given a name gets one that does not exist.
CompressSuffix(w, g) ==
  /\ HasSpaceAvailable
  /\ g \notin DOMAIN disk
  /\ Begin(w, "open", "compress", g)
  /\ Drifts(FALSE)
  /\ UNCHANGED <<disk, usage>>

\* One without a name gets that of the second, which another archive may have:
\* that one is overwritten from its beginning, and what it takes stays counted.
CompressStamp(w, g) ==
  /\ HasSpaceAvailable
  /\ Begin(w, "open", "compress", g)
  /\ Drifts(Size(g) > 0)
  /\ UNCHANGED <<disk, usage>>

\* The archive is written; what it takes is known afterwards.
Archive(w, n) ==
  /\ op[w].at = "copy" /\ op[w].kind = "compress"
  /\ Grow(w, n)
  /\ op' = [op EXCEPT ![w] = [@ EXCEPT !.at = "fit", !.len = n]]
  /\ Drifts(FALSE)
  /\ UNCHANGED <<usage, begun>>

\* An archive that cannot be finished stays, and nobody accounts for it.
ArchiveFails(w, n) ==
  /\ op[w].at = "copy" /\ op[w].kind = "compress"
  /\ Grow(w, n)
  /\ Goto(w, "idle")
  /\ Drifts(TRUE)
  /\ UNCHANGED <<usage, begun>>

\* An archive that does not fit is removed with Quota.Remove, which subtracts
\* a size that was never added.
Fit(w) ==
  /\ op[w].at = "fit"
  /\ op' = [op EXCEPT ![w] = [@ EXCEPT !.at = IF CanFit(op[w].len) THEN "load" ELSE "lstat",
                                       !.delta = op[w].len]]
  /\ Drifts(~CanFit(op[w].len))
  /\ UNCHANGED <<disk, usage, begun>>

\* extractStream of a compressed file: a file that exists is overwritten from
\* its beginning, and every chunk is checked, written and added.
InflateOpen(w, f, len) ==
  /\ op[w] = NoOp /\ Arrives("inflate")
  /\ IF f \in DOMAIN disk THEN UNCHANGED disk ELSE Put(f, 0)
  /\ op' = [op EXCEPT ![w] = [NoOp EXCEPT !.at = "check", !.kind = "inflate",
                                          !.file = f, !.held = f, !.len = len]]
  /\ Drifts(Size(f) > 0)
  /\ UNCHANGED usage

InflateChunk(w) ==
  /\ op[w].at = "chunk"
  /\ Grow(w, op[w].cur + 1)
  /\ op' = [op EXCEPT ![w] = [@ EXCEPT !.at = "load", !.cur = op[w].cur + 1, !.delta = 1]]
  /\ Drifts(FALSE)
  /\ UNCHANGED <<usage, begun>>

-----------------------------------------------------------------------------
(* Deletion: Quota.Remove of one file, and Quota.unlinkat of the files in a *)
(* directory that is removed.                                               *)

RemoveBegin(w, f) ==
  /\ Begin(w, "lstat", "remove", f)
  /\ Drifts(FALSE)
  /\ UNCHANGED <<disk, usage>>

\* RemoveStat; the size is the one before the unlink.
RemoveStat(w) ==
  /\ op[w].at = "lstat"
  /\ op' = [op EXCEPT ![w] = IF op[w].file \notin DOMAIN disk THEN NoOp
                             ELSE [@ EXCEPT !.at = "unlink", !.cur = disk[op[w].file]]]
  /\ Drifts(FALSE)
  /\ UNCHANGED <<disk, usage, begun>>

\* Quota.unlinkat accounts for the file before it unlinks it.
UnlinkatStat(w, f) ==
  /\ f \in DOMAIN disk
  /\ op[w] = NoOp /\ Arrives("unlinkat")
  /\ op' = [op EXCEPT ![w] = [NoOp EXCEPT !.at = "load", !.kind = "unlinkat", !.file = f,
                                          !.cur = disk[f], !.delta = -disk[f]]]
  /\ Drifts(FALSE)
  /\ UNCHANGED <<disk, usage>>

\* Quota.Remove accounts for the file now that it is gone; one that had gone
\* already ends the request.
Unlink(w) ==
  /\ op[w].at = "unlink"
  /\ LET f == op[w].file
         found == f \in DOMAIN disk
         then == IF op[w].kind = "unlinkat" \/ ~found THEN NoOp
                 ELSE [op[w] EXCEPT !.at = "load", !.delta = -op[w].cur]
     IN /\ Without({f})
        /\ op' = Unheld([op EXCEPT ![w] = then], {f})
  /\ Drifts(FALSE)
  /\ UNCHANGED <<usage, begun>>

\* removeAll tries again with unlinkat when Remove fails; when that fails, the
\* size of a file that is still there has been subtracted.
UnlinkFails(w) ==
  /\ op[w].at = "unlink"
  /\ LET f == op[w].file
     IN op' = [op EXCEPT ![w] =
                 IF op[w].kind # "remove" \/ f \notin DOMAIN disk THEN NoOp
                 ELSE [@ EXCEPT !.at = "load", !.kind = "unlinkat", !.cur = disk[f], !.delta = -disk[f]]]
  /\ Drifts(op[w].kind = "unlinkat")
  /\ UNCHANGED <<disk, usage, begun>>

-----------------------------------------------------------------------------
(* UnixFS.Rename and Filesystem.TruncateRootDirectory.                      *)

\* The new name must not exist, ...
RenameStat(w, f, g) ==
  /\ f # g /\ f \in DOMAIN disk /\ g \notin DOMAIN disk
  /\ op[w] = NoOp /\ Arrives("rename")
  /\ op' = [op EXCEPT ![w] = [NoOp EXCEPT !.at = "rename", !.kind = "rename", !.file = f, !.to = g]]
  /\ Drifts(FALSE)
  /\ UNCHANGED <<disk, usage>>

\* ... but if it does by now, the file of that name is replaced.
Rename(w) ==
  /\ op[w].at = "rename"
  /\ LET f == op[w].file
         g == op[w].to
         ops == Unheld([op EXCEPT ![w] = NoOp], {g})
     IN IF f \notin DOMAIN disk
        THEN Goto(w, "idle") /\ UNCHANGED disk
        ELSE /\ disk' = [h \in (DOMAIN disk \ {f}) \union {g} |-> IF h = g THEN disk[f] ELSE disk[h]]
             /\ op' = [v \in Workers |-> IF ops[v].held = f THEN [ops[v] EXCEPT !.held = g] ELSE ops[v]]
  /\ Drifts(FALSE)
  /\ UNCHANGED <<usage, begun>>

Wipe(w) ==
  /\ op[w] = NoOp /\ Arrives("truncate")
  /\ Without(Files)
  /\ op' = Unheld([op EXCEPT ![w] = [NoOp EXCEPT !.at = "reset", !.kind = "truncate", !.cur = Total]], Files)
  /\ Drifts(FALSE)
  /\ UNCHANGED usage

\* Some files are gone when the removal fails, and the counter stays.
WipeFails(w, f) ==
  /\ op[w] = NoOp /\ Arrives("truncate")
  /\ f \in DOMAIN disk
  /\ Without({f})
  /\ op' = Unheld(op, {f})
  /\ Drifts(TRUE)
  /\ UNCHANGED usage

\* A new Quota starts at zero.
Reset(w) ==
  /\ op[w].at = "reset"
  /\ usage' = 0
  /\ Goto(w, "idle")
  /\ Drifts(FALSE)
  /\ UNCHANGED <<disk, begun>>

-----------------------------------------------------------------------------
(* What is not accounted for: SFTP uploads and the server's own process.    *)

SftpOpen(w, f) ==
  /\ HasSpaceAvailable
  /\ op[w] = NoOp /\ Arrives("sftp")
  /\ Put(f, 0)
  /\ op' = [op EXCEPT ![w] = [NoOp EXCEPT !.at = "put", !.kind = "sftp", !.file = f, !.held = f]]
  /\ Drifts(TRUE)
  /\ UNCHANGED usage

SftpWrite(w, n) ==
  /\ op[w].at = "put"
  /\ Grow(w, n)
  /\ Goto(w, "idle")
  /\ Drifts(TRUE)
  /\ UNCHANGED <<usage, begun>>

Process(f, n) ==
  /\ Arrives("process")
  /\ Put(f, n)
  /\ Drifts(TRUE)
  /\ UNCHANGED <<usage, op>>

-----------------------------------------------------------------------------
(* Filesystem.DiskUsage and updateCachedDiskUsage.                          *)

Expire ==
  /\ fresh /\ fresh' = FALSE
  /\ UNCHANGED <<disk, counterVars, lookupInProgress, look, todo, sum, op, begun, drift, undisturbed>>

\* A lookup is asked for when the value is old; one that may be stale only when
\* none is in progress.
DiskUsage(l, allowStaleValue) ==
  /\ look[l] = "idle"
  /\ ~fresh
  /\ allowStaleValue => ~lookupInProgress
  /\ look' = [look EXCEPT ![l] = "wait"]
  /\ UNCHANGED <<disk, counterVars, lookupInProgress, fresh, todo, sum, op, begun, drift, undisturbed>>

\* The lock is taken and the directory is read.
LookupBegin(l) ==
  /\ look[l] = "wait"
  /\ \A k \in Lookers : look[k] # "walk"
  /\ look' = [look EXCEPT ![l] = "walk"]
  /\ lookupInProgress' = TRUE
  /\ todo' = DOMAIN disk /\ sum' = 0
  /\ undisturbed' = (Busy = {})
  /\ UNCHANGED <<disk, counterVars, fresh, op, begun, drift>>

\* An entry that is gone ends the walk.
Visit(l, f) ==
  /\ look[l] = "walk"
  /\ f \in todo
  /\ todo' = IF f \in DOMAIN disk THEN todo \ {f} ELSE {}
  /\ sum' = sum + Size(f)
  /\ UNCHANGED <<disk, counterVars, lookupInProgress, fresh, look, op, begun, drift, undisturbed>>

\* The sum is the new value of the counter, whatever has been added meanwhile
\* and even if the walk ended early.
Cache(l) ==
  /\ look[l] = "walk" /\ todo = {}
  /\ fresh' = TRUE
  /\ usage' = sum
  /\ lookupInProgress' = FALSE
  /\ look' = [look EXCEPT ![l] = "idle"]
  /\ drift' = IF ~undisturbed THEN "now" ELSE IF drift = "now" THEN "healed" ELSE drift
  /\ sum' = 0 /\ undisturbed' = FALSE
  /\ UNCHANGED <<disk, limit, todo, op, begun>>

Lookup(l) == LookupBegin(l) \/ (\E f \in Files : Visit(l, f)) \/ Cache(l)

\* Server.Sync.
SetDiskLimit(i) ==
  /\ i # limit /\ limit' = i
  /\ UNCHANGED <<disk, usage, lookVars, op, begun, drift, undisturbed>>

-----------------------------------------------------------------------------
Step(w) ==
  \/ AddLoad(w) \/ AddStore(w) \/ Check(w) \/ Touch(w) \/ Open(w) \/ Fit(w)
  \/ InflateChunk(w) \/ RemoveStat(w) \/ Unlink(w) \/ Rename(w) \/ Reset(w)
  \/ \E n \in Sizes : CopyBytes(w, n) \/ Archive(w, n) \/ SftpWrite(w, n)
  \/ \E g \in Files : Suffix(w, g)

Fails(w) == TouchFails(w) \/ UnlinkFails(w) \/ \E n \in Sizes : ArchiveFails(w, n)

Requested(w) ==
  \E f \in Files :
    \/ CopyStat(w, f) \/ CompressSuffix(w, f) \/ CompressStamp(w, f)
    \/ RemoveBegin(w, f) \/ UnlinkatStat(w, f) \/ WipeFails(w, f) \/ SftpOpen(w, f)
    \/ \E n \in Sizes : WriteStat(w, f, n) \/ (n > 0 /\ InflateOpen(w, f, n))
    \/ \E g \in Files : RenameStat(w, f, g)

QuotaNext ==
  \/ \E w \in Workers : Step(w) \/ Fails(w) \/ Requested(w) \/ Wipe(w)
  \/ \E f \in Files, n \in Sizes : Process(f, n)
  \/ \E l \in Lookers : Lookup(l) \/ \E a \in BOOLEAN : DiskUsage(l, a)
  \/ Expire
  \/ \E i \in Limits : SetDiskLimit(i)

QuotaSpec == QuotaInit /\ [][QuotaNext]_quotaVars

-----------------------------------------------------------------------------
(* Properties.                                                              *)

\* Where a worker may be, and what it knows there.
Places == {"idle", "load", "zero", "add", "check", "touch", "suffix", "open", "copy", "fit",
           "chunk", "lstat", "unlink", "rename", "reset", "put"}
Requests ==
  [at : Places, kind : Kinds \union {"unlinkat", None}, file : Files \union {None},
   to : Files \union {None}, held : Files \union {None},
   cur : Nat, len : Sizes, delta : Int]

\* The variables' types; no file exceeds the size its writes allow.
QuotaTypeOK ==
  /\ DOMAIN disk \subseteq Files /\ \A f \in DOMAIN disk : disk[f] \in Sizes
  /\ limit \in Limits /\ usage \in Int
  /\ lookupInProgress \in BOOLEAN /\ fresh \in BOOLEAN
  /\ op \in [Workers -> Requests]
  /\ look \in [Lookers -> {"idle", "wait", "walk"}]
  /\ todo \subseteq Files /\ sum \in Nat /\ begun \in 0..MaxOps
  /\ drift \in {"never", "now", "healed"} /\ undisturbed \in BOOLEAN

\* What w has done to the disk and not to the counter yet, less the other way
\* round.
Pending(w) ==
  LET o == op[w] IN
  CASE o.at \in {"load", "zero", "add"} /\ o.kind # "unlinkat" -> o.delta
    [] o.at = "copy" \/ o.at = "reset" -> -o.cur
    [] o.at = "fit" -> o.len
    [] o.at = "unlink" /\ o.kind = "unlinkat" -> o.cur
    [] OTHER -> 0

\* Nothing gets lost between the requests: with what they have yet to account
\* for, the counter is the size of the directory, however their steps mix.  It
\* holds from the start, and again from a lookup that nothing disturbed, until
\* something happens that the code does not account for: an SFTP upload or the
\* process writes, an archive fails, does not fit or gets the name of another of
\* the same second, a file is decompressed over another, an unlink or a wipe
\* fails, two requests are at the same file, or a lookup overlaps with a request.
\* What is lost or counted twice then is not bounded here.
Accounted == drift # "now" => usage + SumFunction([w \in Workers |-> Pending(w)]) = Total

\* The check of Write, Copy and CompressFiles is made before the counter is
\* changed, so requests that run together may all pass it: the directory is
\* over the limit by at most the requests but one.
BoundedOverrun ==
  drift = "never" /\ Busy = {} /\ 0 \notin Limits
    => Total <= Max(Limits \union {0}) + (Cardinality(Workers) - 1) * MaxSize

-----------------------------------------------------------------------------
(* What comments of the code say, which the code does not do.               *)

\* "If adding `i` to the usage will put us below 0, cap it" (fs_quota.go).
NeverBelowZero == usage >= 0

\* "Once the lock is available it'll read from the cache for the second call
\* rather than hitting the disk" (disk_space.go): no walk begins on a value
\* that has just been looked up.
SecondReadsCache == [][\A l \in Lookers : LookupBegin(l) => ~fresh]_quotaVars
=============================================================================

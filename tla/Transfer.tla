------------------------------ MODULE Transfer ------------------------------
(***************************************************************************)
(* The transfer of one server from a source node to a target node.          *)
(*                                                                         *)
(* On the source, postServerTransfer claims the server and pushes the       *)
(* archive, its checksum and the backups with theirs as the parts of one    *)
(* multipart request, written by a goroutine of its own (wings/router/      *)
(* router_server_transfer.go, wings/server/transfer).  On the target,       *)
(* postTransfers reads the parts, verifies them and tells the Panel the     *)
(* outcome (wings/router/router_transfer.go).  Either node's side can be    *)
(* cancelled.                                                               *)
(*                                                                         *)
(* An attempt is one request of the Panel, with its push on the source and  *)
(* its handler on the target; transfer objects and server objects of the    *)
(* target are named after the attempt that made them.  The Panel and the    *)
(* network are external: the Panel asks for a transfer when it knows of     *)
(* none that is pending, and keeps the first verdict about a pending one.   *)
(***************************************************************************)
EXTENDS Naturals, FiniteSets

CONSTANTS
  Attempts,  \* transfers the Panel asks for
  NBackups,  \* backups sent along
  MaxFaults, \* bound: network, disk and Panel operations that fail
  Cancels,   \* users may cancel
  None       \* no attempt

ASSUME NBackupsAssumption == NBackups \in Nat
ASSUME MaxFaultsAssumption == MaxFaults \in Nat
ASSUME CancelsAssumption == Cancels \in BOOLEAN
ASSUME NoneAssumption == None \notin Attempts

\* The parts in the order they are sent: the archive, its checksum, and every
\* backup followed by its checksum.
NParts      == 2 + 2 * NBackups
BackupPart(k) == 2 * k + 1

VARIABLES
  faults,       \* operations that have failed
  panel,        \* what the Panel knows: idle, pending, failure or success
  \* the source node
  transferring, \* the server's transferring flag
  outgoing,     \* the entry of the outgoing transfer manager
  spc,          \* postServerTransfer and PushArchiveToTarget of each attempt
  stream,       \* its goroutine that writes the parts
  sent,         \* parts written
  cancelled,    \* attempts whose context is cancelled
  \* the connection
  body,         \* the request body: none, open, ended or broken
  reply,        \* the response
  \* the target node
  tpc,          \* postTransfers of each attempt
  obj,          \* the transfer object it works with
  recvd,        \* parts read
  bad,          \* parts that arrived damaged
  incoming,     \* the entry of the incoming transfer manager
  stopped,      \* transfer objects that have been cancelled
  managed,      \* server objects in the server manager
  claimed,      \* server objects whose transferring flag is set
  files,        \* the server's data directory
  removing      \* handlers whose goroutine deletes the data directory

sourceVars == <<transferring, outgoing, spc, stream, sent, cancelled>>
targetVars == <<tpc, obj, recvd, bad, incoming, stopped, managed, claimed, files, removing>>
vars == <<faults, panel, sourceVars, body, reply, targetVars>>

Init ==
  /\ faults = 0 /\ panel = "idle"
  /\ transferring = FALSE /\ outgoing = None /\ cancelled = {}
  /\ spc = [a \in Attempts |-> "idle"]
  /\ stream = [a \in Attempts |-> "none"]
  /\ sent = [a \in Attempts |-> 0]
  /\ body = [a \in Attempts |-> "none"]
  /\ reply = [a \in Attempts |-> "none"]
  /\ tpc = [a \in Attempts |-> "none"]
  /\ obj = [a \in Attempts |-> a]
  /\ recvd = [a \in Attempts |-> 0]
  /\ bad = [a \in Attempts |-> {}]
  /\ incoming = None /\ stopped = {} /\ managed = {} /\ claimed = {}
  /\ files = "none" /\ removing = {}

Break(a) == body' = [body EXCEPT ![a] = IF @ = "open" THEN "broken" ELSE @]

\* The Panel takes a verdict about a pending transfer.
Told(v) == panel' = IF panel = "pending" THEN v ELSE panel

\* A call that fails may have reached the Panel all the same.
MaybeTold(v) == Told(v) \/ UNCHANGED panel

-----------------------------------------------------------------------------
(* The source: postServerTransfer.                                          *)

\* The Panel's request.
Request(a) ==
  /\ spc[a] = "idle"
  /\ panel \in {"idle", "failure"}
  /\ panel' = "pending"
  /\ spc' = [spc EXCEPT ![a] = "check"]
  /\ UNCHANGED <<transferring, outgoing, stream, sent, cancelled, body, reply, targetVars>>

\* A request is refused while the server is being transferred.
Check(a) ==
  /\ spc[a] = "check"
  /\ spc' = [spc EXCEPT ![a] = IF transferring THEN "done" ELSE "claim"]
  /\ IF transferring THEN Told("failure") ELSE UNCHANGED panel
  /\ UNCHANGED <<transferring, outgoing, stream, sent, cancelled, body, reply, targetVars>>

Claim(a) ==
  /\ spc[a] = "claim"
  /\ transferring' = TRUE
  /\ spc' = [spc EXCEPT ![a] = "stop"]
  /\ UNCHANGED <<panel, outgoing, stream, sent, cancelled, body, reply, targetVars>>

\* The server has been stopped: the transfer is registered.
Register(a) ==
  /\ spc[a] = "stop"
  /\ outgoing' = a
  /\ spc' = [spc EXCEPT ![a] = "open"]
  /\ UNCHANGED <<panel, transferring, stream, sent, cancelled, body, reply, targetVars>>

\* The server could not be stopped: the request fails.
StopFails(a) ==
  /\ spc[a] = "stop"
  /\ transferring' = FALSE
  /\ Told("failure")
  /\ spc' = [spc EXCEPT ![a] = "done"]
  /\ UNCHANGED <<outgoing, stream, sent, cancelled, body, reply, targetVars>>

\* PushArchiveToTarget: the archive is prepared, the writer starts, and the
\* request is under way.
Open(a) ==
  /\ spc[a] = "open"
  /\ spc' = [spc EXCEPT ![a] = "do"]
  /\ stream' = [stream EXCEPT ![a] = "run"]
  /\ body' = [body EXCEPT ![a] = "open"]
  /\ UNCHANGED <<panel, transferring, outgoing, sent, cancelled, reply, targetVars>>

\* One step of the push that ends it with an error: the body is closed.
Fail(a, from) ==
  /\ spc[a] = from
  /\ spc' = [spc EXCEPT ![a] = "fail"]
  /\ Break(a)
  /\ UNCHANGED <<panel, transferring, outgoing, sent, cancelled, reply, targetVars>>

OpenFails(a) == Fail(a, "open") /\ UNCHANGED stream

\* client.Do fails: the context is cancelled, the connection is lost, or the
\* target has answered with an error.
DoFails(a) ==
  /\ a \in cancelled \/ reply[a] \in {"lost", "error"}
  /\ Fail(a, "do")
  /\ UNCHANGED stream

Do(a) ==
  /\ spc[a] = "do"
  /\ reply[a] = "ok"
  /\ spc' = [spc EXCEPT ![a] = "select"]
  /\ UNCHANGED <<panel, transferring, outgoing, stream, sent, cancelled, body, reply, targetVars>>

\* Mutation of SelectFails: nobody takes the writer's error.
SelectDeaf(a) ==
  /\ Fail(a, "select")
  /\ (reply[a] = "lost" /\ stream[a] = "over") \/ a \in cancelled
  /\ UNCHANGED stream

\* The select after client.Do: the context is cancelled, or the writer is done and
\* the body of the response cannot be read, or the writer hands its error over.
SelectFails(a) ==
  /\ Fail(a, "select")
  /\ \/ a \in cancelled /\ UNCHANGED stream
     \/ reply[a] = "lost" /\ stream[a] = "over" /\ UNCHANGED stream
     \/ stream[a] = "blocked" /\ stream' = [stream EXCEPT ![a] = "over"]

\* The writer is done: the push is, and the server stays claimed.
Select(a) ==
  /\ spc[a] = "select"
  /\ stream[a] = "over"
  /\ spc' = [spc EXCEPT ![a] = "forget"]
  /\ UNCHANGED <<panel, transferring, outgoing, stream, sent, cancelled, body, reply, targetVars>>

\* notifyPanelOfFailure: the Panel is told, its answer does not matter, ...
Notified(a) ==
  /\ spc[a] = "fail"
  /\ spc' = [spc EXCEPT ![a] = "release"]
  /\ UNCHANGED <<transferring, outgoing, stream, sent, cancelled, body, reply, targetVars>>

NotifyFailure(a) == Notified(a) /\ Told("failure")

NotifyFailureFails(a) == Notified(a) /\ MaybeTold("failure")

\* Mutation of Release: the flag is left alone.
ReleaseNothing(a) ==
  /\ spc[a] = "release"
  /\ spc' = [spc EXCEPT ![a] = "forget"]
  /\ UNCHANGED <<panel, transferring, outgoing, stream, sent, cancelled, body, reply, targetVars>>

\* ... and the server is released.
Release(a) ==
  /\ spc[a] = "release"
  /\ transferring' = FALSE
  /\ spc' = [spc EXCEPT ![a] = "forget"]
  /\ UNCHANGED <<panel, outgoing, stream, sent, cancelled, body, reply, targetVars>>

\* The deferred Outgoing().Remove, which goes by the server's ID.
Forget(a) ==
  /\ spc[a] = "forget"
  /\ outgoing' = None
  /\ spc' = [spc EXCEPT ![a] = "done"]
  /\ UNCHANGED <<panel, transferring, stream, sent, cancelled, body, reply, targetVars>>

\* The writer.  An error is sent on an unbuffered channel, and the body is
\* closed only after somebody has received it.
WritePart(a) ==
  /\ stream[a] = "run" /\ body[a] = "open"
  /\ sent[a] < NParts
  /\ sent' = [sent EXCEPT ![a] = @ + 1]
  /\ UNCHANGED <<panel, transferring, outgoing, spc, stream, cancelled, body, reply, targetVars>>

\* A file cannot be read; the same happens when the body or the context is gone.
ReadError(a) ==
  /\ stream[a] = "run" /\ sent[a] < NParts
  /\ stream' = [stream EXCEPT ![a] = "blocked"]
  /\ UNCHANGED <<panel, transferring, outgoing, spc, sent, cancelled, body, reply, targetVars>>

WriteFails(a) == (body[a] = "broken" \/ a \in cancelled) /\ ReadError(a)

\* After the last part errors are only logged.
WriteEnds(a) ==
  /\ stream[a] = "run" /\ sent[a] = NParts
  /\ stream' = [stream EXCEPT ![a] = "over"]
  /\ body' = [body EXCEPT ![a] = IF @ = "open" THEN "ended" ELSE @]
  /\ UNCHANGED <<panel, transferring, outgoing, spc, sent, cancelled, reply, targetVars>>

\* deleteServerTransfer.
CancelOutgoing ==
  /\ Cancels
  /\ transferring /\ outgoing \notin {None} \union cancelled
  /\ cancelled' = cancelled \union {outgoing}
  /\ UNCHANGED <<panel, transferring, outgoing, spc, stream, sent, body, reply, targetVars>>

Source(a) ==
  \/ Check(a) \/ Claim(a) \/ Register(a) \/ Open(a)
  \/ Do(a) \/ DoFails(a) \/ Select(a) \/ SelectFails(a)
  \/ NotifyFailure(a) \/ Release(a) \/ Forget(a)

Writer(a) == WritePart(a) \/ WriteFails(a) \/ WriteEnds(a)

\* The connection is lost: the response is, and what has not been read may be.
Disconnect(a) ==
  /\ spc[a] \in {"do", "select"} /\ reply[a] # "lost"
  /\ reply' = [reply EXCEPT ![a] = "lost"]
  /\ body' \in {[body EXCEPT ![a] = "broken"], body}
  /\ body'[a] # "open"
  /\ UNCHANGED <<panel, sourceVars, targetVars>>

-----------------------------------------------------------------------------
(* The target: postTransfers.                                               *)

\* A step of a's handler that touches nothing but the handler's own progress.
Handler(a, from, to) ==
  /\ tpc[a] = from
  /\ tpc' = [tpc EXCEPT ![a] = to]
  /\ UNCHANGED sourceVars

Answer(a, r) == reply' = [reply EXCEPT ![a] = IF @ = "lost" THEN @ ELSE r]

\* The handler ends before its deferred function exists: an error response.
Refuse(a) ==
  /\ body[a] # "none"
  /\ Handler(a, "none", "end") \/ Handler(a, "create", "end")
  /\ Answer(a, "error")
  /\ Break(a)
  /\ UNCHANGED <<panel, obj, recvd, bad, incoming, stopped, managed, claimed, files, removing>>

\* The request arrives: an existing transfer object is used, if there is one.
Arrive(a) ==
  /\ body[a] # "none"
  /\ Handler(a, "none", IF incoming = None THEN "create" ELSE "read")
  /\ obj' = [obj EXCEPT ![a] = IF incoming = None THEN a ELSE incoming]
  /\ UNCHANGED <<panel, body, reply, recvd, bad, incoming, stopped, managed, claimed, files, removing>>

\* A server object is made from the Panel's configuration and added.
Create(a) ==
  /\ Handler(a, "create", "read")
  /\ claimed' = claimed \union {a}
  /\ managed' = managed \union {a}
  /\ incoming' = a
  /\ UNCHANGED <<panel, body, reply, obj, recvd, bad, stopped, files, removing>>

\* The handler asks for the next part, unless the transfer has been cancelled.
NextPart(a) ==
  /\ obj[a] \notin stopped
  /\ Handler(a, "read", "next")
  /\ UNCHANGED <<panel, body, reply, obj, recvd, bad, incoming, stopped, managed, claimed, files, removing>>

\* Mutation of ReadPart: the end of what has been sent is not noticed.
ReadPartBeyond(a, damage) ==
  /\ Handler(a, "next", "read")
  /\ recvd' = [recvd EXCEPT ![a] = @ + 1]
  /\ UNCHANGED <<panel, body, reply, obj, bad, incoming, stopped, managed, claimed, files, removing>>

\* One part is read: the archive is extracted while its hash is calculated.
ReadPart(a, damage) ==
  /\ Handler(a, "next", "read")
  /\ recvd[a] < sent[a]
  /\ recvd' = [recvd EXCEPT ![a] = @ + 1]
  /\ bad' = [bad EXCEPT ![a] = IF damage THEN @ \union {recvd[a] + 1} ELSE @]
  /\ files' = IF recvd[a] # 0 THEN files ELSE IF damage THEN "damaged" ELSE "complete"
  /\ UNCHANGED <<panel, body, reply, obj, incoming, stopped, managed, claimed, removing>>

\* A disk operation fails; the archive may have been extracted in part.
DiskError(a) ==
  /\ Handler(a, "next", "drop")
  /\ files' \in {files} \union (IF recvd[a] = 0 THEN {"partial"} ELSE {})
  /\ UNCHANGED <<panel, body, reply, obj, recvd, bad, incoming, stopped, managed, claimed, removing>>

\* Mutation of ReadFails: a broken connection is not noticed.
ReadHangs(a) == obj[a] \in stopped /\ recvd[a] = 0 /\ DiskError(a)

\* The same when the connection breaks, or when the extraction notices that the
\* transfer has been cancelled.
ReadFails(a) == (body[a] = "broken" \/ (obj[a] \in stopped /\ recvd[a] = 0)) /\ DiskError(a)

\* The loop ends: after the last part, or because the transfer is cancelled, which
\* a handler that waits for a part does not see.
ReadEnds(a) ==
  /\ \/ Handler(a, "read", "verify") /\ obj[a] \in stopped
     \/ Handler(a, "next", "verify") /\ recvd[a] = NParts /\ body[a] = "ended"
  /\ UNCHANGED <<panel, body, reply, obj, recvd, bad, incoming, stopped, managed, claimed, files, removing>>

\* Part i has been read and the part after it, its checksum, agrees with it.
Intact(a, i) == recvd[a] >= i + 1 /\ {i, i + 1} \intersect bad[a] = {}

\* Mutation of Verified: the archive's checksum is not compared.
VerifiedBlindly(a) ==
  /\ recvd[a] >= 2
  /\ \A k \in 1..NBackups : recvd[a] >= BackupPart(k) => Intact(a, BackupPart(k))

\* Every part that has been read is followed by the right checksum, and there
\* is an archive.
Verified(a) ==
  /\ Intact(a, 1)
  /\ \A k \in 1..NBackups : recvd[a] >= BackupPart(k) => Intact(a, BackupPart(k))

\* The checksums are compared and the environment is created.
Verify(a) ==
  /\ Handler(a, "verify", IF Verified(a) THEN "keep" ELSE "drop")
  /\ UNCHANGED <<panel, body, reply, obj, recvd, bad, incoming, stopped, managed, claimed, files, removing>>

CreateFails(a) ==
  /\ Handler(a, "verify", "drop")
  /\ UNCHANGED <<panel, body, reply, obj, recvd, bad, incoming, stopped, managed, claimed, files, removing>>

\* The deferred function: the transfer object is removed by the server's ID ...
Unlist(a) ==
  /\ \/ Handler(a, "keep", "success")
     \/ Handler(a, "drop", "unmanage")
  /\ incoming' = None
  /\ UNCHANGED <<panel, body, reply, obj, recvd, bad, stopped, managed, claimed, files, removing>>

\* ... and so is the server, when the transfer failed.
Unmanage(a) ==
  /\ Handler(a, "unmanage", "failure")
  /\ managed' = {}
  /\ UNCHANGED <<panel, body, reply, obj, recvd, bad, incoming, stopped, claimed, files, removing>>

\* The Panel is told; then the server is unlocked ...
NotifyPanel(a) ==
  \E v \in {"success", "failure"} :
    /\ Handler(a, v, IF v = "success" THEN "ok" ELSE "error")
    /\ Told(v)
    /\ claimed' = claimed \ {obj[a]}
    /\ UNCHANGED <<body, reply, obj, recvd, bad, incoming, stopped, managed, files, removing>>

\* ... unless the call fails: then the files of a failed transfer are deleted.
NotifyFails(a) ==
  \E v \in {"success", "failure"} :
    /\ Handler(a, v, IF v = "success" THEN "ok" ELSE "error")
    /\ MaybeTold(v)
    /\ removing' = IF v = "failure" THEN removing \union {a} ELSE removing
    /\ UNCHANGED <<body, reply, obj, recvd, bad, incoming, stopped, managed, claimed, files>>

RemoveFiles(a) ==
  /\ a \in removing
  /\ removing' = removing \ {a}
  /\ files' = "none"
  /\ UNCHANGED <<panel, sourceVars, body, reply, tpc, obj, recvd, bad, incoming, stopped, managed, claimed>>

\* The response; what is left of the body is not read any more.
Respond(a) ==
  \E r \in {"ok", "error"} :
    /\ Handler(a, r, "end")
    /\ Answer(a, r)
    /\ Break(a)
    /\ UNCHANGED <<panel, obj, recvd, bad, incoming, stopped, managed, claimed, files, removing>>

\* deleteTransfer.
CancelIncoming ==
  /\ Cancels
  /\ managed \intersect claimed # {} /\ incoming \notin {None} \union stopped
  /\ stopped' = stopped \union {incoming}
  /\ UNCHANGED <<panel, sourceVars, body, reply, tpc, obj, recvd, bad, incoming, managed, claimed, files, removing>>

Target(a) ==
  \/ Arrive(a) \/ Create(a) \/ NextPart(a) \/ ReadPart(a, FALSE) \/ ReadFails(a) \/ ReadEnds(a) \/ Verify(a)
  \/ Unlist(a) \/ Unmanage(a) \/ NotifyPanel(a) \/ Respond(a)

-----------------------------------------------------------------------------
\* Something goes wrong.
Fault(a) ==
  \/ StopFails(a) \/ OpenFails(a) \/ NotifyFailureFails(a) \/ ReadError(a) \/ Disconnect(a)
  \/ Refuse(a) \/ ReadPart(a, TRUE) \/ DiskError(a) \/ CreateFails(a) \/ NotifyFails(a)

Next ==
  \/ /\ UNCHANGED faults
     /\ \/ \E a \in Attempts : Request(a) \/ Source(a) \/ Writer(a) \/ Target(a) \/ RemoveFiles(a)
        \/ CancelOutgoing \/ CancelIncoming
  \/ /\ faults < MaxFaults
     /\ faults' = faults + 1
     /\ \E a \in Attempts : Fault(a)

Spec == Init /\ [][Next]_vars

\* Goroutines run; nobody has to ask for a transfer or to cancel one.
Fairness ==
  \A a \in Attempts :
    /\ WF_vars(UNCHANGED faults /\ Source(a)) /\ WF_vars(UNCHANGED faults /\ Writer(a))
    /\ WF_vars(UNCHANGED faults /\ Target(a)) /\ WF_vars(UNCHANGED faults /\ RemoveFiles(a))

FairSpec == Spec /\ Fairness

-----------------------------------------------------------------------------
(* Properties.                                                              *)

\* The variables' types; no more parts are read than are sent.
TypeOK ==
  /\ faults \in 0..MaxFaults
  /\ panel \in {"idle", "pending", "failure", "success"}
  /\ transferring \in BOOLEAN
  /\ outgoing \in Attempts \union {None}
  /\ spc \in [Attempts -> {"idle", "check", "claim", "stop", "open", "do", "select",
                            "fail", "release", "forget", "done"}]
  /\ stream \in [Attempts -> {"none", "run", "blocked", "over"}]
  /\ sent \in [Attempts -> 0..NParts]
  /\ cancelled \subseteq Attempts
  /\ body \in [Attempts -> {"none", "open", "ended", "broken"}]
  /\ reply \in [Attempts -> {"none", "ok", "error", "lost"}]
  /\ tpc \in [Attempts -> {"none", "create", "read", "next", "verify", "keep", "drop",
                            "unmanage", "success", "failure", "ok", "error", "end"}]
  /\ obj \in [Attempts -> Attempts]
  /\ recvd \in [Attempts -> 0..NParts]
  /\ bad \in [Attempts -> SUBSET (1..NParts)]
  /\ incoming \in Attempts \union {None}
  /\ stopped \subseteq Attempts /\ managed \subseteq Attempts /\ claimed \subseteq Attempts
  /\ files \in {"none", "partial", "damaged", "complete"}
  /\ removing \subseteq Attempts

\* The target has seen the request of one attempt only.
Alone == \A a, b \in Attempts : tpc[a] # "none" /\ tpc[b] # "none" => a = b

\* A transfer the Panel takes for successful is one the target can serve: the
\* server is in its manager and its files are the ones that were sent, whatever
\* was damaged, lost, cancelled or answered late on the way; as long as one
\* attempt has reached the target.
AcceptedIsHeld == panel = "success" /\ Alone => managed # {} /\ files = "complete"

\* Nothing is under way on the source, and what the Panel wants is settled.
SourceQuiet == \A a \in Attempts : spc[a] \in {"idle", "done"}

\* "We just need to make sure we clean up our statuses for failure"
\* (router_server_transfer.go): when the Panel takes the transfer for failed and
\* the source is done with it, the server is not blocked there any more, however
\* often it was tried; as long as one attempt has reached the target, whose verdict
\* the Panel could otherwise take for that of a later one.
FailureFreesSource == SourceQuiet /\ panel = "failure" /\ Alone => ~transferring

\* The push is waiting for an answer, and its writer for somebody to take its
\* error, with the body still open.
Stuck(a) == spc[a] = "do" /\ stream[a] = "blocked" /\ body[a] = "open"

\* A transfer comes to its end on the source, unless its writer meets an error
\* while client.Do waits for the target.
EndsOrSticks == \A a \in Attempts : spc[a] # "idle" ~> (spc[a] = "done" \/ Stuck(a))

\* The target's handler comes to its end, unless the source is stuck.
HandlerEnds == \A a \in Attempts : tpc[a] # "none" ~> (tpc[a] = "end" \/ Stuck(a))

-----------------------------------------------------------------------------
(* What comments of the code say, which the code does not do.               *)

\* "Only delete the files if the transfer actually failed, otherwise we could have
\* unrecoverable data-loss" (router_transfer.go): the files of a server the Panel
\* takes for transferred are on the target.
FilesSurvive == panel = "success" => files # "none"

\* "deleteTransfer cancels an incoming transfer for a server"
\* (router_transfer.go): when all backups have not been read, the cancelled
\* transfer is not reported as successful.
CancelledIsNoSuccess ==
  \A a \in Attempts : tpc[a] = "success" => obj[a] \notin stopped \/ recvd[a] = NParts

\* A transfer comes to its end on the source.
TransferEnds == \A a \in Attempts : spc[a] # "idle" ~> spc[a] = "done"
=============================================================================

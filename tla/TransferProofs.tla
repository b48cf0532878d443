--------------------------- MODULE TransferProofs ---------------------------
(***************************************************************************)
(* Transfer, for every number of attempts, backups and faults.              *)
(*                                                                         *)
(* Both safety properties are about behaviours in which one attempt reaches *)
(* the target.  On the source, the attempt that can still succeed is the    *)
(* one the Panel waits for, and nobody else is at work (HopeInv); a server  *)
(* that stays claimed belongs to the one that has succeeded (ClaimInv).  On *)
(* the target, HeldInv follows the server object and the files of the only  *)
(* handler up to its verdict, and WonInv what the verdict rests on.         *)
(***************************************************************************)
EXTENDS Transfer, TLAPS

\* Nobody but a has reached the target.
Only(a) == \A b \in Attempts \ {a} : tpc[b] = "none"

\* What an attempt has and has not done at each place of its source.
EarlyOk(a) ==
  /\ spc[a] \in {"idle", "check", "claim", "stop", "open"} => body[a] = "none"
  /\ body[a] = "none" => tpc[a] = "none"
  /\ reply[a] = "ok" => tpc[a] = "end"
  /\ spc[a] = "select" => tpc[a] = "end"

EarlyInv == \A a \in Attempts : EarlyOk(a)

\* The push of a can still succeed, or has failed before the target knew of it.
Hopeful(a) ==
  \/ spc[a] = "select"
  \/ /\ spc[a] \in {"check", "claim", "stop", "open", "do"}
     /\ \/ tpc[a] \in {"none", "create", "read", "next", "verify", "keep", "success", "ok"}
        \/ reply[a] = "ok"
  \/ spc[a] = "fail" /\ tpc[a] = "none"

\* The Panel has had no verdict but that of a, and nobody else is at work.
Awaited(a) ==
  /\ panel \in {"pending", "success"}
  /\ \A b \in Attempts \ {a} : spc[b] \in {"idle", "release", "forget", "done"}

HopeInv == \A a \in Attempts : Only(a) /\ Hopeful(a) => Awaited(a)

Busy(a) == spc[a] \in {"stop", "open", "do", "select", "fail", "release"}

\* A claimed server that nobody is at work with.
Left == transferring /\ \A a \in Attempts : ~Busy(a)

ClaimInv ==
  Alone /\ Left =>
    \E a \in Attempts : /\ Only(a) /\ Awaited(a)
                        /\ tpc[a] = "end" /\ spc[a] \in {"forget", "done"}

\* The only handler and what it has made on the target.
HeldOk(a) ==
  /\ incoming \in {None, a}
  /\ tpc[a] = "none" => incoming = None
  /\ tpc[a] \in {"none", "create"} => recvd[a] = 0
  /\ tpc[a] \in {"read", "next", "verify", "keep", "success", "ok"} => managed # {}
  /\ tpc[a] \in {"read", "next", "verify", "keep", "success", "ok"} /\ recvd[a] > 0 /\ 1 \notin bad[a] => files = "complete"
  /\ tpc[a] \in {"keep", "success", "ok"} => recvd[a] > 0 /\ 1 \notin bad[a]
  /\ tpc[a] \notin {"error", "end"} => removing = {}

HeldInv == \A a \in Attempts : Only(a) => HeldOk(a)

WonInv ==
  panel = "success" =>
    /\ \E a \in Attempts : tpc[a] # "none"
    /\ \A a \in Attempts : Only(a) /\ tpc[a] # "none" =>
         tpc[a] \in {"ok", "end"} /\ managed # {} /\ files = "complete" /\ removing = {}

IInv == TypeOK /\ EarlyInv /\ HopeInv /\ ClaimInv /\ HeldInv /\ WonInv

-----------------------------------------------------------------------------
(* The steps of one attempt, and types.                                     *)

SourceStep(a) ==
  \/ Request(a) \/ Check(a) \/ Claim(a) \/ Register(a) \/ StopFails(a) \/ Open(a) \/ OpenFails(a)
  \/ Do(a) \/ DoFails(a) \/ Select(a) \/ SelectFails(a) \/ NotifyFailure(a) \/ NotifyFailureFails(a)
  \/ Release(a) \/ Forget(a)

WriterStep(a) == WritePart(a) \/ ReadError(a) \/ WriteEnds(a)

TargetStep(a) ==
  \/ Refuse(a) \/ Arrive(a) \/ Create(a) \/ NextPart(a) \/ ReadPart(a, FALSE) \/ ReadPart(a, TRUE)
  \/ DiskError(a) \/ ReadEnds(a) \/ Verify(a) \/ CreateFails(a) \/ Unlist(a) \/ Unmanage(a) \/ NotifyPanel(a)
  \/ NotifyFails(a) \/ Respond(a)

LEMMA Steps ==
  ASSUME Next
  PROVE  \/ \E a \in Attempts : SourceStep(a) \/ WriterStep(a) \/ TargetStep(a) \/ Disconnect(a) \/ RemoveFiles(a)
         \/ CancelOutgoing \/ CancelIncoming
  BY DEF Next, Source, Writer, Target, Fault, SourceStep, WriterStep, TargetStep, WriteFails, ReadFails

LEMMA PartsNat == NParts \in Nat /\ NParts >= 2
  BY NBackupsAssumption DEF NParts


\* TypeOK but for the count of faults, which every action leaves to Next.
Types ==
  /\ panel \in {"idle", "pending", "failure", "success"}
  /\ transferring \in BOOLEAN
  /\ outgoing \in Attempts \union {None}
  /\ spc \in [Attempts -> {"idle", "check", "claim", "stop", "open", "do", "select",
                            "fail", "release", "forget", "done"}]
  /\ stream \in [Attempts -> {"none", "run", "blocked", "over"}]
  /\ sent \in [Attempts -> 0..NParts]
  /\ cancelled \subseteq Attempts
  /\ body \in [Attempts -> {"none", "open", "ended", "broken"}]
  /\ reply \in [Attempts -> {"none", "ok", "error", "lost"}]
TargetTypes ==
  /\ tpc \in [Attempts -> {"none", "create", "read", "next", "verify", "keep", "drop",
                            "unmanage", "success", "failure", "ok", "error", "end"}]
  /\ obj \in [Attempts -> Attempts]
  /\ recvd \in [Attempts -> 0..NParts]
  /\ bad \in [Attempts -> SUBSET (1..NParts)]
  /\ incoming \in Attempts \union {None}
  /\ stopped \subseteq Attempts /\ managed \subseteq Attempts /\ claimed \subseteq Attempts
  /\ files \in {"none", "partial", "damaged", "complete"}
  /\ removing \subseteq Attempts

LEMMA TypesAre == TypeOK <=> faults \in 0..MaxFaults /\ Types /\ TargetTypes
  BY DEF TypeOK, Types, TargetTypes

LEMMA SourceTypes ==
  ASSUME Types, TargetTypes, NEW a \in Attempts, SourceStep(a)
  PROVE  Types' /\ TargetTypes'
<1>1. TargetTypes'
  BY DEF SourceStep, TargetTypes, targetVars, Request, Check, Claim, Register, StopFails, Open, OpenFails, Do, DoFails,
     Select, SelectFails, NotifyFailure, NotifyFailureFails, Notified, Release, Forget, Fail
<1>2. UNCHANGED <<sent, cancelled, reply>>
  BY DEF SourceStep, Request, Check, Claim, Register, StopFails, Open, OpenFails, Do, DoFails,
     Select, SelectFails, NotifyFailure, NotifyFailureFails, Notified, Release, Forget, Fail
<1> SUFFICES Types'
  BY <1>1
<1> USE <1>2 DEF Types
<1>3. CASE Request(a)
  BY <1>3 DEF Request, Told
<1>4. CASE Check(a)
  BY <1>4 DEF Check, Told
<1>5. CASE Claim(a)
  BY <1>5 DEF Claim
<1>6. CASE Register(a)
  BY <1>6 DEF Register
<1>7. CASE StopFails(a)
  BY <1>7 DEF StopFails, Told
<1>8. CASE Open(a)
  BY <1>8 DEF Open
<1>9. CASE OpenFails(a)
  BY <1>9 DEF OpenFails, Fail, Break
<1>10. CASE Do(a)
  BY <1>10 DEF Do
<1>11. CASE DoFails(a)
  BY <1>11 DEF DoFails, Fail, Break
<1>12. CASE Select(a)
  BY <1>12 DEF Select
<1>13. CASE SelectFails(a)
  BY <1>13 DEF SelectFails, Fail, Break
<1>14. CASE NotifyFailure(a)
  BY <1>14 DEF NotifyFailure, Notified, Told
<1>15. CASE NotifyFailureFails(a)
  BY <1>15 DEF NotifyFailureFails, Notified, Told, MaybeTold
<1>16. CASE Release(a)
  BY <1>16 DEF Release
<1>17. CASE Forget(a)
  BY <1>17 DEF Forget
<1> QED BY <1>1, <1>3, <1>4, <1>5, <1>6, <1>7, <1>8, <1>9, <1>10, <1>11, <1>12, <1>13, <1>14, <1>15, <1>16, <1>17 DEF SourceStep

LEMMA OtherTypes ==
  ASSUME Types, TargetTypes,
         CancelOutgoing \/ CancelIncoming \/ \E a \in Attempts : WriterStep(a) \/ Disconnect(a) \/ RemoveFiles(a)
  PROVE  Types' /\ TargetTypes'
<1>1. ASSUME NEW a \in Attempts, WritePart(a) PROVE Types' /\ TargetTypes'
  <2>1. sent[a] + 1 \in 0..NParts
    BY <1>1, PartsNat DEF WritePart, Types
  <2> QED BY <1>1, <2>1 DEF WritePart, Types, TargetTypes, targetVars
<1>2. ASSUME NEW a \in Attempts, ReadError(a) \/ WriteEnds(a) \/ Disconnect(a) PROVE Types' /\ TargetTypes'
  BY <1>2 DEF ReadError, WriteEnds, Disconnect, Types, TargetTypes, targetVars, sourceVars
<1>3. ASSUME NEW a \in Attempts, RemoveFiles(a) PROVE Types' /\ TargetTypes'
  BY <1>3 DEF RemoveFiles, Types, TargetTypes, sourceVars
<1>4. CASE CancelOutgoing \/ CancelIncoming
  BY <1>4 DEF CancelOutgoing, CancelIncoming, Types, TargetTypes, targetVars, sourceVars
<1> QED BY <1>1, <1>2, <1>3, <1>4 DEF WriterStep

LEMMA TargetStepTypes ==
  ASSUME Types, TargetTypes, NEW a \in Attempts, TargetStep(a)
  PROVE  Types' /\ TargetTypes'
<1> USE DEF Handler
<1>1. Types'
  <2>1. UNCHANGED sourceVars
    BY DEF TargetStep, Refuse, Arrive, Create, NextPart, ReadPart, DiskError, ReadEnds, Verify, CreateFails, Unlist, Unmanage,
       NotifyPanel, NotifyFails, Respond
  <2>2. panel' \in {"idle", "pending", "failure", "success"}
    BY DEF TargetStep, Refuse, Arrive, Create, NextPart, ReadPart, DiskError, ReadEnds, Verify, CreateFails, Unlist, Unmanage,
       NotifyPanel, NotifyFails, Respond, Told, MaybeTold, Types
  <2>3. (body \in [Attempts -> {"none", "open", "ended", "broken"}])'
    BY DEF TargetStep, Refuse, Arrive, Create, NextPart, ReadPart, DiskError, ReadEnds, Verify, CreateFails, Unlist, Unmanage,
       NotifyPanel, NotifyFails, Respond, Break, Types
  <2>4. (reply \in [Attempts -> {"none", "ok", "error", "lost"}])'
    BY DEF TargetStep, Refuse, Arrive, Create, NextPart, ReadPart, DiskError, ReadEnds, Verify, CreateFails, Unlist, Unmanage,
       NotifyPanel, NotifyFails, Respond, Answer, Types
  <2> QED BY <2>1, <2>2, <2>3, <2>4 DEF Types, sourceVars
<1> SUFFICES TargetTypes'
  BY <1>1
<1> USE DEF TargetTypes
<1>3. ASSUME NEW d \in BOOLEAN, ReadPart(a, d) PROVE TargetTypes'
  <2>1. recvd[a] + 1 \in 0..NParts /\ recvd[a] + 1 \in 1..NParts
    BY <1>3, PartsNat DEF ReadPart, Types
  <2>2. (recvd \in [Attempts -> 0..NParts])'
    BY <1>3, <2>1 DEF ReadPart
  <2>3. (bad \in [Attempts -> SUBSET (1..NParts)])'
    BY <1>3, <2>1 DEF ReadPart
  <2> QED BY <1>3, <2>2, <2>3 DEF ReadPart
<1>2. CASE NextPart(a)
  BY <1>2 DEF NextPart
<1>4. CASE Refuse(a)
  BY <1>4 DEF Refuse
<1>5. CASE Arrive(a)
  BY <1>5 DEF Arrive
<1>6. CASE Create(a)
  BY <1>6 DEF Create
<1>7. CASE DiskError(a)
  BY <1>7 DEF DiskError
<1>8. CASE ReadEnds(a)
  BY <1>8 DEF ReadEnds
<1>9. CASE Verify(a)
  BY <1>9 DEF Verify
<1>10. CASE CreateFails(a)
  BY <1>10 DEF CreateFails
<1>11. CASE Unlist(a)
  BY <1>11 DEF Unlist
<1>12. CASE Unmanage(a)
  BY <1>12 DEF Unmanage
<1>13. CASE Respond(a)
  BY <1>13 DEF Respond
<1>14. CASE NotifyPanel(a)
  BY <1>14 DEF NotifyPanel
<1>15. CASE NotifyFails(a)
  BY <1>15 DEF NotifyFails
<1> QED BY <1>2, <1>3, <1>4, <1>5, <1>6, <1>7, <1>8, <1>9, <1>10, <1>11, <1>12, <1>13, <1>14, <1>15 DEF TargetStep

LEMMA NextType == TypeOK /\ [Next]_vars => TypeOK'
<1> SUFFICES ASSUME TypeOK, [Next]_vars PROVE TypeOK'
  OBVIOUS
<1>1. CASE Next
  <2>1. faults' \in 0..MaxFaults
    BY <1>1, MaxFaultsAssumption DEF TypeOK, Next
  <2>2. Types' /\ TargetTypes'
    BY <1>1, Steps, TypesAre, SourceTypes, OtherTypes, TargetStepTypes
  <2> QED BY <2>1, <2>2 DEF TypeOK, Types, TargetTypes
<1>2. CASE UNCHANGED vars
  BY <1>2 DEF vars, sourceVars, targetVars, TypeOK
<1> QED BY <1>1, <1>2

-----------------------------------------------------------------------------
(* What the steps of one attempt do, place by place.                        *)

\* The source moves on, its reply stays; it does not touch the target.
LEMMA SourceDoes ==
  ASSUME TypeOK, NEW a \in Attempts, SourceStep(a)
  PROVE  /\ UNCHANGED <<reply, targetVars>>
         /\ \A b \in Attempts \ {a} : spc'[b] = spc[b] /\ body'[b] = body[b]
         /\ \/ Request(a) \/ Check(a) \/ Release(a) \/ Forget(a) \/ StopFails(a)
            \/ spc[a] = "claim" /\ spc'[a] = "stop" /\ UNCHANGED <<panel, body>>
            \/ spc[a] = "stop" /\ spc'[a] = "open" /\ UNCHANGED <<panel, transferring, body>>
            \/ spc[a] = "open" /\ spc'[a] = "do" /\ UNCHANGED <<panel, transferring>> /\ body'[a] = "open"
            \/ spc[a] \in {"open", "do", "select"} /\ spc'[a] = "fail" /\ UNCHANGED <<panel, transferring>>
                 /\ (body'[a] = "none" => body[a] = "none")
            \/ spc[a] = "do" /\ spc'[a] = "select" /\ reply[a] = "ok" /\ UNCHANGED <<panel, transferring, body>>
            \/ spc[a] = "select" /\ spc'[a] = "forget" /\ UNCHANGED <<panel, transferring, body>>
            \/ spc[a] = "fail" /\ spc'[a] = "release" /\ UNCHANGED <<transferring, body>>
                 /\ panel' \in {panel, IF panel = "pending" THEN "failure" ELSE panel}
<1> Types
  BY TypesAre
<1>1. UNCHANGED <<reply, targetVars>>
  BY DEF SourceStep, Request, Check, Claim, Register, StopFails, Open, OpenFails, Do, DoFails, Select, SelectFails, NotifyFailure, NotifyFailureFails, Release, Forget, Notified, Fail
<1>2. \A b \in Attempts \ {a} : spc'[b] = spc[b] /\ body'[b] = body[b]
  BY DEF SourceStep, Request, Check, Claim, Register, StopFails, Open, OpenFails, Do, DoFails, Select, SelectFails, NotifyFailure, NotifyFailureFails, Release, Forget, Notified, Fail, Break, Types
<1>3. CASE Claim(a)
  BY <1>1, <1>2, <1>3 DEF Claim, Types
<1>4. CASE Register(a)
  BY <1>1, <1>2, <1>4 DEF Register, Types
<1>5. CASE Open(a)
  BY <1>1, <1>2, <1>5 DEF Open, Types
<1>6. CASE OpenFails(a) \/ DoFails(a) \/ SelectFails(a)
  <2>1. spc[a] \in {"open", "do", "select"} /\ spc'[a] = "fail" /\ UNCHANGED <<panel, transferring>>
    BY <1>6 DEF OpenFails, DoFails, SelectFails, Fail, Types
  <2>2. body'[a] = "none" => body[a] = "none"
    BY <1>6 DEF OpenFails, DoFails, SelectFails, Fail, Break, Types
  <2> QED BY <1>1, <1>2, <2>1, <2>2
<1>7. CASE Do(a)
  BY <1>1, <1>2, <1>7 DEF Do, Types
<1>8. CASE Select(a)
  BY <1>1, <1>2, <1>8 DEF Select, Types
<1>9. CASE NotifyFailure(a) \/ NotifyFailureFails(a)
  <2>1. spc[a] = "fail" /\ spc'[a] = "release" /\ UNCHANGED <<transferring, body>>
    BY <1>9 DEF NotifyFailure, NotifyFailureFails, Notified, Types
  <2>2. panel' \in {panel, IF panel = "pending" THEN "failure" ELSE panel}
    BY <1>9 DEF NotifyFailure, NotifyFailureFails, Told, MaybeTold
  <2> QED BY <1>1, <1>2, <2>1, <2>2
<1> QED BY <1>1, <1>2, <1>3, <1>4, <1>5, <1>6, <1>7, <1>8, <1>9 DEF SourceStep

\* The writer, the cancellations and the removal of the files.
LEMMA OthersDo ==
  ASSUME TypeOK, CancelOutgoing \/ CancelIncoming \/ \E a \in Attempts : WriterStep(a) \/ Disconnect(a) \/ RemoveFiles(a)
  PROVE  /\ UNCHANGED <<panel, transferring, spc, tpc, managed, recvd, bad, incoming>>
         /\ \A b \in Attempts : /\ body'[b] = "none" => body[b] = "none"
                                /\ body[b] = "none" => body'[b] = "none" \/ spc[b] \in {"do", "select"}
                                /\ reply'[b] \in {reply[b], "lost"}
         /\ UNCHANGED <<files, removing>> \/ \E a \in Attempts : RemoveFiles(a)

<1> Types /\ TargetTypes
  BY TypesAre
<1>1. CASE CancelOutgoing \/ CancelIncoming
  BY <1>1 DEF CancelOutgoing, CancelIncoming, sourceVars, targetVars
<1>2. ASSUME NEW a \in Attempts, WritePart(a) \/ ReadError(a)
      PROVE  UNCHANGED <<panel, transferring, spc, body, reply, targetVars>>
  BY <1>2 DEF WritePart, ReadError
<1>3. ASSUME NEW a \in Attempts, WriteEnds(a)
      PROVE  /\ UNCHANGED <<panel, transferring, spc, reply, targetVars>>
             /\ \A b \in Attempts : body[b] = "none" <=> body'[b] = "none"
  BY <1>3 DEF WriteEnds, Types
<1>4. ASSUME NEW a \in Attempts, Disconnect(a)
      PROVE  /\ UNCHANGED <<panel, transferring, spc, targetVars>>
             /\ \A b \in Attempts : reply'[b] \in {reply[b], "lost"}
             /\ \A b \in Attempts : body'[b] = "none" => body[b] = "none"
             /\ \A b \in Attempts : body[b] = "none" => body'[b] = "none" \/ spc[b] \in {"do", "select"}
  BY <1>4 DEF Disconnect, sourceVars, Types
<1>5. ASSUME NEW a \in Attempts, RemoveFiles(a)
      PROVE  UNCHANGED <<panel, transferring, spc, tpc, managed, recvd, bad, incoming, body, reply>>
  BY <1>5 DEF RemoveFiles, sourceVars
<1> USE DEF targetVars
<1>6. CASE \E a \in Attempts : WritePart(a) \/ ReadError(a)
  BY <1>2, <1>6
<1>7. CASE \E a \in Attempts : WriteEnds(a)
  BY <1>3, <1>7
<1>8. CASE \E a \in Attempts : Disconnect(a)
  BY <1>4, <1>8
<1>9. CASE \E a \in Attempts : RemoveFiles(a)
  BY <1>5, <1>9
<1> QED BY <1>1, <1>6, <1>7, <1>8, <1>9 DEF WriterStep

\* The target moves on; the source stays where it is.
LEMMA TargetDoes ==
  ASSUME TypeOK, NEW a \in Attempts, TargetStep(a)
  PROVE  /\ UNCHANGED <<spc, transferring>>
         /\ \A b \in Attempts \ {a} : tpc'[b] = tpc[b] /\ reply'[b] = reply[b]
         /\ \A b \in Attempts : body'[b] = "none" <=> body[b] = "none"
         /\ \/ /\ tpc[a] \in {"none", "create"} /\ tpc'[a] = "end" /\ body[a] # "none"
               /\ reply'[a] \in {"lost", "error"} /\ UNCHANGED panel
            \/ /\ tpc[a] = "none" /\ tpc'[a] \in {"create", "read"} /\ body[a] # "none"
               /\ UNCHANGED <<reply, panel>>
            \/ /\ tpc[a] \in {"create", "read", "next", "verify"} /\ tpc'[a] \in {"read", "next", "verify", "keep", "drop"}
               /\ UNCHANGED <<reply, panel>>
            \/ /\ \/ tpc[a] = "keep" /\ tpc'[a] = "success"
                  \/ tpc[a] = "drop" /\ tpc'[a] = "unmanage"
                  \/ tpc[a] = "unmanage" /\ tpc'[a] = "failure"
               /\ UNCHANGED <<reply, panel>>
            \/ /\ tpc[a] = "success" /\ tpc'[a] = "ok" /\ UNCHANGED reply
               /\ panel' \in {panel, IF panel = "pending" THEN "success" ELSE panel}
            \/ /\ tpc[a] = "failure" /\ tpc'[a] = "error" /\ UNCHANGED reply
               /\ panel' \in {panel, IF panel = "pending" THEN "failure" ELSE panel}
            \/ /\ tpc[a] = "ok" /\ tpc'[a] = "end" /\ reply'[a] \in {"lost", "ok"} /\ UNCHANGED panel
            \/ /\ tpc[a] = "error" /\ tpc'[a] = "end" /\ reply'[a] \in {"lost", "error"} /\ UNCHANGED panel
<1> Types /\ TargetTypes
  BY TypesAre
<1> USE DEF Handler
<1>1. UNCHANGED <<spc, transferring>>
  BY DEF sourceVars, TargetStep, Refuse, Arrive, Create, NextPart, ReadPart, DiskError, ReadEnds, Verify, CreateFails, Unlist, Unmanage, NotifyPanel, NotifyFails, Respond
<1>2. \A b \in Attempts \ {a} : tpc'[b] = tpc[b]
  BY DEF TargetTypes, TargetStep, Refuse, Arrive, Create, NextPart, ReadPart, DiskError, ReadEnds, Verify, CreateFails, Unlist, Unmanage, NotifyPanel, NotifyFails, Respond
<1>3. \A b \in Attempts \ {a} : reply'[b] = reply[b]
  BY DEF Types, Answer, TargetStep, Refuse, Arrive, Create, NextPart, ReadPart, DiskError, ReadEnds, Verify, CreateFails, Unlist, Unmanage, NotifyPanel, NotifyFails, Respond
<1>4. \A b \in Attempts : body'[b] = "none" <=> body[b] = "none"
  BY DEF Types, Break, TargetStep, Refuse, Arrive, Create, NextPart, ReadPart, DiskError, ReadEnds, Verify, CreateFails, Unlist, Unmanage, NotifyPanel, NotifyFails, Respond
<1> USE DEF Types, TargetTypes
<1>5. CASE Refuse(a)
  BY <1>1, <1>2, <1>3, <1>4, <1>5 DEF Refuse, Answer
<1>6. CASE Arrive(a)
  BY <1>1, <1>2, <1>3, <1>4, <1>6 DEF Arrive
<1>7. CASE Create(a)
  BY <1>1, <1>2, <1>3, <1>4, <1>7 DEF Create
<1>8. CASE ReadPart(a, FALSE) \/ ReadPart(a, TRUE)
  BY <1>1, <1>2, <1>3, <1>4, <1>8 DEF ReadPart
<1>9. CASE NextPart(a) \/ DiskError(a) \/ ReadEnds(a) \/ Verify(a) \/ CreateFails(a)
  BY <1>1, <1>2, <1>3, <1>4, <1>9 DEF NextPart, DiskError, ReadEnds, Verify, CreateFails
<1>10. CASE Unlist(a) \/ Unmanage(a)
  BY <1>1, <1>2, <1>3, <1>4, <1>10 DEF Unlist, Unmanage
<1>11. CASE NotifyPanel(a) \/ NotifyFails(a)
  BY <1>1, <1>2, <1>3, <1>4, <1>11 DEF NotifyPanel, NotifyFails, Told, MaybeTold
<1>12. CASE Respond(a)
  BY <1>1, <1>2, <1>3, <1>4, <1>12 DEF Respond, Answer
<1> QED BY <1>5, <1>6, <1>7, <1>8, <1>9, <1>10, <1>11, <1>12 DEF TargetStep

-----------------------------------------------------------------------------
(* The source.                                                              *)

\* The five steps that SourceDoes leaves to their definitions.
LEMMA SourceEnds ==
  ASSUME TypeOK, NEW a \in Attempts
  PROVE  /\ Request(a) => /\ spc[a] = "idle" /\ spc'[a] = "check" /\ panel \in {"idle", "failure"}
                          /\ panel' = "pending" /\ UNCHANGED <<transferring, body>>
         /\ Check(a) => /\ spc[a] = "check" /\ UNCHANGED <<transferring, body>>
                        /\ \/ spc'[a] = "claim" /\ ~transferring /\ UNCHANGED panel
                           \/ spc'[a] = "done" /\ transferring
                                /\ panel' = IF panel = "pending" THEN "failure" ELSE panel
         /\ StopFails(a) => /\ spc[a] = "stop" /\ spc'[a] = "done" /\ ~transferring' /\ UNCHANGED body
                            /\ panel' = IF panel = "pending" THEN "failure" ELSE panel
         /\ Release(a) => spc[a] = "release" /\ spc'[a] = "forget" /\ ~transferring' /\ UNCHANGED <<panel, body>>
         /\ Forget(a) => spc[a] = "forget" /\ spc'[a] = "done" /\ UNCHANGED <<panel, transferring, body>>
  BY DEF TypeOK, Request, Check, StopFails, Release, Forget, Told

LEMMA NextEarly ==
  ASSUME TypeOK, EarlyInv, Next
  PROVE  EarlyInv'
<1> SUFFICES ASSUME NEW b \in Attempts PROVE EarlyOk(b)'
  BY DEF EarlyInv
<1> EarlyOk(b)
  BY DEF EarlyInv
<1>1. ASSUME NEW a \in Attempts, SourceStep(a) PROVE EarlyOk(b)'
  <2>1. UNCHANGED <<reply, tpc>>
    BY <1>1, SourceDoes DEF targetVars
  <2>2. CASE b # a
    BY <1>1, <2>1, <2>2, SourceDoes DEF EarlyOk
  <2>3. CASE b = a
    <3>1. CASE Request(a) \/ Check(a) \/ Release(a) \/ Forget(a) \/ StopFails(a)
      BY <2>1, <2>3, <3>1, SourceEnds DEF EarlyOk
    <3>2. CASE ~(Request(a) \/ Check(a) \/ Release(a) \/ Forget(a) \/ StopFails(a))
      BY <1>1, <2>1, <2>3, <3>2, SourceDoes DEF EarlyOk
    <3> QED BY <3>1, <3>2
  <2> QED BY <2>2, <2>3
<1>2. CASE CancelOutgoing \/ CancelIncoming \/ \E a \in Attempts : WriterStep(a) \/ Disconnect(a) \/ RemoveFiles(a)
  BY <1>2, OthersDo DEF EarlyOk
<1>3. ASSUME NEW a \in Attempts, TargetStep(a) PROVE EarlyOk(b)'
  <2>1. CASE b # a
    BY <1>3, <2>1, TargetDoes DEF EarlyOk
  <2>2. CASE b = a
    BY <1>3, <2>2, TargetDoes DEF EarlyOk
  <2> QED BY <2>1, <2>2
<1> QED BY <1>1, <1>2, <1>3, Steps

\* While the Panel waits for a verdict that nobody can have given, one attempt at
\* most is at work.
LEMMA NextHope ==
  ASSUME TypeOK, EarlyInv, HopeInv, Next
  PROVE  HopeInv'
<1> SUFFICES ASSUME NEW b \in Attempts, Only(b)', Hopeful(b)' PROVE Awaited(b)'
  BY DEF HopeInv
<1>1. ASSUME NEW a \in Attempts, SourceStep(a) PROVE Awaited(b)'
  <2>1. UNCHANGED <<reply, tpc>>
    BY <1>1, SourceDoes DEF targetVars
  <2>2. Only(b)
    BY <2>1 DEF Only
  <2>3. CASE b # a
    <3>1. Hopeful(b)
      BY <1>1, <2>1, <2>3, SourceDoes DEF Hopeful
    <3>2. Awaited(b)
      BY <2>2, <3>1 DEF HopeInv
    <3>3. spc[a] \in {"idle", "release", "forget", "done"} /\ panel \in {"pending", "success"}
      BY <2>3, <3>2 DEF Awaited
    <3>4. Release(a) \/ Forget(a)
      BY <1>1, <3>3, SourceDoes, SourceEnds
    <3>5. spc'[a] \in {"forget", "done"} /\ UNCHANGED panel
      BY <3>4, SourceEnds
    <3> QED BY <1>1, <3>2, <3>5, SourceDoes DEF Awaited
  <2>4. CASE b = a /\ Request(a)
    <3>1. spc[a] = "idle" /\ panel \in {"idle", "failure"} /\ panel' = "pending"
      BY <2>4, SourceEnds
    <3>2. \A c \in Attempts : tpc[c] = "none"
      BY <2>2, <2>4, <3>1 DEF Only, EarlyInv, EarlyOk
    <3>3. ASSUME NEW c \in Attempts PROVE spc[c] \in {"idle", "release", "forget", "done"}
      <4>1. ~Hopeful(c)
        BY <3>1, <3>2 DEF HopeInv, Only, Awaited
      <4>2. spc[c] # "select"
        BY <4>1 DEF Hopeful
      <4> QED BY <3>2, <4>1, <4>2 DEF Hopeful, TypeOK
    <3> QED BY <1>1, <2>4, <3>1, <3>3, SourceDoes DEF Awaited
  <2>5. CASE b = a /\ ~Request(a)
    <3>1. Hopeful(a) /\ UNCHANGED panel
      <4>1. CASE Check(a) \/ Release(a) \/ Forget(a) \/ StopFails(a)
        BY <2>1, <2>5, <4>1, SourceEnds DEF Hopeful, EarlyInv, EarlyOk
      <4>2. CASE ~(Check(a) \/ Release(a) \/ Forget(a) \/ StopFails(a))
        BY <1>1, <2>1, <2>5, <4>2, SourceDoes DEF Hopeful, EarlyInv, EarlyOk
      <4> QED BY <4>1, <4>2
    <3>2. Awaited(a)
      BY <2>2, <2>5, <3>1 DEF HopeInv
    <3> QED BY <1>1, <2>5, <3>1, <3>2, SourceDoes DEF Awaited
  <2> QED BY <2>3, <2>4, <2>5
<1>2. CASE CancelOutgoing \/ CancelIncoming \/ \E a \in Attempts : WriterStep(a) \/ Disconnect(a) \/ RemoveFiles(a)
  <2>1. UNCHANGED <<panel, spc, tpc>> /\ reply'[b] \in {reply[b], "lost"}
    BY <1>2, OthersDo
  <2>2. Only(b) /\ Hopeful(b)
    BY <2>1 DEF Only, Hopeful
  <2> QED BY <2>1, <2>2 DEF HopeInv, Awaited
<1>3. ASSUME NEW a \in Attempts, TargetStep(a) PROVE Awaited(b)'
  <2>1. CASE b # a
    <3>1. tpc'[a] = "none"
      BY <2>1 DEF Only
    <3> QED BY <1>3, <3>1, TargetDoes
  <2>2. CASE b = a
    <3>1. Only(a) /\ UNCHANGED spc
      BY <1>3, <2>2, TargetDoes DEF Only
    <3>2. Hopeful(a)
      BY <1>3, <2>2, <3>1, TargetDoes DEF Hopeful
    <3>3. Awaited(a)
      BY <3>1, <3>2 DEF HopeInv
    <3>4. panel' \in {"pending", "success"}
      BY <1>3, <2>2, <3>1, <3>3, TargetDoes DEF Awaited, Hopeful, EarlyInv, EarlyOk
    <3> QED BY <2>2, <3>1, <3>3, <3>4 DEF Awaited
  <2> QED BY <2>1, <2>2
<1> QED BY <1>1, <1>2, <1>3, Steps

\* A server that stays claimed when nobody is at work belongs to the attempt that has
\* succeeded, and from then on nothing changes what the Panel thinks of it.
LEMMA NextClaim ==
  ASSUME TypeOK, EarlyInv, HopeInv, ClaimInv, Next
  PROVE  ClaimInv'
<1> DEFINE Owner(a) == Only(a) /\ Awaited(a) /\ tpc[a] = "end" /\ spc[a] \in {"forget", "done"}
<1> SUFFICES ASSUME Alone', Left' PROVE \E a \in Attempts : Owner(a)'
  BY DEF ClaimInv
<1> USE DEF Busy
<1>1. ASSUME NEW a \in Attempts, SourceStep(a) PROVE \E c \in Attempts : Owner(c)'
  <2>1. UNCHANGED <<reply, tpc>>
    BY <1>1, SourceDoes DEF targetVars
  <2>2. Alone
    BY <2>1 DEF Alone
  <2>3. CASE Left
    <3>1. PICK c \in Attempts : Owner(c)
      BY <2>2, <2>3 DEF ClaimInv
    <3>2. spc[a] \in {"idle", "forget", "done"} /\ panel \in {"pending", "success"}
      BY <2>3, <3>1 DEF Left, Awaited
    <3>3. Forget(a)
      BY <1>1, <3>2, SourceDoes, SourceEnds
    <3>4. spc'[a] = "done" /\ UNCHANGED panel
      BY <3>3, SourceEnds
    <3>5. \A b \in Attempts \ {a} : spc'[b] = spc[b]
      BY <1>1, SourceDoes
    <3>6. Owner(c)'
      BY <2>1, <3>1, <3>4, <3>5 DEF Only, Awaited
    <3> QED BY <3>6
  <2>4. CASE ~Left
    <3>1. ~(Request(a) \/ Check(a) \/ Release(a) \/ Forget(a) \/ StopFails(a))
      BY <1>1, <2>4, SourceEnds, SourceDoes DEF Left
    <3>2. spc[a] = "select" /\ spc'[a] = "forget" /\ UNCHANGED panel
      BY <1>1, <2>4, <3>1, SourceDoes DEF Left
    <3>3. tpc[a] = "end" /\ Only(a) /\ Hopeful(a)
      BY <2>2, <3>2 DEF EarlyInv, EarlyOk, Alone, Only, Hopeful
    <3>4. Awaited(a)
      BY <3>3 DEF HopeInv
    <3>5. Owner(a)'
      BY <1>1, <2>1, <3>2, <3>3, <3>4, SourceDoes DEF Only, Awaited
    <3> QED BY <3>5
  <2> QED BY <2>3, <2>4
<1>2. CASE CancelOutgoing \/ CancelIncoming \/ \E a \in Attempts : WriterStep(a) \/ Disconnect(a) \/ RemoveFiles(a)
  <2>1. UNCHANGED <<panel, transferring, spc, tpc>>
    BY <1>2, OthersDo
  <2>2. PICK c \in Attempts : Owner(c)
    BY <2>1 DEF ClaimInv, Alone, Left
  <2>3. Owner(c)'
    BY <2>1, <2>2 DEF Only, Awaited
  <2> QED BY <2>3
<1>3. ASSUME NEW a \in Attempts, TargetStep(a) PROVE \E c \in Attempts : Owner(c)'
  <2>1. UNCHANGED <<spc, transferring>> /\ \A b \in Attempts \ {a} : tpc'[b] = tpc[b]
    BY <1>3, TargetDoes
  <2>2. tpc'[a] # "none"
    BY <1>3, TargetDoes
  <2>3. Alone
    BY <2>1, <2>2 DEF Alone
  <2>4. PICK c \in Attempts : Owner(c)
    BY <2>1, <2>3 DEF ClaimInv, Left
  <2>5. c = a
    BY <2>1, <2>2, <2>4 DEF Alone
  <2> QED BY <1>3, <2>4, <2>5, TargetDoes
<1> QED BY <1>1, <1>2, <1>3, Steps

-----------------------------------------------------------------------------
(* The target.                                                              *)




LEMMA HandlerHolds ==
  ASSUME TypeOK, NEW a \in Attempts, HeldOk(a), TargetStep(a)
  PROVE  HeldOk(a)'
<1> Types /\ TargetTypes
  BY TypesAre
<1> USE DEF Handler, TargetTypes
<1>0. CASE NextPart(a)
  BY <1>0 DEF NextPart, HeldOk
<1>1. CASE Refuse(a)
  BY <1>1 DEF Refuse, HeldOk
<1>2. CASE Arrive(a)
  BY <1>2 DEF Arrive, HeldOk
<1>3. CASE Create(a)
  <2>1. /\ tpc[a] = "create" /\ tpc'[a] = "read" /\ incoming' = a /\ a \in managed'
        /\ UNCHANGED <<recvd, bad, files, removing>>
    BY <1>3 DEF Create
  <2> QED BY <2>1 DEF HeldOk
<1>4. ASSUME NEW d \in BOOLEAN, ReadPart(a, d) PROVE HeldOk(a)'
  <2>1. /\ tpc[a] = "next" /\ tpc'[a] = "read" /\ UNCHANGED <<incoming, managed, removing>>
        /\ bad'[a] = IF d THEN bad[a] \union {recvd[a] + 1} ELSE bad[a]
        /\ files' = IF recvd[a] # 0 THEN files ELSE IF d THEN "damaged" ELSE "complete"
    BY <1>4 DEF ReadPart
  <2>2. recvd[a] \in Nat
    BY PartsNat
  <2>3. CASE recvd[a] = 0
    <3>1. d => 1 \in bad'[a]
      BY <2>1, <2>3
    <3> QED BY <2>1, <2>3, <3>1 DEF HeldOk
  <2>4. CASE recvd[a] # 0
    <3>1. recvd[a] > 0
      BY <2>2, <2>4
    <3>2. 1 \notin bad'[a] => 1 \notin bad[a]
      BY <2>1
    <3> QED BY <2>1, <2>4, <3>1, <3>2 DEF HeldOk
  <2> QED BY <2>3, <2>4
<1>5. CASE DiskError(a)
  BY <1>5 DEF DiskError, HeldOk
<1>6. CASE ReadEnds(a)
  BY <1>6 DEF ReadEnds, HeldOk
<1>7. CASE Verify(a)
  <2>1. /\ tpc[a] = "verify" /\ tpc'[a] \in {"keep", "drop"} /\ (tpc'[a] = "keep" => Verified(a))
        /\ UNCHANGED <<incoming, managed, removing, recvd, bad, files>>
    BY <1>7 DEF Verify
  <2>2. Verified(a) => recvd[a] > 0 /\ 1 \notin bad[a]
    <3>1. recvd[a] \in Nat
      BY PartsNat
    <3> QED BY <3>1 DEF Verified, Intact
  <2> QED BY <2>1, <2>2 DEF HeldOk
<1>8. CASE CreateFails(a)
  BY <1>8 DEF CreateFails, HeldOk
<1>9. CASE Unlist(a)
  BY <1>9 DEF Unlist, HeldOk
<1>10. CASE Unmanage(a)
  BY <1>10 DEF Unmanage, HeldOk
<1>11. CASE NotifyPanel(a)
  BY <1>11 DEF NotifyPanel, HeldOk
<1>12. CASE NotifyFails(a)
  BY <1>12 DEF NotifyFails, HeldOk
<1>13. CASE Respond(a)
  BY <1>13 DEF Respond, HeldOk
<1> QED BY <1>0, <1>1, <1>2, <1>3, <1>4, <1>5, <1>6, <1>7, <1>8, <1>9, <1>10, <1>11, <1>12, <1>13 DEF TargetStep

LEMMA NextHeld ==
  ASSUME TypeOK, HeldInv, Next
  PROVE  HeldInv'
<1> SUFFICES ASSUME NEW b \in Attempts, Only(b)' PROVE HeldOk(b)'
  BY DEF HeldInv
<1>1. ASSUME NEW a \in Attempts, SourceStep(a) PROVE HeldOk(b)'
  <2>1. UNCHANGED targetVars
    BY <1>1, SourceDoes
  <2> QED BY <2>1 DEF targetVars, HeldInv, HeldOk, Only
<1>2. CASE CancelOutgoing \/ CancelIncoming \/ \E a \in Attempts : WriterStep(a) \/ Disconnect(a) \/ RemoveFiles(a)
  <2>1. /\ UNCHANGED <<tpc, managed, recvd, bad, incoming>>
        /\ UNCHANGED <<files, removing>> \/ \E a \in Attempts : RemoveFiles(a)
    BY <1>2, OthersDo
  <2>2. HeldOk(b)
    BY <2>1 DEF HeldInv, Only
  <2>3. ASSUME NEW a \in Attempts, RemoveFiles(a) PROVE HeldOk(b)'
    <3>1. tpc[b] \in {"error", "end"}
      BY <2>2, <2>3 DEF RemoveFiles, HeldOk
    <3> QED BY <2>1, <2>2, <3>1 DEF HeldOk
  <2> QED BY <2>1, <2>2, <2>3 DEF HeldOk
<1>3. ASSUME NEW a \in Attempts, TargetStep(a) PROVE HeldOk(b)'
  <2>1. tpc'[a] # "none" /\ \A c \in Attempts \ {a} : tpc'[c] = tpc[c]
    BY <1>3, TargetDoes
  <2>2. b = a /\ Only(a)
    BY <2>1 DEF Only
  <2> QED BY <1>3, <2>2, HandlerHolds DEF HeldInv
<1> QED BY <1>1, <1>2, <1>3, Steps

LEMMA NextWon ==
  ASSUME TypeOK, HeldInv, WonInv, Next
  PROVE  WonInv'
<1> SUFFICES ASSUME panel' = "success" PROVE WonInv'
  BY DEF WonInv
<1>1. ASSUME NEW a \in Attempts, SourceStep(a) PROVE WonInv'
  <2>1. UNCHANGED targetVars
    BY <1>1, SourceDoes
  <2>2. panel = "success"
    BY <1>1, SourceDoes, SourceEnds
  <2> QED BY <2>1, <2>2 DEF targetVars, WonInv, Only
<1>2. CASE CancelOutgoing \/ CancelIncoming \/ \E a \in Attempts : WriterStep(a) \/ Disconnect(a) \/ RemoveFiles(a)
  <2>1. /\ UNCHANGED <<panel, tpc, managed>>
        /\ UNCHANGED <<files, removing>> \/ \E a \in Attempts : RemoveFiles(a)
    BY <1>2, OthersDo
  <2>2. CASE UNCHANGED <<files, removing>>
    BY <2>1, <2>2 DEF WonInv, Only
  <2>3. ASSUME NEW a \in Attempts, RemoveFiles(a) PROVE WonInv'
    <3>1. removing # {}
      BY <2>3 DEF RemoveFiles
    <3> QED BY <2>1, <3>1 DEF WonInv, Only
  <2> QED BY <2>1, <2>2, <2>3
<1>3. ASSUME NEW a \in Attempts, TargetStep(a) PROVE WonInv'
  <2>1. tpc'[a] # "none" /\ \A c \in Attempts \ {a} : tpc'[c] = tpc[c]
    BY <1>3, TargetDoes
  <2>2. SUFFICES ASSUME Only(a)
                 PROVE  tpc'[a] \in {"ok", "end"} /\ managed' # {} /\ files' = "complete" /\ removing' = {}
    BY <2>1, <2>2 DEF WonInv, Only
  <2>3. HeldOk(a)
    BY <2>2 DEF HeldInv
  <2>4. CASE panel = "success"
    <3>1. tpc[a] # "none"
      BY <2>2, <2>4 DEF WonInv, Only
    <3>2. tpc[a] \in {"ok", "end"} /\ managed # {} /\ files = "complete" /\ removing = {}
      BY <2>2, <2>4, <3>1 DEF WonInv
    <3>3. Respond(a)
      BY <1>3, <3>2 DEF TargetStep, Refuse, Arrive, Create, NextPart, ReadPart, DiskError, ReadEnds, Verify, CreateFails, Unlist,
         Unmanage, NotifyPanel, NotifyFails, Handler
    <3> QED BY <3>2, <3>3 DEF Respond, Handler, TypeOK
  <2>5. CASE panel # "success"
    <3>1. tpc[a] = "success" /\ tpc'[a] = "ok"
      BY <1>3, <2>5, TargetDoes
    <3>2. UNCHANGED <<managed, files, removing>>
      BY <1>3, <3>1 DEF TargetStep, Refuse, Arrive, Create, NextPart, ReadPart, DiskError, ReadEnds, Verify, CreateFails, Unlist,
         Unmanage, NotifyPanel, NotifyFails, Respond, Handler
    <3> QED BY <2>3, <3>1, <3>2 DEF HeldOk
  <2> QED BY <2>4, <2>5
<1> QED BY <1>1, <1>2, <1>3, Steps

-----------------------------------------------------------------------------
(* The theorems.                                                            *)

LEMMA InitInv == Init => IInv
<1> SUFFICES ASSUME Init PROVE IInv
  OBVIOUS
<1>1. TypeOK
  <2>1. 0 \in 0..NParts /\ 0 \in 0..MaxFaults
    BY PartsNat, MaxFaultsAssumption
  <2> QED BY <2>1 DEF Init, TypeOK
<1>2. EarlyInv /\ HopeInv /\ ClaimInv
  BY DEF Init, EarlyInv, EarlyOk, HopeInv, Hopeful, ClaimInv, Left
<1>3. HeldInv /\ WonInv
  BY DEF Init, HeldInv, HeldOk, WonInv
<1> QED BY <1>1, <1>2, <1>3 DEF IInv

LEMMA NextInv == IInv /\ [Next]_vars => IInv'
<1> SUFFICES ASSUME IInv, [Next]_vars PROVE IInv'
  OBVIOUS
<1>1. TypeOK'
  BY NextType DEF IInv
<1>2. CASE Next
  BY <1>1, <1>2, NextEarly, NextHope, NextClaim, NextHeld, NextWon DEF IInv
<1>3. CASE UNCHANGED vars
  BY <1>1, <1>3 DEF vars, sourceVars, targetVars, IInv, EarlyInv, EarlyOk, HopeInv, Hopeful, Only, Awaited, ClaimInv,
     Left, Busy, Alone, HeldInv, HeldOk, WonInv
<1> QED BY <1>2, <1>3

LEMMA Invariance == Spec => []IInv
  BY InitInv, NextInv, PTL DEF Spec

\* The variables of both nodes keep their types: the target never reads more parts
\* than are sent, and never counts one twice (PushArchiveToTarget, postTransfers).
THEOREM TransferTypeOK == Spec => []TypeOK
<1>1. IInv => TypeOK
  BY DEF IInv
<1> QED BY <1>1, Invariance, PTL

\* A transfer the Panel takes for successful is held by the target, with the files
\* that were sent, if one attempt has reached it: however many attempts failed before
\* on the source, and whatever is damaged, lost, cancelled or answered late
\* (postTransfers).
THEOREM Accepted == Spec => []AcceptedIsHeld
<1>1. IInv => AcceptedIsHeld
  <2> SUFFICES ASSUME IInv, panel = "success", Alone PROVE managed # {} /\ files = "complete"
    BY DEF AcceptedIsHeld
  <2>1. PICK a \in Attempts : tpc[a] # "none"
    BY DEF IInv, WonInv
  <2>2. Only(a)
    BY <2>1 DEF Alone, Only
  <2> QED BY <2>1, <2>2 DEF IInv, WonInv
<1> QED BY <1>1, Invariance, PTL

\* When the Panel takes the transfer for failed and the source is done with it, the
\* server is not blocked there, if one attempt has reached the target: however many
\* were refused, cancelled or could not stop the server (postServerTransfer).
THEOREM FailureFrees == Spec => []FailureFreesSource
<1>1. IInv => FailureFreesSource
  <2> SUFFICES ASSUME IInv, SourceQuiet, panel = "failure", Alone, transferring PROVE FALSE
    BY DEF FailureFreesSource
  <2>1. Left
    BY DEF Left, Busy, SourceQuiet
  <2> QED BY <2>1 DEF IInv, ClaimInv, Awaited
<1> QED BY <1>1, Invariance, PTL
=============================================================================

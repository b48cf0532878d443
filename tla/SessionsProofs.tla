--------------------------- MODULE SessionsProofs ---------------------------
(***************************************************************************)
(* What holds of Sessions for any number of users, connections, goroutines   *)
(* and seconds.                                                             *)
(***************************************************************************)
EXTENDS Sessions, TLAPS

At == {"idle", "in", "checked", "parsed", "set", "register", "act"}

WorkRec ==
  [at : At, conn : Conns \union {None}, ev : {"auth", "control"},
   tok : Token \union {None}, new : BOOLEAN]

\* A goroutine at work has a connection, one that is about to store a token has it,
\* and one that has found a token on its connection still finds one.
WorkInv ==
  \A w \in Workers :
    /\ work[w].at # "idle" => work[w].conn \in Conns
    /\ work[w].at \in {"parsed", "set"} => work[w].tok \in Token
    /\ work[w].at = "checked" /\ work[w].ev # "auth" => jwt[work[w].conn] \in Token

\* No moment lies ahead, and what the daemon remembers covers every denial.
ClockInv ==
  /\ boot <= now
  /\ \A u \in Users : /\ lastDenial[u] <= now
                      /\ lastDenial[u] <= boot \/ lastDenial[u] <= denied[u]

\* CancelAll reaches every connection that is still to be cancelled.
BagInv == \A c \in Live : c \in cancelled \/ c \in bag

SessionInv == TypeOK /\ WorkInv /\ ClockInv /\ BagInv /\ SuspendedSettled

-----------------------------------------------------------------------------
\* The invariant holds of a daemon that has just started.
LEMMA InitInv == Init => SessionInv
<1> SUFFICES ASSUME Init PROVE SessionInv OBVIOUS
<1>1. TypeOK
  BY LifeAssumption DEF Init, TypeOK, NoWork, NoChannel, IdleSync
<1>2. WorkInv BY DEF Init, WorkInv, NoWork
<1>3. ClockInv BY DEF Init, ClockInv
<1>4. BagInv BY DEF Init, BagInv, Live
<1>5. SuspendedSettled BY DEF Init, SuspendedSettled
<1>6. QED BY <1>1, <1>2, <1>3, <1>4, <1>5 DEF SessionInv

-----------------------------------------------------------------------------
(* A connection.                                                            *)

\* Everything the steps of a connection leave alone.
ConnFrame == UNCHANGED <<now, boot, denied, lastDenial, work, sftp,
                         suspended, sync, restores, deauth, del>>

\* The steps of a connection keep the invariant.
LEMMA ConnectionInv ==
  ASSUME SessionInv, NEW c \in Conns,
         Open(c) \/ UpgradeFails(c) \/ Leave(c) \/ Connection(c)
  PROVE  SessionInv'
<1> USE DEF SessionInv
<1>0. ConnFrame
  BY DEF ConnFrame, Open, UpgradeFails, Leave, Connection, Return, Push, Enter, Closed, Watch,
         ListenerEnds, tokenVars, wsVars, hostVars
<1>1. ClockInv' BY <1>0 DEF ConnFrame, ClockInv
<1>2. ASSUME /\ conn' \in [Conns -> {"none", "counted", "open", "loop"}]
             /\ bag' \subseteq Conns /\ cancelled' \subseteq Conns
             /\ jwt' \in [Conns -> Token \union {None}]
             /\ listeners' \in [Conns -> Nat]
      PROVE  TypeOK'
  BY <1>0, <1>2 DEF ConnFrame, TypeOK
<1>3. ASSUME UNCHANGED jwt PROVE WorkInv'
  BY <1>0, <1>3 DEF ConnFrame, WorkInv
<1>4. ASSUME \A d \in Conns : conn'[d] = "loop" /\ d \notin cancelled'
                                => conn[d] = "loop" /\ d \notin cancelled
      PROVE  SuspendedSettled'
  BY <1>0, <1>4 DEF ConnFrame, SuspendedSettled, Pending
<1>5. CASE Open(c)
  <2>1. TypeOK' BY <1>2, <1>5 DEF Open, TypeOK
  <2>2. WorkInv'
    BY <1>0, <1>5 DEF ConnFrame, Open, WorkInv, Quiet, WorkOf, TypeOK
  <2>3. BagInv' BY <1>5 DEF Open, BagInv, Live, TypeOK
  <2>4. SuspendedSettled' BY <1>4, <1>5 DEF Open, TypeOK
  <2>5. QED BY <1>1, <2>1, <2>2, <2>3, <2>4
<1>6. CASE UpgradeFails(c) \/ Return(c)
  <2>1. TypeOK' BY <1>2, <1>6 DEF UpgradeFails, Return, TypeOK
  <2>2. WorkInv' BY <1>3, <1>6 DEF UpgradeFails, Return
  <2>3. BagInv' BY <1>6 DEF UpgradeFails, Return, BagInv, Live, TypeOK
  <2>4. SuspendedSettled' BY <1>4, <1>6 DEF UpgradeFails, Return, TypeOK
  <2>5. QED BY <1>1, <2>1, <2>2, <2>3, <2>4
<1>7. CASE Push(c)
  <2>1. TypeOK' BY <1>2, <1>7 DEF Push, TypeOK
  <2>2. WorkInv' BY <1>3, <1>7 DEF Push
  <2>3. BagInv' BY <1>7 DEF Push, BagInv, Live, TypeOK
  <2>4. SuspendedSettled' BY <1>4, <1>7 DEF Push, TypeOK
  <2>5. QED BY <1>1, <2>1, <2>2, <2>3, <2>4
<1>8. CASE Enter(c) /\ ~Return(c)
  <2>1. TypeOK' BY <1>2, <1>8 DEF Enter, TypeOK
  <2>2. WorkInv' BY <1>3, <1>8 DEF Enter
  <2>3. BagInv' BY <1>8 DEF Enter, BagInv, Live, TypeOK
  <2>4. SuspendedSettled' BY <1>0, <1>8 DEF ConnFrame, Enter, SuspendedSettled
  <2>5. QED BY <1>1, <2>1, <2>2, <2>3, <2>4
<1>9. CASE Watch(c)
  <2>1. TypeOK' BY <1>2, <1>9 DEF Watch, TypeOK
  <2>2. WorkInv' BY <1>3, <1>9 DEF Watch
  <2>3. BagInv' BY <1>9 DEF Watch, BagInv, Live, TypeOK
  <2>4. SuspendedSettled' BY <1>4, <1>9 DEF Watch
  <2>5. QED BY <1>1, <2>1, <2>2, <2>3, <2>4
<1>10. CASE ListenerEnds(c)
  <2>1. TypeOK' BY <1>2, <1>10 DEF ListenerEnds, TypeOK
  <2>2. WorkInv' BY <1>3, <1>10 DEF ListenerEnds
  <2>3. BagInv' BY <1>10 DEF ListenerEnds, BagInv, Live
  <2>4. SuspendedSettled' BY <1>4, <1>10 DEF ListenerEnds
  <2>5. QED BY <1>1, <2>1, <2>2, <2>3, <2>4
<1>11. QED
  BY <1>5, <1>6, <1>7, <1>8, <1>9, <1>10 DEF Connection, Leave, Closed, Enter

-----------------------------------------------------------------------------
(* A goroutine that handles a message.                                      *)

\* What the goroutine finds when it is at work.
LEMMA WorkTypes ==
  ASSUME SessionInv, NEW w \in Workers
  PROVE  /\ work \in [Workers -> WorkRec] /\ work[w] \in WorkRec
         /\ work[w].at # "idle" => /\ work[w].conn \in Conns
                                  /\ jwt[work[w].conn] \in Token \union {None}
                                  /\ listeners[work[w].conn] \in Nat
  BY DEF SessionInv, TypeOK, WorkInv, WorkRec, At

\* The steps of a goroutine that handles a message keep the invariant.
LEMMA HandlerInv ==
  ASSUME SessionInv, NEW w \in Workers,
         Handles(w) \/ \E c \in Conns, ev \in {"auth", "control"} : Receive(w, c, ev)
  PROVE  SessionInv'
<1> USE DEF SessionInv
<1>0. HandlerStep
  BY DEF Handles, Receive, Refuse, CheckToken, Present, LookNew, SetJwt, Register, Permit, Act
<1>1. ClockInv' BY <1>0, SMTT(60) DEF HandlerStep, ClockInv, tokenVars
<1>2. cancelled' = cancelled \/ cancelled' = cancelled \union {work[w].conn}
  BY DEF Handles, Receive, Refuse, CheckToken, Present, LookNew, SetJwt, Register, Permit, Act
<1>3. BagInv' BY <1>0, <1>2 DEF HandlerStep, BagInv, Live
<1>4. SuspendedSettled'
  BY <1>0, <1>2 DEF HandlerStep, SuspendedSettled, Pending, hostVars
<1>5. ASSUME /\ work' \in [Workers -> WorkRec] /\ cancelled' \subseteq Conns
             /\ jwt' \in [Conns -> Token \union {None}] /\ listeners' \in [Conns -> Nat]
      PROVE  TypeOK'
  BY <1>0, <1>5 DEF HandlerStep, TypeOK, tokenVars, hostVars, WorkRec, At
<1>6. ASSUME NEW r \in WorkRec, work' = [work EXCEPT ![w] = r], UNCHANGED jwt,
             r.at # "idle" => r.conn \in Conns,
             r.at \in {"parsed", "set"} => r.tok \in Token,
             r.at = "checked" /\ r.ev # "auth" => jwt[r.conn] \in Token
      PROVE  work' \in [Workers -> WorkRec] /\ WorkInv'
  <2>1. work' \in [Workers -> WorkRec] /\ work'[w] = r
        /\ \A v \in Workers : v # w => work'[v] = work[v]
    BY <1>6, WorkTypes
  <2>2. QED BY <1>6, <2>1 DEF WorkInv
<1>7. NoWork \in WorkRec /\ NoWork.at = "idle" BY DEF NoWork, WorkRec, At
<1>8. ASSUME Goto(w, "idle"), UNCHANGED jwt
      PROVE  work' \in [Workers -> WorkRec] /\ WorkInv'
  BY <1>6, <1>7, <1>8 DEF Goto
<1>9. ASSUME NEW at \in At, work[w].at # "idle", at \notin {"idle", "parsed", "set", "checked"},
             Goto(w, at), UNCHANGED jwt
      PROVE  work' \in [Workers -> WorkRec] /\ WorkInv'
  <2> DEFINE r == [work[w] EXCEPT !.at = at]
  <2>1. r \in WorkRec /\ r.at = at /\ r.conn = work[w].conn BY WorkTypes DEF WorkRec
  <2>2. work' = [work EXCEPT ![w] = r] BY <1>9 DEF Goto
  <2>3. QED BY <1>6, <1>9, <2>1, <2>2, WorkTypes
<1>10. CASE \E c \in Conns, ev \in {"auth", "control"} : Receive(w, c, ev)
  <2> PICK c \in Conns, ev \in {"auth", "control"} : Receive(w, c, ev) BY <1>10
  <2> DEFINE r == [NoWork EXCEPT !.at = "in", !.conn = c, !.ev = ev]
  <2>1. r \in WorkRec /\ r.at = "in" /\ r.conn = c BY DEF WorkRec, NoWork, At
  <2>2. work' \in [Workers -> WorkRec] /\ WorkInv' BY <1>6, <2>1 DEF Receive
  <2>3. TypeOK' BY <1>5, <2>2 DEF Receive, TypeOK
  <2>4. QED BY <1>1, <1>3, <1>4, <2>2, <2>3
<1>11. CASE Refuse(w)
  <2>1. work' \in [Workers -> WorkRec] /\ WorkInv' BY <1>8, <1>11 DEF Refuse
  <2>2. work[w].conn \in Conns BY <1>11, WorkTypes DEF Refuse
  <2>3. TypeOK' BY <1>5, <1>11, <2>1, <2>2 DEF Refuse, TypeOK
  <2>4. QED BY <1>1, <1>3, <1>4, <2>1, <2>3
<1>12. CASE CheckToken(w)
  <2> DEFINE r == [work[w] EXCEPT !.at = "checked"]
  <2>1. work[w].conn \in Conns /\ jwt[work[w].conn] \in Token \union {None}
    BY <1>12, WorkTypes DEF CheckToken
  <2>2. r \in WorkRec /\ r.at = "checked" /\ r.conn = work[w].conn /\ r.ev = work[w].ev
    BY WorkTypes DEF WorkRec, At
  <2>3. CASE Goto(w, "idle") BY <1>5, <1>1, <1>3, <1>4, <1>8, <1>12, <2>3 DEF CheckToken, TypeOK
  <2>4. CASE Goto(w, "checked") /\ (work[w].ev = "auth" \/ TokenValid(jwt[work[w].conn]))
    <3>1. work[w].ev = "auth" \/ jwt[work[w].conn] \in Token BY <2>1, <2>4 DEF TokenValid
    <3>2. work' = [work EXCEPT ![w] = r] BY <2>4 DEF Goto
    <3>3. work' \in [Workers -> WorkRec] /\ WorkInv'
      BY <1>6, <1>12, <2>1, <2>2, <3>1, <3>2 DEF CheckToken
    <3>4. TypeOK' BY <1>5, <1>12, <3>3 DEF CheckToken, TypeOK
    <3>5. QED BY <1>1, <1>3, <1>4, <3>3, <3>4
  <2>5. QED BY <1>12, <2>3, <2>4 DEF CheckToken
<1>13. CASE \E t \in Issued \union {None} : Present(w, t)
  <2> PICK t \in Issued \union {None} : Present(w, t) BY <1>13
  <2> DEFINE r == IF TokenValid(t) THEN [work[w] EXCEPT !.at = "parsed", !.tok = t] ELSE NoWork
  <2>1. TokenValid(t) => t \in Token BY DEF Issued, TokenValid
  <2>2. /\ r \in WorkRec
        /\ r.at # "idle" => r.at = "parsed" /\ r.conn = work[w].conn /\ r.tok \in Token
    BY <1>7, <2>1, WorkTypes DEF WorkRec, At
  <2>3. work' = [work EXCEPT ![w] = r] /\ UNCHANGED jwt /\ work[w].conn \in Conns
    BY WorkTypes DEF Present
  <2> HIDE DEF r
  <2>4. work' \in [Workers -> WorkRec] /\ WorkInv' BY <1>6, <2>2, <2>3
  <2>5. TypeOK' BY <1>5, <2>4 DEF Present, TypeOK
  <2>6. QED BY <1>1, <1>3, <1>4, <2>4, <2>5
<1>14. CASE LookNew(w)
  <2> DEFINE r == [work[w] EXCEPT !.at = "set", !.new = jwt[work[w].conn] = None]
  <2>1. /\ r \in WorkRec /\ r.at = "set" /\ r.conn = work[w].conn /\ r.tok = work[w].tok
        /\ work' = [work EXCEPT ![w] = r]
    BY <1>14, WorkTypes DEF WorkRec, At, LookNew
  <2>2. work[w].conn \in Conns /\ work[w].tok \in Token BY <1>14, WorkTypes DEF LookNew, WorkInv
  <2>3. work' \in [Workers -> WorkRec] /\ WorkInv' BY <1>6, <1>14, <2>1, <2>2 DEF LookNew
  <2>4. TypeOK' BY <1>5, <1>14, <2>3 DEF LookNew, TypeOK
  <2>5. QED BY <1>1, <1>3, <1>4, <2>3, <2>4
<1>15. CASE SetJwt(w)
  <2> DEFINE r == IF work[w].new THEN [work[w] EXCEPT !.at = "register"] ELSE NoWork
  <2>1. work[w].conn \in Conns /\ work[w].tok \in Token BY <1>15, WorkTypes DEF SetJwt, WorkInv
  <2>2. /\ r \in WorkRec /\ r.at \in {"idle", "register"}
        /\ r.at = "register" => r.conn = work[w].conn
    BY <1>7, WorkTypes DEF WorkRec, At
  <2>3. work' = [work EXCEPT ![w] = r] BY <1>15, WorkTypes DEF SetJwt, Goto, WorkRec
  <2> HIDE DEF r
  <2>4. /\ work' \in [Workers -> WorkRec] /\ work'[w] = r
        /\ \A v \in Workers : v # w => work'[v] = work[v]
    BY <2>2, <2>3, WorkTypes
  <2>5. /\ jwt' \in [Conns -> Token \union {None}]
        /\ \A c \in Conns : jwt[c] \in Token => jwt'[c] \in Token
    BY <1>15, <2>1 DEF SetJwt, TypeOK
  <2>6. WorkInv' BY <2>1, <2>2, <2>4, <2>5 DEF WorkInv
  <2>7. TypeOK' BY <1>5, <1>15, <2>4, <2>5 DEF SetJwt, TypeOK
  <2>8. QED BY <1>1, <1>3, <1>4, <2>6, <2>7
<1>16. CASE Register(w)
  <2>1. work' \in [Workers -> WorkRec] /\ WorkInv' BY <1>8, <1>16 DEF Register
  <2>2. listeners' \in [Conns -> Nat] BY <1>16, WorkTypes DEF Register, TypeOK
  <2>3. TypeOK' BY <1>5, <1>16, <2>1, <2>2 DEF Register, TypeOK
  <2>4. QED BY <1>1, <1>3, <1>4, <2>1, <2>3
<1>17. CASE Permit(w) \/ Act(w)
  <2>1. /\ work[w].at # "idle" /\ UNCHANGED <<jwt, listeners, cancelled>>
        /\ Goto(w, "act") \/ Goto(w, "idle")
    BY <1>17 DEF Permit, Act
  <2>2. "act" \in At BY DEF At
  <2>3. work' \in [Workers -> WorkRec] /\ WorkInv' BY <1>8, <1>9, <2>1, <2>2
  <2>4. TypeOK' BY <1>5, <2>1, <2>3 DEF TypeOK
  <2>5. QED BY <1>1, <1>3, <1>4, <2>3, <2>4
<1>18. QED
  BY <1>10, <1>11, <1>12, <1>13, <1>14, <1>15, <1>16, <1>17, SMTT(60) DEF Handles

-----------------------------------------------------------------------------
(* SFTP channels, and what ends sessions.                                   *)

ChannelRec ==
  [at : {"none", "valid", "serving"}, user : Users \union {None}, cancelled : BOOLEAN]

\* Cancelling channels keeps their type.
LEMMA CancelSftpType ==
  ASSUME TypeOK, NEW users, CancelSftp(users)
  PROVE  sftp' \in [Channels -> ChannelRec]
<1>1. \A r \in ChannelRec : [r EXCEPT !.cancelled = TRUE] \in ChannelRec BY DEF ChannelRec
<1>2. \A h \in Channels : sftp[h] \in ChannelRec BY DEF TypeOK, ChannelRec
<1>3. \A h \in Channels : [sftp[h] EXCEPT !.cancelled = TRUE] \in ChannelRec BY <1>1, <1>2
<1>4. QED BY <1>2, <1>3 DEF CancelSftp

\* The steps of an SFTP channel keep the invariant.
LEMMA SftpInv ==
  ASSUME SessionInv, NEW h \in Channels,
         Serve(h) \/ Disconnect(h) \/ Terminate(h) \/ \E u \in Users : Authenticate(h, u)
  PROVE  SessionInv'
<1>1. SftpStep BY DEF Serve, Disconnect, Terminate, Authenticate
<1>2. sftp' \in [Channels -> ChannelRec]
  <2>1. sftp \in [Channels -> ChannelRec] /\ sftp[h] \in ChannelRec
    BY DEF SessionInv, TypeOK, ChannelRec
  <2>2. CASE Serve(h)
    <3>1. Gone \in BOOLEAN BY DEF Gone
    <3>2. QED BY <2>1, <2>2, <3>1 DEF Serve, ChannelRec
  <2>3. CASE Disconnect(h) \/ Terminate(h)
    <3>1. sftp' = [sftp EXCEPT ![h] = NoChannel] BY <2>3, Zenon DEF Disconnect, Terminate
    <3>2. NoChannel \in ChannelRec BY DEF NoChannel, ChannelRec
    <3>3. QED BY <2>1, <3>1, <3>2
  <2>4. CASE \E u \in Users : Authenticate(h, u)
    BY <2>1, <2>4 DEF Authenticate, ChannelRec
  <2>5. QED BY <2>2, <2>3, <2>4
<1>3. TypeOK' BY <1>1, <1>2 DEF SessionInv, TypeOK, SftpStep, tokenVars, wsVars, hostVars, ChannelRec
<1>4. WorkInv' /\ ClockInv' /\ BagInv' /\ SuspendedSettled'
  BY <1>1 DEF SessionInv, WorkInv, ClockInv, BagInv, Live, SuspendedSettled, Pending,
              SftpStep, tokenVars, wsVars, hostVars
<1>5. QED BY <1>3, <1>4 DEF SessionInv

\* Cancelling everything leaves no connection to cancel.
LEMMA CancelAllCancels ==
  ASSUME SessionInv, CancelAll, SameClock
  PROVE  /\ \A c \in Conns : conn'[c] = "loop" => c \in cancelled'
         /\ BagInv' /\ bag' \subseteq Conns /\ cancelled' \subseteq Conns
<1>1. \A c \in Live : c \in cancelled' BY DEF SessionInv, BagInv, CancelAll
<1>2. Live' = Live BY DEF Live, SameClock
<1>3. \A c \in Conns : conn'[c] = "loop" => c \in Live BY DEF Live, SameClock
<1>4. QED BY <1>1, <1>2, <1>3 DEF BagInv, CancelAll, SessionInv, TypeOK

\* The steps of a sync keep the invariant.
LEMMA SyncInv ==
  ASSUME SessionInv, NEW x \in Syncers, Fetch(x) \/ Syncs(x)
  PROVE  SessionInv'
<1> USE DEF SessionInv
<1>0. SameClock /\ UNCHANGED <<tokenVars, restores, deauth, del>> BY DEF Fetch, Syncs, Apply, Finish
<1>1. WorkInv' /\ ClockInv' BY <1>0 DEF SameClock, WorkInv, ClockInv, tokenVars
<1>2. ASSUME /\ sync' \in [Syncers -> [at : {"idle", "fetched", "applied"}, cfg : BOOLEAN]]
             /\ suspended' \in BOOLEAN /\ sftp' \in [Channels -> ChannelRec]
             /\ bag' \subseteq Conns /\ cancelled' \subseteq Conns
      PROVE  TypeOK'
  BY <1>0, <1>2 DEF TypeOK, SameClock, tokenVars, ChannelRec
<1>3. ASSUME UNCHANGED <<bag, cancelled>> PROVE BagInv' BY <1>0, <1>3 DEF BagInv, Live, SameClock
<1>4. sftp \in [Channels -> ChannelRec] BY DEF TypeOK, ChannelRec
<1>5. CASE Fetch(x)
  <2>1. TypeOK' BY <1>2, <1>4, <1>5 DEF Fetch, TypeOK
  <2>2. \A y \in Syncers : sync[y].at = "applied" => sync'[y].at = "applied"
    BY <1>5 DEF Fetch, IdleSync, TypeOK
  <2>3. SuspendedSettled' BY <1>0, <1>5, <2>2 DEF Fetch, SuspendedSettled, Pending, SameClock
  <2>4. QED BY <1>1, <1>3, <1>5, <2>1, <2>3 DEF Fetch
<1>6. CASE Apply(x)
  <2>1. TypeOK' BY <1>2, <1>4, <1>6 DEF Apply, TypeOK
  <2>2. sync'[x].at = "applied" BY <1>6 DEF Apply, TypeOK
  <2>3. SuspendedSettled' BY <2>2 DEF SuspendedSettled, Pending
  <2>4. QED BY <1>1, <1>3, <1>6, <2>1, <2>3 DEF Apply
<1>7. CASE Finish(x) /\ suspended
  <2>1. CancelAll /\ CancelSftp(Users) /\ UNCHANGED suspended BY <1>7 DEF Finish
  <2>2. sync' \in [Syncers -> [at : {"idle", "fetched", "applied"}, cfg : BOOLEAN]]
    BY <1>7 DEF Finish, IdleSync, TypeOK
  <2>3. TypeOK' BY <1>0, <1>2, <2>1, <2>2, CancelAllCancels, CancelSftpType DEF TypeOK
  <2>4. SuspendedSettled' /\ BagInv' BY <1>0, <2>1, CancelAllCancels DEF SuspendedSettled
  <2>5. QED BY <1>1, <2>3, <2>4
<1>8. CASE Finish(x) /\ ~suspended
  <2>1. TypeOK' BY <1>2, <1>4, <1>8 DEF Finish, IdleSync, TypeOK
  <2>2. SuspendedSettled' BY <1>8 DEF Finish, SuspendedSettled
  <2>3. QED BY <1>1, <1>3, <1>8, <2>1, <2>2 DEF Finish
<1>9. QED BY <1>5, <1>6, <1>7, <1>8 DEF Syncs

\* The steps of a restore keep the invariant.
LEMMA RestoreInv ==
  ASSUME SessionInv, NEW r \in Restorers, BeginRestore(r) \/ EndRestore(r)
  PROVE  SessionInv'
<1>0. SameClock /\ UNCHANGED <<tokenVars, bag, cancelled, sftp, sync, deauth, del>>
  BY DEF BeginRestore, EndRestore
<1>1. TypeOK' BY <1>0 DEF SessionInv, TypeOK, SameClock, tokenVars, BeginRestore, EndRestore
<1>2. WorkInv' /\ ClockInv' /\ BagInv'
  BY <1>0 DEF SessionInv, WorkInv, ClockInv, BagInv, Live, SameClock, tokenVars
<1>3. restores' # {} \/ ~suspended' BY DEF BeginRestore, EndRestore
<1>4. SuspendedSettled' BY <1>3 DEF SuspendedSettled
<1>5. QED BY <1>1, <1>2, <1>4 DEF SessionInv

\* Denials keep the invariant.
LEMMA DeauthorizeInv ==
  ASSUME SessionInv, NEW u \in Users, Deauthorize(u) \/ DenyForServer(u) \/ DenyJTI(u)
  PROVE  SessionInv'
<1> USE DEF SessionInv
<1>0. SameClock /\ UNCHANGED <<suspended, sync, restores, del>>
  BY DEF Deauthorize, DenyForServer, DenyJTI, hostVars
<1>1. WorkInv' BY <1>0 DEF SameClock, WorkInv
<1>2. CASE Deauthorize(u)
  <2>1. CancelAll /\ CancelSftp({u}) /\ UNCHANGED tokenVars /\ deauth' \subseteq Users
    BY <1>2 DEF Deauthorize, TypeOK
  <2>2. TypeOK'
    BY <1>0, <2>1, CancelAllCancels, CancelSftpType DEF TypeOK, SameClock, tokenVars, ChannelRec
  <2>3. ClockInv' BY <1>0, <2>1 DEF ClockInv, SameClock, tokenVars
  <2>4. BagInv' /\ SuspendedSettled' BY <1>0, <2>1, CancelAllCancels DEF SuspendedSettled
  <2>5. QED BY <1>1, <2>2, <2>3, <2>4
<1>3. CASE DenyForServer(u) \/ DenyJTI(u)
  <2>1. Deny(u) /\ UNCHANGED <<bag, cancelled, sftp>> /\ deauth' \subseteq Users
    BY <1>3 DEF DenyForServer, DenyJTI, hostVars, TypeOK
  <2>2. TypeOK' BY <1>0, <2>1 DEF TypeOK, SameClock, Deny
  <2>3. ClockInv' BY <1>0, <2>1 DEF ClockInv, SameClock, Deny, TypeOK
  <2>4. BagInv' BY <1>0, <2>1 DEF BagInv, Live, SameClock
  <2>5. SuspendedSettled' BY <1>0, <2>1 DEF SuspendedSettled, Pending, SameClock
  <2>6. QED BY <1>1, <2>2, <2>3, <2>4, <2>5
<1>4. QED BY <1>2, <1>3

\* The steps of a deletion keep the invariant.
LEMMA DeleteInv ==
  ASSUME SessionInv, DeleteSuspends \/ Deletion
  PROVE  SessionInv'
<1> USE DEF SessionInv
<1>0. SameClock /\ UNCHANGED <<tokenVars, sync, restores, deauth>>
  BY DEF DeleteSuspends, Deletion, CtxCancel, DeleteCancels
<1>1. WorkInv' /\ ClockInv' BY <1>0 DEF SameClock, WorkInv, ClockInv, tokenVars
<1>2. sftp \in [Channels -> ChannelRec] BY DEF TypeOK, ChannelRec
<1>3. CASE DeleteSuspends \/ CtxCancel
  <2>1. /\ UNCHANGED <<bag, cancelled>> /\ suspended' \in BOOLEAN
        /\ sftp' \in [Channels -> ChannelRec]
        /\ del' \in {"suspended", "ctx", "again"}
    BY <1>2, <1>3, CancelSftpType DEF DeleteSuspends, CtxCancel, TypeOK
  <2>2. TypeOK' BY <1>0, <2>1 DEF TypeOK, SameClock, tokenVars, ChannelRec
  <2>3. BagInv' BY <1>0, <2>1 DEF BagInv, Live, SameClock
  <2>4. SuspendedSettled' BY <2>1 DEF SuspendedSettled, Pending
  <2>5. QED BY <1>1, <2>2, <2>3, <2>4
<1>4. CASE DeleteCancels
  <2>1. CancelAll /\ UNCHANGED <<sftp, suspended>> /\ del' \in {"done", "failed"}
    BY <1>4 DEF DeleteCancels
  <2>2. TypeOK' BY <1>0, <2>1, CancelAllCancels DEF TypeOK, SameClock, tokenVars
  <2>3. BagInv' /\ SuspendedSettled' BY <1>0, <2>1, CancelAllCancels DEF SuspendedSettled
  <2>4. QED BY <1>1, <2>2, <2>3
<1>5. QED BY <1>3, <1>4 DEF Deletion

\* A restarted daemon has forgotten the denials, but none is later than its boot.
LEMMA RestartInv == ASSUME SessionInv, Restart PROVE SessionInv'
<1>1. TypeOK'
  BY LifeAssumption DEF SessionInv, TypeOK, Restart, Booted, NoWork, NoChannel, IdleSync
<1>2. WorkInv' BY DEF Restart, Booted, WorkInv, NoWork
<1>3. ClockInv' BY DEF SessionInv, TypeOK, Restart, Booted, ClockInv
<1>4. BagInv' BY DEF Restart, Booted, BagInv, Live
<1>5. SuspendedSettled' BY DEF Restart, Booted, SuspendedSettled
<1>6. QED BY <1>1, <1>2, <1>3, <1>4, <1>5 DEF SessionInv

\* The passing of time keeps the invariant.
LEMMA TickInv == ASSUME SessionInv, Tick PROVE SessionInv'
<1>1. TypeOK' BY LifeAssumption DEF SessionInv, TypeOK, Tick, tokenVars, wsVars, hostVars
<1>2. ClockInv' BY DEF SessionInv, TypeOK, Tick, ClockInv, tokenVars
<1>3. WorkInv' /\ BagInv' /\ SuspendedSettled'
  BY DEF SessionInv, Tick, WorkInv, BagInv, Live, SuspendedSettled, Pending, wsVars, hostVars
<1>4. QED BY <1>1, <1>2, <1>3 DEF SessionInv

\* Every step keeps the invariant.
LEMMA StepInv == ASSUME SessionInv, [Next]_vars PROVE SessionInv'
<1>1. CASE UNCHANGED vars
  BY <1>1 DEF SessionInv, TypeOK, WorkInv, ClockInv, BagInv, Live, SuspendedSettled, Pending,
              vars, tokenVars, wsVars, hostVars
<1>2. CASE Next
  BY <1>2, ConnectionInv, HandlerInv, SftpInv, SyncInv, RestoreInv, DeauthorizeInv, DeleteInv,
     RestartInv, TickInv DEF Next
<1>3. QED BY <1>1, <1>2

-----------------------------------------------------------------------------
\* The inductive invariant of the sessions: their types, what the message goroutines
\* rely on, the clock, the bag and the settled suspension.
THEOREM SessionInvariant == Spec => []SessionInv
<1>1. QED BY InitInv, StepInv, PTL DEF Spec

\* Every variable of the session model keeps its type.
THEOREM TypeCorrect == Spec => []TypeOK
<1>1. SessionInv => TypeOK BY DEF SessionInv
<1>2. QED BY <1>1, SessionInvariant, PTL

\* A suspended server whose sync or deletion is over has no connection that is read
\* and not cancelled, whatever the interleaving of admission and suspension.
THEOREM SuspensionSettles == Spec => []SuspendedSettled
<1>1. SessionInv => SuspendedSettled BY DEF SessionInv
<1>2. QED BY <1>1, SessionInvariant, PTL

-----------------------------------------------------------------------------
(* Deletion and SFTP channels.                                              *)

\* Cancelling channels uncancels none and opens none.
LEMMA CancelSftpCancels ==
  ASSUME TypeOK, NEW users, CancelSftp(users)
  PROVE  \A h \in Channels :
           /\ sftp'[h].at = sftp[h].at /\ sftp'[h].user = sftp[h].user
           /\ sftp[h].cancelled => sftp'[h].cancelled
           /\ sftp[h].at = "serving" /\ sftp[h].user \in users => sftp'[h].cancelled
<1> TAKE h \in Channels
<1> DEFINE r == [sftp[h] EXCEPT !.cancelled = TRUE]
<1>1. sftp[h] \in ChannelRec BY DEF TypeOK, ChannelRec
<1>2. r.at = sftp[h].at /\ r.user = sftp[h].user /\ r.cancelled = TRUE BY <1>1 DEF ChannelRec
<1>3. sftp'[h] = IF sftp[h].at = "serving" /\ sftp[h].user \in users THEN r ELSE sftp[h]
  BY DEF CancelSftp
<1> HIDE DEF r
<1>4. QED BY <1>2, <1>3

\* A channel that is authenticated or served has a user.
ServedUser == \A h \in Channels : sftp[h].at # "none" => sftp[h].user \in Users

\* No step serves a channel of a deleted server.
LEMMA DeletedStep ==
  ASSUME TypeOK, DeletedSettled, ServedUser, [Next]_vars
  PROVE  DeletedSettled' /\ ServedUser'
<1>0. \A h \in Channels : sftp[h] \in ChannelRec BY DEF TypeOK, ChannelRec
<1>1. CASE UNCHANGED <<sftp, del>> BY <1>1 DEF DeletedSettled, ServedUser, Gone
<1>2. CASE \E h \in Channels : Serve(h) \/ Disconnect(h) \/ Terminate(h)
                               \/ \E u \in Users : Authenticate(h, u)
  <2> PICK h \in Channels : Serve(h) \/ Disconnect(h) \/ Terminate(h)
                           \/ \E u \in Users : Authenticate(h, u)
    BY <1>2
  <2>1. UNCHANGED del BY DEF Serve, Disconnect, Terminate, Authenticate, SftpStep, hostVars
  <2>2. \A g \in Channels : g # h => sftp'[g] = sftp[g]
    BY Zenon DEF Serve, Disconnect, Terminate, Authenticate, TypeOK
  <2>3. CASE Serve(h)
    <3>1. sftp'[h].at = "serving" /\ sftp'[h].cancelled = Gone /\ sftp'[h].user = sftp[h].user
      BY <1>0, <2>3 DEF Serve, TypeOK
    <3>2. sftp[h].user \in Users BY <2>3 DEF Serve, ServedUser
    <3>3. QED BY <2>1, <2>2, <3>1, <3>2 DEF DeletedSettled, ServedUser, Gone
  <2>4. CASE Disconnect(h) \/ Terminate(h)
    <3>1. sftp' = [sftp EXCEPT ![h] = NoChannel] BY <2>4, Zenon DEF Disconnect, Terminate
    <3>2. sftp'[h].at = "none" BY <3>1 DEF TypeOK, NoChannel
    <3>3. QED BY <2>1, <2>2, <3>2 DEF DeletedSettled, ServedUser, Gone
  <2>5. CASE \E u \in Users : Authenticate(h, u)
    <3>1. sftp'[h].at = "valid" /\ sftp'[h].user \in Users BY <2>5 DEF Authenticate, TypeOK
    <3>2. QED BY <2>1, <2>2, <3>1 DEF DeletedSettled, ServedUser, Gone
  <2>6. QED BY <2>3, <2>4, <2>5
<1>3. ASSUME NEW users, CancelSftp(users), UNCHANGED del PROVE DeletedSettled' /\ ServedUser'
  BY <1>3, CancelSftpCancels DEF DeletedSettled, ServedUser, Gone
<1>4. CASE CtxCancel
  <2>1. CancelSftp(Users) BY <1>4 DEF CtxCancel
  <2>2. QED BY <2>1, CancelSftpCancels DEF DeletedSettled, ServedUser
<1>5. CASE Restart
  <2>1. \A h \in Channels : sftp'[h].at = "none" BY <1>5 DEF Restart, Booted, NoChannel
  <2>2. QED BY <2>1 DEF DeletedSettled, ServedUser
<1>6. CASE DeleteSuspends
  <2>1. UNCHANGED sftp /\ (Gone' => Gone) BY <1>6 DEF DeleteSuspends, Gone
  <2>2. QED BY <2>1 DEF DeletedSettled, ServedUser
<1>7. CASE DeleteCancels
  <2>1. UNCHANGED sftp /\ Gone BY <1>7 DEF DeleteCancels, Gone
  <2>2. QED BY <2>1 DEF DeletedSettled, ServedUser
<1>8. CASE UNCHANGED vars BY <1>1, <1>8 DEF vars, hostVars
<1>9. CASE \E c \in Conns : Open(c) \/ UpgradeFails(c) \/ Leave(c) \/ Connection(c)
  <2>1. UNCHANGED <<sftp, del>>
    BY <1>9 DEF Open, UpgradeFails, Leave, Connection, Return, Push, Enter, Closed, Watch,
                ListenerEnds, hostVars
  <2>2. QED BY <1>1, <2>1
<1>10. CASE \E w \in Workers : Handles(w) \/ \E c \in Conns, ev \in {"auth", "control"} :
                                                  Receive(w, c, ev)
  <2>1. HandlerStep
    BY <1>10 DEF Handles, Receive, Refuse, CheckToken, Present, LookNew, SetJwt, Register, Permit, Act
  <2>2. QED BY <1>1, <2>1, SMTT(60) DEF HandlerStep, hostVars
<1>11. CASE \E x \in Syncers : Fetch(x) \/ Syncs(x)
  <2>1. UNCHANGED <<sftp, del>> \/ (CancelSftp(Users) /\ UNCHANGED del)
    BY <1>11 DEF Fetch, Syncs, Apply, Finish
  <2>2. QED BY <1>1, <1>3, <2>1
<1>12. CASE \E r \in Restorers : BeginRestore(r) \/ EndRestore(r)
  <2>1. UNCHANGED <<sftp, del>> BY <1>12 DEF BeginRestore, EndRestore
  <2>2. QED BY <1>1, <2>1
<1>13. CASE \E u \in Users : Deauthorize(u) \/ DenyForServer(u) \/ DenyJTI(u)
  <2>1. \/ UNCHANGED <<sftp, del>>
        \/ \E u \in Users : CancelSftp({u}) /\ UNCHANGED del
    BY <1>13 DEF Deauthorize, DenyForServer, DenyJTI, hostVars
  <2>2. QED BY <1>1, <1>3, <2>1
<1>14. CASE Tick BY <1>1, <1>14 DEF Tick, hostVars
<1>15. QED
  BY <1>2, <1>4, <1>5, <1>6, <1>7, <1>8, <1>9, <1>10, <1>11, <1>12, <1>13, <1>14
  DEF Next, Deletion

\* No SFTP channel is served past the deletion of its server.
THEOREM DeletionSettles == Spec => []DeletedSettled
<1>1. Init => DeletedSettled /\ ServedUser
  BY DEF Init, DeletedSettled, ServedUser, NoChannel
<1>2. TypeOK /\ DeletedSettled /\ ServedUser /\ [Next]_vars => (DeletedSettled /\ ServedUser)'
  BY DeletedStep
<1>3. QED BY <1>1, <1>2, TypeCorrect, PTL DEF Spec

-----------------------------------------------------------------------------
(* Denied tokens.                                                           *)

\* A token that passes Denylisted is younger than every denial of its user's tokens.
LEMMA NotDenylisted ==
  ASSUME SessionInv, NEW t \in Token, ~Denylisted(t)
  PROVE  Stands(t)
<1>1. t.user \in Users /\ t.iat \in Nat BY LifeAssumption DEF Token
<1>2. /\ boot \in Int /\ lastDenial[t.user] \in Int /\ denied[t.user] \in Int
      /\ lastDenial[t.user] <= boot \/ lastDenial[t.user] <= denied[t.user]
  BY <1>1, LifeAssumption DEF SessionInv, TypeOK, ClockInv
<1>3. t.iat > boot /\ t.iat > denied[t.user] BY <1>1, <1>2, SMTT(60) DEF Denylisted
<1>4. QED BY <1>1, <1>2, <1>3 DEF Stands

\* Which steps of a goroutine accept a token.
Accepts(w) ==
  \/ work[w].at # "parsed" /\ work'[w].at = "parsed"
  \/ work[w].at # "act" /\ work'[w].at = "act"

\* Steps that leave the other goroutines where they are.
LEMMA HandlerFrame ==
  ASSUME SessionInv, NEW w \in Workers, NEW v \in Workers, v # w,
         Handles(w) \/ \E c \in Conns, ev \in {"auth", "control"} : Receive(w, c, ev)
  PROVE  work'[v] = work[v]
<1>1. work \in [Workers -> WorkRec] BY WorkTypes
<1>2. QED
  BY <1>1 DEF Handles, Receive, Refuse, CheckToken, Present, LookNew, SetJwt, Register, Permit, Act,
              Goto

\* Only the steps that present a token and that permit an action accept one.
LEMMA Acceptance ==
  ASSUME SessionInv, NEW w \in Workers, Accepts(w),
         Handles(w) \/ \E c \in Conns, ev \in {"auth", "control"} : Receive(w, c, ev)
  PROVE  \/ \E t \in Issued : /\ work[w].at = "checked" /\ work'[w].at = "parsed"
                              /\ TokenValid(t) /\ work'[w].tok = t
         \/ /\ work[w].at = "checked" /\ work'[w].at = "act" /\ work[w].ev = "control"
            /\ HasPermission(jwt[work[w].conn], "control")
<1>0. work \in [Workers -> WorkRec] /\ work[w] \in WorkRec BY WorkTypes
<1>1. ASSUME NEW at \in At, Goto(w, at) PROVE work'[w].at = at
  BY <1>0, <1>1 DEF Goto, NoWork, WorkRec
<1>2. CASE \E c \in Conns, ev \in {"auth", "control"} : Receive(w, c, ev)
  <2>1. work'[w].at = "in" BY <1>0, <1>2 DEF Receive, NoWork
  <2>2. QED BY <2>1 DEF Accepts
<1>3. CASE Refuse(w) \/ CheckToken(w) \/ Register(w) \/ SetJwt(w) \/ Act(w)
  <2>1. \E at \in {"idle", "checked", "register"} : Goto(w, at)
    BY <1>3 DEF Refuse, CheckToken, Register, SetJwt, Act
  <2>2. work'[w].at \in {"idle", "checked", "register"} BY <1>1, <2>1 DEF At
  <2>3. QED BY <2>2 DEF Accepts
<1>4. CASE LookNew(w)
  <2>1. work'[w].at = "set" BY <1>0, <1>4 DEF LookNew, WorkRec
  <2>2. QED BY <2>1 DEF Accepts
<1>5. CASE Permit(w)
  <2>1. CASE HasPermission(jwt[work[w].conn], "control")
    <3>1. Goto(w, "act") BY <1>5, <2>1 DEF Permit
    <3>2. work'[w].at = "act" BY <1>1, <3>1 DEF At
    <3>3. QED BY <1>5, <2>1, <3>2 DEF Permit
  <2>2. CASE ~HasPermission(jwt[work[w].conn], "control")
    <3>1. Goto(w, "idle") BY <1>5, <2>2 DEF Permit
    <3>2. work'[w].at = "idle" BY <1>1, <3>1 DEF At
    <3>3. QED BY <3>2 DEF Accepts
  <2>3. QED BY <2>1, <2>2
<1>6. CASE \E t \in Issued \union {None} : Present(w, t)
  <2> PICK t \in Issued \union {None} : Present(w, t) BY <1>6
  <2>1. CASE TokenValid(t)
    <3>1. t \in Issued BY <2>1 DEF TokenValid
    <3>2. work'[w] = [work[w] EXCEPT !.at = "parsed", !.tok = t] BY <1>0, <2>1 DEF Present
    <3>3. work'[w].at = "parsed" /\ work'[w].tok = t BY <1>0, <3>2 DEF WorkRec
    <3>4. QED BY <2>1, <3>1, <3>3 DEF Present
  <2>2. CASE ~TokenValid(t)
    <3>1. work'[w] = NoWork BY <1>0, <2>2 DEF Present
    <3>2. QED BY <3>1 DEF Accepts, NoWork
  <2>3. QED BY <2>1, <2>2
<1>7. QED BY <1>2, <1>3, <1>4, <1>5, <1>6 DEF Handles

\* No goroutine accepts a token in a step of anybody else.
LEMMA OthersAcceptNone ==
  ASSUME SessionInv, [Next]_vars, NEW v \in Workers, Accepts(v)
  PROVE  Handles(v) \/ \E c \in Conns, ev \in {"auth", "control"} : Receive(v, c, ev)
<1>1. CASE UNCHANGED work BY <1>1 DEF Accepts
<1>2. CASE Restart
  <2>1. work'[v] = NoWork BY <1>2 DEF Restart, Booted
  <2>2. QED BY <2>1 DEF Accepts, NoWork
<1>3. CASE \E w \in Workers :
           Handles(w) \/ \E c \in Conns, ev \in {"auth", "control"} : Receive(w, c, ev)
  <2> PICK w \in Workers :
        Handles(w) \/ \E c \in Conns, ev \in {"auth", "control"} : Receive(w, c, ev)
    BY <1>3
  <2>1. v # w => work'[v] = work[v] BY HandlerFrame
  <2>2. QED BY <2>1 DEF Accepts
<1>4. UNCHANGED work \/ Restart
      \/ \E w \in Workers :
           Handles(w) \/ \E c \in Conns, ev \in {"auth", "control"} : Receive(w, c, ev)
  <2>1. CASE UNCHANGED vars BY <2>1 DEF vars, wsVars
  <2>2. CASE \E c \in Conns : Open(c) \/ UpgradeFails(c) \/ Leave(c) \/ Connection(c)
    BY <2>2 DEF Open, UpgradeFails, Leave, Connection, Return, Push, Enter, Closed, Watch, ListenerEnds
  <2>3. CASE \E h \in Channels : Serve(h) \/ Disconnect(h) \/ Terminate(h)
                                \/ \E u \in Users : Authenticate(h, u)
    BY <2>3 DEF Serve, Disconnect, Terminate, Authenticate, SftpStep, wsVars
  <2>4. CASE \/ \E x \in Syncers : Fetch(x) \/ Syncs(x)
             \/ \E r \in Restorers : BeginRestore(r) \/ EndRestore(r)
    BY <2>4 DEF Fetch, Syncs, Apply, Finish, BeginRestore, EndRestore, SameClock
  <2>5. CASE \/ \E u \in Users : Deauthorize(u) \/ DenyForServer(u) \/ DenyJTI(u)
             \/ DeleteSuspends \/ Deletion
    BY <2>5 DEF Deauthorize, DenyForServer, DenyJTI, DeleteSuspends, Deletion, CtxCancel,
                DeleteCancels, SameClock
  <2>6. CASE Tick BY <2>6 DEF Tick, wsVars
  <2>7. QED BY <2>1, <2>2, <2>3, <2>4, <2>5, <2>6 DEF Next
<1>5. QED BY <1>1, <1>2, <1>3, <1>4

\* A denied token is never accepted again, also after any number of restarts.
THEOREM DenialsHold == Spec => NoneRevoked
<1>1. ASSUME SessionInv, [Next]_vars, NEW w \in Workers, Accepts(w)
      PROVE  /\ work[w].at # "parsed" /\ work'[w].at = "parsed" => Stands(work'[w].tok)
             /\ work[w].at # "act" /\ work'[w].at = "act" => Stands(jwt[work[w].conn])
  <2>1. Handles(w) \/ \E c \in Conns, ev \in {"auth", "control"} : Receive(w, c, ev)
    BY <1>1, OthersAcceptNone
  <2>2. CASE \E t \in Issued : /\ work[w].at = "checked" /\ work'[w].at = "parsed"
                               /\ TokenValid(t) /\ work'[w].tok = t
    <3> PICK t \in Issued : work'[w].at = "parsed" /\ TokenValid(t) /\ work'[w].tok = t BY <2>2
    <3>1. t \in Token /\ ~Denylisted(t) BY DEF Issued, TokenValid, HasPermission
    <3>2. Stands(t) BY <1>1, <3>1, NotDenylisted
    <3>3. QED BY <3>2
  <2>3. CASE /\ work[w].at = "checked" /\ work'[w].at = "act" /\ work[w].ev = "control"
             /\ HasPermission(jwt[work[w].conn], "control")
    <3>1. jwt[work[w].conn] \in Token BY <1>1, <2>3 DEF SessionInv, WorkInv
    <3>2. ~Denylisted(jwt[work[w].conn]) BY <2>3 DEF HasPermission
    <3>3. Stands(jwt[work[w].conn]) BY <1>1, <3>1, <3>2, NotDenylisted
    <3>4. QED BY <2>3, <3>3
  <2>4. QED BY <1>1, <2>1, <2>2, <2>3, Acceptance
<1>2. ASSUME SessionInv, [Next]_vars
      PROVE  [\A w \in Workers :
                /\ work[w].at # "parsed" /\ work'[w].at = "parsed" => Stands(work'[w].tok)
                /\ work[w].at # "act" /\ work'[w].at = "act" => Stands(jwt[work[w].conn])]_vars
  BY <1>1, <1>2 DEF Accepts
<1>3. QED BY <1>2, SessionInvariant, PTL DEF Spec, NoneRevoked

=============================================================================

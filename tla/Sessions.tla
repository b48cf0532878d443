------------------------------ MODULE Sessions ------------------------------
(***************************************************************************)
(* The websocket and SFTP sessions of one server, and what ends them.        *)
(*                                                                         *)
(* A websocket connection is admitted (router_server_ws.go), tracked in the  *)
(* server's bag, and then read in a loop that handles every message in a     *)
(* goroutine of its own (websocket.go); a client presents a token the Panel  *)
(* has signed.  Sessions are ended by a suspension that arrives with a       *)
(* configuration sync, by the deletion of the server, and by the Panel       *)
(* taking a user's rights away, which also denies the tokens issued so far   *)
(* (tokens/websocket.go).  The list of denied tokens is lost when the daemon  *)
(* is restarted.                                                            *)
(*                                                                         *)
(* Time is counted in seconds: tokens carry the second they were issued in,  *)
(* while denials and the boot of the daemon are instants within a second.    *)
(* A moment is therefore before an instant iff its second is not a later one.*)
(* The Panel's clock and the node's are taken to agree.                      *)
(***************************************************************************)
EXTENDS Integers, FiniteSets

CONSTANTS
  Users,      \* users of the Panel
  Grants,     \* sets of permissions a token may carry
  Conns,      \* websocket connections open at a time
  Workers,    \* goroutines that handle websocket messages
  Channels,   \* SFTP channels open at a time
  Syncers,    \* goroutines that sync the configuration with the Panel
  Restorers,  \* goroutines that restore a backup
  Cap,        \* websocket connections a server accepts
  Life,       \* seconds a token is valid
  MaxTime,    \* bound: seconds that pass
  None        \* no token, no user, no connection

ASSUME CapAssumption  == Cap \in Nat
ASSUME LifeAssumption == Life \in Nat /\ MaxTime \in Nat

Token == [user : Users, iat : 0..MaxTime, perms : Grants]
ASSUME NoneAssumption == None \notin Token /\ None \notin Conns /\ None \notin Users

VARIABLES
  now,        \* the current second
  boot,       \* wingsBootTime
  denied,     \* userDenylist and denylist: per user, the latest denial or -1
  lastDenial, \* per user, the latest denial ever, also by an earlier daemon
  conn,       \* each connection: none, counted, open or loop
  bag,        \* WebsocketBag.conns
  cancelled,  \* connections whose context is cancelled
  jwt,        \* Handler.jwt of each connection
  listeners,  \* event listeners registered for each connection
  work,       \* what each message goroutine is doing
  sftp,       \* each SFTP channel
  suspended,  \* Configuration.Suspended
  sync,       \* each syncer: idle, fetched, applied
  restores,   \* restorers at work
  deauth,     \* users whose tokens postDeauthorizeUser is about to deny
  del         \* deleteServer: no, suspended, ctx, done, failed, again

tokenVars == <<denied, lastDenial>>
wsVars    == <<conn, bag, cancelled, jwt, listeners, work>>
hostVars  == <<suspended, sync, restores, deauth, del>>
vars == <<now, boot, tokenVars, wsVars, sftp, hostVars>>

NoWork    == [at |-> "idle", conn |-> None, ev |-> "auth", tok |-> None, new |-> FALSE]
NoChannel == [at |-> "none", user |-> None, cancelled |-> FALSE]
IdleSync  == [at |-> "idle", cfg |-> FALSE]

\* The server's context has been cancelled.
Gone == del \in {"ctx", "done", "failed", "again"}

\* What a start of the daemon leaves: nobody is connected, nothing is denied, and
\* the configuration has just been fetched.
Booted ==
  /\ denied' = [u \in Users |-> -1]
  /\ conn' = [c \in Conns |-> "none"] /\ bag' = {} /\ cancelled' = {}
  /\ jwt' = [c \in Conns |-> None] /\ listeners' = [c \in Conns |-> 0]
  /\ work' = [w \in Workers |-> NoWork]
  /\ sftp' = [h \in Channels |-> NoChannel]
  /\ sync' = [x \in Syncers |-> IdleSync] /\ restores' = {}
  /\ deauth' = {}

Init ==
  /\ now = 0 /\ boot = 0
  /\ denied = [u \in Users |-> -1] /\ lastDenial = denied
  /\ conn = [c \in Conns |-> "none"] /\ bag = {} /\ cancelled = {}
  /\ jwt = [c \in Conns |-> None] /\ listeners = [c \in Conns |-> 0]
  /\ work = [w \in Workers |-> NoWork]
  /\ sftp = [h \in Channels |-> NoChannel]
  /\ suspended \in BOOLEAN
  /\ sync = [x \in Syncers |-> IdleSync] /\ restores = {}
  /\ deauth = {} /\ del = "no"

-----------------------------------------------------------------------------
(* Tokens.                                                                  *)

\* ExpirationTimeValidator compares whole seconds.
Expired(t) == now > t.iat + Life

\* Mutation of Denylisted: tokens from before the boot are let through.
DenylistedSinceBoot(t) == t.iat <= denied[t.user]

\* WebsocketPayload.Denylisted.
Denylisted(t) == t.iat <= boot \/ t.iat <= denied[t.user]

HasPermission(t, p) == p \in t.perms /\ ~Denylisted(t)

\* Handler.TokenValid, and NewTokenPayload for a token that is presented.
TokenValid(t) == t # None /\ ~Expired(t) /\ HasPermission(t, "connect")

\* DenyForServer and DenyJTI: both key the moment by user and server.
Deny(u) ==
  /\ denied' = [denied EXCEPT ![u] = now]
  /\ lastDenial' = [lastDenial EXCEPT ![u] = now]

\* The tokens the Panel may have signed by now.
Issued == {t \in Token : t.iat <= now}

Tick ==
  /\ now < MaxTime
  /\ now' = now + 1
  /\ UNCHANGED <<boot, tokenVars, wsVars, sftp, hostVars>>

-----------------------------------------------------------------------------
(* A websocket connection.                                                  *)

Live == {c \in Conns : conn[c] \in {"open", "loop"}}
WorkOf(c) == {w \in Workers : work[w].conn = c}

\* Nothing is left of the connection.
Quiet(c) == conn[c] = "none" /\ listeners[c] = 0 /\ WorkOf(c) = {}

\* getServerWebsocket up to the limit on connections.
Open(c) ==
  /\ Quiet(c) /\ del # "done"
  /\ Cardinality(bag) < Cap
  /\ conn' = [conn EXCEPT ![c] = "counted"]
  /\ jwt' = [jwt EXCEPT ![c] = None]
  /\ cancelled' = cancelled \ {c}
  /\ UNCHANGED <<now, boot, tokenVars, bag, listeners, work, sftp, hostVars>>

\* The request is upgraded and the connection tracked.
Push(c) ==
  /\ conn[c] = "counted"
  /\ conn' = [conn EXCEPT ![c] = "open"]
  /\ bag' = bag \union {c}
  /\ UNCHANGED <<now, boot, tokenVars, cancelled, jwt, listeners, work, sftp, hostVars>>

UpgradeFails(c) ==
  /\ conn[c] = "counted"
  /\ conn' = [conn EXCEPT ![c] = "none"]
  /\ cancelled' = cancelled \union {c}
  /\ UNCHANGED <<now, boot, tokenVars, bag, jwt, listeners, work, sftp, hostVars>>

\* getServerWebsocket returns: the connection leaves the bag and its context is
\* cancelled.
Return(c) ==
  /\ conn' = [conn EXCEPT ![c] = "none"]
  /\ bag' = bag \ {c}
  /\ cancelled' = cancelled \union {c}
  /\ UNCHANGED <<now, boot, tokenVars, jwt, listeners, work, sftp, hostVars>>

\* Mutation of Enter: the suspension is not looked at.
EnterUnchecked(c) ==
  /\ conn[c] = "open"
  /\ conn' = [conn EXCEPT ![c] = "loop"]
  /\ UNCHANGED <<now, boot, tokenVars, bag, cancelled, jwt, listeners, work, sftp, hostVars>>

\* A server that is suspended closes the connection it has just tracked.
Enter(c) ==
  /\ conn[c] = "open"
  /\ \/ suspended /\ Return(c)
     \/ /\ ~suspended
        /\ conn' = [conn EXCEPT ![c] = "loop"]
        /\ UNCHANGED <<now, boot, tokenVars, bag, cancelled, jwt, listeners, work,
                       sftp, hostVars>>

\* The client leaves, or a listener that cannot write closes the connection.
Leave(c) == conn[c] = "loop" /\ Return(c)

\* The context is cancelled: the connection is closed and the read fails.
Closed(c) == c \in cancelled /\ conn[c] = "loop" /\ Return(c)

\* Mutation of Watch: connections opened after the cancellation are not watched.
WatchOnce(c) ==
  /\ del = "ctx" /\ c \in Live \ cancelled
  /\ cancelled' = cancelled \union {c}
  /\ UNCHANGED <<now, boot, tokenVars, conn, bag, jwt, listeners, work, sftp, hostVars>>

\* The goroutine that waits for the server's context.
Watch(c) ==
  /\ Gone /\ c \in Live \ cancelled
  /\ cancelled' = cancelled \union {c}
  /\ UNCHANGED <<now, boot, tokenVars, conn, bag, jwt, listeners, work, sftp, hostVars>>

\* Mutation of ListenerEnds: the goroutine ends whether or not it was started.
ListenerEndsAnyway(c) ==
  /\ c \in cancelled
  /\ listeners' = [listeners EXCEPT ![c] = @ - 1]
  /\ UNCHANGED <<now, boot, tokenVars, conn, bag, cancelled, jwt, work, sftp, hostVars>>

\* listenForServerEvents and listenForExpiration end with the context.  Off waits
\* for the write lock of a pool; that no Push holds it for ever is assumed.
ListenerEnds(c) ==
  /\ c \in cancelled /\ listeners[c] > 0
  /\ listeners' = [listeners EXCEPT ![c] = @ - 1]
  /\ UNCHANGED <<now, boot, tokenVars, conn, bag, cancelled, jwt, work, sftp, hostVars>>

-----------------------------------------------------------------------------
(* A message: HandleInbound in a goroutine.  "auth" presents a token and      *)
(* "control" is a power action or a console command; requests for logs and   *)
(* statistics change nothing here.                                          *)

Goto(w, at) ==
  work' = [work EXCEPT ![w] = IF at = "idle" THEN NoWork ELSE [@ EXCEPT !.at = at]]

HandlerStep == UNCHANGED <<now, boot, tokenVars, conn, bag, sftp, hostVars>>

Receive(w, c, ev) ==
  /\ work[w] = NoWork /\ conn[c] = "loop"
  /\ work' = [work EXCEPT ![w] = [NoWork EXCEPT !.at = "in", !.conn = c, !.ev = ev]]
  /\ HandlerStep /\ UNCHANGED <<cancelled, jwt, listeners>>

\* ErrSuspended, at the first or the second check, cancels the connection.
Refuse(w) ==
  /\ work[w].at \in {"in", "checked"} /\ suspended
  /\ cancelled' = cancelled \union {work[w].conn}
  /\ Goto(w, "idle")
  /\ HandlerStep /\ UNCHANGED <<jwt, listeners>>

\* The message is throttled, or the token of the connection is looked at.
CheckToken(w) ==
  /\ work[w].at = "in" /\ ~suspended
  /\ \/ Goto(w, "idle")
     \/ Goto(w, IF work[w].ev = "auth" \/ TokenValid(jwt[work[w].conn]) THEN "checked" ELSE "idle")
  /\ HandlerStep /\ UNCHANGED <<cancelled, jwt, listeners>>

\* Authentication: the token (None: not one the Panel has signed) is parsed ...
Present(w, t) ==
  /\ work[w].at = "checked" /\ work[w].ev = "auth" /\ ~suspended
  /\ work' = [work EXCEPT ![w] = IF TokenValid(t) THEN [@ EXCEPT !.at = "parsed", !.tok = t]
                                                  ELSE NoWork]
  /\ HandlerStep /\ UNCHANGED <<cancelled, jwt, listeners>>

\* ... the connection is looked at for an earlier one ...
LookNew(w) ==
  /\ work[w].at = "parsed"
  /\ work' = [work EXCEPT ![w].at = "set", ![w].new = jwt[work[w].conn] = None]
  /\ HandlerStep /\ UNCHANGED <<cancelled, jwt, listeners>>

\* ... it is stored ...
SetJwt(w) ==
  /\ work[w].at = "set"
  /\ jwt' = [jwt EXCEPT ![work[w].conn] = work[w].tok]
  /\ Goto(w, IF work[w].new THEN "register" ELSE "idle")
  /\ HandlerStep /\ UNCHANGED <<cancelled, listeners>>

\* ... and the first one registers the event listeners.
Register(w) ==
  /\ work[w].at = "register"
  /\ listeners' = [listeners EXCEPT ![work[w].conn] = @ + 1]
  /\ Goto(w, "idle")
  /\ HandlerStep /\ UNCHANGED <<cancelled, jwt>>

\* A power action or a command is permitted or not.
Permit(w) ==
  /\ work[w].at = "checked" /\ work[w].ev = "control" /\ ~suspended
  /\ Goto(w, IF HasPermission(jwt[work[w].conn], "control") THEN "act" ELSE "idle")
  /\ HandlerStep /\ UNCHANGED <<cancelled, jwt, listeners>>

\* HandlePowerAction or SendCommand is called.
Act(w) ==
  /\ work[w].at = "act"
  /\ Goto(w, "idle")
  /\ HandlerStep /\ UNCHANGED <<cancelled, jwt, listeners>>

Handles(w) ==
  \/ Refuse(w) \/ CheckToken(w) \/ LookNew(w) \/ SetJwt(w) \/ Register(w) \/ Permit(w) \/ Act(w)
  \/ \E t \in Issued \union {None} : Present(w, t)

-----------------------------------------------------------------------------
(* SFTP: the Panel has checked the credentials; the channel's context is the *)
(* one of its user in the server's ContextBag.                              *)

SftpStep == UNCHANGED <<now, boot, tokenVars, wsVars, hostVars>>

Authenticate(h, u) ==
  /\ sftp[h].at = "none" /\ del # "done"
  /\ sftp' = [sftp EXCEPT ![h] = [at |-> "valid", user |-> u, cancelled |-> FALSE]]
  /\ SftpStep

\* Mutation of Serve: the bag's contexts do not descend from the server's.
ServeDetached(h) ==
  /\ sftp[h].at = "valid"
  /\ sftp' = [sftp EXCEPT ![h].at = "serving"]
  /\ SftpStep

\* SFTPServer.Handle: a context that descends from the server's.
Serve(h) ==
  /\ sftp[h].at = "valid"
  /\ sftp' = [sftp EXCEPT ![h].at = "serving", ![h].cancelled = Gone]
  /\ SftpStep

\* The client leaves, or the server is closed because the context is cancelled.
Disconnect(h) == sftp[h].at # "none" /\ sftp' = [sftp EXCEPT ![h] = NoChannel] /\ SftpStep
Terminate(h) == sftp[h].cancelled /\ Disconnect(h)

\* ContextBag.Cancel and CancelAll, for these users.
CancelSftp(users) ==
  sftp' = [h \in Channels |->
             IF sftp[h].at = "serving" /\ sftp[h].user \in users
             THEN [sftp[h] EXCEPT !.cancelled = TRUE] ELSE sftp[h]]

-----------------------------------------------------------------------------
(* What ends sessions.                                                      *)

\* WebsocketBag.CancelAll.
CancelAll == cancelled' = cancelled \union bag /\ bag' = {}

SameClock == UNCHANGED <<now, boot, conn, jwt, listeners, work>>

\* Server.Sync: the configuration is fetched ...
Fetch(x) ==
  /\ sync[x] = IdleSync /\ ~Gone
  /\ \E cfg \in BOOLEAN : sync' = [sync EXCEPT ![x] = [at |-> "fetched", cfg |-> cfg]]
  /\ SameClock
  /\ UNCHANGED <<tokenVars, bag, cancelled, sftp, suspended, restores, deauth, del>>

\* ... replaces the server's ...
Apply(x) ==
  /\ sync[x].at = "fetched"
  /\ suspended' = sync[x].cfg
  /\ sync' = [sync EXCEPT ![x] = [at |-> "applied", cfg |-> FALSE]]
  /\ SameClock
  /\ UNCHANGED <<tokenVars, bag, cancelled, sftp, restores, deauth, del>>

\* ... and the sessions of a suspended server are ended.
Finish(x) ==
  /\ sync[x].at = "applied"
  /\ IF suspended THEN CancelAll /\ CancelSftp(Users) ELSE UNCHANGED <<bag, cancelled, sftp>>
  /\ sync' = [sync EXCEPT ![x] = IdleSync]
  /\ SameClock
  /\ UNCHANGED <<tokenVars, suspended, restores, deauth, del>>

\* RestoreBackup suspends the server meanwhile.
BeginRestore(r) ==
  /\ r \notin restores /\ del # "done"
  /\ restores' = restores \union {r} /\ suspended' = TRUE
  /\ SameClock
  /\ UNCHANGED <<tokenVars, bag, cancelled, sftp, sync, deauth, del>>

EndRestore(r) ==
  /\ r \in restores
  /\ restores' = restores \ {r} /\ suspended' = FALSE
  /\ SameClock
  /\ UNCHANGED <<tokenVars, bag, cancelled, sftp, sync, deauth, del>>

\* postDeauthorizeUser: the server's websockets and the user's SFTP channels, and,
\* unless every server is meant, ...
Deauthorize(u) ==
  /\ u \notin deauth /\ del # "done"
  /\ CancelAll /\ CancelSftp({u})
  /\ deauth' \in {deauth, deauth \union {u}}
  /\ SameClock
  /\ UNCHANGED <<tokenVars, suspended, sync, restores, del>>

\* ... the user's tokens.
DenyForServer(u) ==
  /\ u \in deauth
  /\ Deny(u)
  /\ deauth' = deauth \ {u}
  /\ SameClock
  /\ UNCHANGED <<bag, cancelled, sftp, suspended, sync, restores, del>>

\* postServerDenyWSTokens.
DenyJTI(u) ==
  /\ Deny(u)
  /\ SameClock
  /\ UNCHANGED <<bag, cancelled, sftp, hostVars>>

\* deleteServer: the server is suspended, ...
DeleteSuspends ==
  /\ \/ del = "no" /\ del' = "suspended"
     \/ del = "failed" /\ del' = "again"
  /\ suspended' = TRUE
  /\ SameClock
  /\ UNCHANGED <<tokenVars, bag, cancelled, sftp, sync, restores, deauth>>

\* ... CleanupForDestroy cancels its context, from which the contexts of the SFTP
\* channels descend, ...
CtxCancel ==
  /\ del = "suspended"
  /\ del' = "ctx"
  /\ CancelSftp(Users)
  /\ SameClock
  /\ UNCHANGED <<tokenVars, bag, cancelled, suspended, sync, restores, deauth>>

\* ... and the websockets.  The manager forgets the server unless its backups or its
\* environment cannot be removed; another attempt to delete it panics in
\* Locker.Destroy, which closes the lock's channel a second time.
DeleteCancels ==
  /\ \/ del = "ctx" /\ del' \in {"done", "failed"}
     \/ del = "again" /\ del' = "failed"
  /\ CancelAll
  /\ SameClock
  /\ UNCHANGED <<tokenVars, sftp, suspended, sync, restores, deauth>>

\* The daemon is restarted; the Panel still lists a server that it has not deleted.
Restart ==
  /\ Booted
  /\ boot' = now
  /\ suspended' \in BOOLEAN
  /\ del' = IF del = "done" THEN del ELSE "no"
  /\ UNCHANGED <<now, lastDenial>>

-----------------------------------------------------------------------------
Connection(c) ==
  \/ Push(c) \/ Enter(c) \/ Closed(c) \/ Watch(c) \/ ListenerEnds(c)

Syncs(x) == Apply(x) \/ Finish(x)
Deletion == CtxCancel \/ DeleteCancels

Next ==
  \/ \E c \in Conns : Open(c) \/ UpgradeFails(c) \/ Leave(c) \/ Connection(c)
  \/ \E w \in Workers : Handles(w) \/ \E c \in Conns, ev \in {"auth", "control"} : Receive(w, c, ev)
  \/ \E h \in Channels : Serve(h) \/ Disconnect(h) \/ Terminate(h) \/ \E u \in Users : Authenticate(h, u)
  \/ \E x \in Syncers : Fetch(x) \/ Syncs(x)
  \/ \E r \in Restorers : BeginRestore(r) \/ EndRestore(r)
  \/ \E u \in Users : Deauthorize(u) \/ DenyForServer(u) \/ DenyJTI(u)
  \/ DeleteSuspends \/ Deletion \/ Restart \/ Tick

\* The goroutines of a connection, of its messages and of the deletion go on;
\* clients, users and the Panel need not.
Fairness ==
  /\ \A c \in Conns : WF_vars(Connection(c))
  /\ \A w \in Workers : WF_vars(Handles(w))
  /\ WF_vars(Deletion)

Spec == Init /\ [][Next]_vars
FairSpec == Spec /\ Fairness

-----------------------------------------------------------------------------
(* Properties.                                                              *)

\* The variables' types; no more listeners end than were registered.
TypeOK ==
  /\ now \in 0..MaxTime /\ boot \in 0..MaxTime
  /\ denied \in [Users -> -1..MaxTime] /\ lastDenial \in [Users -> -1..MaxTime]
  /\ conn \in [Conns -> {"none", "counted", "open", "loop"}]
  /\ bag \subseteq Conns /\ cancelled \subseteq Conns
  /\ jwt \in [Conns -> Token \union {None}]
  /\ listeners \in [Conns -> Nat]
  /\ work \in [Workers -> [at : {"idle", "in", "checked", "parsed", "set", "register", "act"},
                           conn : Conns \union {None}, ev : {"auth", "control"},
                           tok : Token \union {None}, new : BOOLEAN]]
  /\ sftp \in [Channels -> [at : {"none", "valid", "serving"}, user : Users \union {None},
                            cancelled : BOOLEAN]]
  /\ suspended \in BOOLEAN
  /\ sync \in [Syncers -> [at : {"idle", "fetched", "applied"}, cfg : BOOLEAN]]
  /\ restores \subseteq Restorers
  /\ deauth \subseteq Users
  /\ del \in {"no", "suspended", "ctx", "done", "failed", "again"}

\* A token from the second of a denial of its user's tokens, or from an earlier one,
\* is never accepted again, neither to authenticate nor to permit an action, not even
\* by a daemon that was restarted since and has forgotten the denial
\* (tokens/websocket.go, Denylisted).
Stands(t) == t.iat > lastDenial[t.user]

NoneRevoked ==
  [][\A w \in Workers :
       /\ work[w].at # "parsed" /\ work'[w].at = "parsed" => Stands(work'[w].tok)
       /\ work[w].at # "act" /\ work'[w].at = "act" => Stands(jwt[work[w].conn])]_vars

\* Somebody will still cancel the sessions of the suspended server.
Pending == (\E x \in Syncers : sync[x].at = "applied") \/ del \in {"suspended", "ctx", "again"}

\* Unless a restore is what suspends it, a suspended server whose sync or deletion is
\* over is left with no connection that is read and not cancelled, however the
\* admission of a connection (tracked, then checked) interleaves with the suspension
\* (set, then cancelled): router_server_ws.go:67-102 and server.go:261-275.
SuspendedSettled ==
  suspended /\ restores = {} /\ ~Pending => \A c \in Conns : conn[c] = "loop" => c \in cancelled

\* No SFTP channel is served past the deletion of its server, not even one whose
\* credentials were checked before it and that is opened afterwards
\* (connections.go:15, context_bag.go:32).
DeletedSettled ==
  Gone => \A h \in Channels : sftp[h].at = "serving" => sftp[h].cancelled

\* Every connection to a server that is being deleted ends, with its listeners and
\* the goroutines that handle its messages, also when the deletion fails half-way and
\* clients go on connecting (router_server_ws.go:83-95).
DeletedEnds == \A c \in Conns : Gone ~> Quiet(c)

-----------------------------------------------------------------------------
(* Formulas that the comments suggest and that do not hold (see README.md).  *)

\* Listeners are registered once for a connection (listeners.go:17-19): two messages
\* that authenticate at once both find no token.
ListenersOnce == \A c \in Conns : listeners[c] <= 1

\* No more connections than the limit (router_server_ws.go:31-33): they are counted
\* before they are tracked.
WithinCap == Cardinality(bag) <= Cap

\* A server that is being deleted is suspended (router_server.go:228-230): a sync or
\* the end of a restore lifts the suspension.
DeletedIsSuspended == del # "no" => suspended
=============================================================================

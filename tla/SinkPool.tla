------------------------------ MODULE SinkPool ------------------------------
(***************************************************************************)
(* The fan-out primitive of Wings (wings/system/sink_pool.go), which every  *)
(* event bus (wings/events), console sink and install sink is built on.     *)
(*                                                                         *)
(* Pushers are the goroutines calling Push: each holds the read lock of the *)
(* pool's sync.RWMutex until one send goroutine per registered channel has  *)
(* finished.  Every channel belongs to one subscriber goroutine (the        *)
(* websocket listener or the server's event loop), which registers it with  *)
(* On, receives from it, and gives it up with Off.  Destroy may be called   *)
(* once, when the server is deleted.                                        *)
(*                                                                         *)
(* A message is the pusher's name and a per-pusher sequence number.         *)
(***************************************************************************)
EXTENDS Naturals, Sequences, FiniteSets

CONSTANTS
  Pushers,   \* goroutines that call Push
  Chans,     \* channels that may be registered, one subscriber each
  Cap,       \* capacity each channel was made with (0: unbuffered)
  MaxPush    \* bound: number of Push calls of one pusher

ASSUME CapAssumption == Cap \in [Chans -> Nat]
ASSUME MaxPushAssumption == MaxPush \in Nat

VARIABLES
  sinks,     \* p.sinks, the registered channels in order
  buf,       \* content of each channel
  closed,    \* channels that have been closed
  sub,       \* control state of the subscriber that owns the channel
  got,       \* got[c][p]: number of the last message of p received from c
  num,       \* num[p]: number of p's last Push
  active,    \* pushers inside Push, i.e. the holders of the read lock
  send,      \* send[p][c]: control state of the send goroutine of p for c
  destroy    \* control state of the goroutine that destroys the pool

vars == <<sinks, buf, closed, sub, got, num, active, send, destroy>>

Message  == [by : Pushers, n : Nat]
SubState == {"new", "joining", "on", "leaving", "off"}
SendState == {"none", "select", "late", "drain", "resend"}

Registered == {sinks[i] : i \in 1..Len(sinks)}

\* A blocked Lock() keeps new RLock() calls out (sync.RWMutex).
WriterWaiting == destroy = "waiting" \/ \E c \in Chans : sub[c] \in {"joining", "leaving"}

\* Lock() returns once every read lock has been released.
LockFree == active = {}

Init ==
  /\ sinks = <<>>
  /\ buf = [c \in Chans |-> <<>>]
  /\ closed = {}
  /\ sub = [c \in Chans |-> "new"]
  /\ got = [c \in Chans |-> [p \in Pushers |-> 0]]
  /\ num = [p \in Pushers |-> 0]
  /\ active = {}
  /\ send = [p \in Pushers |-> [c \in Chans |-> "none"]]
  /\ destroy = "idle"

-----------------------------------------------------------------------------
(* Subscribers: On, the receive loop, Off.                                  *)

CallOn(c) ==
  /\ sub[c] = "new"
  /\ sub' = [sub EXCEPT ![c] = "joining"]
  /\ UNCHANGED <<sinks, buf, closed, got, num, active, send, destroy>>

On(c) ==
  /\ sub[c] = "joining"
  /\ LockFree
  /\ sinks' = Append(sinks, c)
  /\ sub' = [sub EXCEPT ![c] = "on"]
  /\ UNCHANGED <<buf, closed, got, num, active, send, destroy>>

Receive(c) ==
  /\ sub[c] = "on"
  /\ buf[c] # <<>>
  /\ got' = [got EXCEPT ![c][Head(buf[c]).by] = Head(buf[c]).n]
  /\ buf' = [buf EXCEPT ![c] = Tail(@)]
  /\ UNCHANGED <<sinks, closed, sub, num, active, send, destroy>>

\* The subscriber's context ends or its socket fails: it stops receiving and
\* calls Off.
CallOff(c) ==
  /\ sub[c] = "on"
  /\ sub' = [sub EXCEPT ![c] = "leaving"]
  /\ UNCHANGED <<sinks, buf, closed, got, num, active, send, destroy>>

\* The slice without its element i: what follows is shifted to the left.
ShiftLeft(s, i) == [j \in 1..(Len(s) - 1) |-> IF j < i THEN s[j] ELSE s[j + 1]]

\* The loop stops at the first match; there is at most one (NoPanic).
IndexOf(c) == CHOOSE i \in 1..Len(sinks) : sinks[i] = c

\* Off closes the channel only when it is still registered: after Destroy it
\* is not, and closing it a second time would panic.
Unregister(c) ==
  IF c \in Registered
  THEN sinks' = ShiftLeft(sinks, IndexOf(c)) /\ closed' = closed \union {c}
  ELSE UNCHANGED <<sinks, closed>>

\* Mutation of Off: the write lock is not taken.
OffUnlocked(c) ==
  /\ sub[c] = "leaving"
  /\ Unregister(c)
  /\ sub' = [sub EXCEPT ![c] = "off"]
  /\ UNCHANGED <<buf, got, num, active, send, destroy>>

Off(c) ==
  /\ sub[c] = "leaving"
  /\ LockFree
  /\ Unregister(c)
  /\ sub' = [sub EXCEPT ![c] = "off"]
  /\ UNCHANGED <<buf, got, num, active, send, destroy>>

CallDestroy ==
  /\ destroy = "idle"
  /\ destroy' = "waiting"
  /\ UNCHANGED <<sinks, buf, closed, sub, got, num, active, send>>

Destroy ==
  /\ destroy = "waiting"
  /\ LockFree
  /\ closed' = closed \union Registered
  /\ sinks' = <<>>
  /\ destroy' = "done"
  /\ UNCHANGED <<buf, sub, got, num, active, send>>

-----------------------------------------------------------------------------
(* Push: take the read lock, start one send per registered channel, wait    *)
(* for all of them, release.                                                *)

Push(p) ==
  /\ p \notin active
  /\ ~WriterWaiting
  /\ num[p] < MaxPush
  /\ num' = [num EXCEPT ![p] = @ + 1]
  /\ active' = active \union {p}
  /\ send' = [send EXCEPT ![p] = [c \in Chans |-> IF c \in Registered THEN "select" ELSE "none"]]
  /\ UNCHANGED <<sinks, buf, closed, sub, got, destroy>>

SendStep(p, c, from, to) ==
  /\ send[p][c] = from
  /\ send' = [send EXCEPT ![p][c] = to]
  /\ UNCHANGED <<sinks, closed, sub, num, active, destroy>>

Msg(p) == [by |-> p, n |-> num[p]]

\* select, first case: there is room in the channel.
Send(p, c) ==
  /\ Len(buf[c]) < Cap[c]
  /\ SendStep(p, c, "select", "none")
  /\ buf' = [buf EXCEPT ![c] = Append(@, Msg(p))]
  /\ UNCHANGED got

\* select, first case, unbuffered channel: the receiver takes the message.
HandOff(p, c) ==
  /\ Cap[c] = 0
  /\ sub[c] = "on"
  /\ SendStep(p, c, "select", "none")
  /\ got' = [got EXCEPT ![c][p] = num[p]]
  /\ UNCHANGED buf

\* select, second case: the send stayed blocked for ten milliseconds.
Timeout(p, c) ==
  /\ Len(buf[c]) = Cap[c]
  /\ SendStep(p, c, "select", "late")
  /\ UNCHANGED <<buf, got>>

\* len(c) == 0: nothing to throw away, the message is skipped.
Skip(p, c) ==
  /\ buf[c] = <<>>
  /\ SendStep(p, c, "late", "none")
  /\ UNCHANGED <<buf, got>>

SeesFull(p, c) ==
  /\ buf[c] # <<>>
  /\ SendStep(p, c, "late", "drain")
  /\ UNCHANGED <<buf, got>>

\* Mutation of Drain: the message taken out is queued again.
DrainRequeues(p, c) ==
  /\ buf[c] # <<>>
  /\ SendStep(p, c, "drain", "resend")
  /\ buf' = [buf EXCEPT ![c] = Append(Tail(@), Head(@))]
  /\ UNCHANGED got

\* <-c: throws the oldest message away; blocks while the channel is empty.
Drain(p, c) ==
  /\ buf[c] # <<>>
  /\ SendStep(p, c, "drain", "resend")
  /\ buf' = [buf EXCEPT ![c] = Tail(@)]
  /\ UNCHANGED got

\* Mutation of Resend: the send does not wait for room.
ResendOverfull(p, c) ==
  /\ SendStep(p, c, "resend", "none")
  /\ buf' = [buf EXCEPT ![c] = Append(@, Msg(p))]
  /\ UNCHANGED got

\* c <- data: blocks while another pusher has refilled the channel.
Resend(p, c) ==
  /\ Len(buf[c]) < Cap[c]
  /\ SendStep(p, c, "resend", "none")
  /\ buf' = [buf EXCEPT ![c] = Append(@, Msg(p))]
  /\ UNCHANGED got

\* wg.Wait() returns and the read lock is released.
Return(p) ==
  /\ p \in active
  /\ \A c \in Chans : send[p][c] = "none"
  /\ active' = active \ {p}
  /\ UNCHANGED <<sinks, buf, closed, sub, got, num, send, destroy>>

-----------------------------------------------------------------------------
Subscriber(c) == CallOn(c) \/ On(c) \/ Receive(c) \/ CallOff(c) \/ Off(c)

Sender(p, c) ==
  \/ Send(p, c) \/ HandOff(p, c) \/ Timeout(p, c)
  \/ Skip(p, c) \/ SeesFull(p, c) \/ Drain(p, c) \/ Resend(p, c)

Next ==
  \/ \E c \in Chans : Subscriber(c)
  \/ CallDestroy \/ Destroy
  \/ \E p \in Pushers : Push(p) \/ Return(p)
  \/ \E p \in Pushers, c \in Chans : Sender(p, c)

Spec == Init /\ [][Next]_vars

\* Goroutines that can run do run, the ten millisecond timer fires, and a
\* subscriber that is in its loop keeps receiving.  Nothing forces anybody to
\* subscribe, to leave, to push or to destroy the pool.
Fairness ==
  /\ \A c \in Chans : WF_vars(On(c)) /\ WF_vars(Receive(c)) /\ WF_vars(Off(c))
  /\ WF_vars(Destroy)
  /\ \A p \in Pushers : WF_vars(Return(p)) /\ \A c \in Chans : WF_vars(Sender(p, c))

FairSpec == Spec /\ Fairness

-----------------------------------------------------------------------------
(* Properties                                                               *)

\* The variables' types; no channel holds more messages than Push may leave in it.
TypeOK ==
  /\ sinks \in Seq(Chans)
  /\ buf \in [Chans -> Seq(Message)]
  /\ \A c \in Chans : Len(buf[c]) <= Cap[c]
  /\ closed \subseteq Chans
  /\ sub \in [Chans -> SubState]
  /\ got \in [Chans -> [Pushers -> Nat]]
  /\ num \in [Pushers -> Nat]
  /\ active \subseteq Pushers
  /\ send \in [Pushers -> [Chans -> SendState]]
  /\ destroy \in {"idle", "waiting", "done"}

\* No panic in the pool: a send goroutine never meets a closed channel (send on
\* closed channel), and a channel that Off or Destroy would close has not been
\* closed before (close of closed channel).  Push relies on its read lock being
\* held until the last send is over; Off relies on Destroy emptying the slice.
NoPanic ==
  /\ \A p \in Pushers, c \in Chans : send[p][c] # "none" => c \notin closed
  /\ Registered \intersect closed = {}
  /\ \A i, j \in 1..Len(sinks) : sinks[i] = sinks[j] => i = j

\* The inductive invariant behind NoPanic: while a send goroutine is at work its
\* pusher holds the read lock and its channel stays registered; a subscriber
\* registers its channel once, before it is ever closed.
PoolInv ==
  /\ NoPanic
  /\ \A p \in Pushers, c \in Chans : send[p][c] # "none" => p \in active /\ c \in Registered
  /\ \A c \in Registered : sub[c] \in {"on", "leaving"}
  /\ \A c \in closed : sub[c] \in {"on", "leaving", "off"}

\* A subscriber sees the messages of one pusher in the order they were pushed:
\* the rolling buffer drops messages, it never reorders or repeats them, even
\* when several pushers swap messages in the same full channel.
ReceivedInOrder ==
  [][\A c \in Chans, p \in Pushers : got'[c][p] # got[c][p] => got'[c][p] > got[c][p]]_vars

\* Push returns: "This will use a Ring Buffer channel in order to avoid blocking
\* the channel sends" (sink_pool.go:83).
PushReturns == \A p \in Pushers : p \in active ~> p \notin active

=============================================================================

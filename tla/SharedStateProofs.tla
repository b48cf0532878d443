------------------------- MODULE SharedStateProofs -------------------------
(***************************************************************************)
(* What holds of the two pieces of state that the goroutines of the daemon   *)
(* share without sending each other anything: the pool of sinks (SinkPool),  *)
(* for every number of pushers and channels and every capacity, and the      *)
(* counter of the disk quota (DiskQuota), for any files, workers, lookers    *)
(* and limits.                                                               *)
(***************************************************************************)
EXTENDS SinkPool, DiskQuota, FiniteSetTheorems, WellFoundedInduction, TLAPS

-----------------------------------------------------------------------------
(* The slice of registered channels.                                        *)

\* The shifted slice is a slice of the same channels, one shorter.
LEMMA ShiftLeftType ==
  ASSUME NEW s \in Seq(Chans), NEW i \in 1..Len(s)
  PROVE  /\ ShiftLeft(s, i) \in Seq(Chans)
         /\ Len(ShiftLeft(s, i)) = Len(s) - 1
<1>1. Len(s) - 1 \in Nat OBVIOUS
<1>2. \A j \in 1..(Len(s) - 1) : s[j] \in Chans /\ s[j + 1] \in Chans OBVIOUS
<1>3. ShiftLeft(s, i) \in [1..(Len(s) - 1) -> Chans] BY <1>2 DEF ShiftLeft
<1>4. QED BY <1>1, <1>3 DEF ShiftLeft

\* A registered channel has an index.
LEMMA IndexOfType ==
  ASSUME NEW c \in Registered
  PROVE  IndexOf(c) \in 1..Len(sinks) /\ sinks[IndexOf(c)] = c
  BY DEF Registered, IndexOf

Elements(s) == {s[k] : k \in 1..Len(s)}
Distinct(s) == \A k, l \in 1..Len(s) : s[k] = s[l] => k = l

\* Taking a channel out of a slice without repetitions leaves the others, and
\* no repetitions.
LEMMA ShiftLeftRemoves ==
  ASSUME NEW s \in Seq(Chans), NEW i \in 1..Len(s), Distinct(s)
  PROVE  Elements(ShiftLeft(s, i)) = Elements(s) \ {s[i]} /\ Distinct(ShiftLeft(s, i))
<1> DEFINE r == ShiftLeft(s, i)
<1>1. Len(r) = Len(s) - 1 /\ Len(s) \in Nat BY ShiftLeftType
<1>2. \A k \in 1..Len(r) : r[k] = IF k < i THEN s[k] ELSE s[k + 1]
  BY <1>1 DEF ShiftLeft
<1> HIDE DEF r
<1>3. Distinct(r) BY <1>1, <1>2 DEF Distinct
<1>4. ASSUME NEW k \in 1..Len(r) PROVE r[k] \in Elements(s) \ {s[i]}
  BY <1>1, <1>2 DEF Elements, Distinct
<1>5. ASSUME NEW k \in 1..Len(s), s[k] # s[i] PROVE s[k] \in Elements(r)
  <2>1. CASE k < i BY <1>1, <1>2, <2>1 DEF Elements
  <2>2. CASE k > i
    <3>1. k - 1 \in 1..Len(r) /\ r[k - 1] = s[k] BY <1>1, <1>2, <2>2
    <3>2. QED BY <3>1 DEF Elements
  <2>3. QED BY <1>5, <2>1, <2>2
<1>6. Elements(r) = Elements(s) \ {s[i]} BY <1>4, <1>5 DEF Elements
<1>7. QED BY <1>3, <1>6 DEF r

-----------------------------------------------------------------------------
(* Type correctness.                                                        *)

\* The empty pool has the right types.
LEMMA InitType == Init => TypeOK
  BY CapAssumption DEF Init, TypeOK, SubState, SendState

\* Taking a channel out of the pool and closing it keeps the types.
LEMMA UnregisterType ==
  ASSUME TypeOK, NEW c \in Chans, Unregister(c)
  PROVE  sinks' \in Seq(Chans) /\ closed' \subseteq Chans
  BY IndexOfType, ShiftLeftType DEF TypeOK, Unregister

\* The steps of a subscriber keep the types.
LEMMA SubscriberType ==
  ASSUME TypeOK, NEW c \in Chans, Subscriber(c) PROVE TypeOK'
<1>1. CASE CallOn(c) BY <1>1 DEF TypeOK, CallOn, SubState
<1>2. CASE On(c) BY <1>2 DEF TypeOK, On, SubState
<1>3. CASE Receive(c)
  <2>1. /\ buf[c] \in Seq(Message) /\ buf[c] # <<>> /\ Len(buf[c]) <= Cap[c]
        /\ Cap[c] \in Nat
    BY <1>3, CapAssumption DEF TypeOK, Receive
  <2>2. Head(buf[c]) \in Message /\ Tail(buf[c]) \in Seq(Message)
        /\ Len(Tail(buf[c])) <= Cap[c]
    BY <2>1
  <2>3. Head(buf[c]).by \in Pushers /\ Head(buf[c]).n \in Nat BY <2>2 DEF Message
  <2>4. buf' \in [Chans -> Seq(Message)] /\ \A d \in Chans : Len(buf'[d]) <= Cap[d]
    BY <1>3, <2>2 DEF TypeOK, Receive
  <2>5. got' \in [Chans -> [Pushers -> Nat]] BY <1>3, <2>3 DEF TypeOK, Receive
  <2>6. QED BY <1>3, <2>4, <2>5 DEF TypeOK, Receive
<1>4. CASE CallOff(c) BY <1>4 DEF TypeOK, CallOff, SubState
<1>5. CASE Off(c)
  <2>1. sinks' \in Seq(Chans) /\ closed' \subseteq Chans
    BY <1>5, UnregisterType DEF Off
  <2>2. QED BY <1>5, <2>1 DEF TypeOK, Off, SubState
<1>6. QED BY <1>1, <1>2, <1>3, <1>4, <1>5 DEF Subscriber

\* One message more or less in a channel keeps its type.
LEMMA BufferType ==
  ASSUME TypeOK, NEW p \in Pushers, NEW c \in Chans
  PROVE  /\ Len(buf[c]) < Cap[c] => /\ Append(buf[c], Msg(p)) \in Seq(Message)
                                    /\ Len(Append(buf[c], Msg(p))) <= Cap[c]
         /\ buf[c] # <<>> => Tail(buf[c]) \in Seq(Message) /\ Len(Tail(buf[c])) <= Cap[c]
<1>1. Msg(p) \in Message BY DEF Msg, Message, TypeOK
<1>2. buf[c] \in Seq(Message) /\ Len(buf[c]) <= Cap[c] /\ Cap[c] \in Nat
  BY CapAssumption DEF TypeOK
<1>3. QED BY <1>1, <1>2

\* The steps of a send goroutine keep the types.
LEMMA SenderType ==
  ASSUME TypeOK, NEW p \in Pushers, NEW c \in Chans, Sender(p, c) PROVE TypeOK'
<1>0. num[p] \in Nat BY DEF TypeOK
<1>1. CASE Send(p, c) \/ Resend(p, c)
  <2>1. /\ UNCHANGED <<sinks, closed, sub, num, active, destroy, got>>
        /\ send' \in [Pushers -> [Chans -> SendState]]
    <3>1. CASE Send(p, c) BY <3>1 DEF TypeOK, Send, SendStep, SendState
    <3>2. CASE Resend(p, c) BY <3>2 DEF TypeOK, Resend, SendStep, SendState
    <3>3. QED BY <1>1, <3>1, <3>2
  <2>2. /\ Len(buf[c]) < Cap[c]
        /\ buf' = [buf EXCEPT ![c] = Append(@, Msg(p))]
    BY <1>1 DEF Send, Resend
  <2>3. /\ Append(buf[c], Msg(p)) \in Seq(Message)
        /\ Len(Append(buf[c], Msg(p))) <= Cap[c]
    BY <2>2, BufferType
  <2>4. buf' \in [Chans -> Seq(Message)] /\ \A d \in Chans : Len(buf'[d]) <= Cap[d]
    BY <2>2, <2>3 DEF TypeOK
  <2>5. QED BY <2>1, <2>4 DEF TypeOK
<1>2. CASE HandOff(p, c)
  <2>1. got' \in [Chans -> [Pushers -> Nat]]
    BY <1>0, <1>2 DEF TypeOK, HandOff
  <2>2. /\ UNCHANGED <<sinks, closed, sub, num, active, destroy, buf>>
        /\ send' \in [Pushers -> [Chans -> SendState]]
    BY <1>2 DEF TypeOK, HandOff, SendStep, SendState
  <2>3. QED BY <2>1, <2>2 DEF TypeOK
<1>3. CASE Timeout(p, c) \/ Skip(p, c) \/ SeesFull(p, c)
  <2>1. CASE Timeout(p, c) BY <2>1 DEF TypeOK, Timeout, SendStep, SendState
  <2>2. CASE Skip(p, c) BY <2>2 DEF TypeOK, Skip, SendStep, SendState
  <2>3. CASE SeesFull(p, c) BY <2>3 DEF TypeOK, SeesFull, SendStep, SendState
  <2>4. QED BY <1>3, <2>1, <2>2, <2>3
<1>4. CASE Drain(p, c)
  <2>1. Tail(buf[c]) \in Seq(Message) /\ Len(Tail(buf[c])) <= Cap[c]
    BY <1>4, BufferType DEF Drain
  <2>2. buf' \in [Chans -> Seq(Message)] /\ \A d \in Chans : Len(buf'[d]) <= Cap[d]
    BY <1>4, <2>1 DEF TypeOK, Drain
  <2>3. /\ UNCHANGED <<sinks, closed, sub, num, active, destroy, got>>
        /\ send' \in [Pushers -> [Chans -> SendState]]
    BY <1>4 DEF TypeOK, Drain, SendStep, SendState
  <2>4. QED BY <2>2, <2>3 DEF TypeOK
<1>5. QED BY <1>1, <1>2, <1>3, <1>4 DEF Sender

\* What is registered is a channel.
LEMMA RegisteredType == TypeOK => Registered \subseteq Chans
  BY DEF TypeOK, Registered

\* Every step keeps the types.
LEMMA NextType == TypeOK /\ [Next]_vars => TypeOK'
<1> SUFFICES ASSUME TypeOK, [Next]_vars PROVE TypeOK'
  OBVIOUS
<1>1. ASSUME NEW c \in Chans, Subscriber(c) PROVE TypeOK' BY <1>1, SubscriberType
<1>2. CASE CallDestroy BY <1>2 DEF TypeOK, CallDestroy
<1>3. CASE Destroy BY <1>3, RegisteredType DEF TypeOK, Destroy
<1>4. ASSUME NEW p \in Pushers, Push(p) PROVE TypeOK'
  BY <1>4 DEF TypeOK, Push, SendState
<1>5. ASSUME NEW p \in Pushers, Return(p) PROVE TypeOK' BY <1>5 DEF TypeOK, Return
<1>6. ASSUME NEW p \in Pushers, NEW c \in Chans, Sender(p, c) PROVE TypeOK'
  BY <1>6, SenderType
<1>7. CASE UNCHANGED vars BY <1>7 DEF TypeOK, vars
<1>8. QED BY <1>1, <1>2, <1>3, <1>4, <1>5, <1>6, <1>7 DEF Next

\* The variables keep their types; no channel ever holds more messages than it
\* was made for.
THEOREM TypeCorrect == Spec => []TypeOK
  BY InitType, NextType, PTL DEF Spec

-----------------------------------------------------------------------------
(* No panic.                                                                *)

\* The empty pool satisfies the invariant.
LEMMA InitPool == Init => PoolInv
  BY DEF Init, PoolInv, NoPanic, Registered

\* A step that leaves the slice, the closed channels and the read locks alone
\* keeps the invariant if it starts no send.
LEMMA SameSlice ==
  ASSUME TypeOK, PoolInv, UNCHANGED <<sinks, closed>>,
         \A p \in Pushers, c \in Chans :
           send'[p][c] # "none" => send[p][c] # "none" /\ p \in active',
         \A c \in Chans : sub[c] \in {"on", "leaving"} => sub'[c] \in {"on", "leaving"},
         \A c \in Chans : sub[c] = "off" => sub'[c] = "off"
  PROVE  PoolInv'
<1>1. Registered' = Registered BY DEF Registered
<1>2. Registered \subseteq Chans /\ closed \subseteq Chans BY RegisteredType DEF TypeOK
<1>3. NoPanic' BY <1>1 DEF PoolInv, NoPanic
<1>4. QED BY <1>1, <1>2, <1>3 DEF PoolInv

\* Every step of the pool keeps the invariant.
LEMMA NextPool == TypeOK /\ PoolInv /\ [Next]_vars => PoolInv'
<1> SUFFICES ASSUME TypeOK, PoolInv, [Next]_vars PROVE PoolInv'
  OBVIOUS
<1>0. /\ send \in [Pushers -> [Chans -> SendState]] /\ sub \in [Chans -> SubState]
      /\ Registered \subseteq Chans /\ closed \subseteq Chans /\ sinks \in Seq(Chans)
  BY RegisteredType DEF TypeOK
<1>1. ASSUME NEW c \in Chans, CallOn(c) \/ CallOff(c) \/ Receive(c) PROVE PoolInv'
  <2>1. /\ UNCHANGED <<sinks, closed, send, active>>
        /\ \A d \in Chans : sub[d] \in {"on", "leaving"} => sub'[d] \in {"on", "leaving"}
        /\ \A d \in Chans : sub[d] = "off" => sub'[d] = "off"
    BY <1>0, <1>1 DEF CallOn, CallOff, Receive
  <2>2. QED BY <2>1, SameSlice DEF PoolInv
<1>2. ASSUME NEW c \in Chans, On(c) PROVE PoolInv'
  <2>1. c \notin Registered /\ c \notin closed BY <1>2 DEF On, PoolInv
  <2>2. /\ Len(sinks') = Len(sinks) + 1
        /\ \A i \in 1..Len(sinks) : sinks'[i] = sinks[i]
        /\ sinks'[Len(sinks) + 1] = c
    BY <1>0, <1>2 DEF On
  <2>3. Registered' = Registered \union {c} BY <1>0, <2>2 DEF Registered
  <2>4. \A i, j \in 1..Len(sinks') : sinks'[i] = sinks'[j] => i = j
    BY <1>0, <2>1, <2>2 DEF PoolInv, NoPanic, Registered
  <2>5. NoPanic' BY <1>2, <2>1, <2>3, <2>4 DEF PoolInv, NoPanic, On
  <2>6. \A d \in Registered' : sub'[d] \in {"on", "leaving"}
    BY <1>0, <1>2, <2>3 DEF PoolInv, On
  <2>7. \A d \in closed' : sub'[d] \in {"on", "leaving", "off"}
    BY <1>0, <1>2 DEF PoolInv, On
  <2>8. \A p \in Pushers, d \in Chans :
          send'[p][d] # "none" => p \in active' /\ d \in Registered'
    BY <1>2, <2>3 DEF PoolInv, On
  <2>9. QED BY <2>5, <2>6, <2>7, <2>8 DEF PoolInv
<1>3. ASSUME NEW c \in Chans, Off(c) PROVE PoolInv'
  <2>1. \A p \in Pushers, d \in Chans : send'[p][d] = "none"
    BY <1>3 DEF Off, LockFree, PoolInv
  <2>2. CASE c \in Registered
    <3>1. sinks' = ShiftLeft(sinks, IndexOf(c)) /\ closed' = closed \union {c}
      BY <1>3, <2>2 DEF Off, Unregister
    <3>2. IndexOf(c) \in 1..Len(sinks) /\ sinks[IndexOf(c)] = c BY <2>2, IndexOfType
    <3>3. /\ Registered' = Registered \ {c}
          /\ \A i, j \in 1..Len(sinks') : sinks'[i] = sinks'[j] => i = j
      <4>1. Distinct(sinks) BY DEF Distinct, PoolInv, NoPanic
      <4>2. Elements(sinks') = Elements(sinks) \ {c} /\ Distinct(sinks')
        BY <1>0, <3>1, <3>2, <4>1, ShiftLeftRemoves
      <4>3. QED BY <4>2 DEF Registered, Elements, Distinct
    <3>4. NoPanic' BY <2>1, <3>1, <3>3 DEF PoolInv, NoPanic
    <3>5. QED BY <1>0, <1>3, <2>1, <3>1, <3>3, <3>4 DEF PoolInv, Off
  <2>3. CASE c \notin Registered
    <3>1. UNCHANGED <<sinks, closed>> BY <1>3, <2>3 DEF Off, Unregister
    <3>2. Registered' = Registered BY <3>1 DEF Registered
    <3>3. NoPanic' BY <2>1, <3>1, <3>2 DEF PoolInv, NoPanic
    <3>4. QED BY <1>0, <1>3, <2>1, <2>3, <3>1, <3>2, <3>3 DEF PoolInv, Off
  <2>4. QED BY <2>2, <2>3
<1>4. CASE CallDestroy BY <1>4, SameSlice DEF CallDestroy, PoolInv
<1>5. CASE Destroy
  <2>1. Registered' = {} /\ closed' = closed \union Registered
    BY <1>5 DEF Destroy, Registered
  <2>2. \A p \in Pushers, d \in Chans : send'[p][d] = "none"
    BY <1>5 DEF Destroy, LockFree, PoolInv
  <2>3. NoPanic' BY <1>5, <2>1, <2>2 DEF NoPanic, Destroy
  <2>4. QED BY <1>5, <2>1, <2>2, <2>3 DEF PoolInv, Destroy
<1>6. ASSUME NEW p \in Pushers, Push(p) PROVE PoolInv'
  <2>1. UNCHANGED <<sinks, closed, sub>> /\ Registered' = Registered
    BY <1>6 DEF Push, Registered
  <2>2. \A q \in Pushers, c \in Chans :
          send'[q][c] # "none" => q \in active' /\ c \in Registered
    BY <1>0, <1>6 DEF Push, PoolInv
  <2>3. NoPanic' BY <1>0, <2>1, <2>2 DEF PoolInv, NoPanic
  <2>4. QED BY <2>1, <2>2, <2>3 DEF PoolInv
<1>7. ASSUME NEW p \in Pushers, Return(p) PROVE PoolInv'
  BY <1>7, SameSlice DEF Return, PoolInv
<1>8. ASSUME NEW p \in Pushers, NEW c \in Chans, Sender(p, c) PROVE PoolInv'
  <2>1. \E from \in {"select", "late", "drain", "resend"}, to \in SendState : SendStep(p, c, from, to)
    BY <1>8 DEF Sender, Send, HandOff, Timeout, Skip, SeesFull, Drain, Resend, SendState
  <2>2. /\ UNCHANGED <<sinks, closed, sub, active>>
        /\ \A q \in Pushers, d \in Chans : send'[q][d] # "none" => send[q][d] # "none"
    BY <1>0, <2>1 DEF SendStep
  <2>3. QED BY <2>2, SameSlice DEF PoolInv
<1>9. CASE UNCHANGED vars BY <1>9, SameSlice DEF vars, PoolInv
<1>10. QED
  BY <1>1, <1>2, <1>3, <1>4, <1>5, <1>6, <1>7, <1>8, <1>9 DEF Next, Subscriber

\* No send goroutine ever meets a closed channel and no channel is closed
\* twice, for any number of pushers and subscribers.
THEOREM PoolNeverPanics == Spec => []NoPanic
<1>1. Init => TypeOK /\ PoolInv BY InitType, InitPool
<1>2. TypeOK /\ PoolInv /\ [Next]_vars => TypeOK' /\ PoolInv' BY NextType, NextPool
<1>3. PoolInv => NoPanic BY DEF PoolInv
<1>4. QED BY <1>1, <1>2, <1>3, PTL DEF Spec


-----------------------------------------------------------------------------
(* Messages of one pusher arrive in order: those in a channel are in the      *)
(* order of their numbers, above the last one received, and at most the last  *)
(* one the pusher has queued there.                                         *)

\* The last message of p that may have reached the channel c.
Top(p, c) == IF send[p][c] = "none" THEN num[p] ELSE num[p] - 1

InOrder(s, p, low, top) ==
  /\ low <= top
  /\ \A k \in 1..Len(s) : s[k].by = p => low < s[k].n /\ s[k].n <= top
  /\ \A k, l \in 1..Len(s) : k < l /\ s[k].by = p /\ s[l].by = p => s[k].n < s[l].n

OrderInv == \A c \in Chans, p \in Pushers : InOrder(buf[c], p, got[c][p], Top(p, c))

LEMMA MessageNumbers ==
  ASSUME NEW s \in Seq(Message)
  PROVE  \A k \in 1..Len(s) : s[k].n \in Nat
<1>1. \A k \in 1..Len(s) : s[k] \in Message
  OBVIOUS
<1> QED BY <1>1 DEF Message

\* Taking the first message leaves the order, and makes it the last one received.
LEMMA TailInOrder ==
  ASSUME NEW s \in Seq(Message), s # <<>>, NEW p, NEW low \in Nat, NEW top \in Int, InOrder(s, p, low, top)
  PROVE  /\ InOrder(Tail(s), p, low, top)
         /\ Head(s).by = p => low < Head(s).n /\ InOrder(Tail(s), p, Head(s).n, top)
<1>1. /\ Len(Tail(s)) = Len(s) - 1 /\ Len(s) \in Nat \ {0} /\ Head(s) = s[1]
      /\ \A k \in 1..(Len(s) - 1) : Tail(s)[k] = s[k + 1]
  OBVIOUS
<1>2. \A k \in 1..Len(s) : s[k].n \in Nat
  BY MessageNumbers
<1> DEFINE t == Tail(s)
           n == Len(s)
<1>3. \A k \in 1..(n - 1) : k + 1 \in 1..n /\ 1 < k + 1 /\ t[k] = s[k + 1]
  BY <1>1
<1>4. 1 \in 1..n /\ Len(t) = n - 1 /\ Head(s) = s[1]
  BY <1>1
<1> HIDE DEF t, n
<1>5. \A k \in 1..n : s[k].by = p => low < s[k].n /\ s[k].n <= top
  BY DEF InOrder, n
<1>6. \A k, l \in 1..n : k < l /\ s[k].by = p /\ s[l].by = p => s[k].n < s[l].n
  BY DEF InOrder, n
<1>7. \A k \in 1..Len(t) : t[k].by = p => low < t[k].n /\ t[k].n <= top
  BY <1>3, <1>4, <1>5
<1>8. \A k, l \in 1..Len(t) : k < l /\ t[k].by = p /\ t[l].by = p => t[k].n < t[l].n
  <2> SUFFICES ASSUME NEW k \in 1..Len(t), NEW l \in 1..Len(t), k < l, t[k].by = p, t[l].by = p
               PROVE  t[k].n < t[l].n
    OBVIOUS
  <2>1. k + 1 \in 1..n /\ l + 1 \in 1..n /\ k + 1 < l + 1 /\ t[k] = s[k + 1] /\ t[l] = s[l + 1]
    BY <1>3, <1>4
  <2> QED BY <1>6, <2>1
<1>9. ASSUME Head(s).by = p
      PROVE  /\ low < Head(s).n /\ Head(s).n <= top
             /\ \A k \in 1..Len(t) : t[k].by = p => Head(s).n < t[k].n
  <2>1. low < s[1].n /\ s[1].n <= top
    BY <1>4, <1>5, <1>9
  <2>2. ASSUME NEW k \in 1..Len(t), t[k].by = p PROVE s[1].n < t[k].n
    BY <1>3, <1>4, <1>6, <1>9, <2>2
  <2> QED BY <1>4, <2>1, <2>2
<1>10. low <= top
  BY DEF InOrder
<1> QED BY <1>7, <1>8, <1>9, <1>10 DEF InOrder, t

\* A message of p, later than those in the channel, keeps the order; one of another
\* pusher does not matter.
LEMMA AppendInOrder ==
  ASSUME NEW s \in Seq(Message), NEW p, NEW low \in Nat, NEW top \in Int, NEW m \in Message,
         InOrder(s, p, low, top)
  PROVE  /\ m.by # p => InOrder(Append(s, m), p, low, top)
         /\ m.by = p /\ m.n > top => InOrder(Append(s, m), p, low, m.n)
<1> DEFINE t == Append(s, m)
           n == Len(s)
<1>1. /\ Len(t) = n + 1 /\ n \in Nat /\ t[n + 1] = m
      /\ \A k \in 1..n : t[k] = s[k]
  OBVIOUS
<1>2. \A k \in 1..n : s[k].n \in Nat
  BY MessageNumbers
<1>3. m.n \in Nat
  BY DEF Message
<1> HIDE DEF t, n
<1>4. /\ low <= top
      /\ \A k \in 1..n : s[k].by = p => low < s[k].n /\ s[k].n <= top
      /\ \A k, l \in 1..n : k < l /\ s[k].by = p /\ s[l].by = p => s[k].n < s[l].n
  BY DEF InOrder, n
<1>5. \A k \in 1..Len(t) : (k \in 1..n /\ t[k] = s[k]) \/ (k = n + 1 /\ t[k] = m)
  BY <1>1
<1>6. ASSUME m.by # p PROVE InOrder(t, p, low, top)
  BY <1>1, <1>4, <1>5, <1>6 DEF InOrder
<1>7. ASSUME m.by = p, m.n > top PROVE InOrder(t, p, low, m.n)
  <2>1. low <= m.n
    BY <1>3, <1>4, <1>7
  <2>2. \A k \in 1..Len(t) : t[k].by = p => low < t[k].n /\ t[k].n <= m.n
    BY <1>2, <1>3, <1>4, <1>5, <1>7
  <2>3. \A k, l \in 1..Len(t) : k < l /\ t[k].by = p /\ t[l].by = p => t[k].n < t[l].n
    BY <1>1, <1>2, <1>3, <1>4, <1>5, <1>7, SMTT(60)
  <2> QED BY <2>1, <2>2, <2>3 DEF InOrder
<1> QED BY <1>6, <1>7 DEF t

\* The numbers that the order speaks of.
LEMMA OrderTypes ==
  ASSUME TypeOK, NEW c \in Chans, NEW p \in Pushers
  PROVE  buf[c] \in Seq(Message) /\ got[c][p] \in Nat /\ num[p] \in Nat /\ Top(p, c) \in Int
  BY DEF TypeOK, Top

\* A step that leaves channels and receivers alone, after which no pusher may have
\* queued less.
LEMMA SameOrder ==
  ASSUME TypeOK, TypeOK', OrderInv, UNCHANGED <<buf, got>>,
         \A c \in Chans, p \in Pushers : Top(p, c) <= Top(p, c)'
  PROVE  OrderInv'
<1> SUFFICES ASSUME NEW c \in Chans, NEW p \in Pushers PROVE InOrder(buf[c], p, got[c][p], Top(p, c)')
  BY DEF OrderInv, InOrder
<1>1. InOrder(buf[c], p, got[c][p], Top(p, c)) /\ Top(p, c) <= Top(p, c)'
  BY DEF OrderInv
<1>2. got[c][p] \in Nat /\ Top(p, c) \in Int /\ Top(p, c)' \in Int
  BY DEF TypeOK, Top
<1>3. \A k \in 1..Len(buf[c]) : buf[c][k].n \in Nat
  BY OrderTypes, MessageNumbers
<1> QED BY <1>1, <1>2, <1>3 DEF InOrder

\* The send goroutine of p for c goes on to a step that is not its last.
LEMMA TopStays ==
  ASSUME TypeOK, NEW p \in Pushers, NEW c \in Chans, NEW from, NEW to, SendStep(p, c, from, to), from # "none"
  PROVE  /\ Top(p, c) = num[p] - 1
         /\ Top(p, c)' = IF to = "none" THEN num[p] ELSE num[p] - 1
         /\ \A d \in Chans, q \in Pushers : d # c \/ q # p => Top(q, d)' = Top(q, d)
<1>1. /\ send[p][c] = from /\ num' = num /\ send'[p][c] = to
      /\ \A d \in Chans, q \in Pushers : d # c \/ q # p => send'[q][d] = send[q][d]
  BY DEF SendStep, TypeOK
<1> QED BY <1>1 DEF Top

\* A message is queued in c by the send goroutine of p.
LEMMA QueueOrder ==
  ASSUME TypeOK, OrderInv, NEW p \in Pushers, NEW c \in Chans, NEW from, from # "none",
         SendStep(p, c, from, "none"), buf' = [buf EXCEPT ![c] = Append(@, Msg(p))], UNCHANGED got
  PROVE  OrderInv'
<1>1. Msg(p) \in Message /\ Msg(p).by = p /\ Msg(p).n = num[p]
  BY DEF Msg, Message, TypeOK
<1>2. buf'[c] = Append(buf[c], Msg(p)) /\ \A d \in Chans \ {c} : buf'[d] = buf[d]
  BY DEF TypeOK
<1>3. Top(p, c) = num[p] - 1 /\ Top(p, c)' = num[p] /\ num[p] \in Nat
      /\ \A d \in Chans, q \in Pushers : d # c \/ q # p => Top(q, d)' = Top(q, d)
  BY TopStays DEF TypeOK
<1> DEFINE m == Msg(p)
<1> HIDE DEF m
<1>4. InOrder(Append(buf[c], m), p, got[c][p], m.n) /\ m.n = num[p]
  <2>1. buf[c] \in Seq(Message) /\ got[c][p] \in Nat /\ Top(p, c) \in Int /\ m \in Message
        /\ m.by = p /\ m.n > Top(p, c) /\ m.n = num[p]
    BY <1>1, <1>3, OrderTypes DEF m
  <2>2. InOrder(buf[c], p, got[c][p], Top(p, c))
    BY DEF OrderInv
  <2> QED BY <2>1, <2>2, AppendInOrder
<1>5. ASSUME NEW q \in Pushers, q # p PROVE InOrder(Append(buf[c], m), q, got[c][q], Top(q, c))
  <2>1. buf[c] \in Seq(Message) /\ got[c][q] \in Nat /\ Top(q, c) \in Int /\ m \in Message /\ m.by # q
    BY <1>1, <1>5, OrderTypes DEF m
  <2>2. InOrder(buf[c], q, got[c][q], Top(q, c))
    BY DEF OrderInv
  <2> QED BY <2>1, <2>2, AppendInOrder
<1>6. ASSUME NEW d \in Chans, NEW q \in Pushers PROVE InOrder(buf'[d], q, got'[d][q], Top(q, d)')
  <2>1. CASE d # c
    <3>1. buf'[d] = buf[d] /\ Top(q, d)' = Top(q, d) /\ got'[d][q] = got[d][q]
      BY <1>2, <1>3, <2>1
    <3>2. InOrder(buf[d], q, got[d][q], Top(q, d))
      BY DEF OrderInv
    <3> QED BY <3>1, <3>2
  <2>2. CASE d = c /\ q # p
    BY <1>2, <1>3, <1>5, <2>2 DEF m
  <2>3. CASE d = c /\ q = p
    BY <1>2, <1>3, <1>4, <2>3 DEF m
  <2> QED BY <2>1, <2>2, <2>3
<1> QED BY <1>6 DEF OrderInv, InOrder

\* What is received next is later than what was received before.
Later == \A c \in Chans, p \in Pushers : got'[c][p] # got[c][p] => got'[c][p] > got[c][p]

LEMMA ReceiveOrder ==
  ASSUME TypeOK, OrderInv, NEW c \in Chans, Receive(c)
  PROVE  OrderInv' /\ Later
<1> DEFINE s == buf[c]
           m == Head(s)
<1>1. s \in Seq(Message) /\ s # <<>> /\ m \in Message
  BY DEF TypeOK, Receive
<1>2. m.by \in Pushers /\ m.n \in Nat
  BY <1>1 DEF Message
<1>3. buf'[c] = Tail(s) /\ \A d \in Chans \ {c} : buf'[d] = buf[d]
  BY DEF TypeOK, Receive
<1>4. /\ got'[c][m.by] = m.n
      /\ \A d \in Chans, q \in Pushers : d # c \/ q # m.by => got'[d][q] = got[d][q]
  BY <1>2 DEF TypeOK, Receive
<1>5. \A d \in Chans, q \in Pushers : Top(q, d)' = Top(q, d)
  BY DEF Receive, Top
<1> HIDE DEF m, s
<1>6. \A q \in Pushers : /\ InOrder(Tail(s), q, got[c][q], Top(q, c))
                         /\ m.by = q => got[c][q] < m.n /\ InOrder(Tail(s), q, m.n, Top(q, c))
  <2> SUFFICES ASSUME NEW q \in Pushers
               PROVE  /\ InOrder(Tail(s), q, got[c][q], Top(q, c))
                      /\ m.by = q => got[c][q] < m.n /\ InOrder(Tail(s), q, m.n, Top(q, c))
    OBVIOUS
  <2>1. got[c][q] \in Nat /\ Top(q, c) \in Int
    BY OrderTypes
  <2>2. InOrder(s, q, got[c][q], Top(q, c))
    BY DEF OrderInv, s
  <2> QED BY <1>1, <2>1, <2>2, TailInOrder DEF m
<1>7. ASSUME NEW d \in Chans, NEW q \in Pushers
      PROVE  InOrder(buf'[d], q, got'[d][q], Top(q, d)') /\ (got'[d][q] # got[d][q] => got'[d][q] > got[d][q])
  <2>1. CASE d # c
    <3>1. buf'[d] = buf[d] /\ got'[d][q] = got[d][q] /\ Top(q, d)' = Top(q, d)
      BY <1>3, <1>4, <1>5, <2>1
    <3>2. InOrder(buf[d], q, got[d][q], Top(q, d))
      BY DEF OrderInv
    <3> QED BY <3>1, <3>2
  <2>2. CASE d = c /\ q # m.by
    BY <1>3, <1>4, <1>5, <1>6, <2>2
  <2>3. CASE d = c /\ q = m.by
    <3>1. got[c][q] \in Nat
      BY OrderTypes
    <3> QED BY <1>2, <1>3, <1>4, <1>5, <1>6, <2>3, <3>1
  <2> QED BY <2>1, <2>2, <2>3
<1> QED BY <1>7 DEF OrderInv, InOrder, Later

\* The pusher hands its message to the receiver of an unbuffered channel.
LEMMA HandOffOrder ==
  ASSUME TypeOK, OrderInv, NEW p \in Pushers, NEW c \in Chans, HandOff(p, c)
  PROVE  OrderInv' /\ Later
<1>1. Len(buf[c]) = 0 /\ UNCHANGED buf /\ num[p] \in Nat
  <2>1. Len(buf[c]) \in Nat /\ Len(buf[c]) <= Cap[c] /\ Cap[c] = 0
    BY DEF TypeOK, HandOff
  <2> QED BY <2>1 DEF HandOff, TypeOK
<1>2. /\ got'[c][p] = num[p]
      /\ \A d \in Chans, q \in Pushers : d # c \/ q # p => got'[d][q] = got[d][q]
  BY DEF TypeOK, HandOff
<1>3. SendStep(p, c, "select", "none")
  BY DEF HandOff
<1>4. Top(p, c) = num[p] - 1 /\ Top(p, c)' = num[p]
      /\ \A d \in Chans, q \in Pushers : d # c \/ q # p => Top(q, d)' = Top(q, d)
  BY <1>3, TopStays
<1>5. got[c][p] \in Nat /\ got[c][p] <= num[p] - 1
  BY <1>4, OrderTypes DEF OrderInv, InOrder
<1>6. ASSUME NEW d \in Chans, NEW q \in Pushers
      PROVE  InOrder(buf'[d], q, got'[d][q], Top(q, d)') /\ (got'[d][q] # got[d][q] => got'[d][q] > got[d][q])
  <2>1. CASE d # c \/ q # p
    <3>1. InOrder(buf[d], q, got[d][q], Top(q, d))
      BY DEF OrderInv
    <3> QED BY <1>1, <1>2, <1>4, <2>1, <3>1
  <2>2. CASE d = c /\ q = p
    <3>1. InOrder(buf[c], p, num[p], num[p])
      BY <1>1 DEF InOrder
    <3> QED BY <1>1, <1>2, <1>4, <1>5, <2>2, <3>1
  <2> QED BY <2>1, <2>2
<1> QED BY <1>6 DEF OrderInv, InOrder, Later

\* The oldest message of a full channel is thrown away.
LEMMA DrainOrder ==
  ASSUME TypeOK, OrderInv, NEW p \in Pushers, NEW c \in Chans, Drain(p, c)
  PROVE  OrderInv'
<1>1. SendStep(p, c, "drain", "resend") /\ UNCHANGED got
  BY DEF Drain
<1>2. \A d \in Chans, q \in Pushers : Top(q, d)' = Top(q, d)
  <2>1. Top(p, c)' = num[p] - 1 /\ Top(p, c) = num[p] - 1
        /\ \A d \in Chans, q \in Pushers : d # c \/ q # p => Top(q, d)' = Top(q, d)
    BY <1>1, TopStays
  <2> QED BY <2>1
<1>3. buf'[c] = Tail(buf[c]) /\ buf[c] # <<>> /\ \A d \in Chans \ {c} : buf'[d] = buf[d]
  BY DEF TypeOK, Drain
<1>4. ASSUME NEW d \in Chans, NEW q \in Pushers PROVE InOrder(buf'[d], q, got'[d][q], Top(q, d)')
  <2>1. InOrder(buf[d], q, got[d][q], Top(q, d))
    BY DEF OrderInv
  <2>2. CASE d # c
    BY <1>1, <1>2, <1>3, <2>1, <2>2
  <2>3. CASE d = c
    <3>1. buf[c] \in Seq(Message) /\ got[c][q] \in Nat /\ Top(q, c) \in Int
      BY OrderTypes
    <3>2. InOrder(Tail(buf[c]), q, got[c][q], Top(q, c))
      BY <1>3, <2>1, <2>3, <3>1, TailInOrder
    <3> QED BY <1>1, <1>2, <1>3, <2>3, <3>2
  <2> QED BY <2>2, <2>3
<1> QED BY <1>4 DEF OrderInv, InOrder

\* The send goroutine waits, finds the channel full or skips its message.
LEMMA WaitOrder ==
  ASSUME TypeOK, TypeOK', OrderInv, NEW p \in Pushers, NEW c \in Chans, NEW from, NEW to, from # "none",
         SendStep(p, c, from, to), UNCHANGED <<buf, got>>
  PROVE  OrderInv'
<1>1. Top(p, c) = num[p] - 1 /\ Top(p, c)' = (IF to = "none" THEN num[p] ELSE num[p] - 1) /\ num[p] \in Nat
      /\ \A d \in Chans, q \in Pushers : d # c \/ q # p => Top(q, d)' = Top(q, d)
  BY TopStays DEF TypeOK
<1>2. \A d \in Chans, q \in Pushers : Top(q, d) \in Int
  BY OrderTypes
<1>3. \A d \in Chans, q \in Pushers : Top(q, d) <= Top(q, d)'
  BY <1>1, <1>2
<1> QED BY <1>3, SameOrder

\* The order is kept by every step, and a step receives only what is later.
LEMMA NextOrder ==
  ASSUME TypeOK, OrderInv, [Next]_vars
  PROVE  OrderInv' /\ Later
<1>t. TypeOK'
  BY NextType
<1>i. \A c \in Chans, p \in Pushers : Top(p, c) \in Int
  BY OrderTypes
<1>g. UNCHANGED got => Later
  BY DEF Later
<1>1. ASSUME UNCHANGED <<buf, got, num, send>> PROVE OrderInv' /\ Later
  <2>1. \A c \in Chans, p \in Pushers : Top(p, c) <= Top(p, c)'
    BY <1>1, <1>i DEF Top
  <2> QED BY <1>1, <1>t, <1>g, <2>1, SameOrder
<1>2. ASSUME NEW c \in Chans, Subscriber(c) PROVE OrderInv' /\ Later
  <2>1. CASE Receive(c)
    BY <2>1, ReceiveOrder
  <2>2. CASE ~Receive(c)
    BY <1>1, <1>2, <2>2 DEF Subscriber, CallOn, On, CallOff, Off
  <2> QED BY <2>1, <2>2
<1>3. CASE CallDestroy \/ Destroy
  BY <1>1, <1>3 DEF CallDestroy, Destroy
<1>4. ASSUME NEW p \in Pushers, Push(p) PROVE OrderInv' /\ Later
  <2>1. /\ UNCHANGED <<buf, got>> /\ num'[p] = num[p] + 1 /\ num[p] \in Nat
        /\ \A q \in Pushers \ {p} : num'[q] = num[q] /\ send'[q] = send[q]
    BY <1>4 DEF Push, TypeOK
  <2>2. \A c \in Chans : Top(p, c) <= Top(p, c)'
    BY <2>1 DEF Top
  <2>3. \A c \in Chans, q \in Pushers \ {p} : Top(q, c)' = Top(q, c)
    BY <2>1 DEF Top
  <2>4. \A c \in Chans, q \in Pushers : Top(q, c) <= Top(q, c)'
    BY <1>i, <2>2, <2>3
  <2> QED BY <1>t, <1>g, <2>1, <2>4, SameOrder
<1>5. ASSUME NEW p \in Pushers, Return(p) PROVE OrderInv' /\ Later
  BY <1>1, <1>5 DEF Return
<1>6. ASSUME NEW p \in Pushers, NEW c \in Chans, Sender(p, c) PROVE OrderInv' /\ Later
  <2>1. CASE Send(p, c)
    BY <1>g, <2>1, QueueOrder DEF Send
  <2>2. CASE Resend(p, c)
    BY <1>g, <2>2, QueueOrder DEF Resend
  <2>3. CASE HandOff(p, c)
    BY <2>3, HandOffOrder
  <2>4. CASE Drain(p, c)
    BY <1>g, <2>4, DrainOrder DEF Drain
  <2>5. CASE Timeout(p, c)
    BY <1>g, <1>t, <2>5, WaitOrder DEF Timeout
  <2>6. CASE Skip(p, c)
    BY <1>g, <1>t, <2>6, WaitOrder DEF Skip
  <2>7. CASE SeesFull(p, c)
    BY <1>g, <1>t, <2>7, WaitOrder DEF SeesFull
  <2> QED BY <1>6, <2>1, <2>2, <2>3, <2>4, <2>5, <2>6, <2>7 DEF Sender
<1>7. CASE UNCHANGED vars
  BY <1>1, <1>7 DEF vars
<1> QED BY <1>2, <1>3, <1>4, <1>5, <1>6, <1>7 DEF Next

LEMMA InitOrder == Init => OrderInv
  BY DEF Init, OrderInv, InOrder, Top

\* A subscriber sees the messages of one pusher in the order they were pushed, for any
\* number of pushers and channels and any capacities: Push drops the oldest message of
\* a full channel, and never reorders or repeats one.
THEOREM PushedInOrder == Spec => ReceivedInOrder
<1>1. Init => TypeOK /\ OrderInv
  BY InitType, InitOrder
<1>2. TypeOK /\ OrderInv /\ [Next]_vars => TypeOK' /\ OrderInv' /\ Later
  BY NextType, NextOrder
<1>3. Later => [\A c \in Chans, p \in Pushers : got'[c][p] # got[c][p] => got'[c][p] > got[c][p]]_vars
  BY DEF Later
<1> QED BY <1>1, <1>2, <1>3, PTL DEF Spec, ReceivedInOrder

-----------------------------------------------------------------------------
(* Sums over finite sets.                                                   *)

\* Induction over the subsets of a finite set.
LEMMA SetInduction ==
  ASSUME NEW S, IsFiniteSet(S), NEW Q,
         \A T \in SUBSET S : (\A U \in SUBSET T : U # T => U \in Q) => T \in Q
  PROVE  S \in Q
<1> DEFINE N == {T \in SUBSET S : T \notin Q}
<1> SUFFICES ASSUME N # {} PROVE FALSE OBVIOUS
<1>1. IsWellFoundedOn(StrictSubsetOrdering(S), SUBSET S)
  <2>1. FiniteSubsetsOf(S) = SUBSET S BY FS_FiniteSubsetsOfFinite
  <2>2. IsWellFoundedOn(StrictSubsetOrdering(S), FiniteSubsetsOf(S))
    BY FS_StrictSubsetOrderingWellFounded
  <2>3. QED BY <2>1, <2>2, Zenon
<1>2. N \subseteq SUBSET S OBVIOUS
<1> HIDE DEF N
<1>3. \E T \in N : \A U \in N : ~(<<U, T>> \in StrictSubsetOrdering(S))
  BY <1>1, <1>2, WFMin
<1>4. PICK T \in N : \A U \in N : ~(<<U, T>> \in StrictSubsetOrdering(S)) BY <1>3
<1>5. ASSUME NEW U \in SUBSET T, U # T PROVE U \in Q
  <2>1. U \in SUBSET S /\ T \in SUBSET S BY <1>2
  <2>2. <<U, T>> \in StrictSubsetOrdering(S) BY <1>5, <2>1 DEF StrictSubsetOrdering
  <2>3. U \notin N BY <1>4, <2>2
  <2>4. QED BY <2>1, <2>3 DEF N
<1>6. T \in Q BY <1>5, <1>2
<1>7. QED BY <1>6 DEF N

\* The function it adds up the values of f over the subsets of S, in the order
\* in which CHOOSE takes them.
Adds(it, f, S) ==
  it = [T \in SUBSET S |-> IF T = {} THEN 0
                           ELSE LET x == CHOOSE x \in T : TRUE IN f[x] + it[T \ {x}]]

\* A sum over a set is the value of the function MapThenFoldSet picks.
LEMMA SumIs ==
  ASSUME NEW f, NEW S
  PROVE  SumFunctionOnSet(f, S) = (CHOOSE it : Adds(it, f, S))[S]
<1>1. SumFunctionOnSet(f, S) =
           (CHOOSE it :
              it = [T \in SUBSET S |-> IF T = {} THEN 0
                                       ELSE LET x == CHOOSE x \in T : TRUE IN f[x] + it[T \ {x}]])[S]
  BY DEF SumFunctionOnSet, FoldFunctionOnSet, MapThenFoldSet
<1>2. QED BY <1>1, Zenon DEF Adds

\* The member of a set that a fold takes first.
Pick(T) == CHOOSE x \in T : TRUE

\* What such a function is at a set.
LEMMA AddsAt ==
  ASSUME NEW f, NEW S, NEW it, Adds(it, f, S), NEW T \in SUBSET S
  PROVE  it[T] = IF T = {} THEN 0 ELSE f[Pick(T)] + it[T \ {Pick(T)}]
<1> DEFINE ff == [U \in SUBSET S |-> IF U = {} THEN 0
                           ELSE LET x == CHOOSE x \in U : TRUE IN f[x] + it[U \ {x}]]
<1>1. ff[T] = IF T = {} THEN 0 ELSE f[Pick(T)] + it[T \ {Pick(T)}]
  BY DEF Pick
<1>2. it = ff BY Zenon DEF Adds
<1> HIDE DEF ff
<1>3. QED BY <1>1, <1>2

\* Two such functions agree.
LEMMA AddsAgree ==
  ASSUME NEW f, NEW A, NEW B, NEW g, NEW h, Adds(g, f, A), Adds(h, f, B),
         NEW S, IsFiniteSet(S), S \subseteq A, S \subseteq B
  PROVE  g[S] = h[S]
<1> DEFINE Q == {T \in SUBSET S : g[T] = h[T]}
<1>1. ASSUME NEW T \in SUBSET S, \A U \in SUBSET T : U # T => U \in Q PROVE T \in Q
  <2>1. T \in SUBSET A /\ T \in SUBSET B OBVIOUS
  <2>2. g[T] = IF T = {} THEN 0 ELSE f[Pick(T)] + g[T \ {Pick(T)}] BY <2>1, AddsAt
  <2>3. h[T] = IF T = {} THEN 0 ELSE f[Pick(T)] + h[T \ {Pick(T)}] BY <2>1, AddsAt
  <2>4. CASE T = {} BY <2>2, <2>3, <2>4
  <2>5. CASE T # {}
    <3>1. Pick(T) \in T BY <2>5 DEF Pick
    <3>2. T \ {Pick(T)} \in Q BY <3>1, <1>1
    <3>3. QED BY <3>2, <2>2, <2>3, <2>5
  <2>6. QED BY <2>4, <2>5
<1> HIDE DEF Q
<1>2. S \in Q BY <1>1, SetInduction
<1>3. QED BY <1>2 DEF Q

\* There is such a function on the subsets of a finite set.
LEMMA AddsExists ==
  ASSUME NEW f, NEW S, IsFiniteSet(S)
  PROVE  Adds(CHOOSE it : Adds(it, f, S), f, S)
<1> DEFINE It(T) == CHOOSE it : Adds(it, f, T)
<1> DEFINE Q == {T \in SUBSET S : Adds(It(T), f, T)}
<1> SUFFICES S \in Q OBVIOUS
<1>1. ASSUME NEW T \in SUBSET S, \A U \in SUBSET T : U # T => U \in Q PROVE T \in Q
  <2> DEFINE V(U) == IF U = {} THEN 0 ELSE f[Pick(U)] + It(U \ {Pick(U)})[U \ {Pick(U)}]
  <2> DEFINE g == [U \in SUBSET T |-> V(U)]
  <2>1. ASSUME NEW U \in SUBSET T, U # {} PROVE g[U \ {Pick(U)}] = It(U \ {Pick(U)})[U \ {Pick(U)}]
    <3> DEFINE W == U \ {Pick(U)}
    <3>1. Pick(U) \in U BY <2>1 DEF Pick
    <3>2. W \in SUBSET T /\ W # T BY <3>1
    <3>3. W \in Q BY <3>2, <1>1
    <3>4. g[W] = V(W) BY <3>2
    <3>5. Adds(It(W), f, W) BY <3>3
    <3> HIDE DEF It
    <3>6. It(W)[W] = IF W = {} THEN 0 ELSE f[Pick(W)] + It(W)[W \ {Pick(W)}]
      <4> HIDE DEF W
      <4>1. W \in SUBSET W OBVIOUS
      <4>2. QED BY <3>5, <4>1, AddsAt
    <3>7. CASE W = {} BY <3>4, <3>6, <3>7
    <3>8. CASE W # {}
      <4> DEFINE X == W \ {Pick(W)}
      <4>1. Pick(W) \in W BY <3>8 DEF Pick
      <4>2. X \in SUBSET T /\ X # T BY <4>1, <3>2
      <4>3. Adds(It(X), f, X)
        <5> HIDE DEF X
        <5>1. QED BY <4>2, <1>1
      <4>4. IsFiniteSet(X) BY <4>2, FS_Subset
      <4>5. X \subseteq W /\ X \subseteq X OBVIOUS
      <4>6. It(W)[X] = It(X)[X]
        <5> HIDE DEF X, W
        <5>1. QED BY <3>5, <4>3, <4>4, <4>5, AddsAgree
      <4>7. V(W) = f[Pick(W)] + It(X)[X] BY <3>8
      <4>8. QED BY <4>7, <4>6, <3>4, <3>6, <3>8
    <3>9. QED BY <3>7, <3>8
  <2>2. ASSUME NEW U \in SUBSET T
        PROVE  V(U) = IF U = {} THEN 0 ELSE LET x == CHOOSE x \in U : TRUE IN f[x] + g[U \ {x}]
    <3> HIDE DEF g, It
    <3>1. CASE U = {} BY <3>1
    <3>2. CASE U # {} BY <3>2, <2>1 DEF Pick
    <3>3. QED BY <3>1, <3>2
  <2>3. g = [U \in SUBSET T |-> IF U = {} THEN 0
                           ELSE LET x == CHOOSE x \in U : TRUE IN f[x] + g[U \ {x}]]
    <3>1. g = [U \in SUBSET T |-> V(U)] OBVIOUS
    <3> HIDE DEF V, g, It
    <3>2. QED BY <3>1, <2>2, Zenon
  <2>4. Adds(g, f, T)
    <3> HIDE DEF g, V, It
    <3>1. QED BY <2>3, Zenon DEF Adds
  <2>5. Adds(It(T), f, T)
    <3> HIDE DEF g
    <3>1. \E it : Adds(it, f, T) BY <2>4
    <3>2. QED BY <3>1, Zenon
  <2>6. QED BY <2>5
<1> HIDE DEF Q, It
<1>2. QED BY <1>1, SetInduction

\* The sum over nothing.
LEMMA SumEmpty == ASSUME NEW f PROVE SumFunctionOnSet(f, {}) = 0
<1>1. IsFiniteSet({}) BY FS_EmptySet
<1> DEFINE it == CHOOSE it : Adds(it, f, {})
<1>2. Adds(it, f, {}) BY <1>1, AddsExists
<1>3. SumFunctionOnSet(f, {}) = it[{}] BY SumIs
<1> HIDE DEF it
<1>4. QED BY <1>2, <1>3, AddsAt

\* The sum over a set is that of one element and the rest.
LEMMA SumPick ==
  ASSUME NEW f, NEW S, IsFiniteSet(S), S # {}
  PROVE  Pick(S) \in S /\ SumFunctionOnSet(f, S) = f[Pick(S)] + SumFunctionOnSet(f, S \ {Pick(S)})
<1> DEFINE x == Pick(S)
<1> DEFINE R == S \ {x}
<1> DEFINE is == CHOOSE it : Adds(it, f, S)
<1> DEFINE ir == CHOOSE it : Adds(it, f, R)
<1>1. x \in S BY DEF Pick
<1>2. IsFiniteSet(R) BY FS_RemoveElement
<1>3. SumFunctionOnSet(f, S) = is[S] BY SumIs
<1>4. SumFunctionOnSet(f, R) = ir[R]
  <2> HIDE DEF R
  <2>1. QED BY SumIs
<1>5. Adds(is, f, S) BY AddsExists
<1>6. Adds(ir, f, R)
  <2> HIDE DEF R
  <2>1. QED BY <1>2, AddsExists
<1>7. is[S] = f[x] + is[R]
  <2> HIDE DEF is
  <2>1. S \in SUBSET S OBVIOUS
  <2>2. QED BY <2>1, <1>5, AddsAt
<1>8. is[R] = ir[R]
  <2>1. R \subseteq S /\ R \subseteq R OBVIOUS
  <2> HIDE DEF is, ir, R
  <2>2. QED BY <2>1, <1>5, <1>6, <1>2, AddsAgree
<1>9. SumFunctionOnSet(f, S) = f[x] + SumFunctionOnSet(f, S \ {x}) BY <1>3, <1>4, <1>7, <1>8
<1>10. QED BY <1>9, <1>1

\* A sum takes one member at a time.
LEMMA SumStep ==
  ASSUME NEW f, NEW S, IsFiniteSet(S), S # {}
  PROVE  \E x \in S : SumFunctionOnSet(f, S) = f[x] + SumFunctionOnSet(f, S \ {x})
  BY SumPick

\* A sum of integers is an integer.
LEMMA SumInt ==
  ASSUME NEW f, NEW S, IsFiniteSet(S), \A x \in S : f[x] \in Int
  PROVE  SumFunctionOnSet(f, S) \in Int
<1> DEFINE Q == {T \in SUBSET S : SumFunctionOnSet(f, T) \in Int}
<1>1. ASSUME NEW T \in SUBSET S, \A U \in SUBSET T : U # T => U \in Q PROVE T \in Q
  <2>1. CASE T = {} BY <2>1, SumEmpty
  <2>2. CASE T # {}
    <3>1. IsFiniteSet(T) BY FS_Subset
    <3>2. PICK x \in T : SumFunctionOnSet(f, T) = f[x] + SumFunctionOnSet(f, T \ {x}) BY <2>2, <3>1, SumStep
    <3>3. T \ {x} \in Q BY <1>1
    <3>4. QED BY <3>2, <3>3
  <2>3. QED BY <2>1, <2>2
<1> HIDE DEF Q
<1>2. S \in Q BY <1>1, SetInduction
<1>3. QED BY <1>2 DEF Q

\* The order of the summands does not matter: any of them can be taken first.
LEMMA SumRemove ==
  ASSUME NEW f, NEW S, IsFiniteSet(S), \A x \in S : f[x] \in Int, NEW z \in S
  PROVE  SumFunctionOnSet(f, S) = f[z] + SumFunctionOnSet(f, S \ {z})
<1> DEFINE Sum(T) == SumFunctionOnSet(f, T)
<1> DEFINE Q == {T \in SUBSET S : \A y \in T : Sum(T) = f[y] + Sum(T \ {y})}
<1> HIDE DEF Sum
<1>1. ASSUME NEW T \in SUBSET S, \A U \in SUBSET T : U # T => U \in Q, NEW y \in T
      PROVE  Sum(T) = f[y] + Sum(T \ {y})
  <2>1. IsFiniteSet(T) BY FS_Subset
  <2>2. PICK x \in T : Sum(T) = f[x] + Sum(T \ {x}) BY <2>1, SumStep DEF Sum
  <2>3. CASE x = y BY <2>2, <2>3
  <2>4. CASE x # y
    <3> DEFINE R == (T \ {x}) \ {y}
    <3>1. R = (T \ {y}) \ {x} OBVIOUS
    <3>2. T \ {x} \in Q /\ T \ {y} \in Q BY <1>1
    <3>3. Sum(T \ {x}) = f[y] + Sum(R) BY <3>2, <2>4
    <3>4. Sum(T \ {y}) = f[x] + Sum(R)
      <4> HIDE DEF R
      <4>1. QED BY <3>1, <3>2, <2>4
    <3>5. Sum(R) \in Int
      <4>1. IsFiniteSet(R) /\ \A u \in R : f[u] \in Int BY <2>1, FS_RemoveElement
      <4> HIDE DEF R
      <4>2. QED BY <4>1, SumInt DEF Sum
    <3> HIDE DEF R
    <3>6. QED BY <2>2, <3>3, <3>4, <3>5
  <2>5. QED BY <2>3, <2>4
<1> HIDE DEF Q
<1>2. ASSUME NEW T \in SUBSET S, \A U \in SUBSET T : U # T => U \in Q PROVE T \in Q
  BY <1>1, <1>2 DEF Q
<1>3. S \in Q BY <1>2, SetInduction
<1>4. QED BY <1>3 DEF Q, Sum

\* Sums of the same values are the same.
LEMMA SumSame ==
  ASSUME NEW f, NEW g, NEW S, IsFiniteSet(S), \A x \in S : f[x] = g[x]
  PROVE  SumFunctionOnSet(f, S) = SumFunctionOnSet(g, S)
<1> DEFINE Q == {T \in SUBSET S : SumFunctionOnSet(f, T) = SumFunctionOnSet(g, T)}
<1>1. ASSUME NEW T \in SUBSET S, \A U \in SUBSET T : U # T => U \in Q
      PROVE  SumFunctionOnSet(f, T) = SumFunctionOnSet(g, T)
  <2>1. CASE T = {} BY <2>1, SumEmpty
  <2>2. CASE T # {}
    <3> DEFINE x == Pick(T)
    <3>1. x \in T BY <2>2 DEF Pick
    <3>2. IsFiniteSet(T) BY FS_Subset
    <3>3. SumFunctionOnSet(f, T) = f[x] + SumFunctionOnSet(f, T \ {x}) BY <2>2, <3>2, SumPick
    <3>4. SumFunctionOnSet(g, T) = g[x] + SumFunctionOnSet(g, T \ {x}) BY <2>2, <3>2, SumPick
    <3> HIDE DEF x
    <3>5. T \ {x} \in Q BY <1>1, <3>1
    <3>6. QED BY <3>1, <3>3, <3>4, <3>5
  <2>3. QED BY <2>1, <2>2
<1>2. ASSUME NEW T \in SUBSET S, \A U \in SUBSET T : U # T => U \in Q PROVE T \in Q
  BY <1>1, <1>2
<1> HIDE DEF Q
<1>3. S \in Q BY <1>2, SetInduction
<1>4. QED BY <1>3 DEF Q

\* When one summand changes, the sum changes by as much.
LEMMA SumChange ==
  ASSUME NEW f, NEW g, NEW S, IsFiniteSet(S), NEW z \in S,
         \A x \in S : f[x] \in Int, \A x \in S : g[x] \in Int,
         \A x \in S : x # z => f[x] = g[x]
  PROVE  SumFunctionOnSet(g, S) = SumFunctionOnSet(f, S) + g[z] - f[z]
<1> DEFINE R == S \ {z}
<1>1. SumFunctionOnSet(g, S) = g[z] + SumFunctionOnSet(g, R) BY SumRemove
<1>2. SumFunctionOnSet(f, S) = f[z] + SumFunctionOnSet(f, R) BY SumRemove
<1>3. IsFiniteSet(R) /\ (\A x \in R : f[x] \in Int) /\ (\A x \in R : f[x] = g[x]) BY FS_RemoveElement
<1>4. f[z] \in Int /\ g[z] \in Int OBVIOUS
<1> HIDE DEF R
<1>5. SumFunctionOnSet(f, R) = SumFunctionOnSet(g, R) BY <1>3, SumSame
<1>6. SumFunctionOnSet(f, R) \in Int BY <1>3, SumInt
<1>7. QED BY <1>1, <1>2, <1>4, <1>5, <1>6

\* A sum of naturals is one.
LEMMA SumNat ==
  ASSUME NEW f, NEW S, IsFiniteSet(S), \A x \in S : f[x] \in Nat
  PROVE  SumFunctionOnSet(f, S) \in Nat
<1> DEFINE Q == {T \in SUBSET S : SumFunctionOnSet(f, T) \in Nat}
<1>1. ASSUME NEW T \in SUBSET S, \A U \in SUBSET T : U # T => U \in Q PROVE T \in Q
  <2>1. CASE T = {} BY <2>1, SumEmpty
  <2>2. CASE T # {}
    <3>1. IsFiniteSet(T) BY FS_Subset
    <3>2. PICK x \in T : SumFunctionOnSet(f, T) = f[x] + SumFunctionOnSet(f, T \ {x}) BY <2>2, <3>1, SumStep
    <3>3. T \ {x} \in Q BY <1>1
    <3>4. QED BY <3>2, <3>3
  <2>3. QED BY <2>1, <2>2
<1> HIDE DEF Q
<1>2. S \in Q BY <1>1, SetInduction
<1>3. QED BY <1>2 DEF Q

\* A sum of zeros.
LEMMA SumZero ==
  ASSUME NEW f, NEW S, IsFiniteSet(S), \A x \in S : f[x] = 0
  PROVE  SumFunctionOnSet(f, S) = 0
<1> DEFINE Q == {T \in SUBSET S : SumFunctionOnSet(f, T) = 0}
<1>1. ASSUME NEW T \in SUBSET S, \A U \in SUBSET T : U # T => U \in Q PROVE T \in Q
  <2>1. CASE T = {} BY <2>1, SumEmpty
  <2>2. CASE T # {}
    <3>1. IsFiniteSet(T) BY FS_Subset
    <3>2. PICK x \in T : SumFunctionOnSet(f, T) = f[x] + SumFunctionOnSet(f, T \ {x}) BY <2>2, <3>1, SumStep
    <3>3. T \ {x} \in Q BY <1>1
    <3>4. QED BY <3>2, <3>3
  <2>3. QED BY <2>1, <2>2
<1> HIDE DEF Q
<1>2. S \in Q BY <1>1, SetInduction
<1>3. QED BY <1>2 DEF Q

\* A sum is at most the number of summands times their bound.
LEMMA SumBound ==
  ASSUME NEW f, NEW S, IsFiniteSet(S), NEW b \in Nat,
         \A x \in S : f[x] \in Int /\ f[x] <= b
  PROVE  SumFunctionOnSet(f, S) <= Cardinality(S) * b
<1> DEFINE Q == {T \in SUBSET S : SumFunctionOnSet(f, T) <= Cardinality(T) * b}
<1>1. ASSUME NEW T \in SUBSET S, \A U \in SUBSET T : U # T => U \in Q
      PROVE  SumFunctionOnSet(f, T) <= Cardinality(T) * b
  <2>1. CASE T = {}
    <3>1. SumFunctionOnSet(f, T) = 0 /\ Cardinality(T) = 0 BY <2>1, SumEmpty, FS_EmptySet
    <3>2. QED BY <3>1
  <2>2. CASE T # {}
    <3>1. IsFiniteSet(T) BY FS_Subset
    <3>2. PICK x \in T : SumFunctionOnSet(f, T) = f[x] + SumFunctionOnSet(f, T \ {x}) BY <2>2, <3>1, SumStep
    <3>3. T \ {x} \in Q BY <1>1
    <3>4. Cardinality(T \ {x}) = Cardinality(T) - 1 /\ IsFiniteSet(T \ {x}) BY <3>1, FS_RemoveElement
    <3>5. Cardinality(T) \in Nat BY <3>1, FS_CardinalityType
    <3> DEFINE c == Cardinality(T)  s == SumFunctionOnSet(f, T \ {x})
    <3>6. s \in Int
      <4> DEFINE R == T \ {x}
      <4>1. IsFiniteSet(R) /\ \A u \in R : f[u] \in Int BY <3>4
      <4> HIDE DEF R
      <4>2. SumFunctionOnSet(f, R) \in Int BY <4>1, SumInt
      <4>3. QED BY <4>2 DEF R
    <3>7. s <= (c - 1) * b BY <3>3, <3>4
    <3>8. (c - 1) * b = c * b - b /\ c * b \in Int BY <3>5
    <3>9. f[x] \in Int /\ f[x] <= b OBVIOUS
    <3> HIDE DEF c, s
    <3>10. f[x] + s <= c * b BY <3>6, <3>7, <3>8, <3>9
    <3>11. QED BY <3>10, <3>2 DEF c, s
  <2>3. QED BY <2>1, <2>2
<1>2. ASSUME NEW T \in SUBSET S, \A U \in SUBSET T : U # T => U \in Q PROVE T \in Q
  BY <1>1, <1>2
<1> HIDE DEF Q
<1>3. S \in Q BY <1>2, SetInduction
<1>4. QED BY <1>3 DEF Q

\* What claims of S are for, each for at most one element of D and no two for
\* the same, is at most what D has.
LEMMA SumInject ==
  ASSUME NEW S, IsFiniteSet(S), NEW D, IsFiniteSet(D), NEW g, NEW d, NEW F,
         \A v \in S : g[v] \in Int, \A e \in D : d[e] \in Nat,
         \A v \in S : g[v] > 0 => F[v] \in D /\ g[v] <= d[F[v]],
         \A u, v \in S : u # v /\ g[u] > 0 /\ g[v] > 0 => F[u] # F[v]
  PROVE  SumFunctionOnSet(g, S) <= SumFunctionOnSet(d, D)
<1> DEFINE Q == {T \in SUBSET S : \A E \in SUBSET D :
                    (\A v \in T : g[v] > 0 => F[v] \in E) => SumFunctionOnSet(g, T) <= SumFunctionOnSet(d, E)}
<1>1. ASSUME NEW T \in SUBSET S, \A U \in SUBSET T : U # T => U \in Q,
             NEW E \in SUBSET D, \A v \in T : g[v] > 0 => F[v] \in E
      PROVE  SumFunctionOnSet(g, T) <= SumFunctionOnSet(d, E)
  <2>1. IsFiniteSet(E) BY FS_Subset
  <2>2. SumFunctionOnSet(d, E) \in Nat BY <2>1, SumNat
  <2>3. CASE T = {}
    <3>1. SumFunctionOnSet(g, T) = 0 BY <2>3, SumEmpty
    <3>2. QED BY <3>1, <2>2
  <2>4. CASE T # {}
    <3>1. IsFiniteSet(T) BY FS_Subset
    <3>2. PICK x \in T : SumFunctionOnSet(g, T) = g[x] + SumFunctionOnSet(g, T \ {x}) BY <2>4, <3>1, SumStep
    <3> DEFINE R == T \ {x}
    <3>3. R \in Q BY <1>1
    <3>4. SumFunctionOnSet(g, R) \in Int
      <4>1. IsFiniteSet(R) /\ \A u \in R : g[u] \in Int BY <3>1, FS_RemoveElement
      <4> HIDE DEF R
      <4>2. QED BY <4>1, SumInt
    <3>5. g[x] \in Int OBVIOUS
    <3>6. CASE g[x] > 0
      <4> DEFINE E2 == E \ {F[x]}
      <4>1. F[x] \in E /\ g[x] <= d[F[x]] /\ d[F[x]] \in Nat BY <3>6, <1>1
      <4>2. E2 \in SUBSET D /\ \A v \in R : g[v] > 0 => F[v] \in E2 BY <1>1, <3>6
      <4>3. IsFiniteSet(E2) /\ \A e \in E2 : d[e] \in Nat BY <2>1, FS_RemoveElement
      <4>4. SumFunctionOnSet(d, E) = d[F[x]] + SumFunctionOnSet(d, E2)
        <5>1. \A e \in E : d[e] \in Int OBVIOUS
        <5>2. QED BY <2>1, <4>1, <5>1, SumRemove
      <4> HIDE DEF E2, R
      <4>5. SumFunctionOnSet(d, E2) \in Nat BY <4>3, SumNat
      <4>6. SumFunctionOnSet(g, R) <= SumFunctionOnSet(d, E2) BY <3>3, <4>2
      <4>7. SumFunctionOnSet(g, T) = g[x] + SumFunctionOnSet(g, R) BY <3>2 DEF R
      <4>8. QED BY <4>1, <4>4, <4>5, <4>6, <4>7, <3>4, <3>5
    <3>7. CASE ~(g[x] > 0)
      <4>1. \A v \in R : g[v] > 0 => F[v] \in E BY <1>1
      <4>2. SumFunctionOnSet(g, R) <= SumFunctionOnSet(d, E)
        <5> HIDE DEF R
        <5>1. QED BY <3>3, <4>1
      <4>3. SumFunctionOnSet(g, T) = g[x] + SumFunctionOnSet(g, R) BY <3>2
      <4> HIDE DEF R
      <4>4. QED BY <4>2, <4>3, <2>2, <3>4, <3>5, <3>7
    <3>8. QED BY <3>6, <3>7
  <2>5. QED BY <2>3, <2>4
<1>2. ASSUME NEW T \in SUBSET S, \A U \in SUBSET T : U # T => U \in Q PROVE T \in Q
  BY <1>1, <1>2
<1> HIDE DEF Q
<1>3. S \in Q BY <1>2, SetInduction
<1>4. QED BY <1>3 DEF Q

-----------------------------------------------------------------------------
(* The disk quota: types.                                                   *)

\* What a request is at each of its places.
Fine(o) ==
  /\ o.at = "idle" => o = NoOp
  /\ o.at = "check" => o.kind \in {"write", "copy", "inflate"}
  /\ o.at = "touch" => o.kind = "write"
  /\ o.at = "suffix" => o.kind = "copy"
  /\ o.at = "open" => o.kind \in {"copy", "compress"}
  /\ o.at = "copy" => o.kind \in {"write", "copy", "compress"}
  /\ o.at = "fit" => o.kind = "compress"
  /\ o.at = "chunk" => o.kind = "inflate"
  /\ o.at \in {"load", "zero", "add"}
       => o.kind \in {"write", "copy", "compress", "inflate", "remove", "unlinkat"}
  /\ o.at = "lstat" => o.kind \in {"remove", "compress"}
  /\ o.at = "unlink" => o.kind \in {"remove", "unlinkat", "compress"}
  /\ o.at = "rename" => o.kind = "rename" /\ o.to \in Files
  /\ o.at = "reset" => o.kind = "truncate"
  /\ o.at = "put" => o.kind = "sftp"
  /\ o.at \notin {"idle", "check", "suffix", "reset"} => o.file \in Files
  /\ o.at = "check" /\ o.kind # "copy" => o.file \in Files
  /\ o.at \in {"check", "chunk"} /\ o.kind = "inflate" => o.cur < o.len

\* The types, in parts that the actions change separately.
DiskType == DOMAIN disk \subseteq Files /\ \A f \in DOMAIN disk : disk[f] \in Sizes
CountType == usage \in Int /\ begun \in 0..MaxOps
RestType ==
  /\ limit \in Limits /\ lookupInProgress \in BOOLEAN /\ fresh \in BOOLEAN
  /\ look \in [Lookers -> {"idle", "wait", "walk"}]
  /\ todo \subseteq Files /\ sum \in Nat
  /\ drift \in {"never", "now", "healed"} /\ undisturbed \in BOOLEAN
OpType == op \in [Workers -> Requests] /\ \A w \in Workers : Fine(op[w])

\* The helpers of the actions keep the types.
LEMMA PutType ==
  ASSUME DiskType, NEW f \in Files, NEW n \in Sizes, Put(f, n)
  PROVE  DiskType'
  BY DEF DiskType, Put

\* A file that grows stays within the sizes.
LEMMA GrowType ==
  ASSUME DiskType, NEW w \in Workers, NEW n \in Sizes, Grow(w, n)
  PROVE  DiskType'
  BY DEF DiskType, Grow

\* A directory without some files is one.
LEMMA WithoutType ==
  ASSUME DiskType, NEW gone, Without(gone)
  PROVE  DiskType'
  BY DEF DiskType, Without

\* A request of the right type may be put in place.
LEMMA SetType ==
  ASSUME OpType, NEW w \in Workers, NEW r \in Requests, Fine(r), op' = [op EXCEPT ![w] = r]
  PROVE  OpType'
<1>1. op' \in [Workers -> Requests] BY DEF OpType
<1>2. \A v \in Workers : op'[v] = r \/ op'[v] = op[v] BY DEF OpType
<1>3. \A v \in Workers : Fine(op'[v]) BY <1>2 DEF OpType
<1>4. QED BY <1>1, <1>3 DEF OpType, Fine

\* A worker without a request has the right type.
LEMMA NoOpType == NoOp \in Requests /\ Fine(NoOp)
  BY BoundsAssumption DEF NoOp, Requests, Places, Fine, Sizes


\* The types of one worker's request.
LEMMA OpAt ==
  ASSUME OpType, NEW w \in Workers
  PROVE  /\ op[w] \in Requests /\ Fine(op[w])
         /\ op[w].at \in Places /\ op[w].kind \in Kinds \union {"unlinkat", None}
         /\ op[w].file \in Files \union {None} /\ op[w].to \in Files \union {None}
         /\ op[w].held \in Files \union {None}
         /\ op[w].cur \in Nat /\ op[w].len \in Sizes /\ op[w].delta \in Int
  BY DEF OpType, Requests

\* A request that only moves on keeps the types.
LEMMA GotoType ==
  ASSUME OpType, NEW w \in Workers, NEW a \in Places, Goto(w, a),
         a # "idle" => Fine([op[w] EXCEPT !.at = a])
  PROVE  OpType'
<1>1. op[w] \in Requests BY OpAt
<1>2. CASE a = "idle"
  <2>1. op' = [op EXCEPT ![w] = NoOp] BY <1>2 DEF Goto
  <2>2. QED BY <2>1, NoOpType, SetType
<1>3. CASE a # "idle"
  <2> DEFINE r == [op[w] EXCEPT !.at = a]
  <2>1. op' = [op EXCEPT ![w] = r] BY <1>3 DEF Goto
  <2>2. r \in Requests BY <1>1 DEF Requests
  <2>3. Fine(r) BY <1>3
  <2> HIDE DEF r
  <2>4. QED BY <2>1, <2>2, <2>3, SetType
<1>4. QED BY <1>2, <1>3

\* The history variables keep their types.
LEMMA DriftsType == ASSUME RestType, NEW c, Drifts(c) PROVE RestType'
  BY DEF RestType, Drifts, lookVars

\* Requests are counted up to the bound.
LEMMA ArrivesType == ASSUME NEW k, Arrives(k), CountType PROVE begun' \in 0..MaxOps /\ k \in Kinds
  BY BoundsAssumption DEF Arrives, CountType

\* The request w moves on, in a step that leaves the disk and the counter alone.
LEMMA AddLoadType == ASSUME OpType, NEW w \in Workers, AddLoad(w) PROVE OpType'
<1> DEFINE a == IF usage + op[w].delta < 0 THEN "zero" ELSE "add"
<1>1. a \in {"zero", "add"} OBVIOUS
<1>2. Goto(w, a) /\ op[w].at = "load" BY DEF AddLoad
<1> HIDE DEF a
<1>3. Fine([op[w] EXCEPT !.at = a]) BY <1>1, <1>2, OpAt DEF Fine, Requests
<1>4. QED BY <1>1, <1>2, <1>3, GotoType DEF Places

\* The counter stays an integer.
LEMMA AddStoreType ==
  ASSUME OpType, CountType, NEW w \in Workers, AddStore(w)
  PROVE  OpType' /\ CountType'
<1>1. Goto(w, AfterAdd(w)) /\ op[w].at \in {"zero", "add"} BY DEF AddStore
<1>2. CountType' BY OpAt DEF AddStore, CountType
<1> DEFINE a == AfterAdd(w)
<1>3. /\ a \in {"unlink", "check", "idle"}
      /\ a = "unlink" => op[w].kind = "unlinkat"
      /\ a = "check" => op[w].kind = "inflate" /\ op[w].cur < op[w].len
  BY DEF AfterAdd
<1>4. Goto(w, a) BY <1>1
<1> HIDE DEF a
<1>5. a # "idle" => Fine([op[w] EXCEPT !.at = a]) BY <1>1, <1>3, OpAt DEF Fine, Requests
<1>6. OpType' BY <1>3, <1>4, <1>5, GotoType DEF Places
<1>7. QED BY <1>2, <1>6

\* The types of Check.
LEMMA CheckType == ASSUME OpType, NEW w \in Workers, Check(w) PROVE OpType'
<1> DEFINE a == IF ~CanFit(Need(w)) THEN "idle"
                ELSE CASE op[w].kind = "write" -> "touch"
                       [] op[w].kind = "copy" -> "suffix"
                       [] OTHER -> "chunk"
<1>1. Goto(w, a) /\ op[w].at = "check" BY DEF Check
<1>2. op[w].kind \in {"write", "copy", "inflate"} BY <1>1, OpAt DEF Fine
<1>3. /\ a \in {"idle", "touch", "suffix", "chunk"}
      /\ a = "touch" => op[w].kind = "write"
      /\ a = "suffix" => op[w].kind = "copy"
      /\ a = "chunk" => op[w].kind = "inflate"
  BY <1>2
<1> HIDE DEF a
<1>4. a # "idle" => Fine([op[w] EXCEPT !.at = a]) BY <1>1, <1>3, OpAt DEF Fine, Requests
<1>5. QED BY <1>1, <1>3, <1>4, GotoType DEF Places

\* The types of WriteStat.
LEMMA WriteStatType ==
  ASSUME DiskType, OpType, NEW w \in Workers, NEW f \in Files, NEW n \in Sizes, WriteStat(w, f, n)
  PROVE  OpType'
<1> DEFINE s == Size(f)
           r == [NoOp EXCEPT !.at = "check", !.kind = "write", !.file = f, !.cur = s, !.len = n]
<1>1. op' = [op EXCEPT ![w] = r] BY DEF WriteStat
<1>2. s \in Nat BY DEF Size, DiskType, Sizes
<1>3. "write" \in Kinds BY DEF WriteStat, Arrives
<1> HIDE DEF s
<1>4. r \in Requests BY <1>2, <1>3, NoOpType DEF Requests, Places
<1>5. Fine(r) BY DEF Fine, NoOp
<1> HIDE DEF r
<1>6. QED BY <1>1, <1>4, <1>5, SetType

\* The types of CopyStat.
LEMMA CopyStatType ==
  ASSUME DiskType, OpType, NEW w \in Workers, NEW f \in Files, CopyStat(w, f)
  PROVE  OpType'
<1> DEFINE s == disk[f]
           r == [NoOp EXCEPT !.at = "check", !.kind = "copy", !.len = s]
<1>1. op' = [op EXCEPT ![w] = r] BY DEF CopyStat
<1>2. s \in Sizes BY DEF CopyStat, DiskType
<1>3. "copy" \in Kinds BY DEF CopyStat, Arrives
<1> HIDE DEF s
<1>4. r \in Requests BY <1>2, <1>3, NoOpType DEF Requests, Places
<1>5. Fine(r) BY DEF Fine, NoOp
<1> HIDE DEF r
<1>6. QED BY <1>1, <1>4, <1>5, SetType

\* The types of Touch.
LEMMA TouchType ==
  ASSUME DiskType, OpType, NEW w \in Workers, Touch(w)
  PROVE  DiskType' /\ OpType'
<1> DEFINE a == IF op[w].len = 0 THEN "load" ELSE "copy"
           d == -op[w].cur
           r == [op[w] EXCEPT !.held = op[w].file, !.at = a, !.delta = d]
<1>1. op' = [op EXCEPT ![w] = r] BY DEF Touch
<1>2. op[w] \in Requests /\ Fine(op[w]) /\ op[w].at = "touch" BY OpAt DEF Touch
<1>3. a \in {"load", "copy"} /\ d \in Int BY OpAt
<1> HIDE DEF a, d
<1>4. r \in Requests BY <1>2, <1>3 DEF Requests, Places
<1>5. Fine(r) BY <1>2, <1>3 DEF Fine, Requests
<1> HIDE DEF r
<1>6. OpType' BY <1>1, <1>4, <1>5, SetType
<1>7. op[w].file \in Files /\ 0 \in Sizes BY <1>2, BoundsAssumption DEF Fine, Sizes
<1>8. QED BY <1>6, <1>7, PutType DEF Touch

\* The types of TouchFails.
LEMMA TouchFailsType == ASSUME OpType, NEW w \in Workers, TouchFails(w) PROVE OpType'
<1>1. Goto(w, "idle") BY DEF TouchFails
<1>2. QED BY <1>1, GotoType DEF Places

\* The types of Suffix.
LEMMA SuffixType ==
  ASSUME OpType, NEW w \in Workers, NEW g \in Files, Suffix(w, g)
  PROVE  OpType'
<1> DEFINE r == [op[w] EXCEPT !.file = g, !.at = "open"]
<1>1. op' = [op EXCEPT ![w] = r] BY DEF Suffix
<1>2. op[w] \in Requests /\ Fine(op[w]) /\ op[w].at = "suffix" BY OpAt DEF Suffix
<1>3. r \in Requests BY <1>2 DEF Requests, Places
<1>4. Fine(r) BY <1>2 DEF Fine, Requests
<1> HIDE DEF r
<1>5. QED BY <1>1, <1>3, <1>4, SetType

\* The types of Open.
LEMMA OpenType ==
  ASSUME DiskType, OpType, NEW w \in Workers, Open(w)
  PROVE  DiskType' /\ OpType'
<1> DEFINE r == [op[w] EXCEPT !.held = op[w].file, !.at = "copy"]
<1>1. op' = [op EXCEPT ![w] = r] BY DEF Open
<1>2. op[w] \in Requests /\ Fine(op[w]) /\ op[w].at = "open" BY OpAt DEF Open
<1>3. r \in Requests BY <1>2 DEF Requests, Places
<1>4. Fine(r) BY <1>2 DEF Fine, Requests
<1> HIDE DEF r
<1>5. OpType' BY <1>1, <1>3, <1>4, SetType
<1>6. op[w].file \in Files /\ 0 \in Sizes BY <1>2, BoundsAssumption DEF Fine, Sizes
<1>7. CASE op[w].file \in DOMAIN disk BY <1>5, <1>7 DEF Open, DiskType
<1>8. CASE op[w].file \notin DOMAIN disk BY <1>5, <1>6, <1>8, PutType DEF Open
<1>9. QED BY <1>7, <1>8

\* The types of CopyBytes.
LEMMA CopyBytesType ==
  ASSUME DiskType, OpType, NEW w \in Workers, NEW n \in Sizes, CopyBytes(w, n)
  PROVE  DiskType' /\ OpType'
<1> DEFINE d == n - op[w].cur
           r == [op[w] EXCEPT !.at = "load", !.delta = d]
<1>1. op' = [op EXCEPT ![w] = r] BY DEF CopyBytes
<1>2. op[w] \in Requests /\ Fine(op[w]) /\ op[w].at = "copy" BY OpAt DEF CopyBytes
<1>3. d \in Int BY OpAt DEF Sizes
<1> HIDE DEF d
<1>4. r \in Requests BY <1>2, <1>3 DEF Requests, Places
<1>5. Fine(r) BY <1>2 DEF Fine, Requests
<1> HIDE DEF r
<1>6. QED BY <1>1, <1>4, <1>5, SetType, GrowType DEF CopyBytes

\* The types of CompressSuffix.
LEMMA CompressSuffixType ==
  ASSUME OpType, NEW w \in Workers, NEW g \in Files, CompressSuffix(w, g)
  PROVE  OpType'
<1> DEFINE r == [NoOp EXCEPT !.at = "open", !.kind = "compress", !.file = g]
<1>1. op' = [op EXCEPT ![w] = r] /\ "compress" \in Kinds BY DEF CompressSuffix, Begin, Arrives
<1>2. r \in Requests BY <1>1, NoOpType DEF Requests, Places
<1>3. Fine(r) BY DEF Fine, NoOp
<1> HIDE DEF r
<1>4. QED BY <1>1, <1>2, <1>3, SetType

\* The types of CompressStamp.
LEMMA CompressStampType ==
  ASSUME OpType, NEW w \in Workers, NEW g \in Files, CompressStamp(w, g)
  PROVE  OpType'
<1> DEFINE r == [NoOp EXCEPT !.at = "open", !.kind = "compress", !.file = g]
<1>1. op' = [op EXCEPT ![w] = r] /\ "compress" \in Kinds BY DEF CompressStamp, Begin, Arrives
<1>2. r \in Requests BY <1>1, NoOpType DEF Requests, Places
<1>3. Fine(r) BY DEF Fine, NoOp
<1> HIDE DEF r
<1>4. QED BY <1>1, <1>2, <1>3, SetType

\* The types of Archive.
LEMMA ArchiveType ==
  ASSUME DiskType, OpType, NEW w \in Workers, NEW n \in Sizes, Archive(w, n)
  PROVE  DiskType' /\ OpType'
<1> DEFINE r == [op[w] EXCEPT !.at = "fit", !.len = n]
<1>1. op' = [op EXCEPT ![w] = r] BY DEF Archive
<1>2. /\ op[w] \in Requests /\ Fine(op[w]) /\ op[w].at = "copy" /\ op[w].kind = "compress"
  BY OpAt DEF Archive
<1>3. r \in Requests BY <1>2 DEF Requests, Places
<1>4. Fine(r) BY <1>2 DEF Fine, Requests
<1> HIDE DEF r
<1>5. QED BY <1>1, <1>3, <1>4, SetType, GrowType DEF Archive

\* The types of ArchiveFails.
LEMMA ArchiveFailsType ==
  ASSUME DiskType, OpType, NEW w \in Workers, NEW n \in Sizes, ArchiveFails(w, n)
  PROVE  DiskType' /\ OpType'
<1>1. Goto(w, "idle") BY DEF ArchiveFails
<1>2. QED BY <1>1, GotoType, GrowType DEF Places, ArchiveFails

\* The types of Fit.
LEMMA FitType == ASSUME OpType, NEW w \in Workers, Fit(w) PROVE OpType'
<1> DEFINE a == IF CanFit(op[w].len) THEN "load" ELSE "lstat"
           d == op[w].len
           r == [op[w] EXCEPT !.at = a, !.delta = d]
<1>1. op' = [op EXCEPT ![w] = r] BY DEF Fit
<1>2. op[w] \in Requests /\ Fine(op[w]) /\ op[w].at = "fit" BY OpAt DEF Fit
<1>3. a \in {"load", "lstat"} /\ d \in Int BY OpAt DEF Sizes
<1> HIDE DEF a, d
<1>4. r \in Requests BY <1>2, <1>3 DEF Requests, Places
<1>5. Fine(r) BY <1>2, <1>3 DEF Fine, Requests
<1> HIDE DEF r
<1>6. QED BY <1>1, <1>4, <1>5, SetType

\* The types of InflateOpen.
LEMMA InflateOpenType ==
  ASSUME DiskType, OpType, NEW w \in Workers, NEW f \in Files, NEW n \in Sizes, n > 0,
         InflateOpen(w, f, n)
  PROVE  DiskType' /\ OpType'
<1> DEFINE r == [NoOp EXCEPT !.at = "check", !.kind = "inflate", !.file = f, !.held = f, !.len = n]
<1>1. op' = [op EXCEPT ![w] = r] /\ "inflate" \in Kinds BY DEF InflateOpen, Arrives
<1>2. r \in Requests BY <1>1, NoOpType DEF Requests, Places
<1>3. Fine(r) BY DEF Fine, NoOp, Sizes
<1> HIDE DEF r
<1>4. OpType' BY <1>1, <1>2, <1>3, SetType
<1>5. 0 \in Sizes BY BoundsAssumption DEF Sizes
<1>6. CASE f \in DOMAIN disk BY <1>4, <1>6 DEF InflateOpen, DiskType
<1>7. CASE f \notin DOMAIN disk BY <1>4, <1>5, <1>7, PutType DEF InflateOpen
<1>8. QED BY <1>6, <1>7

\* The types of InflateChunk.
LEMMA InflateChunkType ==
  ASSUME DiskType, OpType, NEW w \in Workers, InflateChunk(w)
  PROVE  DiskType' /\ OpType'
<1> DEFINE c == op[w].cur + 1
           d == 1
           r == [op[w] EXCEPT !.at = "load", !.cur = c, !.delta = d]
<1>1. op' = [op EXCEPT ![w] = r] BY DEF InflateChunk
<1>2. op[w] \in Requests /\ Fine(op[w]) /\ op[w].at = "chunk" BY OpAt DEF InflateChunk
<1>3. c \in Sizes BY <1>2, OpAt, BoundsAssumption DEF Fine, Sizes
<1>4. c \in Nat /\ d \in Int BY OpAt
<1>5. Grow(w, c) BY DEF InflateChunk
<1> HIDE DEF c, d
<1>6. r \in Requests BY <1>2, <1>4 DEF Requests, Places
<1>7. Fine(r) BY <1>2 DEF Fine, Requests
<1> HIDE DEF r
<1>8. QED BY <1>1, <1>3, <1>5, <1>6, <1>7, SetType, GrowType

\* The types of RemoveBegin.
LEMMA RemoveBeginType ==
  ASSUME OpType, NEW w \in Workers, NEW f \in Files, RemoveBegin(w, f)
  PROVE  OpType'
<1> DEFINE r == [NoOp EXCEPT !.at = "lstat", !.kind = "remove", !.file = f]
<1>1. op' = [op EXCEPT ![w] = r] /\ "remove" \in Kinds BY DEF RemoveBegin, Begin, Arrives
<1>2. r \in Requests BY <1>1, NoOpType DEF Requests, Places
<1>3. Fine(r) BY DEF Fine, NoOp
<1> HIDE DEF r
<1>4. QED BY <1>1, <1>2, <1>3, SetType

\* The types of RemoveStat.
LEMMA RemoveStatType ==
  ASSUME DiskType, OpType, NEW w \in Workers, RemoveStat(w)
  PROVE  OpType'
<1>1. CASE op[w].file \notin DOMAIN disk
  <2>1. op' = [op EXCEPT ![w] = NoOp] BY <1>1 DEF RemoveStat
  <2>2. QED BY <2>1, NoOpType, SetType
<1>2. CASE op[w].file \in DOMAIN disk
  <2> DEFINE c == disk[op[w].file]
             r == [op[w] EXCEPT !.at = "unlink", !.cur = c]
  <2>1. op' = [op EXCEPT ![w] = r] BY <1>2 DEF RemoveStat
  <2>2. op[w] \in Requests /\ Fine(op[w]) /\ op[w].at = "lstat" BY OpAt DEF RemoveStat
  <2>3. c \in Nat BY <1>2, BoundsAssumption DEF DiskType, Sizes
  <2> HIDE DEF c
  <2>4. r \in Requests BY <2>2, <2>3 DEF Requests, Places
  <2>5. Fine(r) BY <2>2 DEF Fine, Requests
  <2> HIDE DEF r
  <2>6. QED BY <2>1, <2>4, <2>5, SetType
<1>3. QED BY <1>1, <1>2

\* The types of UnlinkatStat.
LEMMA UnlinkatStatType ==
  ASSUME DiskType, OpType, NEW w \in Workers, NEW f \in Files, UnlinkatStat(w, f)
  PROVE  OpType'
<1> DEFINE c == disk[f]
           d == -disk[f]
           r == [NoOp EXCEPT !.at = "load", !.kind = "unlinkat", !.file = f, !.cur = c, !.delta = d]
<1>1. op' = [op EXCEPT ![w] = r] BY DEF UnlinkatStat
<1>2. c \in Nat /\ d \in Int BY BoundsAssumption DEF DiskType, Sizes, UnlinkatStat
<1> HIDE DEF c, d
<1>3. r \in Requests BY <1>2, NoOpType DEF Requests, Places
<1>4. Fine(r) BY DEF Fine, NoOp
<1> HIDE DEF r
<1>5. QED BY <1>1, <1>3, <1>4, SetType

\* Handles that lead nowhere keep the types.
LEMMA UnheldType ==
  ASSUME NEW ops \in [Workers -> Requests], \A v \in Workers : Fine(ops[v]), NEW gone
  PROVE  /\ Unheld(ops, gone) \in [Workers -> Requests]
         /\ \A v \in Workers : Fine(Unheld(ops, gone)[v])
<1> DEFINE R(v) == IF ops[v].held \in gone THEN [ops[v] EXCEPT !.held = None] ELSE ops[v]
<1>1. ASSUME NEW v \in Workers PROVE R(v) \in Requests /\ Fine(R(v))
  <2> DEFINE o == ops[v]
  <2>1. o \in Requests /\ Fine(o) OBVIOUS
  <2> HIDE DEF o
  <2> DEFINE r == [o EXCEPT !.held = None]
  <2>2. r \in Requests BY <2>1 DEF Requests
  <2>3. Fine(r)
    <3>1. CASE o.at = "idle"
      <4>1. o = NoOp BY <2>1, <3>1 DEF Fine
      <4>2. r = NoOp BY <4>1 DEF NoOp
      <4>3. QED BY <4>2, NoOpType
    <3>2. CASE o.at # "idle" BY <2>1, <3>2 DEF Fine, Requests
    <3>3. QED BY <3>1, <3>2
  <2> HIDE DEF r
  <2>4. R(v) = r \/ R(v) = o BY DEF r, o
  <2>5. QED BY <2>1, <2>2, <2>3, <2>4
<1>2. Unheld(ops, gone) = [v \in Workers |-> R(v)] BY DEF Unheld
<1> HIDE DEF R
<1>3. QED BY <1>1, <1>2

\* The types of Unlink.
LEMMA UnlinkType ==
  ASSUME DiskType, OpType, NEW w \in Workers, Unlink(w)
  PROVE  DiskType' /\ OpType'
<1> DEFINE f == op[w].file
           d == -op[w].cur
           r == [op[w] EXCEPT !.at = "load", !.delta = d]
           x == IF op[w].kind = "unlinkat" \/ f \notin DOMAIN disk THEN NoOp ELSE r
           ops == [op EXCEPT ![w] = x]
<1>1. op' = Unheld(ops, {f}) BY DEF Unlink
<1>2. op[w] \in Requests /\ Fine(op[w]) /\ op[w].at = "unlink" BY OpAt DEF Unlink
<1>3. d \in Int BY OpAt
<1>4. Without({f}) BY DEF Unlink
<1> HIDE DEF d, f
<1>5. r \in Requests BY <1>2, <1>3 DEF Requests, Places
<1>6. Fine(r) BY <1>2 DEF Fine, Requests
<1> HIDE DEF r
<1>7. x \in Requests /\ Fine(x) BY <1>5, <1>6, NoOpType
<1> HIDE DEF x
<1>8. ops \in [Workers -> Requests] /\ \A v \in Workers : ops[v] = x \/ ops[v] = op[v]
  BY <1>7 DEF OpType
<1>9. \A v \in Workers : Fine(ops[v]) BY <1>7, <1>8 DEF OpType
<1> HIDE DEF ops
<1>10. op' \in [Workers -> Requests] /\ \A v \in Workers : Fine(op'[v]) BY <1>1, <1>8, <1>9, UnheldType
<1>11. OpType' BY <1>10 DEF OpType, Fine
<1>12. QED BY <1>4, <1>11, WithoutType

\* The types of UnlinkFails.
LEMMA UnlinkFailsType ==
  ASSUME DiskType, OpType, NEW w \in Workers, UnlinkFails(w)
  PROVE  OpType'
<1> DEFINE f == op[w].file
           c == disk[f]
           d == -disk[f]
           r == [op[w] EXCEPT !.at = "load", !.kind = "unlinkat", !.cur = c, !.delta = d]
<1>1. CASE op[w].kind # "remove" \/ f \notin DOMAIN disk
  <2>1. op' = [op EXCEPT ![w] = NoOp] BY <1>1 DEF UnlinkFails
  <2>2. QED BY <2>1, NoOpType, SetType
<1>2. CASE ~(op[w].kind # "remove" \/ f \notin DOMAIN disk)
  <2>1. op' = [op EXCEPT ![w] = r] BY <1>2 DEF UnlinkFails
  <2>2. op[w] \in Requests /\ Fine(op[w]) /\ op[w].at = "unlink" BY OpAt DEF UnlinkFails
  <2>3. c \in Nat /\ d \in Int BY <1>2, BoundsAssumption DEF DiskType, Sizes
  <2> HIDE DEF c, d
  <2>4. r \in Requests BY <2>2, <2>3 DEF Requests, Places
  <2>5. Fine(r) BY <2>2 DEF Fine, Requests
  <2> HIDE DEF r
  <2>6. QED BY <2>1, <2>4, <2>5, SetType
<1>3. QED BY <1>1, <1>2

\* The types of RenameStat.
LEMMA RenameStatType ==
  ASSUME OpType, NEW w \in Workers, NEW f \in Files, NEW g \in Files, RenameStat(w, f, g)
  PROVE  OpType'
<1> DEFINE r == [NoOp EXCEPT !.at = "rename", !.kind = "rename", !.file = f, !.to = g]
<1>1. op' = [op EXCEPT ![w] = r] /\ "rename" \in Kinds BY DEF RenameStat, Arrives
<1>2. r \in Requests BY <1>1, NoOpType DEF Requests, Places
<1>3. Fine(r) BY DEF Fine, NoOp
<1> HIDE DEF r
<1>4. QED BY <1>1, <1>2, <1>3, SetType

\* The types of Rename.
LEMMA RenameType ==
  ASSUME DiskType, OpType, NEW w \in Workers, Rename(w)
  PROVE  DiskType' /\ OpType'
<1> DEFINE f == op[w].file
           g == op[w].to
           ops == [op EXCEPT ![w] = NoOp]
           left == Unheld(ops, {g})
           R(v) == IF left[v].held = f THEN [left[v] EXCEPT !.held = g] ELSE left[v]
<1>1. CASE f \notin DOMAIN disk
  <2>1. Goto(w, "idle") /\ UNCHANGED disk BY <1>1 DEF Rename
  <2>2. OpType' BY <2>1, GotoType DEF Places
  <2>3. QED BY <2>1, <2>2 DEF DiskType
<1>2. CASE f \in DOMAIN disk
  <2>1. g \in Files BY OpAt DEF Rename, Fine
  <2>2. f \in Files BY <1>2 DEF DiskType
  <2>3. disk' = [h \in (DOMAIN disk \ {f}) \union {g} |-> IF h = g THEN disk[f] ELSE disk[h]]
    BY <1>2 DEF Rename
  <2>4. op' = [v \in Workers |-> R(v)] BY <1>2 DEF Rename
  <2> HIDE DEF f, g
  <2>5. DiskType' BY <1>2, <2>1, <2>3 DEF DiskType
  <2>6. ops \in [Workers -> Requests] /\ \A v \in Workers : ops[v] = NoOp \/ ops[v] = op[v]
    BY NoOpType DEF OpType
  <2>7. \A v \in Workers : Fine(ops[v]) BY <2>6, NoOpType DEF OpType
  <2> HIDE DEF ops
  <2>8. left \in [Workers -> Requests] /\ \A v \in Workers : Fine(left[v]) BY <2>6, <2>7, UnheldType
  <2> HIDE DEF left
  <2>9. ASSUME NEW v \in Workers PROVE R(v) \in Requests /\ Fine(R(v))
    <3> DEFINE o == left[v]
               r == [o EXCEPT !.held = g]
    <3>1. o \in Requests /\ Fine(o) BY <2>8
    <3>2. R(v) = IF o.held = f THEN r ELSE o OBVIOUS
    <3> HIDE DEF o
    <3>3. r \in Requests BY <3>1, <2>1 DEF Requests
    <3>4. o.held = f => o.at # "idle"
      BY <3>1, <2>2, FilesAssumption DEF Fine, NoOp
    <3>5. o.held = f => Fine(r) BY <3>1, <3>4 DEF Fine, Requests
    <3> HIDE DEF r, R
    <3>6. QED BY <3>1, <3>2, <3>3, <3>5
  <2> HIDE DEF R
  <2>10. op' \in [Workers -> Requests] /\ \A v \in Workers : Fine(op'[v]) BY <2>4, <2>9
  <2>11. OpType' BY <2>10 DEF OpType, Fine
  <2>12. QED BY <2>5, <2>11
<1>3. QED BY <1>1, <1>2

\* The size of the directory is a natural number.
LEMMA TotalNat == DiskType => Total \in Nat
<1> SUFFICES ASSUME DiskType PROVE Total \in Nat OBVIOUS
<1>1. IsFiniteSet(DOMAIN disk) BY FilesAssumption, FS_Subset DEF DiskType
<1>2. \A f \in DOMAIN disk : disk[f] \in Nat BY BoundsAssumption DEF DiskType, Sizes
<1>3. QED BY <1>1, <1>2, SumNat DEF Total, SumFunction

\* The types of Wipe.
LEMMA WipeType ==
  ASSUME DiskType, OpType, NEW w \in Workers, Wipe(w)
  PROVE  DiskType' /\ OpType'
<1> DEFINE c == Total
           r == [NoOp EXCEPT !.at = "reset", !.kind = "truncate", !.cur = c]
           ops == [op EXCEPT ![w] = r]
<1>1. op' = Unheld(ops, Files) /\ "truncate" \in Kinds BY DEF Wipe, Arrives
<1>2. c \in Nat BY TotalNat
<1>3. Without(Files) BY DEF Wipe
<1> HIDE DEF c
<1>4. r \in Requests BY <1>1, <1>2, NoOpType DEF Requests, Places
<1>5. Fine(r) BY DEF Fine, NoOp
<1> HIDE DEF r
<1>6. ops \in [Workers -> Requests] /\ \A v \in Workers : ops[v] = r \/ ops[v] = op[v]
  BY <1>4 DEF OpType
<1>7. \A v \in Workers : Fine(ops[v]) BY <1>5, <1>6 DEF OpType
<1> HIDE DEF ops
<1>8. op' \in [Workers -> Requests] /\ \A v \in Workers : Fine(op'[v]) BY <1>1, <1>6, <1>7, UnheldType
<1>9. OpType' BY <1>8 DEF OpType, Fine
<1>10. QED BY <1>3, <1>9, WithoutType

\* The types of WipeFails.
LEMMA WipeFailsType ==
  ASSUME DiskType, OpType, NEW w \in Workers, NEW f \in Files, WipeFails(w, f)
  PROVE  DiskType' /\ OpType'
<1> DEFINE gone == {f}
<1>1. op' = Unheld(op, gone) /\ Without(gone) BY DEF WipeFails
<1> HIDE DEF gone
<1>2. op \in [Workers -> Requests] /\ \A v \in Workers : Fine(op[v]) BY DEF OpType
<1>3. op' \in [Workers -> Requests] /\ \A v \in Workers : Fine(op'[v]) BY <1>1, <1>2, UnheldType
<1>4. OpType' BY <1>3 DEF OpType, Fine
<1>5. QED BY <1>1, <1>4, WithoutType

\* The types of Reset.
LEMMA ResetType == ASSUME OpType, NEW w \in Workers, Reset(w) PROVE OpType'
<1>1. Goto(w, "idle") BY DEF Reset
<1>2. QED BY <1>1, GotoType DEF Places

\* The types of SftpOpen.
LEMMA SftpOpenType ==
  ASSUME DiskType, OpType, NEW w \in Workers, NEW f \in Files, SftpOpen(w, f)
  PROVE  DiskType' /\ OpType'
<1> DEFINE r == [NoOp EXCEPT !.at = "put", !.kind = "sftp", !.file = f, !.held = f]
<1>1. op' = [op EXCEPT ![w] = r] /\ "sftp" \in Kinds BY DEF SftpOpen, Arrives
<1>2. r \in Requests BY <1>1, NoOpType DEF Requests, Places
<1>3. Fine(r) BY DEF Fine, NoOp
<1>4. 0 \in Sizes BY BoundsAssumption DEF Sizes
<1> HIDE DEF r
<1>5. QED BY <1>1, <1>2, <1>3, <1>4, SetType, PutType DEF SftpOpen

\* The types of SftpWrite.
LEMMA SftpWriteType ==
  ASSUME DiskType, OpType, NEW w \in Workers, NEW n \in Sizes, SftpWrite(w, n)
  PROVE  DiskType' /\ OpType'
<1>1. Goto(w, "idle") BY DEF SftpWrite
<1>2. QED BY <1>1, GotoType, GrowType DEF Places, SftpWrite

\* The types, and what each request is where it is.
Types == DiskType /\ OpType /\ CountType /\ RestType

\* A step of a request keeps the types.
LEMMA StepTypes ==
  ASSUME Types, NEW w \in Workers, Step(w)
  PROVE  Types'
<1> USE DEF Types
<1>1. ASSUME AddLoad(w) PROVE Types'
  <2>1. RestType' BY <1>1, DriftsType DEF AddLoad
  <2>2. CountType' BY <1>1 DEF AddLoad, CountType
  <2>3. QED BY <1>1, <2>1, <2>2, AddLoadType DEF AddLoad, DiskType
<1>2. ASSUME AddStore(w) PROVE Types'
  <2>1. RestType' BY <1>2, DriftsType DEF AddStore
  <2>2. OpType' /\ CountType' BY <1>2, AddStoreType
  <2>3. QED BY <1>2, <2>1, <2>2 DEF AddStore, DiskType
<1>3. ASSUME Check(w) PROVE Types'
  <2>1. RestType' BY <1>3, DriftsType DEF Check
  <2>2. CountType' BY <1>3 DEF Check, CountType
  <2>3. QED BY <1>3, <2>1, <2>2, CheckType DEF Check, DiskType
<1>4. ASSUME Touch(w) PROVE Types'
  <2>1. RestType' BY <1>4, DriftsType DEF Touch
  <2>2. CountType' BY <1>4 DEF Touch, CountType
  <2>3. QED BY <1>4, <2>1, <2>2, TouchType
<1>5. ASSUME Open(w) PROVE Types'
  <2>1. RestType' BY <1>5, DriftsType DEF Open
  <2>2. CountType' BY <1>5 DEF Open, CountType
  <2>3. QED BY <1>5, <2>1, <2>2, OpenType
<1>6. ASSUME Fit(w) PROVE Types'
  <2>1. RestType' BY <1>6, DriftsType DEF Fit
  <2>2. CountType' BY <1>6 DEF Fit, CountType
  <2>3. QED BY <1>6, <2>1, <2>2, FitType DEF Fit, DiskType
<1>7. ASSUME InflateChunk(w) PROVE Types'
  <2>1. RestType' BY <1>7, DriftsType DEF InflateChunk
  <2>2. CountType' BY <1>7 DEF InflateChunk, CountType
  <2>3. QED BY <1>7, <2>1, <2>2, InflateChunkType
<1>8. ASSUME RemoveStat(w) PROVE Types'
  <2>1. RestType' BY <1>8, DriftsType DEF RemoveStat
  <2>2. CountType' BY <1>8 DEF RemoveStat, CountType
  <2>3. QED BY <1>8, <2>1, <2>2, RemoveStatType DEF RemoveStat, DiskType
<1>9. ASSUME Unlink(w) PROVE Types'
  <2>1. RestType' BY <1>9, DriftsType DEF Unlink
  <2>2. CountType' BY <1>9 DEF Unlink, CountType
  <2>3. QED BY <1>9, <2>1, <2>2, UnlinkType
<1>10. ASSUME Rename(w) PROVE Types'
  <2>1. RestType' BY <1>10, DriftsType DEF Rename
  <2>2. CountType' BY <1>10 DEF Rename, CountType
  <2>3. QED BY <1>10, <2>1, <2>2, RenameType
<1>11. ASSUME Reset(w) PROVE Types'
  <2>1. RestType' BY <1>11, DriftsType DEF Reset
  <2>2. CountType' BY <1>11 DEF Reset, CountType
  <2>3. QED BY <1>11, <2>1, <2>2, ResetType DEF Reset, DiskType
<1>12. ASSUME NEW n \in Sizes, CopyBytes(w, n) PROVE Types'
  <2>1. RestType' BY <1>12, DriftsType DEF CopyBytes
  <2>2. CountType' BY <1>12 DEF CopyBytes, CountType
  <2>3. QED BY <1>12, <2>1, <2>2, CopyBytesType
<1>13. ASSUME NEW n \in Sizes, Archive(w, n) PROVE Types'
  <2>1. RestType' BY <1>13, DriftsType DEF Archive
  <2>2. CountType' BY <1>13 DEF Archive, CountType
  <2>3. QED BY <1>13, <2>1, <2>2, ArchiveType
<1>14. ASSUME NEW n \in Sizes, SftpWrite(w, n) PROVE Types'
  <2>1. RestType' BY <1>14, DriftsType DEF SftpWrite
  <2>2. CountType' BY <1>14 DEF SftpWrite, CountType
  <2>3. QED BY <1>14, <2>1, <2>2, SftpWriteType
<1>15. ASSUME NEW g \in Files, Suffix(w, g) PROVE Types'
  <2>1. RestType' BY <1>15, DriftsType DEF Suffix
  <2>2. CountType' BY <1>15 DEF Suffix, CountType
  <2>3. QED BY <1>15, <2>1, <2>2, SuffixType DEF Suffix, DiskType
<1>16. QED
  BY <1>1, <1>2, <1>3, <1>4, <1>5, <1>6, <1>7, <1>8, <1>9, <1>10, <1>11, <1>12, <1>13, <1>14, <1>15
  DEF Step

\* A failing step keeps the types.
LEMMA FailsTypes ==
  ASSUME Types, NEW w \in Workers, Fails(w)
  PROVE  Types'
<1> USE DEF Types
<1>1. ASSUME TouchFails(w) PROVE Types'
  <2>1. RestType' BY <1>1, DriftsType DEF TouchFails
  <2>2. CountType' BY <1>1 DEF TouchFails, CountType
  <2>3. QED BY <1>1, <2>1, <2>2, TouchFailsType DEF TouchFails, DiskType
<1>2. ASSUME UnlinkFails(w) PROVE Types'
  <2>1. RestType' BY <1>2, DriftsType DEF UnlinkFails
  <2>2. CountType' BY <1>2 DEF UnlinkFails, CountType
  <2>3. QED BY <1>2, <2>1, <2>2, UnlinkFailsType DEF UnlinkFails, DiskType
<1>3. ASSUME NEW n \in Sizes, ArchiveFails(w, n) PROVE Types'
  <2>1. RestType' BY <1>3, DriftsType DEF ArchiveFails
  <2>2. CountType' BY <1>3 DEF ArchiveFails, CountType
  <2>3. QED BY <1>3, <2>1, <2>2, ArchiveFailsType
<1>4. QED BY <1>1, <1>2, <1>3 DEF Fails

\* A new request keeps the types.
LEMMA RequestedTypes ==
  ASSUME Types, NEW w \in Workers, Requested(w) \/ Wipe(w)
  PROVE  Types'
<1> USE DEF Types
<1>1. ASSUME NEW f \in Files, CopyStat(w, f) PROVE Types'
  <2>1. RestType' BY <1>1, DriftsType DEF CopyStat
  <2>2. CountType' BY <1>1, ArrivesType DEF CopyStat, CountType
  <2>3. QED BY <1>1, <2>1, <2>2, CopyStatType DEF CopyStat, DiskType
<1>2. ASSUME NEW f \in Files, CompressSuffix(w, f) PROVE Types'
  <2>1. RestType' BY <1>2, DriftsType DEF CompressSuffix
  <2>2. CountType' BY <1>2, ArrivesType DEF CompressSuffix, Begin, CountType
  <2>3. QED BY <1>2, <2>1, <2>2, CompressSuffixType DEF CompressSuffix, DiskType
<1>3. ASSUME NEW f \in Files, RemoveBegin(w, f) PROVE Types'
  <2>1. RestType' BY <1>3, DriftsType DEF RemoveBegin
  <2>2. CountType' BY <1>3, ArrivesType DEF RemoveBegin, Begin, CountType
  <2>3. QED BY <1>3, <2>1, <2>2, RemoveBeginType DEF RemoveBegin, DiskType
<1>4. ASSUME NEW f \in Files, UnlinkatStat(w, f) PROVE Types'
  <2>1. RestType' BY <1>4, DriftsType DEF UnlinkatStat
  <2>2. CountType' BY <1>4, ArrivesType DEF UnlinkatStat, CountType
  <2>3. QED BY <1>4, <2>1, <2>2, UnlinkatStatType DEF UnlinkatStat, DiskType
<1>5. ASSUME NEW f \in Files, WipeFails(w, f) PROVE Types'
  <2>1. RestType' BY <1>5, DriftsType DEF WipeFails
  <2>2. CountType' BY <1>5, ArrivesType DEF WipeFails, CountType
  <2>3. QED BY <1>5, <2>1, <2>2, WipeFailsType
<1>6. ASSUME NEW f \in Files, SftpOpen(w, f) PROVE Types'
  <2>1. RestType' BY <1>6, DriftsType DEF SftpOpen
  <2>2. CountType' BY <1>6, ArrivesType DEF SftpOpen, CountType
  <2>3. QED BY <1>6, <2>1, <2>2, SftpOpenType
<1>7. ASSUME NEW f \in Files, NEW n \in Sizes, WriteStat(w, f, n) PROVE Types'
  <2>1. RestType' BY <1>7, DriftsType DEF WriteStat
  <2>2. CountType' BY <1>7, ArrivesType DEF WriteStat, CountType
  <2>3. QED BY <1>7, <2>1, <2>2, WriteStatType DEF WriteStat, DiskType
<1>8. ASSUME NEW f \in Files, NEW n \in Sizes, n > 0, InflateOpen(w, f, n) PROVE Types'
  <2>1. RestType' BY <1>8, DriftsType DEF InflateOpen
  <2>2. CountType' BY <1>8, ArrivesType DEF InflateOpen, CountType
  <2>3. QED BY <1>8, <2>1, <2>2, InflateOpenType
<1>9. ASSUME NEW f \in Files, NEW g \in Files, RenameStat(w, f, g) PROVE Types'
  <2>1. RestType' BY <1>9, DriftsType DEF RenameStat
  <2>2. CountType' BY <1>9, ArrivesType DEF RenameStat, CountType
  <2>3. QED BY <1>9, <2>1, <2>2, RenameStatType DEF RenameStat, DiskType
<1>10. ASSUME Wipe(w) PROVE Types'
  <2>1. RestType' BY <1>10, DriftsType DEF Wipe
  <2>2. CountType' BY <1>10, ArrivesType DEF Wipe, CountType
  <2>3. QED BY <1>10, <2>1, <2>2, WipeType
<1>11. ASSUME NEW f \in Files, CompressStamp(w, f) PROVE Types'
  <2>1. RestType' BY <1>11, DriftsType DEF CompressStamp
  <2>2. CountType' BY <1>11, ArrivesType DEF CompressStamp, Begin, CountType
  <2>3. QED BY <1>11, <2>1, <2>2, CompressStampType DEF CompressStamp, DiskType
<1>12. QED BY <1>1, <1>2, <1>3, <1>4, <1>5, <1>6, <1>7, <1>8, <1>9, <1>10, <1>11 DEF Requested

\* The other steps keep the types.
LEMMA OtherTypes ==
  ASSUME Types,
         \/ \E f \in Files, n \in Sizes : Process(f, n)
         \/ \E l \in Lookers : Lookup(l) \/ \E a \in BOOLEAN : DiskUsage(l, a)
         \/ Expire
         \/ \E i \in Limits : SetDiskLimit(i)
         \/ UNCHANGED quotaVars
  PROVE  Types'
<1>1. ASSUME NEW f \in Files, NEW n \in Sizes, Process(f, n) PROVE Types'
  <2>1. RestType' BY <1>1, DriftsType DEF Process, Types
  <2>2. CountType' BY <1>1, ArrivesType DEF Process, CountType, Types
  <2>3. DiskType' BY <1>1, PutType DEF Process, Types
  <2>4. QED BY <1>1, <2>1, <2>2, <2>3 DEF Process, OpType, Types, Fine
<1>2. CASE UNCHANGED <<disk, usage, begun, op>> /\ RestType'
  BY <1>2 DEF Types, DiskType, OpType, CountType, Fine
<1>3. ASSUME NEW l \in Lookers, LookupBegin(l) PROVE Types'
  BY <1>2, <1>3 DEF LookupBegin, RestType, Types, DiskType, counterVars
<1>4. ASSUME NEW l \in Lookers, NEW f \in Files, Visit(l, f) PROVE Types'
  <2>1. Size(f) \in Nat BY BoundsAssumption DEF Size, Types, DiskType, Sizes
  <2>2. QED BY <1>2, <1>4, <2>1 DEF Visit, RestType, Types, counterVars
<1>5. ASSUME NEW l \in Lookers, Cache(l) PROVE Types'
  <2>1. RestType' BY <1>5 DEF Cache, RestType, Types
  <2>2. CountType' BY <1>5 DEF Cache, RestType, CountType, Types
  <2>3. QED BY <1>5, <2>1, <2>2 DEF Cache, Types, DiskType, OpType, Fine
<1>6. ASSUME NEW l \in Lookers, NEW a \in BOOLEAN, DiskUsage(l, a) PROVE Types'
  BY <1>2, <1>6 DEF DiskUsage, RestType, Types, counterVars
<1>7. CASE Expire BY <1>2, <1>7 DEF Expire, RestType, Types, counterVars
<1>8. ASSUME NEW i \in Limits, SetDiskLimit(i) PROVE Types'
  BY <1>2, <1>8 DEF SetDiskLimit, RestType, Types, lookVars
<1>9. CASE UNCHANGED quotaVars
  BY <1>2, <1>9 DEF quotaVars, counterVars, lookVars, RestType, Types
<1>10. QED BY <1>1, <1>3, <1>4, <1>5, <1>6, <1>7, <1>8, <1>9 DEF Lookup

\* Every step keeps the types.
LEMMA TypesNext == Types /\ [QuotaNext]_quotaVars => Types'
<1> SUFFICES ASSUME Types, [QuotaNext]_quotaVars PROVE Types' OBVIOUS
<1>1. ASSUME NEW w \in Workers, Step(w) \/ Fails(w) \/ Requested(w) \/ Wipe(w) PROVE Types'
  BY <1>1, StepTypes, FailsTypes, RequestedTypes
<1>2. QED BY <1>1, OtherTypes DEF QuotaNext

\* They hold at the start.
LEMMA TypesInit == QuotaInit => Types
<1> SUFFICES ASSUME QuotaInit PROVE Types OBVIOUS
<1>1. DiskType BY DEF QuotaInit, DiskType
<1>2. OpType BY NoOpType DEF QuotaInit, OpType
<1>3. CountType BY <1>1, TotalNat, BoundsAssumption DEF QuotaInit, CountType
<1>4. RestType BY DEF QuotaInit, RestType
<1>5. QED BY <1>1, <1>2, <1>3, <1>4 DEF Types

\* They include the type invariant.
LEMMA TypesImply == Types => QuotaTypeOK
  BY DEF Types, DiskType, OpType, CountType, RestType, QuotaTypeOK

\* The counter, the files, the requests and the lookups always have the right
\* types, for any files, workers, lookers, kinds of requests and limits: no file
\* exceeds what its writes allow, and the handle of an unlinked file leads
\* nowhere (fs_quota.go, disk_space.go).
THEOREM QuotaTypes == QuotaSpec => []QuotaTypeOK
<1>1. QuotaSpec => []Types BY TypesInit, TypesNext, PTL DEF QuotaSpec
<1>2. QED BY <1>1, TypesImply, PTL

-----------------------------------------------------------------------------
(* Requests that nobody disturbs.                                           *)

\* A request that nobody disturbs knows its file.
Knows(w) ==
  LET o == op[w] IN
  /\ o.at \notin {"zero", "put"}
  /\ o.held \in {None, o.file}
  /\ o.at \in {"check", "suffix"} /\ o.kind = "copy" => o.file = None
  /\ o.at = "touch" \/ (o.at = "check" /\ o.kind = "write") => Size(o.file) = o.cur
  /\ o.kind = "inflate" => o.file \in DOMAIN disk /\ o.held = o.file /\ disk[o.file] = o.cur
  /\ o.kind \in {"copy", "compress"} => o.cur = 0
  /\ o.at = "open" => Size(o.file) = 0
  /\ o.at = "copy" => o.file \in DOMAIN disk /\ o.held = o.file /\ disk[o.file] = 0
  /\ o.at = "fit" => o.file \in DOMAIN disk /\ disk[o.file] = o.len
  /\ o.at \in {"load", "add"} /\ o.kind # "unlinkat"
       => o.delta <= 0 \/ (o.file \in DOMAIN disk /\ o.delta <= disk[o.file])
  /\ o.at \in {"load", "add"} /\ o.kind = "unlinkat" => o.delta = -o.cur
  /\ o.at = "unlink" \/ o.kind = "unlinkat" => o.file \in DOMAIN disk /\ disk[o.file] = o.cur
  /\ o.at \in {"lstat", "unlink"} => o.kind # "compress"
  /\ o.at = "rename" => o.file \in DOMAIN disk /\ o.to \notin DOMAIN disk
  /\ o.at = "reset" => DOMAIN disk = {}

\* Every request knows its files.
Known == \A w \in Workers : op[w].at # "idle" => Knows(w)

\* What each worker has yet to account for.
Pendings == [w \in Workers |-> Pending(w)]

\* Nothing has been left unaccounted.
Quiet == drift # "now" /\ ~Clash /\ Known /\ usage + SumFunction(Pendings) = Total

\* What w may still add to the counter.
Claim(w) ==
  LET o == op[w] IN
  CASE o.at \in {"load", "zero", "add"} /\ o.kind # "unlinkat" -> o.delta
    [] o.at \in {"touch", "copy"} /\ o.kind = "write" -> IF o.len > o.cur THEN o.len - o.cur ELSE 0
    [] o.at \in {"suffix", "open", "copy"} /\ o.kind = "copy" -> o.len
    [] o.at = "chunk" -> 1
    [] OTHER -> 0

\* What each worker may still add.
Claims == [w \in Workers |-> Claim(w)]
\* The highest limit that is ever set.
Highest == Max(Limits \union {0})

\* A step that leaves nothing unaccounted.
Calm == Types /\ Types' /\ Quiet /\ drift' # "now"

\* The file g stays what it is.
Kept(g) == (g \in DOMAIN disk' <=> g \in DOMAIN disk) /\ (g \in DOMAIN disk => disk'[g] = disk[g])

\* A step of w that changes only the files in X, which are its own.
Effect(w, X) ==
  /\ \A v \in Workers : v # w => op'[v] = op[v]
  /\ \A g : g \notin X => Kept(g)
  /\ \/ w \in Busy /\ X \subseteq Names(w)
     \/ w \in Busy' /\ X \subseteq Names(w)'
     \/ X = {}
  /\ op'[w].at # "idle" => Knows(w)'
  /\ usage' + Pending(w)' + Total = usage + Pending(w) + Total'
  /\ 0 \notin Limits => \/ usage' + Claim(w)' <= usage + Claim(w)
                        \/ usage' + Claim(w)' <= Highest

\* The size of f in the directory d.
At(d, f) == IF f \in DOMAIN d THEN d[f] ELSE 0

\* The directory has finitely many files, and their sizes are natural.
LEMMA DiskSums ==
  ASSUME DiskType
  PROVE  IsFiniteSet(DOMAIN disk) /\ \A f \in DOMAIN disk : disk[f] \in Nat /\ disk[f] <= MaxSize
<1>1. IsFiniteSet(DOMAIN disk) BY FilesAssumption, FS_Subset DEF DiskType
<1>2. QED BY <1>1, BoundsAssumption DEF DiskType, Sizes

\* The sums of two functions that differ at f only.
LEMMA SumsChange ==
  ASSUME NEW d, NEW e, NEW f, IsFiniteSet(DOMAIN d), IsFiniteSet(DOMAIN e),
         \A g \in DOMAIN d : d[g] \in Int, \A g \in DOMAIN e : e[g] \in Int,
         \A g : g # f => (g \in DOMAIN e <=> g \in DOMAIN d) /\ (g \in DOMAIN d => e[g] = d[g])
  PROVE  SumFunction(e) = SumFunction(d) + At(e, f) - At(d, f)
<1> DEFINE R == DOMAIN d \ {f}
<1>1. R = DOMAIN e \ {f} OBVIOUS
<1>2. IsFiniteSet(R) BY FS_RemoveElement
<1>3. (\A g \in R : d[g] \in Int) /\ (\A g \in R : d[g] = e[g]) OBVIOUS
<1>4. SumFunction(d) = At(d, f) + SumFunctionOnSet(d, R)
  <2>1. CASE f \in DOMAIN d BY <2>1, SumRemove DEF SumFunction, At
  <2>2. CASE f \notin DOMAIN d
    <3>1. R = DOMAIN d BY <2>2
    <3> HIDE DEF R
    <3>2. SumFunctionOnSet(d, R) \in Int BY <1>2, <1>3, SumInt
    <3>4. QED BY <2>2, <3>1, <3>2 DEF SumFunction, At
  <2>3. QED BY <2>1, <2>2
<1>5. SumFunction(e) = At(e, f) + SumFunctionOnSet(e, R)
  <2>1. CASE f \in DOMAIN e BY <1>1, <2>1, SumRemove DEF SumFunction, At
  <2>2. CASE f \notin DOMAIN e
    <3>1. R = DOMAIN e BY <1>1, <2>2
    <3>2. \A g \in R : e[g] \in Int BY <1>1
    <3> HIDE DEF R
    <3>3. SumFunctionOnSet(e, R) \in Int BY <1>2, <3>2, SumInt
    <3>4. QED BY <2>2, <3>1, <3>3 DEF SumFunction, At
  <2>3. QED BY <2>1, <2>2
<1>6. At(d, f) \in Int /\ At(e, f) \in Int BY DEF At
<1> HIDE DEF R
<1>7. SumFunctionOnSet(d, R) = SumFunctionOnSet(e, R) BY <1>2, <1>3, SumSame
<1>8. SumFunctionOnSet(d, R) \in Int BY <1>2, <1>3, SumInt
<1>9. QED BY <1>4, <1>5, <1>6, <1>7, <1>8

\* The directory changes by as much as the only file that changes.
LEMMA TotalStep ==
  ASSUME DiskType, DiskType', NEW f, \A g : g # f => Kept(g)
  PROVE  Total' = Total + At(disk', f) - At(disk, f)
<1>1. IsFiniteSet(DOMAIN disk) /\ \A g \in DOMAIN disk : disk[g] \in Int BY DiskSums
<1>2. IsFiniteSet(DOMAIN disk') /\ \A g \in DOMAIN disk' : disk'[g] \in Int
  <2>1. DOMAIN disk' \subseteq Files /\ \A g \in DOMAIN disk' : disk'[g] \in Sizes BY DEF DiskType
  <2>2. IsFiniteSet(DOMAIN disk') BY <2>1, FilesAssumption, FS_Subset
  <2>3. QED BY <2>1, <2>2 DEF Sizes
<1>3. SumFunction(disk') = SumFunction(disk) + At(disk', f) - At(disk, f)
  BY <1>1, <1>2, SumsChange DEF Kept
<1>4. QED BY <1>3 DEF Total

\* What a worker has yet to account for is an integer.
LEMMA PendingInt == ASSUME OpType, NEW w \in Workers PROVE Pending(w) \in Int
  BY OpAt DEF Pending, Sizes

\* When one worker moves, the sum changes by what it has yet to account for.
LEMMA PendingsChange ==
  ASSUME OpType, OpType', NEW w \in Workers, \A v \in Workers : v # w => op'[v] = op[v]
  PROVE  SumFunction(Pendings)' = SumFunction(Pendings) + Pending(w)' - Pending(w)
<1> DEFINE p == Pendings
           q == Pendings'
<1>1. p = [v \in Workers |-> Pending(v)] /\ q = [v \in Workers |-> Pending(v)'] BY DEF Pendings
<1>2. \A v \in Workers : Pending(v) \in Int BY PendingInt
<1>3. \A v \in Workers : Pending(v)' \in Int
  <2> SUFFICES ASSUME NEW v \in Workers PROVE Pending(v)' \in Int OBVIOUS
  <2>1. op'[v].cur \in Nat /\ op'[v].len \in Sizes /\ op'[v].delta \in Int BY DEF OpType, Requests
  <2>2. QED BY <2>1 DEF Pending, Sizes
<1>4. \A v \in Workers : v # w => Pending(v)' = Pending(v) BY DEF Pending
<1>5. DOMAIN p = Workers /\ DOMAIN q = Workers BY <1>1
<1>6. \A v \in Workers : p[v] = Pending(v) /\ q[v] = Pending(v)' BY <1>1
<1> HIDE DEF p, q
<1>7. SumFunctionOnSet(q, Workers) = SumFunctionOnSet(p, Workers) + q[w] - p[w]
  BY <1>2, <1>3, <1>4, <1>6, WorkersAssumption, SumChange
<1>8. SumFunction(q) = SumFunction(p) + Pending(w)' - Pending(w) BY <1>5, <1>6, <1>7 DEF SumFunction
<1>9. QED BY <1>8 DEF p, q

\* What a request knows stays true while its files stay as they are.
LEMMA KnowsStays ==
  ASSUME DiskType, DiskType', OpType, NEW v \in Workers, op'[v] = op[v], Knows(v),
         \A g \in Names(v) : Kept(g)
  PROVE  Knows(v)'
<1> DEFINE o == op[v]
<1>1. Kept(o.file) /\ Kept(o.to)
  <2>1. None \notin DOMAIN disk /\ None \notin DOMAIN disk' BY FilesAssumption DEF DiskType
  <2>2. Kept(None) BY <2>1 DEF Kept
  <2>3. o.file \in Files \union {None} /\ o.to \in Files \union {None} BY OpAt
  <2>4. (o.file \in Names(v) \/ o.file = None) /\ (o.to \in Names(v) \/ o.to = None)
    BY <2>3 DEF Names
  <2>5. QED BY <2>2, <2>4
<1>2. o.at = "reset" => (\A g \in Files : Kept(g))
  BY OpAt DEF Fine, Names
<1>3. o.at = "reset" /\ DOMAIN disk = {} => DOMAIN disk' = {}
  BY <1>2 DEF Kept, DiskType
<1>4. (o.file \in DOMAIN disk' <=> o.file \in DOMAIN disk) /\ (o.to \in DOMAIN disk' <=> o.to \in DOMAIN disk)
  BY <1>1 DEF Kept
<1>5. o.file \in DOMAIN disk => disk'[o.file] = disk[o.file] BY <1>1 DEF Kept
<1>6. QED BY <1>3, <1>4, <1>5 DEF Knows, Size

\* Who else is busy is at other files.
LEMMA OthersKept ==
  ASSUME NEW w \in Workers, NEW X, ~Clash, ~Clash', Effect(w, X),
         NEW v \in Workers, v # w, op[v].at # "idle"
  PROVE  \A g \in Names(v) : Kept(g)
<1>1. op'[v] = op[v] BY DEF Effect
<1>2. v \in Busy /\ v \in Busy' /\ Names(v)' = Names(v) BY <1>1 DEF Busy, Names
<1>3. CASE w \in Busy /\ X \subseteq Names(w)
  <2>1. Names(v) \intersect Names(w) = {} BY <1>2, <1>3 DEF Clash
  <2>2. QED BY <1>3, <2>1 DEF Effect
<1>4. CASE w \in Busy' /\ X \subseteq Names(w)'
  <2>1. Names(v)' \intersect Names(w)' = {} BY <1>2, <1>4 DEF Clash
  <2>2. QED BY <1>2, <1>4, <2>1 DEF Effect
<1>5. CASE X = {} BY <1>5 DEF Effect
<1>6. QED BY <1>3, <1>4, <1>5 DEF Effect

\* A step that accounts for what it does to its worker's own files leaves
\* nothing unaccounted.
LEMMA EffectQuiet ==
  ASSUME Calm, ~Clash', NEW w \in Workers, NEW X, Effect(w, X)
  PROVE  Quiet'
<1>1. ASSUME NEW v \in Workers, op'[v].at # "idle" PROVE Knows(v)'
  <2>1. CASE v = w BY <1>1, <2>1 DEF Effect
  <2>2. CASE v # w
    <3>1. op'[v] = op[v] BY <2>2 DEF Effect
    <3>2. Knows(v) BY <1>1, <3>1 DEF Calm, Quiet, Known
    <3>3. \A g \in Names(v) : Kept(g) BY <1>1, <2>2, <3>1, OthersKept DEF Calm, Quiet
    <3>4. QED BY <3>1, <3>2, <3>3, KnowsStays DEF Calm, Types
  <2>3. QED BY <2>1, <2>2
<1>2. Known' BY <1>1 DEF Known
<1>3. OpType /\ OpType' /\ DiskType /\ DiskType' /\ CountType /\ CountType' BY DEF Calm, Types
<1>4. SumFunction(Pendings)' = SumFunction(Pendings) + Pending(w)' - Pending(w)
  BY <1>3, PendingsChange DEF Effect
<1>5. Pending(w) \in Int BY <1>3, PendingInt
<1>6. Pending(w)' \in Int
  <2>1. op'[w].cur \in Nat /\ op'[w].len \in Sizes /\ op'[w].delta \in Int BY <1>3 DEF OpType, Requests
  <2>2. QED BY <2>1 DEF Pending, Sizes
<1>7. Total \in Int /\ usage \in Int /\ usage' \in Int BY <1>3, TotalNat DEF CountType
<1>8. Total' \in Int
  <2>1. DOMAIN disk' \subseteq Files /\ \A g \in DOMAIN disk' : disk'[g] \in Int BY <1>3 DEF DiskType, Sizes
  <2>2. IsFiniteSet(DOMAIN disk') BY <2>1, FilesAssumption, FS_Subset
  <2>3. SumFunction(disk') \in Int BY <2>1, <2>2, SumInt DEF SumFunction
  <2>4. QED BY <2>3 DEF Total
<1>9. SumFunction(Pendings) \in Int
  <2>1. \A v \in Workers : Pendings[v] \in Int BY <1>3, PendingInt DEF Pendings
  <2>2. DOMAIN Pendings = Workers BY DEF Pendings
  <2>3. QED BY <2>1, <2>2, WorkersAssumption, SumInt DEF SumFunction
<1>10. usage' + Pending(w)' + Total = usage + Pending(w) + Total' BY DEF Effect
<1>11. usage + SumFunction(Pendings) = Total BY DEF Calm, Quiet
<1>12. usage' + SumFunction(Pendings)' = Total'
  <2>1. usage' + Pending(w)' + (usage + SumFunction(Pendings)) = usage + Pending(w) + Total'
    BY <1>10, <1>11
  <2>2. usage' + (SumFunction(Pendings) + Pending(w)' - Pending(w)) = Total'
    BY <1>5, <1>6, <1>7, <1>8, <1>9, <2>1
  <2>3. QED BY <1>4, <2>2
<1>13. QED BY <1>2, <1>12 DEF Calm, Quiet

\* Claims of requests on their own files are at most the directory.
LEMMA OwnFiles ==
  ASSUME Types, Quiet, NEW g, \A v \in Workers : g[v] \in Int,
         \A v \in Workers : g[v] > 0 => /\ op[v].at # "idle" /\ op[v].file \in DOMAIN disk
                                        /\ g[v] <= disk[op[v].file]
  PROVE  SumFunctionOnSet(g, Workers) <= Total
<1> DEFINE F == [v \in Workers |-> op[v].file]
<1>1. IsFiniteSet(DOMAIN disk) /\ \A f \in DOMAIN disk : disk[f] \in Nat BY DiskSums DEF Types
<1>2. \A v \in Workers : F[v] = op[v].file OBVIOUS
<1> HIDE DEF F
<1>3. ASSUME NEW u \in Workers, NEW v \in Workers, u # v, g[u] > 0, g[v] > 0 PROVE F[u] # F[v]
  <2>1. u \in Busy /\ v \in Busy BY <1>3 DEF Busy
  <2>2. op[u].file \in Files /\ op[v].file \in Files BY <1>3 DEF Types, DiskType
  <2>3. op[u].file \in Names(u) /\ op[v].file \in Names(v) BY <2>2, FilesAssumption DEF Names
  <2>4. Names(u) \intersect Names(v) = {} BY <1>3, <2>1 DEF Quiet, Clash
  <2>5. QED BY <1>2, <2>3, <2>4
<1>4. SumFunctionOnSet(g, Workers) <= SumFunctionOnSet(disk, DOMAIN disk)
  <2>1. \A v \in Workers : g[v] > 0 => F[v] \in DOMAIN disk /\ g[v] <= disk[F[v]] BY <1>2
  <2>2. QED BY <1>1, <1>3, <2>1, WorkersAssumption, SumInject
<1>5. QED BY <1>4 DEF Total, SumFunction

\* What is still to be added is in the file of the request.
LEMMA PendingFits ==
  ASSUME Types, Quiet, NEW v \in Workers, Pending(v) > 0
  PROVE  op[v].at # "idle" /\ op[v].file \in DOMAIN disk /\ Pending(v) <= disk[op[v].file]
<1>1. op[v].cur \in Nat /\ op[v].len \in Sizes /\ op[v].delta \in Int /\ Fine(op[v]) BY OpAt DEF Types
<1>2. op[v].at # "idle" BY DEF Pending
<1>3. Knows(v) BY <1>2 DEF Quiet, Known
<1>4. CASE op[v].at \in {"load", "zero", "add"} /\ op[v].kind # "unlinkat"
  <2>1. Pending(v) = op[v].delta BY <1>4 DEF Pending
  <2>2. QED BY <1>1, <1>2, <1>3, <1>4, <2>1 DEF Knows
<1>5. CASE op[v].at = "fit"
  <2>1. Pending(v) = op[v].len BY <1>5 DEF Pending
  <2>2. QED BY <1>1, <1>2, <1>3, <1>5, <2>1 DEF Knows, Sizes
<1>6. CASE op[v].at = "unlink" /\ op[v].kind = "unlinkat"
  <2>1. Pending(v) = op[v].cur BY <1>6 DEF Pending
  <2>2. QED BY <1>1, <1>2, <1>3, <1>6, <2>1 DEF Knows
<1>7. CASE op[v].at = "copy" \/ op[v].at = "reset"
  <2>1. Pending(v) = -op[v].cur BY <1>7 DEF Pending
  <2>2. QED BY <1>1, <2>1
<1>8. QED BY <1>4, <1>5, <1>6, <1>7 DEF Pending

\* The sum of what is yet to be accounted for.
LEMMA PendingsSum ==
  ASSUME OpType
  PROVE  /\ SumFunction(Pendings) = SumFunctionOnSet(Pendings, Workers)
         /\ SumFunction(Pendings) \in Int
         /\ \A v \in Workers : Pendings[v] = Pending(v) /\ Pending(v) \in Int
<1>1. \A v \in Workers : Pendings[v] = Pending(v) /\ Pending(v) \in Int BY PendingInt DEF Pendings
<1>2. DOMAIN Pendings = Workers BY DEF Pendings
<1>3. QED BY <1>1, <1>2, WorkersAssumption, SumInt DEF SumFunction

\* The counter is not negative then.
LEMMA UsageNat == ASSUME Types, Quiet PROVE usage \in Nat
<1>1. OpType /\ DiskType /\ CountType BY DEF Types
<1>2. \A v \in Workers : Pendings[v] \in Int BY <1>1, PendingsSum
<1>3. \A v \in Workers : Pendings[v] > 0 => /\ op[v].at # "idle" /\ op[v].file \in DOMAIN disk
                                            /\ Pendings[v] <= disk[op[v].file]
  BY <1>1, PendingsSum, PendingFits
<1>4. SumFunctionOnSet(Pendings, Workers) <= Total BY <1>2, <1>3, OwnFiles
<1>5. QED BY <1>1, <1>4, PendingsSum, TotalNat DEF Quiet, CountType

\* Nothing is subtracted that the counter does not have.
LEMMA NotCapped ==
  ASSUME Types, Quiet, NEW w \in Workers, op[w].at = "load"
  PROVE  usage + op[w].delta >= 0
<1>1. OpType /\ DiskType /\ CountType BY DEF Types
<1>2. op[w].cur \in Nat /\ op[w].delta \in Int BY <1>1, OpAt
<1>3. Knows(w) BY DEF Quiet, Known
<1> DEFINE x == Pending(w) - op[w].delta
           g == [Pendings EXCEPT ![w] = x]
<1>4. x \in Int BY <1>1, <1>2, PendingInt
<1>5. x > 0 => op[w].file \in DOMAIN disk /\ x <= disk[op[w].file]
  <2>1. CASE op[w].kind # "unlinkat"
    <3>1. Pending(w) = op[w].delta BY <2>1 DEF Pending
    <3>2. QED BY <1>2, <3>1
  <2>2. CASE op[w].kind = "unlinkat"
    <3>1. Pending(w) = 0 BY <2>2 DEF Pending
    <3>2. QED BY <1>2, <1>3, <2>2, <3>1 DEF Knows
  <2>3. QED BY <2>1, <2>2
<1> HIDE DEF x
<1>6. \A v \in Workers : g[v] = IF v = w THEN x ELSE Pendings[v] BY DEF Pendings
<1> HIDE DEF g
<1>7. \A v \in Workers : g[v] \in Int BY <1>1, <1>4, <1>6, PendingsSum
<1>8. \A v \in Workers : g[v] > 0 => /\ op[v].at # "idle" /\ op[v].file \in DOMAIN disk
                                     /\ g[v] <= disk[op[v].file]
  BY <1>1, <1>5, <1>6, PendingsSum, PendingFits
<1>9. SumFunctionOnSet(g, Workers) <= Total BY <1>7, <1>8, OwnFiles
<1>10. SumFunctionOnSet(g, Workers) = SumFunctionOnSet(Pendings, Workers) + g[w] - Pendings[w]
  <2>1. \A v \in Workers : Pendings[v] \in Int BY <1>1, PendingsSum
  <2>2. \A v \in Workers : v # w => Pendings[v] = g[v] BY <1>6
  <2>3. QED BY <1>7, <2>1, <2>2, WorkersAssumption, SumChange
<1>11. usage + SumFunctionOnSet(Pendings, Workers) = Total BY <1>1, PendingsSum DEF Quiet
<1>12. g[w] - Pendings[w] = -op[w].delta BY <1>1, <1>2, <1>6, PendingsSum DEF x
<1>13. /\ SumFunctionOnSet(Pendings, Workers) \in Int /\ Total \in Int /\ usage \in Int
       /\ g[w] \in Int /\ Pendings[w] \in Int
  BY <1>1, <1>7, PendingsSum, TotalNat DEF CountType
<1>14. QED BY <1>2, <1>9, <1>10, <1>11, <1>12, <1>13

\* When the directory has been wiped and nobody is at a file of it, the counter
\* is what the wipe found.
LEMMA WipedAll ==
  ASSUME Types, Quiet, NEW w \in Workers, op[w].at = "reset"
  PROVE  usage = op[w].cur /\ Total = 0
<1>1. OpType /\ DiskType /\ CountType BY DEF Types
<1>2. op[w].cur \in Nat /\ op[w].kind = "truncate" BY <1>1, OpAt DEF Fine
<1>3. DOMAIN disk = {} BY DEF Quiet, Known, Knows
<1>4. Total = 0 BY <1>3, SumEmpty DEF Total, SumFunction
<1>5. ASSUME NEW v \in Workers, v # w PROVE Pending(v) = 0
  <2>1. CASE op[v].at = "idle" BY <2>1 DEF Pending
  <2>2. CASE op[v].at # "idle"
    <3>1. Names(w) = Files BY <1>2 DEF Names
    <3>2. Names(v) \intersect Files = {} BY <1>5, <2>2, <3>1 DEF Quiet, Clash, Busy
    <3>3. op[v].file \notin Files
      <4>1. CASE op[v].kind = "truncate" BY <3>2, <4>1 DEF Names
      <4>2. CASE op[v].kind # "truncate" BY <3>2, <4>2, FilesAssumption DEF Names
      <4>3. QED BY <4>1, <4>2
    <3>4. op[v].at \in {"check", "suffix", "reset"} BY <1>1, <2>2, <3>3, OpAt DEF Fine
    <3>5. op[v].at # "reset" BY <1>1, <3>2, OpAt, FilesAssumption DEF Fine, Names
    <3>6. QED BY <3>4, <3>5 DEF Pending
  <2>3. QED BY <2>1, <2>2
<1>6. SumFunctionOnSet(Pendings, Workers) = -op[w].cur
  <2> DEFINE R == Workers \ {w}
             z == [v \in Workers |-> 0]
  <2>1. Pendings[w] = -op[w].cur BY <1>1, PendingsSum DEF Pending
  <2>2. \A v \in Workers : Pendings[v] \in Int BY <1>1, PendingsSum
  <2>3. SumFunctionOnSet(Pendings, Workers) = Pendings[w] + SumFunctionOnSet(Pendings, R)
    BY <2>2, WorkersAssumption, SumRemove
  <2>4. \A v \in R : Pendings[v] = 0 BY <1>1, <1>5, PendingsSum
  <2>5. IsFiniteSet(R) BY WorkersAssumption, FS_RemoveElement
  <2> HIDE DEF R
  <2>6. SumFunctionOnSet(Pendings, R) = 0 BY <2>4, <2>5, SumZero
  <2>7. QED BY <1>2, <2>1, <2>3, <2>6
<1>7. usage + SumFunctionOnSet(Pendings, Workers) = Total BY <1>1, PendingsSum DEF Quiet
<1>8. usage \in Int BY <1>1 DEF CountType
<1>9. usage + (-op[w].cur) = 0 BY <1>4, <1>6, <1>7
<1>10. usage = op[w].cur
  <2> DEFINE c == op[w].cur
  <2>1. c \in Int /\ usage + (-c) = 0 BY <1>2, <1>9
  <2> HIDE DEF c
  <2>2. usage = c BY <1>8, <2>1
  <2>3. QED BY <2>2 DEF c
<1>11. QED BY <1>4, <1>10

-----------------------------------------------------------------------------
(* What each step does to its own files and to the counter.                 *)

\* A finite set of integers that is not empty has a maximum.
LEMMA MaxOf ==
  ASSUME NEW S, IsFiniteSet(S), S # {}, S \subseteq Int
  PROVE  Max(S) \in S /\ \A y \in S : Max(S) >= y
<1> DEFINE Q == {T \in SUBSET S : T # {} => \E x \in T : \A y \in T : x >= y}
<1>1. ASSUME NEW T \in SUBSET S, \A U \in SUBSET T : U # T => U \in Q PROVE T \in Q
  <2> SUFFICES ASSUME T # {} PROVE \E x \in T : \A y \in T : x >= y OBVIOUS
  <2>1. PICK z \in T : TRUE OBVIOUS
  <2>2. T \ {z} \in Q BY <1>1
  <2>3. CASE T = {z} BY <2>3
  <2>4. CASE T # {z}
    <3>1. PICK x \in T \ {z} : \A y \in T \ {z} : x >= y BY <2>2, <2>4
    <3>2. x \in Int /\ z \in Int OBVIOUS
    <3>3. CASE x >= z BY <3>1, <3>3
    <3>4. CASE ~(x >= z)
      <4>1. \A y \in T : z >= y BY <3>1, <3>2, <3>4
      <4>2. QED BY <4>1
    <3>5. QED BY <3>3, <3>4
  <2>5. QED BY <2>3, <2>4
<1> HIDE DEF Q
<1>2. S \in Q BY <1>1, SetInduction
<1>3. \E x \in S : \A y \in S : x >= y BY <1>2 DEF Q
<1>4. QED BY <1>3 DEF Max

\* It is a natural number, and no limit exceeds it.
LEMMA HighestIs == Highest \in Nat /\ \A i \in Limits : i <= Highest
<1> DEFINE S == Limits \union {0}
<1>1. IsFiniteSet(S) /\ S # {} /\ S \subseteq Int /\ 0 \in S BY LimitsAssumption, FS_AddElement
<1> HIDE DEF S
<1>2. Max(S) \in S /\ \A y \in S : Max(S) >= y BY <1>1, MaxOf
<1>3. QED BY <1>1, <1>2 DEF S, Highest

\* What fits is within the highest limit.
LEMMA FitsHighest ==
  ASSUME Types, Quiet, NEW n \in Int, CanFit(n), 0 \notin Limits
  PROVE  usage + n <= Highest
<1>1. limit \in Limits /\ limit \in Int BY LimitsAssumption DEF Types, RestType
<1>2. usage \in Nat BY UsageNat
<1>3. usage + n <= limit BY <1>1, <1>2 DEF CanFit
<1>4. QED BY <1>1, <1>2, <1>3, HighestIs

\* A step without drift has no cause, and no two requests at one file.
LEMMA DriftsCalm ==
  ASSUME NEW c, Drifts(c), drift' # "now"
  PROVE  ~c /\ ~Clash' /\ drift' = drift
  BY DEF Drifts

\* A directory that stays the same keeps every file and its size.
LEMMA SameDisk == UNCHANGED disk => (\A g : Kept(g)) /\ Total' = Total
  BY DEF Kept, Total

\* Only w's request changes.
LEMMA SetOnly ==
  ASSUME OpType, NEW w \in Workers, NEW r, op' = [op EXCEPT ![w] = r]
  PROVE  op'[w] = r /\ \A v \in Workers : v # w => op'[v] = op[v]
  BY DEF OpType

\* A step that changes no file.
LEMMA EffectNone ==
  ASSUME NEW w \in Workers, NEW r, OpType, op' = [op EXCEPT ![w] = r], UNCHANGED disk,
         op'[w].at # "idle" => Knows(w)',
         usage' + Pending(w)' = usage + Pending(w),
         0 \notin Limits => \/ usage' + Claim(w)' <= usage + Claim(w)
                            \/ usage' + Claim(w)' <= Highest
  PROVE  Effect(w, {})
<1>1. \A v \in Workers : v # w => op'[v] = op[v] BY SetOnly
<1>2. \A g : Kept(g) BY SameDisk
<1>3. Total' = Total BY SameDisk
<1>4. usage' + Pending(w)' + Total = usage + Pending(w) + Total' BY <1>3
<1>5. QED BY <1>1, <1>2, <1>4 DEF Effect

\* A request that begins.
LEMMA Idle ==
  ASSUME NEW w \in Workers, op[w] = NoOp
  PROVE  op[w].at = "idle" /\ Pending(w) = 0 /\ Claim(w) = 0
  BY DEF NoOp, Pending, Claim

\* What is known of a request before a step without drift.
LEMMA CalmFacts ==
  ASSUME Calm, NEW w \in Workers
  PROVE  /\ DiskType /\ DiskType' /\ OpType /\ OpType' /\ usage \in Nat
         /\ op[w] \in Requests /\ Fine(op[w])
         /\ op[w].file \in Files \union {None} /\ op[w].to \in Files \union {None}
         /\ op[w].cur \in Nat /\ op[w].len \in Nat /\ op[w].delta \in Int
         /\ op[w].at # "idle" => Knows(w) /\ w \in Busy
<1>1. Types /\ Types' /\ Quiet BY DEF Calm
<1>2. DiskType /\ DiskType' /\ OpType /\ OpType' BY <1>1 DEF Types
<1>3. usage \in Nat BY <1>1, UsageNat
<1>4. op[w].at # "idle" => Knows(w) /\ w \in Busy BY <1>1 DEF Quiet, Known, Busy
<1>5. op[w].len \in Nat BY <1>2, OpAt DEF Sizes
<1>6. QED BY <1>2, <1>3, <1>4, <1>5, OpAt

\* The effect of AddLoad.
LEMMA AddLoadEffect == ASSUME Calm, NEW w \in Workers, AddLoad(w) PROVE Effect(w, {})
<1> DEFINE r == [op[w] EXCEPT !.at = "add"]
<1>1. op[w].at = "load" /\ UNCHANGED <<disk, usage>> BY DEF AddLoad
<1>2. usage \in Nat /\ op[w].delta \in Int /\ op[w] \in Requests /\ Knows(w) /\ OpType
  BY <1>1, CalmFacts
<1>3. ~(usage + op[w].delta < 0) BY <1>1, <1>2, NotCapped DEF Calm
<1>4. op' = [op EXCEPT ![w] = r] BY <1>3 DEF AddLoad, Goto
<1>5. op'[w] = r BY <1>2, <1>4, SetOnly
<1>6. /\ op'[w].at = "add" /\ op'[w].kind = op[w].kind /\ op'[w].file = op[w].file
      /\ op'[w].held = op[w].held /\ op'[w].cur = op[w].cur /\ op'[w].delta = op[w].delta
  BY <1>2, <1>5 DEF Requests
<1> HIDE DEF r
<1>7. Knows(w)' BY <1>1, <1>2, <1>6 DEF Knows, Size
<1>8. Pending(w)' = Pending(w) /\ Claim(w)' = Claim(w) BY <1>1, <1>6 DEF Pending, Claim
<1>9. Claim(w) \in Int BY <1>2, <1>1 DEF Claim
<1>10. usage' + Pending(w)' = usage + Pending(w) BY <1>1, <1>8
<1>11. usage' + Claim(w)' <= usage + Claim(w) BY <1>1, <1>2, <1>8, <1>9
<1>12. QED BY <1>1, <1>2, <1>4, <1>7, <1>10, <1>11, EffectNone

\* The effect of AddStore.
LEMMA AddStoreEffect == ASSUME Calm, NEW w \in Workers, AddStore(w) PROVE Effect(w, {})
<1>1. op[w].at \in {"zero", "add"} /\ UNCHANGED disk BY DEF AddStore
<1>2. /\ usage \in Nat /\ op[w].delta \in Int /\ op[w].cur \in Nat /\ op[w] \in Requests
      /\ Knows(w) /\ Fine(op[w]) /\ OpType
  BY <1>1, CalmFacts
<1>3. op[w].at = "add" /\ usage' = usage + op[w].delta BY <1>1, <1>2 DEF AddStore, Knows
<1>4. CASE op[w].kind = "unlinkat"
  <2> DEFINE r == [op[w] EXCEPT !.at = "unlink"]
  <2>1. op' = [op EXCEPT ![w] = r] BY <1>4 DEF AddStore, Goto, AfterAdd
  <2>2. op'[w] = r BY <1>2, <2>1, SetOnly
  <2>3. /\ op'[w].at = "unlink" /\ op'[w].kind = op[w].kind /\ op'[w].file = op[w].file
        /\ op'[w].held = op[w].held /\ op'[w].cur = op[w].cur
    BY <1>2, <2>2 DEF Requests
  <2> HIDE DEF r
  <2>4. Knows(w)' BY <1>1, <1>2, <1>4, <2>3 DEF Knows, Size
  <2>5. Pending(w) = 0 /\ Pending(w)' = op[w].cur /\ Claim(w) = 0 /\ Claim(w)' = 0
    BY <1>3, <1>4, <2>3 DEF Pending, Claim
  <2>6. op[w].delta = -op[w].cur BY <1>2, <1>3, <1>4 DEF Knows
  <2>7. usage' + Pending(w)' = usage + Pending(w) BY <1>2, <1>3, <2>5, <2>6
  <2>8. usage' + Claim(w)' <= usage + Claim(w) BY <1>2, <1>3, <2>5, <2>6
  <2>9. QED BY <1>1, <1>2, <2>1, <2>4, <2>7, <2>8, EffectNone
<1>5. CASE op[w].kind = "inflate" /\ op[w].cur < op[w].len
  <2> DEFINE r == [op[w] EXCEPT !.at = "check"]
  <2>1. op' = [op EXCEPT ![w] = r] BY <1>5 DEF AddStore, Goto, AfterAdd
  <2>2. op'[w] = r BY <1>2, <2>1, SetOnly
  <2>3. /\ op'[w].at = "check" /\ op'[w].kind = op[w].kind /\ op'[w].file = op[w].file
        /\ op'[w].held = op[w].held /\ op'[w].cur = op[w].cur
    BY <1>2, <2>2 DEF Requests
  <2> HIDE DEF r
  <2>4. Knows(w)' BY <1>1, <1>2, <1>5, <2>3 DEF Knows, Size
  <2>5. Pending(w) = op[w].delta /\ Pending(w)' = 0 /\ Claim(w) = op[w].delta /\ Claim(w)' = 0
    BY <1>3, <1>5, <2>3 DEF Pending, Claim
  <2>6. usage' + Pending(w)' = usage + Pending(w) BY <1>2, <1>3, <2>5
  <2>7. usage' + Claim(w)' <= usage + Claim(w) BY <1>2, <1>3, <2>5
  <2>8. QED BY <1>1, <1>2, <2>1, <2>4, <2>6, <2>7, EffectNone
<1>6. CASE op[w].kind # "unlinkat" /\ ~(op[w].kind = "inflate" /\ op[w].cur < op[w].len)
  <2>1. op' = [op EXCEPT ![w] = NoOp] BY <1>6 DEF AddStore, Goto, AfterAdd
  <2>2. op'[w] = NoOp BY <1>2, <2>1, SetOnly
  <2>3. op'[w].at = "idle" /\ Pending(w)' = 0 /\ Claim(w)' = 0 BY <2>2 DEF NoOp, Pending, Claim
  <2>4. Pending(w) = op[w].delta /\ Claim(w) = op[w].delta BY <1>3, <1>6 DEF Pending, Claim
  <2>5. usage' + Pending(w)' = usage + Pending(w) BY <1>2, <1>3, <2>3, <2>4
  <2>6. usage' + Claim(w)' <= usage + Claim(w) BY <1>2, <1>3, <2>3, <2>4
  <2>7. QED BY <1>1, <1>2, <2>1, <2>3, <2>5, <2>6, EffectNone
<1>7. QED BY <1>4, <1>5, <1>6

\* A request begins and has not done anything yet.
LEMMA EffectBegun ==
  ASSUME Calm, NEW w \in Workers, NEW r \in Requests, op[w] = NoOp, op' = [op EXCEPT ![w] = r],
         UNCHANGED <<disk, usage>>, Knows(w)',
         r.at \in {"check", "open", "lstat", "rename"} \/ (r.at = "load" /\ r.kind = "unlinkat"),
         r.at = "open" => r.kind = "compress"
  PROVE  Effect(w, {})
<1>1. OpType /\ usage \in Nat BY CalmFacts
<1>2. op'[w] = r BY <1>1, SetOnly
<1>3. Pending(w)' = 0 /\ Claim(w)' = 0 BY <1>2 DEF Pending, Claim
<1>4. Pending(w) = 0 /\ Claim(w) = 0 BY Idle
<1>5. usage' + Pending(w)' = usage + Pending(w) BY <1>3, <1>4
<1>6. usage' + Claim(w)' <= usage + Claim(w) BY <1>1, <1>3, <1>4
<1>7. UNCHANGED disk OBVIOUS
<1>8. QED BY <1>1, <1>5, <1>6, <1>7, EffectNone

\* The effect of WriteStat.
LEMMA WriteStatEffect ==
  ASSUME Calm, NEW w \in Workers, NEW f \in Files, NEW n \in Sizes, WriteStat(w, f, n)
  PROVE  Effect(w, {})
<1> DEFINE s == Size(f)
           r == [NoOp EXCEPT !.at = "check", !.kind = "write", !.file = f, !.cur = s, !.len = n]
<1>1. op' = [op EXCEPT ![w] = r] /\ op[w] = NoOp /\ UNCHANGED <<disk, usage>> BY DEF WriteStat
<1>2. OpType /\ OpType' BY CalmFacts
<1>3. op'[w] = r BY <1>1, <1>2, SetOnly
<1>4. op'[w] \in Requests BY <1>2 DEF OpType
<1>5. /\ r.at = "check" /\ r.kind = "write" /\ r.file = f /\ r.cur = s /\ r.held = None
  BY DEF NoOp
<1> HIDE DEF r
<1>6. Knows(w)' BY <1>1, <1>3, <1>5 DEF Knows, Size
<1>7. QED BY <1>1, <1>3, <1>4, <1>5, <1>6, EffectBegun

\* The effect of CopyStat.
LEMMA CopyStatEffect ==
  ASSUME Calm, NEW w \in Workers, NEW f \in Files, CopyStat(w, f)
  PROVE  Effect(w, {})
<1> DEFINE r == [NoOp EXCEPT !.at = "check", !.kind = "copy", !.len = disk[f]]
<1>1. op' = [op EXCEPT ![w] = r] /\ op[w] = NoOp /\ UNCHANGED <<disk, usage>> BY DEF CopyStat
<1>2. OpType /\ OpType' BY CalmFacts
<1>3. op'[w] = r BY <1>1, <1>2, SetOnly
<1>4. op'[w] \in Requests BY <1>2 DEF OpType
<1>5. r.at = "check" /\ r.kind = "copy" /\ r.file = None /\ r.cur = 0 /\ r.held = None
  BY DEF NoOp
<1> HIDE DEF r
<1>6. Knows(w)' BY <1>1, <1>3, <1>5 DEF Knows, Size
<1>7. QED BY <1>1, <1>3, <1>4, <1>5, <1>6, EffectBegun

\* The effect of CompressSuffix.
LEMMA CompressSuffixEffect ==
  ASSUME Calm, NEW w \in Workers, NEW g \in Files, CompressSuffix(w, g)
  PROVE  Effect(w, {})
<1> DEFINE r == [NoOp EXCEPT !.at = "open", !.kind = "compress", !.file = g]
<1>1. op' = [op EXCEPT ![w] = r] /\ op[w] = NoOp /\ UNCHANGED <<disk, usage>> /\ g \notin DOMAIN disk
  BY DEF CompressSuffix, Begin
<1>2. OpType /\ OpType' BY CalmFacts
<1>3. op'[w] = r BY <1>1, <1>2, SetOnly
<1>4. op'[w] \in Requests BY <1>2 DEF OpType
<1>5. r.at = "open" /\ r.kind = "compress" /\ r.file = g /\ r.cur = 0 /\ r.held = None
  BY DEF NoOp
<1> HIDE DEF r
<1>6. Knows(w)' BY <1>1, <1>3, <1>5 DEF Knows, Size
<1>7. QED BY <1>1, <1>3, <1>4, <1>5, <1>6, EffectBegun

\* The effect of CompressStamp.
LEMMA CompressStampEffect ==
  ASSUME Calm, NEW w \in Workers, NEW g \in Files, CompressStamp(w, g)
  PROVE  Effect(w, {})
<1> DEFINE r == [NoOp EXCEPT !.at = "open", !.kind = "compress", !.file = g]
<1>1. op' = [op EXCEPT ![w] = r] /\ op[w] = NoOp /\ UNCHANGED <<disk, usage>>
  BY DEF CompressStamp, Begin
<1>2. OpType /\ OpType' BY CalmFacts
<1>3. op'[w] = r BY <1>1, <1>2, SetOnly
<1>4. op'[w] \in Requests BY <1>2 DEF OpType
<1>5. r.at = "open" /\ r.kind = "compress" /\ r.file = g /\ r.cur = 0 /\ r.held = None
  BY DEF NoOp
<1> HIDE DEF r
<1>6. Size(g) = 0
  <2>1. ~(Size(g) > 0) BY DEF CompressStamp, Drifts, Calm
  <2>2. Size(g) \in Nat BY CalmFacts DEF Size, DiskType, Sizes
  <2>3. QED BY <2>1, <2>2
<1>7. Knows(w)' BY <1>1, <1>3, <1>5, <1>6 DEF Knows, Size
<1>8. QED BY <1>1, <1>3, <1>4, <1>5, <1>7, EffectBegun

\* The effect of RemoveBegin.
LEMMA RemoveBeginEffect ==
  ASSUME Calm, NEW w \in Workers, NEW f \in Files, RemoveBegin(w, f)
  PROVE  Effect(w, {})
<1> DEFINE r == [NoOp EXCEPT !.at = "lstat", !.kind = "remove", !.file = f]
<1>1. op' = [op EXCEPT ![w] = r] /\ op[w] = NoOp /\ UNCHANGED <<disk, usage>>
  BY DEF RemoveBegin, Begin
<1>2. OpType /\ OpType' BY CalmFacts
<1>3. op'[w] = r BY <1>1, <1>2, SetOnly
<1>4. op'[w] \in Requests BY <1>2 DEF OpType
<1>5. r.at = "lstat" /\ r.kind = "remove" /\ r.file = f /\ r.cur = 0 /\ r.held = None
  BY DEF NoOp
<1> HIDE DEF r
<1>6. Knows(w)' BY <1>1, <1>3, <1>5 DEF Knows, Size
<1>7. QED BY <1>1, <1>3, <1>4, <1>5, <1>6, EffectBegun

\* The effect of UnlinkatStat.
LEMMA UnlinkatStatEffect ==
  ASSUME Calm, NEW w \in Workers, NEW f \in Files, UnlinkatStat(w, f)
  PROVE  Effect(w, {})
<1> DEFINE c == disk[f]
           d == -disk[f]
           r == [NoOp EXCEPT !.at = "load", !.kind = "unlinkat", !.file = f, !.cur = c, !.delta = d]
<1>1. op' = [op EXCEPT ![w] = r] /\ op[w] = NoOp /\ UNCHANGED <<disk, usage>> /\ f \in DOMAIN disk
  BY DEF UnlinkatStat
<1>2. OpType /\ OpType' BY CalmFacts
<1>3. op'[w] = r BY <1>1, <1>2, SetOnly
<1>4. op'[w] \in Requests BY <1>2 DEF OpType
<1>5. /\ r.at = "load" /\ r.kind = "unlinkat" /\ r.file = f /\ r.cur = c /\ r.held = None
      /\ r.delta = -r.cur
  BY DEF NoOp
<1> HIDE DEF r
<1>6. Knows(w)' BY <1>1, <1>3, <1>5 DEF Knows, Size
<1>7. QED BY <1>1, <1>3, <1>4, <1>5, <1>6, EffectBegun

\* The effect of RenameStat.
LEMMA RenameStatEffect ==
  ASSUME Calm, NEW w \in Workers, NEW f \in Files, NEW g \in Files, RenameStat(w, f, g)
  PROVE  Effect(w, {})
<1> DEFINE r == [NoOp EXCEPT !.at = "rename", !.kind = "rename", !.file = f, !.to = g]
<1>1. /\ op' = [op EXCEPT ![w] = r] /\ op[w] = NoOp /\ UNCHANGED <<disk, usage>>
      /\ f \in DOMAIN disk /\ g \notin DOMAIN disk
  BY DEF RenameStat
<1>2. OpType /\ OpType' BY CalmFacts
<1>3. op'[w] = r BY <1>1, <1>2, SetOnly
<1>4. op'[w] \in Requests BY <1>2 DEF OpType
<1>5. r.at = "rename" /\ r.kind = "rename" /\ r.file = f /\ r.to = g /\ r.held = None
  BY DEF NoOp
<1> HIDE DEF r
<1>6. Knows(w)' BY <1>1, <1>3, <1>5 DEF Knows, Size
<1>7. QED BY <1>1, <1>3, <1>4, <1>5, <1>6, EffectBegun

\* The effect of Check.
LEMMA CheckEffect == ASSUME Calm, NEW w \in Workers, Check(w) PROVE Effect(w, {})
<1>1. op[w].at = "check" /\ UNCHANGED <<disk, usage>> BY DEF Check
<1>2. /\ usage \in Nat /\ op[w].len \in Nat /\ op[w].cur \in Nat /\ op[w] \in Requests
      /\ Knows(w) /\ Fine(op[w]) /\ OpType /\ Types /\ Quiet
  BY <1>1, CalmFacts DEF Calm
<1>3. op[w].kind \in {"write", "copy", "inflate"} BY <1>1, <1>2 DEF Fine
<1>4. Pending(w) = 0 /\ Claim(w) = 0 BY <1>1 DEF Pending, Claim
<1>5. Need(w) \in Int BY <1>2 DEF Need
<1>6. CASE ~CanFit(Need(w))
  <2>1. op' = [op EXCEPT ![w] = NoOp] BY <1>6 DEF Check, Goto
  <2>2. op'[w] = NoOp BY <1>2, <2>1, SetOnly
  <2>3. op'[w].at = "idle" /\ Pending(w)' = 0 /\ Claim(w)' = 0 BY <2>2 DEF NoOp, Pending, Claim
  <2>4. usage' + Pending(w)' = usage + Pending(w) BY <1>1, <1>4, <2>3
  <2>5. usage' + Claim(w)' <= usage + Claim(w) BY <1>1, <1>2, <1>4, <2>3
  <2>6. QED BY <1>1, <1>2, <2>1, <2>3, <2>4, <2>5, EffectNone
<1>7. ASSUME CanFit(Need(w)), NEW a \in {"touch", "suffix", "chunk"},
             a = "touch" => op[w].kind = "write", a = "suffix" => op[w].kind = "copy",
             a = "chunk" => op[w].kind = "inflate",
             op' = [op EXCEPT ![w] = [op[w] EXCEPT !.at = a]]
      PROVE  Effect(w, {})
  <2> DEFINE r == [op[w] EXCEPT !.at = a]
  <2>1. op' = [op EXCEPT ![w] = r] BY <1>7
  <2>2. op'[w] = r BY <1>2, <2>1, SetOnly
  <2>3. /\ op'[w].at = a /\ op'[w].kind = op[w].kind /\ op'[w].file = op[w].file
        /\ op'[w].held = op[w].held /\ op'[w].cur = op[w].cur /\ op'[w].len = op[w].len
    BY <1>2, <2>2 DEF Requests
  <2> HIDE DEF r
  <2>4. Knows(w)'
    <3>1. CASE a = "touch" BY <1>1, <1>2, <1>7, <2>3, <3>1 DEF Knows, Size
    <3>2. CASE a = "suffix" BY <1>1, <1>2, <1>7, <2>3, <3>2 DEF Knows, Size
    <3>3. CASE a = "chunk" BY <1>1, <1>2, <1>7, <2>3, <3>3 DEF Knows, Size
    <3>4. QED BY <3>1, <3>2, <3>3
  <2>5. Pending(w)' = 0 BY <2>3 DEF Pending
  <2>6. 0 \notin Limits => usage + Need(w) <= Highest BY <1>2, <1>5, <1>7, FitsHighest
  <2>7. Claim(w)' = Need(w) \/ Claim(w)' = 0
    <3>1. CASE a = "touch" BY <1>2, <1>7, <2>3, <3>1 DEF Claim, Need
    <3>2. CASE a = "suffix"
      <4>1. op[w].cur = 0 BY <1>2, <1>7, <3>2 DEF Knows
      <4>2. QED BY <1>2, <1>7, <2>3, <3>2, <4>1 DEF Claim, Need
    <3>3. CASE a = "chunk" BY <1>7, <2>3, <3>3 DEF Claim, Need
    <3>4. QED BY <3>1, <3>2, <3>3
  <2>8. 0 \notin Limits => \/ usage' + Claim(w)' <= usage + Claim(w)
                           \/ usage' + Claim(w)' <= Highest
    BY <1>1, <1>2, <1>4, <2>6, <2>7
  <2>9. usage' + Pending(w)' = usage + Pending(w) BY <1>1, <1>4, <2>5
  <2>10. QED BY <1>1, <1>2, <2>1, <2>4, <2>8, <2>9, EffectNone
<1>8. CASE CanFit(Need(w))
  <2>1. CASE op[w].kind = "write"
    <3>1. op' = [op EXCEPT ![w] = [op[w] EXCEPT !.at = "touch"]] BY <1>8, <2>1 DEF Check, Goto
    <3>2. QED BY <1>7, <1>8, <2>1, <3>1
  <2>2. CASE op[w].kind = "copy"
    <3>1. op' = [op EXCEPT ![w] = [op[w] EXCEPT !.at = "suffix"]] BY <1>8, <2>2 DEF Check, Goto
    <3>2. QED BY <1>7, <1>8, <2>2, <3>1
  <2>3. CASE op[w].kind = "inflate"
    <3>1. op' = [op EXCEPT ![w] = [op[w] EXCEPT !.at = "chunk"]] BY <1>8, <2>3 DEF Check, Goto
    <3>2. QED BY <1>7, <1>8, <2>3, <3>1
  <2>4. QED BY <1>3, <2>1, <2>2, <2>3
<1>9. QED BY <1>6, <1>8

\* The effect of TouchFails.
LEMMA TouchFailsEffect == ASSUME Calm, NEW w \in Workers, TouchFails(w) PROVE Effect(w, {})
<1>1. op[w].at \in {"touch", "open"} /\ UNCHANGED <<disk, usage>> BY DEF TouchFails
<1>2. /\ usage \in Nat /\ op[w].len \in Nat /\ op[w].cur \in Nat /\ OpType BY CalmFacts
<1>3. Pending(w) = 0 BY <1>1 DEF Pending
<1>4. Claim(w) \in Nat BY <1>1, <1>2 DEF Claim
<1>5. op' = [op EXCEPT ![w] = NoOp] BY DEF TouchFails, Goto
<1>6. op'[w] = NoOp BY <1>2, <1>5, SetOnly
<1>7. op'[w].at = "idle" /\ Pending(w)' = 0 /\ Claim(w)' = 0 BY <1>6 DEF NoOp, Pending, Claim
<1>8. usage' + Pending(w)' = usage + Pending(w) BY <1>1, <1>3, <1>7
<1>9. usage' + Claim(w)' <= usage + Claim(w) BY <1>1, <1>2, <1>4, <1>7
<1>10. QED BY <1>1, <1>2, <1>5, <1>7, <1>8, <1>9, EffectNone

\* The effect of Suffix.
LEMMA SuffixEffect ==
  ASSUME Calm, NEW w \in Workers, NEW g \in Files, Suffix(w, g)
  PROVE  Effect(w, {})
<1> DEFINE r == [op[w] EXCEPT !.file = g, !.at = "open"]
<1>1. /\ op[w].at = "suffix" /\ UNCHANGED <<disk, usage>> /\ g \notin DOMAIN disk
      /\ op' = [op EXCEPT ![w] = r]
  BY DEF Suffix
<1>2. /\ usage \in Nat /\ op[w].len \in Nat /\ op[w] \in Requests /\ Knows(w) /\ Fine(op[w]) /\ OpType
  BY <1>1, CalmFacts
<1>3. op'[w] = r BY <1>1, <1>2, SetOnly
<1>4. /\ op'[w].at = "open" /\ op'[w].kind = op[w].kind /\ op'[w].file = g
      /\ op'[w].held = op[w].held /\ op'[w].cur = op[w].cur /\ op'[w].len = op[w].len
  BY <1>2, <1>3 DEF Requests
<1> HIDE DEF r
<1>5. op[w].kind = "copy" BY <1>1, <1>2 DEF Fine
<1>6. op[w].held = None BY <1>1, <1>2, <1>5 DEF Knows
<1>7. Knows(w)' BY <1>1, <1>2, <1>4, <1>5, <1>6 DEF Knows, Size
<1>8. Pending(w) = 0 /\ Pending(w)' = 0 /\ Claim(w) = op[w].len /\ Claim(w)' = op[w].len
  BY <1>1, <1>4, <1>5 DEF Pending, Claim
<1>9. usage' + Pending(w)' = usage + Pending(w) BY <1>1, <1>8
<1>10. usage' + Claim(w)' <= usage + Claim(w) BY <1>1, <1>2, <1>8
<1>11. QED BY <1>1, <1>2, <1>7, <1>9, <1>10, EffectNone

\* The effect of Fit.
LEMMA FitEffect == ASSUME Calm, NEW w \in Workers, Fit(w) PROVE Effect(w, {})
<1> DEFINE d == op[w].len
           r == [op[w] EXCEPT !.at = "load", !.delta = d]
<1>1. op[w].at = "fit" /\ UNCHANGED <<disk, usage>> BY DEF Fit
<1>2. /\ usage \in Nat /\ op[w].len \in Nat /\ op[w] \in Requests /\ Knows(w) /\ Fine(op[w])
      /\ OpType /\ Types /\ Quiet
  BY <1>1, CalmFacts DEF Calm
<1>3. CanFit(op[w].len) BY DriftsCalm DEF Fit, Calm
<1>4. op' = [op EXCEPT ![w] = r] BY <1>3 DEF Fit
<1>5. op'[w] = r BY <1>2, <1>4, SetOnly
<1>6. /\ op'[w].at = "load" /\ op'[w].kind = op[w].kind /\ op'[w].file = op[w].file
      /\ op'[w].held = op[w].held /\ op'[w].cur = op[w].cur /\ op'[w].delta = op[w].len
  BY <1>2, <1>5 DEF Requests
<1> HIDE DEF r, d
<1>7. op[w].kind = "compress" BY <1>1, <1>2 DEF Fine
<1>8. Knows(w)' BY <1>1, <1>2, <1>6, <1>7 DEF Knows, Size
<1>9. Pending(w) = op[w].len /\ Pending(w)' = op[w].len /\ Claim(w)' = op[w].len
  BY <1>1, <1>6, <1>7 DEF Pending, Claim
<1>10. usage' + Pending(w)' = usage + Pending(w) BY <1>1, <1>9
<1>11. 0 \notin Limits => usage + op[w].len <= Highest BY <1>2, <1>3, FitsHighest
<1>12. 0 \notin Limits => usage' + Claim(w)' <= Highest BY <1>1, <1>9, <1>11
<1>13. QED BY <1>1, <1>2, <1>4, <1>8, <1>10, <1>12, EffectNone

\* The effect of RemoveStat.
LEMMA RemoveStatEffect == ASSUME Calm, NEW w \in Workers, RemoveStat(w) PROVE Effect(w, {})
<1>1. op[w].at = "lstat" /\ UNCHANGED <<disk, usage>> BY DEF RemoveStat
<1>2. usage \in Nat /\ op[w] \in Requests /\ Knows(w) /\ Fine(op[w]) /\ OpType BY <1>1, CalmFacts
<1>3. op[w].kind = "remove" BY <1>1, <1>2 DEF Fine, Knows
<1>4. Pending(w) = 0 /\ Claim(w) = 0 BY <1>1 DEF Pending, Claim
<1>5. CASE op[w].file \notin DOMAIN disk
  <2>1. op' = [op EXCEPT ![w] = NoOp] BY <1>5 DEF RemoveStat
  <2>2. op'[w] = NoOp BY <1>2, <2>1, SetOnly
  <2>3. op'[w].at = "idle" /\ Pending(w)' = 0 /\ Claim(w)' = 0 BY <2>2 DEF NoOp, Pending, Claim
  <2>4. usage' + Pending(w)' = usage + Pending(w) BY <1>1, <1>4, <2>3
  <2>5. usage' + Claim(w)' <= usage + Claim(w) BY <1>1, <1>2, <1>4, <2>3
  <2>6. QED BY <1>1, <1>2, <2>1, <2>3, <2>4, <2>5, EffectNone
<1>6. CASE op[w].file \in DOMAIN disk
  <2> DEFINE c == disk[op[w].file]
             r == [op[w] EXCEPT !.at = "unlink", !.cur = c]
  <2>1. op' = [op EXCEPT ![w] = r] BY <1>6 DEF RemoveStat
  <2>2. op'[w] = r BY <1>2, <2>1, SetOnly
  <2>3. /\ op'[w].at = "unlink" /\ op'[w].kind = op[w].kind /\ op'[w].file = op[w].file
        /\ op'[w].held = op[w].held /\ op'[w].cur = disk[op[w].file]
    BY <1>2, <2>2 DEF Requests
  <2> HIDE DEF r, c
  <2>4. Knows(w)' BY <1>1, <1>2, <1>3, <1>6, <2>3 DEF Knows, Size
  <2>5. Pending(w)' = 0 /\ Claim(w)' = 0 BY <1>3, <2>3 DEF Pending, Claim
  <2>6. usage' + Pending(w)' = usage + Pending(w) BY <1>1, <1>4, <2>5
  <2>7. usage' + Claim(w)' <= usage + Claim(w) BY <1>1, <1>2, <1>4, <2>5
  <2>8. QED BY <1>1, <1>2, <2>1, <2>4, <2>6, <2>7, EffectNone
<1>7. QED BY <1>5, <1>6

\* The effect of UnlinkFails.
LEMMA UnlinkFailsEffect == ASSUME Calm, NEW w \in Workers, UnlinkFails(w) PROVE Effect(w, {})
<1> DEFINE f == op[w].file
           c == disk[f]
           d == -disk[f]
           r == [op[w] EXCEPT !.at = "load", !.kind = "unlinkat", !.cur = c, !.delta = d]
<1>1. op[w].at = "unlink" /\ UNCHANGED <<disk, usage>> BY DEF UnlinkFails
<1>2. usage \in Nat /\ op[w] \in Requests /\ Knows(w) /\ Fine(op[w]) /\ OpType BY <1>1, CalmFacts
<1>3. op[w].kind # "unlinkat" BY DriftsCalm DEF UnlinkFails, Calm
<1>4. op[w].kind = "remove" /\ f \in DOMAIN disk BY <1>1, <1>2, <1>3 DEF Fine, Knows
<1>5. op' = [op EXCEPT ![w] = r] BY <1>4 DEF UnlinkFails
<1>6. op'[w] = r BY <1>2, <1>5, SetOnly
<1>7. /\ op'[w].at = "load" /\ op'[w].kind = "unlinkat" /\ op'[w].file = op[w].file
      /\ op'[w].held = op[w].held /\ op'[w].cur = disk[op[w].file] /\ op'[w].delta = -disk[op[w].file]
  BY <1>2, <1>6 DEF Requests
<1> HIDE DEF r, c, d
<1>8. Knows(w)' BY <1>1, <1>2, <1>4, <1>7 DEF Knows, Size
<1>9. Pending(w) = 0 /\ Pending(w)' = 0 /\ Claim(w) = 0 /\ Claim(w)' = 0
  BY <1>1, <1>4, <1>7 DEF Pending, Claim
<1>10. usage' + Pending(w)' = usage + Pending(w) BY <1>1, <1>9
<1>11. usage' + Claim(w)' <= usage + Claim(w) BY <1>1, <1>2, <1>9
<1>12. QED BY <1>1, <1>2, <1>5, <1>8, <1>10, <1>11, EffectNone

\* The effect of Reset.
LEMMA ResetEffect == ASSUME Calm, NEW w \in Workers, Reset(w) PROVE Effect(w, {})
<1>1. op[w].at = "reset" /\ UNCHANGED disk /\ usage' = 0 BY DEF Reset
<1>2. usage \in Nat /\ op[w].cur \in Nat /\ OpType /\ Types /\ Quiet BY CalmFacts DEF Calm
<1>3. usage = op[w].cur BY <1>1, <1>2, WipedAll
<1>4. op' = [op EXCEPT ![w] = NoOp] BY DEF Reset, Goto
<1>5. op'[w] = NoOp BY <1>2, <1>4, SetOnly
<1>6. op'[w].at = "idle" /\ Pending(w)' = 0 /\ Claim(w)' = 0 BY <1>5 DEF NoOp, Pending, Claim
<1>7. Pending(w) = -op[w].cur BY <1>1 DEF Pending
<1>8. usage' + Pending(w)' = usage + Pending(w)
  <2> DEFINE c == op[w].cur
  <2>1. c \in Int /\ usage = c /\ Pending(w) = -c BY <1>2, <1>3, <1>7
  <2> HIDE DEF c
  <2>2. QED BY <1>1, <1>6, <2>1
<1>9. usage' + Claim(w)' <= Highest BY <1>1, <1>6, HighestIs
<1>10. QED BY <1>1, <1>2, <1>4, <1>6, <1>8, <1>9, EffectNone

\* A step that changes one file.
LEMMA EffectOne ==
  ASSUME Calm, NEW w \in Workers, NEW f, UNCHANGED usage,
         \A v \in Workers : v # w => op'[v] = op[v],
         \A g : g # f => Kept(g),
         (w \in Busy /\ f \in Names(w)) \/ (w \in Busy' /\ f \in Names(w)'),
         op'[w].at # "idle" => Knows(w)',
         Pending(w)' - Pending(w) = At(disk', f) - At(disk, f),
         Claim(w) \in Int, Claim(w)' \in Int,
         Claim(w)' <= Claim(w)
  PROVE  Effect(w, {f})
<1>1. DiskType /\ DiskType' /\ OpType /\ OpType' /\ usage \in Nat BY CalmFacts
<1>2. Total' = Total + At(disk', f) - At(disk, f) BY <1>1, TotalStep
<1>3. Total \in Int /\ At(disk, f) \in Int BY <1>1, TotalNat, DiskSums DEF At
<1>4. At(disk', f) \in Int BY <1>1 DEF At, DiskType, Sizes
<1>5. Pending(w) \in Int BY <1>1, PendingInt
<1>6. Pending(w)' \in Int
  <2>1. op'[w].cur \in Nat /\ op'[w].len \in Sizes /\ op'[w].delta \in Int BY <1>1 DEF OpType, Requests
  <2>2. QED BY <2>1 DEF Pending, Sizes
<1>7. usage' + Pending(w)' + Total = usage + Pending(w) + Total' BY <1>1, <1>2, <1>3, <1>4, <1>5, <1>6
<1>8. usage' + Claim(w)' <= usage + Claim(w) BY <1>1
<1>9. \/ w \in Busy /\ {f} \subseteq Names(w)
      \/ w \in Busy' /\ {f} \subseteq Names(w)'
  OBVIOUS
<1>10. \A g : g \notin {f} => Kept(g) OBVIOUS
<1>11. QED BY <1>7, <1>8, <1>9, <1>10 DEF Effect

\* Creating or truncating a file changes that file only.
LEMMA PutOnly ==
  ASSUME NEW f, NEW n, Put(f, n)
  PROVE  (\A g : g # f => Kept(g)) /\ f \in DOMAIN disk' /\ disk'[f] = n /\ At(disk', f) = n
  BY DEF Put, Kept, At

\* So does writing to the file behind a handle.
LEMMA GrowOnly ==
  ASSUME NEW w, NEW f \in DOMAIN disk, op[w].held = f, NEW n \in Nat, disk[f] \in Nat,
         disk[f] <= n, Grow(w, n)
  PROVE  /\ \A g : g # f => Kept(g)
         /\ f \in DOMAIN disk' /\ disk'[f] = n /\ At(disk', f) = n /\ At(disk, f) = disk[f]
<1>1. disk' = [disk EXCEPT ![f] = IF disk[f] < n THEN n ELSE disk[f]] BY DEF Grow
<1>2. (IF disk[f] < n THEN n ELSE disk[f]) = n OBVIOUS
<1>3. disk' = [disk EXCEPT ![f] = n] BY <1>1, <1>2
<1>4. QED BY <1>3 DEF Kept, At

\* A request's file is one of its own.
LEMMA OwnName ==
  ASSUME NEW w \in Workers, op[w].at # "idle", op[w].file \in Files
  PROVE  w \in Busy /\ op[w].file \in Names(w)
  BY FilesAssumption DEF Busy, Names

\* The effect of Touch.
LEMMA TouchEffect == ASSUME Calm, NEW w \in Workers, Touch(w) PROVE Effect(w, {op[w].file})
<1> DEFINE f == op[w].file
           a == IF op[w].len = 0 THEN "load" ELSE "copy"
           d == -op[w].cur
           r == [op[w] EXCEPT !.held = op[w].file, !.at = a, !.delta = d]
<1>1. op' = [op EXCEPT ![w] = r] /\ op[w].at = "touch" /\ UNCHANGED usage /\ Put(f, 0) BY DEF Touch
<1>2. /\ op[w].len \in Nat /\ op[w].cur \in Nat /\ op[w] \in Requests /\ Knows(w) /\ Fine(op[w]) /\ OpType
  BY <1>1, CalmFacts
<1>3. op[w].kind = "write" /\ f \in Files BY <1>1, <1>2 DEF Fine
<1>4. At(disk, f) = op[w].cur BY <1>1, <1>2 DEF Knows, Size, At
<1>5. op'[w] = r /\ \A v \in Workers : v # w => op'[v] = op[v] BY <1>1, <1>2, SetOnly
<1>6. /\ a \in {"load", "copy"} /\ (a = "load" => op[w].len = 0) /\ d = -op[w].cur OBVIOUS
<1> HIDE DEF a, d
<1>7. /\ op'[w].at = a /\ op'[w].kind = "write" /\ op'[w].file = op[w].file /\ op'[w].held = op[w].file
      /\ op'[w].cur = op[w].cur /\ op'[w].len = op[w].len /\ op'[w].delta = d
  BY <1>2, <1>3, <1>5 DEF Requests
<1> HIDE DEF r, f
<1>8. (\A g : g # f => Kept(g)) /\ f \in DOMAIN disk' /\ disk'[f] = 0 /\ At(disk', f) = 0
  BY <1>1, PutOnly
<1>9. Knows(w)'
  <2>1. op'[w].file \in DOMAIN disk' /\ disk'[op'[w].file] = 0 BY <1>7, <1>8 DEF f
  <2>2. d <= 0 /\ d \in Int BY <1>2, <1>6
  <2>3. QED BY <1>6, <1>7, <2>1, <2>2 DEF Knows, Size
<1>10. Pending(w) = 0 /\ Pending(w)' = -op[w].cur BY <1>1, <1>6, <1>7 DEF Pending
<1>11. Pending(w)' - Pending(w) = At(disk', f) - At(disk, f)
  <2> DEFINE c == op[w].cur
  <2>1. /\ c \in Int /\ Pending(w) = 0 /\ Pending(w)' = -c /\ At(disk', f) = 0 /\ At(disk, f) = c
    BY <1>2, <1>4, <1>8, <1>10
  <2> HIDE DEF c
  <2>2. QED BY <2>1
<1>12. Claim(w) = IF op[w].len > op[w].cur THEN op[w].len - op[w].cur ELSE 0
  BY <1>1, <1>3 DEF Claim
<1>13. Claim(w)' = IF a = "load" THEN d ELSE IF op[w].len > op[w].cur THEN op[w].len - op[w].cur ELSE 0
  BY <1>6, <1>7 DEF Claim
<1>14. Claim(w) \in Int /\ Claim(w)' \in Int /\ Claim(w)' <= Claim(w)
  BY <1>2, <1>6, <1>12, <1>13
<1>15. w \in Busy /\ f \in Names(w) BY <1>1, <1>3, OwnName DEF f
<1>16. Effect(w, {f}) BY <1>1, <1>5, <1>8, <1>9, <1>11, <1>14, <1>15, EffectOne
<1>17. QED BY <1>16 DEF f

\* The effect of Open.
LEMMA OpenEffect == ASSUME Calm, NEW w \in Workers, Open(w) PROVE Effect(w, {op[w].file})
<1> DEFINE f == op[w].file
           r == [op[w] EXCEPT !.held = op[w].file, !.at = "copy"]
<1>1. op' = [op EXCEPT ![w] = r] /\ op[w].at = "open" /\ UNCHANGED usage BY DEF Open
<1>2. /\ op[w].len \in Nat /\ op[w].cur \in Nat /\ op[w] \in Requests /\ Knows(w) /\ Fine(op[w]) /\ OpType
  BY <1>1, CalmFacts
<1>3. op[w].kind \in {"copy", "compress"} /\ f \in Files /\ op[w].cur = 0 /\ Size(f) = 0
  BY <1>1, <1>2 DEF Fine, Knows
<1>4. At(disk, f) = 0 /\ (IF f \in DOMAIN disk THEN UNCHANGED disk ELSE Put(f, 0))
  BY <1>3 DEF Open, At, Size
<1>5. op'[w] = r /\ \A v \in Workers : v # w => op'[v] = op[v] BY <1>1, <1>2, SetOnly
<1>6. /\ op'[w].at = "copy" /\ op'[w].kind = op[w].kind /\ op'[w].file = op[w].file
      /\ op'[w].held = op[w].file /\ op'[w].cur = op[w].cur /\ op'[w].len = op[w].len
  BY <1>2, <1>5 DEF Requests
<1> HIDE DEF r, f
<1>7. (\A g : g # f => Kept(g)) /\ f \in DOMAIN disk' /\ disk'[f] = 0 /\ At(disk', f) = 0
  <2>1. CASE f \notin DOMAIN disk BY <1>4, <2>1, PutOnly
  <2>2. CASE f \in DOMAIN disk BY <1>3, <1>4, <2>2 DEF Kept, At, Size
  <2>3. QED BY <2>1, <2>2
<1>8. op'[w].file \in DOMAIN disk' /\ disk'[op'[w].file] = 0 BY <1>6, <1>7 DEF f
<1>9. Knows(w)' BY <1>3, <1>6, <1>8 DEF Knows, Size
<1>10. Pending(w) = 0 /\ Pending(w)' = 0 BY <1>1, <1>3, <1>6 DEF Pending
<1>11. Pending(w)' - Pending(w) = At(disk', f) - At(disk, f) BY <1>4, <1>7, <1>10
<1>12. Claim(w) \in Int /\ Claim(w)' = Claim(w) BY <1>1, <1>2, <1>3, <1>6 DEF Claim
<1>13. Claim(w)' \in Int /\ Claim(w)' <= Claim(w) BY <1>12
<1>14. w \in Busy /\ f \in Names(w) BY <1>1, <1>3, OwnName DEF f
<1>15. Effect(w, {f}) BY <1>1, <1>5, <1>7, <1>9, <1>11, <1>12, <1>13, <1>14, EffectOne
<1>16. QED BY <1>15 DEF f

\* The effect of CopyBytes.
LEMMA CopyBytesEffect ==
  ASSUME Calm, NEW w \in Workers, NEW n \in Sizes, CopyBytes(w, n)
  PROVE  Effect(w, {op[w].file})
<1> DEFINE f == op[w].file
           d == n - op[w].cur
           r == [op[w] EXCEPT !.at = "load", !.delta = d]
<1>1. /\ op' = [op EXCEPT ![w] = r] /\ op[w].at = "copy" /\ op[w].kind # "compress" /\ n <= op[w].len
      /\ UNCHANGED usage /\ Grow(w, n)
  BY DEF CopyBytes
<1>2. /\ op[w].len \in Nat /\ op[w].cur \in Nat /\ op[w] \in Requests /\ Knows(w) /\ Fine(op[w]) /\ OpType
  BY <1>1, CalmFacts
<1>3. /\ op[w].kind \in {"write", "copy"} /\ f \in Files /\ f \in DOMAIN disk /\ op[w].held = f
      /\ disk[f] = 0 /\ (op[w].kind = "copy" => op[w].cur = 0)
  BY <1>1, <1>2 DEF Fine, Knows
<1>4. n \in Nat BY DEF Sizes
<1>5. op'[w] = r /\ \A v \in Workers : v # w => op'[v] = op[v] BY <1>1, <1>2, SetOnly
<1>6. d \in Int /\ d <= n /\ d = n - op[w].cur BY <1>2, <1>4
<1> HIDE DEF d
<1>7. /\ op'[w].at = "load" /\ op'[w].kind = op[w].kind /\ op'[w].file = op[w].file
      /\ op'[w].held = op[w].held /\ op'[w].cur = op[w].cur /\ op'[w].delta = d
  BY <1>2, <1>5 DEF Requests
<1> HIDE DEF r, f
<1>8. /\ \A g : g # f => Kept(g)
      /\ f \in DOMAIN disk' /\ disk'[f] = n /\ At(disk', f) = n /\ At(disk, f) = disk[f]
  BY <1>1, <1>3, <1>4, GrowOnly
<1>9. op'[w].file \in DOMAIN disk' /\ disk'[op'[w].file] = n BY <1>7, <1>8 DEF f
<1>10. Knows(w)' BY <1>2, <1>3, <1>6, <1>7, <1>9 DEF Knows, Size, f
<1>11. Pending(w) = -op[w].cur /\ Pending(w)' = d BY <1>1, <1>3, <1>7 DEF Pending
<1>12. Pending(w)' - Pending(w) = At(disk', f) - At(disk, f)
  <2> DEFINE c == op[w].cur
  <2>1. /\ c \in Int /\ Pending(w) = -c /\ Pending(w)' = n - c /\ At(disk', f) = n /\ At(disk, f) = 0
    BY <1>2, <1>3, <1>6, <1>8, <1>11
  <2> HIDE DEF c
  <2>2. QED BY <1>4, <2>1
<1>13. Claim(w)' = d BY <1>3, <1>7 DEF Claim
<1>14. Claim(w) \in Int /\ d <= Claim(w)
  <2>1. CASE op[w].kind = "write"
    <3>1. Claim(w) = IF op[w].len > op[w].cur THEN op[w].len - op[w].cur ELSE 0 BY <1>1, <2>1 DEF Claim
    <3>2. QED BY <1>1, <1>2, <1>4, <1>6, <3>1
  <2>2. CASE op[w].kind = "copy"
    <3>1. Claim(w) = op[w].len BY <1>1, <2>2 DEF Claim
    <3>2. QED BY <1>1, <1>2, <1>4, <1>6, <3>1
  <2>3. QED BY <1>3, <2>1, <2>2
<1>15. w \in Busy /\ f \in Names(w) BY <1>1, <1>3, OwnName DEF f
<1>16. Effect(w, {f}) BY <1>1, <1>5, <1>6, <1>8, <1>10, <1>12, <1>13, <1>14, <1>15, EffectOne
<1>17. QED BY <1>16 DEF f

\* The effect of Archive.
LEMMA ArchiveEffect ==
  ASSUME Calm, NEW w \in Workers, NEW n \in Sizes, Archive(w, n)
  PROVE  Effect(w, {op[w].file})
<1> DEFINE f == op[w].file
           r == [op[w] EXCEPT !.at = "fit", !.len = n]
<1>1. /\ op' = [op EXCEPT ![w] = r] /\ op[w].at = "copy" /\ op[w].kind = "compress"
      /\ UNCHANGED usage /\ Grow(w, n)
  BY DEF Archive
<1>2. op[w] \in Requests /\ Knows(w) /\ Fine(op[w]) /\ OpType BY <1>1, CalmFacts
<1>3. f \in Files /\ f \in DOMAIN disk /\ op[w].held = f /\ disk[f] = 0 /\ op[w].cur = 0
  BY <1>1, <1>2 DEF Fine, Knows
<1>4. n \in Nat BY DEF Sizes
<1>5. op'[w] = r /\ \A v \in Workers : v # w => op'[v] = op[v] BY <1>1, <1>2, SetOnly
<1>6. /\ op'[w].at = "fit" /\ op'[w].kind = op[w].kind /\ op'[w].file = op[w].file
      /\ op'[w].held = op[w].held /\ op'[w].cur = op[w].cur /\ op'[w].len = n
  BY <1>2, <1>5 DEF Requests
<1> HIDE DEF r, f
<1>7. /\ \A g : g # f => Kept(g)
      /\ f \in DOMAIN disk' /\ disk'[f] = n /\ At(disk', f) = n /\ At(disk, f) = disk[f]
  BY <1>1, <1>3, <1>4, GrowOnly
<1>8. op'[w].file \in DOMAIN disk' /\ disk'[op'[w].file] = n BY <1>6, <1>7 DEF f
<1>9. Knows(w)' BY <1>1, <1>3, <1>6, <1>8 DEF Knows, Size, f
<1>10. Pending(w) = 0 /\ Pending(w)' = n
  <2>1. Pending(w) = -op[w].cur BY <1>1 DEF Pending
  <2>2. Pending(w)' = n BY <1>6 DEF Pending
  <2>3. -op[w].cur = 0
    <3> DEFINE c == op[w].cur
    <3>1. c \in Int /\ c <= 0 /\ c >= 0 BY <1>3
    <3> HIDE DEF c
    <3>2. -c = 0 BY <3>1
    <3>3. QED BY <3>2 DEF c
  <2>4. QED BY <2>1, <2>2, <2>3
<1>11. Pending(w)' - Pending(w) = At(disk', f) - At(disk, f) BY <1>3, <1>7, <1>10
<1>12. Claim(w) = 0 /\ Claim(w)' = 0 BY <1>1, <1>6 DEF Claim
<1>13. Claim(w) \in Int /\ Claim(w)' \in Int /\ Claim(w)' <= Claim(w) BY <1>12
<1>14. w \in Busy /\ f \in Names(w) BY <1>1, <1>3, OwnName DEF f
<1>15. Effect(w, {f}) BY <1>1, <1>5, <1>7, <1>9, <1>11, <1>13, <1>14, EffectOne
<1>16. QED BY <1>15 DEF f

\* The effect of InflateChunk.
LEMMA InflateChunkEffect ==
  ASSUME Calm, NEW w \in Workers, InflateChunk(w)
  PROVE  Effect(w, {op[w].file})
<1> DEFINE f == op[w].file
           c == op[w].cur
           n == op[w].cur + 1
           d == 1
           r == [op[w] EXCEPT !.at = "load", !.cur = n, !.delta = d]
<1>1. op' = [op EXCEPT ![w] = r] /\ op[w].at = "chunk" /\ UNCHANGED usage /\ Grow(w, n)
  BY DEF InflateChunk
<1>2. c \in Nat /\ op[w] \in Requests /\ Knows(w) /\ Fine(op[w]) /\ OpType BY <1>1, CalmFacts
<1>3. op[w].kind = "inflate" /\ f \in Files /\ f \in DOMAIN disk /\ op[w].held = f /\ disk[f] = c
  BY <1>1, <1>2 DEF Fine, Knows
<1>4. n \in Nat /\ c <= n /\ n = c + 1 /\ 1 <= n BY <1>2
<1>5. op'[w] = r /\ \A v \in Workers : v # w => op'[v] = op[v] BY <1>1, <1>2, SetOnly
<1>6. d = 1 OBVIOUS
<1> HIDE DEF n, c, d
<1>7. /\ op'[w].at = "load" /\ op'[w].kind = op[w].kind /\ op'[w].file = op[w].file
      /\ op'[w].held = op[w].held /\ op'[w].cur = n /\ op'[w].delta = d
  BY <1>2, <1>5 DEF Requests
<1> HIDE DEF r, f
<1>8. /\ \A g : g # f => Kept(g)
      /\ f \in DOMAIN disk' /\ disk'[f] = n /\ At(disk', f) = n /\ At(disk, f) = disk[f]
  BY <1>1, <1>2, <1>3, <1>4, GrowOnly
<1>9. op'[w].file \in DOMAIN disk' /\ disk'[op'[w].file] = n BY <1>7, <1>8 DEF f
<1>10. Knows(w)' BY <1>3, <1>4, <1>6, <1>7, <1>9 DEF Knows, Size, f
<1>11. Pending(w) = 0 /\ Pending(w)' = 1 BY <1>1, <1>3, <1>6, <1>7 DEF Pending
<1>12. Pending(w)' - Pending(w) = At(disk', f) - At(disk, f) BY <1>2, <1>3, <1>4, <1>8, <1>11
<1>13. Claim(w) = 1 /\ Claim(w)' = 1 BY <1>1, <1>3, <1>6, <1>7 DEF Claim
<1>14. Claim(w) \in Int /\ Claim(w)' \in Int /\ Claim(w)' <= Claim(w) BY <1>13
<1>15. w \in Busy /\ f \in Names(w) BY <1>1, <1>3, OwnName DEF f
<1>16. Effect(w, {f}) BY <1>1, <1>5, <1>8, <1>10, <1>12, <1>14, <1>15, EffectOne
<1>17. QED BY <1>16 DEF f

\* The effect of InflateOpen.
LEMMA InflateOpenEffect ==
  ASSUME Calm, NEW w \in Workers, NEW f \in Files, NEW n \in Sizes, InflateOpen(w, f, n)
  PROVE  Effect(w, {f})
<1> DEFINE r == [NoOp EXCEPT !.at = "check", !.kind = "inflate", !.file = f, !.held = f, !.len = n]
<1>1. op' = [op EXCEPT ![w] = r] /\ op[w] = NoOp /\ UNCHANGED usage BY DEF InflateOpen
<1>2. OpType /\ DiskType BY CalmFacts
<1>3. ~(Size(f) > 0) BY DriftsCalm DEF InflateOpen, Calm
<1>4. At(disk, f) = 0 BY <1>2, <1>3, DiskSums DEF At, Size
<1>5. op'[w] = r /\ \A v \in Workers : v # w => op'[v] = op[v] BY <1>1, <1>2, SetOnly
<1>6. /\ op'[w].at = "check" /\ op'[w].kind = "inflate" /\ op'[w].file = f /\ op'[w].held = f
      /\ op'[w].cur = 0
  BY <1>5 DEF NoOp
<1> HIDE DEF r
<1>7. (\A g : g # f => Kept(g)) /\ f \in DOMAIN disk' /\ disk'[f] = 0 /\ At(disk', f) = 0
  <2>1. CASE f \in DOMAIN disk BY <1>4, <2>1 DEF InflateOpen, Kept, At
  <2>2. CASE f \notin DOMAIN disk
    <3>1. Put(f, 0) BY <2>2 DEF InflateOpen
    <3>2. QED BY <3>1, PutOnly
  <2>3. QED BY <2>1, <2>2
<1>8. Knows(w)' BY <1>6, <1>7 DEF Knows, Size
<1>9. Pending(w) = 0 /\ Claim(w) = 0 BY <1>1, Idle
<1>10. Pending(w)' = 0 /\ Claim(w)' = 0 BY <1>6 DEF Pending, Claim
<1>11. Pending(w)' - Pending(w) = At(disk', f) - At(disk, f) BY <1>4, <1>7, <1>9, <1>10
<1>12. Claim(w) \in Int /\ Claim(w)' \in Int /\ Claim(w)' <= Claim(w) BY <1>9, <1>10
<1>13. w \in Busy' /\ f \in Names(w)' BY <1>6, FilesAssumption DEF Busy, Names
<1>14. QED BY <1>1, <1>5, <1>7, <1>8, <1>11, <1>12, <1>13, EffectOne

\* Nobody else holds the file of a request.
LEMMA NotHeld ==
  ASSUME Types, Quiet, NEW w \in Busy, NEW f \in Files, f \in Names(w), NEW v \in Workers, v # w
  PROVE  op[v].held # f
<1>1. OpType BY DEF Types
<1>2. CASE op[v].at = "idle"
  <2>1. op[v] = NoOp BY <1>1, <1>2, OpAt DEF Fine
  <2>2. QED BY <2>1, FilesAssumption DEF NoOp
<1>3. CASE op[v].at # "idle"
  <2> SUFFICES ASSUME op[v].held = f PROVE FALSE OBVIOUS
  <2>1. op[v].file = f BY <1>3, FilesAssumption DEF Quiet, Known, Knows
  <2>2. v \in Busy /\ f \in Names(v) BY <1>3, <2>1, OwnName
  <2>3. QED BY <2>2 DEF Quiet, Clash
<1>4. QED BY <1>2, <1>3

\* Removing one file leaves the others.
LEMMA WithoutOne ==
  ASSUME NEW f, Without({f})
  PROVE  (\A g : g # f => Kept(g)) /\ f \notin DOMAIN disk' /\ At(disk', f) = 0
  BY DEF Without, Kept, At

\* The handles of the others are to other files.
LEMMA UnheldOnly ==
  ASSUME OpType, NEW w \in Workers, NEW r, NEW f,
         \A v \in Workers : v # w => op[v].held # f,
         NEW ops, ops = [op EXCEPT ![w] = r], op' = Unheld(ops, {f})
  PROVE  \A v \in Workers : v # w => op'[v] = op[v]
<1>1. ops[w] = r /\ \A v \in Workers : v # w => ops[v] = op[v] BY DEF OpType
<1>2. \A v \in Workers :
        op'[v] = IF ops[v].held \in {f} THEN [ops[v] EXCEPT !.held = None] ELSE ops[v]
  BY DEF Unheld
<1>3. QED BY <1>1, <1>2

\* The effect of Unlink.
LEMMA UnlinkEffect == ASSUME Calm, NEW w \in Workers, Unlink(w) PROVE Effect(w, {op[w].file})
<1> DEFINE f == op[w].file
           c == op[w].cur
           d == -op[w].cur
           r == [op[w] EXCEPT !.at = "load", !.delta = d]
<1>1. op[w].at = "unlink" /\ UNCHANGED usage /\ Without({f}) BY DEF Unlink
<1>2. /\ c \in Nat /\ op[w] \in Requests /\ Knows(w) /\ Fine(op[w]) /\ OpType /\ Types /\ Quiet
  BY <1>1, CalmFacts DEF Calm
<1>3. f \in Files /\ f \in DOMAIN disk /\ disk[f] = c /\ op[w].kind \in {"remove", "unlinkat"}
  BY <1>1, <1>2 DEF Fine, Knows
<1>4. At(disk, f) = c BY <1>3 DEF At
<1>5. w \in Busy /\ f \in Names(w) BY <1>1, <1>3, OwnName
<1>6. \A v \in Workers : v # w => op[v].held # f
  <2> HIDE DEF f
  <2>1. QED BY <1>2, <1>3, <1>5, NotHeld
<1>7. (\A g : g # f => Kept(g)) /\ At(disk', f) = 0
  <2> HIDE DEF f
  <2>1. QED BY <1>1, WithoutOne
<1>8. Claim(w) = 0 BY <1>1 DEF Claim
<1>9. c \in Int /\ d \in Int /\ d = -c /\ d <= 0 BY <1>2
<1>10. CASE op[w].kind = "unlinkat"
  <2> DEFINE z == NoOp
             ops == [op EXCEPT ![w] = z]
  <2>1. op' = Unheld(ops, {f}) BY <1>10 DEF Unlink
  <2>2. ops = [op EXCEPT ![w] = z] OBVIOUS
  <2> HIDE DEF f, c, d, r, ops, z
  <2>3. (\A v \in Workers : v # w => op'[v] = op[v]) /\ op'[w] = NoOp
    <3>1. z.held # f BY <1>3, FilesAssumption DEF NoOp, z
    <3>2. \A v \in Workers : v # w => op'[v] = op[v] BY <1>2, <1>6, <2>1, <2>2, UnheldOnly
    <3>3. op'[w] = IF ops[w].held \in {f} THEN [ops[w] EXCEPT !.held = None] ELSE ops[w]
      BY <2>1 DEF Unheld
    <3>4. ops[w] = z BY <1>2, <2>2 DEF OpType
    <3>5. op'[w] = z BY <3>1, <3>3, <3>4
    <3>6. QED BY <3>2, <3>5 DEF z
  <2>4. op'[w].at = "idle" /\ Pending(w)' = 0 /\ Claim(w)' = 0 BY <2>3 DEF NoOp, Pending, Claim
  <2>5. Pending(w) = c BY <1>1, <1>10 DEF Pending, c
  <2>6. Pending(w)' - Pending(w) = At(disk', f) - At(disk, f) BY <1>4, <1>7, <1>9, <2>4, <2>5
  <2>7. Claim(w) \in Int /\ Claim(w)' \in Int /\ Claim(w)' <= Claim(w) BY <1>8, <2>4
  <2>8. Effect(w, {f}) BY <1>1, <1>5, <1>7, <2>3, <2>4, <2>6, <2>7, EffectOne
  <2>9. QED BY <2>8 DEF f
<1>11. CASE op[w].kind = "remove"
  <2> DEFINE ops == [op EXCEPT ![w] = r]
  <2>1. op' = Unheld(ops, {f}) BY <1>3, <1>11 DEF Unlink
  <2> HIDE DEF f, c, d
  <2>2. /\ r.at = "load" /\ r.kind = "remove" /\ r.file = op[w].file /\ r.held = op[w].held
        /\ r.cur = op[w].cur /\ r.delta = d
    BY <1>2, <1>11 DEF Requests
  <2>3. r \in [at : {"load"}, kind : {"remove"}, file : {r.file}, to : {r.to}, held : {r.held},
               cur : {r.cur}, len : {r.len}, delta : {r.delta}]
    BY <1>2, <2>2 DEF Requests
  <2> HIDE DEF r
  <2> DEFINE s == [r EXCEPT !.held = None]
  <2>4. ops = [op EXCEPT ![w] = r] OBVIOUS
  <2>5. s.at = r.at /\ s.kind = r.kind /\ s.file = r.file /\ s.held = None /\ s.delta = r.delta BY <2>3
  <2> HIDE DEF s, ops
  <2>6. \A v \in Workers : v # w => op'[v] = op[v] BY <1>2, <1>6, <2>1, <2>4, UnheldOnly
  <2>7. ops[w] = r BY <1>2, <2>4 DEF OpType
  <2>8. op'[w] = IF ops[w].held \in {f} THEN [ops[w] EXCEPT !.held = None] ELSE ops[w]
    BY <2>1 DEF Unheld
  <2>9. op'[w] = s \/ op'[w] = r BY <2>7, <2>8 DEF s
  <2>10. /\ op'[w].at = "load" /\ op'[w].kind = "remove" /\ op'[w].file = op[w].file
        /\ op'[w].held \in {None, op[w].held} /\ op'[w].delta = d
    BY <2>2, <2>5, <2>9
  <2>11. Knows(w)' BY <1>2, <1>9, <2>10 DEF Knows, Size
  <2>12. Pending(w)' = d /\ Claim(w)' = d BY <2>10 DEF Pending, Claim
  <2>13. Pending(w) = 0 BY <1>1, <1>11 DEF Pending
  <2>14. Pending(w)' - Pending(w) = At(disk', f) - At(disk, f) BY <1>4, <1>7, <1>9, <2>12, <2>13
  <2>15. Claim(w) \in Int /\ Claim(w)' \in Int /\ Claim(w)' <= Claim(w) BY <1>8, <1>9, <2>12
  <2>16. Effect(w, {f}) BY <1>1, <1>5, <1>7, <2>6, <2>11, <2>14, <2>15, EffectOne
  <2>17. QED BY <2>16 DEF f
<1>12. QED BY <1>3, <1>10, <1>11

\* Two files that change places in the sum.
LEMMA RenameTotal ==
  ASSUME DiskType, DiskType', NEW f \in DOMAIN disk, NEW g, g \notin DOMAIN disk,
         disk' = [h \in (DOMAIN disk \ {f}) \union {g} |-> IF h = g THEN disk[f] ELSE disk[h]]
  PROVE  Total' = Total
<1> DEFINE mid == [h \in DOMAIN disk \ {f} |-> disk[h]]
<1>1. f # g OBVIOUS
<1>2. IsFiniteSet(DOMAIN disk) /\ \A h \in DOMAIN disk : disk[h] \in Int BY DiskSums
<1>3. DOMAIN mid = DOMAIN disk \ {f} /\ \A h \in DOMAIN mid : mid[h] = disk[h] OBVIOUS
<1> HIDE DEF mid
<1>4. IsFiniteSet(DOMAIN mid) /\ \A h \in DOMAIN mid : mid[h] \in Int BY <1>2, <1>3, FS_Subset
<1>5. SumFunction(mid) = SumFunction(disk) + At(mid, f) - At(disk, f)
  BY <1>2, <1>3, <1>4, SumsChange
<1>6. DOMAIN disk' = DOMAIN mid \union {g} /\ disk'[g] = disk[f] /\ \A h \in DOMAIN mid : disk'[h] = mid[h]
  BY <1>3
<1>7. IsFiniteSet(DOMAIN disk') BY <1>4, <1>6, FS_AddElement
<1>8. \A h \in DOMAIN disk' : disk'[h] \in Int BY <1>2, <1>4, <1>6
<1>9. \A h : h # g => (h \in DOMAIN disk' <=> h \in DOMAIN mid) /\ (h \in DOMAIN mid => disk'[h] = mid[h])
  BY <1>6
<1>10. SumFunction(disk') = SumFunction(mid) + At(disk', g) - At(mid, g)
  BY <1>4, <1>7, <1>8, <1>9, SumsChange
<1>11. At(mid, f) = 0 /\ At(mid, g) = 0 /\ At(disk, f) = disk[f] /\ At(disk', g) = disk[f]
  BY <1>3, <1>6 DEF At
<1>12. SumFunction(disk) \in Int BY TotalNat DEF Total
<1>13. SumFunction(disk') = SumFunction(disk) BY <1>2, <1>5, <1>10, <1>11, <1>12
<1>14. QED BY <1>13 DEF Total

\* The effect of Rename.
LEMMA RenameEffect ==
  ASSUME Calm, NEW w \in Workers, Rename(w)
  PROVE  Effect(w, {op[w].file, op[w].to})
<1> DEFINE f == op[w].file
           g == op[w].to
           ops == Unheld([op EXCEPT ![w] = NoOp], {g})
<1>1. op[w].at = "rename" /\ UNCHANGED usage BY DEF Rename
<1>2. /\ usage \in Nat /\ op[w] \in Requests /\ Knows(w) /\ Fine(op[w]) /\ OpType /\ Types /\ Quiet
      /\ DiskType /\ DiskType'
  BY <1>1, CalmFacts DEF Calm
<1>3. f \in Files /\ g \in Files /\ f \in DOMAIN disk /\ g \notin DOMAIN disk /\ op[w].kind = "rename"
  BY <1>1, <1>2 DEF Fine, Knows
<1>4. disk' = [h \in (DOMAIN disk \ {f}) \union {g} |-> IF h = g THEN disk[f] ELSE disk[h]]
  BY <1>3 DEF Rename
<1>5. op' = [v \in Workers |-> IF ops[v].held = f THEN [ops[v] EXCEPT !.held = g] ELSE ops[v]]
  BY <1>3 DEF Rename
<1>6. w \in Busy /\ f \in Names(w) /\ g \in Names(w)
  BY <1>1, <1>3, FilesAssumption DEF Busy, Names
<1>7. \A v \in Workers : v # w => op[v].held # f /\ op[v].held # g
  <2> HIDE DEF f, g
  <2>1. QED BY <1>2, <1>3, <1>6, NotHeld
<1>8. NoOp.held # f /\ NoOp.held # g BY <1>3, FilesAssumption DEF NoOp
<1>9. ops[w] = NoOp /\ \A v \in Workers : v # w => ops[v] = op[v]
  <2> DEFINE m == [op EXCEPT ![w] = NoOp]
  <2>1. m[w] = NoOp /\ \A v \in Workers : v # w => m[v] = op[v] BY <1>2 DEF OpType
  <2> HIDE DEF m
  <2>2. \A v \in Workers : ops[v] = IF m[v].held \in {g} THEN [m[v] EXCEPT !.held = None] ELSE m[v]
    BY DEF Unheld, m
  <2> HIDE DEF f, g, ops
  <2>3. QED BY <1>7, <1>8, <2>1, <2>2
<1> HIDE DEF f, g, ops
<1>10. op'[w] = NoOp /\ \A v \in Workers : v # w => op'[v] = op[v] BY <1>5, <1>7, <1>8, <1>9
<1>11. \A h : h \notin {f, g} => Kept(h) BY <1>4 DEF Kept
<1>12. op'[w].at = "idle" /\ Pending(w)' = 0 /\ Claim(w)' = 0 BY <1>10 DEF NoOp, Pending, Claim
<1>13. Pending(w) = 0 /\ Claim(w) = 0 BY <1>1 DEF Pending, Claim
<1>14. Total' = Total BY <1>2, <1>3, <1>4, RenameTotal
<1>15. usage' + Pending(w)' + Total = usage + Pending(w) + Total' BY <1>1, <1>12, <1>13, <1>14
<1>16. usage' + Claim(w)' <= usage + Claim(w) BY <1>1, <1>2, <1>12, <1>13
<1>17. w \in Busy /\ {f, g} \subseteq Names(w) BY <1>6
<1>18. Effect(w, {f, g}) BY <1>10, <1>11, <1>12, <1>15, <1>16, <1>17 DEF Effect
<1>19. QED BY <1>18 DEF f, g

\* The effect of Wipe.
LEMMA WipeEffect == ASSUME Calm, ~Clash', NEW w \in Workers, Wipe(w) PROVE Effect(w, Files)
<1> DEFINE c == Total
           r == [NoOp EXCEPT !.at = "reset", !.kind = "truncate", !.cur = c]
           ops == [op EXCEPT ![w] = r]
<1>1. op[w] = NoOp /\ UNCHANGED usage /\ Without(Files) /\ op' = Unheld(ops, Files) BY DEF Wipe
<1>2. usage \in Nat /\ DiskType /\ DiskType' /\ OpType /\ OpType' /\ Types /\ Quiet BY CalmFacts DEF Calm
<1>3. c \in Nat /\ c = Total BY <1>2, TotalNat
<1> HIDE DEF c
<1>4. ops[w] = r /\ \A v \in Workers : v # w => ops[v] = op[v] BY <1>2 DEF OpType
<1>5. r.at = "reset" /\ r.kind = "truncate" /\ r.file = None /\ r.held = None /\ r.cur = c BY DEF NoOp
<1> HIDE DEF r, ops
<1>6. \A v \in Workers :
        op'[v] = IF ops[v].held \in Files THEN [ops[v] EXCEPT !.held = None] ELSE ops[v]
  BY <1>1 DEF Unheld
<1>7. op'[w] = r BY <1>4, <1>5, <1>6, FilesAssumption
<1>8. w \in Busy' /\ Names(w)' = Files BY <1>5, <1>7 DEF Busy, Names
<1>9. ASSUME NEW v \in Workers, v # w PROVE op'[v] = op[v]
  <2>1. op'[v] = IF op[v].held \in Files THEN [op[v] EXCEPT !.held = None] ELSE op[v]
    BY <1>4, <1>6, <1>9
  <2>2. ASSUME op[v].held \in Files PROVE FALSE
    <3>1. op[v] \in Requests /\ Fine(op[v]) BY <1>2, OpAt
    <3>2. op[v].at # "idle" BY <2>2, <3>1, FilesAssumption DEF Fine, NoOp
    <3>3. op[v].file \in Files BY <2>2, <3>2, <1>2, FilesAssumption DEF Quiet, Known, Knows
    <3>4. op'[v] = [op[v] EXCEPT !.held = None] BY <2>1, <2>2
    <3>5. op'[v].at = op[v].at /\ op'[v].kind = op[v].kind /\ op'[v].file = op[v].file
      BY <3>1, <3>4 DEF Requests
    <3>6. v \in Busy' BY <3>2, <3>5 DEF Busy
    <3>7. op[v].file \in Names(v)' BY <3>3, <3>5, FilesAssumption DEF Names
    <3>8. QED BY <1>8, <1>9, <3>3, <3>6, <3>7 DEF Clash
  <2>3. QED BY <2>1, <2>2
<1>10. DOMAIN disk' = {} BY <1>1, <1>2 DEF Without, DiskType
<1>11. Total' = 0
  <2>1. SumFunction(disk') = 0 BY <1>10, SumEmpty DEF SumFunction
  <2>2. QED BY <2>1 DEF Total
<1>12. \A g : g \notin Files => Kept(g) BY <1>2, <1>10 DEF Kept, DiskType
<1>13. Knows(w)' BY <1>5, <1>7, <1>10 DEF Knows, Size
<1>14. Pending(w)' = -c /\ Claim(w)' = 0 BY <1>5, <1>7 DEF Pending, Claim
<1>15. Pending(w) = 0 /\ Claim(w) = 0 BY <1>1, Idle
<1>16. usage' + Pending(w)' + Total = usage + Pending(w) + Total'
  <2>1. usage + (-c) + c = usage + 0 + 0 BY <1>2, <1>3
  <2>2. usage' = usage BY <1>1
  <2>3. QED BY <1>3, <1>11, <1>14, <1>15, <2>1, <2>2
<1>17. usage' + Claim(w)' <= usage + Claim(w) BY <1>1, <1>2, <1>14, <1>15
<1>18. QED BY <1>8, <1>9, <1>12, <1>13, <1>16, <1>17 DEF Effect

-----------------------------------------------------------------------------
(* The steps of the requests together.                                      *)

\* What a step of a request leaves alone: it drifts on its own account or
\* because two requests are at the same file.
LEMMA StepDrifts ==
  ASSUME NEW w \in Workers, Step(w) \/ Fails(w) \/ Requested(w) \/ Wipe(w)
  PROVE  undisturbed' = FALSE /\ (drift' # "now" => ~Clash' /\ drift' = drift)
<1>1. CASE Step(w)
  BY <1>1, ZenonT(60) DEF Step, AddLoad, AddStore, Check, Touch, Open, Fit, InflateChunk, RemoveStat, Unlink,
              Rename, Reset, CopyBytes, Archive, SftpWrite, Suffix, Drifts
<1>2. CASE Fails(w) BY <1>2, ZenonT(60) DEF Fails, TouchFails, UnlinkFails, ArchiveFails, Drifts
<1>3. CASE Requested(w)
  BY <1>3, ZenonT(60) DEF Requested, CopyStat, CompressSuffix, CompressStamp, RemoveBegin, UnlinkatStat,
              WipeFails, SftpOpen, WriteStat, InflateOpen, RenameStat, Drifts
<1>4. CASE Wipe(w) BY <1>4 DEF Wipe, Drifts
<1>5. QED BY <1>1, <1>2, <1>3, <1>4

\* Every step of a request that does not drift changes only the request's own
\* files, and accounts for it.
LEMMA StepEffect ==
  ASSUME Calm, NEW w \in Workers, Step(w)
  PROVE  \E X : Effect(w, X)
<1>1. CASE AddLoad(w) BY <1>1, AddLoadEffect
<1>2. CASE AddStore(w) BY <1>2, AddStoreEffect
<1>3. CASE Check(w) BY <1>3, CheckEffect
<1>4. CASE Touch(w) BY <1>4, TouchEffect
<1>5. CASE Open(w) BY <1>5, OpenEffect
<1>6. CASE Fit(w) BY <1>6, FitEffect
<1>7. CASE InflateChunk(w) BY <1>7, InflateChunkEffect
<1>8. CASE RemoveStat(w) BY <1>8, RemoveStatEffect
<1>9. CASE Unlink(w) BY <1>9, UnlinkEffect
<1>10. CASE Rename(w) BY <1>10, RenameEffect
<1>11. CASE Reset(w) BY <1>11, ResetEffect
<1>12. ASSUME NEW n \in Sizes, CopyBytes(w, n) PROVE \E X : Effect(w, X) BY <1>12, CopyBytesEffect
<1>13. ASSUME NEW n \in Sizes, Archive(w, n) PROVE \E X : Effect(w, X) BY <1>13, ArchiveEffect
<1>14. ASSUME NEW n \in Sizes, SftpWrite(w, n) PROVE FALSE BY <1>14 DEF SftpWrite, Drifts, Calm
<1>15. ASSUME NEW g \in Files, Suffix(w, g) PROVE \E X : Effect(w, X) BY <1>15, SuffixEffect
<1>16. QED
  BY <1>1, <1>2, <1>3, <1>4, <1>5, <1>6, <1>7, <1>8, <1>9, <1>10, <1>11, <1>12, <1>13, <1>14, <1>15
  DEF Step

\* So do the failures, ...
LEMMA FailsEffect ==
  ASSUME Calm, NEW w \in Workers, Fails(w)
  PROVE  \E X : Effect(w, X)
<1>1. CASE TouchFails(w) BY <1>1, TouchFailsEffect
<1>2. CASE UnlinkFails(w) BY <1>2, UnlinkFailsEffect
<1>3. ASSUME NEW n \in Sizes, ArchiveFails(w, n) PROVE FALSE BY <1>3 DEF ArchiveFails, Drifts, Calm
<1>4. QED BY <1>1, <1>2, <1>3 DEF Fails

\* ... the requests that begin, ...
LEMMA RequestedEffect ==
  ASSUME Calm, NEW w \in Workers, Requested(w)
  PROVE  \E X : Effect(w, X)
<1>1. PICK f \in Files :
        \/ CopyStat(w, f) \/ CompressSuffix(w, f) \/ CompressStamp(w, f)
        \/ RemoveBegin(w, f) \/ UnlinkatStat(w, f) \/ WipeFails(w, f) \/ SftpOpen(w, f)
        \/ \E n \in Sizes : WriteStat(w, f, n) \/ (n > 0 /\ InflateOpen(w, f, n))
        \/ \E g \in Files : RenameStat(w, f, g)
  BY DEF Requested
<1>2. CASE CopyStat(w, f) BY <1>2, CopyStatEffect
<1>3. CASE CompressSuffix(w, f) BY <1>3, CompressSuffixEffect
<1>4. CASE RemoveBegin(w, f) BY <1>4, RemoveBeginEffect
<1>5. CASE UnlinkatStat(w, f) BY <1>5, UnlinkatStatEffect
<1>6. ~WipeFails(w, f) BY DEF WipeFails, Drifts, Calm
<1>7. ~SftpOpen(w, f) BY DEF SftpOpen, Drifts, Calm
<1>8. ASSUME NEW n \in Sizes, WriteStat(w, f, n) PROVE \E X : Effect(w, X) BY <1>8, WriteStatEffect
<1>9. ASSUME NEW n \in Sizes, InflateOpen(w, f, n) PROVE \E X : Effect(w, X) BY <1>9, InflateOpenEffect
<1>10. ASSUME NEW g \in Files, RenameStat(w, f, g) PROVE \E X : Effect(w, X) BY <1>10, RenameStatEffect
<1>11. CASE CompressStamp(w, f) BY <1>11, CompressStampEffect
<1>12. QED BY <1>1, <1>2, <1>3, <1>4, <1>5, <1>6, <1>7, <1>8, <1>9, <1>10, <1>11

\* ... and a wipe, so that nothing is left unaccounted.
LEMMA WorkerEffect ==
  ASSUME Calm, NEW w \in Workers, Step(w) \/ Fails(w) \/ Requested(w) \/ Wipe(w)
  PROVE  Quiet' /\ drift' = drift /\ \E X : Effect(w, X)
<1>1. drift' = drift /\ ~Clash' BY StepDrifts DEF Calm
<1>2. \E X : Effect(w, X)
  <2>1. CASE Step(w) BY <2>1, StepEffect
  <2>2. CASE Fails(w) BY <2>2, FailsEffect
  <2>3. CASE Requested(w) BY <2>3, RequestedEffect
  <2>4. CASE Wipe(w) BY <1>1, <2>4, WipeEffect
  <2>5. QED BY <2>1, <2>2, <2>3, <2>4
<1>3. Quiet' BY <1>1, <1>2, EffectQuiet
<1>4. QED BY <1>1, <1>2, <1>3

-----------------------------------------------------------------------------
(* The invariant.                                                           *)

\* While nothing disturbs a walk, what it has seen and what it has still to
\* visit are the directory.
Walk ==
  undisturbed /\ (\E l \in Lookers : look[l] = "walk")
    => /\ Busy = {} /\ todo \subseteq DOMAIN disk
       /\ sum + SumFunctionOnSet(disk, todo) = Total

\* The invariant: whenever the counter is not off, nothing is unaccounted.
QuotaInv == Types /\ Walk /\ (drift # "now" => Quiet)

\* Steps that touch neither directory, requests nor counter change nothing.
LEMMA SameQuiet ==
  ASSUME UNCHANGED <<disk, op, usage, drift>>
  PROVE  (Quiet <=> Quiet') /\ Busy' = Busy /\ Total' = Total
<1>1. Total' = Total BY DEF Total
<1>2. Busy' = Busy BY DEF Busy
<1>3. Clash' <=> Clash
  <2>1. \A w : Names(w)' = Names(w) BY DEF Names
  <2>2. QED BY <1>2, <2>1 DEF Clash
<1>4. Known' <=> Known
  <2>1. \A w : Knows(w)' <=> Knows(w) BY DEF Knows, Size
  <2>2. QED BY <2>1 DEF Known
<1>5. SumFunction(Pendings)' = SumFunction(Pendings)
  <2>1. Pendings' = Pendings BY DEF Pendings, Pending
  <2>2. QED BY <2>1
<1>6. usage' = usage /\ drift' = drift OBVIOUS
<1>7. QED BY <1>1, <1>2, <1>3, <1>4, <1>5, <1>6 DEF Quiet

\* When nobody is busy, nothing is to be accounted for.
LEMMA NothingPending ==
  ASSUME OpType, Busy = {}
  PROVE  SumFunction(Pendings) = 0 /\ ~Clash /\ Known
<1>1. \A w \in Workers : op[w].at = "idle" BY DEF Busy
<1>2. \A w \in Workers : Pendings[w] = 0 BY <1>1 DEF Pendings, Pending
<1>3. SumFunction(Pendings) = 0 BY <1>2, WorkersAssumption, SumZero DEF SumFunction, Pendings
<1>4. QED BY <1>1, <1>3 DEF Clash, Known

\* What is not a step of a request.
Rest ==
  \/ \E l \in Lookers : Lookup(l) \/ \E a \in BOOLEAN : DiskUsage(l, a)
  \/ Expire
  \/ \E i \in Limits : SetDiskLimit(i)
  \/ UNCHANGED quotaVars

\* A lookup that nothing disturbed sets the counter right.
LEMMA CacheQuiet ==
  ASSUME QuotaInv, NEW l \in Lookers, Cache(l), undisturbed
  PROVE  Busy = {} /\ usage' = Total /\ UNCHANGED <<disk, op>>
<1>1. Types /\ Walk BY DEF QuotaInv
<1>2. look[l] = "walk" /\ todo = {} /\ usage' = sum /\ UNCHANGED <<disk, op>> BY DEF Cache
<1>3. Busy = {} /\ sum + SumFunctionOnSet(disk, todo) = Total BY <1>1, <1>2 DEF Walk
<1>4. SumFunctionOnSet(disk, todo) = 0 BY <1>2, SumEmpty
<1>5. sum \in Int BY <1>1 DEF Types, RestType
<1>6. sum = Total BY <1>3, <1>4, <1>5
<1>7. QED BY <1>2, <1>3, <1>6

\* The lookups and the limits leave nothing unaccounted.
LEMMA RestQuiet ==
  ASSUME QuotaInv, Types', Rest, drift' # "now"
  PROVE  Quiet'
<1>1. CASE UNCHANGED <<disk, op, usage, drift>> BY <1>1, SameQuiet DEF QuotaInv
<1>2. ASSUME NEW l \in Lookers, Cache(l) PROVE Quiet'
  <2>1. undisturbed BY <1>2 DEF Cache
  <2>2. Busy = {} /\ usage' = Total /\ UNCHANGED <<disk, op>> BY <1>2, <2>1, CacheQuiet
  <2>3. OpType' BY DEF Types
  <2>4. \A w \in Workers : op'[w].at = "idle" BY <2>2 DEF Busy
  <2>5. SumFunction(Pendings') = 0
    <3> DEFINE p == Pendings'
    <3>1. DOMAIN p = Workers /\ \A w \in Workers : p[w] = 0 BY <2>4 DEF Pendings, Pending
    <3> HIDE DEF p
    <3>2. SumFunction(p) = 0 BY <3>1, WorkersAssumption, SumZero DEF SumFunction
    <3>3. QED BY <3>2 DEF p
  <2>6. ~Clash' /\ Known' BY <2>4 DEF Clash, Busy, Known
  <2>7. Total' = Total /\ Total \in Int BY <2>2, TotalNat DEF Total, QuotaInv, Types
  <2>8. usage' + SumFunction(Pendings)' = Total' BY <2>2, <2>5, <2>7
  <2>9. QED BY <2>6, <2>8 DEF Quiet
<1>3. ASSUME NEW l \in Lookers, LookupBegin(l) \/ (\E f \in Files : Visit(l, f)) PROVE Quiet'
  BY <1>1, <1>3 DEF LookupBegin, Visit, counterVars
<1>4. ASSUME NEW l \in Lookers, NEW a \in BOOLEAN, DiskUsage(l, a) PROVE Quiet'
  BY <1>1, <1>4 DEF DiskUsage, counterVars
<1>5. CASE Expire BY <1>1, <1>5 DEF Expire, counterVars
<1>6. ASSUME NEW i \in Limits, SetDiskLimit(i) PROVE Quiet' BY <1>1, <1>6 DEF SetDiskLimit
<1>7. CASE UNCHANGED quotaVars BY <1>1, <1>7 DEF quotaVars, counterVars
<1>8. QED BY <1>2, <1>3, <1>4, <1>5, <1>6, <1>7 DEF Rest, Lookup

\* The walk goes on as long as nothing disturbs it.
LEMMA RestWalk ==
  ASSUME QuotaInv, Rest
  PROVE  Walk'
<1>1. Types /\ Walk BY DEF QuotaInv
<1>2. IsFiniteSet(DOMAIN disk) /\ \A f \in DOMAIN disk : disk[f] \in Int BY <1>1, DiskSums DEF Types
<1>3. Total \in Int /\ sum \in Int BY <1>1, TotalNat DEF Types, RestType
<1>4. ASSUME UNCHANGED <<disk, op, todo, sum, undisturbed>>,
             (\E l \in Lookers : look'[l] = "walk") => (\E l \in Lookers : look[l] = "walk")
      PROVE  Walk'
  <2>1. Total' = Total /\ Busy' = Busy BY <1>4 DEF Total, Busy
  <2>2. SumFunctionOnSet(disk, todo)' = SumFunctionOnSet(disk, todo) BY <1>4
  <2>3. QED BY <1>1, <1>4, <2>1, <2>2 DEF Walk
<1>5. ASSUME NEW l \in Lookers, LookupBegin(l) PROVE Walk'
  <2>1. UNCHANGED <<disk, op>> /\ todo' = DOMAIN disk /\ sum' = 0 BY <1>5 DEF LookupBegin
  <2>2. Total' = Total /\ Busy' = Busy BY <2>1 DEF Total, Busy
  <2>3. SumFunctionOnSet(disk', todo') = Total BY <2>1 DEF Total, SumFunction
  <2>4. undisturbed' => Busy = {} BY <1>5 DEF LookupBegin
  <2>5. sum' + SumFunctionOnSet(disk', todo') = Total' BY <1>3, <2>1, <2>2, <2>3
  <2>6. todo' \subseteq DOMAIN disk' BY <2>1
  <2>7. QED BY <2>2, <2>4, <2>5, <2>6 DEF Walk
<1>6. ASSUME NEW l \in Lookers, NEW f \in Files, Visit(l, f) PROVE Walk'
  <2>1. /\ UNCHANGED <<disk, op, undisturbed>> /\ look[l] = "walk" /\ f \in todo
        /\ todo' = (IF f \in DOMAIN disk THEN todo \ {f} ELSE {}) /\ sum' = sum + Size(f)
    BY <1>6 DEF Visit
  <2> SUFFICES ASSUME undisturbed
               PROVE  /\ Busy' = {} /\ todo' \subseteq DOMAIN disk'
                      /\ sum' + SumFunctionOnSet(disk', todo') = Total'
    BY <2>1 DEF Walk
  <2>2. Busy = {} /\ todo \subseteq DOMAIN disk /\ sum + SumFunctionOnSet(disk, todo) = Total
    BY <1>1, <2>1 DEF Walk
  <2>3. todo' = todo \ {f} /\ sum' = sum + disk[f] BY <2>1, <2>2 DEF Size
  <2>4. IsFiniteSet(todo) /\ \A g \in todo : disk[g] \in Int BY <1>2, <2>2, FS_Subset
  <2>5. SumFunctionOnSet(disk, todo) = disk[f] + SumFunctionOnSet(disk, todo \ {f})
    BY <2>1, <2>4, SumRemove
  <2>6. SumFunctionOnSet(disk, todo \ {f}) \in Int
    <3> DEFINE R == todo \ {f}
    <3>1. IsFiniteSet(R) /\ \A g \in R : disk[g] \in Int BY <2>4, FS_Subset
    <3> HIDE DEF R
    <3>2. SumFunctionOnSet(disk, R) \in Int BY <3>1, SumInt
    <3>3. QED BY <3>2 DEF R
  <2>7. disk[f] \in Int BY <2>1, <2>4
  <2>8. sum' + SumFunctionOnSet(disk, todo \ {f}) = Total BY <1>3, <2>2, <2>3, <2>5, <2>6, <2>7
  <2>9. Total' = Total /\ Busy' = Busy BY <2>1 DEF Total, Busy
  <2>10. SumFunctionOnSet(disk', todo') = SumFunctionOnSet(disk, todo \ {f}) BY <2>1, <2>3
  <2>11. QED BY <2>1, <2>2, <2>3, <2>8, <2>9, <2>10
<1>7. ASSUME NEW l \in Lookers, Cache(l) PROVE Walk' BY <1>7 DEF Cache, Walk
<1>8. ASSUME NEW l \in Lookers, NEW a \in BOOLEAN, DiskUsage(l, a) PROVE Walk'
  <2>1. UNCHANGED <<disk, op, todo, sum, undisturbed>> /\ look' = [look EXCEPT ![l] = "wait"]
    BY <1>8 DEF DiskUsage
  <2>2. \A k \in Lookers : look'[k] = "walk" => look[k] = "walk" BY <1>1, <2>1 DEF Types, RestType
  <2>3. QED BY <1>4, <2>1, <2>2
<1>9. CASE Expire BY <1>4, <1>9 DEF Expire
<1>10. ASSUME NEW i \in Limits, SetDiskLimit(i) PROVE Walk' BY <1>4, <1>10 DEF SetDiskLimit, lookVars
<1>11. CASE UNCHANGED quotaVars BY <1>4, <1>11 DEF quotaVars, lookVars
<1>12. QED BY <1>5, <1>6, <1>7, <1>8, <1>9, <1>10, <1>11 DEF Rest, Lookup

\* The invariant holds at the start, ...
LEMMA InvInit == QuotaInit => QuotaInv
<1> SUFFICES ASSUME QuotaInit PROVE QuotaInv OBVIOUS
<1>1. Types BY TypesInit
<1>2. Walk BY DEF QuotaInit, Walk
<1>3. ASSUME drift # "now" PROVE Quiet
  <2>1. usage = Total BY <1>3 DEF QuotaInit
  <2>2. OpType /\ Total \in Int BY <1>1, TotalNat DEF Types
  <2>3. Busy = {} BY DEF QuotaInit, Busy, NoOp
  <2>4. SumFunction(Pendings) = 0 /\ ~Clash /\ Known BY <2>2, <2>3, NothingPending
  <2>5. usage + SumFunction(Pendings) = Total BY <2>1, <2>2, <2>4
  <2>6. QED BY <1>3, <2>4, <2>5 DEF Quiet
<1>4. QED BY <1>1, <1>2, <1>3 DEF QuotaInv

\* ... every step keeps it, ...
LEMMA InvNext == QuotaInv /\ [QuotaNext]_quotaVars => QuotaInv'
<1> SUFFICES ASSUME QuotaInv, [QuotaNext]_quotaVars PROVE QuotaInv' OBVIOUS
<1>1. Types /\ Types' BY TypesNext DEF QuotaInv
<1>2. ASSUME NEW w \in Workers, Step(w) \/ Fails(w) \/ Requested(w) \/ Wipe(w) PROVE QuotaInv'
  <2>1. undisturbed' = FALSE /\ (drift' # "now" => drift' = drift) BY <1>2, StepDrifts
  <2>2. Walk' BY <2>1 DEF Walk
  <2>3. ASSUME drift' # "now" PROVE Quiet'
    <3>1. Calm BY <1>1, <2>1, <2>3 DEF QuotaInv, Calm
    <3>2. QED BY <1>2, <3>1, WorkerEffect
  <2>4. QED BY <1>1, <2>2, <2>3 DEF QuotaInv
<1>3. ASSUME NEW f \in Files, NEW n \in Sizes, Process(f, n) PROVE QuotaInv'
  <2>1. undisturbed' = FALSE /\ drift' = "now" BY <1>3 DEF Process, Drifts
  <2>2. Walk' BY <2>1 DEF Walk
  <2>3. QED BY <1>1, <2>1, <2>2 DEF QuotaInv
<1>4. CASE Rest
  <2>1. Walk' BY <1>4, RestWalk
  <2>2. drift' # "now" => Quiet' BY <1>1, <1>4, RestQuiet
  <2>3. QED BY <1>1, <2>1, <2>2 DEF QuotaInv
<1>5. QED BY <1>2, <1>3, <1>4 DEF QuotaNext, Rest

\* ... and it holds always.
LEMMA InvAlways == QuotaSpec => []QuotaInv
  BY InvInit, InvNext, PTL DEF QuotaSpec

\* Whatever the requests, and however their steps mix: while nothing has
\* happened that the code does not account for, the counter is the size of the
\* directory less what the requests under way have yet to account for
\* (Quota.Add, fs_quota.go; Filesystem.Write, Copy and CompressFiles), and a
\* lookup that nothing disturbed makes it so again (updateCachedDiskUsage,
\* disk_space.go).
THEOREM QuotaAccounted == QuotaSpec => []Accounted
<1>1. QuotaInv => Accounted BY DEF QuotaInv, Quiet, Pendings, Accounted
<1>2. QED BY <1>1, InvAlways, PTL

-----------------------------------------------------------------------------
(* How far the directory may exceed the limit.                              *)

\* The highest limit, and the largest file of every worker but one.
Bound == Highest + (Cardinality(Workers) - 1) * MaxSize

\* The counter with everything that may still be added to it is within the
\* bound.
Claimed == drift = "never" /\ 0 \notin Limits => usage + SumFunction(Claims) <= Bound

\* There is one worker fewer than workers.
LEMMA Others ==
  /\ Cardinality(Workers) \in Nat /\ Cardinality(Workers) >= 1
  /\ \A w \in Workers : /\ IsFiniteSet(Workers \ {w})
                        /\ Cardinality(Workers \ {w}) = Cardinality(Workers) - 1
  /\ (Cardinality(Workers) - 1) * MaxSize \in Nat
<1>1. Cardinality(Workers) \in Nat BY WorkersAssumption, FS_CardinalityType
<1>2. \A w \in Workers : /\ IsFiniteSet(Workers \ {w})
                         /\ Cardinality(Workers \ {w}) = Cardinality(Workers) - 1
  BY WorkersAssumption, FS_RemoveElement
<1>3. Cardinality(Workers) # 0 BY WorkersAssumption, FS_EmptySet
<1> DEFINE k == Cardinality(Workers) - 1
<1>4. k \in Nat BY <1>1, <1>3
<1> HIDE DEF k
<1>5. k * MaxSize \in Nat BY <1>4, BoundsAssumption
<1>6. QED BY <1>1, <1>2, <1>3, <1>5 DEF k

\* The bound is natural, and at least the highest limit.
LEMMA BoundIs == Highest \in Nat /\ Bound \in Nat /\ Bound >= Highest
<1> DEFINE k == (Cardinality(Workers) - 1) * MaxSize
<1>1. k \in Nat BY Others
<1> HIDE DEF k
<1>2. Bound = Highest + k BY DEF Bound, k
<1>3. QED BY <1>1, <1>2, HighestIs

\* A request claims at most the largest file.
LEMMA ClaimFits ==
  ASSUME Types, Quiet, NEW v \in Workers
  PROVE  Claim(v) \in Int /\ Claim(v) <= MaxSize
<1>1. OpType /\ DiskType BY DEF Types
<1>2. /\ op[v].cur \in Nat /\ op[v].len \in Nat /\ op[v].len <= MaxSize /\ op[v].delta \in Int
      /\ Fine(op[v]) /\ MaxSize \in Nat
  BY <1>1, OpAt, BoundsAssumption DEF Sizes
<1>3. CASE op[v].at \in {"load", "zero", "add"} /\ op[v].kind # "unlinkat"
  <2>1. Claim(v) = op[v].delta BY <1>3 DEF Claim
  <2>2. Knows(v) BY <1>3 DEF Quiet, Known
  <2>3. op[v].delta <= 0 \/ (op[v].file \in DOMAIN disk /\ op[v].delta <= disk[op[v].file])
    BY <1>3, <2>2 DEF Knows
  <2>4. \A f \in DOMAIN disk : disk[f] \in Nat /\ disk[f] <= MaxSize BY <1>1, DiskSums
  <2>5. QED BY <1>2, <2>1, <2>3, <2>4
<1>4. CASE op[v].at \in {"touch", "copy"} /\ op[v].kind = "write"
  <2>1. Claim(v) = IF op[v].len > op[v].cur THEN op[v].len - op[v].cur ELSE 0 BY <1>4 DEF Claim
  <2>2. QED BY <1>2, <2>1
<1>5. CASE op[v].at \in {"suffix", "open", "copy"} /\ op[v].kind = "copy"
  <2>1. Claim(v) = op[v].len BY <1>5 DEF Claim
  <2>2. QED BY <1>2, <2>1
<1>6. CASE op[v].at = "chunk"
  <2>1. Claim(v) = 1 BY <1>6 DEF Claim
  <2>2. op[v].cur < op[v].len BY <1>2, <1>6 DEF Fine
  <2>3. QED BY <1>2, <2>1, <2>2
<1>7. CASE /\ ~(op[v].at \in {"load", "zero", "add"} /\ op[v].kind # "unlinkat")
           /\ ~(op[v].at \in {"touch", "copy"} /\ op[v].kind = "write")
           /\ ~(op[v].at \in {"suffix", "open", "copy"} /\ op[v].kind = "copy")
           /\ op[v].at # "chunk"
  <2>1. Claim(v) = 0 BY <1>7 DEF Claim
  <2>2. QED BY <1>2, <2>1
<1>8. QED BY <1>3, <1>4, <1>5, <1>6, <1>7

\* A request adds what it had claimed; it claims more only when the check has
\* found that it fits, and the others' claims are at most a file each.
LEMMA EffectClaimed ==
  ASSUME Calm, NEW w \in Workers, NEW X, Effect(w, X), 0 \notin Limits,
         usage + SumFunction(Claims) <= Bound
  PROVE  usage' + SumFunction(Claims)' <= Bound
<1> DEFINE c == Claims
           e == Claims'
           R == Workers \ {w}
           k == (Cardinality(Workers) - 1) * MaxSize
<1>1. Types /\ Types' /\ Quiet BY DEF Calm
<1>2. \A v \in Workers : c[v] = Claim(v) /\ c[v] \in Int /\ c[v] <= MaxSize
  BY <1>1, ClaimFits DEF Claims
<1>3. \A v \in Workers : e[v] = Claim(v)' BY DEF Claims
<1>4. \A v \in Workers : v # w => e[v] = c[v]
  <2>1. \A v \in Workers : v # w => op'[v] = op[v] BY DEF Effect
  <2>2. \A v \in Workers : v # w => Claim(v)' = Claim(v) BY <2>1 DEF Claim
  <2>3. QED BY <1>2, <1>3, <2>2
<1>5. e[w] \in Int
  <2>1. op'[w].cur \in Nat /\ op'[w].len \in Sizes /\ op'[w].delta \in Int
    BY <1>1 DEF Types, OpType, Requests
  <2>2. Claim(w)' \in Int BY <2>1 DEF Claim, Sizes
  <2>3. QED BY <1>3, <2>2
<1>6. DOMAIN c = Workers /\ DOMAIN e = Workers BY DEF Claims
<1>7. usage \in Int /\ usage' \in Int BY <1>1 DEF Types, CountType
<1>8. usage' + e[w] <= usage + c[w] \/ usage' + e[w] <= Highest BY <1>2, <1>3 DEF Effect
<1>9. usage + SumFunctionOnSet(c, Workers) <= Bound BY <1>6 DEF SumFunction
<1>10. IsFiniteSet(R) /\ Cardinality(R) * MaxSize = k /\ k \in Nat /\ Bound = Highest + k
  BY Others DEF Bound
<1>11. R \subseteq Workers /\ \A v \in R : v # w OBVIOUS
<1> HIDE DEF c, e, R, k
<1>12. \A v \in Workers : e[v] \in Int BY <1>2, <1>4, <1>5
<1>13. SumFunctionOnSet(c, Workers) \in Int /\ SumFunctionOnSet(e, Workers) \in Int
  BY <1>2, <1>12, WorkersAssumption, SumInt
<1>14. SumFunctionOnSet(e, R) \in Int
  <2>1. \A v \in R : e[v] \in Int BY <1>11, <1>12
  <2>2. QED BY <1>10, <2>1, SumInt
<1>15. usage' + SumFunctionOnSet(e, Workers) <= Bound
  <2>1. CASE usage' + e[w] <= usage + c[w]
    <3>1. \A v \in Workers : c[v] \in Int BY <1>2
    <3>2. SumFunctionOnSet(e, Workers) = SumFunctionOnSet(c, Workers) + e[w] - c[w]
      BY <1>4, <1>12, <3>1, WorkersAssumption, SumChange
    <3>3. Bound \in Int BY BoundIs
    <3>4. QED BY <1>2, <1>5, <1>7, <1>9, <1>13, <2>1, <3>2, <3>3
  <2>2. CASE usage' + e[w] <= Highest
    <3>1. SumFunctionOnSet(e, Workers) = e[w] + SumFunctionOnSet(e, R)
      BY <1>12, WorkersAssumption, SumRemove DEF R
    <3>2. \A v \in R : e[v] \in Int /\ e[v] <= MaxSize BY <1>2, <1>4, <1>11
    <3>3. SumFunctionOnSet(e, R) <= k BY <1>10, <3>2, BoundsAssumption, SumBound
    <3>4. QED BY <1>5, <1>7, <1>10, <1>14, <2>2, <3>1, <3>3, HighestIs
  <2>3. QED BY <1>8, <2>1, <2>2
<1>16. usage' + SumFunction(e) <= Bound BY <1>6, <1>15 DEF SumFunction
<1>17. QED BY <1>16 DEF e

\* When nobody is busy, nobody claims anything.
LEMMA NothingClaimed ==
  ASSUME Busy = {}
  PROVE  SumFunction(Claims) = 0
<1>1. \A w \in Workers : Claims[w] = 0 BY DEF Busy, Claims, Claim
<1>2. QED BY <1>1, WorkersAssumption, SumZero DEF SumFunction, Claims

\* The invariant of the overrun.
OverrunInv == QuotaInv /\ Claimed

\* At the start nobody claims anything.
LEMMA ClaimedInit == QuotaInit => OverrunInv
<1> SUFFICES ASSUME QuotaInit PROVE OverrunInv OBVIOUS
<1>1. QuotaInv BY InvInit
<1>2. ASSUME drift = "never", 0 \notin Limits PROVE usage + SumFunction(Claims) <= Bound
  <2>1. Busy = {} BY DEF QuotaInit, Busy, NoOp
  <2>2. SumFunction(Claims) = 0 BY <2>1, NothingClaimed
  <2>3. usage = Total /\ Total <= Highest BY <1>2 DEF QuotaInit, Highest
  <2>4. Total \in Nat BY <1>1, TotalNat DEF QuotaInv, Types
  <2>5. QED BY <2>2, <2>3, <2>4, BoundIs
<1>3. QED BY <1>1, <1>2 DEF OverrunInv, Claimed

\* Every step keeps the claims within the bound.
LEMMA ClaimedNext == OverrunInv /\ [QuotaNext]_quotaVars => OverrunInv'
<1> SUFFICES ASSUME OverrunInv, [QuotaNext]_quotaVars PROVE OverrunInv' OBVIOUS
<1>1. QuotaInv /\ QuotaInv' BY InvNext DEF OverrunInv
<1>2. Types /\ Types' BY <1>1 DEF QuotaInv
<1>3. ASSUME UNCHANGED <<op, usage, drift>> PROVE Claimed'
  <2>1. Claims' = Claims BY <1>3 DEF Claims, Claim
  <2>2. QED BY <1>3, <2>1 DEF OverrunInv, Claimed, Bound, Highest
<1>4. ASSUME NEW w \in Workers, Step(w) \/ Fails(w) \/ Requested(w) \/ Wipe(w) PROVE Claimed'
  <2> SUFFICES ASSUME drift' = "never", 0 \notin Limits
               PROVE  usage' + SumFunction(Claims)' <= Bound
    BY DEF Claimed, Bound, Highest
  <2>1. drift = "never" BY <1>4, StepDrifts
  <2>2. Calm BY <1>1, <1>2, <2>1 DEF QuotaInv, Calm
  <2>3. PICK X : Effect(w, X) BY <1>4, <2>2, WorkerEffect
  <2>4. usage + SumFunction(Claims) <= Bound BY <2>1 DEF OverrunInv, Claimed
  <2>5. QED BY <2>2, <2>3, <2>4, EffectClaimed
<1>5. ASSUME NEW f \in Files, NEW n \in Sizes, Process(f, n) PROVE Claimed'
  BY <1>5 DEF Process, Drifts, Claimed
<1>6. ASSUME NEW l \in Lookers, Cache(l) PROVE Claimed'
  <2> SUFFICES ASSUME drift' = "never" PROVE Claimed' BY DEF Claimed
  <2>1. undisturbed /\ drift = "never" BY <1>6 DEF Cache
  <2>2. Busy = {} /\ usage' = Total /\ UNCHANGED <<disk, op>> BY <1>1, <1>6, <2>1, CacheQuiet
  <2>3. SumFunction(Pendings) = 0 BY <1>2, <2>2, NothingPending DEF Types
  <2>4. usage + SumFunction(Pendings) = Total /\ usage \in Int
    BY <1>1, <1>2, <2>1 DEF QuotaInv, Quiet, Types, CountType
  <2>5. usage' = usage BY <2>2, <2>3, <2>4
  <2>6. QED BY <1>3, <2>1, <2>2, <2>5
<1>7. ASSUME NEW l \in Lookers, LookupBegin(l) \/ (\E f \in Files : Visit(l, f)) PROVE Claimed'
  BY <1>3, <1>7 DEF LookupBegin, Visit, counterVars
<1>8. ASSUME NEW l \in Lookers, NEW a \in BOOLEAN, DiskUsage(l, a) PROVE Claimed'
  BY <1>3, <1>8 DEF DiskUsage, counterVars
<1>9. CASE Expire BY <1>1, <1>3, <1>9 DEF Expire, counterVars, OverrunInv
<1>10. ASSUME NEW i \in Limits, SetDiskLimit(i) PROVE Claimed' BY <1>3, <1>10 DEF SetDiskLimit
<1>11. CASE UNCHANGED quotaVars BY <1>1, <1>3, <1>11 DEF quotaVars, counterVars, OverrunInv
<1>12. QED BY <1>1, <1>4, <1>5, <1>6, <1>7, <1>8, <1>9, <1>10, <1>11 DEF QuotaNext, Lookup, OverrunInv

\* Requests that pass the check together exceed the limit by the largest file of
\* each of them but one, and by no more: each adds what the check has found to
\* fit (Quota.CanFit, fs_quota.go) at most once.
THEOREM OverrunBounded == QuotaSpec => []BoundedOverrun
<1>1. OverrunInv => BoundedOverrun
  <2> SUFFICES ASSUME OverrunInv, drift = "never", Busy = {}, 0 \notin Limits
               PROVE  Total <= Max(Limits \union {0}) + (Cardinality(Workers) - 1) * MaxSize
    BY DEF BoundedOverrun
  <2>1. Types /\ Quiet /\ Claimed BY DEF OverrunInv, QuotaInv
  <2>2. usage + SumFunction(Claims) <= Bound BY <2>1 DEF Claimed
  <2>3. SumFunction(Claims) = 0 BY NothingClaimed
  <2>4. usage + SumFunction(Pendings) = Total /\ SumFunction(Pendings) = 0 /\ usage \in Int
    BY <2>1, NothingPending DEF Quiet, Types, CountType
  <2>5. Total <= Bound BY <2>2, <2>3, <2>4
  <2>6. QED BY <2>5 DEF Bound, Highest
<1>2. QuotaSpec => []OverrunInv BY ClaimedInit, ClaimedNext, PTL DEF QuotaSpec
<1>3. QED BY <1>1, <1>2, PTL

=============================================================================

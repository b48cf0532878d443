------------------------- MODULE ServerPowerProofs -------------------------
(***************************************************************************)
(* What holds of ServerPower for every set of users, handlers, crash        *)
(* handlers, stoppers and installers, whatever fails.                       *)
(***************************************************************************)
EXTENDS ServerPower, TLAPS

-----------------------------------------------------------------------------
(* Type correctness.                                                        *)

\* SetState keeps the types of the state and of the event handlers.
LEMMA SetStateType ==
  ASSUME TypeOK, NEW s \in States, SetState(s)
  PROVE  /\ st' \in States
         /\ handler' \in [Handlers -> HandlerState]
  BY DEF TypeOK, SetState, HandlerState

\* An actor that only moves on keeps the types.
LEMMA StepType ==
  ASSUME TypeOK, NEW a \in Actors, NEW from, NEW to \in PCs, Step(a, from, to)
  PROVE  TypeOK'
  BY DEF TypeOK, Step, Goto, envVars, dockerVars, serverVars

\* An actor that stores a state and moves on keeps the types.
LEMMA MarkType ==
  ASSUME TypeOK, NEW a \in Actors, NEW from, NEW s \in States, NEW to \in PCs,
         Mark(a, from, s, to)
  PROVE  TypeOK'
<1>1. SetState(s) BY DEF Mark
<1>2. /\ st' \in States
      /\ handler' \in [Handlers -> HandlerState]
  BY <1>1, SetStateType
<1>3. QED
  BY <1>2 DEF TypeOK, Mark, Goto, dockerVars


\* The program counters one by one, for membership of a single one.
LEMMA PCsType ==
  /\ BootPCs \subseteq PCs /\ LaunchPCs \subseteq BootPCs
  /\ StopPCs \subseteq PCs /\ TermPCs \subseteq PCs
  /\ CrashPCs \subseteq PCs /\ InstallPCs \subseteq PCs
  /\ {"idle", "acquire", "state", "release", "panic"} \subseteq PCs
  BY DEF PCs, BootPCs, LaunchPCs, StopPCs, TermPCs, CrashPCs, InstallPCs

\* Where WaitForStop and Terminate return to.
LEMMA AfterStopType ==
  ASSUME NEW x PROVE AfterStop(x) \in {"preboot", "r_sync", "release"}
  BY DEF AfterStop

\* Where Terminate returns to.
LEMMA AfterTerminateType ==
  ASSUME NEW a PROVE AfterTerminate(a) \in {"preboot", "r_sync", "release", "wait"}
  BY AfterStopType DEF AfterTerminate

\* Those places are program counters.
LEMMA ReturnsInPCs == {"preboot", "r_sync", "release", "wait"} \subseteq PCs
  BY DEF PCs, BootPCs, StopPCs, InstallPCs

\* Requests, the lock and its release keep the types.
LEMMA RequestType ==
  ASSUME TypeOK, Request PROVE TypeOK'
<1>1. ASSUME NEW u \in Users, NEW x \in Actions, HandlePowerAction(u, x) PROVE TypeOK'
  <2>1. u \in Actors /\ x \in Acts /\ "acquire" \in PCs
    BY ActionsAssumption, PCsType DEF Actors, Acts
  <2>2. QED BY <1>1, <2>1 DEF TypeOK, HandlePowerAction, Goto, envVars, dockerVars, serverVars
<1>2. ASSUME NEW u \in Users, NEW x \in Actions, UserCommand(u, x) PROVE TypeOK'
  <2>1. u \in Actors /\ x \in Acts /\ "send" \in PCs
    BY ActionsAssumption, PCsType DEF Actors, Acts, StopPCs
  <2>2. QED BY <1>2, <2>1 DEF TypeOK, UserCommand, Goto, envVars, dockerVars, serverVars
<1>3. ASSUME NEW d \in Stoppers, DiskTrigger(d) PROVE TypeOK'
  <2>1. d \in Actors /\ "halt" \in Acts /\ "stop" \in PCs
    BY PCsType DEF Actors, Acts, StopPCs
  <2>2. QED BY <1>3, <2>1 DEF TypeOK, DiskTrigger, Goto, envVars, dockerVars
<1>4. ASSUME NEW d \in Stoppers, Suspend(d) PROVE TypeOK'
  <2>1. d \in Actors /\ "halt" \in Acts /\ "stop" \in PCs
    BY PCsType DEF Actors, Acts, StopPCs
  <2>2. QED BY <1>4, <2>1 DEF TypeOK, Suspend, Goto, envVars, dockerVars, serverVars
<1>5. ASSUME NEW i \in Installers, Reinstall(i) PROVE TypeOK'
  <2>1. i \in Actors /\ "reinstall" \in Acts /\ "r_state" \in PCs
    BY PCsType DEF Actors, Acts, InstallPCs
  <2>2. QED BY <1>5, <2>1 DEF TypeOK, Reinstall, Goto, envVars, dockerVars, serverVars
<1>6. QED BY <1>1, <1>2, <1>3, <1>4, <1>5 DEF Request

\* Taking, failing to take and releasing the lock keep the types.
LEMMA LockType ==
  ASSUME TypeOK, NEW a \in Actors, Lock(a) PROVE TypeOK'
<1>1. CASE Acquire(a)
  <2>1. Body(act[a]) \in {"state", "stop", "t_inspect"} BY DEF Body
  <2>2. Body(act[a]) \in PCs BY <2>1, PCsType DEF StopPCs, TermPCs
  <2>3. QED BY <1>1, <2>2 DEF TypeOK, Acquire, Goto, envVars, dockerVars, serverVars
<1>2. CASE AcquireFails(a)
  <2>1. (IF act[a] = "kill" THEN "t_inspect" ELSE "release") \in PCs
    BY PCsType DEF TermPCs
  <2>2. QED BY <1>2, <2>1, StepType DEF AcquireFails
<1>3. CASE Release(a)
  <2>1. "none" \in Acts /\ "idle" \in PCs BY PCsType DEF Acts
  <2>2. QED BY <1>3, <2>1 DEF TypeOK, Release, Goto, envVars, dockerVars, serverVars
<1>4. QED BY <1>1, <1>2, <1>3 DEF Lock

\* Attaching keeps the types.
LEMMA AttachType ==
  ASSUME TypeOK, NEW a \in Actors, NEW from, NEW to \in PCs, NEW fail \in PCs,
         Attach(a, from, to, fail)
  PROVE  TypeOK'
<1>1. CASE IsAttached /\ Step(a, from, to) BY <1>1, StepType
<1>2. CASE /\ At(a, from) /\ Connect /\ Goto(a, to)
           /\ UNCHANGED <<locked, own, act, forced, st, dockerVars, serverVars>>
  BY <1>2 DEF TypeOK, Connect, Goto, dockerVars, serverVars
<1>3. CASE Step(a, from, fail) BY <1>3, StepType
<1>4. QED BY <1>1, <1>2, <1>3 DEF Attach

\* The steps of onBeforeStart and Environment.Start keep the types.
LEMMA BootType ==
  ASSUME TypeOK, NEW a \in Actors, Boot(a) PROVE TypeOK'
<1> USE PCsType
<1>0. {"preboot", "inspect", "adopt", "adoptAttach", "starting", "remove", "create",
       "attach", "cstart", "unwind1", "unwind2", "release"} \subseteq PCs
      /\ {"offline", "starting", "running", "stopping"} \subseteq States
  BY DEF BootPCs, LaunchPCs, States
<1>1. CASE CheckOffline(a) BY <1>0, <1>1, StepType DEF CheckOffline
<1>2. CASE PreBoot(a) BY <1>0, <1>2, StepType DEF PreBoot
<1>3. CASE Inspect(a) BY <1>0, <1>3, StepType DEF Inspect
<1>4. CASE Adopt(a) BY <1>0, <1>4, MarkType DEF Adopt
<1>5. CASE AdoptAttach(a) BY <1>0, <1>5, AttachType DEF AdoptAttach
<1>6. CASE Starting(a) BY <1>0, <1>6, MarkType DEF Starting
<1>7. CASE Remove(a)
  <2>1. CASE Step(a, "remove", "unwind1") BY <1>0, <2>1, StepType
  <2>2. CASE ~Step(a, "remove", "unwind1")
    BY <1>0, <1>7, <2>2 DEF TypeOK, Remove, Goto, serverVars
  <2>3. QED BY <2>1, <2>2
<1>8. CASE Create(a)
  <2>1. CASE Step(a, "create", "unwind1") BY <1>0, <2>1, StepType
  <2>2. CASE ~Step(a, "create", "unwind1")
    BY <1>0, <1>8, <2>2 DEF TypeOK, Create, Goto, serverVars, envVars
  <2>3. QED BY <2>1, <2>2
<1>9. CASE AttachFirst(a) BY <1>0, <1>9, AttachType DEF AttachFirst
<1>10. CASE ContainerStart(a)
  <2>1. CASE Step(a, "cstart", "unwind1") BY <1>0, <2>1, StepType
  <2>2. CASE ~Step(a, "cstart", "unwind1")
    BY <1>0, <1>10, <2>2 DEF TypeOK, ContainerStart, Goto, serverVars, envVars
  <2>3. QED BY <2>1, <2>2
<1>11. CASE Unwind(a) BY <1>0, <1>11, MarkType DEF Unwind
<1>12. QED
  BY <1>1, <1>2, <1>3, <1>4, <1>5, <1>6, <1>7, <1>8, <1>9, <1>10, <1>11 DEF Boot

\* The steps of Stop and WaitForStop keep the types.
LEMMA WaitForStopType ==
  ASSUME TypeOK, NEW a \in Actors, WaitForStop(a) PROVE TypeOK'
<1>0. /\ StopPCs \subseteq PCs
      /\ {"t_inspect", "release", "panic", "wait"} \subseteq PCs
      /\ AfterStop(act[a]) \in PCs
      /\ {"offline", "stopping"} \subseteq States
  BY PCsType, AfterStopType, ReturnsInPCs DEF TermPCs, States
<1>1. CASE Stop(a)
  <2>1. PICK t \in StopTypes :
          Step(a, "stop", CASE t = "signal" -> "t_inspect"
                            [] t = "command" -> "check_command"
                            [] OTHER -> "check_native")
    BY <1>1 DEF Stop
  <2>2. (CASE t = "signal" -> "t_inspect" [] t = "command" -> "check_command"
           [] OTHER -> "check_native") \in PCs
    BY <1>0 DEF StopPCs
  <2>3. QED BY <2>1, <2>2, StepType
<1>2. CASE CheckStopping(a) BY <1>0, <1>2, StepType DEF CheckStopping, StopPCs
<1>3. CASE MarkStopping(a) BY <1>0, <1>3, MarkType DEF MarkStopping, StopPCs
<1>4. CASE StopCommand(a) BY <1>0, <1>4, StepType DEF StopCommand, StopPCs
<1>5. CASE SendCommand(a) BY <1>0, <1>5, StepType DEF SendCommand, StopPCs
<1>6. CASE WriteCommand(a)
  <2>1. SetState("stopping") BY <1>6 DEF WriteCommand
  <2>2. QED
    BY <1>0, <1>6, <2>1, SetStateType DEF TypeOK, WriteCommand, Goto
<1>7. CASE ContainerStop(a)
  <2>1. CASE Step(a, "cstop", "nilstream") \/ Step(a, "cstop", "release")
    BY <1>0, <2>1, StepType DEF StopPCs
  <2>2. CASE ~(Step(a, "cstop", "nilstream") \/ Step(a, "cstop", "release"))
    BY <1>0, <1>7, <2>2 DEF TypeOK, ContainerStop, Goto, envVars, serverVars
  <2>3. QED BY <2>1, <2>2
<1>8. CASE ForgetStream(a)
  BY <1>0, <1>8 DEF TypeOK, ForgetStream, Goto, dockerVars, serverVars, StopPCs
<1>9. CASE ForgetState(a) BY <1>0, <1>9, MarkType DEF ForgetState
<1>10. CASE WaitStopped(a) BY <1>0, <1>10, StepType DEF WaitStopped
<1>11. CASE WaitTimeout(a)
  BY <1>0, <1>11 DEF TypeOK, WaitTimeout, Goto, envVars, dockerVars, serverVars
<1>12. CASE StopTimeout(a)
  BY <1>0, <1>12 DEF TypeOK, StopTimeout, Goto, envVars, dockerVars, serverVars
<1>13. QED
  BY <1>1, <1>2, <1>3, <1>4, <1>5, <1>6, <1>7, <1>8, <1>9, <1>10, <1>11, <1>12
  DEF WaitForStop

\* ContainerKill keeps the types.
LEMMA KillType ==
  ASSUME TypeOK, NEW a \in Actors, NEW from, NEW to \in PCs,
         NEW sigs \in SUBSET {"stop", "kill"}, Kill(a, from, to, sigs)
  PROVE  TypeOK'
<1>1. CASE Step(a, from, to) BY <1>1, StepType
<1>2. CASE Step(a, from, "release") BY <1>2, StepType, PCsType
<1>3. CASE ~Step(a, from, to) /\ ~Step(a, from, "release")
  BY <1>3 DEF TypeOK, Kill, Stronger, Goto, envVars, serverVars
<1>4. QED BY <1>1, <1>2, <1>3

\* The steps of Terminate keep the types.
LEMMA TerminateType ==
  ASSUME TypeOK, NEW a \in Actors, Terminate(a) PROVE TypeOK'
<1>0. /\ TermPCs \subseteq PCs /\ "release" \in PCs
      /\ AfterTerminate(a) \in PCs
      /\ {"offline", "stopping"} \subseteq States
      /\ Signals(a) \in SUBSET {"stop", "kill"}
  BY PCsType, AfterTerminateType, ReturnsInPCs DEF States, Signals
<1>1. CASE TermInspect(a) BY <1>0, <1>1, StepType DEF TermInspect, TermPCs
<1>2. CASE TermMark(a) BY <1>0, <1>2, MarkType DEF TermMark, TermPCs
<1>3. CASE TermKill(a) BY <1>0, <1>3, KillType DEF TermKill, TermPCs
<1>4. CASE TermPoll(a) BY <1>0, <1>4, StepType DEF TermPoll, TermPCs
<1>5. CASE TermLast(a) BY <1>0, <1>5, KillType DEF TermLast, TermPCs
<1>6. CASE TermOff(a) BY <1>0, <1>6, MarkType DEF TermOff
<1>7. QED BY <1>1, <1>2, <1>3, <1>4, <1>5, <1>6 DEF Terminate

\* The crash handler and the reinstall keep the types.
LEMMA HandleCrashType ==
  ASSUME TypeOK, NEW c \in Actors, HandleCrash(c) PROVE TypeOK'
<1>0. CrashPCs \subseteq PCs /\ {"release", "acquire"} \subseteq PCs BY PCsType
<1>1. CASE CrashCheck(c) BY <1>0, <1>1, StepType DEF CrashCheck, CrashPCs
<1>2. CASE CrashExit(c) BY <1>0, <1>2, StepType DEF CrashExit, CrashPCs
<1>3. CASE CrashRecent(c) BY <1>0, <1>3, StepType DEF CrashRecent, CrashPCs
<1>4. CASE CrashStart(c)
  BY <1>0, <1>4 DEF TypeOK, CrashStart, Goto, envVars, dockerVars
<1>5. QED BY <1>1, <1>2, <1>3, <1>4 DEF HandleCrash

\* The steps of Reinstall keep the types.
LEMMA InstallType ==
  ASSUME TypeOK, NEW i \in Actors, Install(i) PROVE TypeOK'
<1>0. /\ InstallPCs \subseteq PCs /\ {"release", "stop"} \subseteq PCs
      /\ "offline" \in States
  BY PCsType DEF StopPCs, States
<1>1. CASE InstallCheck(i) BY <1>0, <1>1, StepType DEF InstallCheck, InstallPCs
<1>2. CASE InstallSync(i) BY <1>0, <1>2, StepType DEF InstallSync, InstallPCs
<1>3. CASE InstallClaim(i)
  BY <1>0, <1>3 DEF TypeOK, InstallClaim, Goto, envVars, dockerVars, InstallPCs
<1>4. CASE InstallDone(i)
  BY <1>0, <1>4 DEF TypeOK, InstallDone, Goto, envVars, dockerVars, InstallPCs
<1>5. CASE InstallOffline(i) BY <1>0, <1>5, MarkType DEF InstallOffline
<1>6. QED BY <1>1, <1>2, <1>3, <1>4, <1>5 DEF Install

\* The event handlers keep the types.
LEMMA HandleType ==
  ASSUME TypeOK, NEW h \in Handlers, Handle(h) PROVE TypeOK'
<1>0. /\ handler[h] \in HandlerState /\ st \in States /\ "offline" \in States
      /\ (tracked \in {"starting", "running"}) \in BOOLEAN
      /\ handler \in [Handlers -> HandlerState]
  BY DEF TypeOK, States
<1>1. CASE HandlerReset(h)
  <2>1. [handler[h] EXCEPT !.pc = "recv"] \in HandlerState BY <1>0 DEF HandlerState
  <2>2. QED BY <1>1, <2>1 DEF TypeOK, HandlerReset, powerVars, envVars, dockerVars
<1>2. CASE HandlerLoadPrev(h)
  <2>1. [handler[h] EXCEPT !.pc = "prev", !.online = tracked \in {"starting", "running"}]
          \in HandlerState
    BY <1>0 DEF HandlerState
  <2>2. QED BY <1>2, <2>1 DEF TypeOK, HandlerLoadPrev, powerVars, envVars, dockerVars
<1>3. CASE HandlerLoadCur(h)
  <2>1. [handler[h] EXCEPT !.pc = "cur", !.cur = st] \in HandlerState
    BY <1>0 DEF HandlerState
  <2>2. QED BY <1>3, <2>1 DEF TypeOK, HandlerLoadCur, powerVars, envVars, dockerVars
<1>4. CASE HandlerStore(h)
  <2>1. [handler[h] EXCEPT !.pc = "stored", !.cur = "offline"] \in HandlerState
        /\ handler[h].cur \in States
    BY <1>0 DEF HandlerState
  <2>2. QED BY <1>4, <2>1 DEF TypeOK, HandlerStore, powerVars, envVars, dockerVars
<1>5. CASE HandlerDecide(h)
  <2>1. NoEvent \in HandlerState
    BY DEF NoEvent, States, HandlerState
  <2>2. Crashers \subseteq Actors /\ "c_state" \in PCs /\ "start" \in Acts
    BY PCsType DEF Actors, CrashPCs, Acts
  <2>3. QED
    BY <1>5, <2>1, <2>2 DEF TypeOK, HandlerDecide, Goto, envVars, dockerVars
<1>6. QED BY <1>1, <1>2, <1>3, <1>4, <1>5 DEF Handle

\* The readers, the process and the console keep the types.
LEMMA WatchType ==
  ASSUME TypeOK,
         \/ \E k \in Readers : ReaderEnds(k) \/ ReaderDetaches(k)
         \/ ContainerExits \/ ConsoleLine \/ ConsoleMark \/ CrashWindowEnds
  PROVE  TypeOK'
<1>0. "offline" \in States /\ "running" \in States BY DEF States
<1>1. ASSUME NEW k \in Readers, ReaderEnds(k) PROVE TypeOK'
  BY <1>0, <1>1, SetStateType DEF TypeOK, ReaderEnds, powerVars, dockerVars
<1>2. ASSUME NEW k \in Readers, ReaderDetaches(k) PROVE TypeOK'
  BY <1>2 DEF TypeOK, ReaderDetaches, powerVars, dockerVars, serverVars
<1>3. CASE ContainerExits
  BY <1>3 DEF TypeOK, ContainerExits, powerVars, envVars, serverVars
<1>4. CASE ConsoleLine
  BY <1>4 DEF TypeOK, ConsoleLine, powerVars, envVars, dockerVars
<1>5. CASE ConsoleMark
  BY <1>0, <1>5, SetStateType DEF TypeOK, ConsoleMark, powerVars, dockerVars
<1>6. CASE CrashWindowEnds
  BY <1>6 DEF TypeOK, CrashWindowEnds, powerVars, envVars, dockerVars
<1>7. QED BY <1>1, <1>2, <1>3, <1>4, <1>5, <1>6

\* Every step keeps the types.
LEMMA NextType == TypeOK /\ [Next]_vars => TypeOK'
<1> SUFFICES ASSUME TypeOK, [Next]_vars PROVE TypeOK'
  OBVIOUS
<1>1. CASE Request BY <1>1, RequestType
<1>2. ASSUME NEW a \in Actors, Act(a) PROVE TypeOK'
  BY <1>2, LockType, BootType, WaitForStopType, TerminateType DEF Act
<1>3. ASSUME NEW c \in Crashers, HandleCrash(c) PROVE TypeOK'
  BY <1>3, HandleCrashType DEF Actors
<1>4. ASSUME NEW i \in Installers, Install(i) PROVE TypeOK'
  BY <1>4, InstallType DEF Actors
<1>5. ASSUME NEW h \in Handlers, Handle(h) PROVE TypeOK' BY <1>5, HandleType
<1>6. CASE \/ \E k \in Readers : ReaderEnds(k) \/ ReaderDetaches(k)
           \/ ContainerExits \/ ConsoleLine \/ ConsoleMark \/ CrashWindowEnds
  BY <1>6, WatchType
<1>7. CASE UNCHANGED vars
  BY <1>7 DEF TypeOK, vars, powerVars, envVars, dockerVars, serverVars
<1>8. QED BY <1>1, <1>2, <1>3, <1>4, <1>5, <1>6, <1>7 DEF Next

\* The initial state has the right types.
LEMMA InitType == Init => TypeOK
<1> SUFFICES ASSUME Init PROVE TypeOK
  OBVIOUS
<1>1. NoEvent \in HandlerState
  BY DEF NoEvent, States, HandlerState
<1>2. "idle" \in PCs /\ "none" \in Acts /\ "offline" \in States
  BY PCsType DEF Acts, States
<1>3. QED BY <1>1, <1>2 DEF Init, TypeOK

\* The variables keep their types whatever the actors do.
THEOREM TypeCorrect == Spec => []TypeOK
  BY InitType, NextType, PTL DEF Spec

-----------------------------------------------------------------------------
(* The lock.  Every step of the server is one of six kinds as far as the    *)
(* lock, the program counters and the container are concerned; each kind    *)
(* keeps LockInv and maps to a step of OneBoot.                             *)

\* Actor a may be at l without breaking the discipline of the lock.
Allowed(a, l) ==
  /\ l \in BootPCs \union {"state"} => a \in own
  /\ act[a] = "restart" /\ l \in StopPCs \union TermPCs => a \in own
  /\ l \in InstallPCs => act[a] = "reinstall"
  /\ l \in LaunchPCs => container # "running"

SameUp == (container' = "running") <=> (container = "running")

MovesTo(a, l) == Goto(a, l) /\ Allowed(a, l) /\ SameUp /\ UNCHANGED <<locked, own, act>>

Moves == \E a \in Actors, l \in PCs : MovesTo(a, l)

Begins ==
  \E a \in Actors, l \in {"acquire", "send", "stop", "r_state", "c_state"}, x \in Acts :
    /\ pc[a] = "idle" /\ Goto(a, l)
    /\ act' = [act EXCEPT ![a] = x]
    /\ (l \in {"send", "stop"} => x # "restart") /\ (l = "r_state" => x = "reinstall")
    /\ UNCHANGED <<locked, own, container>>

Launches ==
  \E a \in Actors, l \in {"release", "unwind1"} :
    /\ pc[a] = "cstart" /\ Goto(a, l)
    /\ container' = "running"
    /\ UNCHANGED <<locked, own, act>>

Exits == container = "running" /\ container' # "running" /\ UNCHANGED <<pc, locked, own, act>>

Still == SameUp /\ UNCHANGED <<pc, locked, own, act>>

Kinds ==
  \/ Moves \/ Begins \/ Launches \/ Exits \/ Still
  \/ \E a \in Actors : Acquire(a) \/ Release(a)

\* Step and Mark are moves when the place they lead to is allowed.
LEMMA StepMoves ==
  ASSUME NEW a \in Actors, NEW from, NEW to \in PCs, Step(a, from, to), Allowed(a, to)
  PROVE  Moves
  BY DEF Moves, MovesTo, SameUp, Step, dockerVars

\* Storing a state on the way is a move as well.
LEMMA MarkMoves ==
  ASSUME NEW a \in Actors, NEW from, NEW s, NEW to \in PCs, Mark(a, from, s, to), Allowed(a, to)
  PROVE  Moves
  BY DEF Moves, MovesTo, SameUp, Mark, dockerVars

\* The places every actor is allowed to be at.
LEMMA AllowedFree ==
  ASSUME NEW a PROVE Allowed(a, "release") /\ Allowed(a, "panic")
  BY DEF Allowed, BootPCs, LaunchPCs, StopPCs, TermPCs, InstallPCs

\* Who is in WaitForStop or Terminate may go anywhere within them, to what
\* follows them, and nowhere else.
LEMMA AllowedStop ==
  ASSUME LockInv, NEW a \in Actors, pc[a] \in StopPCs \union TermPCs
  PROVE  /\ \A l \in StopPCs \union TermPCs : Allowed(a, l)
         /\ Allowed(a, AfterStop(act[a]))
         /\ Allowed(a, AfterTerminate(a))
<1>1. act[a] = "restart" => a \in own
  BY DEF LockInv, LockDiscipline
<1>2. \A l \in StopPCs \union TermPCs : Allowed(a, l)
  BY <1>1 DEF Allowed, BootPCs, LaunchPCs, StopPCs, TermPCs, InstallPCs
<1>3. Allowed(a, AfterStop(act[a]))
  BY <1>1 DEF AfterStop, Allowed, BootPCs, LaunchPCs, StopPCs, TermPCs, InstallPCs
<1>4. Allowed(a, AfterTerminate(a))
  BY <1>2, <1>3, AllowedFree DEF AfterTerminate, StopPCs
<1>5. QED BY <1>2, <1>3, <1>4

\* Who boots may go anywhere within the boot, as long as no process runs.
LEMMA AllowedBoot ==
  ASSUME LockInv, NEW a \in Actors, pc[a] \in BootPCs \union {"state"}
  PROVE  /\ \A l \in BootPCs \ LaunchPCs : Allowed(a, l)
         /\ container # "running" => \A l \in LaunchPCs : Allowed(a, l)
  BY DEF LockInv, LockDiscipline, Allowed, BootPCs, LaunchPCs, StopPCs, TermPCs, InstallPCs

\* A reinstall may go anywhere within it and to its stop of the server.
LEMMA AllowedInstall ==
  ASSUME LockInv, NEW a \in Actors, pc[a] \in InstallPCs
  PROVE  \A l \in InstallPCs \union {"stop"} : Allowed(a, l)
  BY DEF LockInv, LockDiscipline, Allowed, BootPCs, LaunchPCs, StopPCs, TermPCs, InstallPCs

\* A crash handler may be anywhere before its boot.
LEMMA AllowedCrash ==
  ASSUME NEW a, NEW l \in CrashPCs \union {"acquire"} PROVE Allowed(a, l)
  BY DEF Allowed, CrashPCs, BootPCs, LaunchPCs, StopPCs, TermPCs, InstallPCs

\* A request begins something.
LEMMA RequestKinds == ASSUME TypeOK, Request PROVE Begins
<1> USE ActionsAssumption DEF Acts, Actors
<1>1. ASSUME NEW u \in Users, NEW x \in Actions, HandlePowerAction(u, x) PROVE Begins
  BY <1>1 DEF HandlePowerAction, Begins, At, dockerVars
<1>2. ASSUME NEW u \in Users, NEW x \in Actions, UserCommand(u, x) PROVE Begins
  BY <1>2 DEF UserCommand, Begins, At, dockerVars
<1>3. ASSUME NEW d \in Stoppers, DiskTrigger(d) \/ Suspend(d) PROVE Begins
  BY <1>3 DEF DiskTrigger, Suspend, Begins, At, dockerVars
<1>4. ASSUME NEW i \in Installers, Reinstall(i) PROVE Begins
  BY <1>4 DEF Reinstall, Begins, At, dockerVars
<1>5. QED BY <1>1, <1>2, <1>3, <1>4 DEF Request

\* The lock's steps are its own kinds or moves.
LEMMA LockKinds ==
  ASSUME TypeOK, LockInv, NEW a \in Actors, Lock(a) PROVE Kinds
<1>1. CASE AcquireFails(a)
  <2>1. CASE act[a] = "kill"
    <3>1. Allowed(a, "t_inspect")
      BY <2>1 DEF Allowed, BootPCs, LaunchPCs, StopPCs, TermPCs, InstallPCs
    <3>2. Step(a, "acquire", "t_inspect") BY <1>1, <2>1 DEF AcquireFails
    <3>3. QED BY <3>1, <3>2, StepMoves, PCsType DEF Kinds, TermPCs
  <2>2. CASE act[a] # "kill"
    BY <1>1, <2>2, StepMoves, AllowedFree, PCsType DEF AcquireFails, Kinds
  <2>3. QED BY <2>1, <2>2
<1>2. QED BY <1>1 DEF Lock, Kinds

\* Attaching is a move.
LEMMA AttachKinds ==
  ASSUME TypeOK, LockInv, NEW a \in Actors, NEW from, NEW to \in PCs, NEW fail \in PCs,
         Attach(a, from, to, fail), Allowed(a, to), Allowed(a, fail)
  PROVE  Moves
<1>1. CASE Step(a, from, to) BY <1>1, StepMoves
<1>2. CASE Step(a, from, fail) BY <1>2, StepMoves
<1>3. CASE ~Step(a, from, to) /\ ~Step(a, from, fail)
  BY <1>3 DEF Attach, Moves, MovesTo, SameUp, dockerVars
<1>4. QED BY <1>1, <1>2, <1>3

\* Every step of a boot is of one of the kinds.
LEMMA BootKinds ==
  ASSUME TypeOK, LockInv, NEW a \in Actors, Boot(a) PROVE Kinds
<1>0. /\ BootPCs \subseteq PCs /\ "release" \in PCs
      /\ Allowed(a, "release")
      /\ pc[a] \in LaunchPCs => container # "running"
      /\ LaunchPCs \subseteq BootPCs
  BY PCsType, AllowedFree DEF LockInv, NoLaunchOverRunning
<1>1. CASE CheckOffline(a)
  <2>1. pc[a] = "state" BY <1>1 DEF CheckOffline, Step, At
  <2>2. Allowed(a, "preboot") BY <2>1, AllowedBoot DEF BootPCs, LaunchPCs
  <2>3. QED BY <1>0, <1>1, <2>2, StepMoves DEF CheckOffline, Kinds, BootPCs
<1>2. CASE PreBoot(a)
  <2>1. pc[a] = "preboot" BY <1>2 DEF PreBoot, Step, At
  <2>2. Allowed(a, "inspect") BY <2>1, AllowedBoot DEF BootPCs, LaunchPCs
  <2>3. QED BY <1>0, <1>2, <2>2, StepMoves DEF PreBoot, Kinds, BootPCs
<1>3. CASE Inspect(a)
  <2>1. pc[a] = "inspect" BY <1>3 DEF Inspect, Step, At
  <2>2. Allowed(a, IF container = "running" THEN "adopt" ELSE "starting")
    BY <2>1, AllowedBoot DEF BootPCs, LaunchPCs
  <2>3. (IF container = "running" THEN "adopt" ELSE "starting") \in PCs
    BY <1>0 DEF BootPCs, LaunchPCs
  <2>4. QED BY <1>0, <1>3, <2>2, <2>3, StepMoves DEF Inspect, Kinds
<1>4. CASE Adopt(a)
  <2>1. pc[a] = "adopt" BY <1>4 DEF Adopt, Mark, At
  <2>2. Allowed(a, "adoptAttach") BY <2>1, AllowedBoot DEF BootPCs, LaunchPCs
  <2>3. QED BY <1>0, <1>4, <2>2, MarkMoves DEF Adopt, Kinds, BootPCs
<1>5. CASE AdoptAttach(a) BY <1>0, <1>5, AttachKinds DEF AdoptAttach, Kinds
<1>6. CASE Starting(a)
  <2>1. pc[a] = "starting" BY <1>6 DEF Starting, Mark, At
  <2>2. Allowed(a, "remove") BY <1>0, <2>1, AllowedBoot DEF BootPCs, LaunchPCs
  <2>3. QED BY <1>0, <1>6, <2>2, MarkMoves DEF Starting, Kinds, LaunchPCs
<1>7. CASE Remove(a)
  <2>1. pc[a] = "remove" BY <1>7 DEF Remove, Step, At
  <2>2. Allowed(a, "create") /\ Allowed(a, "unwind1")
    BY <1>0, <2>1, AllowedBoot DEF BootPCs, LaunchPCs
  <2>3. CASE Step(a, "remove", "unwind1")
    BY <1>0, <2>2, <2>3, StepMoves DEF Kinds, BootPCs
  <2>4. CASE ~Step(a, "remove", "unwind1")
    BY <1>0, <1>7, <2>2, <2>4 DEF Remove, Kinds, Moves, MovesTo, SameUp, LaunchPCs
  <2>5. QED BY <2>3, <2>4
<1>8. CASE Create(a)
  <2>1. pc[a] = "create" BY <1>8 DEF Create, Step, At
  <2>2. Allowed(a, "attach") /\ Allowed(a, "unwind1")
    BY <1>0, <2>1, AllowedBoot DEF BootPCs, LaunchPCs
  <2>3. CASE Step(a, "create", "unwind1")
    BY <1>0, <2>2, <2>3, StepMoves DEF Kinds, BootPCs
  <2>4. CASE ~Step(a, "create", "unwind1")
    BY <1>0, <1>8, <2>2, <2>4 DEF Create, Kinds, Moves, MovesTo, SameUp, LaunchPCs
  <2>5. QED BY <2>3, <2>4
<1>9. CASE AttachFirst(a)
  <2>1. pc[a] = "attach" BY <1>9 DEF AttachFirst, Attach, Step, At
  <2>2. Allowed(a, "cstart") /\ Allowed(a, "unwind1")
    BY <1>0, <2>1, AllowedBoot DEF BootPCs, LaunchPCs
  <2>3. QED BY <1>0, <1>9, <2>2, AttachKinds DEF AttachFirst, Kinds, BootPCs, LaunchPCs
<1>10. CASE ContainerStart(a)
  <2>1. pc[a] = "cstart" BY <1>10 DEF ContainerStart, Step, At
  <2>2. Allowed(a, "unwind1") BY <1>0, <2>1, AllowedBoot DEF BootPCs, LaunchPCs
  <2>3. CASE Step(a, "cstart", "unwind1")
    BY <1>0, <2>2, <2>3, StepMoves DEF Kinds, BootPCs
  <2>4. CASE ~Step(a, "cstart", "unwind1")
    BY <1>10, <2>1, <2>4 DEF ContainerStart, Kinds, Launches
  <2>5. QED BY <2>3, <2>4
<1>11. CASE Unwind(a)
  <2>1. pc[a] \in {"unwind1", "unwind2"} BY <1>11 DEF Unwind, Mark, At
  <2>2. Allowed(a, "unwind2") BY <2>1, AllowedBoot DEF BootPCs, LaunchPCs
  <2>3. QED BY <1>0, <1>11, <2>2, MarkMoves DEF Unwind, Kinds, BootPCs
<1>12. QED
  BY <1>1, <1>2, <1>3, <1>4, <1>5, <1>6, <1>7, <1>8, <1>9, <1>10, <1>11 DEF Boot

\* Every step of Stop and WaitForStop is of one of the kinds.
LEMMA WaitForStopKinds ==
  ASSUME TypeOK, LockInv, NEW a \in Actors, WaitForStop(a) PROVE Kinds
<1>0. /\ StopPCs \subseteq PCs /\ TermPCs \subseteq PCs
      /\ "release" \in PCs /\ "panic" \in PCs
      /\ AfterStop(act[a]) \in PCs
      /\ Allowed(a, "release") /\ Allowed(a, "panic")
  BY PCsType, AfterStopType, ReturnsInPCs, AllowedFree
<1>1. pc[a] \in StopPCs \union TermPCs
  BY DEF WaitForStop, Stop, CheckStopping, MarkStopping, StopCommand, SendCommand,
         WriteCommand, ContainerStop, ForgetStream, ForgetState, WaitStopped,
         WaitTimeout, StopTimeout, Step, Mark, At, StopPCs, TermPCs
<1>2. /\ \A l \in StopPCs \union TermPCs : Allowed(a, l)
      /\ Allowed(a, AfterStop(act[a]))
  BY <1>1, AllowedStop
<1>3. ASSUME NEW from, NEW to \in StopPCs \union TermPCs \union {"release"}, Step(a, from, to)
      PROVE  Kinds
  BY <1>0, <1>2, <1>3, StepMoves DEF Kinds
<1>4. ASSUME NEW from, NEW s, NEW to \in StopPCs, Mark(a, from, s, to) PROVE Kinds
  BY <1>0, <1>2, <1>4, MarkMoves DEF Kinds
<1>5. CASE Stop(a) BY <1>3, <1>5 DEF Stop, StopPCs, TermPCs
<1>6. CASE CheckStopping(a) BY <1>3, <1>6 DEF CheckStopping, StopPCs
<1>7. CASE MarkStopping(a) BY <1>4, <1>7 DEF MarkStopping, StopPCs
<1>8. CASE StopCommand(a) BY <1>3, <1>8 DEF StopCommand, StopPCs
<1>9. CASE SendCommand(a) BY <1>3, <1>9 DEF SendCommand, StopPCs
<1>10. CASE WriteCommand(a)
  <2>1. PICK l \in {"panic", "release", "wait"} : Goto(a, l) BY <1>10 DEF WriteCommand
  <2>2. l \in PCs /\ Allowed(a, l) BY <1>0, <1>2 DEF StopPCs
  <2>3. QED BY <1>10, <2>1, <2>2 DEF WriteCommand, Kinds, Moves, MovesTo, SameUp
<1>11. CASE ContainerStop(a)
  <2>1. CASE Step(a, "cstop", "nilstream") \/ Step(a, "cstop", "release")
    BY <1>3, <2>1 DEF StopPCs
  <2>2. CASE ~(Step(a, "cstop", "nilstream") \/ Step(a, "cstop", "release"))
    BY <1>0, <1>2, <1>11, <2>2 DEF ContainerStop, Kinds, Moves, MovesTo, SameUp, StopPCs
  <2>3. QED BY <2>1, <2>2
<1>12. CASE ForgetStream(a)
  BY <1>0, <1>2, <1>12 DEF ForgetStream, Kinds, Moves, MovesTo, SameUp, StopPCs, dockerVars
<1>13. CASE ForgetState(a) BY <1>4, <1>13 DEF ForgetState, StopPCs
<1>14. CASE WaitStopped(a) BY <1>0, <1>2, <1>14, StepMoves DEF WaitStopped, Kinds
<1>15. CASE WaitTimeout(a)
  BY <1>0, <1>2, <1>15 DEF WaitTimeout, Kinds, Moves, MovesTo, SameUp, TermPCs, dockerVars
<1>16. CASE StopTimeout(a)
  BY <1>0, <1>2, <1>16 DEF StopTimeout, Kinds, Moves, MovesTo, SameUp, TermPCs, dockerVars
<1>17. QED
  BY <1>5, <1>6, <1>7, <1>8, <1>9, <1>10, <1>11, <1>12, <1>13, <1>14, <1>15, <1>16
  DEF WaitForStop

\* Every step of Terminate is of one of the kinds.
LEMMA TerminateKinds ==
  ASSUME TypeOK, LockInv, NEW a \in Actors, Terminate(a) PROVE Kinds
<1>0. /\ TermPCs \subseteq PCs /\ "release" \in PCs
      /\ AfterTerminate(a) \in PCs /\ Allowed(a, "release")
  BY PCsType, AfterTerminateType, ReturnsInPCs, AllowedFree
<1>1. pc[a] \in TermPCs
  BY DEF Terminate, TermInspect, TermMark, TermKill, TermPoll, TermLast, TermOff, Kill,
         Step, Mark, At, TermPCs
<1>2. /\ \A l \in TermPCs : Allowed(a, l)
      /\ Allowed(a, AfterTerminate(a))
  BY <1>1, AllowedStop
<1>3. ASSUME NEW from, NEW to \in TermPCs \union {"release"}, Step(a, from, to) PROVE Kinds
  BY <1>0, <1>2, <1>3, StepMoves DEF Kinds
<1>4. ASSUME NEW from, NEW to \in TermPCs, NEW sigs, Kill(a, from, to, sigs) PROVE Kinds
  <2>1. CASE Step(a, from, to) \/ Step(a, from, "release") BY <1>3, <2>1
  <2>2. CASE ~(Step(a, from, to) \/ Step(a, from, "release"))
    BY <1>0, <1>2, <1>4, <2>2 DEF Kill, Kinds, Moves, MovesTo, SameUp
  <2>3. QED BY <2>1, <2>2
<1>5. CASE TermInspect(a)
  BY <1>0, <1>2, <1>3, <1>5, StepMoves DEF TermInspect, TermPCs, Kinds
<1>6. CASE TermMark(a) BY <1>0, <1>2, <1>6, MarkMoves DEF TermMark, TermPCs, Kinds
<1>7. CASE TermKill(a) BY <1>4, <1>7 DEF TermKill, TermPCs
<1>8. CASE TermPoll(a) BY <1>3, <1>8 DEF TermPoll, TermPCs
<1>9. CASE TermLast(a) BY <1>4, <1>9 DEF TermLast, TermPCs
<1>10. CASE TermOff(a) BY <1>0, <1>2, <1>10, MarkMoves DEF TermOff, Kinds
<1>11. QED BY <1>5, <1>6, <1>7, <1>8, <1>9, <1>10 DEF Terminate

\* Every step of a crash handler is of one of the kinds.
LEMMA HandleCrashKinds ==
  ASSUME TypeOK, NEW c \in Actors, HandleCrash(c) PROVE Kinds
<1>0. /\ CrashPCs \union {"acquire", "release"} \subseteq PCs
      /\ \A l \in CrashPCs \union {"acquire", "release"} : Allowed(c, l)
  BY PCsType, AllowedCrash, AllowedFree
<1>1. CASE CrashCheck(c) BY <1>0, <1>1, StepMoves DEF CrashCheck, CrashPCs, Kinds
<1>2. CASE CrashExit(c) BY <1>0, <1>2, StepMoves DEF CrashExit, CrashPCs, Kinds
<1>3. CASE CrashRecent(c) BY <1>0, <1>3, StepMoves DEF CrashRecent, CrashPCs, Kinds
<1>4. CASE CrashStart(c)
  BY <1>0, <1>4 DEF CrashStart, Kinds, Moves, MovesTo, SameUp, dockerVars
<1>5. QED BY <1>1, <1>2, <1>3, <1>4 DEF HandleCrash

\* Every step of a reinstall is of one of the kinds.
LEMMA InstallKinds ==
  ASSUME TypeOK, LockInv, NEW i \in Actors, Install(i) PROVE Kinds
<1>1. pc[i] \in InstallPCs
  BY DEF Install, InstallCheck, InstallSync, InstallClaim, InstallDone, InstallOffline,
         Step, Mark, At, InstallPCs
<1>2. /\ InstallPCs \union {"stop", "release"} \subseteq PCs
      /\ \A l \in InstallPCs \union {"stop", "release"} : Allowed(i, l)
  BY <1>1, PCsType, AllowedInstall, AllowedFree DEF StopPCs
<1>3. CASE InstallCheck(i) BY <1>2, <1>3, StepMoves DEF InstallCheck, InstallPCs, Kinds
<1>4. CASE InstallSync(i) BY <1>2, <1>4, StepMoves DEF InstallSync, InstallPCs, Kinds
<1>5. CASE InstallClaim(i)
  BY <1>2, <1>5 DEF InstallClaim, InstallPCs, Kinds, Moves, MovesTo, SameUp, dockerVars
<1>6. CASE InstallDone(i)
  BY <1>2, <1>6 DEF InstallDone, InstallPCs, Kinds, Moves, MovesTo, SameUp, dockerVars
<1>7. CASE InstallOffline(i) BY <1>2, <1>7, MarkMoves DEF InstallOffline, InstallPCs, Kinds
<1>8. QED BY <1>3, <1>4, <1>5, <1>6, <1>7 DEF Install

\* A state-change handler moves nobody, or begins a crash handler.
LEMMA HandleKinds ==
  ASSUME TypeOK, NEW h \in Handlers, Handle(h) PROVE Kinds
<1>1. CASE HandlerReset(h) \/ HandlerLoadPrev(h) \/ HandlerLoadCur(h) \/ HandlerStore(h)
  BY <1>1 DEF HandlerReset, HandlerLoadPrev, HandlerLoadCur, HandlerStore, Kinds, Still,
              SameUp, powerVars, dockerVars
<1>2. CASE HandlerDecide(h)
  <2>1. CASE UNCHANGED <<pc, act>>
    BY <1>2, <2>1 DEF HandlerDecide, Kinds, Still, SameUp, dockerVars
  <2>2. CASE ~UNCHANGED <<pc, act>>
    <3>1. PICK c \in Crashers : /\ pc[c] = "idle" /\ Goto(c, "c_state")
                                /\ act' = [act EXCEPT ![c] = "start"]
      BY <1>2, <2>2 DEF HandlerDecide, At
    <3>2. c \in Actors /\ "start" \in Acts BY DEF Actors, Acts
    <3>3. QED BY <1>2, <3>1, <3>2 DEF HandlerDecide, Kinds, Begins, dockerVars
  <2>3. QED BY <2>1, <2>2
<1>3. QED BY <1>1, <1>2 DEF Handle

\* Readers, the process and the console move nobody; the process may exit.
LEMMA WatchKinds ==
  ASSUME \/ \E k \in Readers : ReaderEnds(k) \/ ReaderDetaches(k)
         \/ ContainerExits \/ ConsoleLine \/ ConsoleMark \/ CrashWindowEnds
         \/ UNCHANGED vars
  PROVE  Kinds
<1>1. ASSUME NEW k \in Readers, ReaderEnds(k) \/ ReaderDetaches(k) PROVE Kinds
  BY <1>1 DEF ReaderEnds, ReaderDetaches, Kinds, Still, SameUp, powerVars, dockerVars
<1>2. CASE ContainerExits BY <1>2 DEF ContainerExits, Kinds, Exits, powerVars
<1>3. CASE ConsoleLine \/ ConsoleMark \/ CrashWindowEnds
  BY <1>3 DEF ConsoleLine, ConsoleMark, CrashWindowEnds, Kinds, Still, SameUp,
              powerVars, dockerVars
<1>4. CASE UNCHANGED vars
  BY <1>4 DEF vars, Kinds, Still, SameUp, powerVars, dockerVars
<1>5. QED BY <1>1, <1>2, <1>3, <1>4

\* Every step is of one of the kinds.
LEMMA NextKinds ==
  ASSUME TypeOK, LockInv, [Next]_vars PROVE Kinds
<1>1. CASE Request BY <1>1, RequestKinds DEF Kinds
<1>2. ASSUME NEW a \in Actors, Act(a) PROVE Kinds
  BY <1>2, LockKinds, BootKinds, WaitForStopKinds, TerminateKinds DEF Act
<1>3. ASSUME NEW c \in Crashers, HandleCrash(c) PROVE Kinds
  BY <1>3, HandleCrashKinds DEF Actors
<1>4. ASSUME NEW i \in Installers, Install(i) PROVE Kinds
  BY <1>4, InstallKinds DEF Actors
<1>5. ASSUME NEW h \in Handlers, Handle(h) PROVE Kinds BY <1>5, HandleKinds
<1>6. CASE \/ \E k \in Readers : ReaderEnds(k) \/ ReaderDetaches(k)
           \/ ContainerExits \/ ConsoleLine \/ ConsoleMark \/ CrashWindowEnds
           \/ UNCHANGED vars
  BY <1>6, WatchKinds
<1>7. QED BY <1>1, <1>2, <1>3, <1>4, <1>5, <1>6 DEF Next

\* The inductive step, kind by kind.
LEMMA KindsKeepLock ==
  ASSUME TypeOK, LockInv, Kinds PROVE LockInv'
<1>0. pc \in [Actors -> PCs] /\ act \in [Actors -> Acts] BY DEF TypeOK
<1>1. ASSUME NEW a \in Actors, NEW l \in PCs, MovesTo(a, l) PROVE LockInv'
  <2>1. LockOwned' BY <1>1 DEF LockInv, LockOwned, MovesTo
  <2>2. LockDiscipline'
    BY <1>0, <1>1 DEF LockInv, LockDiscipline, MovesTo, Goto, Allowed
  <2>3. NoLaunchOverRunning'
    BY <1>0, <1>1 DEF LockInv, NoLaunchOverRunning, MovesTo, Goto, Allowed, SameUp
  <2>4. QED BY <2>1, <2>2, <2>3 DEF LockInv
<1>2. CASE Begins
  <2>1. PICK a \in Actors, l \in {"acquire", "send", "stop", "r_state", "c_state"}, x \in Acts :
          /\ pc[a] = "idle" /\ Goto(a, l)
          /\ act' = [act EXCEPT ![a] = x]
          /\ (l \in {"send", "stop"} => x # "restart") /\ (l = "r_state" => x = "reinstall")
          /\ UNCHANGED <<locked, own, container>>
    BY <1>2 DEF Begins
  <2>2. LockOwned' BY <2>1 DEF LockInv, LockOwned
  <2>3. /\ l \notin BootPCs \union {"state"} /\ l \notin LaunchPCs
        /\ (x = "restart" => l \notin StopPCs \union TermPCs)
        /\ (l \in InstallPCs => x = "reinstall")
    BY <2>1 DEF BootPCs, LaunchPCs, StopPCs, TermPCs, InstallPCs
  <2>4. LockDiscipline' BY <1>0, <2>1, <2>3 DEF LockInv, LockDiscipline, Goto
  <2>5. NoLaunchOverRunning' BY <1>0, <2>1, <2>3 DEF LockInv, NoLaunchOverRunning, Goto
  <2>6. QED BY <2>2, <2>4, <2>5 DEF LockInv
<1>3. CASE Launches
  <2>1. PICK a \in Actors, l \in {"release", "unwind1"} :
          /\ pc[a] = "cstart" /\ Goto(a, l)
          /\ container' = "running"
          /\ UNCHANGED <<locked, own, act>>
    BY <1>3 DEF Launches
  <2>2. LockOwned' BY <2>1 DEF LockInv, LockOwned
  <2>3. a \in own BY <2>1 DEF LockInv, LockDiscipline, BootPCs, LaunchPCs
  <2>4. l \notin LaunchPCs \union StopPCs \union TermPCs \union InstallPCs
    BY DEF LaunchPCs, StopPCs, TermPCs, InstallPCs
  <2>5. LockDiscipline' BY <1>0, <2>1, <2>3, <2>4 DEF LockInv, LockDiscipline, Goto
  <2>6. ASSUME NEW b \in Actors, pc'[b] \in LaunchPCs PROVE FALSE
    <3>1. b # a /\ pc[b] \in LaunchPCs BY <1>0, <2>1, <2>4, <2>6 DEF Goto
    <3>2. b \in own BY <3>1, PCsType DEF LockInv, LockDiscipline
    <3>3. QED BY <2>3, <3>1, <3>2 DEF LockInv, LockOwned
  <2>7. NoLaunchOverRunning' BY <2>6 DEF NoLaunchOverRunning
  <2>8. QED BY <2>2, <2>5, <2>7 DEF LockInv
<1>4. CASE Exits \/ Still
  BY <1>4 DEF Exits, Still, SameUp, LockInv, LockOwned, LockDiscipline, NoLaunchOverRunning
<1>5. ASSUME NEW a \in Actors, Acquire(a) PROVE LockInv'
  <2>1. own' = {a} /\ locked' = TRUE BY <1>5 DEF Acquire, LockInv, LockOwned
  <2>2. LockOwned' BY <2>1 DEF LockOwned
  <2>3. Body(act[a]) \notin LaunchPCs \union InstallPCs
    BY DEF Body, LaunchPCs, InstallPCs
  <2>4. own = {} BY <1>5 DEF Acquire, LockInv, LockOwned
  <2>5. LockDiscipline'
    BY <1>0, <1>5, <2>1, <2>3, <2>4 DEF LockInv, LockDiscipline, Acquire, Goto
  <2>6. NoLaunchOverRunning'
    BY <1>0, <1>5, <2>3 DEF LockInv, NoLaunchOverRunning, Acquire, Goto, dockerVars
  <2>7. QED BY <2>2, <2>5, <2>6 DEF LockInv
<1>6. ASSUME NEW a \in Actors, Release(a) PROVE LockInv'
  <2>1. LockOwned' BY <1>6 DEF Release, LockInv, LockOwned
  <2>2. "idle" \notin BootPCs \union LaunchPCs \union StopPCs \union TermPCs
                        \union InstallPCs \union {"state"}
    BY DEF BootPCs, LaunchPCs, StopPCs, TermPCs, InstallPCs
  <2>3. LockDiscipline'
    BY <1>0, <1>6, <2>2 DEF LockInv, LockDiscipline, Release, Goto
  <2>4. NoLaunchOverRunning'
    BY <1>0, <1>6, <2>2 DEF LockInv, NoLaunchOverRunning, Release, Goto, dockerVars
  <2>5. QED BY <2>1, <2>3, <2>4 DEF LockInv
<1>7. QED BY <1>1, <1>2, <1>3, <1>4, <1>5, <1>6 DEF Kinds, Moves

\* The lock discipline holds initially.
LEMMA InitLock == Init => LockInv
  BY DEF Init, LockInv, LockOwned, LockDiscipline, NoLaunchOverRunning,
         BootPCs, LaunchPCs, StopPCs, TermPCs, InstallPCs

\* The inductive invariant holds in every state.
THEOREM LockInvariant == Spec => []LockInv
<1>1. Init => TypeOK /\ LockInv BY InitType, InitLock
<1>2. TypeOK /\ LockInv /\ [Next]_vars => TypeOK' /\ LockInv'
  BY NextType, NextKinds, KindsKeepLock
<1>3. QED BY <1>1, <1>2, PTL DEF Spec

\* The power lock has one owner while it is held and none while it is free,
\* for any number of actors, although a kill may run without it.
THEOREM LockIsOwned == Spec => []LockOwned
<1>1. LockInv => LockOwned BY DEF LockInv
<1>2. QED BY <1>1, LockInvariant, PTL

\* Whoever boots owns the lock, so there is at most one of them.
LEMMA LockInvExclusive == LockInv => BootExclusive
  BY DEF LockInv, LockOwned, LockDiscipline, BootExclusive

\* Two goroutines never boot the server at the same time, whatever the number
\* of users, crash handlers, stoppers and reinstalls.
THEOREM OneBooter == Spec => []BootExclusive
  BY LockInvExclusive, LockInvariant, PTL

\* A new container is never built over a running process.
THEOREM LaunchOverStopped == Spec => []NoLaunchOverRunning
<1>1. LockInv => NoLaunchOverRunning BY DEF LockInv
<1>2. QED BY <1>1, LockInvariant, PTL

-----------------------------------------------------------------------------
(* ServerPower implements OneBoot.                                          *)

\* The initial state maps to the initial state of OneBoot.
LEMMA InitRefines == Init => Boots!Init
  BY DEF Init, Boots!Init, Booting, BootPCs, LaunchPCs

\* One actor moves, with the lock when it is booting or begins to, and the
\* process stays as it is: the booter stays, begins or ends.
LEMMA MoveRefines ==
  ASSUME TypeOK, LockInv, NEW a \in Actors, NEW l, Goto(a, l), SameUp,
         l \in BootPCs => a \in own
  PROVE  [Boots!Next]_Boots!vars
<1>0. pc \in [Actors -> PCs] BY DEF TypeOK
<1>1. \A b \in Booting : b \in own BY DEF LockInv, LockDiscipline, Booting
<1>2. (container' = "running") = (container = "running") BY DEF SameUp
<1>3. \A b \in Actors : b # a => pc'[b] = pc[b] BY <1>0 DEF Goto
<1>4. pc'[a] = l BY <1>0 DEF Goto
<1>5. CASE l \in BootPCs /\ a \notin Booting
  <2>1. Booting = {} BY <1>1, <1>5 DEF LockInv, LockOwned, Booting
  <2>2. Booting' = {a} BY <1>3, <1>4, <1>5, <2>1 DEF Booting
  <2>3. QED BY <1>2, <2>1, <2>2 DEF Boots!Next, Boots!Begin
<1>6. CASE l \notin BootPCs /\ a \in Booting
  <2>1. Booting = {a} BY <1>1, <1>6 DEF LockInv, LockOwned, Booting
  <2>2. Booting' = {} BY <1>3, <1>4, <1>6, <2>1 DEF Booting
  <2>3. QED BY <1>2, <2>1, <2>2 DEF Boots!Next, Boots!End
<1>7. CASE (l \in BootPCs) <=> (a \in Booting)
  <2>1. Booting' = Booting BY <1>3, <1>4, <1>7 DEF Booting
  <2>2. QED BY <1>2, <2>1 DEF Boots!vars
<1>8. QED BY <1>5, <1>6, <1>7

\* Every step maps to a step of OneBoot or to none.
LEMMA StepRefines ==
  ASSUME TypeOK, LockInv, Kinds PROVE [Boots!Next]_Boots!vars
<1>0. pc \in [Actors -> PCs] BY DEF TypeOK
<1>1. ASSUME NEW a \in Actors, NEW l \in PCs, MovesTo(a, l) PROVE [Boots!Next]_Boots!vars
  BY <1>1, MoveRefines DEF MovesTo, Allowed
<1>2. CASE Begins
  <2>1. PICK a \in Actors, l \in {"acquire", "send", "stop", "r_state", "c_state"} :
          Goto(a, l) /\ UNCHANGED container
    BY <1>2 DEF Begins
  <2>2. l \notin BootPCs BY DEF BootPCs, LaunchPCs
  <2>3. QED BY <2>1, <2>2, MoveRefines DEF SameUp
<1>3. CASE Launches
  <2>1. PICK a \in Actors, l \in {"release", "unwind1"} :
          pc[a] = "cstart" /\ Goto(a, l) /\ container' = "running"
    BY <1>3 DEF Launches
  <2>2. "cstart" \in LaunchPCs /\ "cstart" \in BootPCs BY DEF LaunchPCs, BootPCs
  <2>3. container # "running" BY <2>1, <2>2 DEF LockInv, NoLaunchOverRunning
  <2>4. Booting = {a} BY <2>1, <2>2, LockInvExclusive DEF BootExclusive, Booting
  <2>5. Booting' \in {{}, {a}} BY <1>0, <2>1, <2>4 DEF Booting, Goto
  <2>6. QED BY <2>1, <2>3, <2>4, <2>5 DEF Boots!Next, Boots!Launch
<1>4. CASE Exits
  <2>1. Booting' = Booting BY <1>4 DEF Exits, Booting
  <2>2. QED BY <1>4, <2>1 DEF Exits, Boots!Next, Boots!Exit
<1>5. CASE Still
  <2>1. Booting' = Booting BY <1>5 DEF Still, Booting
  <2>2. QED BY <1>5, <2>1 DEF Still, SameUp, Boots!vars
<1>6. ASSUME NEW a \in Actors, Acquire(a) PROVE [Boots!Next]_Boots!vars
  <2>1. Body(act[a]) \notin BootPCs BY DEF Body, BootPCs, LaunchPCs
  <2>2. QED BY <1>6, <2>1, MoveRefines DEF Acquire, SameUp, dockerVars
<1>7. ASSUME NEW a \in Actors, Release(a) PROVE [Boots!Next]_Boots!vars
  <2>1. "idle" \notin BootPCs BY DEF BootPCs, LaunchPCs
  <2>2. QED BY <1>7, <2>1, MoveRefines DEF Release, SameUp, dockerVars
<1>8. QED BY <1>1, <1>2, <1>3, <1>4, <1>5, <1>6, <1>7 DEF Kinds, Moves

\* The server implements OneBoot: at most one booter, the process comes up only
\* through the booter and only when it is down.
THEOREM Refinement == Spec => ImplementsOneBoot
<1>1. Init => Boots!Init BY InitRefines
<1>2. TypeOK /\ LockInv /\ [Next]_vars => [Boots!Next]_Boots!vars
  BY NextKinds, StepRefines
<1>3. QED
  BY <1>1, <1>2, TypeCorrect, LockInvariant, PTL DEF Spec, ImplementsOneBoot, Boots!Spec

=============================================================================

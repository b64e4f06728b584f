-------------------------- MODULE AisServiceProofs --------------------------
(***************************************************************************)
(* The safety properties of AisService, proved for any number of receiver  *)
(* threads, service instances and events.                                  *)
(***************************************************************************)
EXTENDS AisService, TLAPS

-----------------------------------------------------------------------------
(* Types *)

\* An action that leaves a group of variables alone leaves it well typed.
LEMMA TypeFrame ==
  ASSUME TypeOK
  PROVE  /\ UNCHANGED companion => CompanionType'
         /\ UNCHANGED native => NativeType'
         /\ UNCHANGED android => AndroidType'
         /\ UNCHANGED fields => FieldsType'
         /\ UNCHANGED threads => ThreadsType'
         /\ UNCHANGED env => EnvType'
<1>1. UNCHANGED companion => CompanionType'
  BY DEF TypeOK, CompanionType, companion
<1>2. UNCHANGED native => NativeType'
  BY DEF TypeOK, NativeType, native
<1>3. UNCHANGED android => AndroidType'
  BY DEF TypeOK, AndroidType, android
<1>4. UNCHANGED fields => FieldsType'
  BY DEF TypeOK, FieldsType, fields
<1>5. UNCHANGED threads => ThreadsType'
  BY DEF TypeOK, ThreadsType, threads
<1>6. UNCHANGED env => EnvType'
  BY DEF TypeOK, EnvType, env
<1>7. QED BY <1>1, <1>2, <1>3, <1>4, <1>5, <1>6

\* An unhandled exception changes nothing but crashed.
LEMMA CrashType == ASSUME TypeOK, Crash PROVE TypeOK'
<1>1. AndroidType' BY DEF Crash, TypeOK, AndroidType
<1>2. QED BY <1>1, TypeFrame DEF Crash, TypeOK

\* An interrupt sets flags and nothing else.
LEMMA InterruptType ==
  ASSUME TypeOK, NEW s, Interrupt(s)
  PROVE  interrupted' \in [Threads -> BOOLEAN]
<1>1. \A t \in Threads : interrupted[t] \/ (t = receiverThread[s] /\ Alive(t)) \in BOOLEAN
  BY DEF TypeOK, ThreadsType, Alive
<1>2. QED BY <1>1 DEF Interrupt

\* Closing a connection leaves descriptors descriptors.
LEMMA CloseConnectionType ==
  ASSUME TypeOK, NEW s, CloseConnection(s)
  PROVE  fd' \in [Threads -> Fd] /\ device' \in Device
<1>1. fd' \in [Threads -> Fd]
  BY DEF TypeOK, ThreadsType, CloseConnection, Staled, Fd
<1>2. device' \in Device
  BY DEF TypeOK, NativeType, CloseConnection, Staled, Fd, Device
<1>3. QED BY <1>1, <1>2

\* Opening the dongle and asking for a restart keeps the types.
LEMMA RestartWithDeviceType ==
  ASSUME TypeOK, NEW s \in Services, RestartWithDevice(s)
  PROVE  FieldsType' /\ ThreadsType' /\ NativeType' /\ everRestart' \in BOOLEAN
<1>1. OpenUsbDevice(s) /\ CloseConnection(s)
  BY DEF RestartWithDevice, OpenUsbDevice
<1>2. fd' \in [Threads -> Fd] /\ device' \in Device
  BY <1>1, CloseConnectionType
<1>3. fileDescriptor' \in [Services -> Fd]
  BY <1>1 DEF TypeOK, FieldsType, OpenUsbDevice, Staled, Fd
<1>4. interrupted' \in [Threads -> BOOLEAN]
  <2>1. CASE plugged BY <2>1, InterruptType DEF RestartWithDevice
  <2>2. CASE ~plugged BY <2>2 DEF RestartWithDevice, TypeOK, ThreadsType
  <2>3. QED BY <2>1, <2>2
<1>5. /\ restartRequested' \in [Services -> BOOLEAN]
      /\ shouldStop' \in [Services -> BOOLEAN]
  BY Zenon DEF RestartWithDevice, TypeOK, FieldsType
<1>6. everRestart' \in BOOLEAN
  BY Zenon DEF RestartWithDevice, TypeOK, EnvType
<1>7. FieldsType'
  BY <1>3, <1>5 DEF RestartWithDevice, TypeOK, FieldsType
<1>8. ThreadsType' /\ NativeType'
  BY <1>2, <1>4 DEF RestartWithDevice, TypeOK, ThreadsType, NativeType
<1>9. QED BY <1>6, <1>7, <1>8

\* A live service has been created, and so has the instance of every thread.
Created ==
  /\ up => svc # 0
  /\ main # "idle" => up
  /\ \A t \in Threads : inst[t] <= svc /\ (Alive(t) => inst[t] # 0)

\* Counting an event keeps the count a number.
LEMMA EventsType == ASSUME TypeOK PROVE events + 1 \in Nat
BY DEF TypeOK, EnvType

\* Every main-thread step of the service keeps the state well typed.
LEMMA TypeMain == ASSUME TypeOK, Created, Main PROVE TypeOK'
<1>1. ASSUME NEW u \in BOOLEAN, StartWhileRunning(u) PROVE TypeOK'
  <2>1. svc \in Services
    BY <1>1 DEF TypeOK, AndroidType, Created, StartWhileRunning, Services
  <2>2. events' \in Nat
    BY <1>1, EventsType DEF StartWhileRunning
  <2>3. FieldsType' /\ ThreadsType' /\ NativeType' /\ everRestart' \in BOOLEAN
    <3>1. CASE ~hasDevice /\ u
      <4>1. RestartWithDevice(svc) BY <1>1, <3>1 DEF StartWhileRunning
      <4>2. QED BY <4>1, <2>1, RestartWithDeviceType
    <3>2. CASE ~(~hasDevice /\ u)
      BY <1>1, <3>2, TypeFrame DEF StartWhileRunning, TypeOK, EnvType
    <3>3. QED BY <3>1, <3>2
  <2>4. EnvType'
    BY <1>1, <2>2, <2>3 DEF StartWhileRunning, TypeOK, EnvType
  <2>5. QED BY <1>1, <2>3, <2>4, TypeFrame DEF StartWhileRunning, TypeOK
<1>2. ASSUME NEW t \in Threads, StartFresh(t) PROVE TypeOK'
  <2>1. events' \in Nat
    BY <1>2, EventsType DEF StartFresh
  <2>2. fd' \in [Threads -> Fd] /\ device' \in Device
    BY <1>2, CloseConnectionType DEF StartFresh
  <2>3. svc' \in Services /\ svc' \in 0 .. MaxServices
    BY <1>2 DEF StartFresh, Services
  <2>4. AndroidType' /\ NativeType'
    BY <1>2, <2>2, <2>3 DEF StartFresh, TypeOK, AndroidType, NativeType
  <2>5. FieldsType'
    BY <1>2 DEF StartFresh, TypeOK, FieldsType, Fd
  <2>6. ThreadsType'
    BY <1>2, <2>2, <2>3, Zenon DEF StartFresh, TypeOK, ThreadsType, Goto, Steps
  <2>7. EnvType'
    BY <1>2, <2>1 DEF StartFresh, TypeOK, EnvType
  <2>8. QED
    BY <1>2, <2>4, <2>5, <2>6, <2>7, TypeFrame DEF StartFresh, TypeOK
<1>3. CASE StartFinish
  <2>1. CompanionType' /\ AndroidType'
    BY <1>3 DEF StartFinish, TypeOK, CompanionType, AndroidType
  <2>2. QED BY <1>3, <2>1, TypeFrame DEF StartFinish, TypeOK
<1>4. CASE DestroyBegin
  <2>1. interrupted' \in [Threads -> BOOLEAN] /\ events' \in Nat
    BY <1>4, InterruptType, EventsType DEF DestroyBegin
  <2>2. AndroidType' /\ NativeType'
    BY <1>4 DEF DestroyBegin, TypeOK, AndroidType, NativeType
  <2>3. FieldsType' /\ ThreadsType'
    BY <1>4, <2>1, Zenon DEF DestroyBegin, TypeOK, FieldsType, ThreadsType
  <2>4. EnvType'
    BY <1>4, <2>1 DEF DestroyBegin, TypeOK, EnvType
  <2>5. QED BY <1>4, <2>2, <2>3, <2>4, TypeFrame DEF DestroyBegin, TypeOK
<1>5. CASE DestroyFinish
  <2>1. fd' \in [Threads -> Fd] /\ device' \in Device
    BY <1>5, CloseConnectionType DEF DestroyFinish
  <2>2. CompanionType' /\ AndroidType' /\ NativeType'
    BY <1>5, <2>1, Zenon DEF DestroyFinish, TypeOK, CompanionType, AndroidType, NativeType
  <2>3. FieldsType'
    <3>1. \A n \in Nat : (IF n > 0 THEN n - 1 ELSE 0) \in Nat
      OBVIOUS
    <3>2. wakeLocks' \in [Services -> Nat]
      BY <1>5, <3>1, Zenon DEF DestroyFinish, TypeOK, FieldsType
    <3>3. fileDescriptor' \in [Services -> Fd]
      BY <1>5, Zenon DEF DestroyFinish, TypeOK, FieldsType, Staled, Fd
    <3>4. QED BY <1>5, <3>2, <3>3 DEF DestroyFinish, TypeOK, FieldsType
  <2>4. ThreadsType'
    BY <1>5, <2>1 DEF DestroyFinish, TypeOK, ThreadsType
  <2>5. QED BY <1>5, <2>2, <2>3, <2>4, TypeFrame DEF DestroyFinish, TypeOK
<1>6. CASE Receive
  <2>1. broadcasts' \in Seq({"attached", "detached"})
    BY <1>6 DEF Receive, TypeOK, EnvType
  <2>2. FieldsType' /\ ThreadsType' /\ NativeType' /\ everRestart' \in BOOLEAN
    <3>1. CASE up /\ Head(broadcasts) # "detached" /\ ~hasDevice
      <4>1. svc \in Services
        BY <3>1 DEF TypeOK, AndroidType, Created, Services
      <4>2. RestartWithDevice(svc) BY <1>6, <3>1 DEF Receive
      <4>3. QED BY <4>1, <4>2, RestartWithDeviceType
    <3>2. CASE ~(up /\ Head(broadcasts) # "detached" /\ ~hasDevice)
      <4>1. UNCHANGED <<fields, threads, native, everRestart>>
        BY <1>6, <3>2 DEF Receive
      <4>2. QED BY <4>1, TypeFrame DEF TypeOK, EnvType
    <3>3. QED BY <3>1, <3>2
  <2>3. CompanionType'
    BY <1>6, Zenon DEF Receive, TypeOK, CompanionType
  <2>4. EnvType'
    BY <1>6, <2>1, <2>2 DEF Receive, TypeOK, EnvType
  <2>5. QED BY <1>6, <2>2, <2>3, <2>4, TypeFrame DEF Receive, TypeOK
<1>7. QED
  BY <1>1, <1>2, <1>3, <1>4, <1>5, <1>6 DEF Main

\* Close() leaves the device a device.
LEMMA CloseNativeType == ASSUME TypeOK, CloseNative PROVE device' \in Device
BY Zenon DEF TypeOK, NativeType, CloseNative, Staled, Fd, Device

\* Every step of a receiver thread keeps the state well typed.
LEMMA TypeReceiver == ASSUME TypeOK, Created, NEW t \in Threads, Receiver(t) PROVE TypeOK'
<1> pc[t] \in Steps /\ (Alive(t) => inst[t] \in Services) /\ inst[t] \in 0 .. MaxServices
  BY DEF TypeOK, ThreadsType, AndroidType, Created, Services
<1>1. CASE Lock(t)
  <2>1. CompanionType'
    BY <1>1 DEF Lock, TypeOK, CompanionType
  <2>2. FieldsType'
    BY <1>1, Zenon DEF Lock, TypeOK, FieldsType
  <2>3. ThreadsType'
    BY <1>1 DEF Lock, TypeOK, ThreadsType, Goto, Steps
  <2>4. QED BY <1>1, <2>1, <2>2, <2>3, TypeFrame DEF Lock, TypeOK
<1>2. CASE AdminServer(t)
  <2>1. CompanionType'
    BY <1>2, Zenon DEF AdminServer, TypeOK, CompanionType
  <2>2. FieldsType'
    BY <1>2 DEF AdminServer, TypeOK, FieldsType, At, Alive
  <2>3. ThreadsType'
    BY <1>2 DEF AdminServer, TypeOK, FieldsType, ThreadsType, Goto, Steps, At, Alive
  <2>4. QED BY <1>2, <2>1, <2>2, <2>3, TypeFrame DEF AdminServer, TypeOK
<1>3. CASE Unlock(t)
  <2>1. CompanionType'
    BY <1>3 DEF Unlock, TypeOK, CompanionType
  <2>2. ThreadsType'
    BY <1>3 DEF Unlock, TypeOK, ThreadsType, Goto, Steps
  <2>3. QED BY <1>3, <2>1, <2>2, TypeFrame DEF Unlock, TypeOK
<1>4. CASE Decide(t)
  <2>1. phase \in [Threads -> 1 .. 3] /\ 2 \in 1 .. 3
    BY DEF TypeOK, ThreadsType
  <2>2. UNCHANGED phase \/ phase' = [phase EXCEPT ![t] = 2]
    BY <1>4 DEF Decide
  <2>3. phase' \in [Threads -> 1 .. 3]
    BY <2>1, <2>2
  <2>4. ThreadsType'
    BY <1>4, <2>3 DEF Decide, TypeOK, ThreadsType, Goto, Steps
  <2>5. QED BY <1>4, <2>4, TypeFrame DEF Decide, TypeOK
<1>5. CASE Nap(t) /\ ~Crash
  <2>1. FieldsType'
    BY <1>5, Zenon DEF Nap, TypeOK, FieldsType
  <2>2. ThreadsType'
    BY <1>5 DEF Nap, TypeOK, ThreadsType, Goto, Steps
  <2>3. QED BY <1>5, <2>1, <2>2, TypeFrame DEF Nap, TypeOK
<1>6. CASE Clear(t)
  <2>1. FieldsType'
    BY <1>6, Zenon DEF Clear, TypeOK, FieldsType
  <2>2. ThreadsType'
    BY <1>6 DEF Clear, TypeOK, ThreadsType, Goto, Steps
  <2>3. QED BY <1>6, <2>1, <2>2, TypeFrame DEF Clear, TypeOK
<1>7. CASE Reopen(t)
  <2>1. inst[t] \in Services
    BY <1>7 DEF Reopen, At, Alive
  <2>2. fd' \in [Threads -> Fd]
    <3>1. \A u \in Threads : Staled(fd[u]) \in Fd /\ fd[u] \in Fd
      BY DEF TypeOK, ThreadsType, Staled, Fd
    <3>2. "live" \in Fd /\ fileDescriptor[inst[t]] \in Fd
      BY <2>1 DEF TypeOK, FieldsType, Fd
    <3>3. QED BY <1>7, <3>1, <3>2 DEF Reopen, TypeOK, ThreadsType
  <2>3. ThreadsType'
    BY <1>7, <2>2 DEF Reopen, TypeOK, ThreadsType, Goto, Steps
  <2>4. FieldsType'
    BY <1>7 DEF Reopen, TypeOK, FieldsType, Fd
  <2>5. NativeType'
    <3>1. UNCHANGED device \/ device' = [device EXCEPT !.fd = Staled(@)]
      BY <1>7 DEF Reopen
    <3>2. QED BY <1>7, <3>1 DEF Reopen, TypeOK, NativeType, Staled, Fd, Device
  <2>6. QED BY <1>7, <2>3, <2>4, <2>5, TypeFrame DEF Reopen, TypeOK
<1>8. CASE Settle(t)
  <2>1. ThreadsType'
    BY <1>8 DEF Settle, TypeOK, ThreadsType, Goto, Steps
  <2>2. QED BY <1>8, <2>1, TypeFrame DEF Settle, TypeOK
<1>9. CASE KeepAlive(t)
  <2>1. ThreadsType'
    BY <1>9, Zenon DEF KeepAlive, TypeOK, ThreadsType, Goto, Steps
  <2>2. QED BY <1>9, <2>1, TypeFrame DEF KeepAlive, TypeOK
<1>10. CASE Revive(t)
  <2>1. phase \in [Threads -> 1 .. 3] /\ 3 \in 1 .. 3
    BY DEF TypeOK, ThreadsType
  <2>2. UNCHANGED phase \/ phase' = [phase EXCEPT ![t] = 3]
    BY <1>10 DEF Revive
  <2>3. phase' \in [Threads -> 1 .. 3]
    BY <2>1, <2>2
  <2>4. ThreadsType'
    BY <1>10, <2>3 DEF Revive, TypeOK, ThreadsType, Goto, Steps
  <2>5. QED BY <1>10, <2>4, TypeFrame DEF Revive, TypeOK
<1>11. CASE End(t)
  <2>1. CompanionType'
    BY <1>11, Zenon DEF End, TypeOK, CompanionType
  <2>2. ThreadsType'
    BY <1>11 DEF End, TypeOK, ThreadsType, Goto, Steps
  <2>3. QED BY <1>11, <2>1, <2>2, TypeFrame DEF End, TypeOK
<1>12. CASE Close0(t)
  <2>1. NativeType'
    BY <1>12, CloseNativeType DEF Close0, TypeOK, NativeType
  <2>2. ThreadsType'
    BY <1>12 DEF Close0, TypeOK, ThreadsType, Goto, Steps
  <2>3. QED BY <1>12, <2>1, <2>2, TypeFrame DEF Close0, TypeOK
<1>13. CASE Sleep0(t)
  <2>1. ThreadsType'
    BY <1>13 DEF Sleep0, TypeOK, ThreadsType, Goto, Steps
  <2>2. QED BY <1>13, <2>1, TypeFrame DEF Sleep0, TypeOK
<1>14. CASE Create(t)
  <2>1. CompanionType'
    BY <1>14, Zenon DEF Create, TypeOK, CompanionType
  <2>2. NativeType'
    BY <1>14, ZenonT(60) DEF Create, TypeOK, NativeType, Device, Fd
  <2>3. ThreadsType'
    BY <1>14 DEF Create, TypeOK, ThreadsType, Goto, Steps
  <2>4. QED BY <1>14, <2>1, <2>2, <2>3, TypeFrame DEF Create, TypeOK
<1>15. CASE Opened(t)
  <2>1. CompanionType'
    BY <1>15 DEF Opened, TypeOK, CompanionType
  <2>2. ThreadsType'
    BY <1>15 DEF Opened, TypeOK, ThreadsType, Goto, Steps
  <2>3. QED BY <1>15, <2>1, <2>2, TypeFrame DEF Opened, TypeOK
<1>16. CASE Play(t) /\ ~Crash
  <2>1. NativeType'
    BY <1>16, ZenonT(60) DEF Play, TypeOK, NativeType, Device
  <2>2. ThreadsType'
    BY <1>16 DEF Play, TypeOK, ThreadsType, Goto, Steps
  <2>3. QED BY <1>16, <2>1, <2>2, TypeFrame DEF Play, TypeOK
<1>17. CASE Arm(t)
  <2>1. NativeType'
    BY <1>17, Zenon DEF Arm, TypeOK, NativeType
  <2>2. ThreadsType'
    BY <1>17 DEF Arm, TypeOK, ThreadsType, Goto, Steps
  <2>3. QED BY <1>17, <2>1, <2>2, TypeFrame DEF Arm, TypeOK
<1>18. CASE (Loop(t) /\ ~Crash) \/ Body(t) \/ Stall(t) \/ Drain(t)
  <2>1. ThreadsType'
    BY <1>18 DEF Loop, Body, Stall, Drain, TypeOK, ThreadsType, Goto, Steps
  <2>2. QED BY <1>18, <2>1, TypeFrame DEF Loop, Body, Stall, Drain, TypeOK
<1>19. CASE Halt(t) /\ ~Crash
  <2>1. NativeType'
    BY <1>19, Zenon DEF Halt, TypeOK, NativeType, Device
  <2>2. ThreadsType'
    BY <1>19 DEF Halt, TypeOK, ThreadsType, Goto, Steps
  <2>3. QED BY <1>19, <2>1, <2>2, TypeFrame DEF Halt, TypeOK
<1>20. CASE WebOnly(t)
  <2>1. ThreadsType'
    BY <1>20 DEF WebOnly, TypeOK, ThreadsType, Goto, Steps
  <2>2. QED BY <1>20, <2>1, TypeFrame DEF WebOnly, TypeOK
<1>21. CASE Close1(t)
  <2>1. NativeType'
    BY <1>21, CloseNativeType DEF Close1, TypeOK, NativeType
  <2>2. ThreadsType'
    BY <1>21 DEF Close1, TypeOK, ThreadsType, Goto, Steps
  <2>3. QED BY <1>21, <2>1, <2>2, TypeFrame DEF Close1, TypeOK
<1>22. CASE Sleep1(t)
  <2>1. ThreadsType'
    BY <1>22 DEF Sleep1, TypeOK, ThreadsType, Goto, Steps
  <2>2. QED BY <1>22, <2>1, TypeFrame DEF Sleep1, TypeOK
<1>23. CASE Crash
  BY <1>23, CrashType
<1>24. QED
  BY <1>1, <1>2, <1>3, <1>4, <1>5, <1>6, <1>7, <1>8, <1>9, <1>10,
     <1>11, <1>12, <1>13, <1>14, <1>15, <1>16, <1>17, <1>18, <1>19,
     <1>20, <1>21, <1>22, <1>23 DEF Receiver, Runs

\* So do the admin requests, the dongle and the driver.
LEMMA TypeEnvironment == ASSUME TypeOK, Environment PROVE TypeOK'
<1>1. ASSUME NEW s \in Services, AdminRestart(s) PROVE TypeOK'
  <2>1. FieldsType' BY <1>1 DEF AdminRestart, TypeOK, FieldsType
  <2>2. EnvType' BY <1>1 DEF AdminRestart, TypeOK, EnvType
  <2>3. QED BY <1>1, <2>1, <2>2, TypeFrame DEF AdminRestart, TypeOK
<1>2. ASSUME NEW s \in Services, AdminStop(s) PROVE TypeOK'
  <2>1. CompanionType' /\ NativeType'
    BY <1>2, Zenon DEF AdminStop, TypeOK, CompanionType, NativeType
  <2>2. EnvType' BY <1>2 DEF AdminStop, TypeOK, EnvType
  <2>3. QED BY <1>2, <2>1, <2>2, TypeFrame DEF AdminStop, TypeOK
<1>3. CASE ForceStop
  <2>1. NativeType' BY <1>3 DEF ForceStop, TypeOK, NativeType
  <2>2. EnvType' BY <1>3 DEF ForceStop, TypeOK, EnvType
  <2>3. QED BY <1>3, <2>1, <2>2, TypeFrame DEF ForceStop, TypeOK
<1>4. CASE Plug
  <2>1. events' \in Nat /\ broadcasts' \in Seq({"attached", "detached"})
    BY <1>4, EventsType DEF Plug, TypeOK, EnvType
  <2>2. EnvType' BY <1>4, <2>1 DEF Plug, TypeOK, EnvType
  <2>3. QED BY <1>4, <2>2, TypeFrame DEF Plug, TypeOK
<1>5. CASE Unplug
  <2>1. events' \in Nat /\ broadcasts' \in Seq({"attached", "detached"})
    BY <1>5, EventsType DEF Unplug, TypeOK, EnvType
  <2>2. EnvType' BY <1>5, <2>1, Zenon DEF Unplug, TypeOK, EnvType
  <2>3. NativeType' BY <1>5, SMTT(60) DEF Unplug, TypeOK, NativeType, Staled, Fd, Device
  <2>4. FieldsType' BY <1>5 DEF Unplug, TypeOK, FieldsType, Staled, Fd
  <2>5. ThreadsType' BY <1>5 DEF Unplug, TypeOK, ThreadsType, Staled, Fd
  <2>6. QED BY <1>5, <2>2, <2>3, <2>4, <2>5, TypeFrame DEF Unplug, TypeOK
<1>6. CASE DeviceLost
  <2>1. NativeType' BY <1>6, Zenon DEF DeviceLost, TypeOK, NativeType, Device
  <2>2. QED BY <1>6, <2>1, TypeFrame DEF DeviceLost, TypeOK
<1>7. QED
  BY <1>1, <1>2, <1>3, <1>4, <1>5, <1>6 DEF Environment

-----------------------------------------------------------------------------
(* Which instances exist, and who holds what *)

\* serviceLock is held from the first step of runServiceLoop to the finally
\* block, which includes the first run of the engine.
LockInv ==
  \A t \in Threads :
     /\ pc[t] \in {"admin", "unlock"} \/ (InEngine(t) /\ phase[t] = 1)
          => serviceLock = t
     /\ pc[t] \in {"nap", "clear", "reopen"} => phase[t] # 1

\* Only a requested restart takes a thread past its first run.
FirstRunInv ==
  ~everRestart => /\ \A s \in Services : ~restartRequested[s]
                  /\ \A t \in Threads : /\ phase[t] = 1
                                        /\ pc[t] \notin {"nap", "clear", "reopen"}

\* The first instance has no receiver thread but its receiverThread, and shows
\* it as running whenever onStartCommand can look.
FirstInstanceInv ==
  svc <= 1 => /\ \A t \in Threads : Alive(t) => receiverThread[1] = t
              /\ (up /\ main = "idle" /\ \E t \in Threads : Alive(t)) => isRunning

\* Before Arm no one else touches the device; while it streams somebody runs it.
DeviceInv ==
  Covered =>
    /\ \A t \in Threads : pc[t] = "opened" \/ InRun(t) => device.open
    /\ device.streaming => \E t \in Threads : pc[t] \in {"arm", "halt"} \/ InLoop(t)

\* A live service holds a wake lock.
WakeInv == up => wakeLocks[svc] > 0

IInv ==
  /\ TypeOK /\ Created /\ LockInv /\ FirstRunInv /\ FirstInstanceInv
  /\ DeviceInv /\ WakeInv

\* A receiver step moves one living thread and leaves the services as they are.
LEMMA ReceiverFrame ==
  ASSUME TypeOK, NEW t \in Threads, Receiver(t)
  PROVE  /\ Alive(t) /\ \A u \in Threads \ {t} : pc'[u] = pc[u] /\ phase'[u] = phase[u]
         /\ UNCHANGED <<svc, up, main, inst, receiverThread, wakeLocks, everRestart>>
<1> USE DEF TypeOK, ThreadsType, android, fields, threads, env, Crash, Goto, Alive, At
<1>1. CASE Lock(t)
  BY <1>1 DEF Lock
<1>2. CASE AdminServer(t)
  BY <1>2 DEF AdminServer
<1>3. CASE Unlock(t)
  BY <1>3 DEF Unlock
<1>4. CASE Decide(t)
  BY <1>4 DEF Decide
<1>5. CASE Nap(t)
  BY <1>5 DEF Nap
<1>6. CASE Clear(t)
  BY <1>6 DEF Clear
<1>7. CASE Reopen(t)
  BY <1>7 DEF Reopen
<1>8. CASE Settle(t)
  BY <1>8 DEF Settle
<1>9. CASE KeepAlive(t)
  BY <1>9 DEF KeepAlive
<1>10. CASE Revive(t)
  BY <1>10 DEF Revive
<1>11. CASE End(t)
  BY <1>11 DEF End
<1>12. CASE Close0(t)
  BY <1>12 DEF Close0
<1>13. CASE Sleep0(t)
  BY <1>13 DEF Sleep0
<1>14. CASE Create(t)
  BY <1>14 DEF Create
<1>15. CASE Opened(t)
  BY <1>15 DEF Opened
<1>16. CASE Play(t)
  BY <1>16 DEF Play
<1>17. CASE Arm(t)
  BY <1>17 DEF Arm
<1>18. CASE Loop(t) \/ Body(t) \/ Stall(t) \/ Drain(t)
  BY <1>18 DEF Loop, Body, Stall, Drain
<1>19. CASE Halt(t)
  BY <1>19 DEF Halt
<1>20. CASE WebOnly(t)
  BY <1>20 DEF WebOnly
<1>21. CASE Close1(t)
  BY <1>21 DEF Close1
<1>22. CASE Sleep1(t)
  BY <1>22 DEF Sleep1
<1>23. QED
  BY <1>1, <1>2, <1>3, <1>4, <1>5, <1>6, <1>7, <1>8, <1>9, <1>10,
     <1>11, <1>12, <1>13, <1>14, <1>15, <1>16, <1>17, <1>18, <1>19,
     <1>20, <1>21, <1>22 DEF Receiver, Runs

\* The environment moves no thread and no service, opens and closes no device.
LEMMA EnvironmentFrame ==
  ASSUME TypeOK, Environment
  PROVE  /\ UNCHANGED <<svc, up, main, serviceLock, isRunning, pc, phase, inst,
                        receiverThread, wakeLocks>>
         /\ device'.open = device.open /\ device'.streaming = device.streaming
         /\ ~everRestart' => ~everRestart /\ UNCHANGED restartRequested
<1> USE DEF TypeOK, NativeType, EnvType, Device, companion, native, android,
           fields, threads, env
<1>1. (\E s \in Services : AdminRestart(s) \/ AdminStop(s)) \/ ForceStop
      \/ Plug \/ Unplug \/ DeviceLost
  BY DEF Environment
<1>2. /\ UNCHANGED <<svc, up, main, serviceLock, isRunning, pc, phase, inst,
                     receiverThread, wakeLocks>>
  BY <1>1 DEF AdminRestart, AdminStop, ForceStop, Plug, Unplug, DeviceLost
<1>3. device'.open = device.open /\ device'.streaming = device.streaming
  BY <1>1 DEF AdminRestart, AdminStop, ForceStop, Plug, Unplug, DeviceLost
<1>4. ~everRestart' => ~everRestart /\ UNCHANGED restartRequested
  BY <1>1 DEF AdminRestart, AdminStop, ForceStop, Plug, Unplug, DeviceLost
<1>5. QED BY <1>2, <1>3, <1>4

\* Only onStartCommand makes a thread; the rest of the main thread moves none.
LEMMA MainFrame ==
  ASSUME TypeOK, Main, \A t \in Threads : ~StartFresh(t)
  PROVE  /\ UNCHANGED <<svc, pc, phase, inst, receiverThread, serviceLock>>
         /\ device'.open = device.open /\ device'.streaming = device.streaming
         /\ ~everRestart' => ~everRestart /\ UNCHANGED restartRequested
<1> USE DEF companion, native, android, fields, threads
<1>1. \/ \E u \in BOOLEAN : StartWhileRunning(u)
      \/ StartFinish \/ DestroyBegin \/ DestroyFinish \/ Receive
  BY DEF Main
<1>2. ASSUME NEW s, CloseConnection(s)
      PROVE  device'.open = device.open /\ device'.streaming = device.streaming
  BY <1>2 DEF CloseConnection, TypeOK, NativeType, Device
<1>3. UNCHANGED <<svc, pc, phase, inst, receiverThread, serviceLock>>
  BY <1>1 DEF StartWhileRunning, StartFinish, DestroyBegin, DestroyFinish, Receive,
     RestartWithDevice, env
<1>4. device'.open = device.open /\ device'.streaming = device.streaming
  BY <1>1, <1>2 DEF StartWhileRunning, StartFinish, DestroyBegin, DestroyFinish,
     Receive, RestartWithDevice, OpenUsbDevice, env
<1>5. ~everRestart' => ~everRestart /\ UNCHANGED restartRequested
  BY <1>1 DEF StartWhileRunning, StartFinish, DestroyBegin, DestroyFinish, Receive,
     RestartWithDevice, env, TypeOK, EnvType, FieldsType
<1>6. QED BY <1>3, <1>4, <1>5

\* Every live service and the instance of every thread stay created.
LEMMA CreatedStep == ASSUME TypeOK, Created, Next PROVE Created'
<1> USE DEF Created, Alive
<1>1. ASSUME NEW t \in Threads, StartFresh(t) PROVE Created'
  BY <1>1, BoundsAreNat DEF StartFresh, TypeOK, AndroidType, ThreadsType, Goto, Services, BoundsAreNat
<1>2. CASE Main /\ \A t \in Threads : ~StartFresh(t)
  <2>1. UNCHANGED <<svc, pc, inst>> BY <1>2, MainFrame
  <2>2. (up' => up) /\ (main' # "idle" => up')
    BY <1>2 DEF Main, StartWhileRunning, StartFinish, DestroyBegin, DestroyFinish,
       Receive, android
  <2>3. QED BY <2>1, <2>2
<1>3. ASSUME NEW t \in Threads, Receiver(t) PROVE Created'
  BY <1>3, ReceiverFrame DEF TypeOK, ThreadsType
<1>4. CASE Environment
  BY <1>4, EnvironmentFrame
<1>5. QED BY <1>1, <1>2, <1>3, <1>4 DEF Next, Main

\* A live service keeps a wake lock: onDestroy gives it back as the service ends.
LEMMA WakeStep == ASSUME TypeOK, Created, WakeInv, Next PROVE WakeInv'
<1> USE DEF WakeInv
<1>1. ASSUME NEW t \in Threads, StartFresh(t) PROVE WakeInv'
  <2>1. svc' \in Services /\ wakeLocks' = [wakeLocks EXCEPT ![svc'] = @ + 1]
    BY <1>1 DEF StartFresh
  <2>2. QED BY <2>1 DEF TypeOK, FieldsType
<1>2. CASE Main /\ \A t \in Threads : ~StartFresh(t)
  <2>1. UNCHANGED svc BY <1>2, MainFrame
  <2>2. (up' => up) /\ (up' => UNCHANGED wakeLocks)
    BY <1>2 DEF Main, StartWhileRunning, StartFinish, DestroyBegin, DestroyFinish,
       Receive, RestartWithDevice, android, fields
  <2>3. QED BY <2>1, <2>2
<1>3. ASSUME NEW t \in Threads, Receiver(t) PROVE WakeInv'
  BY <1>3, ReceiverFrame, Zenon
<1>4. CASE Environment
  BY <1>4, EnvironmentFrame, Zenon
<1>5. QED BY <1>1, <1>2, <1>3, <1>4 DEF Next, Main

\* The first instance keeps one thread, and shows it.
LEMMA FirstInstanceStep ==
  ASSUME TypeOK, Created, FirstInstanceInv, Next PROVE FirstInstanceInv'
<1> SUFFICES ASSUME svc' <= 1 PROVE FirstInstanceInv'
  BY DEF FirstInstanceInv
<1> USE DEF FirstInstanceInv
<1>1. ASSUME NEW t \in Threads, StartFresh(t) PROVE FirstInstanceInv'
  <2>1. svc' = 1 /\ main' = "starting" /\ receiverThread' = [receiverThread EXCEPT ![1] = t]
    <3>1. /\ svc' \in Services /\ main' = "starting"
          /\ receiverThread' = [receiverThread EXCEPT ![svc'] = t]
      BY <1>1 DEF StartFresh
    <3>2. svc' = 1 BY <3>1 DEF Services
    <3>3. QED BY <3>1, <3>2
  <2>2. \A u \in Threads : ~Alive(u)
    <3>1. CASE up
      BY <1>1, <2>1, <3>1 DEF StartFresh, TypeOK, AndroidType, ThreadsType, FieldsType, Created, MainAt,
         NoThread, Threads
    <3>2. CASE ~up
      BY <1>1, <2>1, <3>2 DEF StartFresh, TypeOK, AndroidType, ThreadsType, Created
    <3>3. QED BY <3>1, <3>2
  <2>3. 1 \in Services
    BY <1>1, <2>1 DEF StartFresh
  <2>4. \A u \in Threads : Alive(u)' => u = t
    BY <1>1, <2>2 DEF StartFresh, Goto, Alive, TypeOK, ThreadsType
  <2>5. QED BY <2>1, <2>3, <2>4 DEF TypeOK, FieldsType
<1>2. CASE Main /\ \A t \in Threads : ~StartFresh(t)
  <2>1. UNCHANGED <<svc, pc, receiverThread>> BY <1>2, MainFrame
  <2>2. (up' /\ main' = "idle" => up /\ main = "idle" /\ UNCHANGED isRunning) \/ isRunning'
    BY <1>2 DEF Main, StartWhileRunning, StartFinish, DestroyBegin, DestroyFinish,
       Receive, companion, android, MainAt
  <2>3. QED BY <2>1, <2>2 DEF Alive
<1>3. ASSUME NEW t \in Threads, Receiver(t) PROVE FirstInstanceInv'
  <2>1. /\ Alive(t) /\ \A u \in Threads \ {t} : pc'[u] = pc[u]
        /\ UNCHANGED <<svc, up, main, receiverThread>>
    BY <1>3, ReceiverFrame
  <2>2. \A u \in Threads : Alive(u)' => Alive(u)
    BY <2>1 DEF Alive
  <2>3. CASE isRunning' = isRunning \/ isRunning'
    BY <2>1, <2>2, <2>3
  <2>4. CASE End(t)
    <3>1. ~Alive(t)' BY <2>4 DEF End, Goto, Alive, TypeOK, ThreadsType
    <3>2. QED BY <2>1, <2>2, <3>1, SMTT(60)
  <2>5. End(t) \/ isRunning' = isRunning \/ isRunning'
    BY <1>3 DEF Receiver, Runs, Lock, AdminServer, Unlock, Decide, Nap, Clear, Reopen,
       Settle, KeepAlive, Revive, Close0, Sleep0, Create, Opened, Play, Arm, Loop,
       Body, Stall, Drain, Halt, WebOnly, Close1, Sleep1, Crash, companion
  <2>6. QED BY <2>3, <2>4, <2>5
<1>4. CASE Environment
  BY <1>4, EnvironmentFrame DEF Alive
<1>5. QED BY <1>1, <1>2, <1>3, <1>4 DEF Next, Main

\* serviceLock belongs to the thread that is between lock() and unlock().
LEMMA LockStep == ASSUME TypeOK, LockInv, Next PROVE LockInv'
<1> USE DEF LockInv, InEngine
<1>1. ASSUME NEW t \in Threads, StartFresh(t) PROVE LockInv'
  BY <1>1 DEF StartFresh, TypeOK, ThreadsType, Goto, companion
<1>2. CASE Main /\ \A t \in Threads : ~StartFresh(t)
  BY <1>2, MainFrame
<1>3. ASSUME NEW t \in Threads, Receiver(t) PROVE LockInv'
  <2>1. /\ Alive(t) /\ \A u \in Threads \ {t} : pc'[u] = pc[u] /\ phase'[u] = phase[u]
    BY <1>3, ReceiverFrame
  <2>2. CASE Lock(t)
    BY <2>2, <2>1 DEF Lock, Goto, TypeOK, CompanionType, ThreadsType, NoThread, Threads, threads
  <2>3. CASE Unlock(t)
    BY <2>3, <2>1 DEF Unlock, At, Goto, TypeOK, CompanionType, ThreadsType
  <2>4. CASE Decide(t) \/ Revive(t)
    BY <2>4, <2>1 DEF Decide, Revive, Goto, TypeOK, ThreadsType, companion
  <2>5. CASE AdminServer(t) \/ Nap(t) \/ Clear(t) \/ Reopen(t)
    BY <2>5, <2>1 DEF AdminServer, Nap, Clear, Reopen, Crash, At, Goto, TypeOK, ThreadsType,
       companion, threads
  <2>6. CASE Settle(t) \/ KeepAlive(t) \/ End(t) \/ Sleep1(t)
    BY <2>6, <2>1 DEF Settle, KeepAlive, End, Sleep1, At, Goto, TypeOK, ThreadsType, companion
  <2>7. CASE Close0(t) \/ Sleep0(t) \/ Create(t) \/ Opened(t) \/ Play(t) \/ Arm(t)
    BY <2>7, <2>1 DEF Close0, Sleep0, Create, Opened, Play, Arm, Crash, At, Goto,
       TypeOK, ThreadsType, companion, threads
  <2>8. CASE Loop(t) \/ Body(t) \/ Stall(t) \/ Drain(t) \/ Halt(t) \/ WebOnly(t) \/ Close1(t)
    BY <2>8, <2>1 DEF Loop, Body, Stall, Drain, Halt, WebOnly, Close1, Crash, At, Goto, TypeOK, ThreadsType,
       companion, threads
  <2>9. QED
    BY <1>3, <2>2, <2>3, <2>4, <2>5, <2>6, <2>7, <2>8 DEF Receiver, Runs
<1>4. CASE Environment
  BY <1>4, EnvironmentFrame
<1>5. QED BY <1>1, <1>2, <1>3, <1>4 DEF Next, Main

\* Before the first restart request every thread is in its first run.
LEMMA FirstRunStep == ASSUME TypeOK, Created, FirstRunInv, Next PROVE FirstRunInv'
<1> SUFFICES ASSUME ~everRestart' PROVE FirstRunInv'
  BY DEF FirstRunInv
<1> USE DEF FirstRunInv
<1>1. ASSUME NEW t \in Threads, StartFresh(t) PROVE FirstRunInv'
  BY <1>1 DEF StartFresh, TypeOK, ThreadsType, Goto
<1>2. CASE Main /\ \A t \in Threads : ~StartFresh(t)
  BY <1>2, MainFrame
<1>3. ASSUME NEW t \in Threads, Receiver(t) PROVE FirstRunInv'
  <2>1. /\ Alive(t) /\ ~everRestart
        /\ \A u \in Threads \ {t} : pc'[u] = pc[u] /\ phase'[u] = phase[u]
    BY <1>3, ReceiverFrame
  <2>2. ~restartRequested[inst[t]]
    BY <2>1, BoundsAreNat DEF Created, TypeOK, AndroidType, ThreadsType, Services, BoundsAreNat
  <2>3. CASE Decide(t) \/ Revive(t)
    BY <2>1, <2>2, <2>3 DEF Decide, Revive, Goto, TypeOK, FieldsType, ThreadsType, fields
  <2>4. CASE Lock(t) \/ AdminServer(t) \/ Unlock(t)
    BY <2>1, <2>4 DEF Lock, AdminServer, Unlock, Goto, TypeOK, FieldsType, ThreadsType, fields
  <2>5. CASE Nap(t) \/ Clear(t) \/ Reopen(t)
    BY <2>1, <2>5 DEF Nap, Clear, Reopen, At
  <2>6. CASE Settle(t) \/ KeepAlive(t) \/ End(t) \/ Sleep1(t)
    BY <2>1, <2>6 DEF Settle, KeepAlive, End, Sleep1, Goto, TypeOK, FieldsType, ThreadsType, fields
  <2>7. CASE Close0(t) \/ Sleep0(t) \/ Create(t) \/ Opened(t) \/ Play(t) \/ Arm(t)
    BY <2>1, <2>7 DEF Close0, Sleep0, Create, Opened, Play, Arm, Crash, Goto,
       TypeOK, FieldsType, ThreadsType, fields, threads
  <2>8. CASE Loop(t) \/ Body(t) \/ Stall(t) \/ Drain(t) \/ Halt(t) \/ WebOnly(t) \/ Close1(t)
    BY <2>1, <2>8 DEF Loop, Body, Stall, Drain, Halt, WebOnly, Close1, Crash, Goto, TypeOK, FieldsType, ThreadsType, fields, threads
  <2>9. QED
    BY <1>3, <2>3, <2>4, <2>5, <2>6, <2>7, <2>8 DEF Receiver, Runs
<1>4. CASE Environment
  BY <1>4, EnvironmentFrame
<1>5. QED BY <1>1, <1>2, <1>3, <1>4 DEF Next, Main

-----------------------------------------------------------------------------
(* The invariant, and what follows from it *)

\* One instance, or no restart yet: serviceLock and receiverThread leave one
\* thread in the engine.
LEMMA OneThread == ASSUME TypeOK, FirstInstanceInv PROVE OneReceiver
BY DEF FirstInstanceInv, OneReceiver

LEMMA Exclusion ==
  ASSUME TypeOK, LockInv, FirstRunInv, FirstInstanceInv PROVE ExclusiveIfCovered
<1>1. CASE ~everRestart
  BY <1>1 DEF FirstRunInv, LockInv, ExclusiveIfCovered, EngineExclusive
<1>2. CASE svc <= 1
  BY <1>2, OneThread DEF OneReceiver, ExclusiveIfCovered, EngineExclusive, InEngine, Alive
<1>3. QED BY <1>1, <1>2 DEF ExclusiveIfCovered, Covered

\* What is not covered any more stays uncovered.
LEMMA CoveredStep == ASSUME TypeOK, Created, Next, Covered' PROVE Covered
<1>1. ASSUME NEW t \in Threads, StartFresh(t) PROVE Covered
  BY <1>1 DEF StartFresh, TypeOK, AndroidType, Covered
<1>2. CASE Main /\ \A t \in Threads : ~StartFresh(t)
  BY <1>2, MainFrame DEF Covered
<1>3. ASSUME NEW t \in Threads, Receiver(t) PROVE Covered
  BY <1>3, ReceiverFrame DEF Covered
<1>4. CASE Environment
  BY <1>4, EnvironmentFrame DEF Covered
<1>5. QED BY <1>1, <1>2, <1>3, <1>4 DEF Next, Main

\* The device is open from its creation to the end of Run(), and streams only
\* while a thread is in Run().
LEMMA DeviceStep ==
  ASSUME TypeOK, Created, LockInv, FirstRunInv, FirstInstanceInv, DeviceInv, Next
  PROVE  DeviceInv'
<1> SUFFICES ASSUME Covered' PROVE DeviceInv'
  BY DEF DeviceInv
<1>0. /\ Covered /\ EngineExclusive
      /\ \A t \in Threads : pc[t] = "opened" \/ InRun(t) => device.open
      /\ device.streaming => \E t \in Threads : pc[t] \in {"arm", "halt"} \/ InLoop(t)
  BY CoveredStep, Exclusion DEF ExclusiveIfCovered, DeviceInv
<1> USE DEF DeviceInv, InRun, InLoop
<1>1. ASSUME NEW t \in Threads, StartFresh(t) PROVE DeviceInv'
  <2>1. device'.open = device.open /\ device'.streaming = device.streaming
    BY <1>1 DEF StartFresh, CloseConnection, TypeOK, NativeType, Device
  <2>2. QED BY <1>0, <1>1, <2>1 DEF StartFresh, Goto, TypeOK, ThreadsType
<1>2. CASE Main /\ \A t \in Threads : ~StartFresh(t)
  BY <1>0, <1>2, MainFrame
<1>3. ASSUME NEW t \in Threads, Receiver(t) PROVE DeviceInv'
  <2>1. \A u \in Threads \ {t} : pc'[u] = pc[u]
    BY <1>3, ReceiverFrame
  <2>2. ASSUME InEngine(t), NEW u \in Threads \ {t} PROVE ~InEngine(u)'
    BY <1>0, <2>1, <2>2 DEF EngineExclusive, InEngine
  <2> USE DEF InEngine, At, Goto, TypeOK, NativeType, ThreadsType, Device, native, threads, Crash
  <2>3. CASE Lock(t) \/ AdminServer(t) \/ Unlock(t) \/ Decide(t) \/ Nap(t) \/ Clear(t)
    BY <1>0, <2>1, <2>3 DEF Lock, AdminServer, Unlock, Decide, Nap, Clear
  <2>4. CASE Reopen(t) \/ Settle(t) \/ KeepAlive(t) \/ Revive(t) \/ End(t)
    BY <1>0, <2>1, <2>4 DEF Reopen, Settle, KeepAlive, Revive, End
  <2>5. CASE Close0(t) \/ Close1(t)
    BY <1>0, <2>1, <2>2, <2>5, ZenonT(60) DEF Close0, Close1, CloseNative
  <2>6. CASE Sleep0(t) \/ Opened(t) \/ Arm(t) \/ WebOnly(t) \/ Sleep1(t)
    BY <1>0, <2>1, <2>2, <2>6 DEF Sleep0, Opened, Arm, WebOnly, Sleep1
  <2>10. CASE Loop(t) \/ Body(t) \/ Stall(t) \/ Drain(t)
    BY <1>0, <2>1, <2>2, <2>10 DEF Loop, Body, Stall, Drain
  <2>7. CASE Create(t)
    BY <1>0, <2>1, <2>2, <2>7, ZenonT(60) DEF Create
  <2>8. CASE Play(t) \/ Halt(t)
    BY <1>0, <2>1, <2>2, <2>8, ZenonT(60) DEF Play, Halt
  <2>9. QED
    BY <1>3, <2>3, <2>4, <2>5, <2>6, <2>7, <2>8, <2>10 DEF Receiver, Runs
<1>4. CASE Environment
  BY <1>0, <1>4, EnvironmentFrame
<1>5. QED BY <1>1, <1>2, <1>3, <1>4 DEF Next, Main

\* Init establishes the invariant and every step keeps it.
THEOREM Invariance == Spec => []IInv
<1>1. Init => IInv
  <2>1. Init => TypeOK
    <3>1. 0 \in 0 .. MaxServices /\ 1 \in 1 .. 3 /\ <<>> \in Seq({"attached", "detached"})
      BY BoundsAreNat DEF BoundsAreNat
    <3>2. Init => device \in Device BY <3>1 DEF Init, Device, Fd
    <3>3. Init => /\ shouldStop \in [Services -> BOOLEAN]
                  /\ restartRequested \in [Services -> BOOLEAN]
                  /\ fileDescriptor \in [Services -> Fd]
                  /\ adminWebServer \in [Services -> {"none", "up", "failed"}]
                  /\ wakeLocks \in [Services -> Nat]
                  /\ receiverThread \in [Services -> Threads \cup {NoThread}]
      BY DEF Init, Fd
    <3>4. Init => /\ pc \in [Threads -> Steps] /\ inst \in [Threads -> 0 .. MaxServices]
                  /\ phase \in [Threads -> 1 .. 3] /\ interrupted \in [Threads -> BOOLEAN]
                  /\ fd \in [Threads -> Fd]
      BY <3>1 DEF Init, Fd, Steps
    <3>5. Init => /\ isRunning \in BOOLEAN /\ hasDevice \in BOOLEAN
                  /\ serviceLock \in Threads \cup {NoThread} /\ stop \in BOOLEAN
                  /\ svc \in 0 .. MaxServices /\ up \in BOOLEAN /\ crashed \in BOOLEAN
                  /\ main \in {"idle", "starting", "joining"}
      BY <3>1, ZenonT(60) DEF Init
    <3>6. Init => /\ webViewer \in BOOLEAN /\ plugged \in BOOLEAN /\ everRestart \in BOOLEAN
                  /\ forceStops = 0 /\ events = 0
      BY Zenon DEF Init
    <3>7. Init => broadcasts \in Seq({"attached", "detached"})
      BY <3>1 DEF Init
    <3>8. QED
      BY <3>2, <3>3, <3>4, <3>5, <3>6, <3>7 DEF TypeOK, CompanionType, NativeType,
         AndroidType, FieldsType, ThreadsType, EnvType
  <2>2. Init => Created /\ WakeInv /\ FirstInstanceInv
    BY DEF Init, Created, WakeInv, FirstInstanceInv, Alive
  <2>3. Init => LockInv /\ FirstRunInv /\ DeviceInv
    BY DEF Init, LockInv, FirstRunInv, DeviceInv, InEngine, InRun, InLoop
  <2>4. QED BY <2>1, <2>2, <2>3 DEF IInv
<1>2. IInv /\ [Next]_vars => IInv'
  <2>1. ASSUME IInv, Next PROVE IInv'
    <3>1. TypeOK'
      BY <2>1, TypeMain, TypeReceiver, TypeEnvironment DEF IInv, Next
    <3>2. Created' /\ WakeInv' /\ FirstInstanceInv'
      BY <2>1, CreatedStep, WakeStep, FirstInstanceStep DEF IInv
    <3>3. LockInv' /\ FirstRunInv' /\ DeviceInv'
      BY <2>1, LockStep, FirstRunStep, DeviceStep DEF IInv
    <3>4. QED BY <3>1, <3>2, <3>3 DEF IInv
  <2>2. ASSUME IInv, UNCHANGED vars PROVE IInv'
    BY <2>2 DEF vars, companion, native, android, fields, threads, env, IInv,
       TypeOK, CompanionType, NativeType, AndroidType, FieldsType, ThreadsType, EnvType,
       Created, LockInv, FirstRunInv, FirstInstanceInv, DeviceInv, WakeInv, Alive,
       InEngine, InRun, InLoop, Covered
  <2>3. QED BY <2>1, <2>2
<1>3. QED BY <1>1, <1>2, PTL DEF Spec

\* Type correctness of the service, its threads and the native globals.
THEOREM TypeCorrect == Spec => []TypeOK
BY Invariance, PTL DEF IInv

\* Two threads are in the native engine at once only after an in-process
\* restart and a second instance (serviceLock in runServiceLoop).
THEOREM EngineExclusion == Spec => []ExclusiveIfCovered
<1>1. IInv => ExclusiveIfCovered
  BY Exclusion DEF IInv
<1>2. QED BY <1>1, Invariance, PTL

\* Under the same condition Run() finds its device open and not yet streaming.
THEOREM RunFindsDevice == Spec => []RunHasDevice
<1>1. ASSUME IInv PROVE RunHasDevice
  <2>1. ExclusiveIfCovered BY <1>1, Exclusion DEF IInv
  <2>2. QED
    BY <1>1, <2>1 DEF IInv, DeviceInv, RunHasDevice, ExclusiveIfCovered,
       EngineExclusive, InEngine, InRun, InLoop
<1>2. QED BY <1>1, Invariance, PTL

\* onStartCommand gives the first instance one receiver thread at a time.
THEOREM SingleReceiver == Spec => []OneReceiver
<1>1. IInv => OneReceiver
  BY OneThread DEF IInv
<1>2. QED BY <1>1, Invariance, PTL

\* The live service holds a wake lock whenever its receiver thread runs.
THEOREM Awake == Spec => []AwakeWhileReceiving
<1>1. IInv => AwakeWhileReceiving
  BY DEF IInv, WakeInv, AwakeWhileReceiving
<1>2. QED BY <1>1, Invariance, PTL
=============================================================================

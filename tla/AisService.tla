----------------------------- MODULE AisService -----------------------------
(***************************************************************************)
(* The foreground service of the app, its receiver thread and the native   *)
(* engine they drive: AisReceiverService.kt, the lifecycle calls of        *)
(* AdminWebServer.kt and the globals of AIScatcherNDK.cpp.                 *)
(*                                                                         *)
(* Three kinds of threads meet here.  Android's main thread runs           *)
(* onStartCommand, onDestroy and the USB broadcasts, one at a time.  Every *)
(* start may spawn a receiver thread, which runs runServiceLoop and, inside*)
(* it, runNativeEngine.  The admin web server calls in from its own        *)
(* threads.  Android may destroy the service and create a new instance in  *)
(* the same process: the instance fields start afresh, the companion       *)
(* object and the native globals do not.                                   *)
(***************************************************************************)
EXTENDS Integers, Sequences

CONSTANTS
  MaxThreads,    \* bound: receiver threads ever spawned
  MaxServices,   \* bound: service instances Android ever creates
  MaxEvents      \* bound: start and stop commands, admin requests, plugs, unplugs

ASSUME BoundsAreNat ==
  /\ MaxThreads \in Nat
  /\ MaxServices \in Nat
  /\ MaxEvents \in Nat

VARIABLES
  \* companion object: shared by every instance of the service
  isRunning, hasDevice, serviceLock,
  \* native globals: the stop flag and the device the JNI functions work on
  stop, device,
  \* Android: newest instance, whether it is alive, what the main thread does,
  \* whether the process has died
  svc, up, main, crashed,
  \* fields of each instance
  shouldStop, restartRequested, fileDescriptor, adminWebServer, wakeLocks,
  receiverThread,
  \* receiver threads: step, instance, run of the engine, interrupt flag, fd
  pc, inst, phase, interrupted, fd,
  \* environment: config.webViewerEnabled, the dongle, undelivered broadcasts,
  \* forceStop calls under way
  webViewer, plugged, broadcasts, forceStops,
  \* events so far, for the bound, and whether a restart was ever requested
  events, everRestart

companion == <<isRunning, hasDevice, serviceLock>>
native    == <<stop, device>>
android   == <<svc, up, main, crashed>>
fields    == <<shouldStop, restartRequested, fileDescriptor, adminWebServer,
               wakeLocks, receiverThread>>
threads   == <<pc, inst, phase, interrupted, fd>>
env       == <<webViewer, plugged, broadcasts, forceStops, events, everRestart>>
vars == <<companion, native, android, fields, threads, env>>

Threads  == 1 .. MaxThreads
Services == 1 .. MaxServices
NoThread == 0

(***************************************************************************)
(* A file descriptor is -1 ("none"), that of an open connection to a dongle*)
(* that is still there ("live"), or one whose connection was closed or     *)
(* whose dongle was unplugged ("stale").                                   *)
(***************************************************************************)
Fd == {"none", "live", "stale"}
Staled(f) == IF f = "live" THEN "stale" ELSE f

\* The native device: pointer set, Device::streaming, lost, and the
\* connection (its descriptor and the instance it belongs to) it was opened on.
Device == [open : BOOLEAN, streaming : BOOLEAN, lost : BOOLEAN,
           fd : Fd, svc : 0 .. MaxServices]
IsStreaming == device.streaming /\ ~device.lost

Steps == {"unborn", "lock", "admin", "close0", "sleep0", "create", "opened",
          "play", "arm", "loop", "body", "stuck", "halt", "webonly", "close1",
          "sleep1", "unlock", "decide", "nap", "clear", "reopen", "settle", "keepalive",
          "revive", "end", "dead"}
\* inside runNativeEngine, between its two calls of Close()
InEngine(t) == pc[t] \in {"close0", "sleep0", "create", "opened", "play", "arm",
                          "loop", "body", "stuck", "halt", "webonly", "close1",
                          "sleep1"}
\* inside the receive loop: at its test, in its body, or in a call that blocks
InLoop(t) == pc[t] \in {"loop", "body", "stuck"}
Alive(t) == pc[t] \notin {"unborn", "dead"}

Init ==
  /\ isRunning = FALSE /\ hasDevice = FALSE /\ serviceLock = NoThread
  /\ stop = FALSE
  /\ device = [open |-> FALSE, streaming |-> FALSE, lost |-> FALSE,
               fd |-> "none", svc |-> 0]
  /\ svc = 0 /\ up = FALSE /\ main = "idle" /\ crashed = FALSE
  /\ shouldStop = [s \in Services |-> FALSE]
  /\ restartRequested = [s \in Services |-> FALSE]
  /\ fileDescriptor = [s \in Services |-> "none"]
  /\ adminWebServer = [s \in Services |-> "none"]
  /\ wakeLocks = [s \in Services |-> 0]
  /\ receiverThread = [s \in Services |-> NoThread]
  /\ pc = [t \in Threads |-> "unborn"]
  /\ inst = [t \in Threads |-> 0]
  /\ phase = [t \in Threads |-> 1]
  /\ interrupted = [t \in Threads |-> FALSE]
  /\ fd = [t \in Threads |-> "none"]
  /\ webViewer \in BOOLEAN
  /\ plugged \in BOOLEAN /\ broadcasts = <<>> /\ forceStops = 0
  /\ events = 0 /\ everRestart = FALSE

MainAt(step)  == ~crashed /\ main = step
At(t, step)   == ~crashed /\ pc[t] = step
Goto(t, step) == pc' = [pc EXCEPT ![t] = step]

\* An unhandled exception or a native fault ends the process: nothing moves on.
Crash ==
  /\ crashed' = TRUE
  /\ UNCHANGED <<companion, native, svc, up, main, fields, threads, env>>

-----------------------------------------------------------------------------
(* USB connections *)

\* usbConnection.close(): every copy of its descriptor goes stale.
CloseConnection(s) ==
  /\ fd' = [t \in Threads |-> IF inst[t] = s THEN Staled(fd[t]) ELSE fd[t]]
  /\ device' = IF device.svc = s THEN [device EXCEPT !.fd = Staled(@)] ELSE device

\* openUsbDevice with the result stored when it is a descriptor.
OpenUsbDevice(s) ==
  /\ CloseConnection(s)
  /\ fileDescriptor' = [fileDescriptor EXCEPT
                          ![s] = IF plugged THEN "live" ELSE Staled(@)]

Interrupt(s) ==
  interrupted' = [t \in Threads |->
                    interrupted[t] \/ (t = receiverThread[s] /\ Alive(t))]

\* A dongle turned up while hasDevice is false: open it, ask the receiver
\* thread to restart the engine, wake it.
RestartWithDevice(s) ==
  /\ OpenUsbDevice(s)
  /\ IF plugged
     THEN /\ restartRequested' = [restartRequested EXCEPT ![s] = TRUE]
          /\ shouldStop' = [shouldStop EXCEPT ![s] = TRUE]
          /\ Interrupt(s)
          /\ everRestart' = TRUE
     ELSE UNCHANGED <<restartRequested, shouldStop, interrupted, everRestart>>
  /\ UNCHANGED <<adminWebServer, wakeLocks, receiverThread, pc, inst, phase, stop>>

-----------------------------------------------------------------------------
(* Android's main thread *)

\* onStartCommand while the instance's receiver thread runs: only a USB id
\* that comes while there is no device has an effect.
StartWhileRunning(usbIds) ==
  /\ up /\ MainAt("idle") /\ events < MaxEvents
  /\ isRunning /\ receiverThread[svc] # NoThread /\ Alive(receiverThread[svc])
  /\ events' = events + 1
  /\ IF ~hasDevice /\ usbIds
     THEN RestartWithDevice(svc)
     ELSE UNCHANGED <<fields, threads, native, everRestart>>
  /\ UNCHANGED <<webViewer, companion, android, plugged, broadcasts, forceStops>>

\* onStartCommand up to the start of the receiver thread; a new instance is
\* created first if none is alive.  The second half follows in StartFinish.
StartFresh(t) ==
  LET s == IF up THEN svc ELSE svc + 1
      old == IF up THEN receiverThread[s] ELSE NoThread IN
  /\ MainAt("idle") /\ events < MaxEvents /\ s \in Services
  /\ ~(isRunning /\ old # NoThread /\ Alive(old))
  /\ pc[t] = "unborn" /\ \A u \in Threads : u < t => pc[u] # "unborn"
  /\ svc' = s /\ up' = TRUE /\ main' = "starting" /\ events' = events + 1
  /\ CloseConnection(s)
  /\ fileDescriptor' = [fileDescriptor EXCEPT ![s] = IF plugged THEN "live" ELSE "none"]
  /\ wakeLocks' = [wakeLocks EXCEPT ![s] = @ + 1]
  /\ shouldStop' = [shouldStop EXCEPT ![s] = FALSE]
  /\ receiverThread' = [receiverThread EXCEPT ![s] = t]
  /\ Goto(t, "lock") /\ inst' = [inst EXCEPT ![t] = s]
  /\ UNCHANGED <<webViewer, companion, stop, crashed, restartRequested, adminWebServer,
                 phase, interrupted, plugged, broadcasts, forceStops,
                 everRestart>>

StartFinish ==
  /\ MainAt("starting")
  /\ isRunning' = TRUE /\ main' = "idle"
  /\ UNCHANGED <<hasDevice, serviceLock, native, svc, up, crashed, fields,
                 threads, env>>

\* onDestroy up to the join, which gives up after five seconds.
DestroyBegin ==
  /\ up /\ MainAt("idle") /\ events < MaxEvents
  /\ main' = "joining" /\ events' = events + 1
  /\ shouldStop' = [shouldStop EXCEPT ![svc] = TRUE]
  /\ stop' = TRUE
  /\ Interrupt(svc)
  /\ UNCHANGED <<webViewer, companion, device, svc, up, crashed, restartRequested,
                 fileDescriptor, adminWebServer, wakeLocks, receiverThread, pc,
                 inst, phase, fd, plugged, broadcasts, forceStops, everRestart>>

\* Mutant: onDestroy also calls Close(), though the join may have timed out.
DestroyFinishClosing ==
  /\ MainAt("joining")
  /\ main' = "idle" /\ up' = FALSE
  /\ device' = [device EXCEPT !.open = FALSE, !.fd = Staled(@)]
  /\ isRunning' = FALSE /\ hasDevice' = FALSE
  /\ UNCHANGED <<serviceLock, stop, svc, crashed, fields, threads, env>>

DestroyFinish ==
  /\ MainAt("joining")
  /\ main' = "idle" /\ up' = FALSE
  /\ adminWebServer' = [adminWebServer EXCEPT ![svc] = "none"]
  /\ CloseConnection(svc)
  /\ fileDescriptor' = [fileDescriptor EXCEPT ![svc] = Staled(@)]
  /\ wakeLocks' = [wakeLocks EXCEPT ![svc] = IF @ > 0 THEN @ - 1 ELSE 0]
  /\ isRunning' = FALSE /\ hasDevice' = FALSE
  /\ UNCHANGED <<serviceLock, stop, svc, crashed, shouldStop, restartRequested,
                 receiverThread, pc, inst, phase, interrupted, env>>

\* The dynamic BroadcastReceiver, registered while an instance is alive.
Receive ==
  /\ MainAt("idle") /\ broadcasts # <<>>
  /\ broadcasts' = Tail(broadcasts)
  /\ IF ~up
     THEN UNCHANGED <<hasDevice, fields, threads, native, everRestart>>
     ELSE IF Head(broadcasts) = "detached"
     THEN hasDevice' = FALSE /\ UNCHANGED <<fields, threads, native, everRestart>>
     ELSE /\ IF hasDevice
             THEN UNCHANGED <<fields, threads, native, everRestart>>
             ELSE RestartWithDevice(svc)
          /\ UNCHANGED hasDevice
  /\ UNCHANGED <<webViewer, isRunning, serviceLock, android, plugged, forceStops,
                 events>>

Main ==
  \/ \E usbIds \in BOOLEAN : StartWhileRunning(usbIds)
  \/ \E t \in Threads : StartFresh(t)
  \/ StartFinish
  \/ DestroyBegin
  \/ DestroyFinish
  \/ Receive

-----------------------------------------------------------------------------
(* runServiceLoop: around the engine *)

\* Mutant: runServiceLoop without serviceLock.
LockWithoutLock(t) ==
  /\ At(t, "lock")
  /\ serviceLock' = t
  /\ restartRequested' = [restartRequested EXCEPT ![inst[t]] = FALSE]
  /\ Goto(t, "admin")
  /\ UNCHANGED <<isRunning, hasDevice, native, android, shouldStop,
                 fileDescriptor, adminWebServer, wakeLocks, receiverThread,
                 inst, phase, interrupted, fd, env>>

\* serviceLock.lock(), then restartRequested.set(false)
Lock(t) ==
  /\ At(t, "lock") /\ serviceLock = NoThread
  /\ serviceLock' = t
  /\ restartRequested' = [restartRequested EXCEPT ![inst[t]] = FALSE]
  /\ Goto(t, "admin")
  /\ UNCHANGED <<isRunning, hasDevice, native, android, shouldStop,
                 fileDescriptor, adminWebServer, wakeLocks, receiverThread,
                 inst, phase, interrupted, fd, env>>

\* The admin web server is started once per instance.  Its start() logs a port
\* that is taken, by another instance or by another program, and returns: the
\* object stays, it serves nothing, and the engine runs all the same.
AdminServer(t) ==
  LET s == inst[t]
      portTaken == \E r \in Services \ {s} : adminWebServer[r] = "up" IN
  /\ At(t, "admin")
  /\ \E bound \in BOOLEAN :
       /\ bound => ~portTaken
       /\ adminWebServer' = [adminWebServer EXCEPT
                              ![s] = CASE ~webViewer -> "none"
                                       [] webViewer /\ @ # "none" -> @
                                       [] OTHER -> IF bound THEN "up" ELSE "failed"]
  /\ isRunning' = TRUE
  /\ fd' = [fd EXCEPT ![t] = fileDescriptor[s]]
  /\ Goto(t, "close0")
  /\ UNCHANGED <<hasDevice, serviceLock, native, android, shouldStop,
                 restartRequested, fileDescriptor, wakeLocks, receiverThread,
                 inst, phase, interrupted, env>>

\* Mutant: isRunning is cleared as the engine exits, not as the thread ends.
UnlockNotRunning(t) ==
  /\ At(t, "unlock")
  /\ serviceLock' = NoThread /\ isRunning' = FALSE
  /\ Goto(t, "decide")
  /\ UNCHANGED <<hasDevice, native, android, fields, inst, phase, interrupted,
                 fd, env>>

\* finally { serviceLock.unlock() }
Unlock(t) ==
  /\ At(t, "unlock")
  /\ serviceLock' = NoThread
  /\ Goto(t, "decide")
  /\ UNCHANGED <<isRunning, hasDevice, native, android, fields, inst, phase,
                 interrupted, fd, env>>

\* The engine exited: restart it in place if asked to (phase 2).
Decide(t) ==
  /\ At(t, "decide")
  /\ IF restartRequested[inst[t]]
     THEN Goto(t, "nap") /\ phase' = [phase EXCEPT ![t] = 2]
     ELSE Goto(t, "settle") /\ UNCHANGED phase
  /\ UNCHANGED <<companion, native, android, fields, inst, interrupted, fd, env>>

\* The sleep before a restart.  Nothing catches its InterruptedException.
Nap(t) ==
  /\ At(t, "nap")
  /\ \/ /\ interrupted[t]
        /\ Crash
     \/ /\ ~interrupted[t]
        /\ shouldStop' = [shouldStop EXCEPT ![inst[t]] = FALSE]
        /\ Goto(t, "clear")
        /\ UNCHANGED <<companion, native, android, restartRequested,
                       fileDescriptor, adminWebServer, wakeLocks,
                       receiverThread, inst, phase, interrupted, fd, env>>

Clear(t) ==
  /\ At(t, "clear")
  /\ restartRequested' = [restartRequested EXCEPT ![inst[t]] = FALSE]
  /\ Goto(t, "reopen")
  /\ UNCHANGED <<companion, native, android, shouldStop, fileDescriptor,
                 adminWebServer, wakeLocks, receiverThread, inst, phase,
                 interrupted, fd, env>>

\* Reuse fileDescriptor if there is one, else rescan the bus; then run the
\* engine again, this time without serviceLock.
Reopen(t) ==
  LET s == inst[t] IN
  /\ At(t, "reopen")
  /\ Goto(t, "close0")
  /\ IF fileDescriptor[s] = "none" /\ plugged
     THEN /\ fileDescriptor' = [fileDescriptor EXCEPT ![s] = "live"]
          /\ fd' = [u \in Threads |-> CASE u = t -> "live"
                                       [] inst[u] = s /\ u # t -> Staled(fd[u])
                                       [] OTHER -> fd[u]]
          /\ device' = IF device.svc = s THEN [device EXCEPT !.fd = Staled(@)]
                                         ELSE device
     ELSE /\ fd' = [fd EXCEPT ![t] = fileDescriptor[s]]
          /\ UNCHANGED <<fileDescriptor, device>>
  /\ UNCHANGED <<companion, stop, android, shouldStop, restartRequested,
                 adminWebServer, wakeLocks, receiverThread, inst, phase,
                 interrupted, env>>

\* No restart is pending: leave, or stay alive for the web server.
Settle(t) ==
  /\ At(t, "settle")
  /\ Goto(t, IF shouldStop[inst[t]] \/ restartRequested[inst[t]]
             THEN "end" ELSE "keepalive")
  /\ UNCHANGED <<companion, native, android, fields, inst, phase, interrupted,
                 fd, env>>

\* The keep-alive loop ends when a flag is seen at the loop head (an interrupt
\* then stays pending) or when the sleep is interrupted (which clears it).
KeepAlive(t) ==
  /\ At(t, "keepalive")
  /\ \/ /\ shouldStop[inst[t]] \/ restartRequested[inst[t]]
        /\ UNCHANGED interrupted
     \/ /\ interrupted[t]
        /\ interrupted' = [interrupted EXCEPT ![t] = FALSE]
  /\ Goto(t, "revive")
  /\ UNCHANGED <<companion, native, android, fields, inst, phase, fd, env>>


\* A restart requested during keep-alive is served once (phase 3).
Revive(t) ==
  /\ At(t, "revive")
  /\ IF restartRequested[inst[t]]
     THEN Goto(t, "nap") /\ phase' = [phase EXCEPT ![t] = 3]
     ELSE Goto(t, "end") /\ UNCHANGED phase
  /\ UNCHANGED <<companion, native, android, fields, inst, interrupted, fd, env>>

\* Mutant: the thread also gives back a wake lock, without asking if it is held.
EndReleasing(t) ==
  /\ At(t, "end")
  /\ isRunning' = FALSE
  /\ wakeLocks' = [wakeLocks EXCEPT ![inst[t]] = @ - 1]
  /\ Goto(t, "dead")
  /\ UNCHANGED <<hasDevice, serviceLock, native, android, shouldStop,
                 restartRequested, fileDescriptor, adminWebServer,
                 receiverThread, inst, phase, interrupted, fd, env>>

End(t) ==
  /\ At(t, "end")
  /\ isRunning' = FALSE
  /\ Goto(t, "dead")
  /\ UNCHANGED <<hasDevice, serviceLock, native, android, fields, inst, phase,
                 interrupted, fd, env>>

-----------------------------------------------------------------------------
(* runNativeEngine and the JNI functions it calls *)

\* AisCatcherJava.Close(): close the device and drop the pointer.
CloseNative ==
  device' = IF device.open THEN [device EXCEPT !.open = FALSE, !.fd = Staled(@)]
                           ELSE device

Close0(t) ==
  /\ At(t, "close0")
  /\ CloseNative
  /\ Goto(t, "sleep0")
  /\ UNCHANGED <<companion, stop, android, fields, inst, phase, interrupted,
                 fd, env>>

\* sleep(500) inside a try that swallows an interrupt
Sleep0(t) ==
  /\ At(t, "sleep0")
  /\ interrupted' = [interrupted EXCEPT ![t] = FALSE]
  /\ Goto(t, "create")
  /\ UNCHANGED <<companion, native, android, fields, inst, phase, fd, env>>

\* InitNative, the outputs, createReceiver.  It is not called without a
\* descriptor, fails on a stale one and may fail on a live one.
Create(t) ==
  /\ At(t, "create")
  /\ \/ /\ fd[t] = "live"
        /\ device' = [device EXCEPT !.open = TRUE, !.fd = "live", !.svc = inst[t]]
        /\ Goto(t, "opened")
        /\ UNCHANGED hasDevice
     \/ /\ device' = IF fd[t] = "none" THEN device
                                       ELSE [device EXCEPT !.open = FALSE]
        /\ hasDevice' = FALSE
        /\ Goto(t, IF webViewer THEN "webonly" ELSE "close1")
  /\ UNCHANGED <<isRunning, serviceLock, stop, android, fields, inst, phase,
                 interrupted, fd, env>>

Opened(t) ==
  /\ At(t, "opened")
  /\ hasDevice' = TRUE
  /\ Goto(t, "play")
  /\ UNCHANGED <<isRunning, serviceLock, native, android, fields, inst, phase,
                 interrupted, fd, env>>

\* Run() up to device->Play().  A null device faults, starting the threads of
\* a device that already streams terminates, a dongle that is gone throws.
Play(t) ==
  /\ At(t, "play")
  /\ \/ /\ ~device.open \/ device.streaming
        /\ Crash
     \/ /\ device.open /\ ~device.streaming
        /\ IF device.fd = "live"
           THEN /\ device' = [device EXCEPT !.streaming = TRUE, !.lost = FALSE]
                /\ Goto(t, "arm")
           ELSE Goto(t, "halt") /\ UNCHANGED device
        /\ UNCHANGED <<companion, stop, android, fields, inst, phase,
                       interrupted, fd, env>>

\* stop = false, after Play()
Arm(t) ==
  /\ At(t, "arm")
  /\ stop' = FALSE
  /\ Goto(t, "loop")
  /\ UNCHANGED <<companion, device, android, fields, inst, phase, interrupted,
                 fd, env>>

\* Mutant: while (!stop), blind to a device that is gone.
LoopUntilStop(t) ==
  /\ At(t, "loop")
  /\ \/ ~device.open /\ Crash
     \/ /\ device.open
        /\ Goto(t, IF stop THEN "halt" ELSE "body")
        /\ UNCHANGED <<companion, native, android, fields, inst, phase,
                       interrupted, fd, env>>

\* while (device->isStreaming() && !stop)
Loop(t) ==
  /\ At(t, "loop")
  /\ \/ ~device.open /\ Crash
     \/ /\ device.open
        /\ Goto(t, IF IsStreaming /\ ~stop THEN "body" ELSE "halt")
        /\ UNCHANGED <<companion, native, android, fields, inst, phase,
                       interrupted, fd, env>>

\* The body of the loop, a sleep and the callbacks, returns ...
Body(t) ==
  /\ At(t, "body")
  /\ Goto(t, "loop")
  /\ UNCHANGED <<companion, native, android, fields, inst, phase, interrupted,
                 fd, env>>

\* ... unless a listener of callbackNMEA blocks on the full pipe of a client of
\* the admin web server ...
Stall(t) ==
  /\ At(t, "body")
  /\ \E s \in Services : adminWebServer[s] = "up"
  /\ Goto(t, "stuck")
  /\ UNCHANGED <<companion, native, android, fields, inst, phase, interrupted,
                 fd, env>>

\* ... where it stays until that client reads on or is gone.
Drain(t) ==
  /\ At(t, "stuck")
  /\ Goto(t, "loop")
  /\ UNCHANGED <<companion, native, android, fields, inst, phase, interrupted,
                 fd, env>>

\* device->Stop() and the teardown of the outputs
Halt(t) ==
  /\ At(t, "halt")
  /\ \/ ~device.open /\ Crash
     \/ /\ device.open
        /\ device' = [device EXCEPT !.streaming = FALSE]
        /\ Goto(t, "close1")
        /\ UNCHANGED <<companion, stop, android, fields, inst, phase,
                       interrupted, fd, env>>

\* Without a device: keep the web server up until a flag or an interrupt.
WebOnly(t) ==
  /\ At(t, "webonly")
  /\ shouldStop[inst[t]] \/ restartRequested[inst[t]] \/ interrupted[t]
  /\ Goto(t, "close1")
  /\ UNCHANGED <<companion, native, android, fields, inst, phase, interrupted,
                 fd, env>>

Close1(t) ==
  /\ At(t, "close1")
  /\ CloseNative
  /\ Goto(t, "sleep1")
  /\ UNCHANGED <<companion, stop, android, fields, inst, phase, interrupted,
                 fd, env>>

\* The last sleep(500) swallows an interrupt; then back to runServiceLoop.
Sleep1(t) ==
  /\ At(t, "sleep1")
  /\ interrupted' = [interrupted EXCEPT ![t] = FALSE]
  /\ Goto(t, CASE phase[t] = 1 -> "unlock"
               [] phase[t] = 2 -> "settle"
               [] phase[t] = 3 -> "end")
  /\ UNCHANGED <<companion, native, android, fields, inst, phase, fd, env>>

\* What a receiver thread does by itself, and what a client makes it do.
Runs(t) ==
  \/ Lock(t) \/ AdminServer(t) \/ Unlock(t) \/ Decide(t) \/ Nap(t) \/ Clear(t)
  \/ Reopen(t) \/ Settle(t) \/ KeepAlive(t) \/ Revive(t) \/ End(t)
  \/ Close0(t) \/ Sleep0(t) \/ Create(t) \/ Opened(t) \/ Play(t) \/ Arm(t)
  \/ Loop(t) \/ Body(t) \/ Halt(t) \/ WebOnly(t) \/ Close1(t) \/ Sleep1(t)

Receiver(t) == Runs(t) \/ Stall(t) \/ Drain(t)

-----------------------------------------------------------------------------
(* Admin requests, and the dongle *)

\* POST /admin/api/engine/restart: the flag now, forceStop() half a second on.
AdminRestart(s) ==
  /\ ~crashed /\ adminWebServer[s] = "up" /\ events < MaxEvents
  /\ events' = events + 1
  /\ restartRequested' = [restartRequested EXCEPT ![s] = TRUE]
  /\ forceStops' = forceStops + 1
  /\ everRestart' = TRUE
  /\ UNCHANGED <<webViewer, companion, native, android, shouldStop, fileDescriptor,
                 adminWebServer, wakeLocks, receiverThread, threads, plugged,
                 broadcasts>>

ForceStop ==
  /\ ~crashed /\ forceStops > 0
  /\ forceStops' = forceStops - 1
  /\ stop' = TRUE
  /\ UNCHANGED <<webViewer, companion, device, android, fields, threads, plugged,
                 broadcasts, events, everRestart>>

\* Mutant: the request also releases the wake lock, as the reception is over.
AdminStopReleasing(s) ==
  /\ ~crashed /\ adminWebServer[s] = "up" /\ events < MaxEvents
  /\ events' = events + 1
  /\ hasDevice' = FALSE /\ stop' = TRUE
  /\ wakeLocks' = [wakeLocks EXCEPT ![s] = IF @ > 0 THEN @ - 1 ELSE 0]
  /\ UNCHANGED <<webViewer, isRunning, serviceLock, device, android, shouldStop,
                 restartRequested, fileDescriptor, adminWebServer,
                 receiverThread, threads, plugged, broadcasts, forceStops,
                 everRestart>>

\* POST /admin/api/service/stop: stops the engine, not the service.
AdminStop(s) ==
  /\ ~crashed /\ adminWebServer[s] = "up" /\ events < MaxEvents
  /\ events' = events + 1
  /\ hasDevice' = FALSE
  /\ stop' = TRUE
  /\ UNCHANGED <<webViewer, isRunning, serviceLock, device, android, fields, threads,
                 plugged, broadcasts, forceStops, everRestart>>

Plug ==
  /\ ~crashed /\ ~plugged /\ events < MaxEvents
  /\ events' = events + 1
  /\ plugged' = TRUE
  /\ broadcasts' = Append(broadcasts, "attached")
  /\ UNCHANGED <<webViewer, companion, native, android, fields, threads, forceStops,
                 everRestart>>

Unplug ==
  /\ ~crashed /\ plugged /\ events < MaxEvents
  /\ events' = events + 1
  /\ plugged' = FALSE
  /\ broadcasts' = Append(broadcasts, "detached")
  /\ fileDescriptor' = [s \in Services |-> Staled(fileDescriptor[s])]
  /\ fd' = [t \in Threads |-> Staled(fd[t])]
  /\ device' = [device EXCEPT !.fd = Staled(@)]
  /\ UNCHANGED <<webViewer, companion, stop, android, shouldStop, restartRequested,
                 adminWebServer, wakeLocks, receiverThread, pc, inst, phase,
                 interrupted, forceStops, everRestart>>

\* The transfer thread of the driver notices that its device is gone.
DeviceLost ==
  /\ ~crashed /\ IsStreaming /\ device.fd # "live"
  /\ device' = [device EXCEPT !.lost = TRUE]
  /\ UNCHANGED <<companion, stop, android, fields, threads, env>>

Environment ==
  \/ \E s \in Services : AdminRestart(s) \/ AdminStop(s)
  \/ ForceStop \/ Plug \/ Unplug \/ DeviceLost

-----------------------------------------------------------------------------
Next ==
  \/ Main
  \/ \E t \in Threads : Receiver(t)
  \/ Environment

Spec == Init /\ [][Next]_vars

-----------------------------------------------------------------------------
CompanionType ==
  /\ isRunning \in BOOLEAN /\ hasDevice \in BOOLEAN
  /\ serviceLock \in Threads \cup {NoThread}
NativeType == stop \in BOOLEAN /\ device \in Device
AndroidType ==
  /\ svc \in 0 .. MaxServices /\ up \in BOOLEAN /\ crashed \in BOOLEAN
  /\ main \in {"idle", "starting", "joining"}
FieldsType ==
  /\ shouldStop \in [Services -> BOOLEAN]
  /\ restartRequested \in [Services -> BOOLEAN]
  /\ fileDescriptor \in [Services -> Fd]
  /\ adminWebServer \in [Services -> {"none", "up", "failed"}]
  /\ wakeLocks \in [Services -> Nat]
  /\ receiverThread \in [Services -> Threads \cup {NoThread}]
ThreadsType ==
  /\ pc \in [Threads -> Steps] /\ inst \in [Threads -> 0 .. MaxServices]
  /\ phase \in [Threads -> 1 .. 3] /\ interrupted \in [Threads -> BOOLEAN]
  /\ fd \in [Threads -> Fd]
EnvType ==
  /\ webViewer \in BOOLEAN
  /\ plugged \in BOOLEAN /\ broadcasts \in Seq({"attached", "detached"})
  /\ forceStops \in Nat /\ events \in Nat /\ everRestart \in BOOLEAN

TypeOK ==
  /\ CompanionType /\ NativeType /\ AndroidType
  /\ FieldsType /\ ThreadsType /\ EnvType

-----------------------------------------------------------------------------
(* What serviceLock does and does not give *)

EngineExclusive ==
  \A t, u \in Threads : InEngine(t) /\ InEngine(u) => t = u

\* No in-process restart was requested yet, or Android has made one instance.
Covered == ~everRestart \/ svc <= 1

\* Two receiver threads, of whatever instances, drive the native engine at once
\* only after both an in-process restart, which runs the engine outside
\* serviceLock, and a second instance of the service (runServiceLoop).
ExclusiveIfCovered == Covered => EngineExclusive

InRun(t) == pc[t] \in {"play", "arm", "halt"} \/ InLoop(t)

\* Under the same condition Run() never works on a device pointer another
\* thread has cleared and never plays a device that already streams: the code
\* of Run() checks neither.
RunHasDevice ==
  Covered => /\ \A t \in Threads : InRun(t) => device.open
             /\ \A t \in Threads : pc[t] = "play" => ~device.streaming

\* The first instance never has two receiver threads: onStartCommand tells by
\* the shared isRunning, which the thread clears only as it ends.
OneReceiver ==
  svc <= 1 => \A t, u \in Threads : Alive(t) /\ Alive(u) => t = u

\* The phone is kept awake while the receiver thread of the live service runs
\* (acquireWakeLock at every start, releaseWakeLock in onDestroy).
AwakeWhileReceiving ==
  \A t \in Threads : up /\ inst[t] = svc /\ Alive(t) => wakeLocks[svc] > 0

-----------------------------------------------------------------------------
(* What a comment in the source says, and the code does not do *)

\* "Single lock to prevent concurrent native execution across service restarts"
SingleNativeExecution == EngineExclusive

\* "No timeout -- released explicitly in onDestroy", of the wake lock: a start
\* that finds its receiver thread ended overwrites the handle of the lock it
\* acquired before, and onDestroy releases one lock.
WakeLockReleased == main = "idle" /\ ~up /\ svc # 0 => wakeLocks[svc] = 0

-----------------------------------------------------------------------------
(* Fairness: the threads of the process keep running.  Nothing makes a client*)
(* read its pipe, so a blocked callback is not assumed to return.           *)

FairSpec ==
  /\ Spec
  /\ \A t \in Threads : WF_vars(Runs(t))
  /\ WF_vars(StartFinish \/ DestroyFinish \/ Receive)
  /\ WF_vars(ForceStop)
  /\ WF_vars(DeviceLost)

\* An engine in its receive loop ends when its dongle is gone or when it is
\* told to stop (the loop of Run()), unless a callback never returns.
EngineEnds ==
  \A t \in Threads :
     []<>(pc[t] # "stuck")
       => ((InLoop(t) /\ (stop \/ ~plugged)) ~> (~InLoop(t) \/ crashed))

=============================================================================

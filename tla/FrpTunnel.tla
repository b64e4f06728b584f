----------------------------- MODULE FrpTunnel -----------------------------
(***************************************************************************)
(* The remote access tunnel of a service instance: FrpTunnelManager.kt, and*)
(* the calls of AisReceiverService.kt that start, stop and restart it.     *)
(*                                                                         *)
(* Calls come from the main thread (onStartCommand, onDestroy) and from    *)
(* threads of the admin web server (a saved configuration, frp/restart);   *)
(* nothing serialises them.  An accepted start returns at once: a thread   *)
(* of its own launches the frpc process and follows it to its end.         *)
(***************************************************************************)
EXTENDS Naturals

CONSTANT MaxCalls   \* bound: calls that start, stop or restart the tunnel

ASSUME MaxCallsIsNat == MaxCalls \in Nat

\* A call makes at most one manager, one thread and one process, and all of
\* them go by the number of the call.
Calls == 1 .. MaxCalls
None  == 0

VARIABLES
  \* field of the service
  frpTunnelManager,
  \* fields of each manager
  isRunning, frpProcess,
  \* calls: what they do, whether remote access is wanted, their next step, the
  \* manager they work on
  kind, wanted, step, manager,
  \* the thread each accepted start launches: its next step, the process it
  \* follows
  thread, watched,
  \* the frpc process of each thread, and those with a thread that will kill them
  proc, killer,
  \* history: managers whose last accepted start made no thread; whether a stop
  \* came before the process was there, and a start before older ones were over
  failed, early, late

managers  == <<isRunning, frpProcess>>
calls     == <<kind, wanted, step, manager>>
threads   == <<thread, watched>>
processes == <<proc, killer>>
history   == <<failed, early, late>>
vars == <<frpTunnelManager, managers, calls, threads, processes, history>>

Kinds == {"manage", "restart", "destroy"}
Steps == {"idle", "stop", "destroy", "forget", "see", "make", "decide", "begin",
          "prepare", "drop", "done"}
ThreadSteps == {"none", "launch", "set", "open", "read", "wait", "join", "finally", "ended"}

\* Between its launch and its end a process is up, and killed once somebody has
\* asked it to end.
Procs == {"none", "up", "killed", "dead"}

Busy == \E c \in Calls : step[c] \notin {"idle", "done"}
\* An accepted start that has not set its process yet, or whose thread lives.
Pending(c)  == step[c] = "prepare" \/ thread[c] \in {"launch", "set"}
Underway(c) == step[c] = "prepare" \/ thread[c] \notin {"none", "ended"}
\* A stop that has cleared the flag and is still at work.
Stopping(c) == step[c] \in {"destroy", "forget"}

Init ==
  /\ frpTunnelManager = None
  /\ isRunning = [m \in Calls |-> FALSE] /\ frpProcess = [m \in Calls |-> None]
  /\ kind = [c \in Calls |-> "manage"] /\ wanted = [c \in Calls |-> FALSE]
  /\ step = [c \in Calls |-> "idle"] /\ manager = [c \in Calls |-> None]
  /\ thread = [c \in Calls |-> "none"] /\ watched = [c \in Calls |-> None]
  /\ proc = [c \in Calls |-> "none"] /\ killer = {}
  /\ failed = {} /\ early = FALSE /\ late = FALSE

Goto(c, s) == step' = [step EXCEPT ![c] = s]
Move(c, s) == thread' = [thread EXCEPT ![c] = s]

-----------------------------------------------------------------------------
(* Calls *)

\* The preferences are read first, for a restart before it stops the tunnel.  The
\* service is destroyed once; requests of the admin server may still come after it.
Call(c, k, w) ==
  /\ step[c] = "idle" /\ \A d \in Calls : d < c => step[d] # "idle"
  /\ k = "destroy" => \A d \in Calls : kind[d] # "destroy"
  /\ kind' = [kind EXCEPT ![c] = k]
  /\ wanted' = [wanted EXCEPT ![c] = w /\ k # "destroy"]
  /\ Goto(c, IF k = "manage" THEN "see" ELSE "stop")
  /\ UNCHANGED <<frpTunnelManager, managers, manager, threads, processes, history>>

\* What follows stopTunnel in its caller.
AfterStop(c) == CASE kind[c] = "manage"  -> "done"
                  [] kind[c] = "restart" -> "see"
                  [] kind[c] = "destroy" -> "drop"

\* frpTunnelManager = null
Drop(c) ==
  /\ step[c] = "drop"
  /\ frpTunnelManager' = None
  /\ Goto(c, "done")
  /\ UNCHANGED <<managers, kind, wanted, manager, threads, processes, history>>

-----------------------------------------------------------------------------
(* stopTunnel *)

\* compareAndSet(true, false): nothing to do unless the flag is set.
Stop(c) ==
  LET m == frpTunnelManager IN
  /\ step[c] = "stop"
  /\ IF m # None /\ isRunning[m]
     THEN /\ isRunning' = [isRunning EXCEPT ![m] = FALSE]
          /\ manager' = [manager EXCEPT ![c] = m]
          /\ Goto(c, "destroy")
          /\ failed' = failed \ {m}
          /\ early' = (early \/ \E d \in Calls : manager[d] = m /\ Pending(d))
     ELSE Goto(c, AfterStop(c)) /\ UNCHANGED <<isRunning, manager, failed, early>>
  /\ UNCHANGED <<frpTunnelManager, frpProcess, kind, wanted, threads, processes, late>>

\* Mutant: a process that does not end when asked is left alone.
DestroyPolitely(c) ==
  LET p == frpProcess[manager[c]] IN
  /\ step[c] = "destroy"
  /\ proc' = IF p # None THEN [proc EXCEPT ![p] = IF @ = "up" THEN "killed" ELSE @] ELSE proc
  /\ Goto(c, "forget")
  /\ UNCHANGED <<frpTunnelManager, managers, kind, wanted, manager, threads, killer, history>>

\* frpProcess?.let: destroy(), and a thread that kills the process if it lives on.
Destroy(c) ==
  LET p == frpProcess[manager[c]] IN
  /\ step[c] = "destroy"
  /\ IF p # None
     THEN /\ proc' = [proc EXCEPT ![p] = IF @ = "up" THEN "killed" ELSE @]
          /\ killer' = killer \cup {p}
     ELSE UNCHANGED processes
  /\ Goto(c, "forget")
  /\ UNCHANGED <<frpTunnelManager, managers, kind, wanted, manager, threads, history>>

Forget(c) ==
  /\ step[c] = "forget"
  /\ frpProcess' = [frpProcess EXCEPT ![manager[c]] = None]
  /\ manager' = [manager EXCEPT ![c] = None]
  /\ Goto(c, AfterStop(c))
  /\ UNCHANGED <<frpTunnelManager, isRunning, kind, wanted, threads, processes, history>>

-----------------------------------------------------------------------------
(* manageFrpTunnel and startTunnel *)

\* From here on a restart is a call of manageFrpTunnel like any other.
See(c) ==
  /\ step[c] = "see"
  /\ kind' = [kind EXCEPT ![c] = "manage"]
  /\ Goto(c, IF frpTunnelManager = None THEN "make" ELSE "decide")
  /\ UNCHANGED <<frpTunnelManager, managers, wanted, manager, threads,
                 processes, history>>

Make(c) ==
  /\ step[c] = "make"
  /\ frpTunnelManager' = c
  /\ Goto(c, "decide")
  /\ UNCHANGED <<managers, kind, wanted, manager, threads, processes, history>>

\* isRunning() tells whether there is something to start or to stop; without
\* credentials nothing is started.
Decide(c) ==
  LET running == frpTunnelManager # None /\ isRunning[frpTunnelManager] IN
  /\ step[c] = "decide"
  /\ \/ wanted[c] /\ Goto(c, "done")
     \/ wanted[c] /\ ~running /\ Goto(c, "begin")
     \/ ~wanted[c] /\ Goto(c, IF running THEN "stop" ELSE "done")
  /\ UNCHANGED <<frpTunnelManager, managers, kind, wanted, manager, threads,
                 processes, history>>

\* Mutant: the flag is set without a look at what it was.
BeginUnchecked(c) ==
  LET m == frpTunnelManager IN
  /\ step[c] = "begin"
  /\ IF m # None
     THEN /\ isRunning' = [isRunning EXCEPT ![m] = TRUE]
          /\ manager' = [manager EXCEPT ![c] = m]
          /\ Goto(c, "prepare")
          /\ late' = (late \/ (~isRunning[m] /\ \E d \in Calls : Underway(d) \/ Stopping(d)))
     ELSE Goto(c, "done") /\ UNCHANGED <<isRunning, manager, late>>
  /\ UNCHANGED <<frpTunnelManager, frpProcess, kind, wanted, threads, processes,
                 failed, early>>

\* compareAndSet(false, true): already running counts as started.
Begin(c) ==
  LET m == frpTunnelManager IN
  /\ step[c] = "begin"
  /\ IF m # None /\ ~isRunning[m]
     THEN /\ isRunning' = [isRunning EXCEPT ![m] = TRUE]
          /\ manager' = [manager EXCEPT ![c] = m]
          /\ Goto(c, "prepare")
          /\ late' = (late \/ \E d \in Calls : Underway(d) \/ Stopping(d))
     ELSE Goto(c, "done") /\ UNCHANGED <<isRunning, manager, late>>
  /\ UNCHANGED <<frpTunnelManager, frpProcess, kind, wanted, threads, processes,
                 failed, early>>

\* Without a binary or a configuration the start has failed, and the flag stays
\* set; it is reset when the thread cannot be made.
Prepare(c) ==
  /\ step[c] = "prepare"
  /\ \/ failed' = failed \cup {manager[c]} /\ UNCHANGED <<isRunning, thread>>
     \/ /\ isRunning' = [isRunning EXCEPT ![manager[c]] = FALSE]
        /\ UNCHANGED <<failed, thread>>
     \/ Move(c, "launch") /\ UNCHANGED <<failed, isRunning>>
  /\ Goto(c, "done")
  /\ UNCHANGED <<frpTunnelManager, frpProcess, kind, wanted, manager, watched,
                 processes, early, late>>

Caller(c) == Stop(c) \/ Destroy(c) \/ Forget(c) \/ See(c) \/ Make(c)
             \/ Decide(c) \/ Begin(c) \/ Prepare(c) \/ Drop(c)

-----------------------------------------------------------------------------
(* The thread of a start *)

\* ProcessBuilder.start, which throws when the binary cannot be executed
Launch(c) ==
  /\ thread[c] = "launch"
  /\ \/ proc' = [proc EXCEPT ![c] = "up"] /\ Move(c, "set")
     \/ Move(c, "finally") /\ UNCHANGED proc
  /\ UNCHANGED <<frpTunnelManager, managers, calls, watched, killer, history>>

Set(c) ==
  /\ thread[c] = "set"
  /\ frpProcess' = [frpProcess EXCEPT ![manager[c]] = c]
  /\ Move(c, "open")
  /\ UNCHANGED <<frpTunnelManager, isRunning, calls, watched, processes, history>>

\* Mutant: the thread does not follow its process.
OpenNothing(c) ==
  /\ thread[c] = "open"
  /\ Move(c, "finally")
  /\ UNCHANGED <<frpTunnelManager, managers, calls, watched, processes, history>>

\* frpProcess?.inputStream: the process the field names by now, if any.
Open(c) ==
  LET p == frpProcess[manager[c]] IN
  /\ thread[c] = "open"
  /\ watched' = [watched EXCEPT ![c] = p]
  /\ Move(c, IF p = None THEN "wait" ELSE "read")
  /\ UNCHANGED <<frpTunnelManager, managers, calls, processes, history>>

\* Its output ends with the process; destroy() closes the stream, and the read
\* may throw.
Read(c) ==
  /\ thread[c] = "read"
  /\ \/ proc[watched[c]] = "dead" /\ Move(c, "wait")
     \/ watched[c] \in killer /\ Move(c, "finally")
  /\ UNCHANGED <<frpTunnelManager, managers, calls, watched, processes, history>>

\* frpProcess?.waitFor(): the process the field names by now, if any.
Wait(c) ==
  LET p == frpProcess[manager[c]] IN
  /\ thread[c] = "wait"
  /\ watched' = [watched EXCEPT ![c] = p]
  /\ Move(c, IF p = None THEN "finally" ELSE "join")
  /\ UNCHANGED <<frpTunnelManager, managers, calls, processes, history>>

Join(c) ==
  /\ thread[c] = "join" /\ proc[watched[c]] = "dead"
  /\ Move(c, "finally")
  /\ UNCHANGED <<frpTunnelManager, managers, calls, watched, processes, history>>

\* Mutant: the thread ends and leaves the flag set.
FinallyKeeping(c) ==
  /\ thread[c] = "finally"
  /\ Move(c, "ended")
  /\ UNCHANGED <<frpTunnelManager, managers, calls, watched, processes, history>>

\* isRunning.set(false), whosever flag it is by now
Finally(c) ==
  /\ thread[c] = "finally"
  /\ isRunning' = [isRunning EXCEPT ![manager[c]] = FALSE]
  /\ Move(c, "ended")
  /\ UNCHANGED <<frpTunnelManager, frpProcess, calls, watched, processes, history>>

Thread(c) == Launch(c) \/ Set(c) \/ Open(c) \/ Read(c) \/ Wait(c) \/ Join(c) \/ Finally(c)

-----------------------------------------------------------------------------
(* Processes *)

\* frpc ends, of itself or because it was asked to.
Exit(p) ==
  /\ proc[p] \in {"up", "killed"}
  /\ proc' = [proc EXCEPT ![p] = "dead"]
  /\ UNCHANGED <<frpTunnelManager, managers, calls, threads, killer, history>>

\* destroyForcibly, three seconds after destroy()
Kill(p) ==
  /\ p \in killer /\ proc[p] = "killed"
  /\ proc' = [proc EXCEPT ![p] = "dead"]
  /\ UNCHANGED <<frpTunnelManager, managers, calls, threads, killer, history>>

-----------------------------------------------------------------------------
Next ==
  \/ \E c \in Calls, k \in Kinds, w \in BOOLEAN : Call(c, k, w)
  \/ \E c \in Calls : Caller(c) \/ Thread(c) \/ Exit(c) \/ Kill(c)

Spec == Init /\ [][Next]_vars

\* Threads run on; a process ends of itself or not.
FairSpec ==
  /\ Spec
  /\ \A c \in Calls : WF_vars(Caller(c)) /\ WF_vars(Thread(c)) /\ WF_vars(Kill(c))

ManagersType ==
  /\ frpTunnelManager \in Calls \cup {None}
  /\ isRunning \in [Calls -> BOOLEAN] /\ frpProcess \in [Calls -> Calls \cup {None}]
CallsType ==
  /\ kind \in [Calls -> Kinds] /\ wanted \in [Calls -> BOOLEAN]
  /\ step \in [Calls -> Steps] /\ manager \in [Calls -> Calls \cup {None}]
ThreadsType ==
  /\ thread \in [Calls -> ThreadSteps] /\ watched \in [Calls -> Calls \cup {None}]
  /\ \A c \in Calls : thread[c] \in {"read", "join"} => watched[c] # None
ProcessesType == proc \in [Calls -> Procs] /\ killer \subseteq Calls
HistoryType == failed \subseteq Calls /\ early \in BOOLEAN /\ late \in BOOLEAN

TypeOK == ManagersType /\ CallsType /\ ThreadsType /\ ProcessesType /\ HistoryType

-----------------------------------------------------------------------------
\* No stop was accepted before the process it should stop was there, and no
\* start before the thread of an older one and all stops had ended.
Calm == ~early /\ ~late

\* Then at most one frpc is up that nobody has asked to end, however calls
\* overlap (compareAndSet in startTunnel).
OneProcess ==
  Calm => \A p, q \in Calls : proc[p] = "up" /\ proc[q] = "up" => p = q

\* Then a set flag means a start that is under way or a thread that follows its
\* process, unless the start failed before it made one (startTunnel).
FlagHonest ==
  Calm => \A m \in Calls : isRunning[m] =>
            m \in failed \/ \E c \in Calls : manager[c] = m /\ Underway(c)

\* Then a process that is up can be stopped: its manager names it and has its
\* flag set, or stopTunnel is about to end it (stopTunnel, the finally clause).
Stoppable ==
  Calm => \A p \in Calls :
    proc[p] = "up" /\ ~Pending(p) =>
      /\ frpProcess[manager[p]] = p
      /\ isRunning[manager[p]] \/ \E c \in Calls : step[c] = "destroy" /\ manager[c] = manager[p]

\* A process that was asked to end is dead within some seconds, and its thread
\* ends, unless a race has given it another process to follow.
DestroyedEnds ==
  \A p \in Calls :
    proc[p] = "killed" ~> (proc[p] = "dead" /\ (thread[p] = "ended" \/ ~Calm))
=============================================================================

----------------------------- MODULE FrpProofs -----------------------------
(***************************************************************************)
(* Safety of FrpTunnel, proved for any number of calls.                    *)
(***************************************************************************)
EXTENDS FrpTunnel, TLAPS

-----------------------------------------------------------------------------
(* The inductive invariant *)

\* What holds whatever races: a thread comes after its call, a process after its
\* thread, and whoever works on a manager has one.
Basic ==
  /\ \A c \in Calls : /\ step[c] # "done" => thread[c] = "none"
                      /\ Stopping(c) \/ step[c] = "prepare" \/ thread[c] # "none"
                           => manager[c] # None
                      /\ thread[c] \in {"none", "launch"} => proc[c] = "none"
                      /\ thread[c] = "set" => proc[c] # "none"
                      /\ c \in killer => proc[c] \in {"killed", "dead"}
  /\ \A m \in Calls : frpProcess[m] # None => proc[frpProcess[m]] # "none"

\* One start at a time is under way, and a stop at work finds none pending.
OneStart ==
  /\ \A c, d \in Calls : Underway(c) /\ Underway(d) => c = d
  /\ \A c, d \in Calls : Stopping(c) /\ Pending(d) => manager[c] # manager[d]

\* The thread of a process that is up follows it, and its manager names it.
Followed ==
  \A p \in Calls : proc[p] = "up" =>
    /\ thread[p] \in {"set", "open", "read"}
    /\ thread[p] # "set" => frpProcess[manager[p]] = p
    /\ thread[p] = "read" => watched[p] = p
    /\ \A c \in Calls : step[c] = "forget" => manager[c] # manager[p]

\* The flag is set while a start is pending and until a stop comes for it.
Flagged ==
  \A p \in Calls :
    /\ Pending(p) => isRunning[manager[p]]
    /\ proc[p] = "up" =>
         isRunning[manager[p]] \/ \E c \in Calls : step[c] = "destroy" /\ manager[c] = manager[p]

Followable == OneStart /\ Followed /\ Flagged /\ FlagHonest

IInv == TypeOK /\ Basic /\ (Calm => Followable)

\* A caller goes on to one of three steps after a stop.
LEMMA AfterStopIsStep ==
  ASSUME TypeOK, NEW c \in Calls PROVE AfterStop(c) \in {"done", "see", "drop"}
<1>1. kind[c] = "manage" \/ kind[c] = "restart" \/ kind[c] = "destroy"
  BY DEF TypeOK, CallsType, Kinds
<1>2. QED
  BY <1>1 DEF AfterStop

\* Setting one flag keeps the flags well typed.
LEMMA FlagSet ==
  ASSUME NEW f \in [Calls -> BOOLEAN], NEW m, NEW b \in BOOLEAN
  PROVE  [f EXCEPT ![m] = b] \in [Calls -> BOOLEAN]
OBVIOUS

\* Every step keeps the state well typed.
LEMMA TypeStep ==
  ASSUME TypeOK, Basic, Next PROVE TypeOK'
<1> USE DEF TypeOK, ManagersType, CallsType, ThreadsType, ProcessesType, HistoryType, Kinds, Steps,
           ThreadSteps, Procs, Basic, Stopping, Goto, Move,
           managers, calls, threads, processes, history
<1>0. None \notin Calls BY DEF Calls, None
<1>1. ASSUME NEW c \in Calls, NEW k \in Kinds, NEW w \in BOOLEAN, Call(c, k, w)
      PROVE  TypeOK'
  BY <1>0, <1>1 DEF Call
<1>2. ASSUME NEW c \in Calls, Stop(c) PROVE TypeOK'
  <2>1. AfterStop(c) \in {"done", "see", "drop"} BY AfterStopIsStep
  <2>2. ManagersType'
    <3>1. UNCHANGED <<frpTunnelManager, frpProcess>> BY <1>2 DEF Stop
    <3>2. \/ isRunning' = [isRunning EXCEPT ![frpTunnelManager] = FALSE]
          \/ UNCHANGED isRunning
      BY <1>2 DEF Stop
    <3>3. [isRunning EXCEPT ![frpTunnelManager] = FALSE] \in [Calls -> BOOLEAN] BY FlagSet
    <3>4. isRunning' \in [Calls -> BOOLEAN] BY <3>2, <3>3, ZenonT(60)
    <3>5. QED BY <3>1, <3>4
  <2>3. CallsType' BY <1>0, <2>1, <1>2, SMTT(60) DEF Stop, Goto, processes
  <2>4. ThreadsType' /\ ProcessesType' BY <1>2 DEF Stop, threads, processes
  <2>5. early' \in BOOLEAN BY <1>2 DEF Stop, Pending
  <2>6. HistoryType' BY <2>5, <1>2 DEF Stop
  <2>7. QED BY <2>2, <2>3, <2>4, <2>6
<1>3. ASSUME NEW c \in Calls, Destroy(c) PROVE TypeOK'
  BY <1>0, <1>3 DEF Destroy
<1>4. ASSUME NEW c \in Calls, Forget(c) PROVE TypeOK'
  BY <1>0, <1>4, AfterStopIsStep DEF Forget
<1>5. ASSUME NEW c \in Calls, See(c) PROVE TypeOK'
  BY <1>0, <1>5 DEF See
<1>6. ASSUME NEW c \in Calls, Make(c) PROVE TypeOK'
  BY <1>0, <1>6 DEF Make
<1>7. ASSUME NEW c \in Calls, Decide(c) PROVE TypeOK'
  BY <1>0, <1>7 DEF Decide
<1>8. ASSUME NEW c \in Calls, Begin(c) PROVE TypeOK'
  <2>1. ManagersType'
    <3>1. UNCHANGED <<frpTunnelManager, frpProcess>> BY <1>8 DEF Begin
    <3>2. \/ isRunning' = [isRunning EXCEPT ![frpTunnelManager] = TRUE]
          \/ UNCHANGED isRunning
      BY <1>8 DEF Begin
    <3>3. [isRunning EXCEPT ![frpTunnelManager] = TRUE] \in [Calls -> BOOLEAN] BY FlagSet
    <3>4. isRunning' \in [Calls -> BOOLEAN] BY <3>2, <3>3, ZenonT(60)
    <3>5. QED BY <3>1, <3>4
  <2>2. CallsType' BY <1>0, <1>8 DEF Begin, Goto, processes
  <2>3. ThreadsType' /\ ProcessesType' BY <1>8 DEF Begin, threads, processes
  <2>4. late' \in BOOLEAN BY <1>8, Zenon DEF Begin, Underway, Stopping
  <2>5. HistoryType' BY <2>4, <1>8 DEF Begin
  <2>6. QED BY <2>1, <2>2, <2>3, <2>5
<1>9. ASSUME NEW c \in Calls, Prepare(c) PROVE TypeOK'
  <2>1. manager[c] \in Calls BY <1>0, <1>9 DEF Prepare, Basic
  <2>2. ManagersType' /\ CallsType' BY <2>1, <1>9, ZenonT(60) DEF Prepare, Goto, Move
  <2>3. ThreadsType' BY <1>9 DEF Prepare, Move
  <2>4. ProcessesType' /\ HistoryType' BY <2>1, <1>9 DEF Prepare, processes
  <2>5. QED BY <2>2, <2>3, <2>4
<1>10. ASSUME NEW c \in Calls, Drop(c) PROVE TypeOK'
  BY <1>0, <1>10 DEF Drop
<1>11. ASSUME NEW c \in Calls, Launch(c) PROVE TypeOK'
  BY <1>0, <1>11, SMTT(60) DEF Launch
<1>12. ASSUME NEW c \in Calls, Set(c) PROVE TypeOK'
  BY <1>0, <1>12 DEF Set
<1>13. ASSUME NEW c \in Calls, Open(c) PROVE TypeOK'
  BY <1>0, <1>13 DEF Open
<1>14. ASSUME NEW c \in Calls, Read(c) PROVE TypeOK'
  BY <1>0, <1>14 DEF Read
<1>15. ASSUME NEW c \in Calls, Wait(c) PROVE TypeOK'
  BY <1>0, <1>15 DEF Wait
<1>16. ASSUME NEW c \in Calls, Join(c) PROVE TypeOK'
  BY <1>0, <1>16 DEF Join
<1>17. ASSUME NEW c \in Calls, Finally(c) PROVE TypeOK'
  BY <1>0, <1>17 DEF Finally
<1>18. ASSUME NEW c \in Calls, Exit(c) PROVE TypeOK'
  BY <1>0, <1>18 DEF Exit
<1>19. ASSUME NEW c \in Calls, Kill(c) PROVE TypeOK'
  BY <1>0, <1>19 DEF Kill
<1>20. ASSUME NEW c \in Calls, Caller(c) PROVE TypeOK'
  BY <1>2, <1>3, <1>4, <1>5, <1>6, <1>7, <1>8, <1>9, <1>10, <1>20, Zenon DEF Caller
<1>21. ASSUME NEW c \in Calls, Thread(c) PROVE TypeOK'
  BY <1>11, <1>12, <1>13, <1>14, <1>15, <1>16, <1>17, <1>21, Zenon DEF Thread
<1>22. QED
  BY <1>1, <1>18, <1>19, <1>20, <1>21 DEF Next

\* Every step keeps threads after their calls and processes after their threads.
LEMMA BasicStep ==
  ASSUME TypeOK, Basic, Next PROVE Basic'
<1> USE DEF Basic, Stopping, Goto, Move,
           managers, calls, threads, processes, history
<1>0. /\ None \notin Calls /\ step \in [Calls -> Steps] /\ manager \in [Calls -> Calls \cup {None}]
      /\ thread \in [Calls -> ThreadSteps] /\ proc \in [Calls -> Procs] /\ killer \subseteq Calls
      /\ frpTunnelManager \in Calls \cup {None} /\ frpProcess \in [Calls -> Calls \cup {None}]
      /\ \A c \in Calls : AfterStop(c) \in {"done", "see", "drop"}
  BY DEF TypeOK, ManagersType, CallsType, ThreadsType, ProcessesType, Kinds,
         AfterStop, Calls, None
<1>1. ASSUME NEW c \in Calls, NEW k \in Kinds, NEW w \in BOOLEAN, Call(c, k, w)
      PROVE  Basic'
  BY <1>0, <1>1 DEF Call
<1>2. ASSUME NEW c \in Calls, Stop(c) PROVE Basic'
  BY <1>0, <1>2 DEF Stop
<1>3. ASSUME NEW c \in Calls, Destroy(c) PROVE Basic'
  <2>1. /\ manager[c] \in Calls /\ UNCHANGED <<thread, manager, frpProcess>>
        /\ step' = [step EXCEPT ![c] = "forget"]
    BY <1>0, <1>3 DEF Destroy, managers, threads, Goto
  <2>2. CASE frpProcess[manager[c]] = None
    BY <1>0, <1>3, <2>1, <2>2 DEF Destroy, processes
  <2>3. CASE frpProcess[manager[c]] # None
    <3>1. PICK p \in Calls : p = frpProcess[manager[c]] /\ proc[p] # "none"
      BY <1>0, <2>1, <2>3
    <3>2. proc[p] \in {"up", "killed", "dead"}
      BY <1>0, <3>1 DEF Procs
    <3>3. /\ proc' = [proc EXCEPT ![p] = IF proc[p] = "up" THEN "killed" ELSE proc[p]]
          /\ killer' = killer \cup {p}
      BY <1>3, <2>3, <3>1 DEF Destroy
    <3>4. /\ \A q \in Calls : q # p => proc'[q] = proc[q]
          /\ proc'[p] \in {"killed", "dead"}
      BY <1>0, <3>2, <3>3
    <3>5. \A m \in Calls : frpProcess'[m] # None => proc'[frpProcess'[m]] # "none"
      BY <1>0, <2>1, <3>4
    <3>6. \A d \in Calls : /\ step'[d] # "done" => thread'[d] = "none"
                           /\ thread'[d] \in {"none", "launch"} => proc'[d] = "none"
                           /\ thread'[d] = "set" => proc'[d] # "none"
                           /\ d \in killer' => proc'[d] \in {"killed", "dead"}
      BY <1>0, <1>3, <2>1, <3>1, <3>2, <3>3, <3>4 DEF Destroy
    <3>7. QED BY <1>0, <1>3, <2>1, <3>5, <3>6 DEF Destroy
  <2>4. QED BY <2>2, <2>3
<1>4. ASSUME NEW c \in Calls, Forget(c) PROVE Basic'
  BY <1>0, <1>4 DEF Forget
<1>5. ASSUME NEW c \in Calls, See(c) PROVE Basic'
  BY <1>0, <1>5 DEF See
<1>6. ASSUME NEW c \in Calls, Make(c) PROVE Basic'
  BY <1>0, <1>6 DEF Make
<1>7. ASSUME NEW c \in Calls, Decide(c) PROVE Basic'
  BY <1>0, <1>7 DEF Decide
<1>8. ASSUME NEW c \in Calls, Begin(c) PROVE Basic'
  BY <1>0, <1>8 DEF Begin
<1>9. ASSUME NEW c \in Calls, Prepare(c) PROVE Basic'
  BY <1>0, <1>9 DEF Prepare
<1>10. ASSUME NEW c \in Calls, Drop(c) PROVE Basic'
  BY <1>0, <1>10 DEF Drop
<1>11. ASSUME NEW c \in Calls, Launch(c) PROVE Basic'
  BY <1>0, <1>11 DEF Launch
<1>12. ASSUME NEW c \in Calls, Set(c) PROVE Basic'
  BY <1>0, <1>12 DEF Set
<1>13. ASSUME NEW c \in Calls, Open(c) PROVE Basic'
  BY <1>0, <1>13 DEF Open
<1>14. ASSUME NEW c \in Calls, Read(c) PROVE Basic'
  BY <1>0, <1>14 DEF Read
<1>15. ASSUME NEW c \in Calls, Wait(c) PROVE Basic'
  BY <1>0, <1>15 DEF Wait
<1>16. ASSUME NEW c \in Calls, Join(c) PROVE Basic'
  BY <1>0, <1>16 DEF Join
<1>17. ASSUME NEW c \in Calls, Finally(c) PROVE Basic'
  BY <1>0, <1>17 DEF Finally
<1>18. ASSUME NEW c \in Calls, Exit(c) PROVE Basic'
  BY <1>0, <1>18 DEF Exit
<1>19. ASSUME NEW c \in Calls, Kill(c) PROVE Basic'
  BY <1>0, <1>19 DEF Kill
<1>20. ASSUME NEW c \in Calls, Caller(c) PROVE Basic'
  BY <1>2, <1>3, <1>4, <1>5, <1>6, <1>7, <1>8, <1>9, <1>10, <1>20, Zenon DEF Caller
<1>21. ASSUME NEW c \in Calls, Thread(c) PROVE Basic'
  BY <1>11, <1>12, <1>13, <1>14, <1>15, <1>16, <1>17, <1>21, Zenon DEF Thread
<1>22. QED
  BY <1>1, <1>18, <1>19, <1>20, <1>21 DEF Next

\* Without a race the thread of each start goes on following its process, and the
\* flag its thread.
LEMMA FollowableStep ==
  ASSUME TypeOK, Basic, Calm, Calm', Followable, Next PROVE Followable'
<1> USE DEF Basic, Calm, Followable, OneStart, Followed, Flagged, FlagHonest,
           Stopping, Pending, Underway, Goto, Move,
           managers, calls, threads, processes, history
<1>0. /\ None \notin Calls /\ step \in [Calls -> Steps] /\ manager \in [Calls -> Calls \cup {None}]
      /\ thread \in [Calls -> ThreadSteps] /\ proc \in [Calls -> Procs] /\ killer \subseteq Calls
      /\ frpTunnelManager \in Calls \cup {None} /\ frpProcess \in [Calls -> Calls \cup {None}]
      /\ watched \in [Calls -> Calls \cup {None}] /\ isRunning \in [Calls -> BOOLEAN]
      /\ \A c \in Calls : AfterStop(c) \in {"done", "see", "drop"}
  BY DEF TypeOK, ManagersType, CallsType, ThreadsType, ProcessesType, Kinds,
         AfterStop, Calls, None
<1>1. ASSUME NEW c \in Calls, NEW k \in Kinds, NEW w \in BOOLEAN, Call(c, k, w)
      PROVE  Followable'
  BY <1>0, <1>1 DEF Call
<1>2. ASSUME NEW c \in Calls, Stop(c) PROVE Followable'
  <2>1. OneStart' BY <1>0, <1>2 DEF Stop
  <2>2. Followed' BY <1>0, <1>2 DEF Stop
  <2>3. Flagged' BY <1>0, <1>2, SMTT(60) DEF Stop
  <2>4. FlagHonest' BY <1>0, <1>2 DEF Stop
  <2>5. QED BY <2>1, <2>2, <2>3, <2>4
<1>3. ASSUME NEW c \in Calls, Destroy(c) PROVE Followable'
  BY <1>0, <1>3 DEF Destroy
<1>4. ASSUME NEW c \in Calls, Forget(c) PROVE Followable'
  BY <1>0, <1>4 DEF Forget
<1>5. ASSUME NEW c \in Calls, See(c) PROVE Followable'
  BY <1>0, <1>5 DEF See
<1>6. ASSUME NEW c \in Calls, Make(c) PROVE Followable'
  BY <1>0, <1>6 DEF Make
<1>7. ASSUME NEW c \in Calls, Decide(c) PROVE Followable'
  BY <1>0, <1>7 DEF Decide
<1>8. ASSUME NEW c \in Calls, Begin(c) PROVE Followable'
  <2>1. OneStart'
    <3>1. CASE frpTunnelManager # None /\ ~isRunning[frpTunnelManager]
      <4>1. /\ \A d \in Calls : ~Underway(d) /\ ~Stopping(d)
            /\ step' = [step EXCEPT ![c] = "prepare"] /\ UNCHANGED thread
        BY <1>8, <3>1, Zenon DEF Begin, Goto, threads
      <4>2. \A d \in Calls : ~Stopping(d)' /\ (Underway(d)' => d = c)
        BY <1>0, <4>1
      <4>3. QED BY <4>2
    <3>2. CASE ~(frpTunnelManager # None /\ ~isRunning[frpTunnelManager])
      BY <1>0, <1>8, <3>2 DEF Begin, Goto, threads
    <3>3. QED BY <3>1, <3>2
  <2>2. Followed' BY <1>0, <1>8 DEF Begin
  <2>3. Flagged' BY <1>0, <1>8, SMTT(60) DEF Begin
  <2>4. FlagHonest' BY <1>0, <1>8 DEF Begin
  <2>5. QED BY <2>1, <2>2, <2>3, <2>4
<1>9. ASSUME NEW c \in Calls, Prepare(c) PROVE Followable'
  BY <1>0, <1>9 DEF Prepare
<1>10. ASSUME NEW c \in Calls, Drop(c) PROVE Followable'
  BY <1>0, <1>10 DEF Drop
<1>11. ASSUME NEW c \in Calls, Launch(c) PROVE Followable'
  BY <1>0, <1>11 DEF Launch
<1>12. ASSUME NEW c \in Calls, Set(c) PROVE Followable'
  BY <1>0, <1>12 DEF Set
<1>13. ASSUME NEW c \in Calls, Open(c) PROVE Followable'
  BY <1>0, <1>13 DEF Open
<1>14. ASSUME NEW c \in Calls, Read(c) PROVE Followable'
  BY <1>0, <1>14, SMTT(60) DEF Read
<1>15. ASSUME NEW c \in Calls, Wait(c) PROVE Followable'
  BY <1>0, <1>15 DEF Wait
<1>16. ASSUME NEW c \in Calls, Join(c) PROVE Followable'
  BY <1>0, <1>16 DEF Join
<1>17. ASSUME NEW c \in Calls, Finally(c) PROVE Followable'
  BY <1>0, <1>17 DEF Finally
<1>18. ASSUME NEW c \in Calls, Exit(c) PROVE Followable'
  BY <1>0, <1>18 DEF Exit
<1>19. ASSUME NEW c \in Calls, Kill(c) PROVE Followable'
  BY <1>0, <1>19 DEF Kill
<1>20. ASSUME NEW c \in Calls, Caller(c) PROVE Followable'
  BY <1>2, <1>3, <1>4, <1>5, <1>6, <1>7, <1>8, <1>9, <1>10, <1>20, ZenonT(60) DEF Caller
<1>21. ASSUME NEW c \in Calls, Thread(c) PROVE Followable'
  BY <1>11, <1>12, <1>13, <1>14, <1>15, <1>16, <1>17, <1>21, ZenonT(60) DEF Thread
<1>22. QED
  BY <1>1, <1>18, <1>19, <1>20, <1>21 DEF Next

-----------------------------------------------------------------------------
(* The invariant, and what follows from it *)

\* A race is remembered.
LEMMA CalmStep == ASSUME Next, Calm' PROVE Calm
<1> USE DEF Calm, history
<1> DEFINE m == frpTunnelManager
<1>1. ASSUME NEW c \in Calls, Stop(c) PROVE Calm
  <2>1. late' = late BY <1>1 DEF Stop
  <2>2. CASE m # None /\ isRunning[m]
    <3>1. early' = (early \/ \E d \in Calls : manager[d] = m /\ Pending(d))
      BY <1>1, <2>2 DEF Stop
    <3>2. QED BY <2>1, <3>1, Zenon
  <2>3. CASE ~(m # None /\ isRunning[m])
    <3>1. early' = early BY <1>1, <2>3 DEF Stop
    <3>2. QED BY <2>1, <3>1
  <2>4. QED BY <2>2, <2>3
<1>2. ASSUME NEW c \in Calls, Begin(c) PROVE Calm
  <2>1. early' = early BY <1>2 DEF Begin
  <2>2. CASE m # None /\ ~isRunning[m]
    <3>1. late' = (late \/ \E d \in Calls : Underway(d) \/ Stopping(d))
      BY <1>2, <2>2 DEF Begin
    <3>2. QED BY <2>1, <3>1, Zenon
  <2>3. CASE ~(m # None /\ ~isRunning[m])
    <3>1. late' = late BY <1>2, <2>3, SMTT(60) DEF Begin
    <3>2. QED BY <2>1, <3>1
  <2>4. QED BY <2>2, <2>3
<1>3. CASE UNCHANGED <<early, late>> BY <1>3, SMTT(60)
<1>4. UNCHANGED <<early, late>> \/ \E c \in Calls : Stop(c) \/ Begin(c)
  BY DEF Next, Call, Caller, Destroy, Forget, See, Make, Decide, Prepare, Drop,
         Thread, Launch, Set, Open, Read, Wait, Join, Finally, Exit, Kill
<1>5. QED BY <1>1, <1>2, <1>3, <1>4

\* A step that changes nothing keeps the invariant.
LEMMA Stutter == ASSUME IInv, UNCHANGED vars PROVE IInv'
<1> USE DEF vars, managers, calls, threads, processes, history
<1>1. TypeOK'
  BY DEF IInv, TypeOK, ManagersType, CallsType, ThreadsType, ProcessesType, HistoryType
<1>2. Basic' BY DEF IInv, Basic, Stopping
<1>3. Calm' => OneStart' BY DEF IInv, Calm, Followable, OneStart, Underway, Stopping, Pending
<1>4. Calm' => Followed' BY DEF IInv, Calm, Followable, Followed
<1>5. Calm' => Flagged' BY DEF IInv, Calm, Followable, Flagged, Pending
<1>6. Calm' => FlagHonest' BY DEF IInv, Calm, Followable, FlagHonest, Underway
<1>7. QED BY <1>1, <1>2, <1>3, <1>4, <1>5, <1>6 DEF IInv, Followable

\* Every step keeps the invariant.
LEMMA IInvStep == ASSUME IInv, [Next]_vars PROVE IInv'
<1>1. CASE UNCHANGED vars BY <1>1, Stutter
<1>2. CASE Next
  <2>1. TypeOK' /\ Basic' BY <1>2, TypeStep, BasicStep DEF IInv
  <2>2. ASSUME Calm' PROVE Followable'
    <3>1. Calm BY <1>2, <2>2, CalmStep
    <3>2. QED
      BY <1>2, <2>2, <3>1, FollowableStep DEF IInv
  <2>3. QED BY <2>1, <2>2 DEF IInv
<1>3. QED BY <1>1, <1>2

\* The invariant holds initially.
LEMMA IInvInit == ASSUME Init PROVE IInv
<1> USE DEF Init
<1>1. TypeOK
  BY Zenon DEF TypeOK, ManagersType, CallsType, ThreadsType, ProcessesType, HistoryType, Kinds,
         Steps, ThreadSteps, Procs
<1>2. Basic BY DEF Basic, Stopping
<1>3. Followable
  BY DEF Followable, OneStart, Followed, Flagged, FlagHonest, Underway, Stopping, Pending
<1>4. QED BY <1>1, <1>2, <1>3 DEF IInv

\* The inductive invariant holds in every reachable state, for any number of calls.
THEOREM Invariance == Spec => []IInv
BY IInvInit, IInvStep, PTL DEF Spec

\* The variables keep their types, for any number of calls.
THEOREM TypeCorrect == Spec => []TypeOK
<1>1. IInv => TypeOK BY DEF IInv
<1>2. QED BY <1>1, Invariance, PTL

\* Without a race at most one frpc is up that nobody has asked to end.
THEOREM AtMostOne == Spec => []OneProcess
<1>1. IInv => OneProcess
  <2>1. ASSUME IInv, Calm PROVE \A p \in Calls : proc[p] = "up" => Underway(p)
    BY <2>1 DEF IInv, Followable, Followed, Underway
  <2>2. QED BY <2>1 DEF IInv, Followable, OneStart, OneProcess
<1>2. QED BY <1>1, Invariance, PTL

\* Without a race a set flag means a start under way, or one that failed.
THEOREM FlagMeansStart == Spec => []FlagHonest
<1>1. IInv => FlagHonest BY DEF IInv, Followable, FlagHonest
<1>2. QED BY <1>1, Invariance, PTL

\* Without a race a tunnel that runs can be stopped.
THEOREM CanBeStopped == Spec => []Stoppable
<1>1. IInv => Stoppable BY DEF IInv, Followable, Followed, Flagged, Stoppable, Pending
<1>2. QED BY <1>1, Invariance, PTL
=============================================================================

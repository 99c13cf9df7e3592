---------------------------- MODULE RunnerProofs ----------------------------
(***************************************************************************)
(* Proofs about Runner for any number of runners, processes and pid files. *)
(* IInv is inductive relative to TypeOK; the safety properties follow.     *)
(***************************************************************************)
EXTENDS Runner, TLAPS

USE PidAssumption, RunnerAssumption

\* No step of a runner, of the system or of the environment leaves the
\* declared ranges.
LEMMA TypeStep ==
    ASSUME TypeOK, [Next]_vars
    PROVE  TypeOK'
<1> USE DEF TypeOK, PidTypeOK, PCs, Modes, Ended, Zombie, pidVars, runnerVars,
            Goto, Return, Spawn, Reap, Terminate, RemovePidFile, WritePidFile
<1>1. ASSUME NEW r \in Runners, Check(r) PROVE TypeOK'
  BY <1>1 DEF Check
<1>2. ASSUME NEW r \in Runners, NewRunner(r) PROVE TypeOK'
  BY <1>2 DEF NewRunner
<1>3. ASSUME NEW r \in Runners, EnterRun(r) PROVE TypeOK'
  <2>1. mode' \in [Runners -> Modes] /\ (mode'[r] # "once") \in BOOLEAN
    BY <1>3 DEF EnterRun
  <2>2. boot' \in [Runners -> BOOLEAN]
    <3>1. CASE UNCHANGED boot
      BY <3>1, Zenon
    <3>2. ASSUME NEW m \in Modes, boot' = [boot EXCEPT ![r] = (m # "once")]
          PROVE  boot' \in [Runners -> BOOLEAN]
      <4>1. (m # "once") \in BOOLEAN
        BY Zenon
      <4>2. boot \in [Runners -> BOOLEAN]
        BY Zenon
      <4> QED
        BY <3>2, <4>1, <4>2, ZenonT(60)
    <3> QED
      BY <1>3, <3>1, <3>2, ZenonT(60) DEF EnterRun
  <2> QED
    BY <1>3, <2>1, <2>2 DEF EnterRun
<1>4. ASSUME NEW r \in Runners, StartCmd(r) PROVE TypeOK'
  <2>1. always' \in [Runners -> BOOLEAN]
    BY <1>4, Zenon DEF StartCmd, BuildCmdHook
  <2>2. proc' \in [Pids -> {"free", "run"} \cup Zombie] /\ parent' \in [Pids -> Runners \cup {Nobody}]
        /\ term' \in SUBSET Pids
    BY <1>4, SMTT(30) DEF StartCmd
  <2>3. pc' \in [Runners -> PCs] /\ result' \in [Runners -> {"none", "ok", "err"}]
    BY <1>4 DEF StartCmd, AfterStart
  <2>4. child' \in [Runners -> Pids \cup {NoPid}] /\ exit' \in [Runners -> {"none", "wait"} \cup Zombie]
    BY <1>4 DEF StartCmd
  <2>5. stale' \in [Runners -> BOOLEAN]
    BY <1>4, Zenon DEF StartCmd
  <2>6. UNCHANGED <<up, pidf, mode, boot, sig, hook, event>>
    BY <1>4, Zenon DEF StartCmd
  <2> QED
    BY <2>1, <2>2, <2>3, <2>4, <2>5, <2>6, Zenon
<1>5. ASSUME NEW r \in Runners, CmdWait(r) PROVE TypeOK'
  BY <1>5, Zenon DEF CmdWait
<1>6. ASSUME NEW r \in Runners, FirstBootExit(r) PROVE TypeOK'
  BY <1>6, SMTT(60) DEF FirstBootExit, Received
<1>7. ASSUME NEW r \in Runners, FirstBootTimer(r) PROVE TypeOK'
  BY <1>7, Zenon DEF FirstBootTimer
<1>8. ASSUME NEW r \in Runners, WriteCheck(r) PROVE TypeOK'
  BY <1>8 DEF WriteCheck
<1>9. ASSUME NEW r \in Runners, Write(r) PROVE TypeOK'
  <2>1. boot' \in [Runners -> BOOLEAN]
    BY <1>9, Zenon DEF Write
  <2>2. pidf' \in [Paths -> Pids \cup Hosts \cup {NoPid}]
    BY <1>9 DEF Write, RecordedPid
  <2>3. pc' \in [Runners -> PCs] /\ result' \in [Runners -> {"none", "ok", "err"}]
    BY <1>9 DEF Write
  <2> QED
    BY <1>9, <2>1, <2>2, <2>3, Zenon DEF Write
<1>10. ASSUME NEW r \in Runners, OnSignal(r) PROVE TypeOK'
  BY <1>10, Zenon DEF OnSignal, Received
<1>11. ASSUME NEW r \in Runners, Drain(r) PROVE TypeOK'
  BY <1>11, Zenon DEF Drain
<1>12. ASSUME NEW r \in Runners, OnExit(r) PROVE TypeOK'
  BY <1>12, SMTT(30) DEF OnExit, RestartsOnExit, HookRuns
<1>13. ASSUME NEW r \in Runners, BackoffSignal(r) PROVE TypeOK'
  BY <1>13, Zenon DEF BackoffSignal
<1>14. ASSUME NEW r \in Runners, BackoffTimer(r) PROVE TypeOK'
  BY <1>14, Zenon DEF BackoffTimer
<1>15. ASSUME NEW r \in Runners, WatchEvent(r) PROVE TypeOK'
  BY <1>15 DEF WatchEvent, OnRestart, BackoffRestart, Received
<1>16. ASSUME NEW r \in Runners, FileChange(r) PROVE TypeOK'
  BY <1>16, Zenon DEF FileChange
<1>17. ASSUME NEW h \in Hosts, SignalHost(h) PROVE TypeOK'
  BY <1>17, Zenon DEF SignalHost, Listening
<1>18. ASSUME NEW h \in Hosts, HostExit(h) PROVE TypeOK'
  BY <1>18 DEF HostExit
<1>19. ASSUME NEW p \in Pids, Process(p) PROVE TypeOK'
  BY <1>19 DEF Process, Exit, ForeignStart, InitReaps
<1>20. CASE UNCHANGED vars
  BY <1>20, Zenon DEF vars
<1> QED
  BY <1>1, <1>2, <1>3, <1>4, <1>5, <1>6, <1>7, <1>8, <1>9, <1>10, <1>11, <1>12, Zenon,
     <1>13, <1>14, <1>15, <1>16, <1>17, <1>18, <1>19, <1>20 DEF Next, Step, Run

(***************************************************************************)
(* Type correctness of the runners, the processes and the pid files.       *)
(***************************************************************************)
THEOREM TypeCorrect == Spec => []TypeOK
<1>1. Init => TypeOK
  BY DEF Init, PidInit, TypeOK, PidTypeOK, PCs, Modes, Ended, Zombie
<1>2. TypeOK /\ [Next]_vars => TypeOK'
  BY TypeStep, Zenon
<1> QED
  BY <1>1, <1>2, PTL DEF Spec

\* Every way back to the top of the loop has received the end of the command.
LEMMA WaitStep ==
    ASSUME TypeOK, WaitInv, ControlInv, [Next]_vars
    PROVE  WaitInv'
<1> USE DEF TypeOK, PidTypeOK, Zombie, pidVars, runnerVars, WaitInv, ControlInv
<1>1. ASSUME NEW r \in Runners, Check(r) PROVE WaitInv'
  BY <1>1, Zenon DEF Check
<1>2. ASSUME NEW r \in Runners, NewRunner(r) PROVE WaitInv'
  BY <1>2, Zenon DEF NewRunner
<1>3. ASSUME NEW r \in Runners, EnterRun(r) PROVE WaitInv'
  BY <1>3, Zenon DEF EnterRun
<1>4. ASSUME NEW r \in Runners, StartCmd(r) PROVE WaitInv'
  BY <1>4 DEF StartCmd, BuildCmdHook, AfterStart, Spawn
<1>5. ASSUME NEW r \in Runners, CmdWait(r) PROVE WaitInv'
  BY <1>5 DEF CmdWait, Reap
<1>6. ASSUME NEW r \in Runners, FirstBootExit(r) PROVE WaitInv'
  BY <1>6 DEF FirstBootExit, Received
<1>7. ASSUME NEW r \in Runners, FirstBootTimer(r) PROVE WaitInv'
  BY <1>7, Zenon DEF FirstBootTimer
<1>8. ASSUME NEW r \in Runners, WriteCheck(r) PROVE WaitInv'
  BY <1>8, Zenon DEF WriteCheck
<1>9. ASSUME NEW r \in Runners, Write(r) PROVE WaitInv'
  BY <1>9, Zenon DEF Write
<1>10. ASSUME NEW r \in Runners, OnSignal(r) PROVE WaitInv'
  BY <1>10, Zenon DEF OnSignal
<1>11. ASSUME NEW r \in Runners, Drain(r) PROVE WaitInv'
  BY <1>11 DEF Drain, Received
<1>12. ASSUME NEW r \in Runners, OnExit(r) PROVE WaitInv'
  BY <1>12 DEF OnExit, Received
<1>13. ASSUME NEW r \in Runners, BackoffSignal(r) PROVE WaitInv'
  BY <1>13, Zenon DEF BackoffSignal
<1>14. ASSUME NEW r \in Runners, BackoffTimer(r) PROVE WaitInv'
  BY <1>14, Zenon DEF BackoffTimer
<1>15. ASSUME NEW r \in Runners, WatchEvent(r) PROVE WaitInv'
  BY <1>15 DEF WatchEvent, OnRestart, BackoffRestart
<1>16. ASSUME NEW r \in Runners, FileChange(r) PROVE WaitInv'
  BY <1>16, Zenon DEF FileChange
<1>17. ASSUME NEW h \in Hosts, SignalHost(h) PROVE WaitInv'
  BY <1>17, Zenon DEF SignalHost, Listening
<1>18. ASSUME NEW h \in Hosts, HostExit(h) PROVE WaitInv'
  BY <1>18 DEF HostExit
<1>19. ASSUME NEW p \in Pids, Process(p) PROVE WaitInv'
  BY <1>19 DEF Process, Exit, ForeignStart, InitReaps, Spawn, Reap
<1>20. CASE UNCHANGED vars
  BY <1>20, Zenon DEF vars
<1> QED
  BY <1>1, <1>2, <1>3, <1>4, <1>5, <1>6, <1>7, <1>8, <1>9, <1>10, <1>11, <1>12, Zenon,
     <1>13, <1>14, <1>15, <1>16, <1>17, <1>18, <1>19, <1>20 DEF Next, Step, Run


\* Where Run has a command to wait for, and where it has none.
LEMMA ControlStep ==
    ASSUME TypeOK, WaitInv, ControlInv, [Next]_vars
    PROVE  ControlInv'
<1> USE DEF TypeOK, PidTypeOK, Zombie, pidVars, runnerVars, Goto, Return, ControlInv, Ended
<1>1. ASSUME NEW r \in Runners, Check(r) PROVE ControlInv'
  BY <1>1 DEF Check
<1>2. ASSUME NEW r \in Runners, NewRunner(r) PROVE ControlInv'
  BY <1>2 DEF NewRunner
<1>3. ASSUME NEW r \in Runners, EnterRun(r) PROVE ControlInv'
  BY <1>3 DEF EnterRun
<1>4. ASSUME NEW r \in Runners, StartCmd(r) PROVE ControlInv'
  BY <1>4 DEF StartCmd, BuildCmdHook, AfterStart, Spawn
<1>5. ASSUME NEW r \in Runners, CmdWait(r) PROVE ControlInv'
  BY <1>5 DEF CmdWait, Reap
<1>6. ASSUME NEW r \in Runners, FirstBootExit(r) PROVE ControlInv'
  BY <1>6 DEF FirstBootExit, Received
<1>7. ASSUME NEW r \in Runners, FirstBootTimer(r) PROVE ControlInv'
  BY <1>7 DEF FirstBootTimer
<1>8. ASSUME NEW r \in Runners, WriteCheck(r) PROVE ControlInv'
  BY <1>8 DEF WriteCheck
<1>9. ASSUME NEW r \in Runners, Write(r) PROVE ControlInv'
  BY <1>9 DEF Write
<1>10. ASSUME NEW r \in Runners, OnSignal(r) PROVE ControlInv'
  BY <1>10 DEF OnSignal
<1>11. ASSUME NEW r \in Runners, Drain(r) PROVE ControlInv'
  BY <1>11 DEF Drain, Received
<1>12. ASSUME NEW r \in Runners, OnExit(r) PROVE ControlInv'
  BY <1>12 DEF OnExit, Received
<1>13. ASSUME NEW r \in Runners, BackoffSignal(r) PROVE ControlInv'
  BY <1>13 DEF BackoffSignal
<1>14. ASSUME NEW r \in Runners, BackoffTimer(r) PROVE ControlInv'
  BY <1>14 DEF BackoffTimer
<1>15. ASSUME NEW r \in Runners, WatchEvent(r) PROVE ControlInv'
  BY <1>15 DEF WatchEvent, OnRestart, BackoffRestart
<1>16. ASSUME NEW r \in Runners, FileChange(r) PROVE ControlInv'
  BY <1>16, Zenon DEF FileChange
<1>17. ASSUME NEW h \in Hosts, SignalHost(h) PROVE ControlInv'
  BY <1>17, Zenon DEF SignalHost, Listening
<1>18. ASSUME NEW h \in Hosts, HostExit(h) PROVE ControlInv'
  BY <1>18, Zenon DEF HostExit
<1>19. ASSUME NEW p \in Pids, Process(p) PROVE ControlInv'
  BY <1>19 DEF Process, Exit, ForeignStart, InitReaps, Spawn, Reap
<1>20. CASE UNCHANGED vars
  BY <1>20, Zenon DEF vars
<1> QED
  BY <1>1, <1>2, <1>3, <1>4, <1>5, <1>6, <1>7, <1>8, <1>9, <1>10, <1>11, <1>12, Zenon,
     <1>13, <1>14, <1>15, <1>16, <1>17, <1>18, <1>19, <1>20 DEF Next, Step, Run


\* The modes that restart.
LEMMA KindStep ==
    ASSUME TypeOK, KindInv, [Next]_vars
    PROVE  KindInv'
<1> USE DEF TypeOK, PidTypeOK, Zombie, pidVars, runnerVars, Goto, Return, KindInv, Modes
<1>1. ASSUME NEW r \in Runners, Check(r) PROVE KindInv'
  BY <1>1 DEF Check
<1>2. ASSUME NEW r \in Runners, NewRunner(r) PROVE KindInv'
  BY <1>2 DEF NewRunner
<1>3. ASSUME NEW r \in Runners, EnterRun(r) PROVE KindInv'
  BY <1>3 DEF EnterRun
<1>4. ASSUME NEW r \in Runners, StartCmd(r) PROVE KindInv'
  BY <1>4 DEF StartCmd, BuildCmdHook, AfterStart, Spawn
<1>5. ASSUME NEW r \in Runners, CmdWait(r) PROVE KindInv'
  BY <1>5, Zenon DEF CmdWait, Reap
<1>6. ASSUME NEW r \in Runners, FirstBootExit(r) PROVE KindInv'
  BY <1>6 DEF FirstBootExit, Received
<1>7. ASSUME NEW r \in Runners, FirstBootTimer(r) PROVE KindInv'
  BY <1>7 DEF FirstBootTimer
<1>8. ASSUME NEW r \in Runners, WriteCheck(r) PROVE KindInv'
  BY <1>8 DEF WriteCheck
<1>9. ASSUME NEW r \in Runners, Write(r) PROVE KindInv'
  BY <1>9 DEF Write
<1>10. ASSUME NEW r \in Runners, OnSignal(r) PROVE KindInv'
  BY <1>10 DEF OnSignal
<1>11. ASSUME NEW r \in Runners, Drain(r) PROVE KindInv'
  BY <1>11 DEF Drain, Received
<1>12. ASSUME NEW r \in Runners, OnExit(r) PROVE KindInv'
  BY <1>12 DEF OnExit, RestartsOnExit, HookRuns
<1>13. ASSUME NEW r \in Runners, BackoffSignal(r) PROVE KindInv'
  BY <1>13 DEF BackoffSignal
<1>14. ASSUME NEW r \in Runners, BackoffTimer(r) PROVE KindInv'
  BY <1>14 DEF BackoffTimer
<1>15. ASSUME NEW r \in Runners, WatchEvent(r) PROVE KindInv'
  BY <1>15 DEF WatchEvent, OnRestart, BackoffRestart
<1>16. ASSUME NEW r \in Runners, FileChange(r) PROVE KindInv'
  BY <1>16 DEF FileChange
<1>17. ASSUME NEW h \in Hosts, SignalHost(h) PROVE KindInv'
  BY <1>17, Zenon DEF SignalHost, Listening
<1>18. ASSUME NEW h \in Hosts, HostExit(h) PROVE KindInv'
  BY <1>18, Zenon DEF HostExit
<1>19. ASSUME NEW p \in Pids, Process(p) PROVE KindInv'
  BY <1>19 DEF Process, Exit, ForeignStart, InitReaps, Spawn, Reap
<1>20. CASE UNCHANGED vars
  BY <1>20, Zenon DEF vars
<1> QED
  BY <1>1, <1>2, <1>3, <1>4, <1>5, <1>6, <1>7, <1>8, <1>9, <1>10, <1>11, <1>12, Zenon,
     <1>13, <1>14, <1>15, <1>16, <1>17, <1>18, <1>19, <1>20 DEF Next, Step, Run

\* A pid file that is not shared is changed by its runner only.
LEMMA FileStep ==
    ASSUME TypeOK, ControlInv, KindInv, FileInv, [Next]_vars
    PROVE  FileInv'
<1> USE DEF TypeOK, PidTypeOK, Modes, Ended, pidVars, runnerVars, Goto, Return, RemovePidFile, WritePidFile, ControlInv, KindInv, FileInv, Sole
<1>1. ASSUME NEW r \in Runners, Check(r) PROVE FileInv'
  BY <1>1 DEF Check
<1>2. ASSUME NEW r \in Runners, NewRunner(r) PROVE FileInv'
  BY <1>2, SMTT(30) DEF NewRunner
<1>3. ASSUME NEW r \in Runners, EnterRun(r) PROVE FileInv'
  <2>1. /\ pidf' = pidf /\ child' = child
        /\ \A q \in Runners \ {r} : pc'[q] = pc[q] /\ mode'[q] = mode[q] /\ boot'[q] = boot[q]
    BY <1>3 DEF EnterRun
  <2>2. pc'[r] \in {"loop", "done"}
    BY <1>3 DEF EnterRun
  <2>3. ASSUME pc'[r] = "loop", mode'[r] # "once" PROVE boot'[r]
    <3>1. PICK m \in Modes : mode' = [mode EXCEPT ![r] = m] /\ boot' = [boot EXCEPT ![r] = (m # "once")]
      BY <1>3, <2>3 DEF EnterRun
    <3>2. m # "once" /\ boot'[r] = (m # "once")
      BY <2>3, <3>1, SMTT(30)
    <3> QED
      BY <3>2, Zenon
  <2> QED
    BY <2>1, <2>2, <2>3
<1>4. ASSUME NEW r \in Runners, StartCmd(r) PROVE FileInv'
  BY <1>4, SMTT(30) DEF StartCmd, AfterStart
<1>5. ASSUME NEW r \in Runners, CmdWait(r) PROVE FileInv'
  BY <1>5, SMTT(30) DEF CmdWait
<1>6. ASSUME NEW r \in Runners, FirstBootExit(r) PROVE FileInv'
  BY <1>6, SMTT(30) DEF FirstBootExit
<1>7. ASSUME NEW r \in Runners, FirstBootTimer(r) PROVE FileInv'
  BY <1>7, SMTT(30) DEF FirstBootTimer
<1>8. ASSUME NEW r \in Runners, WriteCheck(r) PROVE FileInv'
  BY <1>8, SMTT(30) DEF WriteCheck
<1>9. ASSUME NEW r \in Runners, Write(r) PROVE FileInv'
  BY <1>9, SMTT(30) DEF Write, RecordedPid
<1>10. ASSUME NEW r \in Runners, OnSignal(r) PROVE FileInv'
  BY <1>10, SMTT(30) DEF OnSignal
<1>11. ASSUME NEW r \in Runners, Drain(r) PROVE FileInv'
  BY <1>11, SMTT(30) DEF Drain
<1>12. ASSUME NEW r \in Runners, OnExit(r) PROVE FileInv'
  BY <1>12, SMTT(60) DEF OnExit, RestartsOnExit, HookRuns, Looping, Received, Zombie
<1>13. ASSUME NEW r \in Runners, BackoffSignal(r) PROVE FileInv'
  BY <1>13, SMTT(60) DEF BackoffSignal
<1>14. ASSUME NEW r \in Runners, BackoffTimer(r) PROVE FileInv'
  BY <1>14, SMTT(60) DEF BackoffTimer
<1>15. ASSUME NEW r \in Runners, WatchEvent(r) PROVE FileInv'
  BY <1>15, SMTT(60) DEF WatchEvent, OnRestart, BackoffRestart
<1>16. ASSUME NEW r \in Runners, FileChange(r) PROVE FileInv'
  BY <1>16, Zenon DEF FileChange
<1>17. ASSUME NEW h \in Hosts, SignalHost(h) PROVE FileInv'
  BY <1>17, Zenon DEF SignalHost, Listening
<1>18. ASSUME NEW h \in Hosts, HostExit(h) PROVE FileInv'
  BY <1>18, Zenon DEF HostExit
<1>19. ASSUME NEW p \in Pids, Process(p) PROVE FileInv'
  BY <1>19, SMTT(60) DEF Process, Exit, ForeignStart, InitReaps
<1>20. CASE UNCHANGED vars
  BY <1>20, ZenonT(60) DEF vars
<1> QED
  BY <1>1, <1>2, <1>3, <1>4, <1>5, <1>6, <1>7, <1>8, <1>9, <1>10, <1>11, <1>12, ZenonT(60),
     <1>13, <1>14, <1>15, <1>16, <1>17, <1>18, <1>19, <1>20 DEF Next, Step, Run


\* A run that returns nil has no command, or has told it to stop.
LEMMA CleanStep ==
    ASSUME TypeOK, WaitInv, ControlInv, CleanReturn, [Next]_vars
    PROVE  CleanReturn'
<1> USE DEF TypeOK, PidTypeOK, Zombie, Ended, pidVars, runnerVars, Goto, Return, WaitInv, ControlInv, CleanReturn, LiveChildren
<1>1. ASSUME NEW r \in Runners, Check(r) PROVE CleanReturn'
  BY <1>1, SMTT(30) DEF Check
<1>2. ASSUME NEW r \in Runners, NewRunner(r) PROVE CleanReturn'
  BY <1>2, SMTT(30) DEF NewRunner
<1>3. ASSUME NEW r \in Runners, EnterRun(r) PROVE CleanReturn'
  BY <1>3, SMTT(30) DEF EnterRun
<1>4. ASSUME NEW r \in Runners, StartCmd(r) PROVE CleanReturn'
  BY <1>4, SMTT(30) DEF StartCmd, Spawn
<1>5. ASSUME NEW r \in Runners, CmdWait(r) PROVE CleanReturn'
  BY <1>5, SMTT(30) DEF CmdWait, Reap
<1>6. ASSUME NEW r \in Runners, FirstBootExit(r) PROVE CleanReturn'
  BY <1>6, SMTT(30) DEF FirstBootExit, Received
<1>7. ASSUME NEW r \in Runners, FirstBootTimer(r) PROVE CleanReturn'
  BY <1>7, SMTT(30) DEF FirstBootTimer
<1>8. ASSUME NEW r \in Runners, WriteCheck(r) PROVE CleanReturn'
  BY <1>8, SMTT(30) DEF WriteCheck
<1>9. ASSUME NEW r \in Runners, Write(r) PROVE CleanReturn'
  BY <1>9, SMTT(30) DEF Write
<1>10. ASSUME NEW r \in Runners, OnSignal(r) PROVE CleanReturn'
  BY <1>10, SMTT(30) DEF OnSignal, Terminate, Received
<1>11. ASSUME NEW r \in Runners, Drain(r) PROVE CleanReturn'
  BY <1>11, SMTT(30) DEF Drain, Received
<1>12. ASSUME NEW r \in Runners, OnExit(r) PROVE CleanReturn'
  BY <1>12, SMTT(60) DEF OnExit, Received
<1>13. ASSUME NEW r \in Runners, BackoffSignal(r) PROVE CleanReturn'
  BY <1>13, SMTT(60) DEF BackoffSignal
<1>14. ASSUME NEW r \in Runners, BackoffTimer(r) PROVE CleanReturn'
  BY <1>14, SMTT(60) DEF BackoffTimer
<1>15. ASSUME NEW r \in Runners, WatchEvent(r) PROVE CleanReturn'
  BY <1>15, SMTT(60) DEF WatchEvent, OnRestart, BackoffRestart, Terminate
<1>16. ASSUME NEW r \in Runners, FileChange(r) PROVE CleanReturn'
  BY <1>16, SMTT(30) DEF FileChange
<1>17. ASSUME NEW h \in Hosts, SignalHost(h) PROVE CleanReturn'
  BY <1>17, SMTT(30) DEF SignalHost, Listening
<1>18. ASSUME NEW h \in Hosts, HostExit(h) PROVE CleanReturn'
  BY <1>18, SMTT(60) DEF HostExit
<1>19. ASSUME NEW p \in Pids, Process(p) PROVE CleanReturn'
  BY <1>19, SMTT(60) DEF Process, Exit, ForeignStart, InitReaps, Spawn, Reap
<1>20. CASE UNCHANGED vars
  BY <1>20 DEF vars
<1> QED
  BY <1>1, <1>2, <1>3, <1>4, <1>5, <1>6, <1>7, <1>8, <1>9, <1>10, <1>11, <1>12, ZenonT(60),
     <1>13, <1>14, <1>15, <1>16, <1>17, <1>18, <1>19, <1>20 DEF Next, Step, Run


(***************************************************************************)
(* IInv holds in every reachable state.                                    *)
(***************************************************************************)
THEOREM Invariance == Spec => []IInv
<1>1. Init => IInv
  <2> SUFFICES ASSUME Init PROVE IInv
    BY Zenon
  <2> USE DEF Init, PidInit
  <2>1. WaitInv /\ CleanReturn
    BY Zenon DEF WaitInv, CleanReturn
  <2>2. ControlInv
    BY Zenon DEF ControlInv
  <2>3. KindInv
    BY Zenon DEF KindInv
  <2>4. FileInv
    BY Zenon DEF FileInv
  <2> QED
    BY <2>1, <2>2, <2>3, <2>4, Zenon DEF IInv
<1>2. TypeOK /\ IInv /\ [Next]_vars => IInv'
  BY WaitStep, ControlStep, KindStep, FileStep, CleanStep, Zenon DEF IInv
<1> QED
  BY <1>1, <1>2, TypeCorrect, PTL DEF Spec

(***************************************************************************)
(* A runner never has two commands that are not reaped.                    *)
(***************************************************************************)
THEOREM OneChildAlways == Spec => []OneChild
<1>1. ASSUME IInv, NEW r \in Runners, NEW p \in LiveChildren(r), NEW q \in LiveChildren(r)
      PROVE  p = q
  <2>1. p \in Pids /\ parent[p] = r /\ q \in Pids /\ parent[q] = r
    BY Zenon DEF LiveChildren
  <2>2. \A x \in Pids : parent[x] \in Runners => child[parent[x]] = x
    BY IInv, Zenon DEF IInv, WaitInv
  <2>3. child[r] = p /\ child[r] = q
    BY <2>1, <2>2
  <2> QED
    BY <2>3, Zenon
<1>2. IInv => OneChild
  BY <1>1, Zenon DEF OneChild
<1> QED
  BY <1>2, Invariance, PTL

(***************************************************************************)
(* The pid file of a looping runner past its first boot names the process  *)
(* to signal, for every number of runners and pids, pid reuse included.    *)
(***************************************************************************)
THEOREM RecordedAlways == Spec => []Recorded
<1>1. TypeOK /\ IInv => Recorded
  BY SMTT(60) DEF TypeOK, Modes, IInv, FileInv, Recorded, RecordedPid
<1> QED
  BY <1>1, TypeCorrect, Invariance, PTL

(***************************************************************************)
(* A run that returns nil leaves no command that was not told to stop.     *)
(***************************************************************************)
THEOREM CleanReturnAlways == Spec => []CleanReturn
<1>1. IInv => CleanReturn
  BY Zenon DEF IInv
<1> QED
  BY <1>1, Invariance, PTL

(***************************************************************************)
(* Write never refuses the restart of a command that exited.               *)
(***************************************************************************)
THEOREM RestartNotRefusedAlways == Spec => []RestartNotRefused
<1>1. TypeOK /\ IInv => RestartNotRefused
  BY DEF TypeOK, PidTypeOK, IInv, FileInv, RestartNotRefused, WriteRefused, IsRunning
<1> QED
  BY <1>1, TypeCorrect, Invariance, PTL

(***************************************************************************)
(* The abstract state of Supervision that a state of Runner stands for.    *)
(***************************************************************************)
Live == [r \in Runners |-> LiveChildren(r)]
Over == {r \in Runners : pc[r] \in Ended}

\* Steps that neither start, reap nor end anything.
LEMMA Quiet ==
    ASSUME parent' = parent, Over' = Over
    PROVE  UNCHANGED <<Live, Over>>
BY Zenon DEF Live, LiveChildren

\* Steps at which Run may return.
LEMMA Finishes ==
    ASSUME NEW r \in Runners, parent' = parent,
           Over' = Over \/ Over' = Over \cup {r}
    PROVE  [Promise!Next]_<<Live, Over>>
<1>1. Live' = Live
  BY Zenon DEF Live, LiveChildren
<1>2. CASE Over' = Over
  BY <1>1, <1>2, Zenon
<1>3. CASE Over' = Over \cup {r}
  <2>1. Promise!Finish(r)
    BY <1>1, <1>3, Zenon DEF Promise!Finish, Live, Over
  <2> QED
    BY <2>1, Zenon DEF Promise!Next
<1> QED
  BY <1>2, <1>3, Zenon

\* Every step of the runners is a step of Supervision, or changes nothing there.
LEMMA SupervisionStep ==
    ASSUME TypeOK, WaitInv, ControlInv, [Next]_vars
    PROVE  [Promise!Next]_<<Live, Over>>
<1> USE DEF TypeOK, PidTypeOK, PCs, Ended, Zombie, pidVars, runnerVars, Goto, Return
<1>1. ASSUME NEW r \in Runners, FirstBootTimer(r) PROVE [Promise!Next]_<<Live, Over>>
  BY <1>1, Quiet, Zenon DEF FirstBootTimer, Over
<1>2. ASSUME NEW r \in Runners, Write(r) PROVE [Promise!Next]_<<Live, Over>>
  BY <1>2, Finishes DEF Write, Over
<1>3. ASSUME NEW r \in Runners, Drain(r) PROVE [Promise!Next]_<<Live, Over>>
  BY <1>3, Quiet, Zenon DEF Drain, Over
<1>4. ASSUME NEW r \in Runners, BackoffTimer(r) PROVE [Promise!Next]_<<Live, Over>>
  BY <1>4, Quiet, Zenon DEF BackoffTimer, Over
<1>5. ASSUME NEW r \in Runners, WatchEvent(r) PROVE [Promise!Next]_<<Live, Over>>
  BY <1>5, Quiet DEF WatchEvent, Over, OnRestart, BackoffRestart
<1>6. ASSUME NEW r \in Runners, FileChange(r) PROVE [Promise!Next]_<<Live, Over>>
  BY <1>6, Quiet, Zenon DEF FileChange, Over
<1>7. ASSUME NEW r \in Runners, Check(r) PROVE [Promise!Next]_<<Live, Over>>
  BY <1>7, Finishes, SMTT(30) DEF Check, Over
<1>8. ASSUME NEW r \in Runners, NewRunner(r) PROVE [Promise!Next]_<<Live, Over>>
  BY <1>8, Finishes, SMTT(30) DEF NewRunner, Over
<1>9. ASSUME NEW r \in Runners, EnterRun(r) PROVE [Promise!Next]_<<Live, Over>>
  BY <1>9, Finishes, SMTT(60) DEF EnterRun, Over
<1>10. ASSUME NEW r \in Runners, FirstBootExit(r) PROVE [Promise!Next]_<<Live, Over>>
  BY <1>10, Finishes, SMTT(30) DEF FirstBootExit, Over
<1>11. ASSUME NEW r \in Runners, WriteCheck(r) PROVE [Promise!Next]_<<Live, Over>>
  BY <1>11, Finishes, SMTT(30) DEF WriteCheck, Over
<1>12. ASSUME NEW r \in Runners, OnSignal(r) PROVE [Promise!Next]_<<Live, Over>>
  BY <1>12, Finishes, SMTT(60) DEF OnSignal, Over
<1>13. ASSUME NEW r \in Runners, OnExit(r) PROVE [Promise!Next]_<<Live, Over>>
  BY <1>13, Finishes, SMTT(60) DEF OnExit, Over
<1>14. ASSUME NEW r \in Runners, BackoffSignal(r) PROVE [Promise!Next]_<<Live, Over>>
  BY <1>14, Finishes, SMTT(30) DEF BackoffSignal, Over
<1>15. ASSUME NEW r \in Runners, StartCmd(r) PROVE [Promise!Next]_<<Live, Over>>
  <2>1. CASE Return(r, "err") /\ parent' = parent
    BY <2>1, Finishes DEF Over
  <2>2. ASSUME NEW p \in Pids, Spawn(p, r), Over' = Over, pc[r] = "loop"
        PROVE  Promise!Start(r, p)
    <3>1. LiveChildren(r) = {} /\ \A q \in Runners : p \notin LiveChildren(q)
      BY <2>2, SMTT(30) DEF Spawn, WaitInv, ControlInv, LiveChildren
    <3>2. \A q \in Runners : LiveChildren(q)' = IF q = r THEN {p} ELSE LiveChildren(q)
      BY <2>2, <3>1 DEF Spawn, LiveChildren
    <3>3. Live' = [Live EXCEPT ![r] = {p}]
      BY <3>2, Zenon DEF Live
    <3> QED
      BY <2>2, <3>1, <3>3, Zenon DEF Promise!Start, Live, Over
  <2>3. ASSUME NEW p \in Pids, Spawn(p, r), Goto(r, IF boot[r] THEN "boot" ELSE AfterStart(r))
        PROVE  Over' = Over
    BY <2>3, <1>15, Zenon DEF StartCmd, AfterStart, Over
  <2> QED
    BY <1>15, <2>1, <2>2, <2>3, Zenon DEF StartCmd, Promise!Next
<1>16. ASSUME NEW r \in Runners, CmdWait(r) PROVE [Promise!Next]_<<Live, Over>>
  <2>0. \A q \in Runners : LiveChildren(q)' = IF q = r THEN {} ELSE LiveChildren(q)
    BY <1>16 DEF CmdWait, Reap, WaitInv, LiveChildren
  <2>1. Live' = [Live EXCEPT ![r] = {}]
    BY <2>0, Zenon DEF Live
  <2>2. Over' = Over
    BY <1>16, Zenon DEF CmdWait, Over
  <2> QED
    BY <2>1, <2>2, Zenon DEF Promise!Next, Promise!Reaped, Live, Over
<1>17. ASSUME NEW h \in Hosts, SignalHost(h) PROVE [Promise!Next]_<<Live, Over>>
  BY <1>17, Quiet, ZenonT(60) DEF SignalHost, Over
<1>18. ASSUME NEW h \in Hosts, HostExit(h) PROVE [Promise!Next]_<<Live, Over>>
  <2> DEFINE R == {r \in Runners : HostOf[r] = h}
  <2>1. Over' = Over \cup R
    BY <1>18, Zenon DEF HostExit, Over
  <2>2. Live' = [r \in Runners |-> IF r \in R THEN {} ELSE Live[r]]
    BY <1>18 DEF HostExit, Live, LiveChildren
  <2> QED
    BY <2>1, <2>2, Zenon DEF Promise!Next, Promise!Abandon, Live, Over
<1>19. ASSUME NEW p \in Pids, Process(p) PROVE [Promise!Next]_<<Live, Over>>
  <2>1. parent' = parent
    BY <1>19, SMTT(60) DEF Process, Exit, ForeignStart, InitReaps, Spawn, Reap, WaitInv
  <2>2. Over' = Over
    BY <1>19, Zenon DEF Process, Over
  <2> QED
    BY <2>1, <2>2, Quiet, Zenon
<1>20. CASE UNCHANGED vars
  BY <1>20, Quiet, Zenon DEF vars, Over
<1> QED
  BY <1>1, <1>2, <1>3, <1>4, <1>5, <1>6, <1>7, <1>8, <1>9, <1>10, <1>11, Zenon,
     <1>12, <1>13, <1>14, <1>15, <1>16, <1>17, <1>18, <1>19, <1>20 DEF Next, Step, Run

(***************************************************************************)
(* A runner implements Supervision: one command at a time, and none after  *)
(* the run is over.                                                        *)
(***************************************************************************)
THEOREM Refinement == Spec => Supervises
<1>1. Init => Promise!Init
  BY DEF Init, PidInit, Promise!Init, LiveChildren, Ended
<1>2. TypeOK /\ IInv /\ [Next]_vars => [Promise!Next]_<<Live, Over>>
  BY SupervisionStep, Zenon DEF IInv
<1> QED
  BY <1>1, <1>2, TypeCorrect, Invariance, PTL DEF Spec, Supervises, Promise!Spec, Live, Over
=============================================================================

---------------------- MODULE BackgroundProcess_proofs ----------------------
(***************************************************************************)
(* Proofs about BackgroundProcess, for any number of managers, processes   *)
(* and polls. The inductive invariant says what a start and a stop know    *)
(* of the process they are about, and that nobody else is at work while a  *)
(* start is. A second one is about the monitors, while nothing has kept    *)
(* them from being told to end.                                            *)
(***************************************************************************)
EXTENDS BackgroundProcess, TLAPS

\* A start, or its rollback, is the only call under way, and its process the
\* only one that could run without being lost.
StartAlone ==
  \A m \in Managers : InStart(m) =>
    /\ pid[m] \in Processes
    /\ state[pid[m]] # "unused"
    /\ pc[m] # "await" => pidFile = pid[m]
    /\ m \in undo => pc[m] \in {"signal", "wait", "unlink"}
    /\ \A o \in Managers \ {m} : pc[o] = "idle" /\ o \notin undo
    /\ \A q \in Processes \ lost : state[q] \in Alive => q = pid[m]

\* A stop that has read the pid file is about the process in it, unless another
\* stop has deleted it; before it deletes the file, the process has ended, and
\* before it writes status.json, whatever is not lost has.
StopInHand ==
  \A m \in Managers :
    /\ pc[m] \in {"wait", "unlink"} =>
         /\ pid[m] \in Processes
         /\ pidFile \in {None, pid[m]}
         /\ state[pid[m]] # "unused"
    /\ pc[m] = "unlink" => state[pid[m]] = "gone"
    /\ pc[m] = "record" => \A q \in Processes : state[q] \in Alive => q \in lost

\* What the pid file names was launched.
FileNamesProcess == pidFile # None => state[pidFile] # "unused"

IInv ==
  /\ TypeOK
  /\ StartAlone
  /\ StopInHand
  /\ FileNamesProcess
  /\ NamedUnlessLost
  /\ DownMeansEnded
  /\ StopIsRecorded

\* What stop knows of the monitors: nobody takes its script away, and the pid
\* file on the nodes names the monitors of the process that it is about.
ScriptInHand ==
  \A m \in Managers :
    /\ UsesScript(m) => \A o \in Managers \ {m} : ~UsesScript(o)
    /\ pc[m] = "fill" => script # "absent"
    /\ pc[m] \in {"overlap", "nodes"} => script = "full"
    /\ pc[m] = "nodes" => rmonFile # None /\ pid[m] = rmonFile /\ rmon[rmonFile] # "on"

\* Monitors live in a job step that runs, and only if there are any.
MonitorsLive ==
  \A p \in Processes : rmon[p] # "off" => state[p] \in Alive /\ kind = "monitored"

\* Once a stop is past the monitors, the process has none left to wait for.
MonitorsNamed ==
  /\ pidFile # None /\ rmon[pidFile] \in {"on", "told"}
       => rmonFile = pidFile /\ \A m \in Managers : pc[m] # "signal"
  /\ \A m \in Managers : pc[m] = "await" =>
       /\ pidFile # pid[m]
       /\ rmon[pid[m]] \in {"on", "told"} => rmonFile = pid[m]

\* What a stop waits for, or has given up on, was sent SIGTERM; a start that
\* still waits is about neither.
WaitsForEnding ==
  /\ \A p \in lost : state[p] # "unused"
  /\ \A m \in Managers : pc[m] = "await" => pid[m] \notin lost
  /\ \A m \in Managers : pc[m] = "wait" /\ state[pid[m]] \in Alive => state[pid[m]] = "ending"
  /\ pidFile \in lost /\ state[pidFile] \in Alive => state[pidFile] = "ending"

Told ==
  /\ ScriptInHand
  /\ MonitorsLive
  /\ MonitorsNamed
  /\ WaitsForEnding
  /\ MonitorsEndFirst

RInv == untold \/ Told

-----------------------------------------------------------------------------
\* The sets and tuples that the definitions are made of.
USE DEF Alive, Starting, Stopping, table, files, monitor, memory, history

\* At first no process is there.
LEMMA InitInvariant == Init => IInv
  <1> SUFFICES ASSUME Init PROVE IInv
    OBVIOUS
  <1> USE BackgroundAssumption
  <1>1. TypeOK
    <2>1. torn \in BOOLEAN /\ untold \in BOOLEAN
      BY DEF Init
    <2>2. TypeOK \/ torn \notin BOOLEAN \/ untold \notin BOOLEAN
      BY DEF Init, TypeOK
    <2> QED
      BY <2>1, <2>2
  <1>2. StartAlone
    BY DEF Init, StartAlone, InStart
  <1>3. StopInHand
    BY DEF Init, StopInHand
  <1>4. FileNamesProcess
    BY DEF Init, FileNamesProcess
  <1>5. NamedUnlessLost
    BY DEF Init, NamedUnlessLost
  <1>6. DownMeansEnded
    BY DEF Init, DownMeansEnded
  <1>7. StopIsRecorded
    BY DEF Init, StopIsRecorded
  <1> QED
    BY <1>1, <1>2, <1>3, <1>4, <1>5, <1>6, <1>7 DEF IInv

\* One case per action, and in it one step per part of the invariant.
LEMMA NextInvariant == IInv /\ [Next]_vars => IInv'
  <1> SUFFICES ASSUME IInv, [Next]_vars PROVE IInv'
    OBVIOUS
  <1> USE BackgroundAssumption DEF IInv
  <1>1. ASSUME NEW m \in Managers, Launch(m) PROVE IInv'
    <2>1. TypeOK'
      BY <1>1 DEF Launch, MayLaunch, Goto, TypeOK, InStart, StartAlone, StopInHand
    <2>2. StartAlone'
      BY <1>1 DEF Launch, MayLaunch, Goto, TypeOK, InStart, StartAlone, StopInHand,
         NamedUnlessLost
    <2>3. StopInHand'
      BY <1>1 DEF Launch, MayLaunch, Goto, TypeOK, InStart, StartAlone, StopInHand,
         FileNamesProcess, NamedUnlessLost
    <2>4. FileNamesProcess'
      BY <1>1 DEF Launch, MayLaunch, Goto, TypeOK, InStart, StartAlone, StopInHand,
         FileNamesProcess
    <2>5. NamedUnlessLost'
      BY <1>1 DEF Launch, MayLaunch, Goto, TypeOK, InStart, StartAlone, StopInHand,
         NamedUnlessLost
    <2>6. DownMeansEnded'
      BY <1>1 DEF Launch, MayLaunch, Goto, TypeOK, InStart, StartAlone, StopInHand,
         NamedUnlessLost, DownMeansEnded
    <2>7. StopIsRecorded'
      BY <1>1 DEF Launch, MayLaunch, Goto, TypeOK, InStart, StartAlone, StopInHand,
         StopIsRecorded
    <2> QED
      BY <2>1, <2>2, <2>3, <2>4, <2>5, <2>6, <2>7 DEF IInv
  <1>2. ASSUME NEW m \in Managers, BeginStop(m) PROVE IInv'
    <2>1. TypeOK'
      BY <1>2 DEF BeginStop, Goto, TypeOK, InStart, StartAlone, StopInHand
    <2>2. StartAlone'
      BY <1>2 DEF BeginStop, Goto, TypeOK, InStart, StartAlone, StopInHand,
         NamedUnlessLost
    <2>3. StopInHand'
      BY <1>2 DEF BeginStop, Goto, TypeOK, InStart, StartAlone, StopInHand,
         FileNamesProcess, NamedUnlessLost
    <2>4. FileNamesProcess'
      BY <1>2 DEF BeginStop, Goto, TypeOK, InStart, StartAlone, StopInHand,
         FileNamesProcess
    <2>5. NamedUnlessLost'
      BY <1>2 DEF BeginStop, Goto, TypeOK, InStart, StartAlone, StopInHand,
         NamedUnlessLost
    <2>6. DownMeansEnded'
      BY <1>2 DEF BeginStop, Goto, TypeOK, InStart, StartAlone, StopInHand,
         NamedUnlessLost, DownMeansEnded
    <2>7. StopIsRecorded'
      BY <1>2 DEF BeginStop, Goto, TypeOK, InStart, StartAlone, StopInHand,
         StopIsRecorded
    <2> QED
      BY <2>1, <2>2, <2>3, <2>4, <2>5, <2>6, <2>7 DEF IInv
  <1>3. ASSUME NEW m \in Managers, Await(m) PROVE IInv'
    <2>1. TypeOK'
      BY <1>3 DEF Await, Patience, Looks, Tick, TypeOK, InStart, StartAlone,
         StopInHand
    <2>2. StartAlone'
      BY <1>3 DEF Await, Patience, Looks, Tick, TypeOK, InStart, StartAlone,
         StopInHand, NamedUnlessLost
    <2>3. StopInHand'
      BY <1>3 DEF Await, Patience, Looks, Tick, TypeOK, InStart, StartAlone,
         StopInHand, FileNamesProcess, NamedUnlessLost
    <2>4. FileNamesProcess'
      BY <1>3 DEF Await, Patience, Looks, Tick, TypeOK, InStart, StartAlone,
         StopInHand, FileNamesProcess
    <2>5. NamedUnlessLost'
      BY <1>3 DEF Await, Patience, Looks, Tick, TypeOK, InStart, StartAlone,
         StopInHand, NamedUnlessLost
    <2>6. DownMeansEnded'
      BY <1>3 DEF Await, Patience, Looks, Tick, TypeOK, InStart, StartAlone,
         StopInHand, NamedUnlessLost, DownMeansEnded
    <2>7. StopIsRecorded'
      BY <1>3 DEF Await, Patience, Looks, Tick, TypeOK, InStart, StartAlone,
         StopInHand, StopIsRecorded
    <2> QED
      BY <2>1, <2>2, <2>3, <2>4, <2>5, <2>6, <2>7 DEF IInv
  <1>4. ASSUME NEW m \in Managers, ExitNoticed(m) PROVE IInv'
    <2>1. TypeOK'
      BY <1>4 DEF ExitNoticed, Looks, Return, Goto, TypeOK, InStart, StartAlone,
         StopInHand
    <2>2. StartAlone'
      BY <1>4 DEF ExitNoticed, Looks, Return, Goto, TypeOK, InStart, StartAlone,
         StopInHand, NamedUnlessLost
    <2>3. StopInHand'
      BY <1>4 DEF ExitNoticed, Looks, Return, Goto, TypeOK, InStart, StartAlone,
         StopInHand, FileNamesProcess, NamedUnlessLost
    <2>4. FileNamesProcess'
      BY <1>4 DEF ExitNoticed, Looks, Return, Goto, TypeOK, InStart, StartAlone,
         StopInHand, FileNamesProcess
    <2>5. NamedUnlessLost'
      BY <1>4 DEF ExitNoticed, Looks, Return, Goto, TypeOK, InStart, StartAlone,
         StopInHand, NamedUnlessLost
    <2>6. DownMeansEnded'
      BY <1>4 DEF ExitNoticed, Looks, Return, Goto, TypeOK, InStart, StartAlone,
         StopInHand, NamedUnlessLost, DownMeansEnded
    <2>7. StopIsRecorded'
      BY <1>4 DEF ExitNoticed, Looks, Return, Goto, TypeOK, InStart, StartAlone,
         StopInHand, StopIsRecorded
    <2> QED
      BY <2>1, <2>2, <2>3, <2>4, <2>5, <2>6, <2>7 DEF IInv
  <1>5. ASSUME NEW m \in Managers, WritePid(m) PROVE IInv'
    <2>1. TypeOK'
      BY <1>5 DEF WritePid, Satisfied, Looks, Goto, TypeOK, InStart, StartAlone,
         StopInHand
    <2>2. StartAlone'
      BY <1>5 DEF WritePid, Satisfied, Looks, Goto, TypeOK, InStart, StartAlone,
         StopInHand, NamedUnlessLost
    <2>3. StopInHand'
      BY <1>5 DEF WritePid, Satisfied, Looks, Goto, TypeOK, InStart, StartAlone,
         StopInHand, FileNamesProcess, NamedUnlessLost
    <2>4. FileNamesProcess'
      BY <1>5 DEF WritePid, Satisfied, Looks, Goto, TypeOK, InStart, StartAlone,
         StopInHand, FileNamesProcess
    <2>5. NamedUnlessLost'
      BY <1>5 DEF WritePid, Satisfied, Looks, Goto, TypeOK, InStart, StartAlone,
         StopInHand, NamedUnlessLost
    <2>6. DownMeansEnded'
      BY <1>5 DEF WritePid, Satisfied, Looks, Goto, TypeOK, InStart, StartAlone,
         StopInHand, NamedUnlessLost, DownMeansEnded
    <2>7. StopIsRecorded'
      <3>1. pidFile' # None
        BY <1>5 DEF WritePid, TypeOK, InStart, StartAlone
      <3> QED
        BY <3>1 DEF StopIsRecorded
    <2> QED
      BY <2>1, <2>2, <2>3, <2>4, <2>5, <2>6, <2>7 DEF IInv
  <1>6. ASSUME NEW m \in Managers, RecordUp(m) PROVE IInv'
    <2>1. TypeOK'
      <3>1. torn' \in BOOLEAN
        BY <1>6 DEF RecordUp
      <3>2. TypeOK' \/ torn' \notin BOOLEAN
        BY <1>6 DEF RecordUp, Return, Goto, TypeOK
      <3> QED
        BY <3>1, <3>2
    <2>2. StartAlone'
      BY <1>6 DEF RecordUp, Return, Goto, TypeOK, InStart, StartAlone, StopInHand,
         NamedUnlessLost
    <2>3. StopInHand'
      BY <1>6 DEF RecordUp, Return, Goto, TypeOK, InStart, StartAlone, StopInHand,
         FileNamesProcess, NamedUnlessLost
    <2>4. FileNamesProcess'
      BY <1>6 DEF RecordUp, Return, Goto, TypeOK, InStart, StartAlone, StopInHand,
         FileNamesProcess
    <2>5. NamedUnlessLost'
      BY <1>6 DEF RecordUp, Return, Goto, TypeOK, InStart, StartAlone, StopInHand,
         NamedUnlessLost
    <2>6. DownMeansEnded'
      BY <1>6 DEF RecordUp, Return, Goto, TypeOK, InStart, StartAlone, StopInHand,
         NamedUnlessLost, DownMeansEnded
    <2>7. StopIsRecorded'
      BY <1>6 DEF RecordUp, Return, Goto, TypeOK, InStart, StartAlone, StopInHand,
         StopIsRecorded
    <2> QED
      BY <2>1, <2>2, <2>3, <2>4, <2>5, <2>6, <2>7 DEF IInv
  <1>7. ASSUME NEW m \in Managers, RollBack(m) PROVE IInv'
    <2>1. TypeOK'
      BY <1>7 DEF RollBack, Goto, TypeOK, InStart, StartAlone, StopInHand
    <2>2. StartAlone'
      BY <1>7 DEF RollBack, Goto, TypeOK, InStart, StartAlone, StopInHand,
         NamedUnlessLost
    <2>3. StopInHand'
      BY <1>7 DEF RollBack, Goto, TypeOK, InStart, StartAlone, StopInHand,
         FileNamesProcess, NamedUnlessLost
    <2>4. FileNamesProcess'
      BY <1>7 DEF RollBack, Goto, TypeOK, InStart, StartAlone, StopInHand,
         FileNamesProcess
    <2>5. NamedUnlessLost'
      BY <1>7 DEF RollBack, Goto, TypeOK, InStart, StartAlone, StopInHand,
         NamedUnlessLost
    <2>6. DownMeansEnded'
      BY <1>7 DEF RollBack, Goto, TypeOK, InStart, StartAlone, StopInHand,
         NamedUnlessLost, DownMeansEnded
    <2>7. StopIsRecorded'
      BY <1>7 DEF RollBack, Goto, TypeOK, InStart, StartAlone, StopInHand,
         StopIsRecorded
    <2> QED
      BY <2>1, <2>2, <2>3, <2>4, <2>5, <2>6, <2>7 DEF IInv
  <1>8. ASSUME NEW m \in Managers, OpenScript(m) PROVE IInv'
    <2>1. TypeOK'
      BY <1>8 DEF OpenScript, Goto, TypeOK, InStart, StartAlone, StopInHand
    <2>2. StartAlone'
      BY <1>8 DEF OpenScript, Goto, TypeOK, InStart, StartAlone, StopInHand,
         NamedUnlessLost
    <2>3. StopInHand'
      BY <1>8 DEF OpenScript, Goto, TypeOK, InStart, StartAlone, StopInHand,
         FileNamesProcess, NamedUnlessLost
    <2>4. FileNamesProcess'
      BY <1>8 DEF OpenScript, Goto, TypeOK, InStart, StartAlone, StopInHand,
         FileNamesProcess
    <2>5. NamedUnlessLost'
      BY <1>8 DEF OpenScript, Goto, TypeOK, InStart, StartAlone, StopInHand,
         NamedUnlessLost
    <2>6. DownMeansEnded'
      BY <1>8 DEF OpenScript, Goto, TypeOK, InStart, StartAlone, StopInHand,
         NamedUnlessLost, DownMeansEnded
    <2>7. StopIsRecorded'
      BY <1>8 DEF OpenScript, Goto, TypeOK, InStart, StartAlone, StopInHand,
         StopIsRecorded
    <2> QED
      BY <2>1, <2>2, <2>3, <2>4, <2>5, <2>6, <2>7 DEF IInv
  <1>9. ASSUME NEW m \in Managers, FillScript(m) PROVE IInv'
    <2>1. TypeOK'
      BY <1>9 DEF FillScript, Return, Goto, TypeOK, InStart, StartAlone, StopInHand
    <2>2. StartAlone'
      BY <1>9 DEF FillScript, Return, Goto, TypeOK, InStart, StartAlone, StopInHand,
         NamedUnlessLost
    <2>3. StopInHand'
      BY <1>9 DEF FillScript, Return, Goto, TypeOK, InStart, StartAlone, StopInHand,
         FileNamesProcess, NamedUnlessLost
    <2>4. FileNamesProcess'
      BY <1>9 DEF FillScript, Return, Goto, TypeOK, InStart, StartAlone, StopInHand,
         FileNamesProcess
    <2>5. NamedUnlessLost'
      BY <1>9 DEF FillScript, Return, Goto, TypeOK, InStart, StartAlone, StopInHand,
         NamedUnlessLost
    <2>6. DownMeansEnded'
      BY <1>9 DEF FillScript, Return, Goto, TypeOK, InStart, StartAlone, StopInHand,
         NamedUnlessLost, DownMeansEnded
    <2>7. StopIsRecorded'
      BY <1>9 DEF FillScript, Return, Goto, TypeOK, InStart, StartAlone, StopInHand,
         StopIsRecorded
    <2> QED
      BY <2>1, <2>2, <2>3, <2>4, <2>5, <2>6, <2>7 DEF IInv
  <1>10. ASSUME NEW m \in Managers, NoPidFile(m) PROVE IInv'
    <2>1. TypeOK'
      BY <1>10 DEF NoPidFile, Finish, Return, Goto, TypeOK, InStart, StartAlone,
         StopInHand
    <2>2. StartAlone'
      BY <1>10 DEF NoPidFile, Finish, Return, Goto, TypeOK, InStart, StartAlone,
         StopInHand, NamedUnlessLost
    <2>3. StopInHand'
      BY <1>10 DEF NoPidFile, Finish, Return, Goto, TypeOK, InStart, StartAlone,
         StopInHand, FileNamesProcess, NamedUnlessLost
    <2>4. FileNamesProcess'
      BY <1>10 DEF NoPidFile, Finish, Return, Goto, TypeOK, InStart, StartAlone,
         StopInHand, FileNamesProcess
    <2>5. NamedUnlessLost'
      BY <1>10 DEF NoPidFile, Finish, Return, Goto, TypeOK, InStart, StartAlone,
         StopInHand, NamedUnlessLost
    <2>6. DownMeansEnded'
      BY <1>10 DEF NoPidFile, Finish, Return, Goto, TypeOK, InStart, StartAlone,
         StopInHand, NamedUnlessLost, DownMeansEnded
    <2>7. StopIsRecorded'
      BY <1>10 DEF NoPidFile, Finish, Return, Goto, TypeOK, InStart, StartAlone,
         StopInHand, StopIsRecorded
    <2> QED
      BY <2>1, <2>2, <2>3, <2>4, <2>5, <2>6, <2>7 DEF IInv
  <1>11. ASSUME NEW m \in Managers, Signal(m) PROVE IInv'
    <2>1. TypeOK'
      BY <1>11 DEF Signal, Goto, TypeOK, InStart, StartAlone, StopInHand
    <2>2. StartAlone'
      BY <1>11 DEF Signal, Goto, TypeOK, InStart, StartAlone, StopInHand,
         NamedUnlessLost
    <2>3. StopInHand'
      BY <1>11 DEF Signal, Goto, TypeOK, InStart, StartAlone, StopInHand,
         FileNamesProcess, NamedUnlessLost
    <2>4. FileNamesProcess'
      BY <1>11 DEF Signal, Goto, TypeOK, InStart, StartAlone, StopInHand,
         FileNamesProcess
    <2>5. NamedUnlessLost'
      BY <1>11 DEF Signal, Goto, TypeOK, InStart, StartAlone, StopInHand,
         NamedUnlessLost
    <2>6. DownMeansEnded'
      BY <1>11 DEF Signal, Goto, TypeOK, InStart, StartAlone, StopInHand,
         NamedUnlessLost, DownMeansEnded
    <2>7. StopIsRecorded'
      BY <1>11 DEF Signal, Goto, TypeOK, InStart, StartAlone, StopInHand,
         StopIsRecorded
    <2> QED
      BY <2>1, <2>2, <2>3, <2>4, <2>5, <2>6, <2>7 DEF IInv
  <1>12. ASSUME NEW m \in Managers, WaitOn(m) PROVE IInv'
    <2>1. TypeOK'
      BY <1>12 DEF WaitOn, Tick, TypeOK, InStart, StartAlone, StopInHand
    <2>2. StartAlone'
      BY <1>12 DEF WaitOn, Tick, TypeOK, InStart, StartAlone, StopInHand,
         NamedUnlessLost
    <2>3. StopInHand'
      BY <1>12 DEF WaitOn, Tick, TypeOK, InStart, StartAlone, StopInHand,
         FileNamesProcess, NamedUnlessLost
    <2>4. FileNamesProcess'
      BY <1>12 DEF WaitOn, Tick, TypeOK, InStart, StartAlone, StopInHand,
         FileNamesProcess
    <2>5. NamedUnlessLost'
      BY <1>12 DEF WaitOn, Tick, TypeOK, InStart, StartAlone, StopInHand,
         NamedUnlessLost
    <2>6. DownMeansEnded'
      BY <1>12 DEF WaitOn, Tick, TypeOK, InStart, StartAlone, StopInHand,
         NamedUnlessLost, DownMeansEnded
    <2>7. StopIsRecorded'
      BY <1>12 DEF WaitOn, Tick, TypeOK, InStart, StartAlone, StopInHand,
         StopIsRecorded
    <2> QED
      BY <2>1, <2>2, <2>3, <2>4, <2>5, <2>6, <2>7 DEF IInv
  <1>13. ASSUME NEW m \in Managers, Ended(m) PROVE IInv'
    <2>1. TypeOK'
      BY <1>13 DEF Ended, Goto, TypeOK, InStart, StartAlone, StopInHand
    <2>2. StartAlone'
      BY <1>13 DEF Ended, Goto, TypeOK, InStart, StartAlone, StopInHand,
         NamedUnlessLost
    <2>3. StopInHand'
      BY <1>13 DEF Ended, Goto, TypeOK, InStart, StartAlone, StopInHand,
         FileNamesProcess, NamedUnlessLost
    <2>4. FileNamesProcess'
      BY <1>13 DEF Ended, Goto, TypeOK, InStart, StartAlone, StopInHand,
         FileNamesProcess
    <2>5. NamedUnlessLost'
      BY <1>13 DEF Ended, Goto, TypeOK, InStart, StartAlone, StopInHand,
         NamedUnlessLost
    <2>6. DownMeansEnded'
      BY <1>13 DEF Ended, Goto, TypeOK, InStart, StartAlone, StopInHand,
         NamedUnlessLost, DownMeansEnded
    <2>7. StopIsRecorded'
      BY <1>13 DEF Ended, Goto, TypeOK, InStart, StartAlone, StopInHand,
         StopIsRecorded
    <2> QED
      BY <2>1, <2>2, <2>3, <2>4, <2>5, <2>6, <2>7 DEF IInv
  <1>14. ASSUME NEW m \in Managers, GiveUp(m) PROVE IInv'
    <2>1. TypeOK'
      BY <1>14 DEF GiveUp, Finish, Return, Running, Goto, TypeOK, InStart, StartAlone,
         StopInHand
    <2>2. StartAlone'
      BY <1>14 DEF GiveUp, Finish, Return, Running, Goto, TypeOK, InStart, StartAlone,
         StopInHand, NamedUnlessLost
    <2>3. StopInHand'
      BY <1>14 DEF GiveUp, Finish, Return, Running, Goto, TypeOK, InStart, StartAlone,
         StopInHand, FileNamesProcess, NamedUnlessLost
    <2>4. FileNamesProcess'
      BY <1>14 DEF GiveUp, Finish, Return, Running, Goto, TypeOK, InStart, StartAlone,
         StopInHand, FileNamesProcess
    <2>5. NamedUnlessLost'
      BY <1>14 DEF GiveUp, Finish, Return, Running, Goto, TypeOK, InStart, StartAlone,
         StopInHand, NamedUnlessLost
    <2>6. DownMeansEnded'
      BY <1>14 DEF GiveUp, Finish, Return, Running, Goto, TypeOK, InStart, StartAlone,
         StopInHand, NamedUnlessLost, DownMeansEnded
    <2>7. StopIsRecorded'
      BY <1>14 DEF GiveUp, Finish, Return, Running, Goto, TypeOK, InStart, StartAlone,
         StopInHand, StopIsRecorded
    <2> QED
      BY <2>1, <2>2, <2>3, <2>4, <2>5, <2>6, <2>7 DEF IInv
  <1>15. ASSUME NEW m \in Managers, Unlink(m) PROVE IInv'
    <2>1. TypeOK'
      BY <1>15 DEF Unlink, Finish, Return, Goto, TypeOK, InStart, StartAlone,
         StopInHand
    <2>2. StartAlone'
      BY <1>15 DEF Unlink, Finish, Return, Goto, TypeOK, InStart, StartAlone,
         StopInHand, NamedUnlessLost
    <2>3. StopInHand'
      BY <1>15 DEF Unlink, Finish, Return, Goto, TypeOK, InStart, StartAlone,
         StopInHand, FileNamesProcess, NamedUnlessLost
    <2>4. FileNamesProcess'
      BY <1>15 DEF Unlink, Finish, Return, Goto, TypeOK, InStart, StartAlone,
         StopInHand, FileNamesProcess
    <2>5. NamedUnlessLost'
      BY <1>15 DEF Unlink, Finish, Return, Goto, TypeOK, InStart, StartAlone,
         StopInHand, NamedUnlessLost
    <2>6. DownMeansEnded'
      BY <1>15 DEF Unlink, Finish, Return, Goto, TypeOK, InStart, StartAlone,
         StopInHand, NamedUnlessLost, DownMeansEnded
    <2>7. StopIsRecorded'
      BY <1>15 DEF Unlink, Finish, Return, Goto, TypeOK, InStart, StartAlone,
         StopInHand, StopIsRecorded
    <2> QED
      BY <2>1, <2>2, <2>3, <2>4, <2>5, <2>6, <2>7 DEF IInv
  <1>16. ASSUME NEW m \in Managers, RecordDown(m) PROVE IInv'
    <2>1. TypeOK'
      <3>1. torn' \in BOOLEAN
        BY <1>16 DEF RecordDown
      <3>2. TypeOK' \/ torn' \notin BOOLEAN
        BY <1>16 DEF RecordDown, Return, Goto, TypeOK
      <3> QED
        BY <3>1, <3>2
    <2>2. StartAlone'
      BY <1>16 DEF RecordDown, Return, Goto, TypeOK, InStart, StartAlone, StopInHand,
         NamedUnlessLost
    <2>3. StopInHand'
      BY <1>16 DEF RecordDown, Return, Goto, TypeOK, InStart, StartAlone, StopInHand,
         FileNamesProcess, NamedUnlessLost
    <2>4. FileNamesProcess'
      BY <1>16 DEF RecordDown, Return, Goto, TypeOK, InStart, StartAlone, StopInHand,
         FileNamesProcess
    <2>5. NamedUnlessLost'
      BY <1>16 DEF RecordDown, Return, Goto, TypeOK, InStart, StartAlone, StopInHand,
         NamedUnlessLost
    <2>6. DownMeansEnded'
      BY <1>16 DEF RecordDown, Return, Goto, TypeOK, InStart, StartAlone, StopInHand,
         NamedUnlessLost, DownMeansEnded
    <2>7. StopIsRecorded'
      <3>1. recorded' # "up"
        BY <1>16 DEF RecordDown
      <3> QED
        BY <3>1 DEF StopIsRecorded
    <2> QED
      BY <2>1, <2>2, <2>3, <2>4, <2>5, <2>6, <2>7 DEF IInv
  <1>17. ASSUME NEW m \in Managers, TellMonitors(m) PROVE IInv'
    <2>1. TypeOK'
      BY <1>17 DEF TellMonitors, Goto, TypeOK, InStart, StartAlone, StopInHand
    <2>2. StartAlone'
      BY <1>17 DEF TellMonitors, Goto, TypeOK, InStart, StartAlone, StopInHand,
         NamedUnlessLost
    <2>3. StopInHand'
      BY <1>17 DEF TellMonitors, Goto, TypeOK, InStart, StartAlone, StopInHand,
         FileNamesProcess, NamedUnlessLost
    <2>4. FileNamesProcess'
      BY <1>17 DEF TellMonitors, Goto, TypeOK, InStart, StartAlone, StopInHand,
         FileNamesProcess
    <2>5. NamedUnlessLost'
      BY <1>17 DEF TellMonitors, Goto, TypeOK, InStart, StartAlone, StopInHand,
         NamedUnlessLost
    <2>6. DownMeansEnded'
      BY <1>17 DEF TellMonitors, Goto, TypeOK, InStart, StartAlone, StopInHand,
         NamedUnlessLost, DownMeansEnded
    <2>7. StopIsRecorded'
      BY <1>17 DEF TellMonitors, Goto, TypeOK, InStart, StartAlone, StopInHand,
         StopIsRecorded
    <2> QED
      BY <2>1, <2>2, <2>3, <2>4, <2>5, <2>6, <2>7 DEF IInv
  <1>18. ASSUME NEW m \in Managers, TellNobody(m) PROVE IInv'
    <2>1. TypeOK'
      <3>1. untold' \in BOOLEAN
        BY <1>18, TypeOK DEF TellNobody, TypeOK
      <3>2. TypeOK' \/ untold' \notin BOOLEAN
        BY <1>18 DEF TellNobody, CloseScript, Return, Goto, TypeOK
      <3> QED
        BY <3>1, <3>2
    <2>2. StartAlone'
      BY <1>18 DEF TellNobody, CloseScript, Return, Goto, TypeOK, InStart, StartAlone,
         StopInHand, NamedUnlessLost
    <2>3. StopInHand'
      BY <1>18 DEF TellNobody, CloseScript, Return, Goto, TypeOK, InStart, StartAlone,
         StopInHand, FileNamesProcess, NamedUnlessLost
    <2>4. FileNamesProcess'
      BY <1>18 DEF TellNobody, CloseScript, Return, Goto, TypeOK, InStart, StartAlone,
         StopInHand, FileNamesProcess
    <2>5. NamedUnlessLost'
      BY <1>18 DEF TellNobody, CloseScript, Return, Goto, TypeOK, InStart, StartAlone,
         StopInHand, NamedUnlessLost
    <2>6. DownMeansEnded'
      BY <1>18 DEF TellNobody, CloseScript, Return, Goto, TypeOK, InStart, StartAlone,
         StopInHand, NamedUnlessLost, DownMeansEnded
    <2>7. StopIsRecorded'
      BY <1>18 DEF TellNobody, CloseScript, Return, Goto, TypeOK, InStart, StartAlone,
         StopInHand, StopIsRecorded
    <2> QED
      BY <2>1, <2>2, <2>3, <2>4, <2>5, <2>6, <2>7 DEF IInv
  <1>19. ASSUME NEW m \in Managers, AwaitMonitors(m) PROVE IInv'
    <2>1. TypeOK'
      BY <1>19 DEF AwaitMonitors, Tick, TypeOK, InStart, StartAlone, StopInHand
    <2>2. StartAlone'
      BY <1>19 DEF AwaitMonitors, Tick, TypeOK, InStart, StartAlone, StopInHand,
         NamedUnlessLost
    <2>3. StopInHand'
      BY <1>19 DEF AwaitMonitors, Tick, TypeOK, InStart, StartAlone, StopInHand,
         FileNamesProcess, NamedUnlessLost
    <2>4. FileNamesProcess'
      BY <1>19 DEF AwaitMonitors, Tick, TypeOK, InStart, StartAlone, StopInHand,
         FileNamesProcess
    <2>5. NamedUnlessLost'
      BY <1>19 DEF AwaitMonitors, Tick, TypeOK, InStart, StartAlone, StopInHand,
         NamedUnlessLost
    <2>6. DownMeansEnded'
      BY <1>19 DEF AwaitMonitors, Tick, TypeOK, InStart, StartAlone, StopInHand,
         NamedUnlessLost, DownMeansEnded
    <2>7. StopIsRecorded'
      BY <1>19 DEF AwaitMonitors, Tick, TypeOK, InStart, StartAlone, StopInHand,
         StopIsRecorded
    <2> QED
      BY <2>1, <2>2, <2>3, <2>4, <2>5, <2>6, <2>7 DEF IInv
  <1>20. ASSUME NEW m \in Managers, LeaveMonitors(m) PROVE IInv'
    <2>1. TypeOK'
      <3>1. rmon' \in [Processes -> {"off", "on", "told", "late"}]
        BY <1>20 DEF LeaveMonitors, TypeOK
      <3>2. /\ pc' \in [Managers -> {"idle"} \cup Starting \cup Stopping]
            /\ pid' \in [Managers -> Processes \cup {None}]
            /\ ticks' \in [Managers -> 0 .. Polls + Limit]
            /\ undo' \subseteq Managers
            /\ script' = "absent"
        BY <1>20 DEF LeaveMonitors, CloseScript, Return, Goto, TypeOK
      <3> QED
        BY <1>20, <3>1, <3>2 DEF LeaveMonitors, TypeOK
    <2>2. StartAlone'
      BY <1>20 DEF LeaveMonitors, CloseScript, Return, Goto, TypeOK, InStart,
         StartAlone, StopInHand, NamedUnlessLost
    <2>3. StopInHand'
      BY <1>20 DEF LeaveMonitors, CloseScript, Return, Goto, TypeOK, InStart,
         StartAlone, StopInHand, FileNamesProcess, NamedUnlessLost
    <2>4. FileNamesProcess'
      BY <1>20 DEF LeaveMonitors, CloseScript, Return, Goto, TypeOK, InStart,
         StartAlone, StopInHand, FileNamesProcess
    <2>5. NamedUnlessLost'
      BY <1>20 DEF LeaveMonitors, CloseScript, Return, Goto, TypeOK, InStart,
         StartAlone, StopInHand, NamedUnlessLost
    <2>6. DownMeansEnded'
      BY <1>20 DEF LeaveMonitors, CloseScript, Return, Goto, TypeOK, InStart,
         StartAlone, StopInHand, NamedUnlessLost, DownMeansEnded
    <2>7. StopIsRecorded'
      BY <1>20 DEF LeaveMonitors, CloseScript, Return, Goto, TypeOK, InStart,
         StartAlone, StopInHand, StopIsRecorded
    <2> QED
      BY <2>1, <2>2, <2>3, <2>4, <2>5, <2>6, <2>7 DEF IInv
  <1>21. ASSUME NEW m \in Managers, Exit(m) PROVE IInv'
    <2>1. TypeOK'
      BY <1>21 DEF Exit, Orphan, Running, Return, Goto, TypeOK, InStart, StartAlone,
         StopInHand
    <2>2. StartAlone'
      BY <1>21 DEF Exit, Orphan, Running, Return, Goto, TypeOK, InStart, StartAlone,
         StopInHand, NamedUnlessLost
    <2>3. StopInHand'
      BY <1>21 DEF Exit, Orphan, Running, Return, Goto, TypeOK, InStart, StartAlone,
         StopInHand, FileNamesProcess, NamedUnlessLost
    <2>4. FileNamesProcess'
      BY <1>21 DEF Exit, Orphan, Running, Return, Goto, TypeOK, InStart, StartAlone,
         StopInHand, FileNamesProcess
    <2>5. NamedUnlessLost'
      BY <1>21 DEF Exit, Orphan, Running, Return, Goto, TypeOK, InStart, StartAlone,
         StopInHand, NamedUnlessLost
    <2>6. DownMeansEnded'
      BY <1>21 DEF Exit, Orphan, Running, Return, Goto, TypeOK, InStart, StartAlone,
         StopInHand, NamedUnlessLost, DownMeansEnded
    <2>7. StopIsRecorded'
      BY <1>21 DEF Exit, Orphan, Running, Return, Goto, TypeOK, InStart, StartAlone,
         StopInHand, StopIsRecorded
    <2> QED
      BY <2>1, <2>2, <2>3, <2>4, <2>5, <2>6, <2>7 DEF IInv
  <1>22. ASSUME NEW p \in Processes, End(p) PROVE IInv'
    <2>1. TypeOK'
      BY <1>22 DEF End, TypeOK, InStart, StartAlone, StopInHand
    <2>2. StartAlone'
      BY <1>22 DEF End, TypeOK, InStart, StartAlone, StopInHand, NamedUnlessLost
    <2>3. StopInHand'
      BY <1>22 DEF End, TypeOK, InStart, StartAlone, StopInHand, FileNamesProcess,
         NamedUnlessLost
    <2>4. FileNamesProcess'
      BY <1>22 DEF End, TypeOK, InStart, StartAlone, StopInHand, FileNamesProcess
    <2>5. NamedUnlessLost'
      BY <1>22 DEF End, TypeOK, InStart, StartAlone, StopInHand, NamedUnlessLost
    <2>6. DownMeansEnded'
      BY <1>22 DEF End, TypeOK, InStart, StartAlone, StopInHand, NamedUnlessLost,
         DownMeansEnded
    <2>7. StopIsRecorded'
      BY <1>22 DEF End, TypeOK, InStart, StartAlone, StopInHand, StopIsRecorded
    <2> QED
      BY <2>1, <2>2, <2>3, <2>4, <2>5, <2>6, <2>7 DEF IInv
  <1>23. ASSUME NEW p \in Processes, Ready(p) PROVE IInv'
    <2>1. TypeOK'
      BY <1>23 DEF Ready, TypeOK, InStart, StartAlone, StopInHand
    <2>2. StartAlone'
      BY <1>23 DEF Ready, TypeOK, InStart, StartAlone, StopInHand, NamedUnlessLost
    <2>3. StopInHand'
      BY <1>23 DEF Ready, TypeOK, InStart, StartAlone, StopInHand, FileNamesProcess,
         NamedUnlessLost
    <2>4. FileNamesProcess'
      BY <1>23 DEF Ready, TypeOK, InStart, StartAlone, StopInHand, FileNamesProcess
    <2>5. NamedUnlessLost'
      BY <1>23 DEF Ready, TypeOK, InStart, StartAlone, StopInHand, NamedUnlessLost
    <2>6. DownMeansEnded'
      BY <1>23 DEF Ready, TypeOK, InStart, StartAlone, StopInHand, NamedUnlessLost,
         DownMeansEnded
    <2>7. StopIsRecorded'
      BY <1>23 DEF Ready, TypeOK, InStart, StartAlone, StopInHand, StopIsRecorded
    <2> QED
      BY <2>1, <2>2, <2>3, <2>4, <2>5, <2>6, <2>7 DEF IInv
  <1>24. ASSUME NEW p \in Processes, Reap(p) PROVE IInv'
    <2>1. TypeOK'
      BY <1>24 DEF Reap, TypeOK, InStart, StartAlone, StopInHand
    <2>2. StartAlone'
      BY <1>24 DEF Reap, TypeOK, InStart, StartAlone, StopInHand, NamedUnlessLost
    <2>3. StopInHand'
      BY <1>24 DEF Reap, TypeOK, InStart, StartAlone, StopInHand, FileNamesProcess,
         NamedUnlessLost
    <2>4. FileNamesProcess'
      BY <1>24 DEF Reap, TypeOK, InStart, StartAlone, StopInHand, FileNamesProcess
    <2>5. NamedUnlessLost'
      BY <1>24 DEF Reap, TypeOK, InStart, StartAlone, StopInHand, NamedUnlessLost
    <2>6. DownMeansEnded'
      BY <1>24 DEF Reap, TypeOK, InStart, StartAlone, StopInHand, NamedUnlessLost,
         DownMeansEnded
    <2>7. StopIsRecorded'
      BY <1>24 DEF Reap, TypeOK, InStart, StartAlone, StopInHand, StopIsRecorded
    <2> QED
      BY <2>1, <2>2, <2>3, <2>4, <2>5, <2>6, <2>7 DEF IInv
  <1>25. ASSUME NEW p \in Processes, RmonEnds(p) PROVE IInv'
    <2>1. TypeOK'
      BY <1>25 DEF RmonEnds, TypeOK, InStart, StartAlone, StopInHand
    <2>2. StartAlone'
      BY <1>25 DEF RmonEnds, TypeOK, InStart, StartAlone, StopInHand, NamedUnlessLost
    <2>3. StopInHand'
      BY <1>25 DEF RmonEnds, TypeOK, InStart, StartAlone, StopInHand,
         FileNamesProcess, NamedUnlessLost
    <2>4. FileNamesProcess'
      BY <1>25 DEF RmonEnds, TypeOK, InStart, StartAlone, StopInHand, FileNamesProcess
    <2>5. NamedUnlessLost'
      BY <1>25 DEF RmonEnds, TypeOK, InStart, StartAlone, StopInHand, NamedUnlessLost
    <2>6. DownMeansEnded'
      BY <1>25 DEF RmonEnds, TypeOK, InStart, StartAlone, StopInHand, NamedUnlessLost,
         DownMeansEnded
    <2>7. StopIsRecorded'
      BY <1>25 DEF RmonEnds, TypeOK, InStart, StartAlone, StopInHand, StopIsRecorded
    <2> QED
      BY <2>1, <2>2, <2>3, <2>4, <2>5, <2>6, <2>7 DEF IInv
  <1>26. CASE UNCHANGED vars
    <2>1. TypeOK'
      BY <1>26 DEF vars, TypeOK
    <2>2. StartAlone'
      BY <1>26 DEF vars, StartAlone, InStart
    <2>3. StopInHand'
      BY <1>26 DEF vars, StopInHand
    <2>4. FileNamesProcess'
      BY <1>26 DEF vars, FileNamesProcess
    <2>5. NamedUnlessLost'
      BY <1>26 DEF vars, NamedUnlessLost
    <2>6. DownMeansEnded'
      BY <1>26 DEF vars, DownMeansEnded, InStart
    <2>7. StopIsRecorded'
      BY <1>26 DEF vars, StopIsRecorded
    <2> QED
      BY <2>1, <2>2, <2>3, <2>4, <2>5, <2>6, <2>7 DEF IInv
  <1> QED
    BY <1>1, <1>2, <1>3, <1>4, <1>5, <1>6, <1>7, <1>8, <1>9, <1>10, <1>11, <1>12,
       <1>13, <1>14, <1>15, <1>16, <1>17, <1>18, <1>19, <1>20, <1>21, <1>22, <1>23,
       <1>24, <1>25, <1>26 DEF Next, CallStep, OverlapStep

\* The invariant holds in every reachable state, and the rest follows from it.
THEOREM Invariance == Spec => []IInv
  <1>1. Spec => Init /\ [][Next]_vars
    BY DEF Spec
  <1> QED
    BY <1>1, InitInvariant, NextInvariant, PTL

\* Every reachable state is well typed; no call looks more often than it may.
THEOREM TypeCorrect == Spec => []TypeOK
  <1>1. IInv => TypeOK
    BY DEF IInv
  <1> QED
    BY <1>1, Invariance, PTL

\* A process that runs is named by the pid file from the end of its start to the
\* end of its stop, however many stops overlap and whoever is killed.
THEOREM RunningIsNamed == Spec => []NamedUnlessLost
  <1>1. IInv => NamedUnlessLost
    BY DEF IInv
  <1> QED
    BY <1>1, Invariance, PTL

\* "down" in status.json is true, whichever of several stops wrote it; except for
\* processes a stop gave up on, and starts that were killed.
THEOREM DownIsEnded == Spec => []DownMeansEnded
  <1>1. IInv => DownMeansEnded
    BY DEF IInv
  <1> QED
    BY <1>1, Invariance, PTL

\* However many stops overlap and raise at each other's deletions, one of them
\* records the end, unless it is killed before, or rolls a start back.
THEOREM StopsAreRecorded == Spec => []StopIsRecorded
  <1>1. IInv => StopIsRecorded
    BY DEF IInv
  <1> QED
    BY <1>1, Invariance, PTL

-----------------------------------------------------------------------------
\* At first no monitor is there.
LEMMA InitMonitors == Init => RInv
  <1> SUFFICES ASSUME Init PROVE RInv
    OBVIOUS
  <1> USE BackgroundAssumption
  <1>1. ScriptInHand
    BY DEF Init, UsesScript, ScriptInHand
  <1>2. MonitorsLive
    BY DEF Init, UsesScript, MonitorsLive
  <1>3. MonitorsNamed
    BY DEF Init, UsesScript, MonitorsNamed
  <1>4. WaitsForEnding
    BY DEF Init, UsesScript, WaitsForEnding
  <1>5. MonitorsEndFirst
    BY DEF Init, UsesScript, MonitorsEndFirst
  <1> QED
    BY <1>1, <1>2, <1>3, <1>4, <1>5 DEF RInv, Told

\* What has kept a monitor from being told is not forgotten.
LEMMA UntoldStays == untold /\ [Next]_vars => untold'
  <1> SUFFICES ASSUME untold, [Next]_vars PROVE untold'
    OBVIOUS
  <1>1. ASSUME NEW m \in Managers, Launch(m) PROVE untold'
    BY <1>1 DEF Launch
  <1>2. ASSUME NEW m \in Managers, BeginStop(m) PROVE untold'
    BY <1>2 DEF BeginStop
  <1>3. ASSUME NEW m \in Managers, Await(m) PROVE untold'
    BY <1>3 DEF Await
  <1>4. ASSUME NEW m \in Managers, ExitNoticed(m) PROVE untold'
    BY <1>4 DEF ExitNoticed
  <1>5. ASSUME NEW m \in Managers, WritePid(m) PROVE untold'
    BY <1>5 DEF WritePid
  <1>6. ASSUME NEW m \in Managers, RecordUp(m) PROVE untold'
    BY <1>6 DEF RecordUp
  <1>7. ASSUME NEW m \in Managers, RollBack(m) PROVE untold'
    BY <1>7 DEF RollBack
  <1>8. ASSUME NEW m \in Managers, OpenScript(m) PROVE untold'
    BY <1>8 DEF OpenScript
  <1>9. ASSUME NEW m \in Managers, FillScript(m) PROVE untold'
    BY <1>9 DEF FillScript
  <1>10. ASSUME NEW m \in Managers, NoPidFile(m) PROVE untold'
    BY <1>10 DEF NoPidFile
  <1>11. ASSUME NEW m \in Managers, Signal(m) PROVE untold'
    BY <1>11 DEF Signal
  <1>12. ASSUME NEW m \in Managers, WaitOn(m) PROVE untold'
    BY <1>12 DEF WaitOn
  <1>13. ASSUME NEW m \in Managers, Ended(m) PROVE untold'
    BY <1>13 DEF Ended
  <1>14. ASSUME NEW m \in Managers, GiveUp(m) PROVE untold'
    BY <1>14 DEF GiveUp
  <1>15. ASSUME NEW m \in Managers, Unlink(m) PROVE untold'
    BY <1>15 DEF Unlink
  <1>16. ASSUME NEW m \in Managers, RecordDown(m) PROVE untold'
    BY <1>16 DEF RecordDown
  <1>17. ASSUME NEW m \in Managers, TellMonitors(m) PROVE untold'
    BY <1>17 DEF TellMonitors
  <1>18. ASSUME NEW m \in Managers, TellNobody(m) PROVE untold'
    BY <1>18 DEF TellNobody
  <1>19. ASSUME NEW m \in Managers, AwaitMonitors(m) PROVE untold'
    BY <1>19 DEF AwaitMonitors
  <1>20. ASSUME NEW m \in Managers, LeaveMonitors(m) PROVE untold'
    BY <1>20 DEF LeaveMonitors
  <1>21. ASSUME NEW m \in Managers, Exit(m) PROVE untold'
    BY <1>21 DEF Exit
  <1>22. ASSUME NEW p \in Processes, End(p) PROVE untold'
    BY <1>22 DEF End
  <1>23. ASSUME NEW p \in Processes, Ready(p) PROVE untold'
    BY <1>23 DEF Ready
  <1>24. ASSUME NEW p \in Processes, Reap(p) PROVE untold'
    BY <1>24 DEF Reap
  <1>25. ASSUME NEW p \in Processes, RmonEnds(p) PROVE untold'
    BY <1>25 DEF RmonEnds
  <1>26. CASE UNCHANGED vars
    BY <1>26 DEF vars
  <1> QED
    BY <1>1, <1>2, <1>3, <1>4, <1>5, <1>6, <1>7, <1>8, <1>9, <1>10, <1>11, <1>12,
       <1>13, <1>14, <1>15, <1>16, <1>17, <1>18, <1>19, <1>20, <1>21, <1>22, <1>23,
       <1>24, <1>25, <1>26 DEF Next, CallStep, OverlapStep

\* While nothing has kept the monitors from being told, a step keeps what stop
\* knows of them.
LEMMA NextTold == ~untold' /\ IInv /\ Told /\ [Next]_vars => Told'
  <1> SUFFICES ASSUME ~untold', IInv, Told, [Next]_vars PROVE Told'
    OBVIOUS
  <1> USE BackgroundAssumption DEF IInv, Told
  <1>1. ASSUME NEW m \in Managers, Launch(m) PROVE Told'
    <2>1. ScriptInHand'
      BY <1>1 DEF Launch, MayLaunch, Goto, TypeOK, UsesScript, ScriptInHand
    <2>2. MonitorsLive'
      BY <1>1 DEF Launch, MayLaunch, Goto, TypeOK, MonitorsLive
    <2>3. MonitorsNamed'
      BY <1>1 DEF Launch, MayLaunch, Goto, TypeOK, UsesScript, InStart, StartAlone,
         FileNamesProcess, ScriptInHand, MonitorsLive, MonitorsNamed, WaitsForEnding,
         MonitorsEndFirst
    <2>4. WaitsForEnding'
      BY <1>1 DEF Launch, MayLaunch, Goto, TypeOK, InStart, StartAlone, StopInHand,
         FileNamesProcess, MonitorsNamed, WaitsForEnding
    <2>5. MonitorsEndFirst'
      BY <1>1 DEF Launch, MayLaunch, Goto, TypeOK, ScriptInHand, MonitorsLive,
         MonitorsNamed, WaitsForEnding, MonitorsEndFirst
    <2> QED
      BY <2>1, <2>2, <2>3, <2>4, <2>5 DEF Told
  <1>2. ASSUME NEW m \in Managers, BeginStop(m) PROVE Told'
    <2>1. ScriptInHand'
      BY <1>2 DEF BeginStop, Goto, TypeOK, UsesScript, ScriptInHand
    <2>2. MonitorsLive'
      BY <1>2 DEF BeginStop, Goto, TypeOK, MonitorsLive
    <2>3. MonitorsNamed'
      BY <1>2 DEF BeginStop, Goto, TypeOK, UsesScript, InStart, StartAlone,
         FileNamesProcess, ScriptInHand, MonitorsLive, MonitorsNamed, WaitsForEnding,
         MonitorsEndFirst
    <2>4. WaitsForEnding'
      BY <1>2 DEF BeginStop, Goto, TypeOK, InStart, StartAlone, StopInHand,
         FileNamesProcess, MonitorsNamed, WaitsForEnding
    <2>5. MonitorsEndFirst'
      BY <1>2 DEF BeginStop, Goto, TypeOK, ScriptInHand, MonitorsLive, MonitorsNamed,
         WaitsForEnding, MonitorsEndFirst
    <2> QED
      BY <2>1, <2>2, <2>3, <2>4, <2>5 DEF Told
  <1>3. ASSUME NEW m \in Managers, Await(m) PROVE Told'
    <2>1. ScriptInHand'
      BY <1>3 DEF Await, Patience, Looks, Tick, TypeOK, UsesScript, ScriptInHand
    <2>2. MonitorsLive'
      BY <1>3 DEF Await, Patience, Looks, Tick, TypeOK, MonitorsLive
    <2>3. MonitorsNamed'
      BY <1>3 DEF Await, Patience, Looks, Tick, TypeOK, UsesScript, InStart,
         StartAlone, FileNamesProcess, ScriptInHand, MonitorsLive, MonitorsNamed,
         WaitsForEnding, MonitorsEndFirst
    <2>4. WaitsForEnding'
      BY <1>3 DEF Await, Patience, Looks, Tick, TypeOK, InStart, StartAlone,
         StopInHand, FileNamesProcess, MonitorsNamed, WaitsForEnding
    <2>5. MonitorsEndFirst'
      BY <1>3 DEF Await, Patience, Looks, Tick, TypeOK, ScriptInHand, MonitorsLive,
         MonitorsNamed, WaitsForEnding, MonitorsEndFirst
    <2> QED
      BY <2>1, <2>2, <2>3, <2>4, <2>5 DEF Told
  <1>4. ASSUME NEW m \in Managers, ExitNoticed(m) PROVE Told'
    <2>1. ScriptInHand'
      BY <1>4 DEF ExitNoticed, Looks, Return, Goto, TypeOK, UsesScript, ScriptInHand
    <2>2. MonitorsLive'
      BY <1>4 DEF ExitNoticed, Looks, Return, Goto, TypeOK, MonitorsLive
    <2>3. MonitorsNamed'
      BY <1>4 DEF ExitNoticed, Looks, Return, Goto, TypeOK, UsesScript, InStart,
         StartAlone, FileNamesProcess, ScriptInHand, MonitorsLive, MonitorsNamed,
         WaitsForEnding, MonitorsEndFirst
    <2>4. WaitsForEnding'
      BY <1>4 DEF ExitNoticed, Looks, Return, Goto, TypeOK, InStart, StartAlone,
         StopInHand, FileNamesProcess, MonitorsNamed, WaitsForEnding
    <2>5. MonitorsEndFirst'
      BY <1>4 DEF ExitNoticed, Looks, Return, Goto, TypeOK, ScriptInHand,
         MonitorsLive, MonitorsNamed, WaitsForEnding, MonitorsEndFirst
    <2> QED
      BY <2>1, <2>2, <2>3, <2>4, <2>5 DEF Told
  <1>5. ASSUME NEW m \in Managers, WritePid(m) PROVE Told'
    <2>1. ScriptInHand'
      BY <1>5 DEF WritePid, Satisfied, Looks, Goto, TypeOK, UsesScript, ScriptInHand
    <2>2. MonitorsLive'
      BY <1>5 DEF WritePid, Satisfied, Looks, Goto, TypeOK, MonitorsLive
    <2>3. MonitorsNamed'
      BY <1>5 DEF WritePid, Satisfied, Looks, Goto, TypeOK, UsesScript, InStart,
         StartAlone, FileNamesProcess, ScriptInHand, MonitorsLive, MonitorsNamed,
         WaitsForEnding, MonitorsEndFirst
    <2>4. WaitsForEnding'
      BY <1>5 DEF WritePid, Satisfied, Looks, Goto, TypeOK, InStart, StartAlone,
         StopInHand, FileNamesProcess, MonitorsNamed, WaitsForEnding
    <2>5. MonitorsEndFirst'
      BY <1>5 DEF WritePid, Satisfied, Looks, Goto, TypeOK, ScriptInHand,
         MonitorsLive, MonitorsNamed, WaitsForEnding, MonitorsEndFirst
    <2> QED
      BY <2>1, <2>2, <2>3, <2>4, <2>5 DEF Told
  <1>6. ASSUME NEW m \in Managers, RecordUp(m) PROVE Told'
    <2>1. ScriptInHand'
      BY <1>6 DEF RecordUp, Return, Goto, TypeOK, UsesScript, ScriptInHand
    <2>2. MonitorsLive'
      BY <1>6 DEF RecordUp, Return, Goto, TypeOK, MonitorsLive
    <2>3. MonitorsNamed'
      BY <1>6 DEF RecordUp, Return, Goto, TypeOK, UsesScript, InStart, StartAlone,
         FileNamesProcess, ScriptInHand, MonitorsLive, MonitorsNamed, WaitsForEnding,
         MonitorsEndFirst
    <2>4. WaitsForEnding'
      BY <1>6 DEF RecordUp, Return, Goto, TypeOK, InStart, StartAlone, StopInHand,
         FileNamesProcess, MonitorsNamed, WaitsForEnding
    <2>5. MonitorsEndFirst'
      BY <1>6 DEF RecordUp, Return, Goto, TypeOK, ScriptInHand, MonitorsLive,
         MonitorsNamed, WaitsForEnding, MonitorsEndFirst
    <2> QED
      BY <2>1, <2>2, <2>3, <2>4, <2>5 DEF Told
  <1>7. ASSUME NEW m \in Managers, RollBack(m) PROVE Told'
    <2>1. ScriptInHand'
      BY <1>7 DEF RollBack, Goto, TypeOK, UsesScript, ScriptInHand
    <2>2. MonitorsLive'
      BY <1>7 DEF RollBack, Goto, TypeOK, MonitorsLive
    <2>3. MonitorsNamed'
      BY <1>7 DEF RollBack, Goto, TypeOK, UsesScript, InStart, StartAlone,
         FileNamesProcess, ScriptInHand, MonitorsLive, MonitorsNamed, WaitsForEnding,
         MonitorsEndFirst
    <2>4. WaitsForEnding'
      BY <1>7 DEF RollBack, Goto, TypeOK, InStart, StartAlone, StopInHand,
         FileNamesProcess, MonitorsNamed, WaitsForEnding
    <2>5. MonitorsEndFirst'
      BY <1>7 DEF RollBack, Goto, TypeOK, ScriptInHand, MonitorsLive, MonitorsNamed,
         WaitsForEnding, MonitorsEndFirst
    <2> QED
      BY <2>1, <2>2, <2>3, <2>4, <2>5 DEF Told
  <1>8. ASSUME NEW m \in Managers, OpenScript(m) PROVE Told'
    <2>1. ScriptInHand'
      BY <1>8 DEF OpenScript, Goto, TypeOK, UsesScript, ScriptInHand
    <2>2. MonitorsLive'
      BY <1>8 DEF OpenScript, Goto, TypeOK, MonitorsLive
    <2>3. MonitorsNamed'
      BY <1>8 DEF OpenScript, Goto, TypeOK, UsesScript, InStart, StartAlone,
         FileNamesProcess, ScriptInHand, MonitorsLive, MonitorsNamed, WaitsForEnding,
         MonitorsEndFirst
    <2>4. WaitsForEnding'
      BY <1>8 DEF OpenScript, Goto, TypeOK, InStart, StartAlone, StopInHand,
         FileNamesProcess, MonitorsNamed, WaitsForEnding
    <2>5. MonitorsEndFirst'
      BY <1>8 DEF OpenScript, Goto, TypeOK, ScriptInHand, MonitorsLive, MonitorsNamed,
         WaitsForEnding, MonitorsEndFirst
    <2> QED
      BY <2>1, <2>2, <2>3, <2>4, <2>5 DEF Told
  <1>9. ASSUME NEW m \in Managers, FillScript(m) PROVE Told'
    <2>1. ScriptInHand'
      BY <1>9 DEF FillScript, Return, Goto, TypeOK, UsesScript, ScriptInHand
    <2>2. MonitorsLive'
      BY <1>9 DEF FillScript, Return, Goto, TypeOK, MonitorsLive
    <2>3. MonitorsNamed'
      BY <1>9 DEF FillScript, Return, Goto, TypeOK, UsesScript, InStart, StartAlone,
         FileNamesProcess, ScriptInHand, MonitorsLive, MonitorsNamed, WaitsForEnding,
         MonitorsEndFirst
    <2>4. WaitsForEnding'
      BY <1>9 DEF FillScript, Return, Goto, TypeOK, InStart, StartAlone, StopInHand,
         FileNamesProcess, MonitorsNamed, WaitsForEnding
    <2>5. MonitorsEndFirst'
      BY <1>9 DEF FillScript, Return, Goto, TypeOK, ScriptInHand, MonitorsLive,
         MonitorsNamed, WaitsForEnding, MonitorsEndFirst
    <2> QED
      BY <2>1, <2>2, <2>3, <2>4, <2>5 DEF Told
  <1>10. ASSUME NEW m \in Managers, NoPidFile(m) PROVE Told'
    <2>1. ScriptInHand'
      BY <1>10 DEF NoPidFile, Finish, Return, Goto, TypeOK, UsesScript, ScriptInHand
    <2>2. MonitorsLive'
      BY <1>10 DEF NoPidFile, Finish, Return, Goto, TypeOK, MonitorsLive
    <2>3. MonitorsNamed'
      BY <1>10 DEF NoPidFile, Finish, Return, Goto, TypeOK, UsesScript, InStart,
         StartAlone, FileNamesProcess, ScriptInHand, MonitorsLive, MonitorsNamed,
         WaitsForEnding, MonitorsEndFirst
    <2>4. WaitsForEnding'
      BY <1>10 DEF NoPidFile, Finish, Return, Goto, TypeOK, InStart, StartAlone,
         StopInHand, FileNamesProcess, MonitorsNamed, WaitsForEnding
    <2>5. MonitorsEndFirst'
      BY <1>10 DEF NoPidFile, Finish, Return, Goto, TypeOK, ScriptInHand,
         MonitorsLive, MonitorsNamed, WaitsForEnding, MonitorsEndFirst
    <2> QED
      BY <2>1, <2>2, <2>3, <2>4, <2>5 DEF Told
  <1>11. ASSUME NEW m \in Managers, Signal(m) PROVE Told'
    <2>1. ScriptInHand'
      BY <1>11 DEF Signal, Goto, TypeOK, UsesScript, ScriptInHand
    <2>2. MonitorsLive'
      BY <1>11 DEF Signal, Goto, TypeOK, MonitorsLive
    <2>3. MonitorsNamed'
      BY <1>11 DEF Signal, Goto, TypeOK, UsesScript, InStart, StartAlone,
         FileNamesProcess, ScriptInHand, MonitorsLive, MonitorsNamed, WaitsForEnding,
         MonitorsEndFirst
    <2>4. WaitsForEnding'
      BY <1>11 DEF Signal, Goto, TypeOK, InStart, StartAlone, StopInHand,
         FileNamesProcess, MonitorsNamed, WaitsForEnding
    <2>5. MonitorsEndFirst'
      BY <1>11 DEF Signal, Goto, TypeOK, ScriptInHand, MonitorsLive, MonitorsNamed,
         WaitsForEnding, MonitorsEndFirst
    <2> QED
      BY <2>1, <2>2, <2>3, <2>4, <2>5 DEF Told
  <1>12. ASSUME NEW m \in Managers, WaitOn(m) PROVE Told'
    <2>1. ScriptInHand'
      BY <1>12 DEF WaitOn, Tick, TypeOK, UsesScript, ScriptInHand
    <2>2. MonitorsLive'
      BY <1>12 DEF WaitOn, Tick, TypeOK, MonitorsLive
    <2>3. MonitorsNamed'
      BY <1>12 DEF WaitOn, Tick, TypeOK, UsesScript, InStart, StartAlone,
         FileNamesProcess, ScriptInHand, MonitorsLive, MonitorsNamed, WaitsForEnding,
         MonitorsEndFirst
    <2>4. WaitsForEnding'
      BY <1>12 DEF WaitOn, Tick, TypeOK, InStart, StartAlone, StopInHand,
         FileNamesProcess, MonitorsNamed, WaitsForEnding
    <2>5. MonitorsEndFirst'
      BY <1>12 DEF WaitOn, Tick, TypeOK, ScriptInHand, MonitorsLive, MonitorsNamed,
         WaitsForEnding, MonitorsEndFirst
    <2> QED
      BY <2>1, <2>2, <2>3, <2>4, <2>5 DEF Told
  <1>13. ASSUME NEW m \in Managers, Ended(m) PROVE Told'
    <2>1. ScriptInHand'
      BY <1>13 DEF Ended, Goto, TypeOK, UsesScript, ScriptInHand
    <2>2. MonitorsLive'
      BY <1>13 DEF Ended, Goto, TypeOK, MonitorsLive, SeenEnded, StopInHand
    <2>3. MonitorsNamed'
      BY <1>13 DEF Ended, Goto, TypeOK, UsesScript, InStart, StartAlone,
         FileNamesProcess, ScriptInHand, MonitorsLive, MonitorsNamed, WaitsForEnding,
         MonitorsEndFirst
    <2>4. WaitsForEnding'
      BY <1>13 DEF Ended, Goto, TypeOK, InStart, StartAlone, StopInHand,
         FileNamesProcess, MonitorsNamed, WaitsForEnding
    <2>5. MonitorsEndFirst'
      BY <1>13 DEF Ended, Goto, TypeOK, ScriptInHand, MonitorsLive, MonitorsNamed,
         WaitsForEnding, MonitorsEndFirst
    <2> QED
      BY <2>1, <2>2, <2>3, <2>4, <2>5 DEF Told
  <1>14. ASSUME NEW m \in Managers, GiveUp(m) PROVE Told'
    <2>1. ScriptInHand'
      BY <1>14 DEF GiveUp, Finish, Return, Running, Goto, TypeOK, UsesScript,
         ScriptInHand
    <2>2. MonitorsLive'
      BY <1>14 DEF GiveUp, Finish, Return, Running, Goto, TypeOK, MonitorsLive
    <2>3. MonitorsNamed'
      BY <1>14 DEF GiveUp, Finish, Return, Running, Goto, TypeOK, UsesScript, InStart,
         StartAlone, FileNamesProcess, ScriptInHand, MonitorsLive, MonitorsNamed,
         WaitsForEnding, MonitorsEndFirst
    <2>4. WaitsForEnding'
      BY <1>14 DEF GiveUp, Finish, Return, Running, Goto, TypeOK, InStart, StartAlone,
         StopInHand, FileNamesProcess, MonitorsNamed, WaitsForEnding
    <2>5. MonitorsEndFirst'
      BY <1>14 DEF GiveUp, Finish, Return, Running, Goto, TypeOK, ScriptInHand,
         MonitorsLive, MonitorsNamed, WaitsForEnding, MonitorsEndFirst
    <2> QED
      BY <2>1, <2>2, <2>3, <2>4, <2>5 DEF Told
  <1>15. ASSUME NEW m \in Managers, Unlink(m) PROVE Told'
    <2>1. ScriptInHand'
      BY <1>15 DEF Unlink, Finish, Return, Goto, TypeOK, UsesScript, ScriptInHand
    <2>2. MonitorsLive'
      BY <1>15 DEF Unlink, Finish, Return, Goto, TypeOK, MonitorsLive
    <2>3. MonitorsNamed'
      BY <1>15 DEF Unlink, Finish, Return, Goto, TypeOK, UsesScript, InStart,
         StartAlone, FileNamesProcess, ScriptInHand, MonitorsLive, MonitorsNamed,
         WaitsForEnding, MonitorsEndFirst
    <2>4. WaitsForEnding'
      BY <1>15 DEF Unlink, Finish, Return, Goto, TypeOK, InStart, StartAlone,
         StopInHand, FileNamesProcess, MonitorsNamed, WaitsForEnding
    <2>5. MonitorsEndFirst'
      BY <1>15 DEF Unlink, Finish, Return, Goto, TypeOK, ScriptInHand, MonitorsLive,
         MonitorsNamed, WaitsForEnding, MonitorsEndFirst
    <2> QED
      BY <2>1, <2>2, <2>3, <2>4, <2>5 DEF Told
  <1>16. ASSUME NEW m \in Managers, RecordDown(m) PROVE Told'
    <2>1. ScriptInHand'
      BY <1>16 DEF RecordDown, Return, Goto, TypeOK, UsesScript, ScriptInHand
    <2>2. MonitorsLive'
      BY <1>16 DEF RecordDown, Return, Goto, TypeOK, MonitorsLive
    <2>3. MonitorsNamed'
      BY <1>16 DEF RecordDown, Return, Goto, TypeOK, UsesScript, InStart, StartAlone,
         FileNamesProcess, ScriptInHand, MonitorsLive, MonitorsNamed, WaitsForEnding,
         MonitorsEndFirst
    <2>4. WaitsForEnding'
      BY <1>16 DEF RecordDown, Return, Goto, TypeOK, InStart, StartAlone, StopInHand,
         FileNamesProcess, MonitorsNamed, WaitsForEnding
    <2>5. MonitorsEndFirst'
      BY <1>16 DEF RecordDown, Return, Goto, TypeOK, ScriptInHand, MonitorsLive,
         MonitorsNamed, WaitsForEnding, MonitorsEndFirst
    <2> QED
      BY <2>1, <2>2, <2>3, <2>4, <2>5 DEF Told
  <1>17. ASSUME NEW m \in Managers, TellMonitors(m) PROVE Told'
    <2>1. ScriptInHand'
      BY <1>17 DEF TellMonitors, Goto, TypeOK, UsesScript, ScriptInHand
    <2>2. MonitorsLive'
      BY <1>17 DEF TellMonitors, Goto, TypeOK, MonitorsLive
    <2>3. MonitorsNamed'
      BY <1>17 DEF TellMonitors, Goto, TypeOK, UsesScript, InStart, StartAlone,
         FileNamesProcess, ScriptInHand, MonitorsLive, MonitorsNamed, WaitsForEnding,
         MonitorsEndFirst
    <2>4. WaitsForEnding'
      BY <1>17 DEF TellMonitors, Goto, TypeOK, InStart, StartAlone, StopInHand,
         FileNamesProcess, MonitorsNamed, WaitsForEnding
    <2>5. MonitorsEndFirst'
      BY <1>17 DEF TellMonitors, Goto, TypeOK, ScriptInHand, MonitorsLive,
         MonitorsNamed, WaitsForEnding, MonitorsEndFirst
    <2> QED
      BY <2>1, <2>2, <2>3, <2>4, <2>5 DEF Told
  <1>18. ASSUME NEW m \in Managers, TellNobody(m) PROVE Told'
    <2>1. ScriptInHand'
      BY <1>18 DEF TellNobody, CloseScript, Return, Goto, TypeOK, UsesScript,
         ScriptInHand
    <2>2. MonitorsLive'
      BY <1>18 DEF TellNobody, CloseScript, Return, Goto, TypeOK, MonitorsLive
    <2>3. MonitorsNamed'
      BY <1>18 DEF TellNobody, CloseScript, Return, Goto, TypeOK, UsesScript, InStart,
         StartAlone, FileNamesProcess, ScriptInHand, MonitorsLive, MonitorsNamed,
         WaitsForEnding, MonitorsEndFirst
    <2>4. WaitsForEnding'
      BY <1>18 DEF TellNobody, CloseScript, Return, Goto, TypeOK, InStart, StartAlone,
         StopInHand, FileNamesProcess, MonitorsNamed, WaitsForEnding
    <2>5. MonitorsEndFirst'
      BY <1>18 DEF TellNobody, CloseScript, Return, Goto, TypeOK, ScriptInHand,
         MonitorsLive, MonitorsNamed, WaitsForEnding, MonitorsEndFirst
    <2> QED
      BY <2>1, <2>2, <2>3, <2>4, <2>5 DEF Told
  <1>19. ASSUME NEW m \in Managers, AwaitMonitors(m) PROVE Told'
    <2>1. ScriptInHand'
      BY <1>19 DEF AwaitMonitors, Tick, TypeOK, UsesScript, ScriptInHand
    <2>2. MonitorsLive'
      BY <1>19 DEF AwaitMonitors, Tick, TypeOK, MonitorsLive
    <2>3. MonitorsNamed'
      BY <1>19 DEF AwaitMonitors, Tick, TypeOK, UsesScript, InStart, StartAlone,
         FileNamesProcess, ScriptInHand, MonitorsLive, MonitorsNamed, WaitsForEnding,
         MonitorsEndFirst
    <2>4. WaitsForEnding'
      BY <1>19 DEF AwaitMonitors, Tick, TypeOK, InStart, StartAlone, StopInHand,
         FileNamesProcess, MonitorsNamed, WaitsForEnding
    <2>5. MonitorsEndFirst'
      BY <1>19 DEF AwaitMonitors, Tick, TypeOK, ScriptInHand, MonitorsLive,
         MonitorsNamed, WaitsForEnding, MonitorsEndFirst
    <2> QED
      BY <2>1, <2>2, <2>3, <2>4, <2>5 DEF Told
  <1>20. ASSUME NEW m \in Managers, LeaveMonitors(m) PROVE Told'
    <2>1. ScriptInHand'
      BY <1>20 DEF LeaveMonitors, CloseScript, Return, Goto, TypeOK, UsesScript,
         ScriptInHand
    <2>2. MonitorsLive'
      BY <1>20 DEF LeaveMonitors, CloseScript, Return, Goto, TypeOK, MonitorsLive
    <2>3. MonitorsNamed'
      BY <1>20 DEF LeaveMonitors, CloseScript, Return, Goto, TypeOK, UsesScript,
         InStart, StartAlone, FileNamesProcess, ScriptInHand, MonitorsLive,
         MonitorsNamed, WaitsForEnding, MonitorsEndFirst
    <2>4. WaitsForEnding'
      BY <1>20 DEF LeaveMonitors, CloseScript, Return, Goto, TypeOK, InStart,
         StartAlone, StopInHand, FileNamesProcess, MonitorsNamed, WaitsForEnding
    <2>5. MonitorsEndFirst'
      BY <1>20 DEF LeaveMonitors, CloseScript, Return, Goto, TypeOK, ScriptInHand,
         MonitorsLive, MonitorsNamed, WaitsForEnding, MonitorsEndFirst
    <2> QED
      BY <2>1, <2>2, <2>3, <2>4, <2>5 DEF Told
  <1>21. ASSUME NEW m \in Managers, Exit(m) PROVE Told'
    <2>1. ScriptInHand'
      BY <1>21 DEF Exit, Orphan, Running, Return, Goto, TypeOK, UsesScript,
         ScriptInHand
    <2>2. MonitorsLive'
      BY <1>21 DEF Exit, Orphan, Running, Return, Goto, TypeOK, MonitorsLive
    <2>3. MonitorsNamed'
      BY <1>21 DEF Exit, Orphan, Running, Return, Goto, TypeOK, UsesScript, InStart,
         StartAlone, FileNamesProcess, ScriptInHand, MonitorsLive, MonitorsNamed,
         WaitsForEnding, MonitorsEndFirst
    <2>4. WaitsForEnding'
      BY <1>21 DEF Exit, Orphan, Running, Return, Goto, TypeOK, InStart, StartAlone,
         StopInHand, FileNamesProcess, MonitorsNamed, WaitsForEnding
    <2>5. MonitorsEndFirst'
      BY <1>21 DEF Exit, Orphan, Running, Return, Goto, TypeOK, ScriptInHand,
         MonitorsLive, MonitorsNamed, WaitsForEnding, MonitorsEndFirst
    <2> QED
      BY <2>1, <2>2, <2>3, <2>4, <2>5 DEF Told
  <1>22. ASSUME NEW p \in Processes, End(p) PROVE Told'
    <2>1. ScriptInHand'
      BY <1>22 DEF End, TypeOK, UsesScript, ScriptInHand
    <2>2. MonitorsLive'
      BY <1>22 DEF End, TypeOK, MonitorsLive
    <2>3. MonitorsNamed'
      BY <1>22 DEF End, TypeOK, UsesScript, InStart, StartAlone, FileNamesProcess,
         ScriptInHand, MonitorsLive, MonitorsNamed, WaitsForEnding, MonitorsEndFirst
    <2>4. WaitsForEnding'
      BY <1>22 DEF End, TypeOK, InStart, StartAlone, StopInHand, FileNamesProcess,
         MonitorsNamed, WaitsForEnding
    <2>5. MonitorsEndFirst'
      BY <1>22 DEF End, TypeOK, ScriptInHand, MonitorsLive, MonitorsNamed,
         WaitsForEnding, MonitorsEndFirst
    <2> QED
      BY <2>1, <2>2, <2>3, <2>4, <2>5 DEF Told
  <1>23. ASSUME NEW p \in Processes, Ready(p) PROVE Told'
    <2>1. ScriptInHand'
      BY <1>23 DEF Ready, TypeOK, UsesScript, ScriptInHand
    <2>2. MonitorsLive'
      BY <1>23 DEF Ready, TypeOK, MonitorsLive
    <2>3. MonitorsNamed'
      BY <1>23 DEF Ready, TypeOK, UsesScript, InStart, StartAlone, FileNamesProcess,
         ScriptInHand, MonitorsLive, MonitorsNamed, WaitsForEnding, MonitorsEndFirst
    <2>4. WaitsForEnding'
      BY <1>23 DEF Ready, TypeOK, InStart, StartAlone, StopInHand, FileNamesProcess,
         MonitorsNamed, WaitsForEnding
    <2>5. MonitorsEndFirst'
      BY <1>23 DEF Ready, TypeOK, ScriptInHand, MonitorsLive, MonitorsNamed,
         WaitsForEnding, MonitorsEndFirst
    <2> QED
      BY <2>1, <2>2, <2>3, <2>4, <2>5 DEF Told
  <1>24. ASSUME NEW p \in Processes, Reap(p) PROVE Told'
    <2>1. ScriptInHand'
      BY <1>24 DEF Reap, TypeOK, UsesScript, ScriptInHand
    <2>2. MonitorsLive'
      BY <1>24 DEF Reap, TypeOK, MonitorsLive
    <2>3. MonitorsNamed'
      BY <1>24 DEF Reap, TypeOK, UsesScript, InStart, StartAlone, FileNamesProcess,
         ScriptInHand, MonitorsLive, MonitorsNamed, WaitsForEnding, MonitorsEndFirst
    <2>4. WaitsForEnding'
      BY <1>24 DEF Reap, TypeOK, InStart, StartAlone, StopInHand, FileNamesProcess,
         MonitorsNamed, WaitsForEnding
    <2>5. MonitorsEndFirst'
      BY <1>24 DEF Reap, TypeOK, ScriptInHand, MonitorsLive, MonitorsNamed,
         WaitsForEnding, MonitorsEndFirst
    <2> QED
      BY <2>1, <2>2, <2>3, <2>4, <2>5 DEF Told
  <1>25. ASSUME NEW p \in Processes, RmonEnds(p) PROVE Told'
    <2>1. ScriptInHand'
      BY <1>25 DEF RmonEnds, TypeOK, UsesScript, ScriptInHand
    <2>2. MonitorsLive'
      BY <1>25 DEF RmonEnds, TypeOK, MonitorsLive
    <2>3. MonitorsNamed'
      BY <1>25 DEF RmonEnds, TypeOK, UsesScript, InStart, StartAlone,
         FileNamesProcess, ScriptInHand, MonitorsLive, MonitorsNamed, WaitsForEnding,
         MonitorsEndFirst
    <2>4. WaitsForEnding'
      BY <1>25 DEF RmonEnds, TypeOK, InStart, StartAlone, StopInHand,
         FileNamesProcess, MonitorsNamed, WaitsForEnding
    <2>5. MonitorsEndFirst'
      BY <1>25 DEF RmonEnds, TypeOK, ScriptInHand, MonitorsLive, MonitorsNamed,
         WaitsForEnding, MonitorsEndFirst
    <2> QED
      BY <2>1, <2>2, <2>3, <2>4, <2>5 DEF Told
  <1>26. CASE UNCHANGED vars
    <2>1. ScriptInHand'
      BY <1>26 DEF vars, ScriptInHand, UsesScript
    <2>2. MonitorsLive'
      BY <1>26 DEF vars, MonitorsLive
    <2>3. MonitorsNamed'
      BY <1>26 DEF vars, MonitorsNamed
    <2>4. WaitsForEnding'
      BY <1>26 DEF vars, WaitsForEnding
    <2>5. MonitorsEndFirst'
      BY <1>26 DEF vars, MonitorsEndFirst
    <2> QED
      BY <2>1, <2>2, <2>3, <2>4, <2>5 DEF Told
  <1> QED
    BY <1>1, <1>2, <1>3, <1>4, <1>5, <1>6, <1>7, <1>8, <1>9, <1>10, <1>11, <1>12,
       <1>13, <1>14, <1>15, <1>16, <1>17, <1>18, <1>19, <1>20, <1>21, <1>22, <1>23,
       <1>24, <1>25, <1>26 DEF Next, CallStep, OverlapStep

\* However many stops overlap and are killed, no job step is torn down under a
\* monitor that is still to write its plots, unless one stop emptied the script
\* of another, or srun failed to run it.
THEOREM MonitorsAreFirst == Spec => []MonitorsEndFirst
  <1>1. Spec => Init /\ [][Next]_vars
    BY DEF Spec
  <1>2. IInv /\ RInv /\ [Next]_vars => RInv'
    BY NextTold, UntoldStays DEF RInv
  <1>3. RInv => MonitorsEndFirst
    BY DEF RInv, Told, MonitorsEndFirst
  <1> QED
    BY <1>1, <1>2, <1>3, InitMonitors, Invariance, PTL
=============================================================================
